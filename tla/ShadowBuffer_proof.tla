-------------------------- MODULE ShadowBuffer_proof --------------------------
(***************************************************************************)
(* For every buffer size and number of frames, locks and draws: with the   *)
(* CPU shadow, every draw reads what the buffer held at the call, unless   *)
(* the upload ring ran full.  The argument is about the queue of commands  *)
(* that the GPU has still to execute, and what each of them will find.     *)
(***************************************************************************)
EXTENDS ShadowBuffer, SequenceTheorems, TLAPS

\* A draw reads the buffer's own resource, always; a copy is from the ring.
Commands ==
  [op : {"draw"}, place : {0}, expect : Contents]
  \cup [op : {"copy"}, place : Nat \ {0}, bytes : SUBSET Bytes]
  \cup [op : {"signal"}, fence : 1 .. MaxFrame]

Queue == submitted \o list

Copies(cmd, b) == cmd.op = "copy" /\ b \in cmd.bytes

\* Byte b of the resource is v when the i-th command of the queue q executes,
\* given the resource's contents mem now and those of the ring: the last copy
\* before it has put v there, or it is there now and no copy comes before.
Holds(mem, allocations, q, i, b, v) ==
  /\ \A j \in 1 .. i - 1 :
       Copies(q[j], b) /\ (\A k \in j + 1 .. i - 1 : ~Copies(q[k], b))
         => allocations[q[j].place][b] = v
  /\ (\A j \in 1 .. i - 1 : ~Copies(q[j], b)) => mem[b] = v

QueueTypes ==
  /\ submitted \in Seq(Commands) /\ list \in Seq(Commands)
  /\ ring \in Seq(Contents)
  /\ \A i \in DOMAIN Queue : Queue[i].op = "copy" => Queue[i].place \in DOMAIN ring

ShadowIsCurrent == \A b \in Bytes : want[b] # 0 => shadow[b] = want[b]

DrawsReadTheirs ==
  \A i \in DOMAIN Queue : Queue[i].op = "draw" =>
    \A b \in Bytes :
      Queue[i].expect[b] # 0 => Holds(own, ring, Queue, i, b, Queue[i].expect[b])

\* What is not dirty will be in the resource for the next draw.
CleanBytesArrive ==
  \A b \in Bytes : want[b] # 0 =>
    b \in DirtyBytes \/ Holds(own, ring, Queue, Len(Queue) + 1, b, want[b])

QueueIsRight == ~misread /\ DrawsReadTheirs /\ CleanBytesArrive

ShadowInv ==
  /\ TypeOK
  /\ QueueTypes
  /\ ShadowIsCurrent
  /\ ~fell_back => QueueIsRight

-----------------------------------------------------------------------------
\* What a command finds depends on the commands before it only.
LEMMA HoldsSame ==
  ASSUME NEW mem, NEW allocations, NEW allocations2, NEW q, NEW q2, NEW i \in Nat, NEW b, NEW v,
         Holds(mem, allocations, q, i, b, v),
         \A j \in 1 .. i - 1 : q2[j] = q[j],
         \A j \in 1 .. i - 1 :
           Copies(q[j], b) => allocations2[q[j].place] = allocations[q[j].place]
  PROVE  Holds(mem, allocations2, q2, i, b, v)
<1>1. ASSUME NEW j \in 1 .. i - 1, Copies(q2[j], b), \A k \in j + 1 .. i - 1 : ~Copies(q2[k], b)
      PROVE  allocations2[q2[j].place][b] = v
  <2>1. Copies(q[j], b) /\ \A k \in j + 1 .. i - 1 : ~Copies(q[k], b)
    BY <1>1
  <2>2. QED
    BY <2>1 DEF Holds
<1>2. (\A j \in 1 .. i - 1 : ~Copies(q2[j], b)) => mem[b] = v
  BY DEF Holds
<1>3. QED
  BY <1>1, <1>2 DEF Holds

\* A command that does not copy the byte leaves it; one that does puts there
\* what is in its allocation.
LEMMA HoldsStep ==
  ASSUME NEW mem, NEW allocations, NEW q, NEW i \in Nat \ {0}, NEW b, NEW v,
         Holds(mem, allocations, q, i, b, v), ~Copies(q[i], b)
  PROVE  Holds(mem, allocations, q, i + 1, b, v)
<1>1. (i + 1) - 1 = i
  OBVIOUS
<1>2. ASSUME NEW j \in 1 .. i, Copies(q[j], b), \A k \in j + 1 .. i : ~Copies(q[k], b)
      PROVE  allocations[q[j].place][b] = v
  <2>1. j # i
    BY <1>2
  <2>2. j \in 1 .. i - 1
    BY <2>1
  <2>3. QED
    BY <1>2, <2>2 DEF Holds
<1>3. (\A j \in 1 .. i : ~Copies(q[j], b)) => mem[b] = v
  BY DEF Holds
<1>4. QED
  BY <1>1, <1>2, <1>3 DEF Holds

LEMMA HoldsCopy ==
  ASSUME NEW mem, NEW allocations, NEW q, NEW i \in Nat \ {0}, NEW b, Copies(q[i], b)
  PROVE  Holds(mem, allocations, q, i + 1, b, allocations[q[i].place][b])
<1>1. (i + 1) - 1 = i /\ i \in 1 .. i
  OBVIOUS
<1>2. ASSUME NEW j \in 1 .. i, \A k \in j + 1 .. i : ~Copies(q[k], b) PROVE j = i
  BY <1>2
<1>3. QED
  BY <1>1, <1>2 DEF Holds

\* When the first command has executed, the others find the same.
LEMMA HoldsPop ==
  ASSUME NEW mem, NEW mem2, NEW allocations, NEW q, NEW q2, NEW i \in Nat \ {0}, NEW b, NEW v,
         Holds(mem, allocations, q, i + 1, b, v),
         \A j \in 1 .. i - 1 : q2[j] = q[j + 1],
         mem2[b] = IF Copies(q[1], b) THEN allocations[q[1].place][b] ELSE mem[b]
  PROVE  Holds(mem2, allocations, q2, i, b, v)
<1>1. (i + 1) - 1 = i /\ 1 \in 1 .. i
  OBVIOUS
<1>2. ASSUME NEW j \in 1 .. i - 1, Copies(q2[j], b), \A k \in j + 1 .. i - 1 : ~Copies(q2[k], b)
      PROVE  allocations[q2[j].place][b] = v
  <2>1. j + 1 \in 1 .. i /\ q[j + 1] = q2[j]
    OBVIOUS
  <2>2. ASSUME NEW k \in (j + 1) + 1 .. i PROVE ~Copies(q[k], b)
    <3>1. k - 1 \in j + 1 .. i - 1 /\ q2[k - 1] = q[k]
      OBVIOUS
    <3>2. QED
      BY <1>2, <3>1
  <2>3. QED
    BY <1>1, <1>2, <2>1, <2>2 DEF Holds
<1>3. ASSUME \A j \in 1 .. i - 1 : ~Copies(q2[j], b) PROVE mem2[b] = v
  <2>1. ASSUME NEW k \in 2 .. i PROVE ~Copies(q[k], b)
    <3>1. k - 1 \in 1 .. i - 1 /\ q2[k - 1] = q[k]
      OBVIOUS
    <3>2. QED
      BY <1>3, <3>1
  <2>2. CASE Copies(q[1], b)
    BY <1>1, <2>1, <2>2 DEF Holds
  <2>3. CASE ~Copies(q[1], b)
    <3>1. \A j \in 1 .. i : ~Copies(q[j], b)
      BY <2>1, <2>3
    <3>2. QED
      BY <1>1, <2>3, <3>1 DEF Holds
  <2>4. QED
    BY <2>2, <2>3
<1>4. QED
  BY <1>2, <1>3 DEF Holds

-----------------------------------------------------------------------------
\* The queue grows at its end, as the list is recorded.
LEMMA QueueGrows ==
  ASSUME NEW s \in Seq(Commands), NEW l \in Seq(Commands), NEW cmds \in Seq(Commands)
  PROVE  /\ s \o (l \o cmds) \in Seq(Commands)
         /\ Len(s \o (l \o cmds)) = Len(s \o l) + Len(cmds)
         /\ \A i \in 1 .. Len(s \o l) : (s \o (l \o cmds))[i] = (s \o l)[i]
         /\ \A i \in 1 .. Len(cmds) : (s \o (l \o cmds))[Len(s \o l) + i] = cmds[i]
         /\ Len(s \o l) \in Nat /\ DOMAIN (s \o l) = 1 .. Len(s \o l)
<1>1. /\ Len(s) \in Nat /\ Len(l) \in Nat /\ Len(cmds) \in Nat
      /\ l \o cmds \in Seq(Commands) /\ s \o l \in Seq(Commands)
      /\ Len(s \o l) = Len(s) + Len(l) /\ Len(l \o cmds) = Len(l) + Len(cmds)
  BY ConcatProperties, LenProperties
<1>2. /\ s \o (l \o cmds) \in Seq(Commands)
      /\ Len(s \o (l \o cmds)) = Len(s) + Len(l \o cmds)
  BY <1>1, ConcatProperties
<1>3. s \o (l \o cmds) = (s \o l) \o cmds
  BY SMTT(40), ConcatAssociative
<1>4. /\ \A i \in 1 .. Len(s \o l) : ((s \o l) \o cmds)[i] = (s \o l)[i]
      /\ \A i \in 1 .. Len(cmds) : ((s \o l) \o cmds)[Len(s \o l) + i] = cmds[i]
  BY <1>1, ConcatProperties
<1>5. QED
  BY <1>1, <1>2, <1>3, <1>4, LenProperties
-----------------------------------------------------------------------------
\* What recording a draw does to everything but the resource.
LEMMA RecordingDraws ==
  ASSUME NEW cmds, RecordDraw(cmds)
  PROVE  /\ list' = list \o cmds
         /\ kept' = kept \cup {current_back_buffer}
         /\ used' = used \cup {b \in Bytes : want[b] # 0}
         /\ UNCHANGED <<frame, fence_values, current_back_buffer, waiting,
                        submitted, completed, misread, app, bound, want, writes>>
  BY DEF RecordDraw, frameVars, gpuVars

LEMMA DrawsAreTyped ==
  ASSUME ShadowInv, NEW cmds, RecordDraw(cmds),
         own' \in Contents, \A i \in DOMAIN ring' : ring'[i] \in Contents,
         raced' \in BOOLEAN, fell_back' \in BOOLEAN,
         shadow' = shadow,
         shadow_dirty_lo' \in 0 .. Size, shadow_dirty_hi' \in 0 .. Size
  PROVE  TypeOK'
  BY RecordingDraws DEF ShadowInv, TypeOK, TimelineTypeOK

\* The draw recorded in this step, with the commands of the step before it.
LEMMA DrawCommand ==
  ASSUME ShadowInv
  PROVE  /\ DrawFrom(0) \in Commands /\ DrawFrom(0).op = "draw"
         /\ DrawFrom(0).expect = want
         /\ \A b : ~Copies(DrawFrom(0), b)
         /\ <<DrawFrom(0)>> \in Seq(Commands) /\ Len(<<DrawFrom(0)>>) = 1
<1>1. DrawFrom(0) = [op |-> "draw", place |-> 0, expect |-> want]
  BY DEF DrawFrom
<1>2. want \in Contents
  BY DEF ShadowInv, TypeOK, TimelineTypeOK
<1>3. QED
  BY <1>1, <1>2 DEF Commands, Copies

\* A command that copies nothing, at the end of the queue: it finds what is
\* clean, and leaves it to those after it.
LEMMA AppendKeeps ==
  ASSUME ShadowInv, ~fell_back, NEW d, \A b : ~Copies(d, b),
         d.op = "draw" => d.expect = want /\ Clean,
         Queue' \in Seq(Commands), Len(Queue') = Len(Queue) + 1,
         \A i \in 1 .. Len(Queue) : Queue'[i] = Queue[i],
         Queue'[Len(Queue) + 1] = d,
         UNCHANGED <<misread, want, own, ring, shadow_dirty_lo, shadow_dirty_hi>>
  PROVE  QueueIsRight'
<1>2. PICK q, q2, n : q = Queue /\ q2 = Queue' /\ n = Len(Queue)
  OBVIOUS
<1>3. /\ q \in Seq(Commands) /\ n \in Nat /\ DOMAIN q = 1 .. n /\ DOMAIN q2 = 1 .. n + 1
      /\ Len(q2) = n + 1 /\ (\A i \in 1 .. n : q2[i] = q[i]) /\ q2[n + 1] = d
  <2>1. q \in Seq(Commands)
    BY <1>2, ConcatProperties DEF Queue, ShadowInv, QueueTypes
  <2>2. QED
    BY <1>2, <2>1, LenProperties
<1>4. /\ ~misread
      /\ \A i \in 1 .. n : q[i].op = "draw" =>
           \A b \in Bytes : q[i].expect[b] # 0 => Holds(own, ring, q, i, b, q[i].expect[b])
      /\ \A b \in Bytes : want[b] # 0 =>
           b \in DirtyBytes \/ Holds(own, ring, q, n + 1, b, want[b])
  BY <1>2, <1>3 DEF ShadowInv, QueueIsRight, DrawsReadTheirs, CleanBytesArrive
<1>5. Clean => DirtyBytes = {}
  BY SizeAssumption DEF Clean, DirtyBytes, ShadowInv, TypeOK
<1>6. \A i \in 1 .. n + 1, b \in Bytes : \A v :
        Holds(own, ring, q, i, b, v) => Holds(own, ring, q2, i, b, v)
  BY <1>3, HoldsSame
<1>7. ASSUME NEW i \in DOMAIN q2, q2[i].op = "draw", NEW b \in Bytes, q2[i].expect[b] # 0
      PROVE  Holds(own, ring, q2, i, b, q2[i].expect[b])
  <2>1. CASE i \in 1 .. n
    BY <1>3, <1>4, <1>6, <1>7, <2>1
  <2>2. CASE i = n + 1
    BY <1>3, <1>4, <1>5, <1>6, <1>7, <2>2
  <2>3. QED
    BY <1>3, <2>1, <2>2
<1>8. ASSUME NEW b \in Bytes, want[b] # 0
      PROVE  b \in DirtyBytes \/ Holds(own, ring, q2, (n + 1) + 1, b, want[b])
  BY SMTT(40), <1>3, <1>4, <1>6, <1>8, HoldsStep
<1>9. DrawsReadTheirs'
  BY <1>2, <1>7 DEF DrawsReadTheirs
<1>10. CleanBytesArrive'
  BY <1>2, <1>3, <1>8 DEF CleanBytesArrive, DirtyBytes
<1>11. QED
  BY <1>4, <1>9, <1>10 DEF QueueIsRight

\* The commands in the queue are typed as long as what is appended is.
LEMMA QueueIsTyped ==
  ASSUME QueueTypes, NEW cmds \in Seq(Commands),
         UNCHANGED <<submitted, ring>>, list' = list \o cmds,
         \A i \in 1 .. Len(cmds) : cmds[i].op # "copy"
  PROVE  QueueTypes'
<1>1. /\ list' \in Seq(Commands) /\ submitted' \in Seq(Commands)
  BY ConcatProperties DEF QueueTypes
<1>2. ASSUME NEW i \in DOMAIN Queue', Queue'[i].op = "copy"
      PROVE  Queue'[i].place \in DOMAIN ring'
  <2>1. /\ Queue' = submitted \o (list \o cmds) /\ Len(Queue) \in Nat
        /\ DOMAIN Queue = 1 .. Len(Queue) /\ DOMAIN Queue' = 1 .. Len(Queue) + Len(cmds)
        /\ \A k \in 1 .. Len(Queue) : Queue'[k] = Queue[k]
        /\ \A k \in 1 .. Len(cmds) : Queue'[Len(Queue) + k] = cmds[k]
        /\ Len(cmds) \in Nat
    <3>1. Queue' = submitted \o (list \o cmds)
      BY DEF Queue
    <3>2. /\ submitted \in Seq(Commands) /\ list \in Seq(Commands)
          /\ Queue = submitted \o list /\ Len(cmds) \in Nat
      BY LenProperties DEF QueueTypes, Queue
    <3>3. /\ Queue' \in Seq(Commands) /\ Len(Queue') = Len(Queue) + Len(cmds)
          /\ Len(Queue) \in Nat /\ DOMAIN Queue = 1 .. Len(Queue)
          /\ \A k \in 1 .. Len(Queue) : Queue'[k] = Queue[k]
          /\ \A k \in 1 .. Len(cmds) : Queue'[Len(Queue) + k] = cmds[k]
      BY SMTT(120), <3>1, <3>2, QueueGrows
    <3>4. QED
      BY <3>1, <3>2, <3>3, LenProperties
  <2>2. CASE i <= Len(Queue)
    <3>1. i \in DOMAIN Queue /\ Queue'[i] = Queue[i]
      <4>1. i \in 1 .. Len(Queue)
        BY <1>2, <2>1, <2>2
      <4>2. QED
        BY <2>1, <4>1
    <3>2. QED
      BY <1>2, <3>1 DEF QueueTypes
  <2>3. CASE i > Len(Queue)
    <3>1. i - Len(Queue) \in 1 .. Len(cmds) /\ Len(Queue) + (i - Len(Queue)) = i
      BY <2>1, <2>3
    <3>2. QED
      BY ZenonT(60), <1>2, <2>1, <3>1
  <2>4. QED
    BY SMTT(120), <2>1, <2>2, <2>3
<1>3. QED
  BY <1>1, <1>2 DEF QueueTypes

LEMMA DrawCleanKeeps ==
  ASSUME ShadowInv, DrawClean
  PROVE  ShadowInv'
<1>1. /\ list' = list \o <<DrawFrom(0)>>
      /\ UNCHANGED <<submitted, misread, want, own, ring, shadow, shadow_dirty_lo,
                     shadow_dirty_hi, fell_back>>
      /\ RecordDraw(<<DrawFrom(0)>>) /\ Clean /\ raced' = raced
  BY RecordingDraws DEF DrawClean, shadowVars
<1>2. TypeOK'
  <2>1. TypeOK
    BY DEF ShadowInv
  <2>2. QED
    BY <1>1, <2>1, DrawsAreTyped DEF TypeOK, TimelineTypeOK
<1>3. QueueTypes'
  <2>1. PICK cmds : cmds = <<DrawFrom(0)>>
    OBVIOUS
  <2>2. cmds \in Seq(Commands) /\ \A i \in 1 .. Len(cmds) : cmds[i].op # "copy"
    BY <2>1, DrawCommand
  <2>3. QED
    BY <1>1, <2>1, <2>2, QueueIsTyped DEF ShadowInv
<1>4. ~fell_back => QueueIsRight'
  <2>1. /\ Queue' = submitted \o (list \o <<DrawFrom(0)>>)
        /\ submitted \in Seq(Commands) /\ list \in Seq(Commands)
    BY <1>1 DEF Queue, ShadowInv, QueueTypes
  <2>2. /\ Queue' \in Seq(Commands) /\ Len(Queue') = Len(Queue) + 1
        /\ \A i \in 1 .. Len(Queue) : Queue'[i] = Queue[i]
        /\ Queue'[Len(Queue) + 1] = DrawFrom(0)
    BY SMTT(40), <2>1, DrawCommand, QueueGrows DEF Queue
  <2>3. QED
    BY <1>1, <2>2, DrawCommand, AppendKeeps
<1>5. QED
  BY <1>1, <1>2, <1>3, <1>4 DEF ShadowInv, ShadowIsCurrent

\* The ring is full: from here on nothing is promised.
LEMMA DrawFallingBackKeeps ==
  ASSUME ShadowInv, DrawFallingBack
  PROVE  ShadowInv'
<1>1. /\ list' = list \o <<DrawFrom(0)>>
      /\ own' = [b \in Bytes |-> IF b \in DirtyBytes THEN shadow[b] ELSE own[b]]
      /\ fell_back' = TRUE /\ shadow_dirty_lo' = 0 /\ shadow_dirty_hi' = 0
      /\ UNCHANGED <<submitted, misread, want, ring, shadow>>
      /\ RecordDraw(<<DrawFrom(0)>>) /\ raced' \in BOOLEAN
  BY RecordingDraws DEF DrawFallingBack, Cleaned, ShadowInv, TypeOK, TimelineTypeOK
<1>2. TypeOK'
  <2>1. own' \in Contents
    BY <1>1 DEF ShadowInv, TypeOK, TimelineTypeOK, Contents
  <2>2. \A i \in DOMAIN ring' : ring'[i] \in Contents
    BY <1>1 DEF ShadowInv, TypeOK, TimelineTypeOK
  <2>3. 0 \in 0 .. Size
    BY SizeAssumption
  <2>4. QED
    BY <1>1, <2>1, <2>2, <2>3, DrawsAreTyped
<1>3. QueueTypes'
  <2>1. PICK cmds : cmds = <<DrawFrom(0)>>
    OBVIOUS
  <2>2. cmds \in Seq(Commands) /\ \A i \in 1 .. Len(cmds) : cmds[i].op # "copy"
    BY <2>1, DrawCommand
  <2>3. QED
    BY <1>1, <2>1, <2>2, QueueIsTyped DEF ShadowInv
<1>4. QED
  BY <1>1, <1>2, <1>3 DEF ShadowInv, ShadowIsCurrent

-----------------------------------------------------------------------------
\* The upload goes into the queue before the draw: the draw finds the shadow in
\* the dirty bytes and what was in flight in the others.
LEMMA DrawFlushingKeeps ==
  ASSUME ShadowInv, DrawFlushing
  PROVE  ShadowInv'
<1> DEFINE copy == CopyFrom(Len(ring) + 1, DirtyBytes)
           cmds == <<copy, DrawFrom(0)>>
<1>1. /\ list' = list \o cmds /\ RecordDraw(cmds)
      /\ ring' = Append(ring, shadow)
      /\ shadow_dirty_lo' = 0 /\ shadow_dirty_hi' = 0
      /\ UNCHANGED <<submitted, misread, want, own, raced, shadow, fell_back>>
  BY RecordingDraws DEF DrawFlushing, Cleaned, UploadBeforeDraw
<1>2. PICK q, q2, n, a, d :
        /\ q = Queue /\ q2 = Queue' /\ n = Len(Queue) /\ a = copy /\ d = DrawFrom(0)
  OBVIOUS
<1>t. /\ submitted \in Seq(Commands) /\ list \in Seq(Commands) /\ ring \in Seq(Contents)
      /\ Len(ring) \in Nat /\ DOMAIN ring = 1 .. Len(ring)
      /\ shadow \in Contents /\ own \in Contents /\ DirtyBytes \subseteq Bytes
      /\ \A b \in Bytes : want[b] # 0 => shadow[b] = want[b]
  <2>1. /\ submitted \in Seq(Commands) /\ list \in Seq(Commands) /\ ring \in Seq(Contents)
        /\ Len(ring) \in Nat /\ DOMAIN ring = 1 .. Len(ring)
    BY LenProperties DEF ShadowInv, QueueTypes
  <2>2. DirtyBytes \subseteq Bytes
    BY SizeAssumption DEF ShadowInv, TypeOK, DirtyBytes, Bytes
  <2>3. QED
    BY <2>1, <2>2 DEF ShadowInv, TypeOK, TimelineTypeOK, ShadowIsCurrent
<1>3. /\ a.op = "copy" /\ a.place = Len(ring) + 1 /\ a.bytes = DirtyBytes
      /\ a \in Commands
  BY <1>2, <1>t DEF CopyFrom, Commands
<1>4. d.op = "draw" /\ d.expect = want /\ d \in Commands /\ \A b : ~Copies(d, b)
  BY <1>2, DrawCommand
<1> HIDE DEF copy
<1>5. cmds \in Seq(Commands) /\ Len(cmds) = 2 /\ cmds[1] = a /\ cmds[2] = d
  BY <1>2, <1>3, <1>4
<1> HIDE DEF cmds
<1>6. /\ q \in Seq(Commands) /\ q2 \in Seq(Commands) /\ n \in Nat /\ Len(q2) = n + 2
      /\ \A i \in 1 .. n : q2[i] = q[i]
      /\ q2[n + 1] = a /\ q2[n + 2] = d
  <2>1. Queue' = submitted \o (list \o cmds) /\ Queue = submitted \o list
    BY <1>1 DEF Queue
  <2>2. Queue \in Seq(Commands)
    BY <1>t, <2>1, ConcatProperties
  <2>3. 1 \in 1 .. Len(cmds) /\ 2 \in 1 .. Len(cmds)
    BY <1>5
  <2>4. /\ Queue' \in Seq(Commands) /\ Len(Queue') = Len(Queue) + Len(cmds)
        /\ Len(Queue) \in Nat
        /\ \A k \in 1 .. Len(Queue) : Queue'[k] = Queue[k]
        /\ \A k \in 1 .. Len(cmds) : Queue'[Len(Queue) + k] = cmds[k]
    <3>1. PICK s \in Seq(Commands), l \in Seq(Commands), c \in Seq(Commands) :
            s = submitted /\ l = list /\ c = cmds
      BY <1>5, <1>t
    <3>2. /\ s \o (l \o c) \in Seq(Commands)
          /\ Len(s \o (l \o c)) = Len(s \o l) + Len(c)
          /\ Len(s \o l) \in Nat
          /\ \A k \in 1 .. Len(s \o l) : (s \o (l \o c))[k] = (s \o l)[k]
          /\ \A k \in 1 .. Len(c) : (s \o (l \o c))[Len(s \o l) + k] = c[k]
      BY SMTT(120), <3>1, QueueGrows
    <3>3. QED
      BY <2>1, <3>1, <3>2
  <2>5. QED
    BY <1>2, <1>5, <2>2, <2>3, <2>4
<1>7. DOMAIN q = 1 .. n /\ DOMAIN q2 = 1 .. n + 2
  BY <1>2, <1>6, LenProperties
<1>8. /\ ring' \in Seq(Contents) /\ DOMAIN ring' = 1 .. Len(ring) + 1
      /\ \A p \in DOMAIN ring : ring'[p] = ring[p]
      /\ ring'[Len(ring) + 1] = shadow
  BY <1>1, <1>t, AppendProperties
<1>9. TypeOK'
  <2>1. \A i \in DOMAIN ring' : ring'[i] \in Contents
    BY <1>8, ElementOfSeq, LenProperties
  <2>2. 0 \in 0 .. Size /\ raced' \in BOOLEAN /\ fell_back' \in BOOLEAN
    BY <1>1, SizeAssumption DEF ShadowInv, TypeOK, TimelineTypeOK
  <2>3. QED
    BY <1>1, <1>t, <2>1, <2>2, DrawsAreTyped
<1>10. ASSUME NEW i \in 1 .. n, q[i].op = "copy" PROVE q[i].place \in DOMAIN ring
  BY <1>2, <1>7, <1>10 DEF ShadowInv, QueueTypes
<1>11. QueueTypes'
  <2>1. list' \in Seq(Commands)
    BY <1>1, <1>5, <1>t, ConcatProperties
  <2>2. ASSUME NEW i \in DOMAIN q2, q2[i].op = "copy" PROVE q2[i].place \in DOMAIN ring'
    <3>1. CASE i \in 1 .. n
      BY SMTT(120), <1>6, <1>8, <1>10, <1>t, <2>2, <3>1
    <3>2. CASE i = n + 1
      BY <1>3, <1>6, <1>8, <1>t, <3>2
    <3>3. CASE i = n + 2
      BY <1>4, <1>6, <2>2, <3>3
    <3>4. QED
      BY <1>6, <1>7, <3>1, <3>2, <3>3
  <2>3. QED
    BY <1>1, <1>2, <1>8, <1>t, <2>1, <2>2 DEF QueueTypes
<1>12. ASSUME ~fell_back PROVE QueueIsRight'
  <2>1. /\ ~misread
        /\ \A i \in 1 .. n : q[i].op = "draw" =>
             \A b \in Bytes : q[i].expect[b] # 0 => Holds(own, ring, q, i, b, q[i].expect[b])
        /\ \A b \in Bytes : want[b] # 0 =>
             b \in DirtyBytes \/ Holds(own, ring, q, n + 1, b, want[b])
    BY <1>2, <1>7, <1>12 DEF ShadowInv, QueueIsRight, DrawsReadTheirs, CleanBytesArrive
  <2>2. ASSUME NEW i \in 1 .. n + 1, NEW b \in Bytes, NEW v, Holds(own, ring, q, i, b, v)
        PROVE  Holds(own, ring', q2, i, b, v)
    <3>1. \A j \in 1 .. i - 1 : j \in 1 .. n
      BY <1>6
    <3>2. \A j \in 1 .. i - 1 : Copies(q[j], b) => ring'[q[j].place] = ring[q[j].place]
      BY <1>8, <1>10, <3>1 DEF Copies
    <3>3. QED
      BY <1>6, <2>2, <3>1, <3>2, HoldsSame
  <2>3. ASSUME NEW b \in Bytes, want[b] # 0
        PROVE  Holds(own, ring', q2, n + 2, b, want[b])
    <3>0. n + 1 \in Nat \ {0} /\ (n + 1) + 1 = n + 2
      BY <1>6
    <3>1. CASE b \in DirtyBytes
      <4>1. Copies(q2[n + 1], b) /\ ring'[q2[n + 1].place][b] = want[b]
        BY <1>3, <1>6, <1>8, <1>t, <2>3, <3>1 DEF Copies
      <4>2. Holds(own, ring', q2, (n + 1) + 1, b, ring'[q2[n + 1].place][b])
        BY <3>0, <4>1, HoldsCopy
      <4>3. QED
        BY <3>0, <4>1, <4>2
    <3>2. CASE b \notin DirtyBytes
      <4>1. Holds(own, ring', q2, n + 1, b, want[b])
        BY <1>6, <2>1, <2>2, <2>3, <3>2
      <4>2. ~Copies(q2[n + 1], b)
        BY <1>3, <1>6, <3>2 DEF Copies
      <4>3. Holds(own, ring', q2, (n + 1) + 1, b, want[b])
        BY <3>0, <4>1, <4>2, HoldsStep
      <4>4. QED
        BY <3>0, <4>3
    <3>3. QED
      BY <3>1, <3>2
  <2>4. ASSUME NEW i \in DOMAIN q2, q2[i].op = "draw", NEW b \in Bytes, q2[i].expect[b] # 0
        PROVE  Holds(own, ring', q2, i, b, q2[i].expect[b])
    <3>1. CASE i \in 1 .. n
      BY <1>6, <2>1, <2>2, <2>4, <3>1
    <3>2. CASE i = n + 2
      BY <1>4, <1>6, <2>3, <2>4, <3>2
    <3>3. i # n + 1
      BY <1>3, <1>6, <2>4
    <3>4. QED
      BY <1>6, <1>7, <3>1, <3>2, <3>3
  <2>5. DrawsReadTheirs'
    BY <1>1, <1>2, <2>4 DEF DrawsReadTheirs
  <2>6. ASSUME NEW b \in Bytes, want[b] # 0
        PROVE  Holds(own, ring', q2, Len(q2) + 1, b, want[b])
    <3>1. n + 2 \in Nat \ {0} /\ (n + 2) + 1 = Len(q2) + 1 /\ ~Copies(q2[n + 2], b)
      BY <1>4, <1>6
    <3>2. Holds(own, ring', q2, (n + 2) + 1, b, want[b])
      BY <2>3, <2>6, <3>1, HoldsStep
    <3>3. QED
      BY <3>1, <3>2
  <2>7. CleanBytesArrive'
    BY <1>1, <1>2, <2>6 DEF CleanBytesArrive
  <2>8. QED
    BY <1>1, <2>1, <2>5, <2>7 DEF QueueIsRight
<1>13. QED
  BY <1>1, <1>9, <1>11, <1>12 DEF ShadowInv, ShadowIsCurrent

-----------------------------------------------------------------------------
\* A lock only widens the dirty range, and the shadow has what was written.
LEMMA LockKeeps ==
  ASSUME ShadowInv, NEW r \in Ranges, NEW keep \in {{}, Bytes}, Lock(r, keep)
  PROVE  ShadowInv'
<1>1. /\ writes < MaxWrites /\ writes' = writes + 1
      /\ want' = [b \in Bytes |-> IF b \in BytesOf(r) THEN writes + 1
                                  ELSE IF b \in keep THEN want[b] ELSE 0]
      /\ shadow' = Overwrite(shadow, BytesOf(r), writes + 1) /\ Widen(r)
      /\ UNCHANGED <<frame, fence_values, current_back_buffer, waiting, submitted, completed,
                     misread, app, bound, kept, used, list, own, ring, raced, fell_back>>
  BY DEF Lock, AppWrites, frameVars, gpuVars, refVars
<1>t. /\ writes \in Nat /\ MaxWrites \in Nat /\ Size \in Nat \ {0}
      /\ shadow \in Contents /\ want \in Contents
      /\ shadow_dirty_lo \in 0 .. Size /\ shadow_dirty_hi \in 0 .. Size
      /\ r.offset \in Nat /\ r.size \in Nat /\ r.offset + r.size <= Size
  BY BoundsAssumption, SizeAssumption DEF ShadowInv, TypeOK, TimelineTypeOK, Ranges, Bytes
<1>2. shadow' = [b \in Bytes |-> IF b \in BytesOf(r) THEN writes + 1 ELSE shadow[b]]
  BY <1>1, <1>t DEF Overwrite, Contents
<1>3. want' \in Contents /\ shadow' \in Contents
  BY <1>1, <1>2, <1>t DEF Contents
<1>4. /\ shadow_dirty_lo' \in 0 .. Size /\ shadow_dirty_hi' \in 0 .. Size
      /\ \A b \in DirtyBytes \cup BytesOf(r) : b \in DirtyBytes'
  BY SMTT(120), <1>1, <1>t DEF Widen, Clean, DirtyBytes, BytesOf
<1>5. TypeOK'
  <2>1. writes' \in 0 .. MaxWrites
    BY <1>1, <1>t
  <2>2. QED
    BY <1>1, <1>3, <1>4, <2>1 DEF ShadowInv, TypeOK, TimelineTypeOK
<1>6. Queue' = Queue
  BY <1>1 DEF Queue
<1>7. QueueTypes'
  BY <1>1, <1>6 DEF ShadowInv, QueueTypes
<1>8. ShadowIsCurrent'
  BY <1>1, <1>2 DEF ShadowInv, ShadowIsCurrent
<1>9. ASSUME ~fell_back PROVE QueueIsRight'
  <2>1. ~misread' /\ DrawsReadTheirs'
    BY <1>1, <1>6, <1>9 DEF ShadowInv, QueueIsRight, DrawsReadTheirs
  <2>2. ASSUME NEW b \in Bytes, want'[b] # 0, b \notin DirtyBytes'
        PROVE  Holds(own, ring, Queue, Len(Queue) + 1, b, want'[b])
    <3>1. b \notin BytesOf(r) /\ b \notin DirtyBytes
      BY <1>4, <2>2
    <3>2. want'[b] = want[b]
      BY <1>1, <2>2, <3>1
    <3>3. QED
      BY <1>9, <2>2, <3>1, <3>2 DEF ShadowInv, QueueIsRight, CleanBytesArrive
  <2>3. CleanBytesArrive'
    BY <1>1, <1>6, <2>2 DEF CleanBytesArrive
  <2>4. QED
    BY <2>1, <2>3 DEF QueueIsRight
<1>10. QED
  BY <1>1, <1>5, <1>7, <1>8, <1>9 DEF ShadowInv

\* Submission appends the signal of the fence.
LEMMA SubmitKeeps ==
  ASSUME ShadowInv, NEW should_present \in BOOLEAN, Submit(should_present)
  PROVE  ShadowInv'
<1> DEFINE signal == Signal(frame)
<1>1. /\ ~waiting /\ frame <= MaxFrame
      /\ submitted' = (submitted \o list \o <<>>) \o <<signal>> /\ list' = <<>>
      /\ fence_values' = [fence_values EXCEPT ![current_back_buffer] = frame]
      /\ frame' = frame + 1 /\ waiting' = TRUE
      /\ current_back_buffer' = NextBackBuffer(should_present)
      /\ UNCHANGED <<completed, misread, app, bound, kept, want, used, writes, own, raced, ring,
                     shadow, shadow_dirty_lo, shadow_dirty_hi, fell_back>>
  BY DEF Submit, SubmitAndWait, refVars, appVars, shadowVars
<1>t. /\ frame \in Nat /\ frame >= 1 /\ MaxFrame \in Nat
      /\ submitted \in Seq(Commands) /\ list \in Seq(Commands) /\ Queue \in Seq(Commands)
  BY BoundsAssumption, ConcatProperties
     DEF ShadowInv, TypeOK, TimelineTypeOK, QueueTypes, Queue
<1>2. /\ signal \in Commands /\ signal.op = "signal" /\ \A b : ~Copies(signal, b)
  BY <1>1, <1>t DEF Signal, Commands, Copies
<1> HIDE DEF signal
<1>3. submitted' = Append(Queue, signal) /\ Queue' = Append(Queue, signal)
  <2>1. PICK s \in Seq(Commands), l \in Seq(Commands), c \in Commands :
          s = submitted /\ l = list /\ c = signal
    BY <1>2, <1>t
  <2>2. s \o l \in Seq(Commands) /\ (s \o l) \o <<>> = s \o l
    BY ConcatProperties, ConcatEmptySeq
  <2>3. (s \o l) \o <<c>> = Append(s \o l, c) /\ Append(s \o l, c) \o <<>> = Append(s \o l, c)
    BY <2>2, AppendIsConcat, ConcatEmptySeq, AppendProperties
  <2>4. QED
    BY <1>1, <2>1, <2>2, <2>3 DEF Queue
<1>4. /\ Queue' \in Seq(Commands) /\ submitted' \in Seq(Commands) /\ list' \in Seq(Commands)
      /\ Len(Queue) \in Nat /\ Len(Queue') = Len(Queue) + 1
      /\ \A i \in 1 .. Len(Queue) : Queue'[i] = Queue[i]
      /\ Queue'[Len(Queue) + 1] = signal
      /\ DOMAIN Queue = 1 .. Len(Queue) /\ DOMAIN Queue' = 1 .. Len(Queue) + 1
  BY <1>1, <1>2, <1>3, <1>t, AppendProperties, LenProperties
<1>5. TypeOK'
  <2>1. current_back_buffer' \in Slots
    BY SMTT(40), <1>1, TimelineNumBackBuffersAssumption
       DEF ShadowInv, TypeOK, TimelineTypeOK, NextBackBuffer, Slots
  <2>2. fence_values' \in [Slots -> 0 .. MaxFrame] /\ frame' \in 1 .. MaxFrame + 1
    BY <1>1, <1>t DEF ShadowInv, TypeOK, TimelineTypeOK
  <2>3. QED
    BY <1>1, <2>1, <2>2 DEF ShadowInv, TypeOK, TimelineTypeOK
<1>6. QueueTypes'
  <2>1. ASSUME NEW i \in DOMAIN Queue', Queue'[i].op = "copy"
        PROVE  Queue'[i].place \in DOMAIN ring
    <3>1. i # Len(Queue) + 1
      BY <1>2, <1>4, <2>1
    <3>2. i \in DOMAIN Queue /\ Queue'[i] = Queue[i]
      BY <1>4, <2>1, <3>1
    <3>3. QED
      BY <2>1, <3>2 DEF ShadowInv, QueueTypes
  <2>2. QED
    BY <1>1, <1>4, <2>1 DEF ShadowInv, QueueTypes
<1>7. ~fell_back => QueueIsRight'
  BY <1>1, <1>2, <1>4, AppendKeeps
<1>8. QED
  BY <1>1, <1>5, <1>6, <1>7 DEF ShadowInv, ShadowIsCurrent

-----------------------------------------------------------------------------
\* The GPU executes the first command of the queue: a draw finds what it expects,
\* a copy moves the byte where the commands after it count on it.
LEMMA GpuKeeps ==
  ASSUME ShadowInv, GpuExecutes, UNCHANGED shadowVars
  PROVE  ShadowInv'
<1>1. /\ submitted # <<>> /\ submitted' = Tail(submitted)
      /\ own' = IF Head(submitted).op = "copy"
                THEN [b \in Bytes |-> IF b \in Head(submitted).bytes
                                      THEN Memory(Head(submitted).place)[b] ELSE own[b]]
                ELSE own
      /\ completed' = IF Head(submitted).op = "signal" THEN Head(submitted).fence ELSE completed
      /\ misread' = (misread \/ /\ Head(submitted).op = "draw"
                                /\ \E b \in Bytes : Head(submitted).expect[b]
                                     \notin {0, Memory(Head(submitted).place)[b]})
      /\ UNCHANGED <<frame, fence_values, current_back_buffer, waiting, app, bound, kept, want,
                     used, writes, list, ring, raced, shadow, shadow_dirty_lo, shadow_dirty_hi,
                     fell_back>>
  BY DEF GpuExecutes, frameVars, refVars, appVars, shadowVars
<1>2. PICK q, q2, n, cmd : q = Queue /\ q2 = Queue' /\ n = Len(Queue) /\ cmd = Head(submitted)
  OBVIOUS
<1>t. submitted \in Seq(Commands) /\ list \in Seq(Commands) /\ ring \in Seq(Contents)
  BY DEF ShadowInv, QueueTypes
<1>3. /\ q \in Seq(Commands) /\ n \in Nat /\ n >= 1
      /\ q[1] = cmd /\ cmd \in Commands /\ submitted' \in Seq(Commands)
      /\ q2 \in Seq(Commands) /\ Len(q2) = n - 1 /\ \A i \in 1 .. n - 1 : q2[i] = q[i + 1]
  <2>1. PICK s \in Seq(Commands), l \in Seq(Commands) : s = submitted /\ l = list /\ s # <<>>
    BY <1>1, <1>t
  <2>2. /\ Tail(s) \in Seq(Commands) /\ Len(s) \in Nat /\ Len(s) >= 1 /\ Len(Tail(s)) = Len(s) - 1
        /\ (\A i \in 1 .. Len(s) - 1 : Tail(s)[i] = s[i + 1])
        /\ Head(s) = s[1] /\ Head(s) \in Commands
    BY <2>1, HeadTailProperties, EmptySeq, LenProperties, ElementOfSeq
  <2>3. /\ s \o l \in Seq(Commands) /\ Len(s \o l) = Len(s) + Len(l)
        /\ \A i \in 1 .. Len(s) + Len(l) :
             (s \o l)[i] = IF i <= Len(s) THEN s[i] ELSE l[i - Len(s)]
    BY ConcatProperties
  <2>4. /\ Tail(s) \o l \in Seq(Commands) /\ Len(Tail(s) \o l) = Len(Tail(s)) + Len(l)
        /\ \A i \in 1 .. Len(Tail(s)) + Len(l) : (Tail(s) \o l)[i] =
             IF i <= Len(Tail(s)) THEN Tail(s)[i] ELSE l[i - Len(Tail(s))]
    BY <2>2, ConcatProperties
  <2>5. Len(l) \in Nat
    BY LenProperties
  <2>6. q = s \o l /\ q2 = Tail(s) \o l /\ n = Len(s) + Len(l)
    BY <1>1, <1>2, <2>1, <2>3 DEF Queue
  <2>7. ASSUME NEW i \in 1 .. n - 1 PROVE q2[i] = q[i + 1]
    <3>1. CASE i <= Len(s) - 1
      BY <2>2, <2>3, <2>4, <2>5, <2>6, <3>1
    <3>2. CASE i > Len(s) - 1
      <4>1. l[i - Len(Tail(s))] = l[i + 1 - Len(s)]
        BY <2>2
      <4>2. QED
        BY SMTT(30), <2>2, <2>3, <2>4, <2>5, <2>6, <3>2, <4>1
    <3>3. QED
      BY <2>2, <3>1, <3>2
  <2>8. QED
    BY SMTT(40), <1>1, <1>2, <2>1, <2>2, <2>3, <2>4, <2>5, <2>6, <2>7
<1>4. /\ DOMAIN q = 1 .. n /\ DOMAIN q2 = 1 .. n - 1 /\ DOMAIN ring = 1 .. Len(ring)
      /\ Len(ring) \in Nat /\ \A p \in DOMAIN ring : ring[p] \in Contents
  BY <1>2, <1>3, <1>t, LenProperties, ElementOfSeq
<1>5. /\ own \in Contents
      /\ \A i \in 1 .. n : q[i].op = "copy" => q[i].place \in DOMAIN ring
      /\ cmd.op = "copy" => cmd.place \in DOMAIN ring /\ cmd.place # 0
  <2>1. \A i \in 1 .. n : q[i].op = "copy" => q[i].place \in DOMAIN ring
    BY <1>2, <1>4 DEF ShadowInv, QueueTypes
  <2>2. cmd.op = "copy" => cmd.place \in DOMAIN ring
    BY SMTT(30), <1>3, <2>1
  <2>3. cmd.op = "copy" => cmd.place # 0
    BY <1>4, <2>2
  <2>4. QED
    BY <2>1, <2>2, <2>3 DEF ShadowInv, TypeOK, TimelineTypeOK
<1>6. /\ own' \in Contents
      /\ \A b \in Bytes : own'[b] = IF Copies(cmd, b) THEN ring[cmd.place][b] ELSE own[b]
  <2>1. CASE cmd.op = "copy"
    BY <1>1, <1>2, <1>4, <1>5, <2>1 DEF Memory, Copies, Contents
  <2>2. CASE cmd.op # "copy"
    BY <1>1, <1>2, <1>5, <2>2 DEF Copies
  <2>3. QED
    BY SMTT(40), <2>1, <2>2
<1>7. TypeOK'
  <2>1. cmd.op = "signal" => cmd.fence \in 0 .. MaxFrame
    BY <1>3, BoundsAssumption DEF Commands
  <2>2. completed' \in 0 .. MaxFrame
    BY <1>1, <1>2, <2>1 DEF ShadowInv, TypeOK, TimelineTypeOK
  <2>3. misread' \in BOOLEAN
    BY <1>1 DEF ShadowInv, TypeOK, TimelineTypeOK
  <2>4. QED
    BY <1>1, <1>6, <2>2, <2>3 DEF ShadowInv, TypeOK, TimelineTypeOK
<1>8. QueueTypes'
  <2>1. ASSUME NEW i \in DOMAIN q2, q2[i].op = "copy" PROVE q2[i].place \in DOMAIN ring
    <3>1. i \in 1 .. n - 1 /\ i + 1 \in 1 .. n /\ q2[i] = q[i + 1]
      BY <1>3, <1>4, <2>1
    <3>2. QED
      BY <1>5, <2>1, <3>1
  <2>2. QED
    BY <1>1, <1>2, <1>3, <1>t, <2>1 DEF QueueTypes
<1>9. ASSUME ~fell_back PROVE QueueIsRight'
  <2>1. /\ ~misread
        /\ \A i \in 1 .. n : q[i].op = "draw" =>
             \A b \in Bytes : q[i].expect[b] # 0 => Holds(own, ring, q, i, b, q[i].expect[b])
        /\ \A b \in Bytes : want[b] # 0 =>
             b \in DirtyBytes \/ Holds(own, ring, q, n + 1, b, want[b])
    BY <1>2, <1>4, <1>9 DEF ShadowInv, QueueIsRight, DrawsReadTheirs, CleanBytesArrive
  <2>2. ~misread'
    <3>1. SUFFICES ASSUME cmd.op = "draw", NEW b \in Bytes, cmd.expect[b] # 0
                   PROVE  cmd.expect[b] = Memory(cmd.place)[b]
      BY <1>1, <1>2, <2>1
    <3>2. Holds(own, ring, q, 1, b, cmd.expect[b])
      BY SMTT(40), <1>3, <2>1, <3>1
    <3>3. own[b] = cmd.expect[b]
      BY <3>2 DEF Holds
    <3>4. cmd.place = 0
      BY <1>3, <3>1 DEF Commands
    <3>5. QED
      BY <3>3, <3>4 DEF Memory
  <2>3. ASSUME NEW i \in 1 .. n, NEW b \in Bytes, NEW v, Holds(own, ring, q, i + 1, b, v)
        PROVE  Holds(own', ring, q2, i, b, v)
    <3>1. i \in Nat \ {0} /\ \A j \in 1 .. i - 1 : q2[j] = q[j + 1]
      BY <1>3
    <3>2. own'[b] = IF Copies(q[1], b) THEN ring[q[1].place][b] ELSE own[b]
      BY <1>3, <1>6
    <3>3. QED
      BY <2>3, <3>1, <3>2, HoldsPop
  <2>4. ASSUME NEW i \in DOMAIN q2, q2[i].op = "draw", NEW b \in Bytes, q2[i].expect[b] # 0
        PROVE  Holds(own', ring, q2, i, b, q2[i].expect[b])
    <3>1. i \in 1 .. n /\ i + 1 \in 1 .. n /\ q2[i] = q[i + 1]
      BY <1>3, <1>4, <2>4
    <3>2. QED
      BY <2>1, <2>3, <2>4, <3>1
  <2>5. DrawsReadTheirs'
    BY <1>1, <1>2, <2>4 DEF DrawsReadTheirs
  <2>6. ASSUME NEW b \in Bytes, want[b] # 0, b \notin DirtyBytes
        PROVE  Holds(own', ring, q2, Len(q2) + 1, b, want[b])
    <3>1. n \in 1 .. n /\ Len(q2) + 1 = n
      BY <1>3
    <3>2. QED
      BY <2>1, <2>3, <2>6, <3>1
  <2>7. CleanBytesArrive'
    BY <1>1, <1>2, <2>6 DEF CleanBytesArrive, DirtyBytes
  <2>8. QED
    BY <2>2, <2>5, <2>7 DEF QueueIsRight
<1>10. QED
  BY <1>1, <1>7, <1>8, <1>9 DEF ShadowInv, ShadowIsCurrent

-----------------------------------------------------------------------------
\* The rest changes neither the queue nor the contents.
LEMMA OthersKeep ==
  ASSUME ShadowInv, WaitForFrame \/ Bind \/ Unbind \/ ReleaseBuffer \/ UNCHANGED timelineVars,
         UNCHANGED shadowVars
  PROVE  ShadowInv'
<1>1. /\ UNCHANGED <<frame, fence_values, current_back_buffer, submitted, completed, misread,
                     want, used, writes, list, own, ring, raced, shadow, shadow_dirty_lo,
                     shadow_dirty_hi, fell_back>>
      /\ kept' \subseteq kept /\ app' \in BOOLEAN /\ bound' \in BOOLEAN /\ waiting' \in BOOLEAN
  BY DEF WaitForFrame, KeptAfter, Bind, Unbind, ReleaseBuffer, timelineVars, frameVars, gpuVars,
     refVars, appVars, shadowVars, ShadowInv, TypeOK, TimelineTypeOK
<1>2. TypeOK'
  BY <1>1 DEF ShadowInv, TypeOK, TimelineTypeOK
<1>3. QED
  BY <1>1, <1>2 DEF ShadowInv, QueueTypes, ShadowIsCurrent, QueueIsRight, DrawsReadTheirs,
     CleanBytesArrive, Queue, DirtyBytes

LEMMA InitShadow == Init => ShadowInv
<1> SUFFICES ASSUME Init PROVE ShadowInv
  OBVIOUS
<1>1. TypeOK
  <2>1. 0 \in 0 .. Size /\ 0 \in 0 .. MaxWrites /\ 0 \in 0 .. MaxFrame /\ 1 \in 1 .. MaxFrame + 1
        /\ 0 \in Slots
    BY SizeAssumption, BoundsAssumption, TimelineNumBackBuffersAssumption DEF Slots
  <2>2. [b \in Bytes |-> 0] \in Contents /\ [s \in Slots |-> 0] \in [Slots -> 0 .. MaxFrame]
    BY <2>1 DEF Contents
  <2>3. QED
    BY SMTT(30), <2>1, <2>2 DEF Init, TimelineInit, TypeOK, TimelineTypeOK
<1>2. submitted = <<>> /\ list = <<>> /\ ring = <<>> /\ Queue = <<>> /\ ~misread
      /\ \A b \in Bytes : want[b] = 0
  BY DEF Init, TimelineInit, Queue
<1>3. QED
  BY <1>1, <1>2 DEF ShadowInv, QueueTypes, ShadowIsCurrent, QueueIsRight, DrawsReadTheirs,
     CleanBytesArrive

LEMMA ShadowInductive == ShadowInv /\ [Next]_vars => ShadowInv'
  BY LockKeeps, DrawCleanKeeps, DrawFlushingKeeps, DrawFallingBackKeeps, SubmitKeeps, GpuKeeps,
     OthersKeep DEF Next, vars

\* Contents, commands and the dirty range have the values the rest of the
\* argument computes with.
THEOREM ShadowTypes == Spec => []TypeOK
  BY InitShadow, ShadowInductive, PTL DEF Spec, ShadowInv

\* Every draw reads what the buffer held at the draw call, however the locks
\* before it, after it and under it were made, unless the upload ring was found
\* full (Buffer::ShadowLock, FlushShadowToResource, GetGpuPtr).
THEOREM ShadowReads == Spec => []WrongReadsAreFallbacks
<1>1. ShadowInv => WrongReadsAreFallbacks
  BY DEF ShadowInv, QueueIsRight, WrongReadsAreFallbacks
<1>2. QED
  BY <1>1, InitShadow, ShadowInductive, PTL DEF Spec

\* With no copy under way, the resource differs from the application's buffer
\* in dirty bytes only: between the shadow, the dirty range and the resource no
\* byte is lost.
THEOREM ShadowLosesNothing == Spec => []DirtyCoversTheDifference
<1>1. ShadowInv => DirtyCoversTheDifference
  <2> SUFFICES ASSUME ShadowInv, \A cmd \in Pending : cmd.op # "copy", ~fell_back,
                      NEW b \in Bytes, want[b] # 0, b \notin DirtyBytes
               PROVE  want[b] = own[b]
    BY DEF DirtyCoversTheDifference
  <2>1. Holds(own, ring, Queue, Len(Queue) + 1, b, want[b])
    BY DEF ShadowInv, QueueIsRight, CleanBytesArrive
  <2>2. ASSUME NEW j \in 1 .. Len(Queue) PROVE Queue[j].op # "copy"
    <3>1. PICK s \in Seq(Commands), l \in Seq(Commands) : s = submitted /\ l = list
      BY DEF ShadowInv, QueueTypes
    <3>2. /\ Len(s) \in Nat /\ Len(l) \in Nat /\ DOMAIN s = 1 .. Len(s) /\ DOMAIN l = 1 .. Len(l)
          /\ Len(s \o l) = Len(s) + Len(l)
          /\ (s \o l)[j] = IF j <= Len(s) THEN s[j] ELSE l[j - Len(s)]
      BY <2>2, <3>1, ConcatProperties, LenProperties DEF Queue
    <3>3. Queue[j] \in Pending
      BY SMTT(40), <2>2, <3>1, <3>2 DEF Pending, Queue
    <3>4. QED
      BY <3>3
  <2>3. Len(Queue) \in Nat
    BY ConcatProperties, LenProperties DEF Queue, ShadowInv, QueueTypes
  <2>4. QED
    BY <2>1, <2>2, <2>3 DEF Holds, Copies
<1>2. QED
  BY <1>1, InitShadow, ShadowInductive, PTL DEF Spec
=============================================================================
