-------------------------- MODULE DynamicBuffer_proof --------------------------
(***************************************************************************)
(* For every buffer size, number of frames, locks and draws, and for every *)
(* application: what DynamicBuffer::Lock and ::GetGpuPtr move between the  *)
(* cache, the ring and the resource is never lost, but for writes into the *)
(* mapped resource under commands that use it.  The argument is about the  *)
(* queue of commands that the GPU has still to execute, and what each of   *)
(* them will find.                                                         *)
(***************************************************************************)
EXTENDS DynamicBuffer, SequenceTheorems, WellFoundedInduction, TLAPS

\* Draws are from the resource or from the ring, copies from the ring.
Commands ==
  [op : {"draw"}, place : Nat, expect : Contents]
  \cup [op : {"copy"}, place : Nat \ {0}, bytes : SUBSET Bytes]
  \cup [op : {"signal"}, fence : 1 .. MaxFrame]

Queue == submitted \o list

Copies(cmd, b) == cmd.op = "copy" /\ b \in cmd.bytes

\* Byte b of the resource is v when the i-th command of the queue q executes,
\* given the resource's contents mem now and those of the ring: the last copy
\* before it has put v there, or it is there now and no copy comes before.
Holds(mem, allocations, q, i, b, v) ==
  /\ \A j \in 1 .. i - 1 :
       Copies(q[j], b) /\ (\A k \in j + 1 .. i - 1 : ~Copies(q[k], b))
         => allocations[q[j].place][b] = v
  /\ (\A j \in 1 .. i - 1 : ~Copies(q[j], b)) => mem[b] = v

\* Every place named has been allocated.
QueueTypes ==
  /\ submitted \in Seq(Commands) /\ list \in Seq(Commands)
  /\ ring \in Seq(Contents)
  /\ \A i \in DOMAIN Queue : Queue[i].op # "signal" => Queue[i].place \in 0 .. Len(ring)

\* A buffer is to be persisted exactly if it was locked for the ring in this
\* frame, and then its contents are in the cache or in an allocation.
FrameIsKnown ==
  /\ waiting => list = <<>>
  /\ prev_lock_frame <= frame
  /\ queued <=> prev_lock_frame = frame
  /\ Speculative => queued
  /\ queued /\ ~Speculative => ring_alloc.place # 0

\* An append goes to an allocation that no copy reads yet, and whose drawn bytes
\* the application leaves alone.
AppendsAreSafe ==
  queued /\ ~Speculative =>
    \A i \in DOMAIN Queue :
      Queue[i].op # "signal" /\ Queue[i].place = ring_alloc.place =>
        Queue[i].op = "draw" /\ \A b \in Bytes : Queue[i].expect[b] # 0 => b \in used

DrawsReadTheirs ==
  \A i \in DOMAIN Queue : Queue[i].op = "draw" =>
    \A b \in Bytes : Queue[i].expect[b] # 0 =>
      IF Queue[i].place = 0
      THEN Holds(own, ring, Queue, i, b, Queue[i].expect[b])
      ELSE ring[Queue[i].place][b] = Queue[i].expect[b]

\* Where this frame's contents are, if it has locked the buffer for the ring.
Latest == IF Speculative THEN cache ELSE ring[ring_alloc.place]

\* What the application relies on is there and going to be persisted, or will be
\* in the resource for the next draw.
ContentsAreSafe ==
  \A b \in Bytes : want[b] # 0 =>
    IF queued THEN b \in RangeBytes /\ Latest[b] = want[b]
              ELSE Holds(own, ring, Queue, Len(Queue) + 1, b, want[b])

QueueIsRight == ~misread /\ DrawsReadTheirs /\ ContentsAreSafe

DynamicTypes == TypeOK /\ QueueTypes /\ FrameIsKnown

DynamicInv ==
  /\ DynamicTypes
  /\ AppendsAreSafe
  /\ ~raced => QueueIsRight

-----------------------------------------------------------------------------
\* What a command finds depends on the commands before it only.
LEMMA HoldsSame ==
  ASSUME NEW mem, NEW allocations, NEW allocations2, NEW q, NEW q2, NEW i \in Nat, NEW b, NEW v,
         Holds(mem, allocations, q, i, b, v),
         \A j \in 1 .. i - 1 : q2[j] = q[j],
         \A j \in 1 .. i - 1 :
           Copies(q[j], b) => allocations2[q[j].place] = allocations[q[j].place]
  PROVE  Holds(mem, allocations2, q2, i, b, v)
<1>1. ASSUME NEW j \in 1 .. i - 1, Copies(q2[j], b), \A k \in j + 1 .. i - 1 : ~Copies(q2[k], b)
      PROVE  allocations2[q2[j].place][b] = v
  <2>1. Copies(q[j], b) /\ \A k \in j + 1 .. i - 1 : ~Copies(q[k], b)
    BY <1>1
  <2>2. QED
    BY <2>1 DEF Holds
<1>2. (\A j \in 1 .. i - 1 : ~Copies(q2[j], b)) => mem[b] = v
  BY DEF Holds
<1>3. QED
  BY <1>1, <1>2 DEF Holds

\* A command that does not copy the byte leaves it; one that does puts there
\* what is in its allocation.
LEMMA HoldsStep ==
  ASSUME NEW mem, NEW allocations, NEW q, NEW i \in Nat \ {0}, NEW b, NEW v,
         Holds(mem, allocations, q, i, b, v), ~Copies(q[i], b)
  PROVE  Holds(mem, allocations, q, i + 1, b, v)
<1>1. (i + 1) - 1 = i
  OBVIOUS
<1>2. ASSUME NEW j \in 1 .. i, Copies(q[j], b), \A k \in j + 1 .. i : ~Copies(q[k], b)
      PROVE  allocations[q[j].place][b] = v
  <2>1. j # i
    BY <1>2
  <2>2. j \in 1 .. i - 1
    BY <2>1
  <2>3. QED
    BY <1>2, <2>2 DEF Holds
<1>3. (\A j \in 1 .. i : ~Copies(q[j], b)) => mem[b] = v
  BY DEF Holds
<1>4. QED
  BY <1>1, <1>2, <1>3 DEF Holds

LEMMA HoldsCopy ==
  ASSUME NEW mem, NEW allocations, NEW q, NEW i \in Nat \ {0}, NEW b, Copies(q[i], b)
  PROVE  Holds(mem, allocations, q, i + 1, b, allocations[q[i].place][b])
<1>1. (i + 1) - 1 = i /\ i \in 1 .. i
  OBVIOUS
<1>2. ASSUME NEW j \in 1 .. i, \A k \in j + 1 .. i : ~Copies(q[k], b) PROVE j = i
  BY <1>2
<1>3. QED
  BY <1>1, <1>2 DEF Holds

\* When the first command has executed, the others find the same.
LEMMA HoldsPop ==
  ASSUME NEW mem, NEW mem2, NEW allocations, NEW q, NEW q2, NEW i \in Nat \ {0}, NEW b, NEW v,
         Holds(mem, allocations, q, i + 1, b, v),
         \A j \in 1 .. i - 1 : q2[j] = q[j + 1],
         mem2[b] = IF Copies(q[1], b) THEN allocations[q[1].place][b] ELSE mem[b]
  PROVE  Holds(mem2, allocations, q2, i, b, v)
<1>1. (i + 1) - 1 = i /\ 1 \in 1 .. i
  OBVIOUS
<1>2. ASSUME NEW j \in 1 .. i - 1, Copies(q2[j], b), \A k \in j + 1 .. i - 1 : ~Copies(q2[k], b)
      PROVE  allocations[q2[j].place][b] = v
  <2>1. j + 1 \in 1 .. i /\ q[j + 1] = q2[j]
    OBVIOUS
  <2>2. ASSUME NEW k \in (j + 1) + 1 .. i PROVE ~Copies(q[k], b)
    <3>1. k - 1 \in j + 1 .. i - 1 /\ q2[k - 1] = q[k]
      OBVIOUS
    <3>2. QED
      BY <1>2, <3>1
  <2>3. QED
    BY <1>1, <1>2, <2>1, <2>2 DEF Holds
<1>3. ASSUME \A j \in 1 .. i - 1 : ~Copies(q2[j], b) PROVE mem2[b] = v
  <2>1. ASSUME NEW k \in 2 .. i PROVE ~Copies(q[k], b)
    <3>1. k - 1 \in 1 .. i - 1 /\ q2[k - 1] = q[k]
      OBVIOUS
    <3>2. QED
      BY <1>3, <3>1
  <2>2. CASE Copies(q[1], b)
    BY <1>1, <2>1, <2>2 DEF Holds
  <2>3. CASE ~Copies(q[1], b)
    <3>1. \A j \in 1 .. i : ~Copies(q[j], b)
      BY <2>1, <2>3
    <3>2. QED
      BY <1>1, <2>3, <3>1 DEF Holds
  <2>4. QED
    BY <2>2, <2>3
<1>4. QED
  BY <1>2, <1>3 DEF Holds

-----------------------------------------------------------------------------
\* The queue grows at its end, as the list is recorded.
LEMMA QueueGrows ==
  ASSUME NEW s \in Seq(Commands), NEW l \in Seq(Commands), NEW cmds \in Seq(Commands)
  PROVE  /\ s \o (l \o cmds) \in Seq(Commands)
         /\ Len(s \o (l \o cmds)) = Len(s \o l) + Len(cmds)
         /\ \A i \in 1 .. Len(s \o l) : (s \o (l \o cmds))[i] = (s \o l)[i]
         /\ \A i \in 1 .. Len(cmds) : (s \o (l \o cmds))[Len(s \o l) + i] = cmds[i]
         /\ Len(s \o l) \in Nat /\ DOMAIN (s \o l) = 1 .. Len(s \o l)
<1>1. /\ Len(s) \in Nat /\ Len(l) \in Nat /\ Len(cmds) \in Nat
      /\ l \o cmds \in Seq(Commands) /\ s \o l \in Seq(Commands)
      /\ Len(s \o l) = Len(s) + Len(l) /\ Len(l \o cmds) = Len(l) + Len(cmds)
  BY ConcatProperties, LenProperties
<1>2. /\ s \o (l \o cmds) \in Seq(Commands)
      /\ Len(s \o (l \o cmds)) = Len(s) + Len(l \o cmds)
  BY <1>1, ConcatProperties
<1>3. s \o (l \o cmds) = (s \o l) \o cmds
  BY SMTT(40), ConcatAssociative
<1>4. /\ \A i \in 1 .. Len(s \o l) : ((s \o l) \o cmds)[i] = (s \o l)[i]
      /\ \A i \in 1 .. Len(cmds) : ((s \o l) \o cmds)[Len(s \o l) + i] = cmds[i]
  BY <1>1, ConcatProperties
<1>5. QED
  BY <1>1, <1>2, <1>3, <1>4, LenProperties
-----------------------------------------------------------------------------

\* The queue with the commands cmds at its end.
LEMMA GrownQueue ==
  ASSUME QueueTypes, NEW cmds \in Seq(Commands),
         Queue' = submitted \o (list \o cmds)
  PROVE  /\ Queue \in Seq(Commands) /\ Queue' \in Seq(Commands)
         /\ Len(Queue) \in Nat /\ Len(Queue') = Len(Queue) + Len(cmds)
         /\ DOMAIN Queue = 1 .. Len(Queue) /\ DOMAIN Queue' = 1 .. Len(Queue) + Len(cmds)
         /\ \A i \in 1 .. Len(Queue) : Queue'[i] = Queue[i]
         /\ \A i \in 1 .. Len(cmds) : Queue'[Len(Queue) + i] = cmds[i]
<1>1. PICK s \in Seq(Commands), l \in Seq(Commands) : s = submitted /\ l = list
  BY DEF QueueTypes
<1>2. Queue = s \o l /\ Queue' = s \o (l \o cmds) /\ s \o l \in Seq(Commands)
  BY <1>1, ConcatProperties DEF Queue
<1>3. QED
  BY SMTT(30), <1>2, QueueGrows, LenProperties

LEMMA GrownByOne ==
  ASSUME QueueTypes, NEW c \in Commands, Queue' = submitted \o (list \o <<c>>)
  PROVE  /\ Queue \in Seq(Commands) /\ Queue' \in Seq(Commands)
         /\ Len(Queue) \in Nat /\ Len(Queue') = Len(Queue) + 1
         /\ DOMAIN Queue = 1 .. Len(Queue) /\ DOMAIN Queue' = 1 .. Len(Queue) + 1
         /\ \A i \in 1 .. Len(Queue) : Queue'[i] = Queue[i]
         /\ Queue'[Len(Queue) + 1] = c
<1>1. PICK cmds : cmds = <<c>>
  OBVIOUS
<1>2. /\ cmds \in Seq(Commands) /\ Len(cmds) = 1 /\ cmds[1] = c /\ 1 \in 1 .. Len(cmds)
      /\ Queue' = submitted \o (list \o cmds)
  BY <1>1
<1>3. QED
  BY <1>1, <1>2, GrownQueue

\* What PersistSpeculativeWrite leaves: if the buffer is queued, its contents
\* are in the current allocation.
LEMMA Allocated ==
  ASSUME DynamicTypes
  PROVE  /\ Len(ring) \in Nat /\ DOMAIN ring = 1 .. Len(ring)
         /\ RingAfter \in Seq(Contents) /\ Len(RingAfter) \in Nat
         /\ Len(ring) <= Len(RingAfter) /\ DOMAIN RingAfter = 1 .. Len(RingAfter)
         /\ \A p \in DOMAIN ring : RingAfter[p] = ring[p]
         /\ AllocAfter \in [place : 0 .. Len(RingAfter), frame : 0 .. MaxFrame + 1]
         /\ queued => /\ AllocAfter.place \in 1 .. Len(RingAfter)
                      /\ RingAfter[AllocAfter.place] = Latest
         /\ IF Speculative THEN AllocAfter.place = Len(ring) + 1
                           ELSE AllocAfter.place = ring_alloc.place /\ RingAfter = ring
<1>1. /\ ring \in Seq(Contents) /\ cache \in Contents
      /\ ring_alloc \in [place : 0 .. Len(ring), frame : 0 .. MaxFrame + 1]
      /\ frame \in 0 .. MaxFrame + 1
  BY BoundsAssumption DEF DynamicTypes, TypeOK, TimelineTypeOK, QueueTypes
<1>2. Len(ring) \in Nat /\ DOMAIN ring = 1 .. Len(ring)
  BY <1>1, LenProperties
<1>3. CASE Speculative
  <2>1. /\ RingAfter = Append(ring, cache) /\ Latest = cache
        /\ AllocAfter = [place |-> Len(ring) + 1, frame |-> frame]
    BY <1>3 DEF RingAfter, AllocAfter, Latest
  <2>2. /\ RingAfter \in Seq(Contents) /\ Len(RingAfter) = Len(ring) + 1
        /\ DOMAIN RingAfter = 1 .. Len(RingAfter)
        /\ \A p \in 1 .. Len(ring) : RingAfter[p] = ring[p]
        /\ RingAfter[Len(ring) + 1] = cache
    BY <1>1, <1>2, <2>1, AppendProperties, LenProperties
  <2>3. QED
    BY <1>1, <1>2, <1>3, <2>1, <2>2
<1>4. CASE ~Speculative
  <2>1. RingAfter = ring /\ Latest = ring[ring_alloc.place] /\ AllocAfter = ring_alloc
    BY <1>4 DEF RingAfter, AllocAfter, Latest
  <2>2. queued => ring_alloc.place # 0
    BY <1>4 DEF DynamicTypes, FrameIsKnown
  <2>3. QED
    BY <1>1, <1>2, <1>4, <2>1, <2>2
<1>5. QED
  BY <1>3, <1>4

\* Commands added at the end, and allocations added to the ring, leave what the
\* commands before them find.
LEMMA EarlierCommands ==
  ASSUME DynamicTypes, NEW ring2, NEW cmds \in Seq(Commands),
         \A p \in DOMAIN ring : ring2[p] = ring[p],
         Queue' = submitted \o (list \o cmds)
  PROVE  /\ \A i \in 1 .. Len(Queue) + 1, b \in Bytes : \A v :
              Holds(own, ring, Queue, i, b, v) => Holds(own, ring2, Queue', i, b, v)
         /\ DrawsReadTheirs => \A i \in 1 .. Len(Queue) : Queue'[i].op = "draw" =>
              \A b \in Bytes : Queue'[i].expect[b] # 0 =>
                IF Queue'[i].place = 0
                THEN Holds(own, ring2, Queue', i, b, Queue'[i].expect[b])
                ELSE ring2[Queue'[i].place][b] = Queue'[i].expect[b]
<1>1. PICK q, q2, n : q = Queue /\ q2 = Queue' /\ n = Len(Queue)
  OBVIOUS
<1>2. /\ n \in Nat /\ q \in Seq(Commands) /\ DOMAIN q = 1 .. n
      /\ \A i \in 1 .. n : q2[i] = q[i]
  BY <1>1, GrownQueue DEF DynamicTypes
<1>3. Len(ring) \in Nat /\ DOMAIN ring = 1 .. Len(ring)
  BY LenProperties DEF DynamicTypes, QueueTypes
<1>4. \A i \in 1 .. n : q[i] \in Commands
  BY <1>1, <1>2, ElementOfSeq
<1>5. ASSUME NEW i \in 1 .. n, q[i].op # "signal"
      PROVE  /\ q[i].op = "copy" => ring2[q[i].place] = ring[q[i].place]
             /\ q[i].op = "draw" /\ q[i].place # 0 => ring2[q[i].place] = ring[q[i].place]
  <2>1. q[i].place \in 0 .. Len(ring)
    BY <1>1, <1>2, <1>5 DEF DynamicTypes, QueueTypes
  <2>2. q[i].op = "copy" => q[i].place # 0
    BY <1>4, <1>5 DEF Commands
  <2>3. q[i].place # 0 => q[i].place \in DOMAIN ring
    BY <1>3, <2>1
  <2>4. QED
    BY <2>2, <2>3
<1>6. ASSUME NEW i \in 1 .. n + 1, NEW b \in Bytes, NEW v, Holds(own, ring, q, i, b, v)
      PROVE  Holds(own, ring2, q2, i, b, v)
  <2>1. i \in Nat /\ \A j \in 1 .. i - 1 : j \in 1 .. n
    BY <1>2
  <2>2. \A j \in 1 .. i - 1 : Copies(q[j], b) => ring2[q[j].place] = ring[q[j].place]
    BY <1>5, <2>1 DEF Copies
  <2>3. QED
    BY <1>2, <1>6, <2>1, <2>2, HoldsSame
<1>7. ASSUME DrawsReadTheirs, NEW i \in 1 .. n, q2[i].op = "draw", NEW b \in Bytes,
             q2[i].expect[b] # 0
      PROVE  IF q2[i].place = 0 THEN Holds(own, ring2, q2, i, b, q2[i].expect[b])
             ELSE ring2[q2[i].place][b] = q2[i].expect[b]
  <2>1. q2[i] = q[i] /\ i \in 1 .. n + 1
    BY <1>2
  <2>2. IF q[i].place = 0 THEN Holds(own, ring, q, i, b, q[i].expect[b])
        ELSE ring[q[i].place][b] = q[i].expect[b]
    <3>1. i \in DOMAIN Queue /\ Queue[i] = q[i] /\ Queue[i].op = "draw" /\ Queue[i].expect[b] # 0
      BY <1>1, <1>2, <1>7, <2>1
    <3>2. IF Queue[i].place = 0 THEN Holds(own, ring, Queue, i, b, Queue[i].expect[b])
          ELSE ring[Queue[i].place][b] = Queue[i].expect[b]
      BY Zenon, <1>7, <3>1 DEF DrawsReadTheirs
    <3>3. QED
      BY <1>1, <3>2
  <2>3. CASE q[i].place = 0
    BY <1>6, <2>1, <2>2, <2>3
  <2>4. CASE q[i].place # 0
    BY <1>5, <1>7, <2>1, <2>2, <2>4
  <2>5. QED
    BY <2>3, <2>4
<1>8. QED
  BY ZenonT(60), <1>1, <1>6, <1>7

-----------------------------------------------------------------------------
\* A draw is recorded: it reads the resource, or the allocation that holds what
\* the application's buffer holds.
LEMMA DrawKeepsTypes ==
  ASSUME DynamicTypes, Draw
  PROVE  DynamicTypes'
<1> DEFINE d == DrawFrom(Place)
<1>1. /\ ~waiting /\ list' = list \o <<d>>
      /\ kept' = kept \cup {current_back_buffer}
      /\ used' = used \cup {b \in Bytes : want[b] # 0}
      /\ UNCHANGED <<frame, fence_values, current_back_buffer, waiting, submitted, completed,
                     misread, app, bound, want, writes, habits, own, raced, has_spec, cache,
                     written_ranges, queued, locked>>
      /\ ring' = RingAfter /\ ring_alloc' = AllocAfter
      /\ spec_persisted' = (spec_persisted \/ Speculative)
      /\ prev_lock_frame' = IF Speculative THEN frame ELSE prev_lock_frame
  BY DEF Draw, RecordDraw, GetGpuPtr, frameVars, gpuVars
<1>2. /\ d.op = "draw" /\ d.place = Place /\ d.expect = want /\ d \in Commands
      /\ Place \in 0 .. Len(RingAfter) /\ <<d>> \in Seq(Commands) /\ Len(<<d>>) = 1
      /\ <<d>>[1] = d
  <2>1. Place \in 0 .. Len(RingAfter)
    BY Allocated DEF Place
  <2>2. d = [op |-> "draw", place |-> Place, expect |-> want] /\ want \in Contents
    BY DEF DrawFrom, DynamicTypes, TypeOK, TimelineTypeOK
  <2>3. Place \in Nat
    BY <2>1, Allocated
  <2>4. QED
    BY <2>1, <2>2, <2>3 DEF Commands
<1> HIDE DEF d
<1>3. Queue' = submitted \o (list \o <<d>>)
  BY <1>1 DEF Queue
<1>4. /\ RingAfter \in Seq(Contents) /\ DOMAIN RingAfter = 1 .. Len(RingAfter)
      /\ Len(ring) \in Nat /\ Len(RingAfter) \in Nat /\ Len(ring) <= Len(RingAfter)
      /\ AllocAfter \in [place : 0 .. Len(RingAfter), frame : 0 .. MaxFrame + 1]
  BY Allocated
<1>5. TypeOK'
  <2>1. \A i \in DOMAIN ring' : ring'[i] \in Contents
    BY <1>1, <1>4, ElementOfSeq
  <2>2. prev_lock_frame' \in 0 .. MaxFrame + 1 /\ spec_persisted' \in BOOLEAN
    BY SMTT(40), <1>1, BoundsAssumption DEF DynamicTypes, TypeOK, TimelineTypeOK
  <2>3. QED
    BY <1>1, <1>4, <2>1, <2>2 DEF DynamicTypes, TypeOK, TimelineTypeOK
<1>6. QueueTypes'
  <2>1. list' \in Seq(Commands) /\ submitted' \in Seq(Commands)
    BY <1>1, <1>2, ConcatProperties DEF DynamicTypes, QueueTypes
  <2>2. ASSUME NEW i \in DOMAIN Queue', Queue'[i].op # "signal"
        PROVE  Queue'[i].place \in 0 .. Len(ring')
    <3>1. /\ Len(Queue) \in Nat /\ DOMAIN Queue = 1 .. Len(Queue)
          /\ DOMAIN Queue' = 1 .. Len(Queue) + 1
          /\ \A j \in 1 .. Len(Queue) : Queue'[j] = Queue[j]
          /\ Queue'[Len(Queue) + 1] = d
      BY <1>2, <1>3, GrownByOne DEF DynamicTypes
    <3>2. CASE i = Len(Queue) + 1
      BY <1>1, <1>2, <3>1, <3>2
    <3>3. CASE i \in 1 .. Len(Queue)
      <4>1. Queue[i].place \in 0 .. Len(ring)
        BY <2>2, <3>1, <3>3 DEF DynamicTypes, QueueTypes
      <4>2. QED
        BY <1>1, <1>4, <3>1, <3>3, <4>1
    <3>4. QED
      BY <3>1, <3>2, <3>3
  <2>3. QED
    BY <1>1, <1>4, <2>1, <2>2 DEF QueueTypes
<1>7. FrameIsKnown'
  <2>1. FrameIsKnown /\ frame \in Nat /\ prev_lock_frame \in Nat
    BY BoundsAssumption DEF DynamicTypes, TypeOK, TimelineTypeOK
  <2>2. prev_lock_frame' = prev_lock_frame
    BY <1>1, <2>1 DEF FrameIsKnown
  <2>3. ~Speculative'
    BY <1>1 DEF Speculative
  <2>4. queued => ring_alloc'.place # 0
    BY <1>1, Allocated
  <2>5. QED
    BY <1>1, <2>1, <2>2, <2>3, <2>4 DEF FrameIsKnown
<1>8. QED
  BY <1>5, <1>6, <1>7 DEF DynamicTypes

LEMMA DrawKeeps ==
  ASSUME DynamicInv, Draw
  PROVE  DynamicInv'
<1> DEFINE d == DrawFrom(Place)
<1>1. /\ list' = list \o <<d>>
      /\ used' = used \cup {b \in Bytes : want[b] # 0}
      /\ UNCHANGED <<frame, submitted, misread, want, own, raced, has_spec, cache,
                     written_ranges, queued>>
      /\ ring' = RingAfter /\ ring_alloc' = AllocAfter
      /\ spec_persisted' = (spec_persisted \/ Speculative)
  BY DEF Draw, RecordDraw, GetGpuPtr, frameVars, gpuVars
<1>2. /\ d.op = "draw" /\ d.place = Place /\ d.expect = want /\ d \in Commands
      /\ <<d>> \in Seq(Commands) /\ Len(<<d>>) = 1 /\ <<d>>[1] = d
      /\ \A b : ~Copies(d, b)
  <2>1. Place \in Nat
    BY Allocated DEF Place, DynamicInv
  <2>2. d = [op |-> "draw", place |-> Place, expect |-> want] /\ want \in Contents
    BY DEF DrawFrom, DynamicInv, DynamicTypes, TypeOK, TimelineTypeOK
  <2>3. QED
    BY <2>1, <2>2 DEF Commands, Copies
<1> HIDE DEF d
<1>3. Queue' = submitted \o (list \o <<d>>) /\ DynamicTypes
  BY <1>1 DEF Queue, DynamicInv
<1>4. PICK q, q2, n : q = Queue /\ q2 = Queue' /\ n = Len(Queue)
  OBVIOUS
<1>5. /\ n \in Nat /\ DOMAIN q = 1 .. n /\ DOMAIN q2 = 1 .. n + 1 /\ Len(q2) = n + 1
      /\ (\A i \in 1 .. n : q2[i] = q[i]) /\ q2[n + 1] = d
  BY <1>2, <1>3, <1>4, GrownByOne DEF DynamicTypes
<1>6. /\ Len(ring) \in Nat /\ Len(RingAfter) \in Nat
      /\ \A p \in DOMAIN ring : ring'[p] = ring[p]
      /\ queued => /\ AllocAfter.place \in 1 .. Len(RingAfter)
                   /\ RingAfter[AllocAfter.place] = Latest
      /\ IF Speculative THEN AllocAfter.place = Len(ring) + 1
                        ELSE AllocAfter.place = ring_alloc.place
  BY <1>1, <1>3, Allocated
<1>7. /\ queued => Place = AllocAfter.place
      /\ ~queued => Place = 0
  BY <1>3 DEF Place, OnRing, DynamicTypes, FrameIsKnown
<1>8. ~Speculative'
  BY <1>1 DEF Speculative
<1>9. DynamicTypes'
  BY <1>3, DrawKeepsTypes
<1>10. AppendsAreSafe'
  <2>1. SUFFICES ASSUME queued, NEW i \in 1 .. n + 1, q2[i].op # "signal",
                        q2[i].place = AllocAfter.place
                 PROVE  q2[i].op = "draw" /\ \A b \in Bytes : q2[i].expect[b] # 0 => b \in used'
    BY <1>1, <1>4, <1>5 DEF AppendsAreSafe
  <2>2. CASE i = n + 1
    BY <1>1, <1>2, <1>5, <2>2
  <2>3. CASE i \in 1 .. n
    <3>1. q2[i] = q[i] /\ Queue[i] = q[i] /\ i \in DOMAIN Queue
      BY <1>4, <1>5, <2>3
    <3>2. q[i].place \in 0 .. Len(ring)
      BY <1>3, <2>1, <3>1 DEF DynamicTypes, QueueTypes
    <3>3. ~Speculative
      BY <1>6, <2>1, <3>1, <3>2
    <3>4. Queue[i].op # "signal" /\ Queue[i].place = ring_alloc.place
      BY <1>6, <2>1, <3>1, <3>3
    <3>5. q[i].op = "draw" /\ \A b \in Bytes : q[i].expect[b] # 0 => b \in used
      BY <2>1, <3>1, <3>3, <3>4 DEF DynamicInv, AppendsAreSafe
    <3>6. QED
      BY <1>1, <3>1, <3>5
  <2>4. QED
    BY <1>5, <2>2, <2>3
<1>11. ASSUME ~raced PROVE QueueIsRight'
  <2>1. ~misread /\ DrawsReadTheirs /\ ContentsAreSafe
    BY <1>11 DEF DynamicInv, QueueIsRight
  <2>2. /\ \A i \in 1 .. n + 1, b \in Bytes : \A v :
              Holds(own, ring, q, i, b, v) => Holds(own, ring', q2, i, b, v)
        /\ \A i \in 1 .. n : q2[i].op = "draw" =>
              \A b \in Bytes : q2[i].expect[b] # 0 =>
                IF q2[i].place = 0 THEN Holds(own, ring', q2, i, b, q2[i].expect[b])
                ELSE ring'[q2[i].place][b] = q2[i].expect[b]
    <3>1. PICK r2, cmds : r2 = ring' /\ cmds = <<d>>
      OBVIOUS
    <3>2. /\ \A p \in DOMAIN ring : r2[p] = ring[p]
          /\ cmds \in Seq(Commands) /\ Queue' = submitted \o (list \o cmds)
      BY <1>2, <1>3, <1>6, <3>1
    <3>3. /\ \A i \in 1 .. Len(Queue) + 1, b \in Bytes : \A v :
                Holds(own, ring, Queue, i, b, v) => Holds(own, r2, Queue', i, b, v)
          /\ \A i \in 1 .. Len(Queue) : Queue'[i].op = "draw" =>
                \A b \in Bytes : Queue'[i].expect[b] # 0 =>
                  IF Queue'[i].place = 0 THEN Holds(own, r2, Queue', i, b, Queue'[i].expect[b])
                  ELSE r2[Queue'[i].place][b] = Queue'[i].expect[b]
      BY ZenonT(30), <1>3, <2>1, <3>2, EarlierCommands
    <3>4. QED
      BY <1>4, <3>1, <3>3
  <2>3. ASSUME NEW b \in Bytes, want[b] # 0
        PROVE  /\ queued => b \in RangeBytes /\ Latest[b] = want[b]
               /\ ~queued => Holds(own, ring, q, n + 1, b, want[b])
    BY <1>4, <2>1, <2>3 DEF ContentsAreSafe
  <2>4. ASSUME NEW i \in 1 .. n + 1, q2[i].op = "draw", NEW b \in Bytes, q2[i].expect[b] # 0
        PROVE  IF q2[i].place = 0 THEN Holds(own, ring', q2, i, b, q2[i].expect[b])
               ELSE ring'[q2[i].place][b] = q2[i].expect[b]
    <3>1. CASE i \in 1 .. n
      BY <2>2, <2>4, <3>1
    <3>2. CASE i = n + 1
      <4>1. q2[i] = d /\ n + 1 \in 1 .. n + 1 /\ want[b] # 0
        BY <1>2, <1>5, <2>4, <3>2
      <4>2. CASE queued
        BY SMTT(40), <1>1, <1>2, <1>6, <1>7, <2>3, <4>1, <4>2
      <4>3. CASE ~queued
        BY <1>2, <1>7, <2>2, <2>3, <3>2, <4>1, <4>3
      <4>4. QED
        BY <4>2, <4>3
    <3>3. QED
      BY <1>5, <3>1, <3>2
  <2>5. DrawsReadTheirs'
    BY <1>1, <1>4, <1>5, <2>4 DEF DrawsReadTheirs
  <2>6. ASSUME NEW b \in Bytes, want[b] # 0
        PROVE  IF queued THEN b \in RangeBytes /\ ring'[ring_alloc'.place][b] = want[b]
               ELSE Holds(own, ring', q2, Len(q2) + 1, b, want[b])
    <3>1. CASE queued
      BY <1>1, <1>6, <2>3, <2>6, <3>1
    <3>2. CASE ~queued
      <4>1. n + 1 \in Nat \ {0} /\ n + 1 \in 1 .. n + 1 /\ (n + 1) + 1 = Len(q2) + 1
            /\ ~Copies(q2[n + 1], b)
        BY <1>2, <1>5
      <4>2. Holds(own, ring', q2, n + 1, b, want[b])
        BY <2>2, <2>3, <2>6, <3>2, <4>1
      <4>3. Holds(own, ring', q2, (n + 1) + 1, b, want[b])
        BY <4>1, <4>2, HoldsStep
      <4>4. QED
        BY <3>2, <4>1, <4>3
    <3>3. QED
      BY <3>1, <3>2
  <2>7. ContentsAreSafe'
    BY <1>1, <1>4, <1>8, <2>6 DEF ContentsAreSafe, Latest, RangeBytes
  <2>8. QED
    BY <1>1, <2>1, <2>5, <2>7 DEF QueueIsRight
<1>12. QED
  BY <1>1, <1>9, <1>10, <1>11 DEF DynamicInv

-----------------------------------------------------------------------------
\* RangeSet::insert loses no byte, of the range or of those before it.  The
\* ranges next to the new one exist, offsets being bounded.
LEMMA Neighbours ==
  ASSUME NEW S, S # {}, \A q \in S : q.offset \in Bytes
  PROVE  /\ \E q \in S : \A p \in S : p.offset <= q.offset
         /\ \E q \in S : \A p \in S : q.offset <= p.offset
<1>1. Size \in Nat /\ \A q \in S : q.offset \in Nat /\ Size - q.offset \in Nat
  BY SizeAssumption DEF Bytes
<1>2. ASSUME NEW T, T \subseteq Nat, T # {} PROVE \E x \in T : \A y \in T : x <= y
  <2>1. PICK x \in T : \A y \in T : <<y, x>> \notin OpToRel(<, Nat)
    BY <1>2, NatLessThanWellFounded, WFMin
  <2>2. ASSUME NEW y \in T PROVE x <= y
    <3>1. x \in Nat /\ y \in Nat
      BY <1>2
    <3>2. ~(y < x)
      BY <2>1, <3>1 DEF OpToRel
    <3>3. QED
      BY <3>1, <3>2
  <2>3. QED
    BY <2>2
<1>3. \E q \in S : \A p \in S : q.offset <= p.offset
  <2> DEFINE T == {q.offset : q \in S}
  <2>1. T \subseteq Nat /\ T # {}
    BY <1>1
  <2>2. PICK x \in T : \A y \in T : x <= y
    BY <1>2, <2>1
  <2>3. PICK q \in S : x = q.offset
    OBVIOUS
  <2>4. QED
    BY <2>2, <2>3
<1>4. \E q \in S : \A p \in S : p.offset <= q.offset
  <2> DEFINE T == {Size - q.offset : q \in S}
  <2>1. T \subseteq Nat /\ T # {}
    BY <1>1
  <2>2. PICK x \in T : \A y \in T : x <= y
    BY <1>2, <2>1
  <2>3. PICK q \in S : x = Size - q.offset
    OBVIOUS
  <2>4. ASSUME NEW p \in S PROVE p.offset <= q.offset
    <3>1. Size - q.offset <= Size - p.offset
      BY <2>2, <2>3
    <3>2. QED
      BY <1>1, <3>1
  <2>5. QED
    BY <2>4
<1>5. QED
  BY <1>3, <1>4

\* The three ways a range is inserted.
LEMMA InsertCases ==
  ASSUME NEW ranges \in SUBSET [offset : Bytes, size : Nat \ {0}], NEW r \in Ranges
  PROVE  \/ \E prev \in ranges :
              /\ prev.offset < r.offset /\ End(prev) >= r.offset
              /\ Insert(ranges, r) =
                   (ranges \ {prev}) \cup {[prev EXCEPT !.size = @ + r.size]}
         \/ \E next \in ranges :
              /\ next.offset >= r.offset /\ End(r) >= next.offset
              /\ Insert(ranges, r) =
                   IF next = r THEN ranges
                   ELSE (ranges \ {next}) \cup
                        {[offset |-> r.offset, size |-> r.size + next.size]}
         \/ Insert(ranges, r) = ranges \cup {r}
<1> DEFINE below == {q \in ranges : q.offset < r.offset}
           above == ranges \ below
           prev == CHOOSE q \in below : \A p \in below : p.offset <= q.offset
           next == CHOOSE q \in above : \A p \in above : q.offset <= p.offset
<1>1. /\ \A q \in ranges : q.offset \in Bytes /\ q.offset \in Nat
      /\ r.offset \in Nat
  BY SizeAssumption DEF Bytes, Ranges
<1>2. below # {} => prev \in ranges /\ prev.offset < r.offset
  <2>1. below # {} => \E q \in below : \A p \in below : p.offset <= q.offset
    BY <1>1, Neighbours
  <2>2. below # {} => prev \in below
    BY <2>1
  <2>3. QED
    BY <2>2
<1>3. above # {} => next \in ranges /\ next.offset >= r.offset
  <2>1. above # {} => \E q \in above : \A p \in above : q.offset <= p.offset
    BY <1>1, Neighbours
  <2>2. above # {} => next \in above
    BY <2>1
  <2>3. QED
    BY <1>1, <2>2
<1>4. Insert(ranges, r) =
        IF below # {} /\ End(prev) >= r.offset
        THEN (ranges \ {prev}) \cup {[prev EXCEPT !.size = @ + r.size]}
        ELSE IF above # {} /\ End(r) >= next.offset
        THEN IF next = r THEN ranges
             ELSE (ranges \ {next}) \cup {[offset |-> r.offset, size |-> r.size + next.size]}
        ELSE ranges \cup {r}
  BY Zenon DEF Insert
<1> HIDE DEF below, above, prev, next
<1>5. QED
  BY <1>2, <1>3, <1>4

LEMMA InsertCovers ==
  ASSUME NEW ranges \in SUBSET [offset : Bytes, size : Nat \ {0}], NEW r \in Ranges
  PROVE  /\ Insert(ranges, r) \subseteq [offset : Bytes, size : Nat \ {0}]
         /\ \A b \in BytesOf(r) : \E q \in Insert(ranges, r) : b \in BytesOf(q)
         /\ \A p \in ranges : \A b \in BytesOf(p) : \E q \in Insert(ranges, r) : b \in BytesOf(q)
<1>1. /\ r.offset \in Bytes /\ r.offset \in Nat /\ r.size \in Nat \ {0}
      /\ r \in [offset : Bytes, size : Nat \ {0}]
      /\ \A q \in ranges : q.offset \in Nat /\ q.size \in Nat \ {0} /\ q.offset \in Bytes
                           /\ q = [offset |-> q.offset, size |-> q.size]
  BY SizeAssumption DEF Bytes, Ranges
<1>2. CASE \E prev \in ranges :
             /\ prev.offset < r.offset /\ End(prev) >= r.offset
             /\ Insert(ranges, r) = (ranges \ {prev}) \cup {[prev EXCEPT !.size = @ + r.size]}
  <2>1. PICK prev \in ranges :
             /\ prev.offset < r.offset /\ End(prev) >= r.offset
             /\ Insert(ranges, r) = (ranges \ {prev}) \cup {[prev EXCEPT !.size = @ + r.size]}
    BY <1>2
  <2>2. PICK m : m = [prev EXCEPT !.size = @ + r.size]
    OBVIOUS
  <2>3. /\ m.offset = prev.offset /\ m.size = prev.size + r.size
        /\ m \in [offset : Bytes, size : Nat \ {0}] /\ m \in Insert(ranges, r)
    BY <1>1, <2>1, <2>2
  <2>4. \A b \in BytesOf(r) \cup BytesOf(prev) : b \in BytesOf(m)
    BY <1>1, <2>1, <2>3 DEF BytesOf, End
  <2>5. \A p \in ranges : p = prev \/ p \in Insert(ranges, r)
    BY <2>1
  <2>6. Insert(ranges, r) \subseteq ranges \cup {m}
    BY <2>1, <2>2
  <2>7. QED
    BY <2>3, <2>4, <2>5, <2>6
<1>3. CASE \E next \in ranges :
             /\ next.offset >= r.offset /\ End(r) >= next.offset
             /\ Insert(ranges, r) =
                  IF next = r THEN ranges
                  ELSE (ranges \ {next}) \cup {[offset |-> r.offset, size |-> r.size + next.size]}
  <2>1. PICK next \in ranges :
             /\ next.offset >= r.offset /\ End(r) >= next.offset
             /\ Insert(ranges, r) =
                  IF next = r THEN ranges
                  ELSE (ranges \ {next}) \cup {[offset |-> r.offset, size |-> r.size + next.size]}
    BY <1>3
  <2>2. CASE next = r
    BY <2>1, <2>2
  <2>3. CASE next # r
    <3>1. PICK m : m = [offset |-> r.offset, size |-> r.size + next.size]
      OBVIOUS
    <3>2. /\ m.offset = r.offset /\ m.size = r.size + next.size
          /\ m \in [offset : Bytes, size : Nat \ {0}] /\ m \in Insert(ranges, r)
      BY <1>1, <2>1, <2>3, <3>1
    <3>3. \A b \in BytesOf(r) \cup BytesOf(next) : b \in BytesOf(m)
      BY <1>1, <2>1, <3>2 DEF BytesOf, End
    <3>4. \A p \in ranges : p = next \/ p \in Insert(ranges, r)
      BY <2>1, <2>3
    <3>5. Insert(ranges, r) \subseteq ranges \cup {m}
      BY <2>1, <2>3, <3>1
    <3>6. QED
      BY <3>2, <3>3, <3>4, <3>5
  <2>4. QED
    BY <2>2, <2>3
<1>4. CASE Insert(ranges, r) = ranges \cup {r}
  BY <1>1, <1>4
<1>5. QED
  BY <1>2, <1>3, <1>4, InsertCases

-----------------------------------------------------------------------------
\* What every lock has in common: its number, and what the application relies on
\* from then on.
LEMMA Stamps ==
  ASSUME TypeOK, NEW r \in Ranges, NEW keep, AppWrites(BytesOf(r), keep)
  PROVE  /\ writes' = writes + 1 /\ writes' \in 0 .. MaxWrites /\ writes + 1 # 0
         /\ want' \in Contents /\ BytesOf(r) \subseteq Bytes
         /\ \A b \in Bytes :
              want'[b] = IF b \in BytesOf(r) THEN writes + 1
                         ELSE IF b \in keep THEN want[b] ELSE 0
         /\ \A mem \in Contents :
              /\ Overwrite(mem, BytesOf(r), writes + 1) \in Contents
              /\ \A b \in Bytes : Overwrite(mem, BytesOf(r), writes + 1)[b] =
                                    IF b \in BytesOf(r) THEN writes + 1 ELSE mem[b]
<1>1. /\ writes \in Nat /\ writes < MaxWrites /\ writes' = writes + 1 /\ want \in Contents
      /\ MaxWrites \in Nat
      /\ want' = [b \in Bytes |-> IF b \in BytesOf(r) THEN writes + 1
                                  ELSE IF b \in keep THEN want[b] ELSE 0]
  BY BoundsAssumption DEF AppWrites, TypeOK, TimelineTypeOK
<1>2. writes + 1 \in 0 .. MaxWrites /\ 0 \in 0 .. MaxWrites
  BY <1>1
<1>3. want' \in Contents
  BY <1>1, <1>2 DEF Contents
<1>4. BytesOf(r) \subseteq Bytes
  BY SizeAssumption DEF BytesOf, Ranges, Bytes
<1>5. ASSUME NEW mem \in Contents
      PROVE  /\ Overwrite(mem, BytesOf(r), writes + 1) \in Contents
             /\ \A b \in Bytes : Overwrite(mem, BytesOf(r), writes + 1)[b] =
                                   IF b \in BytesOf(r) THEN writes + 1 ELSE mem[b]
  BY <1>2 DEF Overwrite, Contents
<1>6. QED
  BY <1>1, <1>2, <1>3, <1>4, <1>5

\* DISCARD starts over, in the cache.
LEMMA LockDiscardKeeps ==
  ASSUME DynamicInv, NEW r \in Ranges, LockDiscard(r)
  PROVE  DynamicInv'
<1>1. /\ AppWrites(BytesOf(r), {}) /\ ~waiting
      /\ queued' = TRUE /\ prev_lock_frame' = frame
      /\ ring_alloc' = NoAlloc
      /\ cache' = Overwrite([b \in Bytes |-> 0], BytesOf(r), writes + 1)
      /\ has_spec' = TRUE /\ spec_persisted' = FALSE
      /\ written_ranges' = Insert({}, r) /\ used' = {} /\ locked' = BytesOf(r)
      /\ UNCHANGED <<habits, frame, fence_values, current_back_buffer, waiting, submitted,
                     completed, misread, app, bound, kept, list, own, ring, raced>>
  BY DEF LockDiscard, StartSpeculation, RangesRestarted, frameVars, gpuVars, refVars
<1>t. TypeOK /\ QueueTypes /\ FrameIsKnown
  BY DEF DynamicInv, DynamicTypes
<1>2. /\ writes' \in 0 .. MaxWrites /\ want' \in Contents /\ BytesOf(r) \subseteq Bytes
      /\ \A b \in Bytes : want'[b] # 0 => b \in BytesOf(r) /\ want'[b] = writes + 1
  BY <1>1, <1>t, Stamps
<1>3. /\ cache' \in Contents
      /\ \A b \in BytesOf(r) : cache'[b] = writes + 1
  <2>1. [b \in Bytes |-> 0] \in Contents
    BY BoundsAssumption DEF Contents
  <2>2. QED
    BY <1>1, <1>2, <1>t, <2>1, Stamps
<1>4. /\ written_ranges' \subseteq [offset : Bytes, size : Nat \ {0}]
      /\ \A b \in BytesOf(r) : b \in RangeBytes'
  <2>1. {} \in SUBSET [offset : Bytes, size : Nat \ {0}]
    OBVIOUS
  <2>2. QED
    BY <1>1, <2>1, InsertCovers DEF RangeBytes
<1>5. TypeOK'
  <2>1. ring_alloc' \in [place : 0 .. Len(ring), frame : 0 .. MaxFrame + 1]
    BY <1>1, <1>t, LenProperties, BoundsAssumption DEF NoAlloc, QueueTypes
  <2>2. prev_lock_frame' \in 0 .. MaxFrame + 1
    BY <1>1, <1>t, BoundsAssumption DEF TypeOK, TimelineTypeOK
  <2>3. QED
    BY <1>1, <1>2, <1>3, <1>4, <1>t, <2>1, <2>2 DEF TypeOK, TimelineTypeOK
<1>6. Queue' = Queue /\ Speculative'
  BY <1>1 DEF Queue, Speculative
<1>7. QueueTypes'
  BY <1>1, <1>6, <1>t DEF QueueTypes
<1>8. FrameIsKnown'
  BY <1>1, <1>6, <1>t DEF FrameIsKnown, TypeOK, TimelineTypeOK
<1>9. AppendsAreSafe'
  BY <1>6 DEF AppendsAreSafe
<1>10. ASSUME ~raced PROVE QueueIsRight'
  <2>1. ~misread' /\ DrawsReadTheirs'
    BY <1>1, <1>6, <1>10 DEF DynamicInv, QueueIsRight, DrawsReadTheirs
  <2>2. ContentsAreSafe'
    BY <1>1, <1>2, <1>3, <1>4, <1>6 DEF ContentsAreSafe, Latest
  <2>3. QED
    BY <2>1, <2>2 DEF QueueIsRight
<1>11. QED
  BY <1>1, <1>5, <1>7, <1>8, <1>9, <1>10 DEF DynamicInv, DynamicTypes

\* A write into the mapped resource: no command still to be executed uses the
\* bytes, and this frame's draws read the resource, or it is a race.
LEMMA WriteOwnKeeps ==
  ASSUME DynamicInv, NEW r \in Ranges, NEW elsewhere \in BOOLEAN,
         AppWrites(BytesOf(r), Bytes), WriteOwn(BytesOf(r), elsewhere),
         queued => elsewhere,
         locked' = locked \cup BytesOf(r),
         UNCHANGED <<habits, frameVars, gpuVars, refVars, used, list, ring, prev_lock_frame,
                     has_spec, spec_persisted, cache, ring_alloc, written_ranges, queued>>
  PROVE  DynamicInv'
<1>1. /\ own' = Overwrite(own, BytesOf(r), writes + 1)
      /\ raced' = (raced \/ elsewhere \/ \E cmd \in Pending : Names(cmd, BytesOf(r)))
      /\ locked' = locked \cup BytesOf(r)
      /\ UNCHANGED <<habits, frame, fence_values, current_back_buffer, waiting, submitted,
                     completed, misread, app, bound, kept, used, list, ring, prev_lock_frame,
                     has_spec, spec_persisted, cache, ring_alloc, written_ranges, queued>>
  BY DEF WriteOwn, frameVars, gpuVars, refVars
<1>t. TypeOK /\ QueueTypes /\ FrameIsKnown /\ own \in Contents
  BY DEF DynamicInv, DynamicTypes, TypeOK, TimelineTypeOK
<1>2. /\ writes' \in 0 .. MaxWrites /\ want' \in Contents /\ BytesOf(r) \subseteq Bytes
      /\ \A b \in Bytes : want'[b] = IF b \in BytesOf(r) THEN writes + 1 ELSE want[b]
      /\ own' \in Contents
      /\ \A b \in Bytes : own'[b] = IF b \in BytesOf(r) THEN writes + 1 ELSE own[b]
  BY <1>1, <1>t, Stamps
<1>3. Queue' = Queue /\ Speculative' = Speculative
  BY <1>1 DEF Queue, Speculative
<1>4. TypeOK'
  <2>1. raced' \in BOOLEAN /\ locked' \subseteq Bytes
    BY <1>1, <1>2, <1>t DEF TypeOK, TimelineTypeOK
  <2>2. QED
    BY <1>1, <1>2, <1>t, <2>1 DEF TypeOK, TimelineTypeOK
<1>5. QueueTypes' /\ FrameIsKnown' /\ AppendsAreSafe'
  BY <1>1, <1>3 DEF DynamicInv, DynamicTypes, QueueTypes, FrameIsKnown, AppendsAreSafe
<1>6. ASSUME ~raced' PROVE QueueIsRight'
  <2>1. ~raced /\ ~queued /\ \A cmd \in Pending : ~Names(cmd, BytesOf(r))
    BY <1>1, <1>6
  <2>2. PICK q, n : q = Queue /\ n = Len(Queue)
    OBVIOUS
  <2>3. n \in Nat /\ DOMAIN q = 1 .. n /\ \A i \in 1 .. n : q[i] \in Pending
    <3>1. PICK s \in Seq(Commands), l \in Seq(Commands) : s = submitted /\ l = list
      BY <1>t DEF QueueTypes
    <3>2. /\ q = s \o l /\ Len(s) \in Nat /\ Len(l) \in Nat
          /\ DOMAIN s = 1 .. Len(s) /\ DOMAIN l = 1 .. Len(l)
          /\ s \o l \in Seq(Commands) /\ Len(s \o l) = Len(s) + Len(l)
          /\ \A i \in 1 .. Len(s) + Len(l) : (s \o l)[i] = IF i <= Len(s) THEN s[i]
                                                          ELSE l[i - Len(s)]
      BY <2>2, <3>1, ConcatProperties, LenProperties DEF Queue
    <3>3. n = Len(s) + Len(l) /\ n \in Nat /\ DOMAIN q = 1 .. n
      BY <2>2, <3>2, LenProperties
    <3>4. ASSUME NEW i \in 1 .. n PROVE q[i] \in Pending
      <4>1. CASE i <= Len(s)
        BY SMTT(120), <3>1, <3>2, <3>3, <4>1 DEF Pending
      <4>2. CASE i > Len(s)
        <5>1. i - Len(s) \in DOMAIN l /\ q[i] = l[i - Len(s)]
          BY <3>2, <3>3, <4>2
        <5>2. QED
          BY <3>1, <5>1 DEF Pending
      <4>3. QED
        BY <3>2, <3>3, <4>1, <4>2
    <3>5. QED
      BY <3>3, <3>4
  <2>4. ASSUME NEW i \in 1 .. n, NEW b \in BytesOf(r)
        PROVE  /\ ~Copies(q[i], b)
               /\ q[i].op = "draw" /\ q[i].place = 0 => q[i].expect[b] = 0
    BY <2>1, <2>3 DEF Names, Copies
  <2>5. /\ ~misread
        /\ \A i \in 1 .. n : q[i].op = "draw" => \A b \in Bytes : q[i].expect[b] # 0 =>
             IF q[i].place = 0 THEN Holds(own, ring, q, i, b, q[i].expect[b])
             ELSE ring[q[i].place][b] = q[i].expect[b]
        /\ \A b \in Bytes : want[b] # 0 => Holds(own, ring, q, n + 1, b, want[b])
    <3>1. ~misread /\ DrawsReadTheirs /\ ContentsAreSafe
      BY <2>1 DEF DynamicInv, QueueIsRight
    <3>2. \A b \in Bytes : want[b] # 0 => Holds(own, ring, q, n + 1, b, want[b])
      BY <2>1, <2>2, <3>1 DEF ContentsAreSafe
    <3>3. q = Queue /\ DOMAIN Queue = 1 .. n
      BY <2>2, <2>3
    <3>4. \A i \in 1 .. n : q[i].op = "draw" => \A b \in Bytes : q[i].expect[b] # 0 =>
             IF q[i].place = 0 THEN Holds(own, ring, q, i, b, q[i].expect[b])
             ELSE ring[q[i].place][b] = q[i].expect[b]
      BY Zenon, <3>1, <3>3 DEF DrawsReadTheirs
    <3>5. QED
      BY <3>1, <3>2, <3>4
  <2>6. ASSUME NEW i, NEW b \in Bytes \ BytesOf(r), NEW v, Holds(own, ring, q, i, b, v)
        PROVE  Holds(own', ring, q, i, b, v)
    BY <1>2, <2>6 DEF Holds
  <2>7. ASSUME NEW i \in 1 .. n, q[i].op = "draw", NEW b \in Bytes, q[i].expect[b] # 0
        PROVE  IF q[i].place = 0 THEN Holds(own', ring, q, i, b, q[i].expect[b])
               ELSE ring[q[i].place][b] = q[i].expect[b]
    <3>1. CASE q[i].place = 0
      <4>1. b \notin BytesOf(r) /\ Holds(own, ring, q, i, b, q[i].expect[b])
        BY <2>4, <2>5, <2>7, <3>1
      <4>2. QED
        BY <2>6, <3>1, <4>1
    <3>2. CASE q[i].place # 0
      BY <2>5, <2>7, <3>2
    <3>3. QED
      BY <3>1, <3>2
  <2>8. DrawsReadTheirs'
    <3>1. Queue' = q /\ ring' = ring /\ DOMAIN q = 1 .. n
      BY <1>1, <1>3, <2>2, <2>3
    <3>2. SUFFICES ASSUME NEW i \in DOMAIN Queue', Queue'[i].op = "draw", NEW b \in Bytes,
                          Queue'[i].expect[b] # 0
                   PROVE  IF Queue'[i].place = 0
                          THEN Holds(own', ring', Queue', i, b, Queue'[i].expect[b])
                          ELSE ring'[Queue'[i].place][b] = Queue'[i].expect[b]
      BY Zenon DEF DrawsReadTheirs
    <3>3. i \in 1 .. n /\ q[i].op = "draw" /\ q[i].expect[b] # 0
      BY <3>1, <3>2
    <3>4. QED
      BY <2>7, <3>1, <3>3
  <2>9. ASSUME NEW b \in Bytes, want'[b] # 0
        PROVE  Holds(own', ring, q, n + 1, b, want'[b])
    <3>1. CASE b \in BytesOf(r)
      <4>1. \A j \in 1 .. (n + 1) - 1 : ~Copies(q[j], b)
        BY <2>3, <2>4, <3>1
      <4>2. own'[b] = want'[b]
        BY <1>2, <3>1
      <4>3. QED
        BY <4>1, <4>2 DEF Holds
    <3>2. CASE b \notin BytesOf(r)
      <4>1. want'[b] = want[b]
        BY <1>2, <3>2
      <4>2. QED
        BY <2>5, <2>6, <2>9, <3>2, <4>1
    <3>3. QED
      BY <3>1, <3>2
  <2>10. ContentsAreSafe'
    BY <1>1, <1>3, <2>1, <2>2, <2>9 DEF ContentsAreSafe
  <2>11. QED
    BY <1>1, <2>5, <2>8, <2>10 DEF QueueIsRight
<1>7. QED
  BY <1>4, <1>5, <1>6 DEF DynamicInv, DynamicTypes

\* An append, to the allocation that this frame's draws read.
LEMMA LockRingKeeps ==
  ASSUME DynamicInv, NEW r \in Ranges, LockNoOverwriteRing(r)
  PROVE  DynamicInv'
<1> DEFINE p0 == AllocAfter.place
<1>1. /\ AppWrites(BytesOf(r), Bytes) /\ prev_lock_frame = frame
      /\ BytesOf(r) \cap used = {}
      /\ queued' = TRUE /\ has_spec' = FALSE
      /\ spec_persisted' = (spec_persisted \/ Speculative)
      /\ ring_alloc' = AllocAfter
      /\ ring' = [i \in DOMAIN RingAfter |->
                    IF i = p0 THEN Overwrite(RingAfter[i], BytesOf(r), writes + 1)
                    ELSE RingAfter[i]]
      /\ written_ranges' = Insert(written_ranges, r)
      /\ locked' = locked \cup BytesOf(r)
      /\ UNCHANGED <<habits, frame, fence_values, current_back_buffer, waiting, submitted,
                     completed, misread, app, bound, kept, used, list, own, raced,
                     prev_lock_frame, cache>>
  BY DEF LockNoOverwriteRing, Promised, frameVars, gpuVars, refVars
<1>t. TypeOK /\ QueueTypes /\ FrameIsKnown /\ DynamicTypes /\ queued
  BY <1>1 DEF DynamicInv, DynamicTypes, FrameIsKnown
<1>2. /\ writes' \in 0 .. MaxWrites /\ want' \in Contents /\ BytesOf(r) \subseteq Bytes
      /\ \A b \in Bytes : want'[b] = IF b \in BytesOf(r) THEN writes + 1 ELSE want[b]
  BY <1>1, <1>t, Stamps
<1>3. /\ Len(ring) \in Nat /\ DOMAIN ring = 1 .. Len(ring)
      /\ RingAfter \in Seq(Contents) /\ Len(RingAfter) \in Nat
      /\ Len(ring) <= Len(RingAfter) /\ DOMAIN RingAfter = 1 .. Len(RingAfter)
      /\ \A p \in DOMAIN ring : RingAfter[p] = ring[p]
      /\ AllocAfter \in [place : 0 .. Len(RingAfter), frame : 0 .. MaxFrame + 1]
      /\ p0 \in 1 .. Len(RingAfter) /\ RingAfter[p0] = Latest
      /\ IF Speculative THEN p0 = Len(ring) + 1
                        ELSE p0 = ring_alloc.place /\ RingAfter = ring
  BY <1>t, Allocated
<1> HIDE DEF p0
<1>4. /\ \A i \in 1 .. Len(RingAfter) : RingAfter[i] \in Contents
      /\ \A i \in 1 .. Len(RingAfter) : ring'[i] \in Contents
      /\ \A i \in 1 .. Len(RingAfter) : i # p0 => ring'[i] = RingAfter[i]
      /\ \A b \in Bytes : ring'[p0][b] = IF b \in BytesOf(r) THEN writes + 1 ELSE Latest[b]
  <2>1. \A i \in 1 .. Len(RingAfter) : RingAfter[i] \in Contents
    BY <1>3, ElementOfSeq
  <2>2. \A i \in 1 .. Len(RingAfter) :
          ring'[i] = IF i = p0 THEN Overwrite(RingAfter[i], BytesOf(r), writes + 1)
                     ELSE RingAfter[i]
    BY <1>1, <1>3
  <2>3. \A mem \in Contents :
          /\ Overwrite(mem, BytesOf(r), writes + 1) \in Contents
          /\ \A b \in Bytes : Overwrite(mem, BytesOf(r), writes + 1)[b] =
                                IF b \in BytesOf(r) THEN writes + 1 ELSE mem[b]
    BY <1>1, <1>t, Stamps
  <2>4. QED
    BY <1>3, <2>1, <2>2, <2>3
<1>5. ring' \in Seq(Contents) /\ Len(ring') = Len(RingAfter) /\ DOMAIN ring' = 1 .. Len(ring')
  <2>1. ring' \in [1 .. Len(RingAfter) -> Contents]
    BY <1>1, <1>3, <1>4
  <2>2. ring' \in Seq(Contents)
    BY SMTT(40), <1>3, <2>1, SeqDef
  <2>3. QED
    BY <1>3, <2>1, <2>2, LenProperties
<1>6. /\ written_ranges' \subseteq [offset : Bytes, size : Nat \ {0}]
      /\ BytesOf(r) \subseteq RangeBytes' /\ RangeBytes \subseteq RangeBytes'
  <2>1. written_ranges \in SUBSET [offset : Bytes, size : Nat \ {0}]
    BY <1>t DEF TypeOK
  <2>2. QED
    BY <1>1, <2>1, InsertCovers DEF RangeBytes
<1>7. TypeOK'
  <2>1. locked' \subseteq Bytes /\ spec_persisted' \in BOOLEAN
    BY <1>1, <1>2, <1>t DEF TypeOK
  <2>2. QED
    BY <1>1, <1>2, <1>3, <1>4, <1>5, <1>6, <1>t, <2>1 DEF TypeOK, TimelineTypeOK
<1>8. Queue' = Queue /\ ~Speculative'
  BY <1>1 DEF Queue, Speculative
<1>9. QueueTypes'
  <2>1. ASSUME NEW i \in DOMAIN Queue, Queue[i].op # "signal"
        PROVE  Queue[i].place \in 0 .. Len(ring')
    <3>1. Queue[i].place \in 0 .. Len(ring)
      BY <1>t, <2>1 DEF QueueTypes
    <3>2. QED
      BY <1>3, <1>5, <3>1
  <2>2. QED
    BY <1>1, <1>5, <1>8, <1>t, <2>1 DEF QueueTypes
<1>10. FrameIsKnown'
  BY <1>1, <1>3, <1>8, <1>t DEF FrameIsKnown, p0
<1>11. ASSUME NEW i \in DOMAIN Queue, Queue[i].op # "signal", Queue[i].place = p0
       PROVE  Queue[i].op = "draw" /\ \A b \in Bytes : Queue[i].expect[b] # 0 => b \in used
  <2>1. Queue[i].place \in 0 .. Len(ring)
    BY <1>t, <1>11 DEF QueueTypes
  <2>2. ~Speculative /\ Queue[i].place = ring_alloc.place
    BY <1>3, <1>11, <2>1
  <2>3. QED
    BY <1>11, <1>t, <2>2 DEF DynamicInv, AppendsAreSafe
<1>12. AppendsAreSafe'
  BY <1>1, <1>8, <1>11 DEF AppendsAreSafe, p0
<1>13. ASSUME ~raced PROVE QueueIsRight'
  <2>1. ~misread /\ DrawsReadTheirs /\ ContentsAreSafe
    BY <1>13 DEF DynamicInv, QueueIsRight
  <2>2. PICK q, n : q = Queue /\ n = Len(Queue)
    OBVIOUS
  <2>3. n \in Nat /\ DOMAIN q = 1 .. n /\ \A i \in 1 .. n : q[i] \in Commands
    BY <1>t, <2>2, ConcatProperties, LenProperties, ElementOfSeq DEF QueueTypes, Queue
  <2>4. ASSUME NEW i \in 1 .. n, q[i].op = "copy" PROVE ring'[q[i].place] = ring[q[i].place]
    <3>1. Queue[i] = q[i] /\ i \in DOMAIN Queue
      BY <2>2, <2>3
    <3>2. q[i].place # p0
      BY <1>11, <2>4, <3>1
    <3>3. q[i].place \in 0 .. Len(ring) /\ q[i].place # 0
      BY <1>t, <2>3, <2>4, <3>1 DEF QueueTypes, Commands
    <3>4. QED
      BY <1>3, <1>4, <3>2, <3>3
  <2>5. ASSUME NEW i \in 1 .. n, NEW b \in Bytes, NEW v, Holds(own, ring, q, i, b, v)
        PROVE  Holds(own, ring', q, i, b, v)
    <3>1. \A j \in 1 .. i - 1 : Copies(q[j], b) => ring'[q[j].place] = ring[q[j].place]
      BY <2>3, <2>4 DEF Copies
    <3>2. i \in Nat
      BY <2>3
    <3>3. QED
      BY <2>5, <3>1, <3>2, HoldsSame
  <2>6. ASSUME NEW i \in 1 .. n, q[i].op = "draw", NEW b \in Bytes, q[i].expect[b] # 0
        PROVE  IF q[i].place = 0 THEN Holds(own, ring', q, i, b, q[i].expect[b])
               ELSE ring'[q[i].place][b] = q[i].expect[b]
    <3>1. Queue[i] = q[i] /\ i \in DOMAIN Queue
      BY <2>2, <2>3
    <3>2. IF Queue[i].place = 0 THEN Holds(own, ring, Queue, i, b, Queue[i].expect[b])
          ELSE ring[Queue[i].place][b] = Queue[i].expect[b]
      <4>1. Queue[i].op = "draw" /\ Queue[i].expect[b] # 0
        BY <2>6, <3>1
      <4>2. QED
        BY Zenon, <2>1, <3>1, <4>1 DEF DrawsReadTheirs
    <3>3. CASE q[i].place = 0
      BY <2>2, <2>5, <3>1, <3>2, <3>3
    <3>4. CASE q[i].place # 0
      <4>1. q[i].place \in 1 .. Len(ring) /\ q[i].place \in DOMAIN ring
        <5>1. q[i].place \in 0 .. Len(ring)
          BY <1>t, <2>6, <3>1 DEF QueueTypes
        <5>2. QED
          BY <1>3, <3>4, <5>1
      <4>2. ring[q[i].place][b] = q[i].expect[b]
        BY <3>1, <3>2, <3>4
      <4>3. CASE q[i].place # p0
        BY <1>3, <1>4, <3>4, <4>1, <4>2, <4>3
      <4>4. CASE q[i].place = p0
        <5>1. b \in used
          BY <1>11, <2>6, <3>1, <4>4
        <5>2. ~Speculative
          BY <1>3, <4>1, <4>4
        <5>3. ring'[p0][b] = ring[p0][b]
          BY <1>1, <1>3, <1>4, <4>1, <4>4, <5>1, <5>2
        <5>4. QED
          BY <3>4, <4>2, <4>4, <5>3
      <4>5. QED
        BY <4>3, <4>4
    <3>5. QED
      BY <3>3, <3>4
  <2>7. DrawsReadTheirs'
    <3>1. Queue' = q /\ own' = own /\ DOMAIN q = 1 .. n
      BY <1>1, <1>8, <2>2, <2>3
    <3>2. SUFFICES ASSUME NEW i \in DOMAIN Queue', Queue'[i].op = "draw", NEW b \in Bytes,
                          Queue'[i].expect[b] # 0
                   PROVE  IF Queue'[i].place = 0
                          THEN Holds(own', ring', Queue', i, b, Queue'[i].expect[b])
                          ELSE ring'[Queue'[i].place][b] = Queue'[i].expect[b]
      BY Zenon DEF DrawsReadTheirs
    <3>3. i \in 1 .. n /\ q[i].op = "draw" /\ q[i].expect[b] # 0
      BY <3>1, <3>2
    <3>4. QED
      BY <2>6, <3>1, <3>3
  <2>8. ASSUME NEW b \in Bytes, want'[b] # 0
        PROVE  b \in RangeBytes' /\ ring'[p0][b] = want'[b]
    <3>1. CASE b \in BytesOf(r)
      BY <1>2, <1>4, <1>6, <3>1
    <3>2. CASE b \notin BytesOf(r)
      <4>1. want'[b] = want[b]
        BY <1>2, <3>2
      <4>2. b \in RangeBytes /\ Latest[b] = want[b]
        BY <1>t, <2>1, <2>8, <4>1 DEF ContentsAreSafe
      <4>3. QED
        BY <1>4, <1>6, <3>2, <4>1, <4>2
    <3>3. QED
      BY <3>1, <3>2
  <2>9. ContentsAreSafe'
    <3>1. queued' /\ Latest' = ring'[p0]
      BY <1>1, <1>8 DEF Latest, p0
    <3>2. QED
      BY <2>8, <3>1 DEF ContentsAreSafe
  <2>10. QED
    BY <1>1, <2>1, <2>7, <2>9 DEF QueueIsRight
<1>14. QED
  BY <1>1, <1>7, <1>9, <1>10, <1>12, <1>13 DEF DynamicInv, DynamicTypes

-----------------------------------------------------------------------------
\* SubmitAndWait: the copies of this frame's ranges go behind its draws, and the
\* signal behind them.
LEMMA SubmitCommands ==
  ASSUME DynamicTypes, NEW should_present \in BOOLEAN, Submit(should_present)
  PROVE  /\ Queue' = submitted \o (list \o (PersistCopies \o <<Signal(frame)>>))
         /\ Queue' = submitted' /\ submitted' \in Seq(Commands) /\ list' = <<>>
         /\ PersistCopies \in Seq(Commands) /\ Signal(frame) \in Commands
<1>1. /\ frame <= MaxFrame /\ list' = <<>>
      /\ submitted' = (submitted \o list \o PersistCopies) \o <<Signal(frame)>>
  BY DEF Submit, SubmitAndWait
<1>2. Signal(frame) \in Commands
  <2>1. frame \in 1 .. MaxFrame
    BY <1>1, BoundsAssumption DEF DynamicTypes, TypeOK, TimelineTypeOK
  <2>2. QED
    BY <2>1 DEF Signal, Commands
<1>3. PersistCopies \in Seq(Commands)
  <2>1. CASE queued
    <3>1. AllocAfter.place \in Nat \ {0}
      BY <2>1, Allocated
    <3>2. CopyFrom(AllocAfter.place, RangeBytes \cap Bytes) \in Commands
      BY <3>1 DEF CopyFrom, Commands
    <3>3. QED
      BY <2>1, <3>2 DEF PersistCopies
  <2>2. CASE ~queued
    BY <2>2 DEF PersistCopies
  <2>3. QED
    BY <2>1, <2>2
<1>4. PICK s, l, c, g :
        s = submitted /\ l = list /\ c = PersistCopies /\ g = <<Signal(frame)>>
  OBVIOUS
<1>5. /\ s \in Seq(Commands) /\ l \in Seq(Commands)
      /\ c \in Seq(Commands) /\ g \in Seq(Commands)
  BY <1>2, <1>3, <1>4 DEF DynamicTypes, QueueTypes
<1>6. /\ s \o l \in Seq(Commands) /\ l \o c \in Seq(Commands) /\ c \o g \in Seq(Commands)
      /\ (s \o l) \o c \in Seq(Commands) /\ ((s \o l) \o c) \o g \in Seq(Commands)
  BY <1>5, ConcatProperties
<1>7. ((s \o l) \o c) \o g = s \o (l \o (c \o g))
  <2>1. ((s \o l) \o c) \o g = (s \o l) \o (c \o g)
    BY SMTT(30), <1>5, <1>6, ConcatAssociative
  <2>2. (s \o l) \o (c \o g) = s \o (l \o (c \o g))
    <3>1. PICK x : x = c \o g
      OBVIOUS
    <3>2. (s \o l) \o x = s \o (l \o x)
      BY SMTT(120), <1>6, <3>1, ConcatAssociative
    <3>3. QED
      BY <3>1, <3>2
  <2>3. QED
    BY <2>1, <2>2
<1>8. submitted' = ((s \o l) \o c) \o g
  BY <1>1, <1>4
<1>9. Queue' = submitted'
  BY <1>1, <1>6, <1>8, ConcatEmptySeq DEF Queue
<1>10. QED
  BY <1>1, <1>2, <1>3, <1>4, <1>6, <1>7, <1>8, <1>9

\* The commands one by one.
LEMMA SubmitQueue ==
  ASSUME DynamicTypes, NEW should_present \in BOOLEAN, Submit(should_present)
  PROVE  /\ Len(Queue) \in Nat /\ DOMAIN Queue = 1 .. Len(Queue)
         /\ Queue' = submitted' /\ list' = <<>> /\ submitted' \in Seq(Commands)
         /\ Len(Queue') = (IF queued THEN Len(Queue) + 2 ELSE Len(Queue) + 1)
         /\ DOMAIN Queue' = 1 .. Len(Queue')
         /\ \A i \in 1 .. Len(Queue) : Queue'[i] = Queue[i]
         /\ Queue'[Len(Queue')] = Signal(frame)
         /\ queued => /\ Queue'[Len(Queue) + 1].op = "copy"
                      /\ Queue'[Len(Queue) + 1].place = AllocAfter.place
                      /\ Queue'[Len(Queue) + 1].bytes = RangeBytes \cap Bytes
<1>1. PICK cmds : cmds = PersistCopies \o <<Signal(frame)>>
  OBVIOUS
<1>2. /\ Queue' = submitted \o (list \o cmds) /\ cmds \in Seq(Commands)
      /\ Queue' = submitted' /\ list' = <<>> /\ submitted' \in Seq(Commands)
      /\ Signal(frame) \in Commands
  BY SMTT(120), <1>1, SubmitCommands, ConcatProperties
<1>3. /\ Len(Queue) \in Nat /\ DOMAIN Queue = 1 .. Len(Queue)
      /\ Len(Queue') = Len(Queue) + Len(cmds) /\ DOMAIN Queue' = 1 .. Len(Queue) + Len(cmds)
      /\ \A i \in 1 .. Len(Queue) : Queue'[i] = Queue[i]
      /\ \A i \in 1 .. Len(cmds) : Queue'[Len(Queue) + i] = cmds[i]
  BY <1>2, GrownQueue DEF DynamicTypes
<1>4. CASE queued
  <2>1. PICK c, g : c = CopyFrom(AllocAfter.place, RangeBytes \cap Bytes) /\ g = Signal(frame)
    OBVIOUS
  <2>2. cmds = <<c>> \o <<g>>
    BY <1>1, <1>4, <2>1 DEF PersistCopies
  <2>3. Len(cmds) = 2 /\ cmds[1] = c /\ cmds[2] = g
    BY <2>2
  <2>4. /\ c.op = "copy" /\ c.place = AllocAfter.place /\ c.bytes = RangeBytes \cap Bytes
    BY <2>1 DEF CopyFrom
  <2>5. Queue'[Len(Queue) + 1] = c /\ Queue'[Len(Queue) + 2] = g
    BY <1>3, <2>3
  <2>6. QED
    BY <1>2, <1>3, <1>4, <2>1, <2>3, <2>4, <2>5
<1>5. CASE ~queued
  <2>1. PICK g : g = Signal(frame)
    OBVIOUS
  <2>2. cmds = <<>> \o <<g>>
    BY <1>1, <1>5, <2>1 DEF PersistCopies
  <2>3. Len(cmds) = 1 /\ cmds[1] = g
    BY <2>2
  <2>4. Queue'[Len(Queue) + 1] = g
    BY <1>3, <2>3
  <2>5. QED
    BY <1>2, <1>3, <1>5, <2>1, <2>3, <2>4
<1>6. QED
  BY <1>4, <1>5

LEMMA SubmitKeeps ==
  ASSUME DynamicInv, NEW should_present \in BOOLEAN, Submit(should_present)
  PROVE  DynamicInv'
<1>1. /\ ~waiting /\ frame <= MaxFrame /\ waiting' = TRUE /\ list' = <<>>
      /\ fence_values' = [fence_values EXCEPT ![current_back_buffer] = frame]
      /\ frame' = frame + 1
      /\ current_back_buffer' = NextBackBuffer(should_present)
      /\ queued' = FALSE
      /\ UNCHANGED <<completed, misread, app, bound, kept, want, used, writes, own, raced,
                     habits, has_spec, cache, locked>>
      /\ IF queued
         THEN /\ ring' = RingAfter
              /\ spec_persisted' = (spec_persisted \/ Speculative)
              /\ prev_lock_frame' = IF Speculative THEN frame ELSE prev_lock_frame
              /\ written_ranges' = {} /\ ring_alloc' = NoAlloc
         ELSE UNCHANGED <<ring, spec_persisted, prev_lock_frame, written_ranges, ring_alloc>>
  BY DEF Submit, SubmitAndWait, refVars, appVars
<1>t. TypeOK /\ QueueTypes /\ FrameIsKnown /\ DynamicTypes
  BY DEF DynamicInv, DynamicTypes
<1>p. PICK q, q2, n, m : q = Queue /\ q2 = Queue' /\ n = Len(Queue) /\ m = Len(Queue')
  OBVIOUS
<1>2. /\ q = Queue /\ q2 = Queue' /\ n = Len(Queue) /\ DOMAIN q = 1 .. n /\ n \in Nat
      /\ q2 = submitted' /\ list' = <<>> /\ submitted' \in Seq(Commands)
      /\ m = (IF queued THEN n + 2 ELSE n + 1) /\ m \in Nat
      /\ DOMAIN q2 = 1 .. m /\ Len(q2) = m
      /\ \A i \in 1 .. n : q2[i] = q[i]
      /\ q2[m] = Signal(frame)
      /\ queued => /\ q2[n + 1].op = "copy"
                   /\ q2[n + 1].place = AllocAfter.place
                   /\ q2[n + 1].bytes = RangeBytes \cap Bytes
  BY <1>p, <1>t, SubmitQueue
<1>3. /\ Len(ring) \in Nat /\ Len(RingAfter) \in Nat /\ Len(ring) <= Len(RingAfter)
      /\ DOMAIN ring = 1 .. Len(ring)
      /\ RingAfter \in Seq(Contents) /\ DOMAIN RingAfter = 1 .. Len(RingAfter)
      /\ \A p \in DOMAIN ring : RingAfter[p] = ring[p]
      /\ queued => AllocAfter.place \in 1 .. Len(RingAfter)
                   /\ RingAfter[AllocAfter.place] = Latest
  BY <1>t, Allocated
<1>4. /\ ring' \in Seq(Contents) /\ Len(ring') \in Nat /\ Len(ring) <= Len(ring')
      /\ DOMAIN ring' = 1 .. Len(ring')
      /\ \A p \in DOMAIN ring : ring'[p] = ring[p]
  BY <1>1, <1>3, <1>t DEF QueueTypes
<1>5. /\ frame \in Nat /\ frame >= 1 /\ MaxFrame \in Nat /\ prev_lock_frame \in Nat
      /\ ~Speculative' /\ Signal(frame).op = "signal"
      /\ \A b : ~Copies(Signal(frame), b)
  BY <1>1, <1>t, BoundsAssumption
     DEF TypeOK, TimelineTypeOK, Speculative, FrameIsKnown, Signal, Copies
<1>6. TypeOK'
  <2>1. current_back_buffer' \in Slots
    BY <1>1, <1>t, TimelineNumBackBuffersAssumption
       DEF TypeOK, TimelineTypeOK, NextBackBuffer, Slots
  <2>2. fence_values' \in [Slots -> 0 .. MaxFrame] /\ frame' \in 1 .. MaxFrame + 1
    BY <1>1, <1>5, <1>t DEF TypeOK, TimelineTypeOK
  <2>3. \A i \in DOMAIN ring' : ring'[i] \in Contents
    BY <1>4, ElementOfSeq
  <2>4. ring_alloc' \in [place : 0 .. Len(ring'), frame : 0 .. MaxFrame + 1]
    <3>1. CASE queued
      BY <1>1, <1>4, <1>5, <3>1 DEF NoAlloc
    <3>2. CASE ~queued
      BY <1>1, <1>t, <3>2 DEF TypeOK
    <3>3. QED
      BY <3>1, <3>2
  <2>5. /\ prev_lock_frame' \in 0 .. MaxFrame + 1 /\ spec_persisted' \in BOOLEAN
        /\ written_ranges' \subseteq [offset : Bytes, size : Nat \ {0}]
    <3>1. CASE queued
      BY <1>1, <1>5, <1>t, <3>1 DEF TypeOK, TimelineTypeOK
    <3>2. CASE ~queued
      BY <1>1, <1>t, <3>2 DEF TypeOK
    <3>3. QED
      BY <3>1, <3>2
  <2>6. QED
    BY <1>1, <1>t, <2>1, <2>2, <2>3, <2>4, <2>5 DEF TypeOK, TimelineTypeOK
<1>7. QueueTypes'
  <2>1. ASSUME NEW i \in 1 .. m, q2[i].op # "signal" PROVE q2[i].place \in 0 .. Len(ring')
    <3>1. CASE i \in 1 .. n
      <4>1. q2[i] = Queue[i] /\ i \in DOMAIN Queue
        BY <1>2, <3>1
      <4>2. Queue[i].place \in 0 .. Len(ring)
        BY <1>t, <2>1, <4>1 DEF QueueTypes
      <4>3. QED
        BY <1>3, <1>4, <4>1, <4>2
    <3>2. CASE i = n + 1 /\ queued
      BY <1>1, <1>2, <1>3, <3>2
    <3>3. i # m
      BY <1>2, <1>5, <2>1
    <3>4. QED
      BY <1>2, <3>1, <3>2, <3>3
  <2>2. list' \in Seq(Commands)
    BY <1>2
  <2>3. QED
    BY <1>2, <1>4, <2>1, <2>2 DEF QueueTypes
<1>8. FrameIsKnown'
  <2>1. prev_lock_frame' <= frame
    BY <1>1, <1>5, <1>t DEF FrameIsKnown
  <2>2. prev_lock_frame' \in Nat
    BY <1>1, <1>5
  <2>3. QED
    BY <1>1, <1>5, <2>1, <2>2 DEF FrameIsKnown
<1>9. AppendsAreSafe'
  BY <1>1 DEF AppendsAreSafe
<1>10. ASSUME ~raced PROVE QueueIsRight'
  <2>1. ~misread /\ DrawsReadTheirs /\ ContentsAreSafe
    BY <1>10 DEF DynamicInv, QueueIsRight
  <2>2. /\ \A i \in 1 .. n + 1, b \in Bytes : \A v :
              Holds(own, ring, q, i, b, v) => Holds(own, ring', q2, i, b, v)
        /\ \A i \in 1 .. n : q2[i].op = "draw" =>
              \A b \in Bytes : q2[i].expect[b] # 0 =>
                IF q2[i].place = 0 THEN Holds(own, ring', q2, i, b, q2[i].expect[b])
                ELSE ring'[q2[i].place][b] = q2[i].expect[b]
    <3>1. PICK r2, c, g, cmds :
            r2 = ring' /\ c = PersistCopies /\ g = <<Signal(frame)>> /\ cmds = c \o g
      OBVIOUS
    <3>2. c \in Seq(Commands) /\ g \in Seq(Commands) /\ Queue' = submitted \o (list \o cmds)
      BY SMTT(120), <1>t, <3>1, SubmitCommands
    <3>3. (\A p \in DOMAIN ring : r2[p] = ring[p]) /\ cmds \in Seq(Commands)
      BY <1>4, <3>1, <3>2, ConcatProperties
    <3>4. /\ \A i \in 1 .. Len(Queue) + 1, b \in Bytes : \A v :
                Holds(own, ring, Queue, i, b, v) => Holds(own, r2, Queue', i, b, v)
          /\ \A i \in 1 .. Len(Queue) : Queue'[i].op = "draw" =>
                \A b \in Bytes : Queue'[i].expect[b] # 0 =>
                  IF Queue'[i].place = 0 THEN Holds(own, r2, Queue', i, b, Queue'[i].expect[b])
                  ELSE r2[Queue'[i].place][b] = Queue'[i].expect[b]
      BY ZenonT(30), <1>t, <2>1, <3>2, <3>3, EarlierCommands
    <3>5. QED
      BY <1>p, <3>1, <3>4
  <2>3. DrawsReadTheirs'
    <3>1. Queue' = q2 /\ own' = own /\ DOMAIN q2 = 1 .. m
      BY <1>1, <1>2
    <3>2. SUFFICES ASSUME NEW i \in DOMAIN Queue', Queue'[i].op = "draw", NEW b \in Bytes,
                          Queue'[i].expect[b] # 0
                   PROVE  IF Queue'[i].place = 0
                          THEN Holds(own', ring', Queue', i, b, Queue'[i].expect[b])
                          ELSE ring'[Queue'[i].place][b] = Queue'[i].expect[b]
      BY Zenon DEF DrawsReadTheirs
    <3>3. i \in 1 .. m /\ q2[i].op = "draw" /\ q2[i].expect[b] # 0
      BY <3>1, <3>2
    <3>4. i \in 1 .. n
      <4>1. i # m
        BY <1>2, <1>5, <3>3
      <4>2. queued => i # n + 1
        BY <1>2, <3>3
      <4>3. QED
        BY <1>2, <3>3, <4>1, <4>2
    <3>5. QED
      BY <2>2, <3>1, <3>3, <3>4
  <2>4. ASSUME NEW b \in Bytes, want[b] # 0
        PROVE  Holds(own, ring', q2, m + 1, b, want[b])
    <3>1. m \in Nat \ {0} /\ ~Copies(q2[m], b)
      BY <1>2, <1>5
    <3>2. Holds(own, ring', q2, m, b, want[b])
      <4>1. CASE queued
        <5>1. b \in RangeBytes /\ Latest[b] = want[b]
          BY <2>1, <2>4, <4>1 DEF ContentsAreSafe
        <5>2. Copies(q2[n + 1], b)
          BY <1>2, <4>1, <5>1 DEF Copies
        <5>3. n + 1 \in Nat \ {0} /\ (n + 1) + 1 = m
          BY <1>2, <4>1
        <5>4. Holds(own, ring', q2, (n + 1) + 1, b, ring'[q2[n + 1].place][b])
          BY <5>2, <5>3, HoldsCopy
        <5>5. ring'[q2[n + 1].place][b] = want[b]
          BY <1>1, <1>2, <1>3, <4>1, <5>1
        <5>6. QED
          BY <5>3, <5>4, <5>5
      <4>2. CASE ~queued
        <5>1. Holds(own, ring, q, n + 1, b, want[b])
          BY <1>2, <2>1, <2>4, <4>2 DEF ContentsAreSafe
        <5>2. n + 1 \in 1 .. n + 1 /\ m = n + 1
          BY <1>2, <4>2
        <5>3. QED
          BY <2>2, <5>1, <5>2
      <4>3. QED
        BY <4>1, <4>2
    <3>3. QED
      BY <3>1, <3>2, HoldsStep
  <2>5. ContentsAreSafe'
    BY <1>1, <1>2, <2>4 DEF ContentsAreSafe
  <2>6. QED
    BY <1>1, <2>1, <2>3, <2>5 DEF QueueIsRight
<1>11. QED
  BY <1>1, <1>6, <1>7, <1>8, <1>9, <1>10 DEF DynamicInv, DynamicTypes

-----------------------------------------------------------------------------
\* The GPU takes the first command off the queue.
LEMMA ShorterQueue ==
  ASSUME QueueTypes, GpuExecutes
  PROVE  /\ Queue \in Seq(Commands) /\ Len(Queue) \in Nat /\ Len(Queue) >= 1
         /\ Queue[1] = Head(submitted) /\ Head(submitted) \in Commands
         /\ submitted' \in Seq(Commands) /\ Queue' \in Seq(Commands)
         /\ Len(Queue') = Len(Queue) - 1
         /\ \A i \in 1 .. Len(Queue) - 1 : Queue'[i] = Queue[i + 1]
         /\ DOMAIN Queue = 1 .. Len(Queue) /\ DOMAIN Queue' = 1 .. Len(Queue) - 1
<1>1. submitted # <<>> /\ submitted' = Tail(submitted) /\ list' = list
  BY DEF GpuExecutes
<1>2. PICK s, l : s = submitted /\ l = list
  OBVIOUS
<1>3. s \in Seq(Commands) /\ l \in Seq(Commands) /\ s # <<>>
  BY <1>1, <1>2 DEF QueueTypes
<1>4. /\ Tail(s) \in Seq(Commands) /\ Len(s) \in Nat /\ Len(s) >= 1 /\ Len(Tail(s)) = Len(s) - 1
      /\ (\A i \in 1 .. Len(s) - 1 : Tail(s)[i] = s[i + 1])
      /\ Head(s) = s[1] /\ Head(s) \in Commands
  BY <1>3, HeadTailProperties, EmptySeq, LenProperties, ElementOfSeq
<1>5. /\ s \o l \in Seq(Commands) /\ Len(s \o l) = Len(s) + Len(l)
      /\ \A i \in 1 .. Len(s) + Len(l) :
           (s \o l)[i] = IF i <= Len(s) THEN s[i] ELSE l[i - Len(s)]
  BY <1>3, ConcatProperties
<1>6. /\ Tail(s) \o l \in Seq(Commands) /\ Len(Tail(s) \o l) = Len(Tail(s)) + Len(l)
      /\ \A i \in 1 .. Len(Tail(s)) + Len(l) : (Tail(s) \o l)[i] =
           IF i <= Len(Tail(s)) THEN Tail(s)[i] ELSE l[i - Len(Tail(s))]
  BY <1>3, <1>4, ConcatProperties
<1>7. Len(l) \in Nat
  BY <1>3, LenProperties
<1>8. Queue = s \o l /\ Queue' = Tail(s) \o l /\ Len(Queue) = Len(s) + Len(l)
  BY <1>1, <1>2, <1>5 DEF Queue
<1>9. ASSUME NEW i \in 1 .. Len(Queue) - 1 PROVE Queue'[i] = Queue[i + 1]
  <2>1. CASE i <= Len(s) - 1
    BY <1>4, <1>5, <1>6, <1>7, <1>8, <2>1
  <2>2. CASE i > Len(s) - 1
    <3>1. l[i - Len(Tail(s))] = l[i + 1 - Len(s)]
      BY <1>4
    <3>2. QED
      BY <1>4, <1>5, <1>6, <1>7, <1>8, <2>2, <3>1
  <2>3. QED
    BY <1>4, <2>1, <2>2
<1>10. DOMAIN Queue = 1 .. Len(Queue) /\ DOMAIN Queue' = 1 .. Len(Queue')
  BY <1>5, <1>6, <1>8, LenProperties
<1>11. QED
  BY SMTT(40), <1>1, <1>2, <1>4, <1>5, <1>6, <1>7, <1>8, <1>9, <1>10

\* A draw finds what it expects, a copy moves the byte where the commands after
\* it count on it.
LEMMA GpuKeeps ==
  ASSUME DynamicInv, GpuExecutes, UNCHANGED dynamicVars
  PROVE  DynamicInv'
<1> DEFINE head == Head(submitted)
<1>1. /\ own' = IF head.op = "copy"
                THEN [b \in Bytes |-> IF b \in head.bytes THEN Memory(head.place)[b] ELSE own[b]]
                ELSE own
      /\ completed' = IF head.op = "signal" THEN head.fence ELSE completed
      /\ misread' = (misread \/ /\ head.op = "draw"
                                /\ \E b \in Bytes :
                                     head.expect[b] \notin {0, Memory(head.place)[b]})
      /\ UNCHANGED <<frame, fence_values, current_back_buffer, waiting, app, bound, kept, want,
                     used, writes, list, ring, raced, habits, prev_lock_frame, has_spec,
                     spec_persisted, cache, ring_alloc, written_ranges, queued, locked>>
  BY DEF GpuExecutes, frameVars, refVars, appVars, dynamicVars
<1>t. TypeOK /\ QueueTypes /\ FrameIsKnown /\ DynamicTypes
  BY DEF DynamicInv, DynamicTypes
<1>2. PICK q, q2, n, cmd : q = Queue /\ q2 = Queue' /\ n = Len(Queue) /\ cmd = head
  OBVIOUS
<1>3. /\ q \in Seq(Commands) /\ n \in Nat /\ n >= 1 /\ q[1] = cmd /\ cmd \in Commands
      /\ submitted' \in Seq(Commands) /\ Len(q2) = n - 1
      /\ \A i \in 1 .. n - 1 : q2[i] = q[i + 1]
      /\ DOMAIN q = 1 .. n /\ DOMAIN q2 = 1 .. n - 1
  BY <1>2, <1>t, ShorterQueue
<1> HIDE DEF head
<1>4. /\ DOMAIN ring = 1 .. Len(ring) /\ Len(ring) \in Nat
      /\ \A p \in DOMAIN ring : ring[p] \in Contents
  BY <1>t, LenProperties, ElementOfSeq DEF QueueTypes
<1>5. /\ own \in Contents
      /\ \A i \in 1 .. n : q[i].op # "signal" => q[i].place \in 0 .. Len(ring)
      /\ cmd.op = "copy" => cmd.place \in DOMAIN ring /\ cmd.place # 0
  <2>1. \A i \in 1 .. n : q[i].op # "signal" => q[i].place \in 0 .. Len(ring)
    BY <1>2, <1>3, <1>t DEF QueueTypes
  <2>2. cmd.op = "copy" => cmd.place \in 0 .. Len(ring)
    BY <1>3, <2>1
  <2>3. cmd.op = "copy" => cmd.place # 0
    BY <1>3 DEF Commands
  <2>4. QED
    BY <1>4, <1>t, <2>1, <2>2, <2>3 DEF TypeOK, TimelineTypeOK
<1>6. /\ own' \in Contents
      /\ \A b \in Bytes : own'[b] = IF Copies(cmd, b) THEN ring[cmd.place][b] ELSE own[b]
  <2>1. CASE cmd.op = "copy"
    BY <1>1, <1>2, <1>4, <1>5, <2>1 DEF Memory, Copies, Contents
  <2>2. CASE cmd.op # "copy"
    BY <1>1, <1>2, <1>5, <2>2 DEF Copies
  <2>3. QED
    BY <2>1, <2>2
<1>7. TypeOK'
  <2>1. cmd.op = "signal" => cmd.fence \in 0 .. MaxFrame
    BY <1>3, BoundsAssumption DEF Commands
  <2>2. completed' \in 0 .. MaxFrame
    BY <1>1, <1>2, <1>t, <2>1 DEF TypeOK, TimelineTypeOK
  <2>3. misread' \in BOOLEAN
    BY <1>1, <1>t DEF TypeOK, TimelineTypeOK
  <2>4. QED
    BY <1>1, <1>6, <1>t, <2>2, <2>3 DEF TypeOK, TimelineTypeOK
<1>8. QueueTypes'
  <2>1. ASSUME NEW i \in DOMAIN q2, q2[i].op # "signal" PROVE q2[i].place \in 0 .. Len(ring)
    <3>1. i + 1 \in 1 .. n /\ q2[i] = q[i + 1]
      BY <1>3, <2>1
    <3>2. QED
      BY <1>5, <2>1, <3>1
  <2>2. QED
    BY <1>1, <1>2, <1>3, <1>t, <2>1 DEF QueueTypes
<1>9. FrameIsKnown'
  BY <1>1, <1>t DEF FrameIsKnown, Speculative
<1>10. AppendsAreSafe'
  <2>1. SUFFICES ASSUME queued, ~Speculative, NEW i \in DOMAIN q2, q2[i].op # "signal",
                        q2[i].place = ring_alloc.place
                 PROVE  q2[i].op = "draw" /\ \A b \in Bytes : q2[i].expect[b] # 0 => b \in used
    BY <1>1, <1>2 DEF AppendsAreSafe, Speculative
  <2>2. i + 1 \in DOMAIN Queue /\ Queue[i + 1] = q2[i]
    BY <1>2, <1>3, <2>1
  <2>3. QED
    BY <2>1, <2>2 DEF DynamicInv, AppendsAreSafe
<1>11. ASSUME ~raced PROVE QueueIsRight'
  <2>1. ~misread /\ DrawsReadTheirs /\ ContentsAreSafe
    BY <1>11 DEF DynamicInv, QueueIsRight
  <2>2. ASSUME NEW i \in 1 .. n, q[i].op = "draw", NEW b \in Bytes, q[i].expect[b] # 0
        PROVE  IF q[i].place = 0 THEN Holds(own, ring, q, i, b, q[i].expect[b])
               ELSE ring[q[i].place][b] = q[i].expect[b]
    <3>1. q = Queue /\ i \in DOMAIN Queue
      BY <1>2, <1>3
    <3>2. QED
      BY Zenon, <2>1, <2>2, <3>1 DEF DrawsReadTheirs
  <2>3. ~misread'
    <3>1. SUFFICES ASSUME cmd.op = "draw", NEW b \in Bytes, cmd.expect[b] # 0
                   PROVE  cmd.expect[b] = Memory(cmd.place)[b]
      BY <1>1, <1>2, <2>1
    <3>2. /\ 1 \in 1 .. n
          /\ IF cmd.place = 0 THEN Holds(own, ring, q, 1, b, cmd.expect[b])
             ELSE ring[cmd.place][b] = cmd.expect[b]
      BY <1>3, <2>2, <3>1
    <3>3. CASE cmd.place = 0
      <4>1. own[b] = cmd.expect[b]
        BY <3>2, <3>3 DEF Holds
      <4>2. QED
        BY <3>3, <4>1 DEF Memory
    <3>4. CASE cmd.place # 0
      BY <3>2, <3>4 DEF Memory
    <3>5. QED
      BY <3>3, <3>4
  <2>4. ASSUME NEW i \in 1 .. n, NEW b \in Bytes, NEW v, Holds(own, ring, q, i + 1, b, v)
        PROVE  Holds(own', ring, q2, i, b, v)
    <3>1. i \in Nat \ {0} /\ \A j \in 1 .. i - 1 : q2[j] = q[j + 1]
      BY <1>3
    <3>2. own'[b] = IF Copies(q[1], b) THEN ring[q[1].place][b] ELSE own[b]
      BY <1>3, <1>6
    <3>3. QED
      BY <2>4, <3>1, <3>2, HoldsPop
  <2>5. DrawsReadTheirs'
    <3>1. Queue' = q2 /\ ring' = ring /\ DOMAIN q2 = 1 .. n - 1
      BY <1>1, <1>2, <1>3
    <3>2. SUFFICES ASSUME NEW i \in DOMAIN Queue', Queue'[i].op = "draw", NEW b \in Bytes,
                          Queue'[i].expect[b] # 0
                   PROVE  IF Queue'[i].place = 0
                          THEN Holds(own', ring', Queue', i, b, Queue'[i].expect[b])
                          ELSE ring'[Queue'[i].place][b] = Queue'[i].expect[b]
      BY Zenon DEF DrawsReadTheirs
    <3>3. /\ i \in 1 .. n /\ i + 1 \in 1 .. n /\ q2[i] = q[i + 1]
          /\ q[i + 1].op = "draw" /\ q[i + 1].expect[b] # 0
      BY <1>3, <3>1, <3>2
    <3>4. IF q[i + 1].place = 0 THEN Holds(own, ring, q, i + 1, b, q[i + 1].expect[b])
          ELSE ring[q[i + 1].place][b] = q[i + 1].expect[b]
      BY <2>2, <3>3
    <3>5. q[i + 1].place = 0 => Holds(own', ring, q2, i, b, q[i + 1].expect[b])
      BY <2>4, <3>3, <3>4
    <3>6. QED
      BY <3>1, <3>3, <3>4, <3>5
  <2>6. ContentsAreSafe'
    <3>1. RangeBytes' = RangeBytes /\ Latest' = Latest
      BY <1>1 DEF RangeBytes, Latest, Speculative
    <3>2. ASSUME NEW b \in Bytes, want[b] # 0, ~queued
          PROVE  Holds(own', ring, q2, Len(q2) + 1, b, want[b])
      <4>1. n \in 1 .. n /\ Len(q2) + 1 = n
        BY <1>3
      <4>2. Holds(own, ring, q, n + 1, b, want[b])
        BY <1>2, <2>1, <3>2 DEF ContentsAreSafe
      <4>3. QED
        BY <2>4, <3>2, <4>1, <4>2
    <3>3. QED
      BY <1>1, <1>2, <2>1, <3>1, <3>2 DEF ContentsAreSafe
  <2>7. QED
    BY <2>3, <2>5, <2>6 DEF QueueIsRight
<1>12. QED
  BY <1>1, <1>7, <1>8, <1>9, <1>10, <1>11 DEF DynamicInv, DynamicTypes

-----------------------------------------------------------------------------
\* The rest changes neither the queue nor the contents.
LEMMA OthersKeep ==
  ASSUME DynamicInv, WaitForFrame \/ Bind \/ Unbind \/ ReleaseBuffer \/ UNCHANGED timelineVars,
         UNCHANGED dynamicVars
  PROVE  DynamicInv'
<1>1. /\ UNCHANGED <<frame, fence_values, current_back_buffer, submitted, completed, misread,
                     want, used, writes, list, own, ring, raced, habits, prev_lock_frame,
                     has_spec, spec_persisted, cache, ring_alloc, written_ranges, queued, locked>>
      /\ kept' \subseteq kept /\ app' \in BOOLEAN /\ bound' \in BOOLEAN /\ waiting' \in BOOLEAN
      /\ waiting' => waiting
  <2>1. {app, bound, waiting} \subseteq BOOLEAN
    BY DEF DynamicInv, DynamicTypes, TypeOK, TimelineTypeOK
  <2>2. UNCHANGED <<habits, prev_lock_frame, has_spec, spec_persisted, cache, ring_alloc,
                    written_ranges, queued, locked>>
    BY DEF dynamicVars
  <2>3. CASE WaitForFrame
    BY <2>1, <2>2, <2>3 DEF WaitForFrame, KeptAfter, gpuVars, appVars
  <2>4. CASE Bind
    BY <2>1, <2>2, <2>4 DEF Bind, frameVars, gpuVars, appVars
  <2>5. CASE Unbind
    BY <2>1, <2>2, <2>5 DEF Unbind, frameVars, gpuVars, appVars
  <2>6. CASE ReleaseBuffer
    BY <2>1, <2>2, <2>6 DEF ReleaseBuffer, frameVars, gpuVars, appVars
  <2>7. CASE UNCHANGED timelineVars
    BY <2>1, <2>2, <2>7 DEF timelineVars, frameVars, gpuVars, refVars, appVars
  <2>8. QED
    BY <2>3, <2>4, <2>5, <2>6, <2>7
<1>2. TypeOK'
  BY <1>1 DEF DynamicInv, DynamicTypes, TypeOK, TimelineTypeOK
<1>3. Queue' = Queue /\ Speculative' = Speculative /\ RangeBytes' = RangeBytes
  BY <1>1 DEF Queue, Speculative, RangeBytes
<1>4. QueueTypes' /\ FrameIsKnown' /\ AppendsAreSafe'
  BY <1>1, <1>3 DEF DynamicInv, DynamicTypes, QueueTypes, FrameIsKnown, AppendsAreSafe
<1>5. QueueIsRight => QueueIsRight'
  BY <1>1, <1>3 DEF QueueIsRight, DrawsReadTheirs, ContentsAreSafe, Latest
<1>6. QED
  BY <1>1, <1>2, <1>4, <1>5 DEF DynamicInv, DynamicTypes

LEMMA InitDynamic == Init => DynamicInv
<1> SUFFICES ASSUME Init PROVE DynamicInv
  OBVIOUS
<1>1. TypeOK
  <2>1. 0 \in 0 .. MaxWrites /\ 0 \in 0 .. MaxFrame /\ 1 \in 1 .. MaxFrame + 1
        /\ 0 \in 0 .. MaxFrame + 1 /\ 0 \in Slots
    BY BoundsAssumption, TimelineNumBackBuffersAssumption DEF Slots
  <2>2. /\ [b \in Bytes |-> 0] \in Contents /\ [s \in Slots |-> 0] \in [Slots -> 0 .. MaxFrame]
        /\ NoAlloc \in [place : 0 .. 0, frame : 0 .. MaxFrame + 1] /\ Len(<<>>) = 0
    BY <2>1 DEF Contents, NoAlloc
  <2>3. TimelineTypeOK
    <3>1. /\ frame = 1 /\ current_back_buffer = 0 /\ completed = 0 /\ ring = <<>>
          /\ fence_values = [s \in Slots |-> 0] /\ own = [b \in Bytes |-> 0]
          /\ kept = {} /\ want = [b \in Bytes |-> 0] /\ used = {} /\ writes = 0
      BY DEF Init, TimelineInit
    <3>2. {app, bound, waiting, misread, raced} \subseteq BOOLEAN
      BY DEF Init, TimelineInit
    <3>3. \A i \in DOMAIN ring : ring[i] \in Contents
      BY <3>1
    <3>4. QED
      BY <2>1, <2>2, <3>1, <3>2, <3>3 DEF TimelineTypeOK
  <2>4. /\ ring_alloc \in [place : 0 .. Len(ring), frame : 0 .. MaxFrame + 1]
        /\ cache \in Contents /\ habits \in HabitSets /\ prev_lock_frame \in 0 .. MaxFrame + 1
    BY <2>1, <2>2 DEF Init, TimelineInit
  <2>5. QED
    BY <2>3, <2>4 DEF Init, TypeOK
<1>2. submitted = <<>> /\ list = <<>> /\ ring = <<>> /\ Queue = <<>> /\ ~misread
      /\ (\A b \in Bytes : want[b] = 0) /\ ~queued /\ ~Speculative
      /\ frame = 1 /\ prev_lock_frame = 0
  BY DEF Init, TimelineInit, Queue, Speculative
<1>3. QED
  BY <1>1, <1>2 DEF DynamicInv, DynamicTypes, QueueTypes, FrameIsKnown, AppendsAreSafe,
     QueueIsRight, DrawsReadTheirs, ContentsAreSafe

LEMMA LocksKeep ==
  ASSUME DynamicInv, NEW r \in Ranges, LockNoOverwriteOwn(r) \/ LockPlain(r)
  PROVE  DynamicInv'
<1>1. FrameIsKnown /\ prev_lock_frame \in Nat /\ frame \in Nat
  BY BoundsAssumption DEF DynamicInv, DynamicTypes, TypeOK, TimelineTypeOK
<1>2. CASE LockNoOverwriteOwn(r)
  <2>1. prev_lock_frame < frame
    BY <1>2 DEF LockNoOverwriteOwn
  <2>2. ~queued
    BY <1>1, <2>1 DEF FrameIsKnown
  <2>3. QED
    BY <1>2, <2>2, WriteOwnKeeps DEF LockNoOverwriteOwn
<1>3. CASE LockPlain(r)
  <2>1. PICK elsewhere \in BOOLEAN : elsewhere = OnRing
    BY DEF OnRing, Speculative, DynamicInv, DynamicTypes, TypeOK
  <2>2. queued => elsewhere
    BY <1>1, <2>1 DEF OnRing, FrameIsKnown
  <2>3. QED
    BY <1>3, <2>1, <2>2, WriteOwnKeeps DEF LockPlain
<1>4. QED
  BY <1>2, <1>3

LEMMA DynamicInductive == DynamicInv /\ [Next]_vars => DynamicInv'
  BY LockDiscardKeeps, LocksKeep, LockRingKeeps, DrawKeeps, SubmitKeeps, GpuKeeps, OthersKeep
     DEF Next, vars

\* Contents, commands and ranges have the values the rest of the argument
\* computes with.
THEOREM DynamicTypesHold == Spec => []TypeOK
  BY InitDynamic, DynamicInductive, PTL DEF Spec, DynamicInv, DynamicTypes

\* However the application mixes DISCARD, appends and plain locks with draws,
\* a draw reads what the buffer held at the call, unless the CPU has written the
\* mapped resource under a command still to be executed or behind a ring
\* allocation of the same frame (DynamicBuffer::Lock, GetGpuPtr,
\* PersistDynamicChanges).
THEOREM DynamicReads == Spec => []WrongReadsAreRaces
<1>1. DynamicInv => WrongReadsAreRaces
  BY DEF DynamicInv, QueueIsRight, WrongReadsAreRaces
<1>2. QED
  BY <1>1, InitDynamic, DynamicInductive, PTL DEF Spec

\* Once the GPU has caught up, the resource holds what the application's buffer
\* holds, but for such a race: cache, ring, written ranges and persist loop lose
\* nothing.
THEOREM DynamicPersists == Spec => []PersistedWhenIdle
<1>1. DynamicInv => PersistedWhenIdle
  <2> SUFFICES ASSUME DynamicInv, Pending = {}, ~queued, ~raced, NEW b \in Bytes, want[b] # 0
               PROVE  want[b] = own[b]
    BY DEF PersistedWhenIdle
  <2>1. Holds(own, ring, Queue, Len(Queue) + 1, b, want[b])
    BY DEF DynamicInv, QueueIsRight, ContentsAreSafe
  <2>2. Len(Queue) = 0
    <3>1. PICK s, l : s = submitted /\ l = list
      OBVIOUS
    <3>2. s \in Seq(Commands) /\ l \in Seq(Commands) /\ DOMAIN s = {} /\ DOMAIN l = {}
      BY <3>1 DEF Pending, DynamicInv, DynamicTypes, QueueTypes
    <3>3. Len(s) = 0 /\ Len(l) = 0
      BY <3>2, LenProperties
    <3>4. QED
      BY <3>1, <3>2, <3>3, ConcatProperties DEF Queue
  <2>3. QED
    BY <2>1, <2>2 DEF Holds
<1>2. QED
  BY <1>1, InitDynamic, DynamicInductive, PTL DEF Spec

-----------------------------------------------------------------------------
\* Where no byte is locked twice, RangeSet::insert keeps the ranges apart.
Apart(ranges) ==
  /\ \A p \in ranges : End(p) <= Size
  /\ \A p, q \in ranges : p # q => BytesOf(p) \cap BytesOf(q) = {}

\* One range in the place of another one, or of none.
LEMMA ReplacedRange ==
  ASSUME NEW ranges, Apart(ranges), NEW old \in SUBSET ranges, NEW r,
         NEW m, End(m) <= Size,
         \A p \in ranges : BytesOf(p) \cap BytesOf(r) = {},
         \A b \in BytesOf(m) : b \in BytesOf(r) \/ \E p \in old : b \in BytesOf(p)
  PROVE  /\ Apart((ranges \ old) \cup {m})
         /\ \A q \in (ranges \ old) \cup {m} : \A b \in BytesOf(q) :
              b \in BytesOf(r) \/ \E p \in ranges : b \in BytesOf(p)
<1>1. ASSUME NEW p \in ranges \ old PROVE BytesOf(p) \cap BytesOf(m) = {}
  <2>1. \A q \in old : BytesOf(p) \cap BytesOf(q) = {}
    BY DEF Apart
  <2>2. BytesOf(p) \cap BytesOf(r) = {}
    OBVIOUS
  <2>3. QED
    BY <2>1, <2>2
<1>2. \A p \in (ranges \ old) \cup {m} : End(p) <= Size
  BY DEF Apart
<1>3. ASSUME NEW p \in (ranges \ old) \cup {m}, NEW q \in (ranges \ old) \cup {m}, p # q
      PROVE  BytesOf(p) \cap BytesOf(q) = {}
  BY <1>1, <1>3 DEF Apart
<1>4. QED
  BY <1>2, <1>3 DEF Apart

LEMMA InsertKeepsApart ==
  ASSUME NEW ranges \in SUBSET [offset : Bytes, size : Nat \ {0}], NEW r \in Ranges,
         Apart(ranges), \A p \in ranges : BytesOf(p) \cap BytesOf(r) = {}
  PROVE  /\ Apart(Insert(ranges, r))
         /\ \A q \in Insert(ranges, r) : \A b \in BytesOf(q) :
              b \in BytesOf(r) \/ \E p \in ranges : b \in BytesOf(p)
<1>1. /\ r.offset \in Nat /\ r.size \in Nat \ {0} /\ End(r) <= Size /\ Size \in Nat
      /\ r.offset \in BytesOf(r)
      /\ \A q \in ranges : q.offset \in Nat /\ q.size \in Nat \ {0}
                           /\ q = [offset |-> q.offset, size |-> q.size]
  BY SizeAssumption DEF Bytes, Ranges, BytesOf, End
<1>2. CASE \E prev \in ranges :
             /\ prev.offset < r.offset /\ End(prev) >= r.offset
             /\ Insert(ranges, r) = (ranges \ {prev}) \cup {[prev EXCEPT !.size = @ + r.size]}
  <2>1. PICK prev \in ranges :
             /\ prev.offset < r.offset /\ End(prev) >= r.offset
             /\ Insert(ranges, r) = (ranges \ {prev}) \cup {[prev EXCEPT !.size = @ + r.size]}
    BY <1>2
  <2>2. PICK m : m = [prev EXCEPT !.size = @ + r.size]
    OBVIOUS
  <2>3. m.offset = prev.offset /\ m.size = prev.size + r.size
    BY <1>1, <2>1, <2>2
  <2>4. End(prev) = r.offset
    <3>1. r.offset \notin BytesOf(prev)
      BY <1>1
    <3>2. QED
      BY <1>1, <2>1, <3>1 DEF BytesOf, End
  <2>5. End(m) <= Size /\ \A b \in BytesOf(m) : b \in BytesOf(r) \/ b \in BytesOf(prev)
    BY <1>1, <2>3, <2>4 DEF BytesOf, End
  <2>6. PICK old : old = {prev}
    OBVIOUS
  <2>7. /\ old \in SUBSET ranges /\ Insert(ranges, r) = (ranges \ old) \cup {m}
        /\ \A b \in BytesOf(m) : b \in BytesOf(r) \/ \E p \in old : b \in BytesOf(p)
    BY <2>1, <2>2, <2>5, <2>6
  <2>8. QED
    BY <2>5, <2>7, ReplacedRange
<1>3. CASE \E next \in ranges :
             /\ next.offset >= r.offset /\ End(r) >= next.offset
             /\ Insert(ranges, r) =
                  IF next = r THEN ranges
                  ELSE (ranges \ {next}) \cup {[offset |-> r.offset, size |-> r.size + next.size]}
  <2>1. PICK next \in ranges :
             /\ next.offset >= r.offset /\ End(r) >= next.offset
             /\ Insert(ranges, r) =
                  IF next = r THEN ranges
                  ELSE (ranges \ {next}) \cup {[offset |-> r.offset, size |-> r.size + next.size]}
    BY <1>3
  <2>2. next # r
    BY <1>1, <2>1
  <2>3. PICK m : m = [offset |-> r.offset, size |-> r.size + next.size]
    OBVIOUS
  <2>4. m.offset = r.offset /\ m.size = r.size + next.size
    BY <2>3
  <2>5. End(r) = next.offset
    <3>1. next.offset \notin BytesOf(r)
      <4>1. next.offset \in BytesOf(next)
        BY <1>1 DEF BytesOf
      <4>2. QED
        BY <4>1
    <3>2. QED
      BY <1>1, <2>1, <3>1 DEF BytesOf, End
  <2>6. End(m) <= Size /\ \A b \in BytesOf(m) : b \in BytesOf(r) \/ b \in BytesOf(next)
    <3>1. End(next) <= Size
      BY DEF Apart
    <3>2. QED
      BY <1>1, <2>4, <2>5, <3>1 DEF BytesOf, End
  <2>7. PICK old : old = {next}
    OBVIOUS
  <2>8. /\ old \in SUBSET ranges /\ Insert(ranges, r) = (ranges \ old) \cup {m}
        /\ \A b \in BytesOf(m) : b \in BytesOf(r) \/ \E p \in old : b \in BytesOf(p)
    BY <2>1, <2>2, <2>3, <2>6, <2>7
  <2>9. QED
    BY <2>6, <2>8, ReplacedRange
<1>4. CASE Insert(ranges, r) = ranges \cup {r}
  <2>1. PICK old : old = {}
    OBVIOUS
  <2>2. old \in SUBSET ranges /\ Insert(ranges, r) = (ranges \ old) \cup {r}
    BY <1>4, <2>1
  <2>3. QED
    BY <1>1, <2>2, ReplacedRange
<1>5. QED
  BY <1>2, <1>3, <1>4, InsertCases

RangesAreLocked ==
  "relock" \notin habits => RangeBytes \subseteq locked /\ Apart(written_ranges)

LEMMA RangesKeep ==
  ASSUME TypeOK, RangesAreLocked, [Next]_vars
  PROVE  RangesAreLocked'
<1>1. ASSUME NEW r \in Ranges, LockDiscard(r) PROVE RangesAreLocked'
  <2>1. written_ranges' = Insert({}, r) /\ locked' = BytesOf(r)
    BY <1>1 DEF LockDiscard, RangesRestarted
  <2>2. {} \in SUBSET [offset : Bytes, size : Nat \ {0}] /\ Apart({})
    BY DEF Apart
  <2>3. /\ Apart(Insert({}, r))
        /\ \A q \in Insert({}, r) : \A b \in BytesOf(q) : b \in BytesOf(r)
    BY <2>2, InsertKeepsApart
  <2>4. QED
    BY <2>1, <2>3 DEF RangesAreLocked, RangeBytes
<1>2. ASSUME NEW r \in Ranges, LockNoOverwriteRing(r) PROVE RangesAreLocked'
  <2>1. SUFFICES ASSUME "relock" \notin habits
                 PROVE  RangeBytes' \subseteq locked' /\ Apart(written_ranges')
    BY <1>2 DEF LockNoOverwriteRing, RangesAreLocked
  <2>2. /\ BytesOf(r) \cap locked = {}
        /\ written_ranges' = Insert(written_ranges, r)
        /\ locked' = locked \cup BytesOf(r)
    BY <1>2, <2>1 DEF LockNoOverwriteRing, Promised
  <2>3. RangeBytes \subseteq locked /\ Apart(written_ranges)
    BY <2>1 DEF RangesAreLocked
  <2>4. /\ written_ranges \in SUBSET [offset : Bytes, size : Nat \ {0}]
        /\ \A p \in written_ranges : BytesOf(p) \subseteq locked
    BY <2>3 DEF TypeOK, RangeBytes
  <2>5. /\ Apart(Insert(written_ranges, r))
        /\ \A q \in Insert(written_ranges, r) : \A b \in BytesOf(q) :
             b \in BytesOf(r) \/ \E p \in written_ranges : b \in BytesOf(p)
    BY <2>2, <2>3, <2>4, InsertKeepsApart
  <2>6. QED
    BY <2>2, <2>4, <2>5 DEF RangeBytes
<1>3. ASSUME NEW r \in Ranges, LockNoOverwriteOwn(r) \/ LockPlain(r) PROVE RangesAreLocked'
  BY <1>3 DEF LockNoOverwriteOwn, LockPlain, RangesAreLocked, RangeBytes
<1>4. CASE Draw
  BY <1>4 DEF Draw, RangesAreLocked, RangeBytes
<1>5. ASSUME NEW should_present \in BOOLEAN, Submit(should_present) PROVE RangesAreLocked'
  <2>1. /\ UNCHANGED <<habits, locked>>
        /\ written_ranges' = {} \/ written_ranges' = written_ranges
    BY <1>5 DEF Submit
  <2>2. QED
    BY <2>1 DEF RangesAreLocked, RangeBytes, Apart
<1>6. CASE UNCHANGED dynamicVars
  BY <1>6 DEF dynamicVars, RangesAreLocked, RangeBytes
<1>7. QED
  BY <1>1, <1>2, <1>3, <1>4, <1>5, <1>6 DEF Next, vars

\* Of an application that locks no byte twice between two DISCARDs, RangeSet's
\* ASSERTs hold, and PersistDynamicChanges copies no byte outside the buffer.
THEOREM DynamicCopiesStayInside == Spec => []CopiesStayInsideWithoutRelock
<1>1. Init => RangesAreLocked
  BY DEF Init, RangesAreLocked, RangeBytes, Apart
<1>2. RangesAreLocked => CopiesStayInsideWithoutRelock
  BY DEF RangesAreLocked, CopiesStayInsideWithoutRelock, CopiesStayInside, Apart
<1>3. TypeOK /\ RangesAreLocked /\ [Next]_vars => RangesAreLocked'
  BY RangesKeep
<1>4. QED
  BY <1>1, <1>2, <1>3, DynamicTypesHold, PTL DEF Spec

-----------------------------------------------------------------------------
\* Signals are in the order of their fences, ahead of what has completed.
SignalsInOrder ==
  /\ completed < frame
  /\ \A i \in DOMAIN list : list[i].op # "signal"
  /\ \A i \in DOMAIN submitted : submitted[i].op = "signal" =>
       completed < submitted[i].fence /\ submitted[i].fence < frame
  /\ \A i, j \in DOMAIN submitted :
       i < j /\ submitted[i].op = "signal" /\ submitted[j].op = "signal" =>
         submitted[i].fence < submitted[j].fence

\* What names the resource was recorded for a back buffer whose keep-alive list
\* has the buffer, and which will not be reused before a signal behind it.
NamersAreKept ==
  "undrawn" \notin habits =>
    /\ \A i \in DOMAIN list : NamesOwn(list[i]) => current_back_buffer \in kept
    /\ \A i \in DOMAIN submitted : NamesOwn(submitted[i]) =>
         \E s \in kept, j \in DOMAIN submitted :
           j > i /\ submitted[j].op = "signal" /\ submitted[j].fence <= fence_values[s]

KeptInv == SignalsInOrder /\ NamersAreKept

LEMMA QueueParts ==
  ASSUME QueueTypes
  PROVE  /\ Len(submitted) \in Nat /\ Len(list) \in Nat
         /\ Len(Queue) = Len(submitted) + Len(list)
         /\ DOMAIN submitted = 1 .. Len(submitted) /\ DOMAIN list = 1 .. Len(list)
         /\ \A i \in DOMAIN submitted : Queue[i] = submitted[i]
         /\ \A i \in 1 .. Len(Queue) : i > Len(submitted) =>
              i - Len(submitted) \in DOMAIN list /\ Queue[i] = list[i - Len(submitted)]
<1>1. PICK s \in Seq(Commands), l \in Seq(Commands) : s = submitted /\ l = list
  BY DEF QueueTypes
<1>2. /\ Len(s) \in Nat /\ Len(l) \in Nat /\ DOMAIN s = 1 .. Len(s) /\ DOMAIN l = 1 .. Len(l)
      /\ Len(s \o l) = Len(s) + Len(l)
      /\ \A i \in 1 .. Len(s) + Len(l) : (s \o l)[i] = IF i <= Len(s) THEN s[i]
                                                      ELSE l[i - Len(s)]
  BY ConcatProperties, LenProperties
<1>3. /\ \A i \in 1 .. Len(s) : (s \o l)[i] = s[i]
      /\ \A i \in 1 .. Len(s \o l) : i > Len(s) =>
           i - Len(s) \in 1 .. Len(l) /\ (s \o l)[i] = l[i - Len(s)]
  BY <1>2
<1>4. QED
  BY <1>1, <1>2, <1>3 DEF Queue

LEMMA DrawIsKept ==
  ASSUME DynamicTypes, KeptInv, Draw
  PROVE  KeptInv'
<1>1. /\ list' = list \o <<DrawFrom(Place)>> /\ kept' = kept \cup {current_back_buffer}
      /\ UNCHANGED <<frame, fence_values, current_back_buffer, submitted, completed, habits>>
  BY DEF Draw, RecordDraw, frameVars, gpuVars
<1>2. \A i \in DOMAIN list' : list'[i].op # "signal"
  <2>1. PICK l, c : l = list /\ c = DrawFrom(Place)
    OBVIOUS
  <2>2. c.op = "draw" /\ l \in Seq(Commands)
    BY <2>1 DEF DrawFrom, DynamicTypes, QueueTypes
  <2>3. /\ Len(l) \in Nat /\ DOMAIN l = 1 .. Len(l) /\ DOMAIN (l \o <<c>>) = 1 .. Len(l) + 1
        /\ \A i \in 1 .. Len(l) : (l \o <<c>>)[i] = l[i]
        /\ (l \o <<c>>)[Len(l) + 1] = c
    BY <2>2, LenProperties
  <2>4. QED
    BY <1>1, <2>1, <2>2, <2>3 DEF KeptInv, SignalsInOrder
<1>3. SignalsInOrder'
  BY <1>1, <1>2 DEF KeptInv, SignalsInOrder
<1>4. NamersAreKept'
  BY <1>1 DEF KeptInv, NamersAreKept
<1>5. QED
  BY <1>3, <1>4 DEF KeptInv

LEMMA SubmitIsKept ==
  ASSUME DynamicTypes, KeptInv, NEW should_present \in BOOLEAN, Submit(should_present)
  PROVE  KeptInv'
<1>1. /\ fence_values' = [fence_values EXCEPT ![current_back_buffer] = frame]
      /\ frame' = frame + 1 /\ Covered /\ list' = <<>>
      /\ UNCHANGED <<completed, kept, habits>>
  BY DEF Submit, SubmitAndWait, refVars
<1>t. /\ QueueTypes /\ frame \in Nat /\ completed \in Nat /\ current_back_buffer \in Slots
      /\ fence_values \in [Slots -> Nat] /\ kept \subseteq Slots
      /\ SignalsInOrder
  BY BoundsAssumption DEF DynamicTypes, TypeOK, TimelineTypeOK, KeptInv
<1>2. PICK s2, n, m, k, g :
        s2 = submitted' /\ n = Len(Queue) /\ m = Len(Queue') /\ k = Len(submitted)
        /\ g = Signal(frame)
  OBVIOUS
<1>3. /\ n \in Nat /\ m = (IF queued THEN n + 2 ELSE n + 1) /\ DOMAIN s2 = 1 .. m
      /\ \A i \in 1 .. n : s2[i] = Queue[i]
      /\ s2[m] = g
      /\ queued => s2[n + 1].op = "copy"
  BY <1>2, SubmitQueue
<1>4. /\ k \in Nat /\ Len(list) \in Nat /\ n = k + Len(list) /\ DOMAIN submitted = 1 .. k
      /\ \A i \in 1 .. k : Queue[i] = submitted[i]
      /\ \A i \in 1 .. n : i > k => i - k \in DOMAIN list /\ Queue[i] = list[i - k]
  BY <1>2, <1>t, QueueParts
<1>5. g.op = "signal" /\ g.fence = frame /\ ~NamesOwn(g)
  BY <1>2 DEF Signal, NamesOwn
\* The commands, by where they come from.
<1>6. ASSUME NEW i \in 1 .. m
      PROVE  \/ i \in 1 .. k /\ s2[i] = submitted[i]
             \/ i > k /\ i < m /\ s2[i].op # "signal"
             \/ i = m /\ s2[i] = g
  <2>1. CASE i <= k
    BY <1>3, <1>4, <2>1
  <2>2. CASE i > k /\ i <= n
    <3>1. i - k \in DOMAIN list /\ s2[i] = list[i - k]
      BY <1>3, <1>4, <2>2
    <3>2. QED
      BY <1>3, <1>t, <2>2, <3>1 DEF SignalsInOrder
  <2>3. CASE i > n /\ i < m
    <3>1. queued /\ i = n + 1
      BY <1>3, <2>3
    <3>2. QED
      BY <1>3, <1>4, <2>3, <3>1
  <2>4. CASE i = m
    BY <1>3, <2>4
  <2>5. QED
    BY <1>3, <1>4, <2>1, <2>2, <2>3, <2>4
<1>7. k < m
  BY <1>3, <1>4
<1>8. ASSUME NEW i \in 1 .. m, s2[i].op = "signal"
      PROVE  \/ i \in 1 .. k /\ s2[i] = submitted[i] /\ completed < s2[i].fence
                /\ s2[i].fence < frame
             \/ i = m /\ s2[i].fence = frame
  <2>1. CASE i \in 1 .. k /\ s2[i] = submitted[i]
    BY <1>4, <1>8, <1>t, <2>1 DEF SignalsInOrder
  <2>2. CASE i = m
    BY <1>3, <1>5, <2>2
  <2>3. QED
    BY <1>6, <1>8, <2>1, <2>2
<1>9. ASSUME NEW i \in 1 .. m, s2[i].op = "signal" PROVE s2[i].fence \in Nat
  <2>1. \A x \in Commands : x.op = "signal" => x.fence \in Nat
    BY BoundsAssumption DEF Commands
  <2>2. s2 \in Seq(Commands)
    BY <1>2, SubmitQueue
  <2>3. QED
    BY <1>3, <1>9, <2>1, <2>2, ElementOfSeq, LenProperties
<1>10. SignalsInOrder'
  <2>1. \A i \in 1 .. m : s2[i].op = "signal" => completed < s2[i].fence /\ s2[i].fence < frame + 1
    BY <1>8, <1>9, <1>t DEF SignalsInOrder
  <2>2. ASSUME NEW i \in 1 .. m, NEW j \in 1 .. m, i < j,
               s2[i].op = "signal", s2[j].op = "signal"
        PROVE  s2[i].fence < s2[j].fence
    <3>1. i \in 1 .. k /\ s2[i] = submitted[i] /\ s2[i].fence < frame
      BY <1>3, <1>8, <2>2
    <3>2. CASE j = m
      BY <1>3, <1>5, <3>1, <3>2
    <3>3. CASE j # m
      <4>1. j \in 1 .. k /\ s2[j] = submitted[j]
        BY <1>8, <2>2, <3>3
      <4>2. QED
        BY <1>4, <1>t, <2>2, <3>1, <4>1 DEF SignalsInOrder
    <3>4. QED
      BY <3>2, <3>3
  <2>3. completed < frame + 1
    BY <1>t DEF SignalsInOrder
  <2>4. QED
    BY <1>1, <1>2, <1>3, <2>1, <2>2, <2>3 DEF SignalsInOrder
<1>11. ASSUME "undrawn" \notin habits, NEW i \in 1 .. m, NamesOwn(s2[i])
       PROVE  \E s \in kept, j \in 1 .. m :
                j > i /\ s2[j].op = "signal" /\ s2[j].fence <= fence_values'[s]
  <2>0. fence_values'[current_back_buffer] = frame
        /\ \A s \in Slots : s # current_back_buffer => fence_values'[s] = fence_values[s]
    BY <1>1, <1>t
  <2>1. CASE i \in 1 .. k
    <3>1. s2[i] = submitted[i]
      BY <1>3, <1>4, <2>1
    <3>2. PICK s \in kept, j \in DOMAIN submitted :
            j > i /\ submitted[j].op = "signal" /\ submitted[j].fence <= fence_values[s]
      BY <1>4, <1>11, <2>1, <3>1 DEF KeptInv, NamersAreKept
    <3>3. j \in 1 .. m /\ s2[j] = submitted[j] /\ submitted[j].fence < frame
      <4>1. j \in 1 .. k /\ j \in 1 .. n /\ j \in 1 .. m
        BY <1>3, <1>4, <3>2
      <4>2. s2[j] = submitted[j]
        BY <1>3, <1>4, <4>1
      <4>3. QED
        BY <1>t, <3>2, <4>1, <4>2 DEF SignalsInOrder
    <3>4. s2[j].fence \in Nat /\ s \in Slots
      BY <1>9, <1>t, <3>2, <3>3
    <3>5. s2[j].fence <= fence_values'[s]
      BY <1>t, <2>0, <3>2, <3>3, <3>4
    <3>6. QED
      BY <3>2, <3>3, <3>5
  <2>2. CASE i > k
    <3>1. i # m
      BY <1>3, <1>5, <1>11
    <3>2. current_back_buffer \in kept
      <4>1. CASE i <= n
        <5>1. i - k \in DOMAIN list /\ s2[i] = list[i - k]
          BY <1>3, <1>4, <2>2, <4>1
        <5>2. QED
          BY <1>11, <5>1 DEF KeptInv, NamersAreKept
      <4>2. CASE i > n
        <5>1. queued
          BY <1>3, <3>1, <4>2
        <5>2. QED
          BY <1>1, <1>11, <5>1 DEF Covered
      <4>3. QED
        BY <1>3, <4>1, <4>2
    <3>3. m \in 1 .. m /\ m > i /\ s2[m].op = "signal" /\ s2[m].fence <= frame
      BY <1>3, <1>5, <1>t, <3>1
    <3>4. QED
      BY <2>0, <3>2, <3>3
  <2>3. QED
    BY <1>4, <2>1, <2>2
<1>12. NamersAreKept'
  BY <1>1, <1>2, <1>3, <1>11 DEF NamersAreKept
<1>13. QED
  BY <1>10, <1>12 DEF KeptInv

LEMMA GpuIsKept ==
  ASSUME DynamicTypes, KeptInv, GpuExecutes, UNCHANGED dynamicVars
  PROVE  KeptInv'
<1>1. /\ submitted # <<>> /\ submitted' = Tail(submitted)
      /\ completed' = IF Head(submitted).op = "signal" THEN Head(submitted).fence ELSE completed
      /\ UNCHANGED <<frame, fence_values, current_back_buffer, kept, list, habits>>
  BY DEF GpuExecutes, frameVars, refVars, dynamicVars
<1>2. PICK s, s2, k : s = submitted /\ s2 = submitted' /\ k = Len(submitted)
  OBVIOUS
<1>3. /\ k \in Nat /\ k >= 1 /\ DOMAIN s = 1 .. k /\ DOMAIN s2 = 1 .. k - 1
      /\ Head(s) = s[1] /\ \A i \in 1 .. k - 1 : s2[i] = s[i + 1]
  <2>1. s \in Seq(Commands) /\ s # <<>> /\ s2 = Tail(s)
    BY <1>1, <1>2 DEF DynamicTypes, QueueTypes
  <2>2. QED
    BY <1>2, <2>1, HeadTailProperties, EmptySeq, LenProperties
<1>4. /\ completed \in Nat /\ frame \in Nat /\ completed < frame
      /\ \A i \in 1 .. k : s[i].op = "signal" => completed < s[i].fence /\ s[i].fence < frame
      /\ \A i, j \in 1 .. k : i < j /\ s[i].op = "signal" /\ s[j].op = "signal" =>
           s[i].fence < s[j].fence
  <2>1. completed \in Nat /\ frame \in Nat
    BY BoundsAssumption DEF DynamicTypes, TypeOK, TimelineTypeOK
  <2>2. SignalsInOrder /\ s = submitted /\ DOMAIN submitted = 1 .. k
    BY <1>2, <1>3 DEF KeptInv
  <2>3. QED
    BY <2>1, <2>2 DEF SignalsInOrder
<1>5. completed' = IF s[1].op = "signal" THEN s[1].fence ELSE completed
  BY <1>1, <1>2, <1>3
<1>6. SignalsInOrder'
  <2>1. completed' < frame
    BY <1>3, <1>4, <1>5
  <2>2. ASSUME NEW i \in 1 .. k - 1, s2[i].op = "signal"
        PROVE  completed' < s2[i].fence /\ s2[i].fence < frame
    <3>1. i + 1 \in 1 .. k /\ 1 \in 1 .. k /\ 1 < i + 1 /\ s2[i] = s[i + 1]
      BY <1>3
    <3>2. QED
      BY <1>4, <1>5, <2>2, <3>1
  <2>3. ASSUME NEW i \in 1 .. k - 1, NEW j \in 1 .. k - 1, i < j,
               s2[i].op = "signal", s2[j].op = "signal"
        PROVE  s2[i].fence < s2[j].fence
    <3>1. i + 1 \in 1 .. k /\ j + 1 \in 1 .. k /\ i + 1 < j + 1
      BY <1>3, <2>3
    <3>2. QED
      BY <1>3, <1>4, <2>3, <3>1
  <2>4. QED
    BY <1>1, <1>2, <1>3, <2>1, <2>2, <2>3 DEF KeptInv, SignalsInOrder
<1>7. ASSUME "undrawn" \notin habits, NEW i \in 1 .. k - 1, NamesOwn(s2[i])
      PROVE  \E t \in kept, j \in 1 .. k - 1 :
               j > i /\ s2[j].op = "signal" /\ s2[j].fence <= fence_values[t]
  <2>1. i + 1 \in DOMAIN submitted /\ NamesOwn(submitted[i + 1])
    BY <1>2, <1>3, <1>7
  <2>2. PICK t \in kept, j \in DOMAIN submitted :
          j > i + 1 /\ submitted[j].op = "signal" /\ submitted[j].fence <= fence_values[t]
    BY <1>7, <2>1 DEF KeptInv, NamersAreKept
  <2>3. j - 1 \in 1 .. k - 1 /\ j - 1 > i /\ s2[j - 1] = submitted[j]
    <3>1. j \in 1 .. k /\ j > i + 1
      BY <1>2, <1>3, <2>2
    <3>2. j - 1 \in 1 .. k - 1 /\ j - 1 > i /\ (j - 1) + 1 = j
      BY <1>3, <3>1
    <3>3. QED
      BY <1>2, <1>3, <3>2
  <2>4. QED
    BY <2>2, <2>3
<1>8. NamersAreKept'
  BY <1>1, <1>2, <1>3, <1>7 DEF KeptInv, NamersAreKept
<1>9. QED
  BY <1>6, <1>8 DEF KeptInv

\* Only what lies before a completed signal loses its keep-alive reference.
LEMMA WaitIsKept ==
  ASSUME DynamicTypes, KeptInv, WaitForFrame, UNCHANGED dynamicVars
  PROVE  KeptInv'
<1>1. /\ waiting /\ fence_values[current_back_buffer] <= completed
      /\ kept' = {s \in kept : fence_values[s] > fence_values[current_back_buffer]}
      /\ UNCHANGED <<frame, fence_values, current_back_buffer, submitted, completed, list, habits>>
  BY DEF WaitForFrame, KeptAfter, gpuVars, dynamicVars
<1>2. /\ list = <<>> /\ completed \in Nat /\ fence_values \in [Slots -> Nat]
      /\ kept \subseteq Slots /\ current_back_buffer \in Slots
  BY <1>1, BoundsAssumption DEF DynamicTypes, FrameIsKnown, TypeOK, TimelineTypeOK
<1>3. SignalsInOrder'
  BY <1>1 DEF KeptInv, SignalsInOrder
<1>4. ASSUME "undrawn" \notin habits, NEW i \in DOMAIN submitted, NamesOwn(submitted[i])
      PROVE  \E s \in kept', j \in DOMAIN submitted :
               j > i /\ submitted[j].op = "signal" /\ submitted[j].fence <= fence_values[s]
  <2>1. PICK s \in kept, j \in DOMAIN submitted :
          j > i /\ submitted[j].op = "signal" /\ submitted[j].fence <= fence_values[s]
    BY <1>4 DEF KeptInv, NamersAreKept
  <2>2. completed < submitted[j].fence /\ submitted[j].fence \in Nat
    <3>1. submitted[j] \in Commands
      BY ElementOfSeq, LenProperties DEF DynamicTypes, QueueTypes
    <3>2. submitted[j].fence \in Nat
      BY <2>1, <3>1, BoundsAssumption DEF Commands
    <3>3. QED
      BY <2>1, <3>2 DEF KeptInv, SignalsInOrder
  <2>3. fence_values[s] > fence_values[current_back_buffer]
    <3>1. fence_values[s] \in Nat /\ fence_values[current_back_buffer] \in Nat
      BY <1>2, <2>1
    <3>2. QED
      BY <1>1, <1>2, <2>1, <2>2, <3>1
  <2>4. QED
    BY <1>1, <2>1, <2>3
<1>5. NamersAreKept'
  BY <1>1, <1>2, <1>4 DEF NamersAreKept
<1>6. QED
  BY <1>3, <1>5 DEF KeptInv

LEMMA KeptInductive ==
  ASSUME DynamicTypes, KeptInv, [Next]_vars
  PROVE  KeptInv'
<1>1. ASSUME UNCHANGED <<frame, fence_values, current_back_buffer, kept, submitted, completed,
                         list, habits>>
      PROVE  KeptInv'
  BY <1>1 DEF KeptInv, SignalsInOrder, NamersAreKept
<1>2. ASSUME NEW r \in Ranges,
             \/ LockDiscard(r) \/ LockNoOverwriteOwn(r) \/ LockNoOverwriteRing(r) \/ LockPlain(r)
      PROVE  KeptInv'
  BY <1>1, <1>2 DEF LockDiscard, LockNoOverwriteOwn, LockNoOverwriteRing, LockPlain, frameVars,
     gpuVars, refVars
<1>3. CASE (Bind \/ Unbind \/ ReleaseBuffer) /\ UNCHANGED dynamicVars
  BY <1>1, <1>3 DEF Bind, Unbind, ReleaseBuffer, frameVars, gpuVars, dynamicVars
<1>4. CASE UNCHANGED vars
  BY <1>1, <1>4 DEF vars, timelineVars, frameVars, gpuVars, refVars, dynamicVars
<1>5. QED
  BY <1>2, <1>3, <1>4, DrawIsKept, SubmitIsKept, GpuIsKept, WaitIsKept DEF Next

\* Of an application that draws what it locks, the buffer exists as long as a
\* recorded or submitted command names its resource: the keep-alive lists of
\* MarkResourceAsUsed hold it until the fence behind the command has completed.
THEOREM DynamicOutlivesCommands == Spec => []DrawnBufferOutlivesCommands
<1>1. Init => KeptInv
  <2>1. Init => /\ completed = 0 /\ frame = 1 /\ list = <<>> /\ submitted = <<>>
    BY DEF Init, TimelineInit
  <2>2. QED
    BY <2>1 DEF KeptInv, SignalsInOrder, NamersAreKept
<1>2. KeptInv => DrawnBufferOutlivesCommands
  <2> SUFFICES ASSUME KeptInv, "undrawn" \notin habits, NEW cmd \in Pending, NamesOwn(cmd)
               PROVE  kept # {}
    BY DEF DrawnBufferOutlivesCommands, BufferOutlivesCommands
  <2>1. CASE \E i \in DOMAIN list : cmd = list[i]
    BY <2>1 DEF KeptInv, NamersAreKept
  <2>2. CASE \E i \in DOMAIN submitted : cmd = submitted[i]
    BY <2>2 DEF KeptInv, NamersAreKept
  <2>3. QED
    BY <2>1, <2>2 DEF Pending
<1>3. DynamicInv /\ KeptInv /\ [Next]_vars => KeptInv'
  BY KeptInductive DEF DynamicInv
<1>4. QED
  BY <1>1, <1>2, <1>3, InitDynamic, DynamicInductive, PTL DEF Spec
=============================================================================
