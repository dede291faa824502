-------------------------- MODULE DlssHandshake_proof --------------------------
(***************************************************************************)
(* The exchange between the game and its upscaling helper, for any number  *)
(* of frames, slots and tolerated time-outs.  Four parties work on shared  *)
(* slots: the game's thread and its GPU queue, the helper and its GPU      *)
(* queue.  The invariant says of each pair what one may rely on of the     *)
(* other: what is in the queues and in which order, how far done(f) lies   *)
(* behind the frame handed over, what the slots hold in between.           *)
(***************************************************************************)
EXTENDS DlssHandshake, SequenceTheorems, TLAPS

GameCommands == [op : {"copy", "ready", "show"}, frame : Frames]
HelperCommands == [op : {"copy", "evaluate", "skip"}, frame : Frames]
InputSlots == 0 .. FrameSlots - 1
Results == [frame : Frames, ok : BOOLEAN]
SharedMemory ==
  [camera : Frames, frame : Frames, reset : BOOLEAN, failed : BOOLEAN,
   status : {"starting", "ready", "failed"}, shutdown_requested : BOOLEAN]

Types ==
  /\ gpc \in {"drawing", "handed", "constants", "submitted", "waiting",
              "resolved", "stopping", "stopped", "dead"}
  /\ hpc \in {"starting", "opening", "polling", "recording", "gone"}
  /\ ready \in BOOLEAN /\ healthy \in BOOLEAN /\ pending_history_reset \in BOOLEAN
  /\ done_event \in BOOLEAN /\ hole \in BOOLEAN /\ read_back \in BOOLEAN
  /\ late \in BOOLEAN /\ behind \in BOOLEAN /\ blended \in BOOLEAN
  /\ shim_process \in BOOLEAN
  /\ frame_index \in Frames /\ ready_fence \in Frames /\ done_fence \in Frames
  /\ processed \in Frames /\ wanted \in Frames /\ orphaned \in Frames
  /\ consecutive_timeouts \in 0 .. MaxConsecutiveTimeouts
  /\ registered \subseteq Frames /\ holes \subseteq Frames
  /\ shared \in SharedMemory
  /\ color_in \in [InputSlots -> Frames] /\ color_out \in [InputSlots -> Results]
  /\ open \in [op : {"show"}, frame : Frames]
  /\ game_queue \in Seq(GameCommands) /\ helper_queue \in Seq(HelperCommands)

\* What the client's thread knows at each point of a frame.
Control ==
  /\ gpc # "dead" =>
       /\ shared.frame = frame_index
       /\ shared.camera <= frame_index + 1
       /\ hole /\ ~read_back => pending_history_reset
  /\ gpc \in {"handed", "constants"} => healthy /\ frame_index < MaxFrame
  /\ gpc = "constants" => shared.camera = frame_index + 1
  /\ gpc \in {"submitted", "waiting"} => healthy /\ frame_index >= 1
  /\ gpc = "waiting" => frame_index >= 2
  /\ open # Plain => gpc = "resolved" /\ frame_index >= 2 /\ open = Show(Wanted)
  /\ healthy => consecutive_timeouts < MaxConsecutiveTimeouts
  /\ shared.frame <= shared.camera
  /\ orphaned <= shared.frame

\* A request to forget the history stays with the frame it is made for.
Requests ==
  /\ holes \subseteq 1 .. shared.frame
  /\ ~read_back /\ shared.frame \in holes => shared.reset
  /\ blended => behind \/ read_back

\* The order in which two commands stand in the game's queue.
InOrder(c, d) ==
  /\ c.op = "copy" /\ d.op \in {"copy", "ready"} => c.frame <= d.frame
  /\ c.op = "ready" /\ d.op = "ready" => c.frame <= d.frame
  /\ c.op = "ready" /\ d.op = "show" /\ d.frame # 0 => c.frame <= d.frame + 1

\* The inputs of frame f, given what the slots hold now and the queue q, are in
\* their slot when its i-th command executes.
Copied(slots, q, f, i) ==
  slots[Slot(f)] = f \/ \E j \in 1 .. i - 1 : q[j] = Copy(f)

\* A queue q fits the slots, the fence and the number n of frames handed over.
Fits(slots, fence, n, q) ==
  \A i \in 1 .. Len(q) :
    /\ q[i].op = "copy" => q[i].frame <= n + 1 /\ \A s \in InputSlots : slots[s] <= q[i].frame
    /\ q[i].op = "ready" => /\ fence <= q[i].frame /\ q[i].frame <= n
                            /\ Copied(slots, q, q[i].frame, i)
    /\ q[i].op = "show" /\ q[i].frame # 0 => fence <= q[i].frame + 1
    /\ \A j \in 1 .. i - 1 : InOrder(q[j], q[i])

GameQueue ==
  /\ ready_fence <= shared.frame
  /\ \A s \in InputSlots : color_in[s] <= shared.frame + 1
  /\ Fits(color_in, ready_fence, shared.frame, game_queue)
  /\ gpc \in {"handed", "constants"} =>
       Copied(color_in, game_queue, frame_index + 1, Len(game_queue) + 1)

HelperQueue ==
  /\ done_fence <= processed /\ processed <= ready_fence
  /\ hpc = "recording" => processed < wanted /\ wanted <= ready_fence
  /\ \A i \in 1 .. Len(helper_queue) :
       /\ done_fence < helper_queue[i].frame /\ helper_queue[i].frame <= processed
       /\ \A j \in 1 .. i - 1 : helper_queue[j].frame < helper_queue[i].frame

\* A helper that has passed over no frame has every one of them in its queue.
InStep ==
  ~behind =>
    /\ \A i \in 1 .. Len(helper_queue) : helper_queue[i].frame = done_fence + i
    /\ hpc # "gone" => processed = done_fence + Len(helper_queue)
    /\ hpc = "recording" => wanted = processed + 1

\* While no wait has timed out the game is two frames ahead of done(f) at most.
Confirmed ==
  ~late =>
    /\ shared.camera <= done_fence + 2
    /\ \A i \in 1 .. Len(game_queue) :
         /\ game_queue[i].op = "copy" => game_queue[i].frame <= done_fence + 2
         /\ game_queue[i].op = "show" => game_queue[i].frame <= done_fence
    /\ open.frame <= done_fence
    /\ healthy /\ gpc \in {"drawing", "handed", "constants", "resolved"} =>
         frame_index <= done_fence + 1
    /\ gpc \in {"submitted", "waiting"} => frame_index <= done_fence + 2
    /\ done_event => gpc = "waiting" /\ Wanted <= done_fence
    /\ registered \subseteq (IF gpc = "waiting" THEN {Wanted} ELSE {})
    /\ \A v \in registered : done_fence < v

\* The inputs of a frame the helper may still look at are in their slot.
InputsStay ==
  ~late => \A f \in AtWork \cup {ready_fence} : f <= done_fence \/ color_in[Slot(f)] = f

\* So are the results the game may still look at.
Good(f) == [frame |-> f, ok |-> TRUE]
ResultsStay ==
  ~late /\ ~behind =>
    /\ \A f \in Shown : color_out[Slot(f)] = Good(f)
    /\ ~shared.failed =>
         /\ \A f \in {done_fence - 1, done_fence} : f >= 1 => color_out[Slot(f)] = Good(f)
         /\ \A i \in 1 .. Len(helper_queue) : helper_queue[i].op = "evaluate"

\* Every frame handed over to a dead helper, but the first, costs a time-out.
Orphans ==
  orphaned >= 1 /\ gpc # "dead" =>
    /\ HelperIsSilent
    /\ done_fence <= frame_index - orphaned
    /\ healthy /\ gpc \notin {"submitted", "waiting"} => consecutive_timeouts >= orphaned - 1
    /\ gpc \in {"submitted", "waiting"} => consecutive_timeouts >= orphaned - 2

-----------------------------------------------------------------------------
\* A frame has a slot, and the frame after it another one.
LEMMA SlotType == ASSUME NEW f \in Nat PROVE Slot(f) \in InputSlots
BY FrameSlotsAssumption DEF Slot, InputSlots

\* Two frames of one slot are two apart, if there is more than one.
LEMMA SlotsAlternate ==
  ASSUME FrameSlots # 1, NEW f \in Nat
  PROVE  Slot(f + 1) # Slot(f)
<1>1. PICK n \in Nat \ {0} : n = FrameSlots BY FrameSlotsAssumption
<1>2. (f + 1) % n # f % n BY SMTT(40), <1>1
<1> QED BY <1>1, <1>2 DEF Slot

\* A command goes to the end of a queue.
LEMMA Appended ==
  ASSUME NEW S, NEW q \in Seq(S), NEW c \in S
  PROVE  /\ Append(q, c) \in Seq(S) /\ Len(Append(q, c)) = Len(q) + 1 /\ Len(q) \in Nat
         /\ \A i \in 1 .. Len(q) : Append(q, c)[i] = q[i] /\ q[i] \in S
         /\ Append(q, c)[Len(q) + 1] = c
OBVIOUS

\* The first one leaves it.
LEMMA Executed ==
  ASSUME NEW S, NEW q \in Seq(S), q # <<>>
  PROVE  /\ Tail(q) \in Seq(S) /\ Len(Tail(q)) = Len(q) - 1 /\ Len(q) \in Nat \ {0}
         /\ Head(q) = q[1] /\ \A i \in 1 .. Len(q) : q[i] \in S
         /\ \A i \in 1 .. Len(q) - 1 : Tail(q)[i] = q[i + 1]
OBVIOUS

\* Frames are numbered from 0, what is handed over is a command.
LEMMA Numbers ==
  /\ 0 \in Frames /\ Frames \subseteq Nat
  /\ \A f \in Frames : f < MaxFrame => f + 1 \in Frames
  /\ \A f \in Frames : /\ Copy(f) \in GameCommands /\ Ready(f) \in GameCommands
                       /\ Copy(f) \in HelperCommands /\ Evaluate(f) \in HelperCommands
                       /\ Skip(f) \in HelperCommands /\ Show(f) \in [op : {"show"}, frame : Frames]
  /\ Plain \in [op : {"show"}, frame : Frames]
  /\ \A c \in [op : {"show"}, frame : Frames] : c \in GameCommands
BY HandshakeBoundAssumption
   DEF Frames, GameCommands, HelperCommands, Copy, Ready, Evaluate, Skip, Show, Plain

\* Every variable starts in its type.
LEMMA InitTypes == Init => Types
<1> SUFFICES ASSUME Init PROVE Types OBVIOUS
<1>1. color_in \in [InputSlots -> Frames] /\ color_out \in [InputSlots -> Results]
  BY Numbers DEF Init, InputSlots, Results
<1>2. shared \in SharedMemory BY Numbers DEF Init, SharedMemory
<1>3. game_queue \in Seq(GameCommands) /\ helper_queue \in Seq(HelperCommands) BY DEF Init
<1>4. consecutive_timeouts \in 0 .. MaxConsecutiveTimeouts
  BY TimeoutsAssumption DEF Init
<1> QED BY <1>1, <1>2, <1>3, <1>4, Numbers DEF Init, Types

\* The game's steps keep the types.
LEMMA GameTypes ==
  ASSUME Types, Control,
         \/ PollReady(TRUE) \/ PollReady(FALSE) \/ PollGivesUp \/ HandOver \/ Bypass \/ ReadBack
         \/ Exchange \/ StopAsks \/ StopReleases \/ GameDies
  PROVE  Types'
<1> USE DEF Types
<1>1. CASE PollReady(TRUE) \/ PollReady(FALSE)
  BY ZenonT(120), <1>1 DEF PollReady, eventVars, gameGpuVars, helperVars, helperGpuVars, holeVars
<1>2. CASE PollGivesUp
  BY ZenonT(60), <1>2 DEF PollGivesUp, eventVars, gameGpuVars, helperVars, helperGpuVars, holeVars
<1>3. CASE HandOver
  <2>1. game_queue' \in Seq(GameCommands) BY <1>3, Numbers, Appended DEF HandOver
  <2> QED BY <1>3, <2>1 DEF HandOver, clientVars, eventVars, helperVars, helperGpuVars, holeVars
<1>4. CASE Bypass
  BY <1>4 DEF Bypass, eventVars, gameGpuVars, helperVars, helperGpuVars
<1>5. CASE ReadBack
  BY <1>5 DEF ReadBack, clientVars, eventVars, gameGpuVars, helperVars, helperGpuVars
<1>6. CASE SetCameraConstants
  <2>1. frame_index + 1 \in Frames BY <1>6, Numbers DEF SetCameraConstants, Control
  <2>2. shared' \in SharedMemory BY <1>6, <2>1 DEF SetCameraConstants, SharedMemory
  <2> QED BY <1>6, <2>2 DEF SetCameraConstants, clientVars, eventVars, gameGpuVars, helperVars,
             helperGpuVars, holeVars
<1>7. ASSUME NEW signalled \in BOOLEAN, SubmitFrame(signalled) PROVE Types'
  <2>1. frame_index + 1 \in Frames BY <1>7, Numbers DEF SubmitFrame, Control
  <2>2. shared' \in SharedMemory BY <1>7, <2>1 DEF SubmitFrame, Parameters, SharedMemory
  <2>3. game_queue' \in Seq(GameCommands) BY <1>7, <2>1, Numbers, Appended DEF SubmitFrame
  <2>4. orphaned' \in Frames
    <3>1. gpc = "constants" /\ orphaned' \in {orphaned, orphaned + 1} BY <1>7 DEF SubmitFrame
    <3>2. orphaned <= frame_index /\ frame_index < MaxFrame BY <3>1 DEF Control
    <3> QED BY <3>1, <3>2, HandshakeBoundAssumption DEF Frames
  <2>5. holes' \subseteq Frames BY <1>7, <2>1 DEF SubmitFrame
  <2> QED BY ZenonT(60), <1>7, <2>1, <2>2, <2>3, <2>4, <2>5
          DEF SubmitFrame, eventVars, helperVars, helperGpuVars
<1>8. ASSUME frame_index >= 2 PROVE Wanted \in Frames /\ Show(Wanted) \in [op : {"show"}, frame : Frames]
  <2>1. Wanted \in Frames BY <1>8, HandshakeBoundAssumption DEF Wanted, Frames
  <2> QED BY <2>1, Numbers
<1>9. CASE AcquireNothing
  BY <1>9 DEF AcquireNothing, clientVars, eventVars, gameGpuVars, helperVars, helperGpuVars, holeVars
<1>10. ASSUME Acquire, frame_index >= 2
       PROVE  /\ consecutive_timeouts' \in 0 .. MaxConsecutiveTimeouts /\ healthy' \in BOOLEAN
              /\ open' \in [op : {"show"}, frame : Frames]
  <2>1. consecutive_timeouts' \in 0 .. MaxConsecutiveTimeouts
    BY <1>10, TimeoutsAssumption DEF Acquire
  <2>2. healthy' \in BOOLEAN BY <1>10 DEF Acquire
  <2>3. open' \in [op : {"show"}, frame : Frames] BY <1>8, <1>10, Numbers DEF Acquire
  <2> QED BY <2>1, <2>2, <2>3
<1>11. CASE AcquireAtOnce
  <2>1. Acquire /\ frame_index >= 2 BY <1>11 DEF AcquireAtOnce
  <2> QED BY <1>10, <1>11, <2>1
          DEF AcquireAtOnce, eventVars, gameGpuVars, helperVars, helperGpuVars, holeVars
<1>12. CASE AcquireWaits
  <2>1. Wanted \in Frames BY <1>8, <1>12 DEF AcquireWaits
  <2> QED BY ZenonT(120), <1>12, <2>1 DEF AcquireWaits, gameGpuVars, helperVars, helperGpuVars, holeVars
<1>13. CASE WaitReturns
  <2>1. Acquire /\ frame_index >= 2 BY <1>13 DEF WaitReturns, Control
  <2> QED BY ZenonT(60), <1>10, <1>13, <2>1
          DEF WaitReturns, gameGpuVars, helperVars, helperGpuVars, holeVars
<1>14. CASE WaitTimesOut
  <2>1. consecutive_timeouts < MaxConsecutiveTimeouts
    BY <1>14 DEF WaitTimesOut, WaitMayTimeOut, Control
  <2>2. consecutive_timeouts' \in 0 .. MaxConsecutiveTimeouts
    BY <1>14, <2>1, TimeoutsAssumption DEF WaitTimesOut
  <2>3. healthy' \in BOOLEAN BY <1>14 DEF WaitTimesOut, TooMany
  <2> QED BY <1>14, <2>2, <2>3
          DEF WaitTimesOut, WaitMayTimeOut, eventVars, gameGpuVars, helperVars, helperGpuVars, holeVars
<1>15. CASE Present
  <2>1. game_queue' \in Seq(GameCommands) BY <1>15, Numbers, Appended DEF Present
  <2> QED BY <1>15, <2>1, Numbers
          DEF Present, clientVars, eventVars, helperVars, helperGpuVars, holeVars
<1>16. CASE StopAsks
  <2>1. game_queue' \in Seq(GameCommands) BY <1>16, Numbers, Appended DEF StopAsks
  <2>2. shared' \in SharedMemory BY <1>16 DEF StopAsks, SharedMemory
  <2> QED BY SMTT(40), <1>16, <2>1, <2>2, Numbers
          DEF StopAsks, clientVars, eventVars, helperVars, helperGpuVars, holeVars
<1>17. CASE StopReleases
  <2>1. helper_queue' \in Seq(HelperCommands) BY <1>17 DEF StopReleases
  <2> QED BY <1>17, <2>1 DEF StopReleases, eventVars, gameGpuVars, holeVars
<1>18. CASE GameDies
  <2>1. game_queue' \in Seq(GameCommands) BY <1>18 DEF GameDies
  <2>2. consecutive_timeouts' \in 0 .. MaxConsecutiveTimeouts
    BY <1>18, TimeoutsAssumption DEF GameDies
  <2> QED BY <1>18, <2>1, <2>2, Numbers DEF GameDies, helperVars, helperGpuVars, holeVars
<1> QED BY <1>1, <1>2, <1>3, <1>4, <1>5, <1>6, <1>7, <1>9, <1>11, <1>12, <1>13, <1>14, <1>15,
           <1>16, <1>17, <1>18 DEF Exchange

\* So do those of the helper and the two queues.
LEMMA OtherTypes ==
  ASSUME Types, GameGpu \/ HelperLoop \/ HelperDies \/ HelperGpu
  PROVE  Types'
<1> USE DEF Types
<1>1. CASE GameGpu
  <2>1. game_queue' \in Seq(GameCommands) /\ Head(game_queue) \in GameCommands
    BY <1>1, Executed DEF GameGpu
  <2>2. Slot(Head(game_queue).frame) \in InputSlots /\ Head(game_queue).frame \in Frames
    BY <2>1, Numbers, SlotType DEF GameCommands
  <2>3. color_in' \in [InputSlots -> Frames] /\ ready_fence' \in Frames BY <1>1, <2>2 DEF GameGpu
  <2> QED BY <1>1, <2>1, <2>3
          DEF GameGpu, clientVars, eventVars, helperVars, helperGpuVars, holeVars
<1>2. ASSUME NEW status \in {"ready", "failed"}, HelperStarts(status) PROVE Types'
  <2>1. shared' \in SharedMemory BY <1>2 DEF HelperStarts, SharedMemory
  <2>2. hpc' \in {"opening", "gone"} BY <1>2 DEF HelperStarts
  <2> QED BY <1>2, <2>1, <2>2
          DEF HelperStarts, clientVars, eventVars, gameGpuVars, helperGpuVars, holeVars
<1>3. CASE TakeFrame
  <2>1. behind' \in BOOLEAN BY <1>3 DEF TakeFrame
  <2> QED BY <1>3, <2>1 DEF TakeFrame, clientVars, eventVars, gameGpuVars, helperGpuVars, holeVars
<1>4. ASSUME ReadConstants PROVE behind' \in BOOLEAN /\ blended' \in BOOLEAN /\ holes' \subseteq Frames
  BY <1>4 DEF ReadConstants
<1>5. CASE EvaluateSucceeds
  <2>1. helper_queue' \in Seq(HelperCommands) BY <1>5, Numbers, Appended DEF EvaluateSucceeds
  <2>2. ReadConstants BY <1>5 DEF EvaluateSucceeds
  <2> QED BY <1>4, <1>5, <2>1, <2>2 DEF EvaluateSucceeds, clientVars, eventVars, gameGpuVars
<1>6. CASE EvaluateFails
  <2>1. helper_queue' \in Seq(HelperCommands) BY <1>6, Numbers, Appended DEF EvaluateFails
  <2>2. ReadConstants BY <1>6 DEF EvaluateFails
  <2>3. shared' \in SharedMemory BY <1>6 DEF EvaluateFails, SharedMemory
  <2> QED BY <1>4, <1>6, <2>1, <2>2, <2>3 DEF EvaluateFails, clientVars, eventVars, gameGpuVars
<1>7. CASE QueueRefuses
  <2>1. ReadConstants BY <1>7 DEF QueueRefuses
  <2>2. shared' \in SharedMemory BY <1>7 DEF QueueRefuses, SharedMemory
  <2> QED BY <1>4, <1>7, <2>1, <2>2
          DEF QueueRefuses, clientVars, eventVars, gameGpuVars, helperGpuVars
<1>11. CASE OpensGame
  <2>1. shim_process' \in BOOLEAN BY <1>11 DEF OpensGame
  <2> QED BY <1>11, <2>1 DEF OpensGame, clientVars, eventVars, gameGpuVars, helperGpuVars, holeVars
<1>8. CASE HelperExits
  BY <1>8 DEF HelperExits, clientVars, eventVars, gameGpuVars, helperGpuVars, holeVars
<1>9. CASE HelperDies
  <2>1. helper_queue' \in Seq(HelperCommands)
    <3>1. helper_queue' = helper_queue \/ helper_queue' = <<>> BY <1>9 DEF HelperDies
    <3>2. <<>> \in Seq(HelperCommands) OBVIOUS
    <3> QED BY <3>1, <3>2
  <2> QED BY <1>9, <2>1 DEF HelperDies, clientVars, eventVars, gameGpuVars, holeVars
<1>10. CASE HelperGpu
  <2>1. helper_queue' \in Seq(HelperCommands) /\ Head(helper_queue) \in HelperCommands
    BY <1>10, Executed DEF HelperGpu
  <2>2. Slot(Head(helper_queue).frame) \in InputSlots /\ Head(helper_queue).frame \in Frames
    BY <2>1, Numbers, SlotType DEF HelperCommands
  <2>3. color_out' \in [InputSlots -> Results] BY <1>10, <2>2 DEF HelperGpu, Results
  <2>4. done_event' \in BOOLEAN /\ registered' \subseteq Frames /\ done_fence' \in Frames
    BY <1>10, <2>2 DEF HelperGpu
  <2> QED BY <1>10, <2>1, <2>3, <2>4 DEF HelperGpu, clientVars, gameGpuVars, helperVars, holeVars
<1> QED BY <1>1, <1>2, <1>3, <1>5, <1>6, <1>7, <1>8, <1>9, <1>10, <1>11 DEF HelperLoop

-----------------------------------------------------------------------------
\* What the client knows is kept by its own steps; the helper writes to shared
\* memory only what it reports.
LEMMA ControlKept == Types /\ Types' /\ Control /\ [Next]_vars => Control'
<1> SUFFICES ASSUME Types, Types', Control, [Next]_vars PROVE Control' OBVIOUS
<1> USE DEF Control
<1>0. /\ frame_index \in Nat /\ shared.frame \in Nat /\ shared.camera \in Nat /\ MaxFrame \in Nat
      /\ orphaned \in Nat /\ consecutive_timeouts \in Nat /\ MaxConsecutiveTimeouts \in Nat \ {0}
      /\ shared \in SharedMemory
  BY HandshakeBoundAssumption, TimeoutsAssumption DEF Types, SharedMemory, Frames
<1>1. CASE PollReady(TRUE) \/ PollReady(FALSE)
  BY <1>1 DEF PollReady, holeVars
<1>2. CASE PollGivesUp BY <1>2 DEF PollGivesUp, holeVars
<1>3. CASE HandOver BY <1>3 DEF HandOver, clientVars, holeVars
<1>4. CASE Bypass BY <1>4 DEF Bypass
<1>5. CASE ReadBack BY <1>5 DEF ReadBack, clientVars
<1>6. CASE SetCameraConstants
  <2>1. shared'.camera = frame_index + 1 /\ shared'.frame = shared.frame
    BY <1>0, <1>6 DEF SetCameraConstants, SharedMemory
  <2> QED BY <1>0, <1>6, <2>1 DEF SetCameraConstants, clientVars, holeVars
<1>7. ASSUME NEW signalled \in BOOLEAN, SubmitFrame(signalled) PROVE Control'
  <2>1. shared'.camera = shared.camera /\ shared'.frame = frame_index + 1
    BY <1>0, <1>7 DEF SubmitFrame, Parameters, SharedMemory
  <2>2. orphaned' \in {orphaned, orphaned + 1} BY <1>7 DEF SubmitFrame
  <2> QED BY <1>0, <1>7, <2>1, <2>2 DEF SubmitFrame
<1>8. CASE AcquireNothing BY <1>8 DEF AcquireNothing, clientVars, holeVars
<1>9. CASE AcquireAtOnce BY <1>0, <1>9 DEF AcquireAtOnce, Acquire, Wanted, holeVars
<1>10. CASE AcquireWaits
  <2>1. /\ gpc = "submitted" /\ frame_index >= 2
        /\ UNCHANGED <<frame_index, consecutive_timeouts, pending_history_reset, open, shared, holeVars,
                        orphaned>>
    BY <1>10 DEF AcquireWaits
  <2>2. CASE gpc' = "waiting" /\ UNCHANGED healthy BY <1>0, <2>1, <2>2 DEF holeVars
  <2>3. CASE gpc' = "resolved" /\ healthy' = FALSE BY <1>0, <2>1, <2>3 DEF holeVars
  <2> QED BY <1>10, <2>2, <2>3 DEF AcquireWaits
<1>11. CASE WaitReturns BY <1>0, <1>11 DEF WaitReturns, Acquire, Wanted, holeVars
<1>12. CASE WaitTimesOut
  <2>1. healthy' => consecutive_timeouts' < MaxConsecutiveTimeouts
    <3>1. healthy' = ~TooMany(consecutive_timeouts') /\ consecutive_timeouts' \in Nat
      BY <1>12 DEF WaitTimesOut, Types
    <3>2. CASE consecutive_timeouts' < MaxConsecutiveTimeouts BY <3>2
    <3>3. CASE TooMany(consecutive_timeouts') BY <3>1, <3>3
    <3> QED BY <1>0, <3>1, <3>2, <3>3 DEF TooMany
  <2> QED BY <1>12, <2>1 DEF WaitTimesOut, WaitMayTimeOut, holeVars
<1>13. CASE Present BY <1>13 DEF Present, clientVars, holeVars
<1>14. CASE StopAsks
  <2>1. shared'.camera = shared.camera /\ shared'.frame = shared.frame
    BY <1>0, <1>14 DEF StopAsks, SharedMemory
  <2> QED BY <1>14, <2>1 DEF StopAsks, clientVars, holeVars
<1>15. CASE StopReleases BY <1>15 DEF StopReleases, holeVars
<1>16. CASE GameDies BY <1>16 DEF GameDies, holeVars
<1>17. ASSUME NEW status \in {"ready", "failed"}, HelperStarts(status) PROVE Control'
  <2>1. shared'.camera = shared.camera /\ shared'.frame = shared.frame
    BY <1>0, <1>17 DEF HelperStarts, SharedMemory
  <2> QED BY <1>17, <2>1 DEF HelperStarts, clientVars, holeVars, Wanted
<1>18. CASE EvaluateFails \/ QueueRefuses
  <2>1. shared'.camera = shared.camera /\ shared'.frame = shared.frame
    BY <1>0, <1>18 DEF EvaluateFails, QueueRefuses, SharedMemory
  <2> QED BY <1>18, <2>1 DEF EvaluateFails, QueueRefuses, clientVars, Wanted
<1>19. CASE GameGpu \/ TakeFrame \/ EvaluateSucceeds \/ OpensGame \/ HelperExits \/ HelperDies
            \/ HelperGpu
  <2>1. UNCHANGED <<gpc, clientVars, open, shared, hole, read_back, orphaned>>
    BY <1>19 DEF GameGpu, TakeFrame, EvaluateSucceeds, OpensGame, HelperExits, HelperDies,
                 HelperGpu, holeVars
  <2> QED BY <2>1 DEF clientVars, Wanted
<1>20. CASE UNCHANGED vars BY <1>20 DEF vars, clientVars, holeVars, Wanted
<1> QED BY <1>1, <1>2, <1>3, <1>4, <1>5, <1>6, <1>7, <1>8, <1>9, <1>10, <1>11, <1>12, <1>13, <1>14,
           <1>15, <1>16, <1>17, <1>18, <1>19, <1>20 DEF Next, Exchange, HelperLoop

\* The helper reads the request along with the frame it belongs to, unless it
\* is behind.
LEMMA RequestsKept ==
  Types /\ Types' /\ Control /\ HelperQueue /\ GameQueue /\ InStep /\ Requests /\ [Next]_vars
    => Requests'
<1> SUFFICES ASSUME Types, Types', Control, HelperQueue, GameQueue, InStep, Requests, [Next]_vars
             PROVE  Requests'
  OBVIOUS
<1> USE DEF Requests
<1>0. /\ frame_index \in Nat /\ shared.frame \in Nat /\ wanted \in Nat /\ processed \in Nat
      /\ ready_fence \in Nat /\ shared \in SharedMemory
  BY HandshakeBoundAssumption DEF Types, SharedMemory, Frames
<1>1. ASSUME NEW signalled \in BOOLEAN, SubmitFrame(signalled) PROVE Requests'
  <2>1. shared'.frame = frame_index + 1 /\ shared'.reset = pending_history_reset
    BY <1>0, <1>1 DEF SubmitFrame, Parameters, SharedMemory
  <2>2. shared.frame = frame_index /\ (hole /\ ~read_back => pending_history_reset)
    BY <1>1 DEF SubmitFrame, Control
  <2>3. holes' = (IF hole THEN holes \cup {frame_index + 1} ELSE holes) BY <1>1 DEF SubmitFrame
  <2>4. UNCHANGED <<read_back, blended, behind>> BY <1>1 DEF SubmitFrame, helperVars
  <2>5. holes' \subseteq 1 .. shared'.frame BY <1>0, <2>1, <2>2, <2>3
  <2>6. ~read_back' /\ shared'.frame \in holes' => shared'.reset
    <3>1. frame_index + 1 \notin holes BY <1>0, <2>2
    <3> QED BY <2>1, <2>2, <2>3, <2>4, <3>1
  <2> QED BY <2>4, <2>5, <2>6
<1>2. ASSUME ReadConstants, hpc = "recording", UNCHANGED <<read_back, shared>>
             \/ (UNCHANGED read_back /\ shared' = [shared EXCEPT !.failed = TRUE])
      PROVE  Requests'
  <2>1. /\ shared'.frame = shared.frame /\ shared'.reset = shared.reset /\ read_back' = read_back
    BY <1>0, <1>2 DEF SharedMemory
  <2>2. holes' \subseteq holes BY <1>2 DEF ReadConstants
  <2>3. ASSUME blended', ~behind', ~read_back PROVE FALSE
    <3>1. ~behind /\ shared.frame = wanted BY <2>3, <1>2 DEF ReadConstants
    <3>2. ~blended BY <2>3, <3>1
    <3>3. ~shared.reset /\ (wanted \in holes \/ processed # wanted - 1)
      BY <1>2, <2>3, <3>2 DEF ReadConstants, Blends
    <3>4. wanted = processed + 1 BY <1>2, <3>1 DEF InStep
    <3> QED BY <1>0, <2>3, <3>1, <3>3, <3>4
  <2>4. (blended' => behind' \/ read_back)
    <3>1. blended' \in BOOLEAN /\ behind' \in BOOLEAN /\ read_back \in BOOLEAN BY DEF Types
    <3> QED BY <2>3, <3>1
  <2> QED BY <2>1, <2>2, <2>4
<1>3. CASE EvaluateSucceeds BY <1>2, <1>3 DEF EvaluateSucceeds
<1>4. CASE EvaluateFails BY <1>2, <1>4 DEF EvaluateFails
<1>5. CASE QueueRefuses BY <1>2, <1>5 DEF QueueRefuses
<1>6. CASE SetCameraConstants \/ StopAsks \/ HelperStarts("ready") \/ HelperStarts("failed")
  <2>1. shared'.frame = shared.frame /\ shared'.reset = shared.reset
    BY <1>0, <1>6 DEF SetCameraConstants, StopAsks, HelperStarts, SharedMemory
  <2>2. UNCHANGED <<holes, read_back, blended, behind>>
    BY <1>6 DEF SetCameraConstants, StopAsks, HelperStarts, helperVars, holeVars
  <2> QED BY <2>1, <2>2
<1>7. CASE TakeFrame BY <1>7 DEF TakeFrame, holeVars
<1>8. CASE ReadBack BY <1>8 DEF ReadBack, helperVars
<1>9. CASE \/ PollReady(TRUE) \/ PollReady(FALSE) \/ PollGivesUp \/ HandOver \/ Bypass
           \/ AcquireNothing \/ AcquireAtOnce \/ AcquireWaits \/ WaitReturns \/ WaitTimesOut
           \/ Present \/ StopReleases \/ GameDies \/ GameGpu \/ OpensGame \/ HelperExits
           \/ HelperDies
           \/ HelperGpu \/ UNCHANGED vars
  <2>1. UNCHANGED <<shared, holes, read_back, blended, behind>>
    BY <1>9 DEF PollReady, PollGivesUp, HandOver, Bypass, AcquireNothing, AcquireAtOnce,
                AcquireWaits, WaitReturns, WaitTimesOut, Present, StopReleases, GameDies, GameGpu,
                OpensGame, HelperExits, HelperDies, HelperGpu, vars, helperVars, holeVars
  <2> QED BY <2>1
<1> QED BY <1>1, <1>3, <1>4, <1>5, <1>6, <1>7, <1>8, <1>9 DEF Next, Exchange, HelperLoop

-----------------------------------------------------------------------------
\* The commands in a queue are commands.
LEMMA QueueElements ==
  ASSUME Types
  PROVE  /\ \A i \in 1 .. Len(game_queue) :
              game_queue[i] \in GameCommands /\ game_queue[i].frame \in Nat
         /\ \A i \in 1 .. Len(helper_queue) :
              helper_queue[i] \in HelperCommands /\ helper_queue[i].frame \in Nat
         /\ Len(game_queue) \in Nat /\ Len(helper_queue) \in Nat
<1>1. /\ \A i \in 1 .. Len(game_queue) : game_queue[i] \in GameCommands
      /\ \A i \in 1 .. Len(helper_queue) : helper_queue[i] \in HelperCommands
      /\ Len(game_queue) \in Nat /\ Len(helper_queue) \in Nat
  BY DEF Types
<1>2. /\ \A c \in GameCommands : c.frame \in Nat
      /\ \A c \in HelperCommands : c.frame \in Nat
  BY Numbers DEF GameCommands, HelperCommands
<1> QED BY <1>1, <1>2

\* What is common to both ways an evaluation ends in the helper's queue.
LEMMA Evaluated ==
  ASSUME Types, EvaluateSucceeds \/ EvaluateFails
  PROVE  \E c \in HelperCommands :
           /\ c.frame = wanted /\ helper_queue' = Append(helper_queue, c)
           /\ c.op = "evaluate" \/ shared'.failed
           /\ hpc = "recording" /\ hpc' = "polling" /\ processed' = wanted
           /\ (behind => behind') /\ UNCHANGED <<done_fence, wanted, ready_fence>>
<1>1. CASE EvaluateSucceeds
  <2>1. Evaluate(wanted) \in HelperCommands /\ Evaluate(wanted).frame = wanted
        /\ Evaluate(wanted).op = "evaluate"
    BY Numbers DEF Types, Evaluate
  <2> QED BY <1>1, <2>1 DEF EvaluateSucceeds, ReadConstants, gameGpuVars
<1>2. CASE EvaluateFails
  <2> DEFINE c == IF Scaled THEN Skip(wanted) ELSE Copy(wanted)
  <2>1. c \in HelperCommands /\ c.frame = wanted BY Numbers DEF Types, Skip, Copy
  <2>2. shared'.failed BY <1>2 DEF EvaluateFails, Types, SharedMemory
  <2>3. helper_queue' = Append(helper_queue, c) BY <1>2 DEF EvaluateFails
  <2> HIDE DEF c
  <2> QED BY <1>2, <2>1, <2>2, <2>3 DEF EvaluateFails, ReadConstants, gameGpuVars
<1> QED BY <1>1, <1>2

\* The game's GPU signals in order.
LEMMA ReadyGrows ==
  ASSUME Types, GameQueue, GameGpu
  PROVE  /\ ready_fence <= ready_fence' /\ ready_fence' <= shared.frame
         /\ ready_fence' # ready_fence => Head(game_queue).op = "ready"
                                          /\ ready_fence' = Head(game_queue).frame
<1>1. /\ Head(game_queue) = game_queue[1] /\ 1 \in 1 .. Len(game_queue)
      /\ game_queue[1] \in GameCommands
  BY Executed DEF Types, GameGpu
<1>2. game_queue[1].op = "ready" =>
        ready_fence <= game_queue[1].frame /\ game_queue[1].frame <= shared.frame
  BY <1>1 DEF GameQueue, Fits
<1>3. ready_fence \in Nat BY Numbers DEF Types
<1> QED BY <1>1, <1>2, <1>3 DEF GameGpu, GameQueue

\* The helper and its GPU work on the frames signalled, in order.
LEMMA HelperQueueKept ==
  Types /\ Types' /\ GameQueue /\ HelperQueue /\ [Next]_vars => HelperQueue'
<1> SUFFICES ASSUME Types, Types', GameQueue, HelperQueue, [Next]_vars PROVE HelperQueue' OBVIOUS
<1>0. /\ done_fence \in Nat /\ processed \in Nat /\ ready_fence \in Nat /\ wanted \in Nat
      /\ ready_fence' \in Nat /\ helper_queue \in Seq(HelperCommands) /\ Len(helper_queue) \in Nat
      /\ \A i \in 1 .. Len(helper_queue) : helper_queue[i].frame \in Nat
  BY Numbers, QueueElements DEF Types
<1> USE DEF HelperQueue
<1>1. CASE GameGpu
  <2>1. UNCHANGED <<done_fence, processed, wanted, helper_queue, hpc>>
    BY <1>1 DEF GameGpu, helperVars, helperGpuVars
  <2>2. ready_fence <= ready_fence' BY <1>1, ReadyGrows
  <2> QED BY SMTT(40), <1>0, <2>1, <2>2
<1>2. CASE TakeFrame
  BY <1>0, <1>2 DEF TakeFrame, gameGpuVars, helperGpuVars
<1>3. CASE EvaluateSucceeds \/ EvaluateFails
  <2>1. PICK c \in HelperCommands :
          /\ c.frame = wanted /\ helper_queue' = Append(helper_queue, c)
          /\ hpc = "recording" /\ hpc' = "polling" /\ processed' = wanted
          /\ UNCHANGED <<done_fence, wanted, ready_fence>>
    BY <1>3, Evaluated
  <2>2. /\ Len(helper_queue') = Len(helper_queue) + 1
        /\ \A i \in 1 .. Len(helper_queue) : helper_queue'[i] = helper_queue[i]
        /\ helper_queue'[Len(helper_queue) + 1] = c
    BY <1>0, <2>1, Appended
  <2>3. \A i \in 1 .. Len(helper_queue') : i \in 1 .. Len(helper_queue) \/ i = Len(helper_queue) + 1
    BY <1>0, <2>2
  <2>4. ASSUME NEW i \in 1 .. Len(helper_queue')
        PROVE  /\ done_fence' < helper_queue'[i].frame /\ helper_queue'[i].frame <= processed'
               /\ \A j \in 1 .. i - 1 : helper_queue'[j].frame < helper_queue'[i].frame
    BY <1>0, <2>1, <2>2, <2>3, <2>4
  <2> QED BY SMTT(40), <1>0, <2>1, <2>4
<1>4. CASE QueueRefuses \/ OpensGame \/ HelperExits \/ HelperStarts("ready")
           \/ HelperStarts("failed")
  <2>1. UNCHANGED <<done_fence, processed, ready_fence, wanted, helper_queue>> /\ hpc' # "recording"
    BY <1>4 DEF QueueRefuses, OpensGame, HelperExits, HelperStarts, gameGpuVars, helperGpuVars
  <2> QED BY <2>1
<1>5. CASE HelperDies \/ StopReleases
  <2>1. /\ UNCHANGED <<done_fence, processed, ready_fence, wanted>> /\ hpc' # "recording"
        /\ helper_queue' = helper_queue \/ helper_queue' = <<>>
    BY <1>5 DEF HelperDies, StopReleases, gameGpuVars
  <2> QED BY <2>1
<1>6. CASE HelperGpu
  <2>1. /\ helper_queue # <<>> /\ helper_queue' = Tail(helper_queue)
        /\ done_fence' = Head(helper_queue).frame
        /\ UNCHANGED <<processed, ready_fence, wanted, hpc>>
    BY <1>6 DEF HelperGpu, gameGpuVars, helperVars
  <2>2. /\ Len(helper_queue') = Len(helper_queue) - 1 /\ 1 \in 1 .. Len(helper_queue)
        /\ done_fence' = helper_queue[1].frame
        /\ \A i \in 1 .. Len(helper_queue) - 1 : helper_queue'[i] = helper_queue[i + 1]
    BY <1>0, <2>1, Executed
  <2>3. ASSUME NEW i \in 1 .. Len(helper_queue')
        PROVE  /\ done_fence' < helper_queue'[i].frame /\ helper_queue'[i].frame <= processed'
               /\ \A j \in 1 .. i - 1 : helper_queue'[j].frame < helper_queue'[i].frame
    <3>1. i + 1 \in 1 .. Len(helper_queue) /\ 1 \in 1 .. (i + 1) - 1
      BY <1>0, <2>2, <2>3
    <3>2. \A j \in 1 .. i - 1 : j + 1 \in 1 .. (i + 1) - 1 /\ helper_queue'[j] = helper_queue[j + 1]
      BY SMTT(40), <1>0, <2>2, <3>1
    <3> QED BY <1>0, <2>1, <2>2, <3>1, <3>2
  <2> QED BY <1>0, <2>1, <2>2, <2>3
<1>7. CASE \/ PollReady(TRUE) \/ PollReady(FALSE) \/ PollGivesUp \/ HandOver \/ Bypass \/ ReadBack
           \/ Exchange \/ StopAsks \/ GameDies \/ UNCHANGED vars
  <2>1. UNCHANGED <<done_fence, processed, ready_fence, wanted, helper_queue, hpc>>
    BY <1>7 DEF PollReady, PollGivesUp, HandOver, Bypass, ReadBack, Exchange, SetCameraConstants,
                SubmitFrame, AcquireNothing, AcquireAtOnce, AcquireWaits, WaitReturns, WaitTimesOut,
                Present, StopAsks, GameDies, vars, gameGpuVars, helperVars, helperGpuVars
  <2> QED BY <2>1
<1> QED BY <1>1, <1>2, <1>3, <1>4, <1>5, <1>6, <1>7 DEF Next, HelperLoop

\* A helper that has passed over no frame signals them one by one.
LEMMA InStepKept ==
  Types /\ Types' /\ HelperQueue /\ InStep /\ [Next]_vars => InStep'
<1> SUFFICES ASSUME Types, Types', HelperQueue, InStep, [Next]_vars PROVE InStep' OBVIOUS
<1>0. /\ done_fence \in Nat /\ processed \in Nat /\ ready_fence \in Nat /\ wanted \in Nat
      /\ helper_queue \in Seq(HelperCommands) /\ Len(helper_queue) \in Nat
      /\ \A i \in 1 .. Len(helper_queue) : helper_queue[i].frame \in Nat
  BY Numbers, QueueElements DEF Types
<1> USE DEF InStep
<1>1. CASE TakeFrame
  <2>1. /\ ready_fence > processed /\ wanted' = ready_fence /\ hpc' = "recording"
        /\ hpc = "polling" /\ UNCHANGED <<done_fence, processed, helper_queue>>
    BY <1>1 DEF TakeFrame, helperGpuVars
  <2>2. ~behind' => ~behind /\ ~(ready_fence > processed + 1) BY <1>1 DEF TakeFrame, Types
  <2> QED BY <1>0, <2>1, <2>2
<1>2. CASE EvaluateSucceeds \/ EvaluateFails
  <2>1. PICK c \in HelperCommands :
          /\ c.frame = wanted /\ helper_queue' = Append(helper_queue, c)
          /\ hpc = "recording" /\ hpc' = "polling" /\ processed' = wanted
          /\ (behind => behind') /\ UNCHANGED done_fence
    BY <1>2, Evaluated
  <2>2. /\ Len(helper_queue') = Len(helper_queue) + 1
        /\ \A i \in 1 .. Len(helper_queue) : helper_queue'[i] = helper_queue[i]
        /\ helper_queue'[Len(helper_queue) + 1] = c
    BY <1>0, <2>1, Appended
  <2>3. \A i \in 1 .. Len(helper_queue') : i \in 1 .. Len(helper_queue) \/ i = Len(helper_queue) + 1
    BY <1>0, <2>2
  <2>4. ~behind' => ~behind BY <2>1 DEF Types
  <2>5. ASSUME ~behind, NEW i \in 1 .. Len(helper_queue')
        PROVE  helper_queue'[i].frame = done_fence' + i
    <3>1. CASE i \in 1 .. Len(helper_queue) BY <2>1, <2>2, <2>5, <3>1
    <3>2. CASE i = Len(helper_queue) + 1
      <4>1. wanted = done_fence + (Len(helper_queue) + 1) BY <1>0, <2>1, <2>5
      <4> QED BY <2>1, <2>2, <3>2, <4>1
    <3> QED BY <2>3, <3>1, <3>2
  <2>6. ~behind => processed' = done_fence' + Len(helper_queue') BY <1>0, <2>1, <2>2
  <2> QED BY <2>1, <2>4, <2>5, <2>6
<1>3. CASE QueueRefuses \/ HelperExits \/ HelperDies \/ StopReleases
  <2>1. /\ (behind => behind') /\ UNCHANGED done_fence /\ hpc' = "gone"
        /\ helper_queue' = helper_queue \/ helper_queue' = <<>>
    <3>1. CASE QueueRefuses BY <3>1 DEF QueueRefuses, ReadConstants, helperGpuVars
    <3>2. CASE HelperExits \/ HelperDies \/ StopReleases
      BY <3>2 DEF HelperExits, HelperDies, StopReleases, helperGpuVars
    <3> QED BY <1>3, <3>1, <3>2
  <2> QED BY <2>1
<1>4. CASE HelperStarts("ready") \/ HelperStarts("failed") \/ OpensGame
  <2>1. UNCHANGED <<done_fence, processed, helper_queue, behind>> /\ hpc # "gone" /\ hpc' # "recording"
    BY <1>4 DEF HelperStarts, OpensGame, helperGpuVars
  <2> QED BY <2>1
<1>5. CASE HelperGpu
  <2>1. /\ helper_queue # <<>> /\ helper_queue' = Tail(helper_queue)
        /\ done_fence' = Head(helper_queue).frame
        /\ UNCHANGED <<processed, wanted, hpc, behind>>
    BY <1>5 DEF HelperGpu, helperVars
  <2>2. /\ Len(helper_queue') = Len(helper_queue) - 1 /\ 1 \in 1 .. Len(helper_queue)
        /\ done_fence' = helper_queue[1].frame
        /\ \A i \in 1 .. Len(helper_queue) - 1 : helper_queue'[i] = helper_queue[i + 1]
    BY <1>0, <2>1, Executed
  <2>3. \A i \in 1 .. Len(helper_queue') : i + 1 \in 1 .. Len(helper_queue)
    BY <1>0, <2>2
  <2>4. ASSUME ~behind, NEW i \in 1 .. Len(helper_queue')
        PROVE  helper_queue'[i].frame = done_fence' + i
    <3>1. helper_queue'[i] = helper_queue[i + 1] BY <1>0, <2>2, <2>4
    <3>2. helper_queue[i + 1].frame = done_fence + (i + 1) BY <2>3, <2>4
    <3>3. done_fence' = done_fence + 1 BY <2>2, <2>4
    <3> QED BY <1>0, <3>1, <3>2, <3>3
  <2>5. ~behind => done_fence' = done_fence + 1 BY <2>2
  <2> QED BY <1>0, <2>1, <2>2, <2>4, <2>5
<1>6. CASE \/ PollReady(TRUE) \/ PollReady(FALSE) \/ PollGivesUp \/ HandOver \/ Bypass \/ ReadBack
           \/ Exchange \/ StopAsks \/ GameDies \/ GameGpu \/ UNCHANGED vars
  <2>1. UNCHANGED <<done_fence, processed, wanted, helper_queue, hpc, behind>>
    BY <1>6 DEF PollReady, PollGivesUp, HandOver, Bypass, ReadBack, Exchange, SetCameraConstants,
                SubmitFrame, AcquireNothing, AcquireAtOnce, AcquireWaits, WaitReturns, WaitTimesOut,
                Present, StopAsks, GameDies, GameGpu, vars, helperVars, helperGpuVars
  <2> QED BY <2>1
<1> QED BY <1>1, <1>2, <1>3, <1>4, <1>5, <1>6 DEF Next, HelperLoop

-----------------------------------------------------------------------------
\* A command put behind those that fit fits if it does with each of them.
LEMMA FitsAppended ==
  ASSUME NEW slots \in [InputSlots -> Frames], NEW fence \in Nat, NEW n \in Nat, NEW m \in Nat, n <= m,
         NEW q \in Seq(GameCommands), Fits(slots, fence, n, q), NEW c \in GameCommands,
         c.op = "copy" => c.frame <= m + 1 /\ \A s \in InputSlots : slots[s] <= c.frame,
         c.op = "ready" => /\ fence <= c.frame /\ c.frame <= m
                           /\ Copied(slots, q, c.frame, Len(q) + 1),
         c.op = "show" /\ c.frame # 0 => fence <= c.frame + 1,
         \A j \in 1 .. Len(q) : InOrder(q[j], c)
  PROVE  Fits(slots, fence, m, Append(q, c))
<1> DEFINE p == Append(q, c)
<1>1. /\ Len(p) = Len(q) + 1 /\ Len(q) \in Nat /\ p[Len(q) + 1] = c
      /\ \A i \in 1 .. Len(q) : p[i] = q[i] /\ q[i] \in GameCommands
  BY Appended
<1>2. \A i \in 1 .. Len(q) : q[i].frame \in Nat BY <1>1, Numbers DEF GameCommands
<1> HIDE DEF p
<1>3. ASSUME NEW i \in 1 .. Len(q) + 1, NEW f, Copied(slots, q, f, i)
      PROVE  Copied(slots, p, f, i)
  <2>1. \A j \in 1 .. i - 1 : j \in 1 .. Len(q) BY <1>1, <1>3
  <2>2. \A j \in 1 .. i - 1 : p[j] = q[j] BY <1>1, <2>1
  <2> QED BY <1>3, <2>2 DEF Copied
<1>4. ASSUME NEW i \in 1 .. Len(q)
      PROVE  /\ p[i].op = "copy" => p[i].frame <= m + 1 /\ \A s \in InputSlots : slots[s] <= p[i].frame
             /\ p[i].op = "ready" => /\ fence <= p[i].frame /\ p[i].frame <= m
                                     /\ Copied(slots, p, p[i].frame, i)
             /\ p[i].op = "show" /\ p[i].frame # 0 => fence <= p[i].frame + 1
             /\ \A j \in 1 .. i - 1 : InOrder(p[j], p[i])
  <2>1. p[i] = q[i] /\ i \in 1 .. Len(q) + 1 /\ \A j \in 1 .. i - 1 : p[j] = q[j] BY <1>1
  <2>2. /\ q[i].op = "copy" => q[i].frame <= n + 1 /\ \A s \in InputSlots : slots[s] <= q[i].frame
        /\ q[i].op = "ready" => /\ fence <= q[i].frame /\ q[i].frame <= n
                                /\ Copied(slots, q, q[i].frame, i)
        /\ q[i].op = "show" /\ q[i].frame # 0 => fence <= q[i].frame + 1
        /\ \A j \in 1 .. i - 1 : InOrder(q[j], q[i])
    BY DEF Fits
  <2> QED BY SMTT(40), <1>2, <1>3, <2>1, <2>2
<1>5. /\ p[Len(q) + 1] = c /\ \A j \in 1 .. (Len(q) + 1) - 1 : InOrder(p[j], c)
      /\ c.op = "ready" => Copied(slots, p, c.frame, Len(q) + 1)
  BY <1>1, <1>3
<1>6. \A i \in 1 .. Len(p) : i \in 1 .. Len(q) \/ i = Len(q) + 1 BY <1>1
<1>7. Fits(slots, fence, m, p) BY <1>4, <1>5, <1>6 DEF Fits
<1> QED BY <1>7 DEF p

\* What the first command of the game's queue leaves.
SlotsAfter(slots, c) ==
  IF c.op = "copy" THEN [slots EXCEPT ![Slot(c.frame)] = c.frame] ELSE slots
FenceAfter(fence, c) == IF c.op = "ready" THEN c.frame ELSE fence

\* Inputs copied by the first command, or before it, are still in the slot
\* after it: no older ones are copied over them.
LEMMA CopiedStays ==
  ASSUME NEW slots \in [InputSlots -> Frames], NEW q \in Seq(GameCommands), q # <<>>,
         NEW f \in Nat, NEW i \in 1 .. Len(q), Copied(slots, q, f, i + 1),
         q[1].op = "copy" => q[1].frame <= f /\ \A s \in InputSlots : slots[s] <= q[1].frame
  PROVE  Copied(SlotsAfter(slots, q[1]), Tail(q), f, i)
<1> DEFINE c == q[1]
           after == SlotsAfter(slots, c)
<1>1. /\ c \in GameCommands /\ Len(Tail(q)) = Len(q) - 1 /\ Len(q) \in Nat
      /\ \A j \in 1 .. Len(q) - 1 : Tail(q)[j] = q[j + 1]
  BY Executed
<1>2. c.frame \in Nat /\ Slot(c.frame) \in InputSlots /\ Slot(f) \in InputSlots
  BY <1>1, Numbers, SlotType DEF GameCommands
<1>3. CASE slots[Slot(f)] = f
  <2>1. slots[Slot(f)] \in Nat BY <1>2, Numbers
  <2>2. after[Slot(f)] = f BY <1>2, <1>3, <2>1 DEF SlotsAfter
  <2> QED BY <2>2 DEF Copied
<1>4. CASE \E j \in 1 .. (i + 1) - 1 : q[j] = Copy(f)
  <2>1. PICK j \in 1 .. (i + 1) - 1 : q[j] = Copy(f) BY <1>4
  <2>2. CASE j = 1
    <3>1. c.op = "copy" /\ c.frame = f BY <2>1, <2>2 DEF Copy
    <3>2. after[Slot(f)] = f BY <1>2, <3>1 DEF SlotsAfter
    <3> QED BY <3>2 DEF Copied
  <2>3. CASE j # 1
    <3>1. j - 1 \in 1 .. i - 1 /\ j - 1 \in 1 .. Len(q) - 1 /\ (j - 1) + 1 = j BY <1>1, <2>3
    <3>2. Tail(q)[j - 1] = Copy(f) BY <1>1, <2>1, <3>1
    <3> QED BY <3>1, <3>2 DEF Copied
  <2> QED BY <2>2, <2>3
<1> QED BY <1>3, <1>4 DEF Copied

\* The commands behind the first fit what it leaves.
LEMMA FitsExecuted ==
  ASSUME NEW slots \in [InputSlots -> Frames], NEW fence \in Nat, NEW n \in Nat,
         NEW q \in Seq(GameCommands), q # <<>>, Fits(slots, fence, n, q)
  PROVE  Fits(SlotsAfter(slots, q[1]), FenceAfter(fence, q[1]), n, Tail(q))
<1> DEFINE c == q[1]
           after == SlotsAfter(slots, c)
           signalled == FenceAfter(fence, c)
           p == Tail(q)
<1>1. /\ Len(p) = Len(q) - 1 /\ Len(q) \in Nat \ {0} /\ 1 \in 1 .. Len(q)
      /\ \A j \in 1 .. Len(q) - 1 : p[j] = q[j + 1]
      /\ \A j \in 1 .. Len(q) : q[j] \in GameCommands
  BY Executed
<1>2. \A j \in 1 .. Len(q) : q[j].frame \in Nat BY <1>1, Numbers DEF GameCommands
<1>3. /\ c.op = "copy" => c.frame <= n + 1 /\ \A s \in InputSlots : slots[s] <= c.frame
      /\ c.op = "ready" => fence <= c.frame
  BY <1>1 DEF Fits
<1> SUFFICES ASSUME NEW i \in 1 .. Len(p)
             PROVE  /\ p[i].op = "copy" => /\ p[i].frame <= n + 1
                                           /\ \A s \in InputSlots : after[s] <= p[i].frame
                    /\ p[i].op = "ready" => /\ signalled <= p[i].frame /\ p[i].frame <= n
                                            /\ Copied(after, p, p[i].frame, i)
                    /\ p[i].op = "show" /\ p[i].frame # 0 => signalled <= p[i].frame + 1
                    /\ \A j \in 1 .. i - 1 : InOrder(p[j], p[i])
  BY DEF Fits
<1> DEFINE d == q[i + 1]
<1>4. i + 1 \in 1 .. Len(q) /\ i \in 1 .. Len(q) /\ p[i] = d /\ 1 \in 1 .. (i + 1) - 1 BY <1>1
<1>5. /\ d.op = "copy" => d.frame <= n + 1 /\ \A s \in InputSlots : slots[s] <= d.frame
      /\ d.op = "ready" => /\ fence <= d.frame /\ d.frame <= n
                           /\ Copied(slots, q, d.frame, i + 1)
      /\ d.op = "show" /\ d.frame # 0 => fence <= d.frame + 1
      /\ \A j \in 1 .. (i + 1) - 1 : InOrder(q[j], d)
  BY <1>4 DEF Fits
<1>6. InOrder(c, d) /\ c.frame \in Nat /\ d.frame \in Nat BY <1>1, <1>2, <1>4, <1>5
<1>7. \A j \in 1 .. i - 1 : InOrder(p[j], d)
  <2>1. \A j \in 1 .. i - 1 : p[j] = q[j + 1] /\ j + 1 \in 1 .. (i + 1) - 1 BY <1>1
  <2> QED BY <1>5, <2>1
<1>8. d.op = "ready" => Copied(after, p, d.frame, i)
  <2> HIDE DEF after, p
  <2>1. ASSUME d.op = "ready" PROVE c.op = "copy" => c.frame <= d.frame
    BY <1>6, <2>1 DEF InOrder
  <2> QED BY <1>3, <1>4, <1>5, <1>6, <2>1, CopiedStays DEF after, p
<1>9. d.op = "copy" => \A s \in InputSlots : after[s] <= d.frame
  BY <1>5, <1>6 DEF InOrder, SlotsAfter
<1>10. /\ d.op = "ready" => signalled <= d.frame
       /\ d.op = "show" /\ d.frame # 0 => signalled <= d.frame + 1
  BY <1>5, <1>6 DEF InOrder, FenceAfter
<1> HIDE DEF after, p, signalled, d
<1> QED BY <1>4, <1>5, <1>7, <1>8, <1>9, <1>10

\* Copies and signals reach the game's queue in the order of their frames.
LEMMA GameQueueKept ==
  Types /\ Types' /\ Control /\ GameQueue /\ [Next]_vars => GameQueue'
<1> SUFFICES ASSUME Types, Types', Control, GameQueue, [Next]_vars PROVE GameQueue' OBVIOUS
<1> DEFINE q == game_queue
           n == shared.frame
           Held(slots) == \A s \in InputSlots : slots[s] <= n + 1
<1>0. /\ color_in \in [InputSlots -> Frames] /\ ready_fence \in Nat /\ n \in Nat /\ frame_index \in Nat
      /\ q \in Seq(GameCommands) /\ Len(q) \in Nat /\ shared \in SharedMemory
      /\ frame_index \in Frames /\ open \in [op : {"show"}, frame : Frames]
      /\ \A i \in 1 .. Len(q) : q[i] \in GameCommands /\ q[i].frame \in Nat
      /\ \A s \in InputSlots : color_in[s] \in Nat
  BY Numbers, QueueElements DEF Types, SharedMemory
<1>1. /\ ready_fence <= n /\ Held(color_in) /\ Fits(color_in, ready_fence, n, q)
      /\ \A j \in 1 .. Len(q) : /\ q[j].op = "copy" => q[j].frame <= n + 1
                                /\ q[j].op = "ready" => q[j].frame <= n
  BY DEF GameQueue, Fits
<1>2. CASE HandOver
  <2> DEFINE c == Copy(frame_index + 1)
  <2>1. /\ gpc = "drawing" /\ frame_index < MaxFrame /\ gpc' = "handed" /\ q' = Append(q, c)
        /\ UNCHANGED <<ready_fence, color_in, shared, frame_index>>
    BY <1>2 DEF HandOver, clientVars
  <2>2. n = frame_index /\ frame_index + 1 \in Frames BY <1>0, <2>1, Numbers DEF Control
  <2>3. c \in GameCommands /\ c.op = "copy" /\ c.frame = n + 1 BY <2>2, Numbers DEF Copy
  <2>4. \A j \in 1 .. Len(q) : InOrder(q[j], c) BY <1>0, <1>1, <2>3 DEF InOrder
  <2>5. q'[Len(q) + 1] = c /\ Len(q') = Len(q) + 1 BY <1>0, <2>1, <2>3, Appended
  <2> HIDE DEF c
  <2>6. Fits(color_in, ready_fence, n, Append(q, c))
    <3>1. c.frame <= n + 1 /\ \A s \in InputSlots : color_in[s] <= c.frame BY <1>0, <1>1, <2>3
    <3>2. c.op # "ready" /\ c.op # "show" /\ n <= n BY <1>0, <2>3
    <3> HIDE DEF q, n
    <3> QED BY <1>0, <1>1, <2>3, <2>4, <3>1, <3>2, FitsAppended
  <2>7. Copied(color_in, q', frame_index + 1, Len(q') + 1)
    <3>1. Len(q) + 1 \in 1 .. (Len(q') + 1) - 1 BY <1>0, <2>5
    <3> QED BY <2>5, <3>1 DEF Copied, c
  <2> QED BY <1>1, <2>1, <2>6, <2>7 DEF GameQueue
<1>3. CASE SetCameraConstants
  <2>1. shared'.frame = n BY <1>0, <1>3 DEF SetCameraConstants, SharedMemory
  <2>2. gpc = "handed" /\ UNCHANGED <<q, ready_fence, color_in, frame_index>>
    BY <1>3 DEF SetCameraConstants, gameGpuVars, clientVars
  <2> QED BY <2>1, <2>2 DEF GameQueue
<1>4. ASSUME NEW signalled \in BOOLEAN, SubmitFrame(signalled) PROVE GameQueue'
  <2> DEFINE c == Ready(frame_index + 1)
  <2>1. /\ gpc = "constants" /\ UNCHANGED <<ready_fence, color_in>>
        /\ gpc' \notin {"handed", "constants"}
        /\ q' = IF signalled THEN Append(q, c) ELSE q
    BY <1>4 DEF SubmitFrame
  <2>2. n = frame_index /\ shared'.frame = n + 1
    BY <1>0, <1>4, <2>1 DEF SubmitFrame, Parameters, SharedMemory, Control
  <2>3. frame_index + 1 \in Frames BY <1>0, <2>1, Numbers DEF Control
  <2>4. c \in GameCommands /\ c.op = "ready" /\ c.frame = n + 1 BY <2>2, <2>3, Numbers DEF Ready
  <2>5. \A j \in 1 .. Len(q) : InOrder(q[j], c) BY <1>0, <1>1, <2>4 DEF InOrder
  <2>6. Copied(color_in, q, n + 1, Len(q) + 1) BY <2>1, <2>2 DEF GameQueue
  <2> HIDE DEF c
  <2>7. Fits(color_in, ready_fence, n + 1, Append(q, c))
    <3>1. /\ ready_fence <= c.frame /\ c.frame <= n + 1 /\ Copied(color_in, q, c.frame, Len(q) + 1)
          /\ n <= n + 1 /\ n + 1 \in Nat
      BY <1>0, <1>1, <2>4, <2>6
    <3>2. c.op # "copy" /\ c.op # "show" BY <2>4
    <3> HIDE DEF q, n
    <3> QED BY <1>0, <1>1, <2>4, <2>5, <3>1, <3>2, FitsAppended
  <2>8. Fits(color_in, ready_fence, n + 1, q) BY SMTT(40), <1>0, <1>1 DEF Fits
  <2>9. Fits(color_in, ready_fence, n + 1, q') BY <2>1, <2>7, <2>8
  <2> QED BY <1>0, <1>1, <2>1, <2>2, <2>9 DEF GameQueue
<1>5. CASE Present \/ StopAsks
  <2>1. /\ gpc # "dead" /\ q' = Append(q, open) /\ UNCHANGED <<ready_fence, color_in>>
        /\ gpc' \notin {"handed", "constants"}
    BY <1>5 DEF Present, StopAsks
  <2>2. shared'.frame = n BY <1>0, <1>5 DEF Present, StopAsks, SharedMemory
  <2>3. open.op = "show" /\ open \in GameCommands /\ (open.frame # 0 => open.frame + 1 = n)
    <3>1. open = Plain => open.frame = 0 BY DEF Plain
    <3>2. open # Plain => open.frame = frame_index - 1 BY DEF Control, Show, Wanted
    <3>3. n = frame_index BY <2>1 DEF Control
    <3> QED BY <1>0, <3>1, <3>2, <3>3, Numbers
  <2>4. \A j \in 1 .. Len(q) : InOrder(q[j], open) BY <1>0, <1>1, <2>3 DEF InOrder
  <2>5. Fits(color_in, ready_fence, n, Append(q, open))
    BY SMTT(30), <1>0, <1>1, <2>3, <2>4, FitsAppended
  <2> QED BY <1>1, <2>1, <2>2, <2>5 DEF GameQueue
<1>6. CASE GameGpu
  <2> DEFINE c == q[1]
  <2>1. /\ q # <<>> /\ q' = Tail(q) /\ Head(q) = c /\ UNCHANGED <<gpc, frame_index, shared>>
    BY <1>0, <1>6, Executed DEF GameGpu, clientVars
  <2>2. color_in' = SlotsAfter(color_in, c) /\ ready_fence' = FenceAfter(ready_fence, c)
    BY <1>6, <2>1 DEF GameGpu, SlotsAfter, FenceAfter
  <2>3. Len(q') = Len(q) - 1 /\ 1 \in 1 .. Len(q) /\ Len(q) \in 1 .. Len(q)
    BY <1>0, <2>1, Executed
  <2>4. /\ c.op = "copy" => c.frame <= n + 1 /\ \A s \in InputSlots : color_in[s] <= c.frame
        /\ c.op = "ready" => c.frame <= n
    BY <1>1, <2>3 DEF Fits
  <2>5. Fits(color_in', ready_fence', n, q') BY <1>0, <1>1, <2>1, <2>2, FitsExecuted
  <2>6. ready_fence' <= n /\ \A s \in InputSlots : color_in'[s] <= n + 1
    <3>1. c.frame \in Nat BY <1>0, <2>3
    <3> QED BY <1>0, <1>1, <2>2, <2>4, <3>1 DEF SlotsAfter, FenceAfter
  <2>7. ASSUME gpc \in {"handed", "constants"}
        PROVE  Copied(color_in', q', frame_index + 1, Len(q') + 1)
    <3>1. Copied(color_in, q, frame_index + 1, Len(q) + 1) BY <2>7 DEF GameQueue
    <3>2. n = frame_index BY <2>7 DEF Control
    <3>3. frame_index + 1 \in Nat BY <1>0
    <3>4. Copied(color_in', q', frame_index + 1, Len(q))
      BY <1>0, <2>1, <2>2, <2>3, <2>4, <3>1, <3>2, <3>3, CopiedStays
    <3>5. Len(q') + 1 = Len(q) BY <1>0, <2>3
    <3> QED BY <3>4, <3>5
  <2> QED BY <2>1, <2>5, <2>6, <2>7 DEF GameQueue
<1>7. CASE GameDies
  <2>1. q' = <<>> /\ UNCHANGED <<ready_fence, color_in, shared>> /\ gpc' = "dead"
    BY <1>7 DEF GameDies
  <2>2. Fits(color_in, ready_fence, n, q') BY <2>1 DEF Fits
  <2> QED BY <1>1, <2>1, <2>2 DEF GameQueue
<1>8. CASE \/ HelperStarts("ready") \/ HelperStarts("failed") \/ EvaluateFails \/ QueueRefuses
  <2>1. shared'.frame = n
    BY <1>0, <1>8 DEF HelperStarts, EvaluateFails, QueueRefuses, SharedMemory
  <2>2. UNCHANGED <<q, ready_fence, color_in, frame_index, gpc>>
    BY <1>8 DEF HelperStarts, EvaluateFails, QueueRefuses, gameGpuVars, clientVars
  <2> QED BY <2>1, <2>2 DEF GameQueue
<1>9. CASE \/ PollReady(TRUE) \/ PollReady(FALSE) \/ PollGivesUp \/ Bypass \/ ReadBack
           \/ AcquireNothing \/ AcquireAtOnce \/ AcquireWaits \/ WaitReturns \/ WaitTimesOut
           \/ StopReleases
  <2>1. UNCHANGED <<q, ready_fence, color_in, shared>> /\ gpc' \notin {"handed", "constants"}
    BY <1>9 DEF PollReady, PollGivesUp, Bypass, ReadBack, AcquireNothing, AcquireAtOnce,
                AcquireWaits, WaitReturns, WaitTimesOut, StopReleases, WaitMayTimeOut, gameGpuVars
  <2> QED BY <1>1, <2>1 DEF GameQueue
<1>10. CASE TakeFrame \/ EvaluateSucceeds \/ OpensGame \/ HelperExits \/ HelperDies
            \/ HelperGpu \/ UNCHANGED vars
  <2>1. UNCHANGED <<q, ready_fence, color_in, shared, frame_index, gpc>>
    BY <1>10 DEF TakeFrame, EvaluateSucceeds, OpensGame, HelperExits, HelperDies, HelperGpu,
                 vars, gameGpuVars,
                 clientVars
  <2> QED BY <2>1 DEF GameQueue
<1> QED BY <1>2, <1>3, <1>4, <1>5, <1>6, <1>7, <1>8, <1>9, <1>10 DEF Next, Exchange, HelperLoop

\* done(f) is signalled in order.
LEMMA DoneGrows ==
  ASSUME Types, HelperQueue, HelperGpu
  PROVE  /\ helper_queue[1] = Head(helper_queue) /\ 1 \in 1 .. Len(helper_queue)
         /\ done_fence' = helper_queue[1].frame /\ done_fence < done_fence'
<1>1. helper_queue[1] = Head(helper_queue) /\ 1 \in 1 .. Len(helper_queue)
  BY Executed DEF Types, HelperGpu
<1> QED BY <1>1 DEF HelperGpu, HelperQueue

\* Whoever is no more than so far ahead is so of a later frame.
LEMMA Later ==
  ASSUME NEW a \in Nat, NEW b \in Nat, a < b
  PROVE  \A x \in Nat : /\ x <= a => x <= b
                        /\ x <= a + 1 => x <= b + 1
                        /\ x <= a + 2 => x <= b + 2
OBVIOUS

\* While no wait has timed out the game waits for each frame before it hands
\* over the one after the next.
LEMMA ConfirmedKept ==
  Types /\ Types' /\ Control /\ HelperQueue /\ Confirmed /\ [Next]_vars => Confirmed'
<1> SUFFICES ASSUME Types, Types', Control, HelperQueue, Confirmed, [Next]_vars, ~late'
             PROVE  Confirmed'
  BY DEF Confirmed
<1>0. /\ done_fence \in Nat /\ frame_index \in Nat /\ open \in [op : {"show"}, frame : Frames]
      /\ game_queue \in Seq(GameCommands) /\ Len(game_queue) \in Nat /\ shared \in SharedMemory
      /\ \A i \in 1 .. Len(game_queue) : game_queue[i] \in GameCommands /\ game_queue[i].frame \in Nat
      /\ registered \subseteq Nat /\ shared.camera \in Nat /\ open.frame \in Nat
  BY Numbers, QueueElements DEF Types, SharedMemory
<1> DEFINE Behind(q, done) ==
             \A i \in 1 .. Len(q) : /\ q[i].op = "copy" => q[i].frame <= done + 2
                                    /\ q[i].op = "show" => q[i].frame <= done
<1>1. ASSUME ~late
      PROVE  /\ shared.camera <= done_fence + 2 /\ Behind(game_queue, done_fence)
             /\ open.frame <= done_fence
             /\ healthy /\ gpc \in {"drawing", "handed", "constants", "resolved"} =>
                  frame_index <= done_fence + 1
             /\ gpc \in {"submitted", "waiting"} => frame_index <= done_fence + 2
             /\ done_event => gpc = "waiting" /\ Wanted <= done_fence
             /\ gpc = "waiting" => registered \subseteq {Wanted}
             /\ gpc # "waiting" => registered = {}
             /\ \A v \in registered : done_fence < v
  BY <1>1 DEF Confirmed
<1>2. ASSUME NEW c \in GameCommands, Behind(game_queue, done_fence),
             c.op = "copy" => c.frame <= done_fence + 2, c.op = "show" => c.frame <= done_fence
      PROVE  Behind(Append(game_queue, c), done_fence)
  <2> DEFINE q == Append(game_queue, c)
  <2>1. /\ Len(q) = Len(game_queue) + 1 /\ q[Len(game_queue) + 1] = c
        /\ \A i \in 1 .. Len(game_queue) : q[i] = game_queue[i]
    BY <1>0, Appended
  <2> HIDE DEF q
  <2>2. \A i \in 1 .. Len(q) : i \in 1 .. Len(game_queue) \/ i = Len(game_queue) + 1 BY <1>0, <2>1
  <2>3. Behind(q, done_fence) BY <1>2, <2>1, <2>2
  <2> QED BY <2>3 DEF q
<1> USE DEF Confirmed
<1>3. CASE HandOver
  <2>1. /\ gpc = "drawing" /\ healthy /\ gpc' = "handed" /\ frame_index < MaxFrame
        /\ game_queue' = Append(game_queue, Copy(frame_index + 1))
        /\ UNCHANGED <<done_fence, shared, open, healthy, frame_index, done_event, registered, late>>
    BY <1>3 DEF HandOver, clientVars, eventVars, helperGpuVars
  <2>2. Copy(frame_index + 1) \in GameCommands BY <2>1, Numbers DEF Types
  <2>3. Behind(game_queue', done_fence')
    <3>1. Copy(frame_index + 1).op = "copy" /\ Copy(frame_index + 1).frame = frame_index + 1
      BY DEF Copy
    <3>2. frame_index + 1 <= done_fence + 2 BY <1>0, <1>1, <2>1
    <3> QED BY <1>1, <1>2, <2>1, <2>2, <3>1, <3>2
  <2> QED BY <1>1, <2>1, <2>3
<1>4. CASE SetCameraConstants
  <2>1. /\ gpc = "handed" /\ gpc' = "constants" /\ shared'.camera = frame_index + 1
        /\ UNCHANGED <<done_fence, game_queue, open, healthy, frame_index, done_event, registered, late>>
    BY <1>0, <1>4 DEF SetCameraConstants, clientVars, eventVars, helperGpuVars, gameGpuVars,
                      SharedMemory
  <2>2. healthy BY <2>1 DEF Control
  <2> QED BY <1>0, <1>1, <2>1, <2>2
<1>5. ASSUME NEW signalled \in BOOLEAN, SubmitFrame(signalled) PROVE Confirmed'
  <2>1. /\ gpc = "constants" /\ shared'.camera = shared.camera /\ frame_index' = frame_index + 1
        /\ gpc' = IF signalled THEN "submitted" ELSE "resolved"
        /\ healthy' = signalled
        /\ game_queue' = IF signalled THEN Append(game_queue, Ready(frame_index + 1)) ELSE game_queue
        /\ UNCHANGED <<done_fence, open, done_event, registered, late>>
    BY <1>0, <1>5 DEF SubmitFrame, Parameters, eventVars, helperGpuVars, SharedMemory
  <2>2. healthy /\ frame_index < MaxFrame BY <2>1 DEF Control
  <2>3. Ready(frame_index + 1) \in GameCommands /\ Ready(frame_index + 1).op = "ready"
    BY <2>2, Numbers DEF Types, Ready
  <2>4. Behind(game_queue', done_fence') BY <1>1, <1>2, <2>1, <2>3
  <2> QED BY <1>0, <1>1, <2>1, <2>2, <2>4
<1>6. CASE AcquireNothing
  BY <1>0, <1>1, <1>6 DEF AcquireNothing, clientVars, eventVars, helperGpuVars, gameGpuVars
<1>7. ASSUME Acquire, Wanted <= done_fence, gpc' = "resolved", registered' = {}, ~done_event',
             UNCHANGED <<frame_index, shared, done_fence, late, game_queue>>
      PROVE  Confirmed'
  <2>1. open'.frame <= done_fence BY <1>0, <1>7 DEF Acquire, Show, Plain
  <2>2. frame_index <= done_fence + 1 BY <1>0, <1>7 DEF Wanted
  <2> QED BY <1>1, <1>7, <2>1, <2>2
<1>8. CASE AcquireAtOnce
  <2>1. /\ Acquire /\ Wanted <= done_fence /\ gpc' = "resolved" /\ gpc = "submitted"
        /\ UNCHANGED <<frame_index, shared, done_fence, late, game_queue, registered, done_event>>
    BY <1>0, <1>8 DEF AcquireAtOnce, eventVars, helperGpuVars, gameGpuVars, Wanted
  <2>2. registered' = {} /\ ~done_event' BY <1>1, <2>1
  <2> QED BY <1>7, <2>1, <2>2
<1>9. CASE AcquireWaits
  <2>1. /\ gpc = "submitted" /\ done_fence < Wanted
        /\ UNCHANGED <<frame_index, shared, done_fence, late, game_queue, open, done_event>>
    BY <1>9 DEF AcquireWaits, helperGpuVars, gameGpuVars
  <2>2. CASE registered' = registered \cup {Wanted} /\ gpc' = "waiting" /\ UNCHANGED healthy
    BY <1>0, <1>1, <2>1, <2>2 DEF Wanted
  <2>3. CASE ~healthy' /\ gpc' = "resolved" /\ UNCHANGED registered
    BY <1>0, <1>1, <2>1, <2>3
  <2> QED BY <1>9, <2>2, <2>3 DEF AcquireWaits
<1>10. CASE WaitReturns
  <2>1. /\ Acquire /\ gpc' = "resolved" /\ gpc = "waiting" /\ done_event /\ ~done_event'
        /\ UNCHANGED <<frame_index, shared, done_fence, late, game_queue, registered>>
    BY <1>10 DEF WaitReturns, helperGpuVars, gameGpuVars
  <2>2. Wanted <= done_fence /\ registered = {} BY <1>0, <1>1, <2>1 DEF Wanted
  <2> QED BY <1>7, <2>1, <2>2
<1>11. CASE WaitTimesOut BY <1>11 DEF WaitTimesOut
<1>12. CASE Present \/ StopAsks
  <2>1. /\ gpc \in {"drawing", "resolved"} /\ gpc' \in {"drawing", "stopping"}
        /\ gpc' = "drawing" => gpc = "resolved"
        /\ game_queue' = Append(game_queue, open) /\ open' = Plain
        /\ UNCHANGED <<frame_index, healthy, done_fence, late, registered, done_event>>
    BY <1>12 DEF Present, StopAsks, clientVars, eventVars, helperGpuVars
  <2>2. shared'.camera = shared.camera BY <1>0, <1>12 DEF Present, StopAsks, SharedMemory
  <2>3. open \in GameCommands /\ open.op = "show" BY <1>0, Numbers
  <2>4. Behind(game_queue', done_fence') BY <1>1, <1>2, <2>1, <2>3
  <2>5. open'.frame = 0 BY <2>1 DEF Plain
  <2> QED BY <1>0, <1>1, <2>1, <2>2, <2>4, <2>5
<1>13. CASE GameGpu
  <2>1. /\ game_queue # <<>> /\ game_queue' = Tail(game_queue)
        /\ UNCHANGED <<gpc, shared, open, frame_index, healthy, done_fence, late, registered, done_event>>
    BY <1>13 DEF GameGpu, clientVars, eventVars, helperGpuVars
  <2>2. /\ Len(game_queue') = Len(game_queue) - 1
        /\ \A i \in 1 .. Len(game_queue) - 1 : game_queue'[i] = game_queue[i + 1]
    BY <1>0, <2>1, Executed
  <2>3. Behind(game_queue', done_fence') BY <1>0, <1>1, <2>1, <2>2
  <2> QED BY <1>1, <2>1, <2>3 DEF Wanted
<1>14. CASE HelperGpu
  <2>1. /\ done_fence < done_fence' /\ done_fence' \in Nat
        /\ UNCHANGED <<gpc, shared, open, frame_index, healthy, late, game_queue>>
    BY <1>14, DoneGrows, Numbers DEF HelperGpu, Types, clientVars, gameGpuVars
  <2>2. /\ done_event' => done_event \/ \E v \in registered : v <= done_fence'
        /\ registered' \subseteq registered
        /\ \A v \in registered' : done_fence' < v
    BY <1>14 DEF HelperGpu
  <2>3. Behind(game_queue', done_fence') BY <1>0, <1>1, <2>1
  <2>4. done_event' => gpc = "waiting" /\ Wanted <= done_fence'
    BY <1>0, <1>1, <2>1, <2>2 DEF Wanted
  <2>5. ~late BY <2>1
  <2>6. /\ shared'.camera <= done_fence' + 2 /\ open'.frame <= done_fence'
        /\ healthy' /\ gpc' \in {"drawing", "handed", "constants", "resolved"} =>
             frame_index' <= done_fence' + 1
        /\ gpc' \in {"submitted", "waiting"} => frame_index' <= done_fence' + 2
    <3>1. \A x \in Nat : /\ x <= done_fence => x <= done_fence'
                         /\ x <= done_fence + 1 => x <= done_fence' + 1
                         /\ x <= done_fence + 2 => x <= done_fence' + 2
      BY <1>0, <2>1, Later
    <3>2. shared.camera <= done_fence' + 2 /\ open.frame <= done_fence'
      BY <1>0, <1>1, <2>5, <3>1
    <3>3. healthy /\ gpc \in {"drawing", "handed", "constants", "resolved"} =>
            frame_index <= done_fence' + 1
      BY <1>0, <1>1, <2>5, <3>1
    <3>4. gpc \in {"submitted", "waiting"} => frame_index <= done_fence' + 2
      BY <1>0, <1>1, <2>5, <3>1
    <3> QED BY <2>1, <3>2, <3>3, <3>4
  <2>7. registered' \subseteq (IF gpc' = "waiting" THEN {Wanted'} ELSE {})
    BY <1>1, <2>1, <2>2, <2>5 DEF Wanted
  <2>8. done_event' => gpc' = "waiting" /\ Wanted' <= done_fence' BY <2>1, <2>4 DEF Wanted
  <2> QED BY <2>2, <2>3, <2>6, <2>7, <2>8
<1>15. CASE \/ PollReady(TRUE) \/ PollReady(FALSE) \/ PollGivesUp \/ Bypass \/ ReadBack
  <2>1. /\ gpc \in {"drawing", "handed"} /\ gpc' \in {"drawing", "resolved"} /\ healthy
        /\ UNCHANGED <<shared, open, frame_index, done_fence, late, game_queue, registered, done_event>>
    BY <1>15 DEF PollReady, PollGivesUp, Bypass, ReadBack, clientVars, eventVars, helperGpuVars,
                 gameGpuVars
  <2> QED BY <1>1, <2>1
<1>16. CASE StopReleases
  <2>1. /\ gpc = "stopping" /\ gpc' = "stopped" /\ ~healthy'
        /\ UNCHANGED <<shared, open, frame_index, done_fence, late, game_queue, registered, done_event>>
    BY <1>16 DEF StopReleases, eventVars, gameGpuVars
  <2> QED BY <1>1, <2>1
<1>17. CASE GameDies
  <2>1. /\ gpc' = "dead" /\ ~healthy' /\ ~done_event' /\ registered' = {} /\ open' = Plain
        /\ game_queue' = <<>> /\ UNCHANGED <<shared, done_fence, late>>
    BY <1>17 DEF GameDies, helperGpuVars
  <2>2. Behind(game_queue', done_fence') /\ open'.frame = 0 BY <2>1 DEF Plain
  <2> QED BY <1>0, <1>1, <2>1, <2>2
<1>18. CASE HelperLoop \/ HelperDies \/ UNCHANGED vars
  <2>1. UNCHANGED <<gpc, open, frame_index, healthy, done_fence, late, game_queue, registered,
                    done_event>>
    BY <1>18 DEF HelperLoop, HelperStarts, TakeFrame, EvaluateSucceeds, EvaluateFails, QueueRefuses,
                 OpensGame, HelperExits, HelperDies, vars, clientVars, eventVars, helperGpuVars,
                 gameGpuVars
  <2>2. shared'.camera = shared.camera
    BY <1>0, <1>18 DEF HelperLoop, HelperStarts, TakeFrame, EvaluateSucceeds, EvaluateFails,
                       QueueRefuses, OpensGame, HelperExits, HelperDies, vars, SharedMemory
  <2> QED BY <1>1, <2>1, <2>2 DEF Wanted
<1> QED BY <1>3, <1>4, <1>5, <1>6, <1>8, <1>9, <1>10, <1>11, <1>12, <1>13, <1>14, <1>15, <1>16,
           <1>17, <1>18 DEF Next, Exchange

-----------------------------------------------------------------------------
\* What is at work has been signalled and is not done.
LEMMA AtWorkBounds ==
  ASSUME Types, HelperQueue, NEW f \in AtWork
  PROVE  f \in Nat /\ done_fence < f /\ f <= ready_fence
<1>0. done_fence \in Nat /\ processed \in Nat /\ wanted \in Nat /\ ready_fence \in Nat
  BY Numbers DEF Types
<1>1. CASE hpc = "recording" /\ f = wanted BY <1>0, <1>1 DEF HelperQueue
<1>2. CASE \E cmd \in ElementsOf(helper_queue) : f = cmd.frame
  <2>1. DOMAIN helper_queue = 1 .. Len(helper_queue) BY DEF Types
  <2>2. PICK i \in 1 .. Len(helper_queue) : f = helper_queue[i].frame
    BY <1>2, <2>1 DEF ElementsOf
  <2>3. f \in Nat BY <2>2, QueueElements
  <2>4. done_fence < f /\ f <= processed BY <2>2 DEF HelperQueue
  <2>5. processed <= ready_fence BY DEF HelperQueue
  <2> HIDE DEF HelperQueue
  <2> QED BY <1>0, <2>3, <2>4, <2>5
<1> QED BY <1>1, <1>2 DEF AtWork

\* The helper takes up a frame that is signalled, and drops what is done.
LEMMA WorkGoesOn ==
  ASSUME Types, [Next]_vars
  PROVE  AtWork' \subseteq AtWork \cup {ready_fence}
<1>1. DOMAIN helper_queue = 1 .. Len(helper_queue) /\ Len(helper_queue) \in Nat BY DEF Types
<1>2. CASE TakeFrame
  <2>1. helper_queue' = helper_queue /\ wanted' = ready_fence
    BY <1>2 DEF TakeFrame, helperGpuVars
  <2> QED BY <2>1 DEF AtWork, ElementsOf
<1>3. CASE EvaluateSucceeds \/ EvaluateFails
  <2>1. PICK c \in HelperCommands :
          /\ c.frame = wanted /\ helper_queue' = Append(helper_queue, c)
          /\ hpc = "recording" /\ hpc' = "polling"
    BY <1>3, Evaluated
  <2>2. ASSUME NEW i \in DOMAIN helper_queue'
        PROVE  helper_queue'[i] \in ElementsOf(helper_queue) \cup {c}
    <3>1. /\ Len(helper_queue') = Len(helper_queue) + 1
          /\ helper_queue'[Len(helper_queue) + 1] = c
          /\ \A j \in 1 .. Len(helper_queue) : helper_queue'[j] = helper_queue[j]
      BY <2>1, Appended DEF Types
    <3>2. i \in 1 .. Len(helper_queue) \/ i = Len(helper_queue) + 1
      <4>1. DOMAIN helper_queue' = 1 .. Len(helper_queue) + 1 BY <2>1 DEF Types
      <4> QED BY <1>1, <2>2, <4>1
    <3> QED BY <1>1, <3>1, <3>2 DEF ElementsOf
  <2>3. ElementsOf(helper_queue)' \subseteq ElementsOf(helper_queue) \cup {c} BY <2>2 DEF ElementsOf
  <2> QED BY <2>1, <2>3 DEF AtWork
<1>4. CASE QueueRefuses \/ OpensGame \/ HelperExits \/ HelperStarts("ready")
           \/ HelperStarts("failed")
  <2>1. helper_queue' = helper_queue /\ hpc' # "recording"
    BY <1>4 DEF QueueRefuses, OpensGame, HelperExits, HelperStarts, helperGpuVars
  <2> QED BY <2>1 DEF AtWork, ElementsOf
<1>5. CASE HelperDies \/ StopReleases
  <2>1. (helper_queue' = helper_queue \/ helper_queue' = <<>>) /\ hpc' # "recording"
    BY <1>5 DEF HelperDies, StopReleases
  <2> QED BY <2>1 DEF AtWork, ElementsOf
<1>6. CASE HelperGpu
  <2>1. helper_queue # <<>> /\ helper_queue' = Tail(helper_queue) /\ UNCHANGED <<hpc, wanted>>
    BY <1>6 DEF HelperGpu, helperVars
  <2>2. ASSUME NEW i \in DOMAIN helper_queue'
        PROVE  helper_queue'[i] \in ElementsOf(helper_queue)
    <3>1. /\ Len(helper_queue') = Len(helper_queue) - 1
          /\ \A j \in 1 .. Len(helper_queue) - 1 : helper_queue'[j] = helper_queue[j + 1]
      BY <2>1, Executed DEF Types
    <3>2. DOMAIN helper_queue' = 1 .. Len(helper_queue) - 1 BY <2>1, <3>1 DEF Types
    <3>3. i + 1 \in DOMAIN helper_queue BY <1>1, <2>2, <3>2
    <3> QED BY <2>2, <3>1, <3>2, <3>3 DEF ElementsOf
  <2>3. ElementsOf(helper_queue)' \subseteq ElementsOf(helper_queue) BY <2>2 DEF ElementsOf
  <2> QED BY <2>1, <2>3 DEF AtWork
<1>7. CASE \/ PollReady(TRUE) \/ PollReady(FALSE) \/ PollGivesUp \/ HandOver \/ Bypass \/ ReadBack
           \/ Exchange \/ StopAsks \/ GameDies \/ GameGpu \/ UNCHANGED vars
  <2>1. UNCHANGED <<wanted, helper_queue, hpc>>
    BY <1>7 DEF PollReady, PollGivesUp, HandOver, Bypass, ReadBack, Exchange, SetCameraConstants,
                SubmitFrame, AcquireNothing, AcquireAtOnce, AcquireWaits, WaitReturns, WaitTimesOut,
                Present, StopAsks, GameDies, GameGpu, vars, helperVars, helperGpuVars
  <2> QED BY <2>1 DEF AtWork, ElementsOf
<1> QED BY <1>2, <1>3, <1>4, <1>5, <1>6, <1>7 DEF Next, HelperLoop

\* What no step takes back, and who writes the slots and the fences.
LEMMA Histories ==
  ASSUME Types, Types', HelperQueue, [Next]_vars
  PROVE  /\ ~late' => ~late
         /\ ~behind' => ~behind
         /\ ~shared'.failed => ~shared.failed
         /\ done_fence <= done_fence'
         /\ GameGpu \/ UNCHANGED <<color_in, ready_fence>>
         /\ HelperGpu \/ UNCHANGED <<color_out, done_fence>>
<1>0. done_fence \in Nat /\ shared \in SharedMemory BY Numbers DEF Types
<1>1. /\ ~late' => ~late
      /\ GameGpu \/ UNCHANGED <<color_in, ready_fence>>
      /\ HelperGpu \/ UNCHANGED <<color_out, done_fence>>
  <2>1. CASE HelperLoop \/ HelperDies \/ UNCHANGED vars
    <3>1. UNCHANGED <<late, color_in, ready_fence, color_out, done_fence>>
      BY <2>1 DEF HelperLoop, HelperStarts, OpensGame, TakeFrame, EvaluateSucceeds, EvaluateFails,
                  QueueRefuses, HelperExits, HelperDies, vars, gameGpuVars, helperGpuVars
    <3> QED BY <3>1
  <2>2. CASE HelperGpu BY <2>2 DEF HelperGpu, gameGpuVars
  <2>3. CASE ~(HelperLoop \/ HelperDies \/ HelperGpu \/ UNCHANGED vars)
    BY <2>3 DEF Next, PollReady, PollGivesUp, HandOver, Bypass, ReadBack, Exchange,
                SetCameraConstants, SubmitFrame, AcquireNothing, AcquireAtOnce, AcquireWaits,
                WaitReturns, WaitTimesOut, Present, StopAsks, StopReleases, GameDies, GameGpu,
                gameGpuVars, helperGpuVars
  <2> QED BY <2>1, <2>2, <2>3
<1>2. ~behind' => ~behind
  <2>1. CASE TakeFrame \/ EvaluateSucceeds \/ EvaluateFails \/ QueueRefuses
    BY <2>1 DEF TakeFrame, EvaluateSucceeds, EvaluateFails, QueueRefuses, ReadConstants
  <2>2. CASE ~(TakeFrame \/ EvaluateSucceeds \/ EvaluateFails \/ QueueRefuses)
    BY <2>2 DEF Next, PollReady, PollGivesUp, HandOver, Bypass, ReadBack, Exchange,
                SetCameraConstants, SubmitFrame, AcquireNothing, AcquireAtOnce, AcquireWaits,
                WaitReturns, WaitTimesOut, Present, StopAsks, StopReleases, GameDies, GameGpu,
                HelperLoop, HelperStarts, OpensGame, HelperExits, HelperDies, HelperGpu, vars,
                helperVars
  <2> QED BY <2>1, <2>2
<1>3. ~shared'.failed => ~shared.failed
  <2>1. CASE EvaluateFails \/ QueueRefuses BY <1>0, <2>1 DEF EvaluateFails, QueueRefuses, SharedMemory
  <2>2. CASE ~(EvaluateFails \/ QueueRefuses)
    BY <1>0, <2>2
       DEF Next, PollReady, PollGivesUp, HandOver, Bypass, ReadBack, Exchange, SetCameraConstants,
           SubmitFrame, Parameters, AcquireNothing, AcquireAtOnce, AcquireWaits, WaitReturns,
           WaitTimesOut, Present, StopAsks, StopReleases, GameDies, GameGpu, HelperLoop,
           HelperStarts, TakeFrame, EvaluateSucceeds, OpensGame, HelperExits, HelperDies,
           HelperGpu, vars,
           SharedMemory
  <2> QED BY <2>1, <2>2
<1>4. done_fence <= done_fence'
  <2>1. CASE HelperGpu
    <3>1. done_fence < done_fence' /\ done_fence' \in Nat BY <2>1, DoneGrows, Numbers DEF Types
    <3> QED BY <1>0, <3>1
  <2>2. CASE UNCHANGED done_fence BY <1>0, <2>2
  <2> QED BY <1>1, <2>1, <2>2
<1> QED BY <1>1, <1>2, <1>3, <1>4

\* The game copies over the inputs of frame f - 2 in frame f: with two slots or
\* more the frame before, which the helper may be at work on, stays.
LEMMA InputsStayKept ==
  ASSUME FrameSlots # 1, Types, Types', GameQueue, HelperQueue, Confirmed, InputsStay, [Next]_vars
  PROVE  InputsStay'
<1> SUFFICES ASSUME ~late', NEW f \in (AtWork \cup {ready_fence})', ~(f <= done_fence')
             PROVE  color_in'[Slot(f)] = f
  BY DEF InputsStay
<1>0. /\ done_fence \in Nat /\ done_fence' \in Nat /\ ready_fence \in Nat /\ ready_fence' \in Nat
      /\ color_in \in [InputSlots -> Frames]
  BY Numbers DEF Types
<1>1. /\ ~late /\ done_fence <= done_fence' /\ AtWork' \subseteq AtWork \cup {ready_fence}
      /\ GameGpu \/ UNCHANGED <<color_in, ready_fence>>
  BY Histories, WorkGoesOn
<1>2. \A g \in AtWork \cup {ready_fence} : g \in Nat /\ (g <= done_fence \/ color_in[Slot(g)] = g)
  <2>1. \A g \in AtWork : g \in Nat BY AtWorkBounds
  <2> QED BY <1>0, <1>1, <2>1 DEF InputsStay
<1>3. ASSUME f \in AtWork \cup {ready_fence}
      PROVE  f \in Nat /\ done_fence < f /\ color_in[Slot(f)] = f
  <2>1. f \in Nat /\ (f <= done_fence \/ color_in[Slot(f)] = f) BY <1>2, <1>3
  <2> QED BY <1>0, <1>1, <2>1
<1>4. CASE UNCHANGED <<color_in, ready_fence>> BY <1>1, <1>3, <1>4
<1>5. CASE GameGpu
  <2> DEFINE c == game_queue[1]
  <2>1. Head(game_queue) = c /\ 1 \in 1 .. Len(game_queue) /\ c.frame \in Nat
    BY <1>5, Executed, QueueElements DEF Types, GameGpu
  <2>2. /\ color_in' = SlotsAfter(color_in, c) /\ ready_fence' = FenceAfter(ready_fence, c)
    BY <1>5, <2>1 DEF GameGpu, SlotsAfter, FenceAfter
  <2>3. /\ c.op = "copy" => \A s \in InputSlots : color_in[s] <= c.frame
        /\ c.op = "ready" => Copied(color_in, game_queue, c.frame, 1)
    BY <2>1 DEF GameQueue, Fits
  <2>4. c.op = "copy" => c.frame <= done_fence + 2 BY <1>1, <2>1 DEF Confirmed
  <2> HIDE DEF c
  <2>5. CASE c.op = "copy"
    <3>1. ready_fence' = ready_fence BY <2>2, <2>5 DEF FenceAfter
    <3>2. f \in Nat /\ done_fence < f /\ color_in[Slot(f)] = f BY <1>1, <1>3, <3>1
    <3>3. Slot(f) \in InputSlots /\ Slot(c.frame) \in InputSlots BY <2>1, <3>2, SlotType
    <3>4. color_in' = [color_in EXCEPT ![Slot(c.frame)] = c.frame] BY <2>2, <2>5 DEF SlotsAfter
    <3>5. f <= c.frame BY <2>3, <2>5, <3>2, <3>3
    <3>6. c.frame = f \/ c.frame = f + 1 BY <1>0, <2>1, <2>4, <2>5, <3>2, <3>5
    <3>7. c.frame = f \/ Slot(c.frame) # Slot(f) BY <3>2, <3>6, SlotsAlternate
    <3> QED BY <1>0, <3>2, <3>3, <3>4, <3>7
  <2>6. CASE c.op = "ready"
    <3>1. color_in' = color_in /\ ready_fence' = c.frame
      BY <2>2, <2>6 DEF SlotsAfter, FenceAfter
    <3>2. color_in[Slot(c.frame)] = c.frame BY <2>3, <2>6 DEF Copied
    <3> QED BY <1>1, <1>3, <3>1, <3>2
  <2>7. CASE c.op \notin {"copy", "ready"}
    <3>1. color_in' = color_in /\ ready_fence' = ready_fence
      BY <2>2, <2>7 DEF SlotsAfter, FenceAfter
    <3> QED BY <1>1, <1>3, <3>1
  <2> QED BY <2>5, <2>6, <2>7
<1> QED BY <1>1, <1>4, <1>5

-----------------------------------------------------------------------------
\* What is in a queue after a command has come or gone.
LEMMA Elements ==
  ASSUME NEW S, NEW q \in Seq(S)
  PROVE  /\ \A c \in S : ElementsOf(Append(q, c)) = ElementsOf(q) \cup {c}
         /\ q # <<>> => ElementsOf(Tail(q)) \subseteq ElementsOf(q)
         /\ ElementsOf(q) = {q[i] : i \in 1 .. Len(q)}
         /\ ElementsOf(<<>>) = {}
<1>1. DOMAIN q = 1 .. Len(q) /\ Len(q) \in Nat OBVIOUS
<1>2. ASSUME NEW c \in S PROVE ElementsOf(Append(q, c)) = ElementsOf(q) \cup {c}
  <2>1. /\ DOMAIN Append(q, c) = 1 .. Len(q) + 1 /\ Append(q, c)[Len(q) + 1] = c
        /\ \A i \in 1 .. Len(q) : Append(q, c)[i] = q[i]
    OBVIOUS
  <2>2. 1 .. Len(q) + 1 = (1 .. Len(q)) \cup {Len(q) + 1} BY <1>1
  <2> QED BY <1>1, <2>1, <2>2 DEF ElementsOf
<1>3. ASSUME q # <<>> PROVE ElementsOf(Tail(q)) \subseteq ElementsOf(q)
  <2>1. /\ DOMAIN Tail(q) = 1 .. Len(q) - 1
        /\ \A i \in 1 .. Len(q) - 1 : Tail(q)[i] = q[i + 1]
    BY <1>3
  <2>2. \A i \in 1 .. Len(q) - 1 : i + 1 \in 1 .. Len(q) BY <1>1
  <2> QED BY <1>1, <2>1, <2>2 DEF ElementsOf
<1>4. ElementsOf(<<>>) = {} BY DEF ElementsOf
<1> QED BY <1>1, <1>2, <1>3, <1>4 DEF ElementsOf

\* The game shows what it has acquired, and nothing else.
LEMMA ShownOnlyAcquired ==
  ASSUME Types, Types', [Next]_vars
  PROVE  \/ Shown' \subseteq Shown
         \/ /\ AcquireAtOnce \/ WaitReturns
            /\ Shown' \subseteq Shown \cup {Wanted} /\ ~shared.failed
<1> DEFINE Showing(c) == c.op = "show" /\ c.frame # 0
           Held == {open} \cup ElementsOf(game_queue)
<1>0. /\ game_queue \in Seq(GameCommands) /\ open \in GameCommands /\ frame_index \in Frames
  BY Numbers DEF Types
<1>1. ~Showing(Plain) /\ \A f : ~Showing(Copy(f)) /\ ~Showing(Ready(f))
  BY DEF Plain, Copy, Ready
<1>2. ASSUME \A c \in Held' : Showing(c) => c \in Held PROVE Shown' \subseteq Shown
  BY <1>2 DEF Shown
<1>3. CASE HandOver
  <2>1. frame_index + 1 \in Frames BY <1>0, <1>3, Numbers DEF HandOver
  <2>2. Copy(frame_index + 1) \in GameCommands BY <2>1, Numbers
  <2>3. game_queue' = Append(game_queue, Copy(frame_index + 1)) /\ open' = open
    BY <1>3 DEF HandOver
  <2>4. ElementsOf(game_queue)' = ElementsOf(game_queue) \cup {Copy(frame_index + 1)}
    BY <1>0, <2>2, <2>3, Elements
  <2> QED BY <1>1, <1>2, <2>3, <2>4
<1>4. ASSUME NEW signalled \in BOOLEAN, SubmitFrame(signalled) PROVE Shown' \subseteq Shown
  <2> DEFINE c == Ready(frame_index + 1)
  <2>1. /\ game_queue' = IF signalled THEN Append(game_queue, c) ELSE game_queue
        /\ open' = open /\ frame_index' = frame_index + 1
    BY <1>4 DEF SubmitFrame
  <2>2. c \in GameCommands BY <2>1, Numbers DEF Types
  <2>3. ElementsOf(game_queue)' \subseteq ElementsOf(game_queue) \cup {c}
    <3> HIDE DEF c
    <3>1. CASE signalled BY <1>0, <2>1, <2>2, <3>1, Elements
    <3>2. CASE ~signalled
      <4>1. game_queue' = game_queue BY <2>1, <3>2
      <4> QED BY <4>1 DEF ElementsOf
    <3> QED BY <3>1, <3>2
  <2> QED BY <1>1, <1>2, <2>1, <2>3
<1>5. CASE Present \/ StopAsks
  <2>1. game_queue' = Append(game_queue, open) /\ open' = Plain BY <1>5 DEF Present, StopAsks
  <2>2. ElementsOf(game_queue)' = ElementsOf(game_queue) \cup {open} BY <1>0, <2>1, Elements
  <2> QED BY <1>1, <1>2, <2>1, <2>2
<1>6. CASE GameGpu
  <2>1. game_queue # <<>> /\ game_queue' = Tail(game_queue) /\ open' = open BY <1>6 DEF GameGpu
  <2>2. ElementsOf(game_queue)' \subseteq ElementsOf(game_queue) BY <1>0, <2>1, Elements
  <2> QED BY <1>1, <1>2, <2>1, <2>2
<1>7. CASE GameDies
  <2>1. game_queue' = <<>> /\ open' = Plain BY <1>7 DEF GameDies
  <2>2. ElementsOf(game_queue)' = {} BY <1>0, <2>1, Elements
  <2> QED BY <1>1, <1>2, <2>1, <2>2
<1>8. CASE AcquireAtOnce \/ WaitReturns
  <2>1. /\ game_queue' = game_queue
        /\ open' = IF shared.failed THEN Plain ELSE Show(Wanted)
    BY <1>8 DEF AcquireAtOnce, WaitReturns, Acquire, gameGpuVars
  <2>2. ElementsOf(game_queue)' = ElementsOf(game_queue) BY <2>1 DEF ElementsOf
  <2>3. CASE shared.failed BY <1>1, <1>2, <2>1, <2>2, <2>3
  <2>4. CASE ~shared.failed
    <3>1. open' = Show(Wanted) BY <2>1, <2>4
    <3>2. \A c \in Held' : c \in Held \/ c.frame = Wanted BY <2>2, <3>1 DEF Show
    <3>3. Shown' \subseteq Shown \cup {Wanted} BY <3>2 DEF Shown
    <3> QED BY <1>8, <2>4, <3>3
  <2> QED BY <2>3, <2>4
<1>9. CASE \/ PollReady(TRUE) \/ PollReady(FALSE) \/ PollGivesUp \/ Bypass \/ ReadBack
           \/ SetCameraConstants \/ AcquireNothing \/ AcquireWaits \/ WaitTimesOut \/ StopReleases
           \/ HelperLoop \/ HelperDies \/ HelperGpu \/ UNCHANGED vars
  <2>1. UNCHANGED <<open, game_queue>>
    BY <1>9 DEF PollReady, PollGivesUp, Bypass, ReadBack, SetCameraConstants, AcquireNothing,
                AcquireWaits, WaitTimesOut, StopReleases, HelperLoop, HelperStarts, TakeFrame,
                EvaluateSucceeds, EvaluateFails, QueueRefuses, OpensGame, HelperExits,
                HelperDies, HelperGpu,
                vars, gameGpuVars
  <2> QED BY <1>2, <2>1 DEF ElementsOf
<1> QED BY <1>3, <1>4, <1>5, <1>6, <1>7, <1>8, <1>9 DEF Next, Exchange

\* The result a frame shows is done, and the next frame at most is signalled.
LEMMA ShownBounds ==
  ASSUME Types, Control, GameQueue, Confirmed, ~late, NEW f \in Shown
  PROVE  f \in Nat \ {0} /\ f <= done_fence /\ ready_fence <= f + 1
<1>0. frame_index \in Nat /\ ready_fence \in Nat /\ game_queue \in Seq(GameCommands)
      /\ open.frame \in Nat
  BY Numbers DEF Types
<1>1. PICK c \in {open} \cup ElementsOf(game_queue) : c.op = "show" /\ c.frame # 0 /\ f = c.frame
  BY DEF Shown
<1>2. CASE c = open
  <2>1. open # Plain BY <1>1, <1>2 DEF Plain
  <2>2. gpc = "resolved" /\ frame_index >= 2 /\ open.frame = frame_index - 1
    BY <2>1 DEF Control, Show, Wanted
  <2>3. ready_fence <= frame_index BY <2>2 DEF GameQueue, Control
  <2>4. open.frame <= done_fence BY DEF Confirmed
  <2> QED BY <1>0, <1>1, <1>2, <2>2, <2>3, <2>4
<1>3. CASE c \in ElementsOf(game_queue)
  <2>1. PICK i \in 1 .. Len(game_queue) : c = game_queue[i] BY <1>0, <1>3, Elements
  <2>2. c.frame \in Nat BY <2>1, QueueElements
  <2>3. c.frame <= done_fence BY <1>1, <2>1 DEF Confirmed
  <2>4. ready_fence <= c.frame + 1 BY <1>1, <2>1 DEF GameQueue, Fits
  <2> QED BY <1>1, <2>2, <2>3, <2>4
<1> QED BY <1>2, <1>3

\* Evaluating frame n writes the slot of n alone, from the inputs of n.
LEMMA EvaluatedInPlace ==
  ASSUME Types, HelperQueue, InStep, InputsStay, ~late, ~behind, HelperGpu
  PROVE  /\ done_fence' = done_fence + 1 /\ done_fence' <= ready_fence
         /\ 1 \in 1 .. Len(helper_queue)
         /\ \A s \in InputSlots : s # Slot(done_fence') => color_out'[s] = color_out[s]
         /\ helper_queue[1].op = "evaluate" => color_out'[Slot(done_fence')] = Good(done_fence')
<1> DEFINE c == helper_queue[1]
<1>0. /\ done_fence \in Nat /\ ready_fence \in Nat /\ helper_queue \in Seq(HelperCommands)
      /\ color_out \in [InputSlots -> Results] /\ helper_queue # <<>>
  BY Numbers DEF Types, HelperGpu
<1>1. Head(helper_queue) = c /\ 1 \in 1 .. Len(helper_queue) /\ c.frame \in Nat
  BY <1>0, Executed, QueueElements
<1>2. c.frame = done_fence + 1 /\ done_fence' = c.frame BY <1>1 DEF InStep, HelperGpu
<1>3. c.frame \in AtWork
  <2>1. c \in ElementsOf(helper_queue) BY <1>0, <1>1, Elements
  <2> QED BY <2>1 DEF AtWork
<1>4. c.frame <= ready_fence BY <1>3, AtWorkBounds
<1>5. color_in[Slot(c.frame)] = c.frame BY <1>0, <1>2, <1>3 DEF InputsStay
<1>6. Slot(c.frame) \in InputSlots BY <1>1, SlotType
<1>7. color_out' = IF c.op = "skip" THEN color_out
                   ELSE [color_out EXCEPT ![Slot(c.frame)] =
                           [frame |-> color_in[Slot(c.frame)], ok |-> c.op = "evaluate"]]
  BY <1>1 DEF HelperGpu
<1> HIDE DEF c
<1>8. \A s \in InputSlots : s # Slot(c.frame) => color_out'[s] = color_out[s] BY <1>0, <1>6, <1>7
<1>9. c.op = "evaluate" => color_out'[Slot(c.frame)] = Good(c.frame)
  BY <1>0, <1>5, <1>6, <1>7 DEF Good
<1> QED BY <1>1, <1>2, <1>4, <1>8, <1>9 DEF c

\* A helper in step overwrites the result of frame f with that of f + 2, when
\* the game has presented the former.
LEMMA ResultsStayKept ==
  ASSUME FrameSlots # 1, Types, Types', Control, GameQueue, HelperQueue, InStep, Confirmed,
         InputsStay, ResultsStay, [Next]_vars
  PROVE  ResultsStay'
<1> DEFINE Last == {f \in {done_fence - 1, done_fence} : f >= 1}
<1> SUFFICES ASSUME ~late', ~behind'
             PROVE  /\ \A f \in Shown' : color_out'[Slot(f)] = Good(f)
                    /\ ~shared'.failed =>
                         /\ \A f \in Last' : color_out'[Slot(f)] = Good(f)
                         /\ \A i \in 1 .. Len(helper_queue') : helper_queue'[i].op = "evaluate"
  BY DEF ResultsStay
<1>0. /\ done_fence \in Nat /\ ready_fence \in Nat /\ frame_index \in Nat
      /\ helper_queue \in Seq(HelperCommands) /\ Len(helper_queue) \in Nat
  BY Numbers, QueueElements DEF Types
<1>1. /\ ~late /\ ~behind /\ (~shared'.failed => ~shared.failed)
      /\ HelperGpu \/ UNCHANGED <<color_out, done_fence>>
  BY Histories
<1>2. /\ \A f \in Shown : color_out[Slot(f)] = Good(f)
      /\ ~shared.failed => /\ \A f \in Last : color_out[Slot(f)] = Good(f)
                           /\ \A i \in 1 .. Len(helper_queue) : helper_queue[i].op = "evaluate"
  BY <1>1 DEF ResultsStay
<1>3. \A f \in Shown : f \in Nat \ {0} /\ f <= done_fence /\ ready_fence <= f + 1
  BY <1>1, ShownBounds
<1>4. CASE HelperGpu
  <2> DEFINE n == done_fence'
  <2>1. /\ n = done_fence + 1 /\ n <= ready_fence /\ 1 \in 1 .. Len(helper_queue)
        /\ \A s \in InputSlots : s # Slot(n) => color_out'[s] = color_out[s]
        /\ helper_queue[1].op = "evaluate" => color_out'[Slot(n)] = Good(n)
    BY <1>1, <1>4, EvaluatedInPlace
  <2>2. ASSUME NEW f \in Nat, f + 1 = n, color_out[Slot(f)] = Good(f)
        PROVE  color_out'[Slot(f)] = Good(f)
    <3>1. Slot(f) # Slot(n) /\ Slot(f) \in InputSlots BY <2>2, SlotsAlternate, SlotType
    <3> QED BY <2>1, <2>2, <3>1
  <2>3. Shown' = Shown
    <3>1. UNCHANGED <<open, game_queue>> BY <1>4 DEF HelperGpu, gameGpuVars
    <3> QED BY <3>1 DEF Shown, ElementsOf
  <2>4. ASSUME NEW f \in Shown' PROVE color_out'[Slot(f)] = Good(f)
    <3>1. f \in Nat /\ f <= done_fence /\ ready_fence <= f + 1 BY <1>3, <2>3
    <3>2. f + 1 = n BY <1>0, <2>1, <3>1
    <3>3. color_out[Slot(f)] = Good(f) BY <1>2, <2>3
    <3> QED BY <2>2, <3>1, <3>2, <3>3
  <2>5. ASSUME ~shared'.failed, NEW f \in Last' PROVE color_out'[Slot(f)] = Good(f)
    <3>1. f = n \/ (f = done_fence /\ f >= 1) BY <1>0, <2>1
    <3>2. CASE f = n BY <1>1, <1>2, <2>1, <2>5, <3>2
    <3>3. CASE f = done_fence /\ f >= 1
      <4>1. f \in Last /\ f \in Nat /\ f + 1 = n BY <1>0, <2>1, <3>3
      <4>2. color_out[Slot(f)] = Good(f) BY <1>1, <1>2, <2>5, <4>1
      <4> QED BY <2>2, <4>1, <4>2
    <3> QED BY <3>1, <3>2, <3>3
  <2>6. ASSUME ~shared'.failed, NEW i \in 1 .. Len(helper_queue')
        PROVE  helper_queue'[i].op = "evaluate"
    <3>1. helper_queue # <<>> /\ helper_queue' = Tail(helper_queue) BY <1>4 DEF HelperGpu
    <3>2. i \in 1 .. Len(helper_queue) - 1 BY <1>0, <2>6, <3>1, Executed
    <3>3. helper_queue'[i] = helper_queue[i + 1] /\ i + 1 \in 1 .. Len(helper_queue)
      BY <1>0, <3>1, <3>2, Executed
    <3> QED BY <1>1, <1>2, <2>6, <3>3
  <2> QED BY <2>4, <2>5, <2>6
<1>5. CASE UNCHANGED <<color_out, done_fence>>
  <2>1. ASSUME ~shared'.failed PROVE \A f \in Last' : color_out'[Slot(f)] = Good(f)
    BY <1>1, <1>2, <1>5, <2>1
  <2>2. ASSUME NEW f \in Shown' PROVE color_out'[Slot(f)] = Good(f)
    <3>1. CASE f \in Shown BY <1>2, <1>5, <3>1
    <3>2. CASE f \notin Shown
      <4>1. (AcquireAtOnce \/ WaitReturns) /\ f = Wanted /\ ~shared.failed
        BY <2>2, <3>2, ShownOnlyAcquired
      <4>2. gpc \in {"submitted", "waiting"} /\ frame_index >= 2 /\ Wanted <= done_fence
        <5>1. CASE AcquireAtOnce BY <1>0, <5>1 DEF AcquireAtOnce, Wanted
        <5>2. CASE WaitReturns BY <1>1, <5>2 DEF WaitReturns, Control, Confirmed
        <5> QED BY <4>1, <5>1, <5>2
      <4>3. done_fence <= frame_index
        <5>1. processed \in Nat BY Numbers DEF Types
        <5>2. done_fence <= processed /\ processed <= ready_fence BY DEF HelperQueue
        <5>3. ready_fence <= frame_index BY <4>2 DEF GameQueue, Control
        <5> QED BY <1>0, <5>1, <5>2, <5>3
      <4>4. f \in Last BY <1>0, <4>1, <4>2, <4>3 DEF Wanted
      <4> QED BY <1>2, <1>5, <4>1, <4>4
    <3> QED BY <3>1, <3>2
  <2>3. ASSUME ~shared'.failed, NEW i \in 1 .. Len(helper_queue')
        PROVE  helper_queue'[i].op = "evaluate"
    <3>1. \A j \in 1 .. Len(helper_queue) : helper_queue[j].op = "evaluate" BY <1>1, <1>2, <2>3
    <3>2. CASE EvaluateSucceeds \/ EvaluateFails
      <4>1. PICK c \in HelperCommands :
              helper_queue' = Append(helper_queue, c) /\ c.op = "evaluate"
        BY <2>3, <3>2, Evaluated
      <4>2. /\ Len(helper_queue') = Len(helper_queue) + 1
            /\ \A j \in 1 .. Len(helper_queue) : helper_queue'[j] = helper_queue[j]
            /\ helper_queue'[Len(helper_queue) + 1] = c
        BY <1>0, <4>1, Appended
      <4>3. i \in 1 .. Len(helper_queue) \/ i = Len(helper_queue) + 1 BY <1>0, <2>3, <4>2
      <4> QED BY <3>1, <4>1, <4>2, <4>3
    <3>3. CASE HelperDies \/ StopReleases
      <4>1. helper_queue' = helper_queue \/ helper_queue' = <<>>
        BY <3>3 DEF HelperDies, StopReleases
      <4> QED BY <2>3, <3>1, <4>1
    <3>4. CASE \/ PollReady(TRUE) \/ PollReady(FALSE) \/ PollGivesUp \/ HandOver \/ Bypass
               \/ ReadBack \/ Exchange \/ StopAsks \/ GameDies \/ GameGpu \/ HelperStarts("ready")
               \/ HelperStarts("failed") \/ TakeFrame \/ QueueRefuses \/ OpensGame \/ HelperExits
               \/ UNCHANGED vars
      <4>1. helper_queue' = helper_queue
        BY <3>4 DEF PollReady, PollGivesUp, HandOver, Bypass, ReadBack, Exchange,
                    SetCameraConstants, SubmitFrame, AcquireNothing, AcquireAtOnce, AcquireWaits,
                    WaitReturns, WaitTimesOut, Present, StopAsks, GameDies, GameGpu, HelperStarts,
                    TakeFrame, QueueRefuses, OpensGame, HelperExits, vars, helperGpuVars
      <4> QED BY <2>3, <3>1, <4>1
    <3>5. ~HelperGpu
      <4>1. ASSUME HelperGpu PROVE done_fence' = done_fence + 1
        BY <1>1, <4>1, EvaluatedInPlace
      <4> QED BY <1>0, <1>5, <4>1
    <3> QED BY <3>2, <3>3, <3>4, <3>5 DEF Next, HelperLoop
  <2> QED BY <2>1, <2>2, <2>3
<1> QED BY <1>1, <1>4, <1>5

-----------------------------------------------------------------------------
\* Of a dead helper nothing comes any more, so each frame handed over to it but
\* the first finds no result: its wait times out, unless the client gives up.
LEMMA OrphansKept ==
  ASSUME Types, Types', Control, GameQueue, HelperQueue, Orphans, [Next]_vars
  PROVE  Orphans'
<1>0. /\ done_fence \in Nat /\ frame_index \in Nat /\ orphaned \in Nat
      /\ consecutive_timeouts \in Nat /\ processed \in Nat /\ ready_fence \in Nat
  BY Numbers, TimeoutsAssumption DEF Types
<1> DEFINE Silent == hpc = "gone" /\ helper_queue = <<>> /\ ~done_event
<1>1. orphaned >= 1 /\ gpc # "dead" =>
        /\ Silent /\ done_fence <= frame_index - orphaned
        /\ healthy /\ gpc \notin {"submitted", "waiting"} => consecutive_timeouts >= orphaned - 1
        /\ gpc \in {"submitted", "waiting"} => consecutive_timeouts >= orphaned - 2
  BY DEF Orphans, HelperIsSilent
<1>2. \/ ~(orphaned' >= 1 /\ gpc' # "dead")
      \/ /\ Silent' /\ done_fence' <= frame_index' - orphaned'
         /\ healthy' /\ gpc' \notin {"submitted", "waiting"} =>
              consecutive_timeouts' >= orphaned' - 1
         /\ gpc' \in {"submitted", "waiting"} => consecutive_timeouts' >= orphaned' - 2
      => Orphans'
  BY DEF Orphans, HelperIsSilent
<1>3. ASSUME NEW signalled \in BOOLEAN, SubmitFrame(signalled) PROVE Orphans'
  <2>1. /\ gpc = "constants" /\ frame_index' = frame_index + 1 /\ healthy' = signalled
        /\ gpc' = IF signalled THEN "submitted" ELSE "resolved"
        /\ orphaned' = IF Silent THEN orphaned + 1 ELSE orphaned
        /\ UNCHANGED <<consecutive_timeouts, hpc, helper_queue, done_event, done_fence>>
    BY <1>3 DEF SubmitFrame, HelperIsSilent, eventVars, helperVars, helperGpuVars
  <2>2. healthy /\ shared.frame = frame_index BY <2>1 DEF Control
  <2>3. done_fence <= frame_index
    <3>1. /\ done_fence <= processed /\ processed <= ready_fence /\ ready_fence <= frame_index
      BY <2>2 DEF HelperQueue, GameQueue
    <3> QED BY <1>0, <3>1
  <2>4. CASE orphaned >= 1
    <3>1. /\ Silent /\ done_fence <= frame_index - orphaned
          /\ consecutive_timeouts >= orphaned - 1
      BY <1>1, <2>1, <2>2, <2>4
    <3>2. orphaned' = orphaned + 1 /\ Silent' BY <2>1, <3>1
    <3> HIDE DEF Silent
    <3> QED BY <1>0, <1>2, <2>1, <3>1, <3>2
  <2>5. CASE orphaned = 0
    <3>1. CASE Silent
      <4>1. orphaned' = 1 /\ Silent' BY <2>1, <2>5, <3>1
      <4> HIDE DEF Silent
      <4> QED BY <1>0, <1>2, <2>1, <2>3, <4>1
    <3>2. CASE ~Silent
      <4>1. orphaned' = 0 BY <2>1, <2>5, <3>2
      <4> QED BY <1>2, <4>1
    <3> QED BY <3>1, <3>2
  <2> QED BY <1>0, <2>4, <2>5
<1>4. CASE AcquireNothing
  <2>1. /\ gpc = "submitted" /\ gpc' = "resolved" /\ frame_index < 2
        /\ UNCHANGED <<frame_index, healthy, orphaned, consecutive_timeouts, hpc, helper_queue,
                       done_event, done_fence>>
    BY <1>4 DEF AcquireNothing, clientVars, eventVars, helperVars, helperGpuVars
  <2>2. orphaned <= frame_index BY <2>1 DEF Control
  <2> QED BY <1>0, <1>1, <1>2, <2>1, <2>2
<1>5. CASE AcquireAtOnce
  <2>1. /\ gpc = "submitted" /\ gpc' = "resolved" /\ done_fence >= frame_index - 1
        /\ consecutive_timeouts' = 0
        /\ UNCHANGED <<frame_index, orphaned, hpc, helper_queue, done_event, done_fence>>
    BY <1>5 DEF AcquireAtOnce, Acquire, Wanted, eventVars, helperVars, helperGpuVars
  <2> QED BY <1>0, <1>1, <1>2, <2>1
<1>6. CASE AcquireWaits
  <2>1. /\ gpc = "submitted" /\ (gpc' = "waiting" \/ (gpc' = "resolved" /\ ~healthy'))
        /\ UNCHANGED <<frame_index, orphaned, consecutive_timeouts, hpc, helper_queue,
                       done_event, done_fence>>
    BY <1>6 DEF AcquireWaits, helperVars, helperGpuVars
  <2> QED BY <1>1, <1>2, <2>1
<1>7. CASE WaitReturns
  <2>1. done_event /\ gpc = "waiting" /\ orphaned' = orphaned BY <1>7 DEF WaitReturns
  <2> QED BY <1>1, <1>2, <2>1
<1>8. CASE WaitTimesOut
  <2>1. /\ gpc = "waiting" /\ gpc' = "resolved"
        /\ consecutive_timeouts' = consecutive_timeouts + 1
        /\ UNCHANGED <<frame_index, orphaned, hpc, helper_queue, done_event, done_fence>>
    BY <1>8 DEF WaitTimesOut, WaitMayTimeOut, eventVars, helperVars, helperGpuVars
  <2> QED BY <1>0, <1>1, <1>2, <2>1
<1>9. CASE GameDies BY <1>2, <1>9 DEF GameDies
<1>10. CASE StopReleases
  <2>1. /\ gpc = "stopping" /\ gpc' = "stopped" /\ ~healthy' /\ hpc' = "gone" /\ helper_queue' = <<>>
        /\ UNCHANGED <<frame_index, orphaned, done_event, done_fence>>
    BY <1>10 DEF StopReleases, eventVars
  <2> QED BY <1>1, <1>2, <2>1
<1>11. CASE HelperLoop \/ HelperDies \/ HelperGpu
  <2>1. UNCHANGED <<gpc, orphaned>>
    BY <1>11 DEF HelperLoop, HelperStarts, TakeFrame, EvaluateSucceeds, EvaluateFails, QueueRefuses,
                 OpensGame, HelperExits, HelperDies, HelperGpu
  <2>2. ~Silent
    BY <1>11 DEF HelperLoop, HelperStarts, TakeFrame, EvaluateSucceeds, EvaluateFails, QueueRefuses,
                 OpensGame, HelperExits, HelperDies, HelperGpu
  <2> QED BY <1>1, <1>2, <2>1, <2>2
<1>12. CASE \/ PollReady(TRUE) \/ PollReady(FALSE) \/ PollGivesUp \/ HandOver \/ Bypass \/ ReadBack
            \/ SetCameraConstants \/ Present \/ StopAsks
  <2>1. /\ gpc \in {"drawing", "handed", "resolved"} /\ gpc' \notin {"submitted", "waiting"}
        /\ (healthy' => healthy)
        /\ UNCHANGED <<frame_index, orphaned, consecutive_timeouts, hpc, helper_queue,
                       done_event, done_fence>>
    BY <1>12 DEF PollReady, PollGivesUp, HandOver, Bypass, ReadBack, SetCameraConstants, Present,
                 StopAsks, clientVars, eventVars, helperVars, helperGpuVars
  <2> QED BY <1>1, <1>2, <2>1
<1>13. CASE GameGpu \/ UNCHANGED vars
  <2>1. UNCHANGED <<gpc, healthy, frame_index, orphaned, consecutive_timeouts, hpc, helper_queue,
                    done_event, done_fence>>
    BY <1>13 DEF GameGpu, vars, clientVars, eventVars, helperVars, helperGpuVars
  <2> QED BY <1>1, <1>2, <2>1
<1> QED BY <1>3, <1>4, <1>5, <1>6, <1>7, <1>8, <1>9, <1>10, <1>11, <1>12, <1>13 DEF Next, Exchange

-----------------------------------------------------------------------------
\* Everything the parties may rely on.  With a single slot the inputs and the
\* results would be overwritten while in use; kFrameSlots is 2
\* (dlss_ipc_protocol.h:36).
Handshake ==
  Types /\ Control /\ Requests /\ GameQueue /\ HelperQueue /\ InStep /\ Confirmed /\ Orphans
Slots == FrameSlots # 1 => InputsStay /\ ResultsStay

\* A new session satisfies the invariant.
LEMMA InitHandshake == Init => Handshake /\ Slots
<1> SUFFICES ASSUME Init PROVE Handshake /\ Slots OBVIOUS
<1> USE DEF Init
<1>1. Types BY InitTypes
<1>2. Control BY <1>1, TimeoutsAssumption DEF Control
<1>3. Requests BY DEF Requests
<1>4. GameQueue BY DEF GameQueue, Fits, InputSlots
<1>5. HelperQueue BY DEF HelperQueue
<1>6. InStep BY DEF InStep
<1>7. Confirmed BY DEF Confirmed, Plain
<1>8. Orphans BY DEF Orphans
<1>9. InputsStay
  <2>1. AtWork = {} BY DEF AtWork, ElementsOf
  <2> QED BY <2>1 DEF InputsStay
<1>10. ResultsStay
  <2>1. Shown = {} BY DEF Shown, ElementsOf, Plain
  <2> QED BY <2>1 DEF ResultsStay
<1> QED BY <1>1, <1>2, <1>3, <1>4, <1>5, <1>6, <1>7, <1>8, <1>9, <1>10 DEF Handshake, Slots

\* Every step keeps it.
LEMMA HandshakeKept == Handshake /\ Slots /\ [Next]_vars => Handshake' /\ Slots'
<1> SUFFICES ASSUME Handshake, Slots, [Next]_vars PROVE Handshake' /\ Slots' OBVIOUS
<1>0. Types /\ Control /\ Requests /\ GameQueue /\ HelperQueue /\ InStep /\ Confirmed /\ Orphans
  BY DEF Handshake
<1>1. Types'
  <2>1. CASE UNCHANGED vars
    BY <1>0, <2>1 DEF Types, vars, clientVars, eventVars, gameGpuVars, helperVars, helperGpuVars,
                      holeVars
  <2> QED BY <1>0, <2>1, GameTypes, OtherTypes DEF Next
<1>2. Control' BY <1>0, <1>1, ControlKept
<1>3. Requests' BY <1>0, <1>1, RequestsKept
<1>4. GameQueue' BY <1>0, <1>1, GameQueueKept
<1>5. HelperQueue' BY <1>0, <1>1, HelperQueueKept
<1>6. InStep' BY <1>0, <1>1, InStepKept
<1>7. Confirmed' BY <1>0, <1>1, ConfirmedKept
<1>8. Orphans' BY <1>0, <1>1, OrphansKept
<1>9. ASSUME FrameSlots # 1 PROVE InputsStay' /\ ResultsStay'
  <2>1. InputsStay /\ ResultsStay BY <1>9 DEF Slots
  <2>2. InputsStay' BY <1>0, <1>1, <1>9, <2>1, InputsStayKept
  <2>3. ResultsStay' BY <1>0, <1>1, <1>9, <2>1, ResultsStayKept
  <2> QED BY <2>2, <2>3
<1> QED BY <1>1, <1>2, <1>3, <1>4, <1>5, <1>6, <1>7, <1>8, <1>9 DEF Handshake, Slots

\* So it holds throughout every session.
LEMMA HandshakeHolds == Spec => [](Handshake /\ Slots)
<1>1. Init => Handshake /\ Slots BY InitHandshake
<1>2. Handshake /\ Slots /\ [Next]_vars => (Handshake /\ Slots)' BY HandshakeKept
<1> QED BY <1>1, <1>2, PTL DEF Spec

-----------------------------------------------------------------------------
\* Every variable of the exchange keeps its type.
THEOREM HandshakeTypes == Spec => []TypeOK
<1>1. Handshake => TypeOK
  <2> SUFFICES ASSUME Handshake PROVE TypeOK OBVIOUS
  <2>1. Types BY DEF Handshake
  <2>2. open \in Commands
    <3>1. open \in [op : {"show"}, frame : Frames] BY <2>1 DEF Types
    <3> QED BY <3>1 DEF Commands
  <2>3. ElementsOf(game_queue) \subseteq Commands
    <3>1. GameCommands \subseteq Commands BY DEF GameCommands, Commands
    <3> QED BY <2>1, <3>1 DEF Types, ElementsOf
  <2>4. ElementsOf(helper_queue) \subseteq Commands
    <3>1. HelperCommands \subseteq Commands BY DEF HelperCommands, Commands
    <3> QED BY <2>1, <3>1 DEF Types, ElementsOf
  <2>5. shared \in SharedMemory /\ color_in \in [InputSlots -> Frames]
        /\ color_out \in [InputSlots -> Results]
    BY <2>1 DEF Types
  <2>6. {open} \cup ElementsOf(game_queue) \cup ElementsOf(helper_queue) \subseteq Commands
    BY <2>2, <2>3, <2>4
  <2>7. /\ {ready, healthy, pending_history_reset, done_event, shim_process, hole, read_back,
            late, behind, blended} \subseteq BOOLEAN
        /\ {frame_index, ready_fence, done_fence, processed, wanted} \subseteq Frames
        /\ registered \cup holes \subseteq Frames
    BY <2>1 DEF Types
  <2>8. /\ gpc \in {"drawing", "handed", "constants", "submitted", "waiting",
                    "resolved", "stopping", "stopped", "dead"}
        /\ hpc \in {"starting", "opening", "polling", "recording", "gone"}
        /\ consecutive_timeouts \in 0 .. MaxConsecutiveTimeouts /\ orphaned \in Frames
    BY <2>1 DEF Types
  <2> QED BY <2>5, <2>6, <2>7, <2>8 DEF TypeOK, SharedMemory, InputSlots, Results
<1> QED BY <1>1, HandshakeHolds, PTL

\* The constants the helper reads, at whatever moment, are those of the frame it
\* has taken or of the next one, never older ones (SubmitFrame stores the frame
\* index last and signals after it; RunDlaaHelper reads after the fence).
THEOREM HandshakeConstants == Spec => []ConstantsAreNeverOld
<1>1. Handshake => ConstantsAreNeverOld
  <2> SUFFICES ASSUME Handshake, hpc = "recording"
               PROVE  /\ shared.camera >= wanted /\ shared.frame >= wanted
                      /\ late \/ shared.camera <= wanted + 1
    BY DEF ConstantsAreNeverOld
  <2>0. /\ wanted \in Nat /\ ready_fence \in Nat /\ processed \in Nat /\ done_fence \in Nat
        /\ shared.camera \in Nat /\ shared.frame \in Nat
    BY Numbers DEF Handshake, Types, SharedMemory
  <2>1. wanted <= ready_fence /\ done_fence <= processed /\ processed < wanted
    BY DEF Handshake, HelperQueue
  <2>2. ready_fence <= shared.frame BY DEF Handshake, GameQueue
  <2>3. shared.frame <= shared.camera BY DEF Handshake, Control
  <2>4. late \/ shared.camera <= done_fence + 2 BY DEF Handshake, Confirmed
  <2> QED BY <2>0, <2>1, <2>2, <2>3, <2>4
<1> QED BY <1>1, HandshakeHolds, PTL

\* Super resolution never blends over a frame it has not seen, as long as it is
\* in step and no back buffer was read (RequestHistoryReset, SubmitFrame).
THEOREM HandshakeHoles == Spec => []HolesAreAnnounced
<1>1. Handshake => HolesAreAnnounced BY DEF Handshake, Requests, HolesAreAnnounced
<1> QED BY <1>1, HandshakeHolds, PTL

\* A helper that has died without a word is given up after as many time-outs as
\* are tolerated, and one frame (AcquirePreviousResult).
THEOREM HandshakeDeadHelper == Spec => []DeadHelperIsDropped
<1>1. Handshake => DeadHelperIsDropped
  <2> SUFFICES ASSUME Handshake, gpc = "drawing", orphaned > MaxConsecutiveTimeouts, healthy
               PROVE  FALSE
    BY DEF DeadHelperIsDropped, Handshake, Types
  <2>0. orphaned \in Nat /\ consecutive_timeouts \in Nat /\ MaxConsecutiveTimeouts \in Nat \ {0}
    BY Numbers, TimeoutsAssumption DEF Handshake, Types
  <2>1. consecutive_timeouts >= orphaned - 1 BY <2>0 DEF Handshake, Orphans
  <2>2. consecutive_timeouts < MaxConsecutiveTimeouts BY DEF Handshake, Control
  <2> QED BY <2>0, <2>1, <2>2
<1> QED BY <1>1, HandshakeHolds, PTL

\* With two slots or more, the inputs of a frame stay in their slot from the
\* helper's first look to its GPU's last, until a wait has timed out
\* ("slot N%2 is only rewritten in frame N+2", dlss_ipc_protocol.h:29-30).
THEOREM HandshakeInputs == FrameSlots # 1 => (Spec => []InputsHeldStill)
<1>1. ASSUME FrameSlots # 1 PROVE Handshake /\ Slots => InputsHeldStill
  <2> SUFFICES ASSUME Handshake, Slots, ~late, NEW f \in AtWork PROVE color_in[Slot(f)] = f
    BY DEF InputsHeldStill
  <2>1. f \in Nat /\ done_fence < f BY AtWorkBounds DEF Handshake
  <2>2. f <= done_fence \/ color_in[Slot(f)] = f BY <1>1 DEF Slots, InputsStay
  <2>3. done_fence \in Nat BY Numbers DEF Handshake, Types
  <2> QED BY <2>1, <2>2, <2>3
<1> SUFFICES ASSUME FrameSlots # 1 PROVE Spec => []InputsHeldStill OBVIOUS
<1>2. Handshake /\ Slots => InputsHeldStill BY <1>1
<1> QED BY <1>2, HandshakeHolds, PTL

\* With two slots or more, what the game shows as the result of frame f is that
\* result, from the acquisition to the copy onto the back buffer, while the
\* helper keeps up (AcquirePreviousResult, RunDlaaExchange).
THEOREM HandshakeResults == FrameSlots # 1 => (Spec => []ResultIsPreviousInStep)
<1> SUFFICES ASSUME FrameSlots # 1 PROVE Spec => []ResultIsPreviousInStep OBVIOUS
<1>1. Handshake /\ Slots => ResultIsPreviousInStep
  BY DEF Slots, ResultsStay, ResultIsPreviousInStep, Good
<1> QED BY <1>1, HandshakeHolds, PTL
===============================================================================
