---------------------------- MODULE DlssHandshake ----------------------------
(***************************************************************************)
(* The game and its upscaling helper, two processes and two GPU queues     *)
(* (src/dlss_client.cpp; RunDlaaExchange of src/device.cpp; RunDlaaHelper  *)
(* of dlaa_helper_main.cpp; dlss_ipc_protocol.h).                          *)
(*                                                                         *)
(* For its frame f the game copies the scene into input slot f % 2, writes *)
(* the constants into shared memory and has its GPU signal ready(f); then  *)
(* it presents the result of frame f - 1, waiting for done(f - 1) on the   *)
(* CPU and no longer than a timeout.  The helper takes the newest frame    *)
(* signalled, reads the constants, evaluates into output slot f % 2 and    *)
(* has its own GPU signal done(f).  It may be slow, fail, hang or die.     *)
(***************************************************************************)
EXTENDS Integers, Sequences, FiniteSets

CONSTANTS
  FrameSlots,             \* kFrameSlots
  MaxConsecutiveTimeouts, \* kMaxConsecutiveTimeouts
  MaxFrame,               \* bound: frames handed over in one session
  Scaled                  \* is the render size smaller than the output's?

ASSUME FrameSlotsAssumption == FrameSlots \in Nat \ {0}
ASSUME TimeoutsAssumption == MaxConsecutiveTimeouts \in Nat \ {0}
ASSUME HandshakeBoundAssumption == MaxFrame \in Nat \ {0}
ASSUME ScaledAssumption == Scaled \in BOOLEAN

VARIABLES
  gpc,                   \* where the game's render thread is
  ready,                 \* ready_
  healthy,               \* healthy_
  frame_index,           \* frame_index_
  consecutive_timeouts,  \* consecutive_timeouts_
  pending_history_reset, \* pending_history_reset_
  done_event,            \* done_event_, an auto-reset event, is set
  registered,            \* fence values it is still to be set for
  open,                  \* the end of the open command list
  game_queue,            \* the game's GPU queue
  shared,                \* the shared memory: camera constants, per-frame
                         \*   parameters, and what the helper reports
  ready_fence, done_fence,
  color_in,              \* per slot: the frame whose inputs it holds
  color_out,             \* per slot: the frame it shows, and whether upscaled
  hpc,                   \* where the helper is
  processed, wanted,     \* the helper's locals
  shim_process,          \* another: it holds a handle to the game's process
  helper_queue,          \* the helper's GPU queue
  hole,                  \* history: a frame has been kept from the helper
                         \*   since the last one handed over
  holes,                 \* history: the frames handed over after such a hole,
                         \*   until they are evaluated
  read_back,             \* history: one of them was the game reading back
  late,                  \* history: a wait for the helper has timed out
  behind,                \* history: the helper has passed over a frame, or
                         \*   read the constants of a later one
  blended,               \* history: it has blended over a hole
  orphaned               \* history: frames handed over to a dead helper of
                         \*   which nothing is left to come

clientVars == <<ready, healthy, frame_index, consecutive_timeouts,
                pending_history_reset>>
eventVars == <<done_event, registered>>
gameGpuVars == <<game_queue, ready_fence, color_in>>
helperVars == <<hpc, processed, wanted, shim_process, behind, blended>>
helperGpuVars == <<helper_queue, done_fence, color_out>>
holeVars == <<hole, holes, read_back>>
vars == <<gpc, clientVars, eventVars, open, gameGpuVars, shared, helperVars,
          helperGpuVars, holeVars, late, orphaned>>

Slot(f) == f % FrameSlots
Copy(f) == [op |-> "copy", frame |-> f]
Ready(f) == [op |-> "ready", frame |-> f]
Show(f) == [op |-> "show", frame |-> f]     \* the end of a frame's list, with
Plain == [op |-> "show", frame |-> 0]       \*   the result of frame f, or without
Evaluate(f) == [op |-> "evaluate", frame |-> f]
Skip(f) == [op |-> "skip", frame |-> f]

-----------------------------------------------------------------------------
\* What Start leaves: new shared memory, textures and fences, and a helper
\* process on its way.  A restart is a Stop and such a new session, which shares
\* nothing with the one before.  The game is drawing a frame.
Init ==
  /\ gpc = "drawing"
  /\ ready = FALSE
  /\ healthy = TRUE
  /\ frame_index = 0
  /\ consecutive_timeouts = 0
  /\ pending_history_reset = TRUE
  /\ shared = [camera |-> 0, frame |-> 0, reset |-> FALSE, failed |-> FALSE,
               status |-> "starting", shutdown_requested |-> FALSE]
  /\ done_event = FALSE
  /\ registered = {}
  /\ open = Plain
  /\ game_queue = <<>>
  /\ ready_fence = 0
  /\ done_fence = 0
  /\ color_in = [s \in 0 .. FrameSlots - 1 |-> 0]
  /\ color_out = [s \in 0 .. FrameSlots - 1 |-> [frame |-> 0, ok |-> TRUE]]
  /\ hpc = "starting"
  /\ processed = 0
  /\ wanted = 0
  /\ shim_process = FALSE
  /\ helper_queue = <<>>
  /\ hole = FALSE
  /\ holes = {}
  /\ read_back = FALSE
  /\ late = FALSE
  /\ behind = FALSE
  /\ blended = FALSE
  /\ orphaned = 0

-----------------------------------------------------------------------------
\* The game.  SubmitAndWait has ended with at most one frame's list unfinished
\* (module FrameLifecycle, two back buffers); a frame begins after that.
Paced == Len(SelectSeq(game_queue, LAMBDA c : c.op = "show")) <= 1

\* PollReady, until it has an answer.  What the helper sees of the shared
\* textures may not match, and its start may take too long.
PollReady(matches) ==
  /\ gpc = "drawing"
  /\ healthy /\ ~ready
  /\ shared.status = "ready"
  /\ ready' = TRUE
  /\ healthy' = matches
  /\ UNCHANGED <<gpc, frame_index, consecutive_timeouts, pending_history_reset,
                 eventVars, open, gameGpuVars, shared, helperVars,
                 helperGpuVars, holeVars, late, orphaned>>

PollGivesUp ==
  /\ gpc = "drawing"
  /\ healthy /\ ~ready
  /\ shared.status # "ready"
  /\ healthy' = FALSE
  /\ UNCHANGED <<gpc, ready, frame_index, consecutive_timeouts,
                 pending_history_reset, eventVars, open, gameGpuVars, shared,
                 helperVars, helperGpuVars, holeVars, late, orphaned>>

\* RunDlaaExchange, the first half: copy into the write slot of the frame to
\* come and flush the list, so that the copies run before what follows.
HandOverAndSignal ==  \* fault: ready is signalled along with the copies
  /\ gpc = "drawing"
  /\ Paced
  /\ healthy /\ ready
  /\ frame_index < MaxFrame
  /\ game_queue' = game_queue \o <<Copy(frame_index + 1), Ready(frame_index + 1)>>
  /\ gpc' = "handed"
  /\ UNCHANGED <<clientVars, eventVars, open, ready_fence, color_in, shared,
                 helperVars, helperGpuVars, holeVars, late, orphaned>>

HandOver ==
  /\ gpc = "drawing"
  /\ Paced
  /\ healthy /\ ready
  /\ frame_index < MaxFrame
  /\ game_queue' = Append(game_queue, Copy(frame_index + 1))
  /\ gpc' = "handed"
  /\ UNCHANGED <<clientVars, eventVars, open, ready_fence, color_in, shared,
                 helperVars, helperGpuVars, holeVars, late, orphaned>>

\* RequestHistoryReset: a frame without a world, a hidden window, a camera
\* RunDlaaExchange refuses.
Bypass ==
  /\ gpc \in {"drawing", "handed"}
  /\ Paced
  /\ healthy /\ ready
  /\ pending_history_reset' = TRUE
  /\ hole' = TRUE
  /\ gpc' = "resolved"
  /\ UNCHANGED <<ready, healthy, frame_index, consecutive_timeouts, eventVars,
                 open, gameGpuVars, shared, helperVars, helperGpuVars, holes,
                 read_back, late, orphaned>>

\* FlushScenePassForBackbufferRead ends the scene pass of the frame without a
\* word to the client.
ReadBack ==
  /\ gpc = "drawing"
  /\ Paced
  /\ healthy /\ ready
  /\ hole' = TRUE
  /\ read_back' = TRUE
  /\ gpc' = "resolved"
  /\ UNCHANGED <<clientVars, eventVars, open, gameGpuVars, shared, helperVars,
                 helperGpuVars, holes, late, orphaned>>

SetCameraConstants ==
  /\ gpc = "handed"
  /\ shared' = [shared EXCEPT !.camera = frame_index + 1]
  /\ gpc' = "constants"
  /\ UNCHANGED <<clientVars, eventVars, open, gameGpuVars, helperVars,
                 helperGpuVars, holeVars, late, orphaned>>

\* The parameters SubmitFrame writes next to the camera.  A definition marked
\* "fault" is a plausible slip in the one that follows, which the properties
\* are tried on.
ParametersAsPassed ==  \* fault: pending_history_reset_ is not merged in
  shared' = [shared EXCEPT !.frame = frame_index + 1, !.reset = FALSE]

Parameters ==
  shared' = [shared EXCEPT !.frame = frame_index + 1,
                           !.reset = pending_history_reset]

HelperIsSilent == hpc = "gone" /\ helper_queue = <<>> /\ ~done_event

\* SubmitFrame; a Signal that fails ends the session.
SubmitFrame(signalled) ==
  /\ gpc = "constants"
  /\ frame_index' = frame_index + 1
  /\ Parameters
  /\ pending_history_reset' = FALSE
  /\ game_queue' = IF signalled THEN Append(game_queue, Ready(frame_index + 1))
                   ELSE game_queue
  /\ healthy' = signalled
  /\ gpc' = IF signalled THEN "submitted" ELSE "resolved"
  /\ holes' = IF hole THEN holes \cup {frame_index + 1} ELSE holes
  /\ hole' = FALSE
  /\ orphaned' = IF HelperIsSilent THEN orphaned + 1 ELSE orphaned
  /\ UNCHANGED <<ready, consecutive_timeouts, eventVars, open, ready_fence,
                 color_in, helperVars, helperGpuVars, read_back, late>>

\* AcquirePreviousResult.
WantedBefore == frame_index - 2  \* fault: one frame too early

Wanted == frame_index - 1

\* Past the wait: a result, unless the helper has reported a failure.
AcquireUnchecked ==  \* fault: failed_frames is not looked at
  /\ consecutive_timeouts' = 0
  /\ healthy' = healthy
  /\ open' = Show(Wanted)

Acquire ==
  /\ consecutive_timeouts' = 0
  /\ healthy' = ~shared.failed
  /\ open' = IF shared.failed THEN Plain ELSE Show(Wanted)

AcquireNothing ==
  /\ gpc = "submitted"
  /\ frame_index < 2
  /\ gpc' = "resolved"
  /\ UNCHANGED <<clientVars, eventVars, open, gameGpuVars, shared, helperVars,
                 helperGpuVars, holeVars, late, orphaned>>

AcquireAtOnce ==
  /\ gpc = "submitted"
  /\ frame_index >= 2
  /\ done_fence >= Wanted
  /\ Acquire
  /\ gpc' = "resolved"
  /\ UNCHANGED <<ready, frame_index, pending_history_reset, eventVars,
                 gameGpuVars, shared, helperVars, helperGpuVars, holeVars,
                 late, orphaned>>

\* SetEventOnCompletion may fail; the event it registers stays registered
\* whether or not the wait times out.
AcquireWaits ==
  /\ gpc = "submitted"
  /\ frame_index >= 2
  /\ done_fence < Wanted
  /\ \/ /\ registered' = registered \cup {Wanted}
        /\ gpc' = "waiting"
        /\ UNCHANGED healthy
     \/ /\ healthy' = FALSE
        /\ gpc' = "resolved"
        /\ UNCHANGED registered
  /\ UNCHANGED <<ready, frame_index, consecutive_timeouts, done_event,
                 pending_history_reset, open, gameGpuVars, shared, helperVars,
                 helperGpuVars, holeVars, late, orphaned>>

WaitReturns ==
  /\ gpc = "waiting"
  /\ done_event
  /\ done_event' = FALSE
  /\ Acquire
  /\ gpc' = "resolved"
  /\ UNCHANGED <<ready, frame_index, pending_history_reset, registered,
                 gameGpuVars, shared, helperVars, helperGpuVars, holeVars,
                 late, orphaned>>

\* Is the helper given up after n timeouts in a row?
TooManyLater(n) == n > MaxConsecutiveTimeouts  \* fault: off by one

TooMany(n) == n >= MaxConsecutiveTimeouts

WaitEndless == FALSE  \* fault: the wait is INFINITE

WaitMayTimeOut == gpc = "waiting" /\ ~done_event

WaitTimesOut ==
  /\ WaitMayTimeOut
  /\ consecutive_timeouts' = consecutive_timeouts + 1
  /\ healthy' = ~TooMany(consecutive_timeouts + 1)
  /\ pending_history_reset' = TRUE
  /\ late' = TRUE
  /\ gpc' = "resolved"
  /\ UNCHANGED <<ready, frame_index, eventVars, open, gameGpuVars, shared,
                 helperVars, helperGpuVars, holeVars, orphaned>>

\* The rest of the frame, up to SubmitAndWait.
Present ==
  /\ gpc = "resolved"
  /\ game_queue' = Append(game_queue, open)
  /\ open' = Plain
  /\ gpc' = "drawing"
  /\ UNCHANGED <<clientVars, eventVars, ready_fence, color_in, shared,
                 helperVars, helperGpuVars, holeVars, late, orphaned>>

\* Stop, from the hotkey, a changed setting or a window shown again: ask the
\* helper to go and wait for the game's own GPU (what that does to the open
\* list is module FrameLifecycle's question), then wait for the helper and
\* terminate it if it has not gone.
StopAsks ==
  /\ gpc \in {"drawing", "resolved"}
  /\ shared' = [shared EXCEPT !.shutdown_requested = TRUE]
  /\ game_queue' = Append(game_queue, open)
  /\ open' = Plain
  /\ gpc' = "stopping"
  /\ UNCHANGED <<clientVars, eventVars, ready_fence, color_in, helperVars,
                 helperGpuVars, holeVars, late, orphaned>>

StopReleases ==
  /\ gpc = "stopping"
  /\ game_queue = <<>>
  /\ hpc' = "gone"
  /\ helper_queue' = <<>>
  /\ ready' = FALSE
  /\ healthy' = FALSE
  /\ gpc' = "stopped"
  /\ UNCHANGED <<frame_index, consecutive_timeouts, pending_history_reset,
                 eventVars, open, gameGpuVars, shared, processed, wanted,
                 shim_process, behind, blended, done_fence, color_out,
                 holeVars, late, orphaned>>

\* The game is killed, and its memory and queue are gone.
GameDies ==
  /\ gpc \notin {"stopped", "dead"}
  /\ gpc' = "dead"
  /\ healthy' = FALSE
  /\ ready' = FALSE
  /\ frame_index' = 0
  /\ consecutive_timeouts' = 0
  /\ pending_history_reset' = FALSE
  /\ done_event' = FALSE
  /\ registered' = {}
  /\ open' = Plain
  /\ game_queue' = <<>>
  /\ UNCHANGED <<ready_fence, color_in, shared, helperVars, helperGpuVars,
                 holeVars, late, orphaned>>

\* The game's GPU executes its next command.
GameGpu ==
  /\ game_queue # <<>>
  /\ game_queue' = Tail(game_queue)
  /\ LET cmd == Head(game_queue)
     IN  /\ color_in' = IF cmd.op = "copy"
                        THEN [color_in EXCEPT ![Slot(cmd.frame)] = cmd.frame]
                        ELSE color_in
         /\ ready_fence' = IF cmd.op = "ready" THEN cmd.frame ELSE ready_fence
  /\ UNCHANGED <<gpc, clientVars, eventVars, open, shared, helperVars,
                 helperGpuVars, holeVars, late, orphaned>>

-----------------------------------------------------------------------------
\* The helper.
HelperStarts(status) ==
  /\ hpc = "starting"
  /\ shared' = [shared EXCEPT !.status = status]
  /\ hpc' = IF status = "ready" THEN "opening" ELSE "gone"
  /\ UNCHANGED <<gpc, clientVars, eventVars, open, gameGpuVars, processed,
                 wanted, shim_process, behind, blended, helperGpuVars,
                 holeVars, late, orphaned>>

\* OpenProcess, after it has reported itself ready: there is nothing to open when
\* the game has died meanwhile, and it may be refused.  The loop begins anyway.
OpensGame ==
  /\ hpc = "opening"
  /\ shim_process' \in {FALSE, gpc # "dead"}
  /\ hpc' = "polling"
  /\ UNCHANGED <<gpc, clientVars, eventVars, open, gameGpuVars, shared,
                 processed, wanted, behind, blended, helperGpuVars, holeVars,
                 late, orphaned>>

\* The top of the loop: shutdown_requested, the game's process handle if any.
NoticesShutdownOnly == shared.shutdown_requested  \* fault: no process handle

Notices == shared.shutdown_requested \/ (shim_process /\ gpc = "dead")

\* The newest signalled frame, not processed + 1; a request to go that arrives
\* during the wait for it is seen only the next time round.
TakeFrame ==
  /\ hpc = "polling"
  /\ ready_fence > processed
  /\ wanted' = ready_fence
  /\ behind' = (behind \/ ready_fence > processed + 1)
  /\ hpc' = "recording"
  /\ UNCHANGED <<gpc, clientVars, eventVars, open, gameGpuVars, shared,
                 processed, shim_process, blended, helperGpuVars, holeVars, late,
                 orphaned>>

\* The frames whose pictures super resolution blends into frame f.
Blends(f) == ~shared.reset /\ (f \in holes \/ processed # f - 1)

\* The constants are read, whatever the game is writing meanwhile.
ReadConstants ==
  /\ behind' = (behind \/ shared.frame # wanted)
  /\ blended' = (blended \/ Blends(wanted))
  /\ holes' = {f \in holes : f > wanted}

\* Evaluate and signal; at equal sizes a failed evaluation is replaced by a
\* copy, otherwise there is nothing to show; a queue that refuses ends it all.
EvaluateSucceeds ==
  /\ hpc = "recording"
  /\ ReadConstants
  /\ helper_queue' = Append(helper_queue, Evaluate(wanted))
  /\ processed' = wanted
  /\ hpc' = "polling"
  /\ UNCHANGED <<gpc, clientVars, eventVars, open, gameGpuVars, shared, wanted,
                 shim_process, done_fence, color_out, hole, read_back, late, orphaned>>

EvaluateFails ==
  /\ hpc = "recording"
  /\ ReadConstants
  /\ shared' = [shared EXCEPT !.failed = TRUE]
  /\ helper_queue' = Append(helper_queue,
                            IF Scaled THEN Skip(wanted) ELSE Copy(wanted))
  /\ processed' = wanted
  /\ hpc' = "polling"
  /\ UNCHANGED <<gpc, clientVars, eventVars, open, gameGpuVars, wanted,
                 shim_process, done_fence, color_out, hole, read_back, late, orphaned>>

QueueRefuses ==
  /\ hpc = "recording"
  /\ ReadConstants
  /\ shared' = [shared EXCEPT !.failed = TRUE]
  /\ hpc' = "gone"
  /\ UNCHANGED <<gpc, clientVars, eventVars, open, gameGpuVars, processed,
                 wanted, shim_process, helperGpuVars, hole, read_back, late, orphaned>>

HelperExits ==
  /\ hpc = "polling"
  /\ Notices
  /\ hpc' = "gone"
  /\ UNCHANGED <<gpc, clientVars, eventVars, open, gameGpuVars, shared,
                 processed, wanted, shim_process, behind, blended, helperGpuVars,
                 holeVars, late, orphaned>>

\* A crash; what its queue still holds may or may not be executed.
HelperDies ==
  /\ hpc # "gone"
  /\ hpc' = "gone"
  /\ helper_queue' \in {helper_queue, <<>>}
  /\ UNCHANGED <<gpc, clientVars, eventVars, open, gameGpuVars, shared,
                 processed, wanted, shim_process, behind, blended, done_fence,
                 color_out, holeVars, late, orphaned>>

\* The helper's GPU executes its next list and the signal behind it, which
\* sets the event for every value registered up to it.
HelperGpu ==
  /\ helper_queue # <<>>
  /\ helper_queue' = Tail(helper_queue)
  /\ LET cmd == Head(helper_queue)
     IN  /\ color_out' =
              IF cmd.op = "skip" THEN color_out
              ELSE [color_out EXCEPT ![Slot(cmd.frame)] =
                      [frame |-> color_in[Slot(cmd.frame)],
                       ok |-> cmd.op = "evaluate"]]
         /\ done_fence' = cmd.frame
         /\ done_event' = (done_event \/ \E v \in registered : v <= cmd.frame)
         /\ registered' = {v \in registered : v > cmd.frame}
  /\ UNCHANGED <<gpc, clientVars, open, gameGpuVars, shared, helperVars,
                 holeVars, late, orphaned>>

-----------------------------------------------------------------------------
Exchange ==
  \/ SetCameraConstants
  \/ \E signalled \in BOOLEAN : SubmitFrame(signalled)
  \/ AcquireNothing
  \/ AcquireAtOnce
  \/ AcquireWaits
  \/ WaitReturns
  \/ WaitTimesOut
  \/ Present

HelperLoop ==
  \/ HelperStarts("ready")
  \/ HelperStarts("failed")
  \/ OpensGame
  \/ TakeFrame
  \/ EvaluateSucceeds
  \/ EvaluateFails
  \/ QueueRefuses
  \/ HelperExits

Next ==
  \/ PollReady(TRUE) \/ PollReady(FALSE) \/ PollGivesUp
  \/ HandOver
  \/ Bypass
  \/ ReadBack
  \/ Exchange
  \/ StopAsks
  \/ StopReleases
  \/ GameDies
  \/ GameGpu
  \/ HelperLoop
  \/ HelperDies
  \/ HelperGpu

Spec == Init /\ [][Next]_vars

\* The game's thread runs and its waits end, its GPU works.  A helper that is
\* scheduled goes round its loop; nothing is assumed of the helper's GPU.
FairSpec ==
  /\ Spec
  /\ WF_vars(Exchange)
  /\ WF_vars(StopReleases)
  /\ WF_vars(GameGpu)
  /\ WF_vars(HelperLoop)

-----------------------------------------------------------------------------
Frames == 0 .. MaxFrame
Commands == [op : {"copy", "ready", "show", "evaluate", "skip"},
             frame : Frames]
ElementsOf(seq) == {seq[i] : i \in DOMAIN seq}

TypeOK ==
  /\ gpc \in {"drawing", "handed", "constants", "submitted", "waiting",
              "resolved", "stopping", "stopped", "dead"}
  /\ hpc \in {"starting", "opening", "polling", "recording", "gone"}
  /\ {ready, healthy, pending_history_reset, done_event, shim_process, hole,
      read_back, late, behind, blended} \subseteq BOOLEAN
  /\ {frame_index, ready_fence, done_fence, processed, wanted} \subseteq Frames
  /\ consecutive_timeouts \in 0 .. MaxConsecutiveTimeouts
  /\ registered \cup holes \subseteq Frames
  /\ shared \in [camera : Frames, frame : Frames, reset : BOOLEAN,
                 failed : BOOLEAN, status : {"starting", "ready", "failed"},
                 shutdown_requested : BOOLEAN]
  /\ color_in \in [0 .. FrameSlots - 1 -> Frames]
  /\ color_out \in [0 .. FrameSlots - 1 -> [frame : Frames, ok : BOOLEAN]]
  /\ {open} \cup ElementsOf(game_queue) \cup ElementsOf(helper_queue)
       \subseteq Commands
  /\ orphaned \in Frames

\* The frames the helper or its GPU is at work on, and the results the game has
\* recorded and not yet presented.
AtWork == {cmd.frame : cmd \in ElementsOf(helper_queue)}
          \cup (IF hpc = "recording" THEN {wanted} ELSE {})
Shown == {cmd.frame : cmd \in {c \in {open} \cup ElementsOf(game_queue) :
                                 c.op = "show" /\ c.frame # 0}}

\* "Slot N%2 is only rewritten in frame N+2, and frame N+1 has already confirmed
\* that frame N finished" (dlss_ipc_protocol.h): the inputs of a frame stay put
\* from the helper's first look to its GPU's last, unless a wait has timed out,
\* after which nothing confirms anything.
InputsHeldStill ==
  late \/ gpc = "dead" \/ \A f \in AtWork : color_in[Slot(f)] = f

\* AcquirePreviousResult: "the finished result of the *previous* frame, or
\* nullptr if the helper has not got there yet" (dlss_client.h).  From the call
\* to the copy onto the back buffer, the output slot holds that result.
\* Refuted when the helper has passed over a frame.
ResultIsPrevious == \A f \in Shown : color_out[Slot(f)].frame = f

\* The same, and that no failed frame is ever presented, as long as the helper
\* keeps up: no wait has timed out and no frame was passed over.
ResultIsPreviousInStep ==
  late \/ behind \/ \A f \in Shown : color_out[Slot(f)] = [frame |-> f, ok |-> TRUE]

\* "The helper treats a new frame_index as 'everything else in this struct is
\* now valid for that frame'" (SubmitFrame): whenever the helper may read the
\* constants, they are those of the frame it has taken, or already those of the
\* next one, or partly both; never those of a frame before.
ConstantsAreNeverOld ==
  hpc = "recording" =>
    /\ shared.camera >= wanted
    /\ shared.frame >= wanted
    /\ late \/ shared.camera <= wanted + 1

\* "A frame the upscaler never saw is a hole in its history; say so"
\* (SubmitAndWait): super resolution never blends over one, unless the helper
\* is behind, so that the parameters of the frame after have replaced the
\* request, or the game has read back a frame.
HolesAreAnnounced == blended => behind \/ read_back

\* A helper that dies after it was ready is noticed by timeouts alone: once
\* nothing of it is left to come, one frame may find an old result or ask for
\* none, and MaxConsecutiveTimeouts later the client has given it up.
DeadHelperIsDropped ==
  gpc = "drawing" /\ orphaned > MaxConsecutiveTimeouts => ~healthy

\* An allocator "still backs the commands just submitted, which the GPU has not
\* finished" (FlushCommandListNoFence): the helper resets its only one when it
\* takes a frame, so nothing it has recorded may be left for its GPU by then.
\* Refuted: it does not wait.
HelperAllocatorIsIdle ==
  hpc = "recording" => \A cmd \in ElementsOf(helper_queue) : cmd.op = "skip"

\* "The game's GPU queue never waits on the helper" (dlss_client.h): whatever
\* the helper and its GPU do, a frame that has begun the exchange is presented
\* (unless the game dies).
FramesFinish ==
  gpc \in {"handed", "constants", "submitted", "waiting", "resolved"} ~>
    gpc \in {"drawing", "stopping", "dead"}

\* The helper does not outlive the game, whether it is asked to go or the game
\* is gone without a word ("Orphans were observed accumulating", RunDlaaHelper).
\* Excepted is a game that dies before the helper has opened its process, or
\* whose process it could not open: of its end the helper never hears.
HelperEnds ==
  shared.shutdown_requested \/ (shim_process /\ gpc = "dead") ~> hpc = "gone"
=============================================================================
