------------------------------- MODULE ScenePass -------------------------------
(***************************************************************************)
(* Where a frame is drawn and how it gets to the screen.  While the scene  *)
(* pass is open the game draws into a texture of the shim's own, smaller   *)
(* than the back buffer if the upscaler is to enlarge it; the pass ends at *)
(* the first 2D draw after a 3D one, when the game reads the back buffer,  *)
(* or at Present, by copying the scene to the back buffer or by handing it *)
(* to the upscaler and showing the result of the frame before.             *)
(***************************************************************************)
EXTENDS Naturals, Sequences

CONSTANTS Cameras,    \* values of the game's view and projection
          Flat,       \* those among them that have no inverse and show no view
          None,
          MaxDraws    \* bound of the model: changes between 3D and 2D on a picture

ASSUME CamerasAssumption == Flat \subseteq Cameras /\ None \notin Cameras \cup {"own", "scene"}

VARIABLES
  config,           \* TemporalAA, whether RenderScale is below 1, MotionVectors
  frame,            \* the scene pass and what the frame has drawn, see Init
  helper,           \* the upscaler as PollReady sees it
  started           \* dlss_started_mode_, dlss_started_render_width_

vars == <<config, frame, helper, started>>

\* A surface is the sequence of marks "3d", "2d" that draws have left on it; what
\* earlier frames left below them is not kept.
Result == <<"result">>  \* the upscaler's picture of the frame handed over before
NoInputs == [fresh |-> FALSE, now |-> None, before |-> None, depth |-> None, off_screen |-> FALSE]

NewFrame ==
  [scene_pass_active |-> FALSE, frame_had_3d_draw |-> FALSE,
   off_screen |-> FALSE,                \* bound_render_target_ is set
   depth |-> "own",                     \* bound_depth_target_: the device's, or none
   small |-> FALSE,                     \* scene_render_scale_ is below 1
   frame_camera |-> None,               \* frame_view_proj_, while captured
   prev |-> None,                       \* prev_view_proj_, if has_prev_view_proj_
   scene |-> <<>>, back_buffer |-> <<>>,
   inputs |-> NoInputs,                 \* motion_vector_tex_ and depth_copy_tex_
   \* history
   expected |-> <<>>,                   \* what the game has drawn since it cleared
   depths |-> {},                       \* the depth buffers its 3D draws used in the pass
   recorded |-> None, last |-> None,    \* cameras recorded in this frame, in the one before
   hole |-> "none",                     \* frames since the last handed over: "announced", "read" back, "silent"
   submitted |-> "no",                  \* handed over, perhaps "over a hole" the upscaler was not told of
   read |-> FALSE, rebuilt |-> FALSE, presented |-> FALSE]

Init ==
  /\ config \in [aa : 0 .. 2, small : BOOLEAN, motion : {TRUE}]
  /\ frame = [NewFrame EXCEPT !.scene_pass_active = config.aa # 0, !.small = config.aa # 0 /\ config.small]
  /\ helper = "none" /\ started = <<0, FALSE>>

-----------------------------------------------------------------------------
\* CurrentDepthTarget
CurrentDepth(f) ==
  IF f.scene_pass_active /\ ~f.off_screen /\ f.small /\ f.depth # None THEN "scene" ELSE f.depth

\* A draw or a Clear goes to CurrentColorTarget().  Draws of a kind one after
\* the other leave one mark.
Painted(s, mark) ==
  IF mark = "clear" THEN <<>> ELSE IF s # <<>> /\ s[Len(s)] = mark THEN s ELSE Append(s, mark)
OnTarget(f, mark) ==
  IF f.off_screen THEN f
  ELSE IF f.scene_pass_active
  THEN [f EXCEPT !.expected = Painted(@, mark), !.scene = Painted(@, mark)]
  ELSE [f EXCEPT !.expected = Painted(@, mark), !.back_buffer = Painted(@, mark)]

\* ResolveScenePass: copied, or scaled if the sizes differ.
ResolvedAnyway(f) ==  \* fault: the flag is not looked at
  [f EXCEPT !.scene_pass_active = FALSE, !.back_buffer = f.scene]
Resolved(f) ==
  IF ~f.scene_pass_active THEN f
  ELSE [f EXCEPT !.scene_pass_active = FALSE, !.back_buffer = f.scene]

\* RecordMotionVectorPass
Compared(f) ==
  IF f.frame_camera \in Flat THEN [f EXCEPT !.prev = None, !.recorded = f.frame_camera]
  ELSE IF f.prev = None THEN [f EXCEPT !.prev = f.frame_camera, !.recorded = f.frame_camera]
  ELSE [f EXCEPT !.inputs = [fresh |-> TRUE, now |-> f.frame_camera, before |-> f.prev,
                              depth |-> CurrentDepth(f), off_screen |-> f.off_screen],
                 !.prev = f.frame_camera, !.recorded = f.frame_camera]
RecordedAnyway(f, motion) ==  \* fault: recorded whether or not the pass is open
  IF ~motion \/ f.frame_camera = None \/ CurrentDepth(f) = None THEN f ELSE Compared(f)
Recorded(f, motion) ==
  IF ~motion \/ ~f.scene_pass_active \/ f.frame_camera = None \/ CurrentDepth(f) = None THEN f ELSE Compared(f)

\* RunDlaaExchange: the inputs go to the helper with the constants of the
\* camera, unless it shows no view, and the result of the frame before is shown
\* if the helper has delivered one.
HandedOver(f) ==
  [f EXCEPT !.submitted = IF f.hole = "silent" THEN "over a hole" ELSE "yes", !.hole = "none"]
Exchanged(f, delivered) ==
  IF f.frame_camera \in Flat THEN [Resolved(f) EXCEPT !.hole = "announced"]
  ELSE IF ~delivered THEN Resolved(HandedOver(f))
  ELSE [HandedOver(f) EXCEPT !.scene_pass_active = FALSE, !.back_buffer = Result, !.expected = Result]

\* PollReady: a starting helper may have become ready or failed, a ready one
\* stays so until time-outs have had it dropped.
Polls(h) == IF h = "starting" THEN {"starting", "ready", "none"}
            ELSE IF h = "ready" THEN {"ready", "none"} ELSE {h}

\* The pass ends, by way of the helper when it polls as ready.
Ended(f, polled, delivered) ==
  IF polled = "ready" THEN Exchanged(f, delivered) ELSE Resolved(f)

-----------------------------------------------------------------------------
\* The game, and mods that change settings.
Drawing == ~frame.presented

SetRenderTarget(off, depth) ==
  /\ Drawing
  /\ ~off => depth = "own"
  /\ frame' = [frame EXCEPT !.off_screen = off, !.depth = depth] /\ frame' # frame
  /\ UNCHANGED <<config, helper, started>>

Clear ==
  /\ Drawing
  /\ frame' = OnTarget(frame, "clear") /\ frame' # frame
  /\ UNCHANGED <<config, helper, started>>

\* PrepareDrawCall starts with CaptureFrameCamera, which keeps the camera the
\* game has set by then if it is the frame's first, and EndScenePassIfDrawIsUi.
Captured(f, c) == IF f.frame_camera = None THEN [f EXCEPT !.frame_camera = c] ELSE f
\* Which camera is set matters to the first draw only.
CameraSet(c) == frame.frame_camera \in {None, c}

Draw3D(c) ==
  /\ Drawing /\ CameraSet(c)
  /\ Len(frame.expected) < MaxDraws
  /\ LET f == [Captured(frame, c) EXCEPT !.frame_had_3d_draw = TRUE]
         g == IF f.scene_pass_active /\ ~f.off_screen THEN [f EXCEPT !.depths = @ \cup {CurrentDepth(f)}] ELSE f
     IN frame' = OnTarget(g, "3d")
  /\ UNCHANGED <<config, helper, started>>

EndsPassNever(f) == FALSE  \* fault: 2D draws stay in the scene
EndsPass(f) == f.scene_pass_active /\ f.frame_had_3d_draw
Draw2D(c) ==
  /\ Drawing /\ CameraSet(c) /\ ~EndsPass(frame) /\ Len(frame.expected) < MaxDraws
  /\ frame' = OnTarget(Captured(frame, c), "2d")
  /\ UNCHANGED <<config, helper, started>>
DrawUi(polled, delivered) ==
  /\ Drawing /\ EndsPass(frame) /\ Len(frame.expected) < MaxDraws
  /\ polled \in Polls(helper) /\ helper' = polled
  /\ frame' = OnTarget(Ended(Recorded(frame, config.motion), polled, delivered), "2d")
  /\ UNCHANGED <<config, started>>

\* FlushScenePassForBackbufferRead: LockRect of the back buffer, CopyRects from it.
ReadBackBuffer ==
  /\ Drawing
  /\ frame' = [Resolved(frame) EXCEPT !.read = TRUE]
  /\ UNCHANGED <<config, helper, started>>

\* SetConfigValueInt and SetConfigValueBool.  The settings are looked at when the
\* pass ends: when in the frame before they change matters not.
FrameBegins == Drawing /\ frame.frame_camera = None
SetTemporalAA(v) ==
  /\ FrameBegins /\ config' = [config EXCEPT !.aa = v, !.motion = @ \/ v # 0] /\ config' # config
  /\ UNCHANGED <<frame, helper, started>>
SetMotionVectors(on) ==
  /\ FrameBegins /\ config' = [config EXCEPT !.motion = on] /\ config' # config
  /\ UNCHANGED <<frame, helper, started>>

-----------------------------------------------------------------------------
\* PollGraphicsHotkey: F5 goes round off, DLAA, DLSS and has the scene's
\* resources made anew.
NextConfig == IF config.aa = 0 THEN [aa |-> 1, small |-> FALSE, motion |-> TRUE]
              ELSE IF ~config.small THEN [aa |-> 2, small |-> TRUE, motion |-> TRUE]
              ELSE [config EXCEPT !.aa = 0, !.small = FALSE]
\* RecreateSceneScaleResources
Recreated(f, c) ==
  [f EXCEPT !.small = c.aa # 0 /\ c.small, !.scene = <<>>, !.inputs = NoInputs,
            !.prev = None, !.last = None, !.rebuilt = f.scene_pass_active]

\* A frame that is not handed over is a hole in the upscaler's history; when
\* there was no world in it, or the window is hidden, it is announced.
AnnouncesHidden(f, visible) == ~visible  \* fault: frames without a world are not announced
Announces(f, visible) == ~visible \/ (f.scene_pass_active /\ ~f.frame_had_3d_draw)
HoleAfter(f, h, announced) ==
  IF h # "ready" THEN "none"
  ELSE IF announced \/ f.hole = "announced" THEN "announced"
  ELSE IF f.submitted # "no" THEN "none"
  ELSE IF f.read \/ f.hole = "read" THEN "read" ELSE "silent"

\* SubmitAndWait up to the swap chain's Present.  The helper is
\* started, restarted or stopped for the settings, and restarted on F8 or when
\* the window has been up for a while after a Reset; a hidden or minimised
\* window's frame is withheld.
Present(f5, restart, visible, delivered) ==
  LET c == IF f5 THEN NextConfig ELSE config
      f == Recorded(IF f5 THEN Recreated(frame, c) ELSE frame, c.motion)
      h == IF restart \/ (<<c.aa, f.small>> # started /\ c.aa # 0) THEN "starting"
           ELSE IF c.aa = 0 /\ started[1] # 0 THEN "none" ELSE helper
      offered == f.scene_pass_active /\ f.frame_had_3d_draw /\ visible
      g == IF h = "ready" THEN f ELSE [f EXCEPT !.hole = "none"]
  IN /\ Drawing /\ (restart => c.aa # 0)
     /\ \E polled \in IF offered THEN Polls(h) ELSE {h} :
          LET ended == Ended(g, IF offered THEN polled ELSE "none", delivered)
          IN /\ helper' = polled
             /\ frame' = [ended EXCEPT !.presented = TRUE, !.hole = HoleAfter(ended, polled, Announces(f, visible))]
     /\ config' = c /\ started' = <<c.aa, f.small>>

\* The rest of SubmitAndWait: a new frame begins.
Opens(f) == config.aa # 0 /\ f.frame_had_3d_draw
BeginFrame ==
  /\ frame.presented
  /\ frame' = [NewFrame EXCEPT
        !.scene_pass_active = Opens(frame), !.off_screen = frame.off_screen, !.depth = frame.depth,
        !.small = frame.small, !.prev = frame.prev, !.hole = frame.hole,
        !.last = IF frame.recorded = None THEN frame.last
                 ELSE IF frame.recorded \in Flat THEN None ELSE frame.recorded]
  /\ UNCHANGED <<config, helper, started>>

\* Reset: what was drawn is not shown.
Reset ==
  /\ Drawing
  /\ frame' = [NewFrame EXCEPT !.scene_pass_active = config.aa # 0, !.small = config.aa # 0 /\ config.small,
                               !.hole = IF helper = "ready" THEN "announced" ELSE "none"]
  /\ UNCHANGED <<config, helper, started>>

Next ==
  \/ BeginFrame \/ Clear \/ ReadBackBuffer \/ Reset
  \/ \E c \in Cameras : Draw3D(c) \/ Draw2D(c)
  \/ \E off \in BOOLEAN, depth \in {"own", None} : SetRenderTarget(off, depth)
  \/ \E polled \in {"none", "starting", "ready"}, delivered \in BOOLEAN : DrawUi(polled, delivered)
  \/ \E v \in 0 .. 2 : SetTemporalAA(v)
  \/ \E on \in BOOLEAN : SetMotionVectors(on)
  \/ \E f5, restart, visible, delivered \in BOOLEAN : Present(f5, restart, visible, delivered)
Spec == Init /\ [][Next]_vars

-----------------------------------------------------------------------------
Surfaces == Seq({"3d", "2d", "result"})
Depths == {"own", "scene", None}
Cams == Cameras \cup {None}
InputRecords == [fresh : BOOLEAN, now : Cams, before : Cams, depth : Depths, off_screen : BOOLEAN]
Frames ==
  [scene_pass_active : BOOLEAN, frame_had_3d_draw : BOOLEAN, off_screen : BOOLEAN, depth : {"own", None},
   small : BOOLEAN, frame_camera : Cams, prev : Cams, scene : Surfaces, back_buffer : Surfaces,
   inputs : InputRecords, expected : Surfaces, depths : SUBSET Depths, recorded : Cams, last : Cams,
   hole : {"none", "announced", "read", "silent"}, submitted : {"no", "yes", "over a hole"},
   read : BOOLEAN, rebuilt : BOOLEAN, presented : BOOLEAN]

TypeOK ==
  /\ config \in [aa : 0 .. 2, small : BOOLEAN, motion : BOOLEAN]
  /\ frame \in Frames
  /\ helper \in {"none", "starting", "ready"} /\ started \in (0 .. 2) \X BOOLEAN

\* Whichever way the pass ended, what is shown and what the game reads back is
\* the picture it has drawn since it cleared, each draw once and in order, the
\* upscaler's result standing for the scene it has replaced ("expects it to
\* contain everything drawn so far", FlushScenePassForBackbufferRead).  A frame
\* at whose Present F5 is pressed loses what is still in the scene's texture.
ThePictureIsComplete ==
  ~frame.scene_pass_active /\ ~frame.rebuilt => frame.back_buffer = frame.expected

\* The upscaler is given a frame with a world, in which no 2D draw follows a 3D
\* one (EndScenePassIfDrawIsUi), and shows no other.
UpscalerGetsTheScene ==
  frame.submitted # "no" =>
    /\ frame.frame_had_3d_draw
    /\ \A i, j \in DOMAIN frame.scene : i < j /\ frame.scene[i] = "3d" => frame.scene[j] = "3d"

\* Motion vectors handed over relate the camera of their frame to that of the
\* frame before, never a frame to itself (RecordMotionVectorPass), and come from
\* the depth buffer the world was drawn with, unless an off-screen target was
\* bound when the pass ended.  They are an older frame's if there was nothing
\* to compare with, no depth was bound, or MotionVectors was off.
MotionIsOfThisFrame ==
  frame.submitted # "no" /\ frame.inputs.fresh =>
    /\ frame.inputs.now = frame.frame_camera /\ frame.inputs.before = frame.last
    /\ frame.inputs.off_screen \/ frame.depths \subseteq {frame.inputs.depth}

\* The upscaler hears of every frame it has not been given, those apart that the
\* game has read back ("A frame the upscaler never saw is a hole in its
\* history; say so", SubmitAndWait).
SceneHolesAreAnnounced == frame.submitted # "over a hole"

\* clip_to_prev_clip is "Where a point at this frame's clip position was in the
\* previous frame's clip space" (dlss_ipc_protocol.h): the constants handed over
\* are made from the camera of the frame before.  RunDlaaExchange makes them
\* from prev_view_proj_.
ExchangeUsesPreviousCamera ==
  frame.submitted # "no" /\ frame.inputs.fresh => frame.prev = frame.last
==============================================================================
