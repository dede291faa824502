---------------------------- MODULE ScenePass_proof ----------------------------
(***************************************************************************)
(* What a frame of ScenePass shows and what the upscaler is given, for any *)
(* cameras and any number of draws.  The invariant is a conjunction of     *)
(* predicates on the frame, so that it can be followed through the         *)
(* operators a step is made of: Recreated, Recorded, Ended, OnTarget.      *)
(***************************************************************************)
EXTENDS ScenePass, TLAPS

\* The scene's texture while the pass is open, the back buffer after it, holds
\* what the game has drawn.
Pictured(f) ==
  ~f.rebuilt => f.expected = IF f.scene_pass_active THEN f.scene ELSE f.back_buffer

\* In the scene no 2D draw follows a 3D one, and only a frame with a 3D draw is
\* handed over.
Sorted(f) ==
  /\ \A i, j \in DOMAIN f.scene : i < j /\ f.scene[i] = "3d" => f.scene[j] = "3d"
  /\ ~f.frame_had_3d_draw => \A i \in DOMAIN f.scene : f.scene[i] # "3d"
  /\ f.submitted # "no" => f.frame_had_3d_draw

\* Until the frame is recorded prev is the camera of the frame before, or none;
\* from then on its own, and the inputs made in it stay.
Paired(f) ==
  /\ f.recorded = None => f.prev \in {None, f.last} /\ ~f.inputs.fresh
  /\ f.recorded # None => /\ f.recorded = f.frame_camera /\ f.prev \in {None, f.recorded}
                          /\ f.recorded \in Flat => f.prev = None
  /\ f.inputs.fresh => /\ f.inputs.now = f.frame_camera /\ f.inputs.before = f.last
                       /\ f.inputs.off_screen \/ f.depths \subseteq {f.inputs.depth}
  /\ ~f.off_screen => f.depth = "own"

\* While the pass is open nothing has been recorded, and all 3D draws have used
\* one depth buffer, which F5 may replace.
Open(f) ==
  f.scene_pass_active =>
    /\ f.recorded = None
    /\ ~f.rebuilt => f.depths \subseteq {IF f.small THEN "scene" ELSE "own"}

Good(f) == f \in Frames /\ Pictured(f) /\ Sorted(f) /\ Paired(f) /\ Open(f)

IInv ==
  /\ config \in [aa : 0 .. 2, small : BOOLEAN, motion : BOOLEAN]
  /\ helper \in {"none", "starting", "ready"} /\ started \in (0 .. 2) \X BOOLEAN
  /\ Good(frame)
  /\ frame.rebuilt => frame.presented  \* F5 is pressed at Present only
-----------------------------------------------------------------------------
\* A surface that is cleared or drawn on is a surface.
LEMMA PaintedSurface ==
  ASSUME NEW s \in Surfaces, NEW mark \in {"clear", "3d", "2d"}
  PROVE  /\ Painted(s, mark) \in Surfaces
         /\ mark = "clear" => Painted(s, mark) = <<>>
         /\ mark # "clear" => Painted(s, mark) \in {s, Append(s, mark)}
BY DEF Painted, Surfaces

\* The back buffer after the pass is the scene.
LEMMA ResolvedGood ==
  ASSUME NEW f, f \in Frames, Pictured(f), Sorted(f), Paired(f)
  PROVE  LET r == Resolved(f)
         IN  Good(r) /\ ~r.scene_pass_active /\ r.frame_had_3d_draw = f.frame_had_3d_draw
               /\ r.rebuilt = f.rebuilt /\ r.hole = f.hole
<1> DEFINE r == Resolved(f)
<1>1. r \in Frames BY ZenonT(120) DEF Frames, Resolved
<1>2. Pictured(r) BY DEF Frames, Resolved, Pictured
<1>3. Sorted(r) BY DEF Frames, Resolved, Sorted
<1>4. Paired(r) BY DEF Frames, Resolved, Paired
<1>5. ~r.scene_pass_active BY DEF Frames, Resolved
<1>6. r.frame_had_3d_draw = f.frame_had_3d_draw /\ r.rebuilt = f.rebuilt /\ r.hole = f.hole
  BY DEF Frames, Resolved
<1>7. Open(r) BY <1>5 DEF Open
<1> QED BY <1>1, <1>2, <1>3, <1>4, <1>5, <1>6, <1>7 DEF Good

\* Inputs made by RecordMotionVectorPass are those of the frame it runs in.
LEMMA RecordedGood ==
  ASSUME NEW f, NEW motion, Good(f), f.rebuilt => f.prev = None
  PROVE  LET r == Recorded(f, motion)
         IN  /\ r \in Frames /\ Pictured(r) /\ Sorted(r) /\ Paired(r)
             /\ r.rebuilt = f.rebuilt /\ r.frame_had_3d_draw = f.frame_had_3d_draw
<1> DEFINE r == Recorded(f, motion)
<1>1. CASE ~motion \/ ~f.scene_pass_active \/ f.frame_camera = None \/ CurrentDepth(f) = None
  BY <1>1 DEF Recorded, Good
<1>2. CASE ~(~motion \/ ~f.scene_pass_active \/ f.frame_camera = None \/ CurrentDepth(f) = None)
  <2>1. r = Compared(f) BY <1>2 DEF Recorded
  <2>2. f.recorded = None /\ f.frame_camera \in Cameras /\ ~f.inputs.fresh
    BY <1>2 DEF Good, Frames, Open, Paired, Cams
  <2>3. f \in Frames /\ Pictured(f) /\ Sorted(f) /\ Paired(f) BY DEF Good
  <2> DEFINE inputs == [fresh |-> TRUE, now |-> f.frame_camera, before |-> f.prev,
                        depth |-> CurrentDepth(f), off_screen |-> f.off_screen]
             plain(prev) == [f EXCEPT !.prev = prev, !.recorded = f.frame_camera]
             fresh == [f EXCEPT !.inputs = inputs, !.prev = f.frame_camera, !.recorded = f.frame_camera]
  <2>4. \/ f.frame_camera \in Flat /\ r = plain(None)
        \/ f.frame_camera \notin Flat /\ f.prev = None /\ r = plain(f.frame_camera)
        \/ f.frame_camera \notin Flat /\ f.prev # None /\ r = fresh
    BY <2>1 DEF Compared
  <2>6. f.prev # None /\ ~f.off_screen => f.depths \subseteq {CurrentDepth(f)}
    BY <1>2, CamerasAssumption DEF Good, Frames, Open, Paired, CurrentDepth
  <2>7. ASSUME NEW prev \in {None, f.frame_camera}, f.frame_camera \in Flat => prev = None
        PROVE  /\ plain(prev) \in Frames /\ Pictured(plain(prev)) /\ Sorted(plain(prev)) /\ Paired(plain(prev))
               /\ plain(prev).rebuilt = f.rebuilt /\ plain(prev).frame_had_3d_draw = f.frame_had_3d_draw
    <3>1. plain(prev) \in Frames BY ZenonT(60), <2>2, <2>3, <2>7 DEF Frames, Cams
    <3>2. Pictured(plain(prev)) BY <2>3 DEF Frames, Pictured
    <3>3. Sorted(plain(prev)) BY ZenonT(120), <2>3 DEF Frames, Sorted
    <3>4. Paired(plain(prev)) BY <2>2, <2>3, <2>7, CamerasAssumption DEF Frames, Paired
    <3>5. plain(prev).rebuilt = f.rebuilt /\ plain(prev).frame_had_3d_draw = f.frame_had_3d_draw
      BY <2>3 DEF Frames
    <3> QED BY <3>1, <3>2, <3>3, <3>4, <3>5
  <2>8. ASSUME f.frame_camera \notin Flat, f.prev # None
        PROVE  /\ fresh \in Frames /\ Pictured(fresh) /\ Sorted(fresh) /\ Paired(fresh)
               /\ fresh.rebuilt = f.rebuilt /\ fresh.frame_had_3d_draw = f.frame_had_3d_draw
    <3>1. CurrentDepth(f) \in Depths BY <2>3 DEF CurrentDepth, Depths, Frames
    <3>2. inputs \in InputRecords BY <2>2, <2>3, <3>1 DEF Frames, InputRecords, Cams
    <3>3. f.prev = f.last BY <2>2, <2>3, <2>8 DEF Paired
    <3>4. inputs.off_screen \/ f.depths \subseteq {inputs.depth} BY <2>6, <2>8
    <3>5. inputs.fresh /\ inputs.now = f.frame_camera /\ inputs.before = f.last BY <3>3
    <3> HIDE DEF inputs
    <3>6. fresh \in Frames BY ZenonT(60), <2>2, <2>3, <3>2 DEF Frames, Cams
    <3>7. Pictured(fresh) BY <2>3 DEF Frames, Pictured
    <3>8. Sorted(fresh) BY ZenonT(120), <2>3 DEF Frames, Sorted
    <3>9. Paired(fresh) BY <2>2, <2>3, <2>8, <3>4, <3>5, CamerasAssumption DEF Frames, Paired
    <3>10. fresh.rebuilt = f.rebuilt /\ fresh.frame_had_3d_draw = f.frame_had_3d_draw
      BY <2>3 DEF Frames
    <3> QED BY <3>6, <3>7, <3>8, <3>9, <3>10
  <2>9. CASE r = plain(None) /\ f.frame_camera \in Flat BY <2>7, <2>9
  <2>10. CASE r = plain(f.frame_camera) /\ f.frame_camera \notin Flat BY <2>7, <2>10
  <2>11. CASE r = fresh /\ f.frame_camera \notin Flat /\ f.prev # None BY <2>8, <2>11
  <2> QED BY <2>4, <2>9, <2>10, <2>11
<1> QED BY <1>1, <1>2

\* The pass has ended whichever way it took; a frame is handed over only if it
\* holds a 3D draw.
LEMMA EndedGood ==
  ASSUME NEW f, NEW polled, NEW delivered,
         f \in Frames, Pictured(f), Sorted(f), Paired(f),
         polled = "ready" => f.frame_had_3d_draw
  PROVE  LET e == Ended(f, polled, delivered)
         IN  Good(e) /\ ~e.scene_pass_active /\ e.frame_had_3d_draw = f.frame_had_3d_draw
               /\ e.rebuilt = f.rebuilt
<1> DEFINE e == Ended(f, polled, delivered)
<1>1. CASE polled # "ready"
  <2>1. e = Resolved(f) BY <1>1 DEF Ended
  <2> QED BY <2>1, ResolvedGood
<1>2. CASE polled = "ready" /\ f.frame_camera \in Flat
  <2> DEFINE r == Resolved(f)
  <2>1. e = [r EXCEPT !.hole = "announced"] BY <1>2 DEF Ended, Exchanged
  <2>2. /\ r \in Frames /\ Pictured(r) /\ Sorted(r) /\ Paired(r) /\ ~r.scene_pass_active
        /\ r.frame_had_3d_draw = f.frame_had_3d_draw /\ r.rebuilt = f.rebuilt
    BY ResolvedGood DEF Good
  <2> HIDE DEF r, e
  <2>3. e \in Frames BY <2>1, <2>2 DEF Frames
  <2>4. Pictured(e) BY <2>1, <2>2 DEF Frames, Pictured
  <2>5. Sorted(e) BY ZenonT(120), <2>1, <2>2 DEF Frames, Sorted
  <2>6. Paired(e) BY <2>1, <2>2 DEF Frames, Paired
  <2>7. ~e.scene_pass_active /\ e.frame_had_3d_draw = f.frame_had_3d_draw /\ e.rebuilt = f.rebuilt
    BY <2>1, <2>2 DEF Frames
  <2> QED BY <2>3, <2>4, <2>5, <2>6, <2>7 DEF Good, Open, e
<1>3. CASE polled = "ready" /\ f.frame_camera \notin Flat
  <2> DEFINE h == HandedOver(f)
  <2>1. h \in Frames BY DEF HandedOver, Frames
  <2>2. Pictured(h) BY DEF HandedOver, Frames, Pictured
  <2>3. Sorted(h) BY ZenonT(120), <1>3 DEF HandedOver, Frames, Sorted
  <2>4. Paired(h) BY DEF HandedOver, Frames, Paired
  <2>5. h.frame_had_3d_draw = f.frame_had_3d_draw /\ h.rebuilt = f.rebuilt BY DEF HandedOver, Frames
  <2>6. CASE ~delivered
    <3>1. e = Resolved(h) BY <1>3, <2>6 DEF Ended, Exchanged
    <3> QED BY <3>1, <2>1, <2>2, <2>3, <2>4, <2>5, ResolvedGood
  <2>7. CASE delivered
    <3>1. e = [h EXCEPT !.scene_pass_active = FALSE, !.back_buffer = Result, !.expected = Result]
      BY <1>3, <2>7 DEF Ended, Exchanged
    <3>2. Result \in Surfaces BY DEF Result, Surfaces
    <3> HIDE DEF h, e
    <3>3. e \in Frames BY <2>1, <3>1, <3>2 DEF Frames
    <3>4. Pictured(e) BY <2>1, <2>2, <3>1 DEF Frames, Pictured
    <3>5. Sorted(e)
      <4>1. /\ e.scene = h.scene /\ e.submitted = h.submitted
            /\ e.frame_had_3d_draw = h.frame_had_3d_draw
        BY <2>1, <3>1 DEF Frames
      <4> QED BY <2>3, <4>1 DEF Sorted
    <3>6. Paired(e) BY <2>1, <2>4, <3>1 DEF Frames, Paired
    <3>7. ~e.scene_pass_active /\ e.frame_had_3d_draw = f.frame_had_3d_draw /\ e.rebuilt = f.rebuilt
      BY <2>1, <2>5, <3>1 DEF Frames
    <3> QED BY <3>3, <3>4, <3>5, <3>6, <3>7 DEF Good, Open, e
  <2> QED BY <2>6, <2>7
<1> QED BY <1>1, <1>2, <1>3

\* A 2D draw does not go into a scene with 3D draws in it.
LEMMA PaintedSorted ==
  ASSUME NEW s \in Surfaces, NEW had \in BOOLEAN, NEW mark \in {"clear", "3d", "2d"},
         \A i, j \in DOMAIN s : i < j /\ s[i] = "3d" => s[j] = "3d",
         ~had => \A i \in DOMAIN s : s[i] # "3d",
         mark = "3d" => had, mark = "2d" => ~had
  PROVE  LET p == Painted(s, mark)
         IN  /\ \A i, j \in DOMAIN p : i < j /\ p[i] = "3d" => p[j] = "3d"
             /\ ~had => \A i \in DOMAIN p : p[i] # "3d"
<1> DEFINE p == Painted(s, mark)
<1>1. CASE p = <<>> BY <1>1
<1>2. CASE p = s BY <1>2
<1>3. CASE p = Append(s, mark) /\ mark # "clear"
  <2>1. /\ Len(s) \in Nat /\ DOMAIN s = 1 .. Len(s) /\ DOMAIN p = 1 .. Len(s) + 1
        /\ \A i \in DOMAIN s : p[i] = s[i]
        /\ p[Len(s) + 1] = mark
    BY <1>3 DEF Surfaces
  <2>2. \A i \in DOMAIN p : i \in DOMAIN s \/ i = Len(s) + 1 BY <2>1
  <2> HIDE DEF p
  <2>3. ASSUME NEW i \in DOMAIN p, NEW j \in DOMAIN p, i < j, p[i] = "3d"
        PROVE  p[j] = "3d"
    <3>1. i \in DOMAIN s /\ s[i] = "3d" BY <2>1, <2>2, <2>3
    <3>2. had /\ mark = "3d" BY <1>3, <3>1
    <3>3. CASE j \in DOMAIN s BY <2>1, <2>3, <3>1, <3>3
    <3>4. CASE j = Len(s) + 1 BY <2>1, <3>2, <3>4
    <3> QED BY <2>2, <3>3, <3>4
  <2>4. ASSUME ~had, NEW i \in DOMAIN p
        PROVE  p[i] # "3d"
    <3>1. mark # "3d" BY <2>4
    <3> QED BY <2>1, <2>2, <2>4, <3>1
  <2> QED BY <2>3, <2>4 DEF p
<1> QED BY <1>1, <1>2, <1>3, PaintedSurface

\* A draw or a Clear keeps the scene and the back buffer what the game expects.
LEMMA OnTargetGood ==
  ASSUME NEW f, NEW mark \in {"clear", "3d", "2d"}, Good(f), ~f.rebuilt,
         mark = "3d" => f.frame_had_3d_draw,
         mark = "2d" => ~(f.scene_pass_active /\ f.frame_had_3d_draw)
  PROVE  Good(OnTarget(f, mark))
<1> DEFINE t == OnTarget(f, mark)
<1>1. f \in Frames /\ Pictured(f) /\ Sorted(f) /\ Paired(f) /\ Open(f) BY DEF Good
<1>2. /\ f.scene \in Surfaces /\ f.back_buffer \in Surfaces /\ f.expected \in Surfaces
      /\ f.frame_had_3d_draw \in BOOLEAN /\ f.off_screen \in BOOLEAN /\ f.scene_pass_active \in BOOLEAN
  BY <1>1 DEF Frames
<1>3. CASE f.off_screen BY <1>3 DEF OnTarget
<1>4. CASE ~f.off_screen /\ f.scene_pass_active
  <2> DEFINE s == Painted(f.scene, mark)
             x == Painted(f.expected, mark)
  <2>1. t = [f EXCEPT !.expected = x, !.scene = s] BY <1>1, <1>4 DEF OnTarget, Frames
  <2>2. x \in Surfaces /\ s \in Surfaces BY <1>2, PaintedSurface
  <2>3. x = s BY <1>1, <1>4 DEF Pictured
  <2>4. /\ \A i, j \in DOMAIN s : i < j /\ s[i] = "3d" => s[j] = "3d"
        /\ ~f.frame_had_3d_draw => \A i \in DOMAIN s : s[i] # "3d"
    BY <1>1, <1>2, <1>4, PaintedSorted DEF Sorted
  <2> HIDE DEF s, x, t
  <2>5. t \in Frames BY <1>1, <2>1, <2>2 DEF Frames
  <2>6. Pictured(t) BY <1>1, <1>4, <2>1, <2>3 DEF Frames, Pictured
  <2>7. Sorted(t) BY ZenonT(120), <1>1, <2>1, <2>4 DEF Frames, Sorted
  <2>8. Paired(t) BY <1>1, <2>1 DEF Frames, Paired
  <2>9. Open(t) BY <1>1, <2>1 DEF Frames, Open
  <2> QED BY <2>5, <2>6, <2>7, <2>8, <2>9 DEF Good, t
<1>5. CASE ~f.off_screen /\ ~f.scene_pass_active
  <2> DEFINE b == Painted(f.back_buffer, mark)
             x == Painted(f.expected, mark)
  <2>1. t = [f EXCEPT !.expected = x, !.back_buffer = b] BY <1>1, <1>5 DEF OnTarget, Frames
  <2>2. x \in Surfaces /\ b \in Surfaces BY <1>2, PaintedSurface
  <2>3. x = b BY <1>1, <1>5 DEF Pictured
  <2> HIDE DEF b, x, t
  <2>5. t \in Frames BY <1>1, <2>1, <2>2 DEF Frames
  <2>6. Pictured(t) BY <1>1, <1>5, <2>1, <2>3 DEF Frames, Pictured
  <2>7. Sorted(t) BY ZenonT(120), <1>1, <2>1 DEF Frames, Sorted
  <2>8. Paired(t) BY <1>1, <2>1 DEF Frames, Paired
  <2>9. Open(t) BY <1>1, <2>1 DEF Frames, Open
  <2> QED BY <2>5, <2>6, <2>7, <2>8, <2>9 DEF Good, t
<1> QED BY <1>2, <1>3, <1>4, <1>5

\* Drawing makes nothing anew.
LEMMA OnTargetRebuilt ==
  ASSUME NEW f, NEW mark, f \in Frames
  PROVE  OnTarget(f, mark).rebuilt = f.rebuilt
BY DEF OnTarget, Frames

\* The frame's first draw keeps its camera.
LEMMA CapturedGood ==
  ASSUME NEW f, NEW c \in Cameras, Good(f)
  PROVE  LET g == Captured(f, c)
         IN  Good(g) /\ g.rebuilt = f.rebuilt /\ g.scene_pass_active = f.scene_pass_active
               /\ g.frame_had_3d_draw = f.frame_had_3d_draw
<1> DEFINE g == Captured(f, c)
<1>1. f \in Frames /\ Pictured(f) /\ Sorted(f) /\ Paired(f) /\ Open(f) BY DEF Good
<1>2. CASE f.frame_camera # None BY <1>2 DEF Captured
<1>3. CASE f.frame_camera = None
  <2>1. g = [f EXCEPT !.frame_camera = c] BY <1>3 DEF Captured
  <2>2. f.recorded = None BY <1>1, <1>3 DEF Paired
  <2> HIDE DEF g
  <2>3. g \in Frames BY <1>1, <2>1 DEF Frames, Cams
  <2>4. Pictured(g) BY <1>1, <2>1 DEF Frames, Pictured
  <2>5. Sorted(g) BY ZenonT(40), <1>1, <2>1 DEF Frames, Sorted
  <2>6. Paired(g) BY <1>1, <2>1, <2>2 DEF Frames, Paired
  <2>7. Open(g) BY <1>1, <2>1 DEF Frames, Open
  <2>8. /\ g.rebuilt = f.rebuilt /\ g.scene_pass_active = f.scene_pass_active
        /\ g.frame_had_3d_draw = f.frame_had_3d_draw
    BY <1>1, <2>1 DEF Frames
  <2> QED BY <2>3, <2>4, <2>5, <2>6, <2>7, <2>8 DEF Good, g
<1> QED BY <1>2, <1>3
\* F5 empties the scene's texture and leaves nothing to compare with.
LEMMA RecreatedGood ==
  ASSUME NEW f, NEW c \in [aa : 0 .. 2, small : BOOLEAN, motion : BOOLEAN], Good(f), ~f.rebuilt
  PROVE  Good(Recreated(f, c)) /\ Recreated(f, c).prev = None
<1> DEFINE r == Recreated(f, c)
<1>1. f \in Frames /\ Pictured(f) /\ Sorted(f) /\ Paired(f) /\ Open(f) BY DEF Good
<1> DEFINE small == c.aa # 0 /\ c.small
<1>2. r = [f EXCEPT !.small = small, !.scene = <<>>, !.inputs = NoInputs,
                    !.prev = None, !.last = None, !.rebuilt = f.scene_pass_active]
  BY <1>1 DEF Recreated
<1>3. small \in BOOLEAN /\ <<>> \in Surfaces BY DEF Surfaces
<1>4. NoInputs \in InputRecords /\ ~NoInputs.fresh BY DEF NoInputs, InputRecords, Cams, Depths
<1> HIDE DEF r, small
<1>5. r \in Frames BY ZenonT(60), <1>1, <1>2, <1>3, <1>4 DEF Frames, Cams
<1>6. Pictured(r) BY <1>1, <1>2 DEF Frames, Pictured
<1>7. Sorted(r)
  <2>1. r.scene = <<>> /\ r.submitted = f.submitted /\ r.frame_had_3d_draw = f.frame_had_3d_draw
    BY <1>1, <1>2 DEF Frames
  <2> QED BY <1>1, <2>1 DEF Sorted
<1>8. Paired(r) BY <1>1, <1>2, <1>4 DEF Frames, Paired
<1>9. Open(r) /\ r.prev = None BY <1>1, <1>2 DEF Frames, Open
<1> QED BY <1>5, <1>6, <1>7, <1>8, <1>9 DEF Good, r

\* A frame begins with nothing drawn, whatever it takes over from the one before.
Blank(f) ==
  /\ ~f.frame_had_3d_draw /\ f.scene = <<>> /\ f.back_buffer = <<>> /\ f.expected = <<>>
  /\ f.inputs = NoInputs /\ f.depths = {} /\ f.recorded = None /\ f.submitted = "no"
  /\ ~f.rebuilt

\* What NewFrame stands for is such a frame.
LEMMA NewFrameBlank == NewFrame \in Frames /\ Blank(NewFrame)
<1>1. <<>> \in Surfaces BY DEF Surfaces
<1>2. NoInputs \in InputRecords BY DEF NoInputs, InputRecords, Cams, Depths
<1> QED BY <1>1, <1>2 DEF NewFrame, Frames, Cams, Blank

\* A blank frame is good if it compares with the frame before or with none.
LEMMA BlankGood ==
  ASSUME NEW f, f \in Frames, Blank(f), f.prev \in {None, f.last}, ~f.off_screen => f.depth = "own"
  PROVE  Good(f) /\ ~f.rebuilt
<1>1. ~NoInputs.fresh BY DEF NoInputs
<1>2. Pictured(f) BY DEF Blank, Pictured
<1>3. Sorted(f) BY DEF Blank, Sorted
<1>4. Paired(f) BY <1>1 DEF Blank, Paired
<1>5. Open(f) BY DEF Blank, Open
<1> QED BY <1>2, <1>3, <1>4, <1>5 DEF Good, Blank

\* Init and Reset.
LEMMA FirstFrame ==
  ASSUME NEW active \in BOOLEAN, NEW small \in BOOLEAN, NEW hole \in {"none", "announced", "read", "silent"},
         NEW f, f = [NewFrame EXCEPT !.scene_pass_active = active, !.small = small, !.hole = hole]
  PROVE  Good(f) /\ ~f.rebuilt
<1>1. f \in Frames BY ZenonT(40), NewFrameBlank DEF Frames
<1>2. Blank(f) BY NewFrameBlank DEF Frames, Blank
<1>3. NewFrame.prev = None /\ NewFrame.last = None /\ ~NewFrame.off_screen /\ NewFrame.depth = "own"
  BY DEF NewFrame
<1>4. f.prev = None /\ f.last = None /\ ~f.off_screen /\ f.depth = "own"
  BY <1>3, NewFrameBlank DEF Frames
<1> QED BY <1>1, <1>2, <1>4, BlankGood

-----------------------------------------------------------------------------
\* IInv holds when the program starts.
LEMMA InitInv == Init => IInv
<1> SUFFICES ASSUME Init PROVE IInv OBVIOUS
<1>1. config \in [aa : 0 .. 2, small : BOOLEAN, motion : BOOLEAN] BY DEF Init
<1> DEFINE active == config.aa # 0
           small == config.aa # 0 /\ config.small
<1>2. frame = [NewFrame EXCEPT !.scene_pass_active = active, !.small = small] BY DEF Init
<1>3. active \in BOOLEAN /\ small \in BOOLEAN OBVIOUS
<1> HIDE DEF active, small
<1> DEFINE hole == NewFrame.hole
<1>4. hole \in {"none", "announced", "read", "silent"} BY DEF NewFrame
<1>5. frame = [NewFrame EXCEPT !.scene_pass_active = active, !.small = small, !.hole = hole]
  BY <1>2, NewFrameBlank DEF Frames
<1> HIDE DEF hole
<1>6. Good(frame) /\ ~frame.rebuilt BY <1>3, <1>4, <1>5, FirstFrame
<1>7. helper = "none" /\ started = <<0, FALSE>> BY DEF Init
<1>8. started \in (0 .. 2) \X BOOLEAN
  <2>1. 0 \in 0 .. 2 OBVIOUS
  <2> QED BY <1>7, <2>1, Zenon
<1> QED BY <1>1, <1>6, <1>7, <1>8 DEF IInv

\* F5 leads from settings to settings.
LEMMA NextConfigType ==
  ASSUME config \in [aa : 0 .. 2, small : BOOLEAN, motion : BOOLEAN]
  PROVE  NextConfig \in [aa : 0 .. 2, small : BOOLEAN, motion : BOOLEAN]
<1>1. CASE config.aa = 0 \/ ~config.small BY <1>1 DEF NextConfig
<1>2. CASE ~(config.aa = 0 \/ ~config.small)
  <2>1. NextConfig = [aa |-> 0, small |-> FALSE, motion |-> config.motion]
    BY <1>2 DEF NextConfig
  <2> QED BY <2>1
<1> QED BY <1>1, <1>2

\* Present, whether or not F5 is pressed and the helper takes the frame.
LEMMA PresentInv ==
  ASSUME IInv, NEW f5 \in BOOLEAN, NEW restart \in BOOLEAN, NEW visible \in BOOLEAN,
         NEW delivered \in BOOLEAN, Present(f5, restart, visible, delivered)
  PROVE  IInv'
<1> DEFINE c == IF f5 THEN NextConfig ELSE config
           b == IF f5 THEN Recreated(frame, c) ELSE frame
           f == Recorded(b, c.motion)
           h == IF restart \/ (<<c.aa, f.small>> # started /\ c.aa # 0) THEN "starting"
                ELSE IF c.aa = 0 /\ started[1] # 0 THEN "none" ELSE helper
           offered == f.scene_pass_active /\ f.frame_had_3d_draw /\ visible
           g == IF h = "ready" THEN f ELSE [f EXCEPT !.hole = "none"]
           ended(polled) == Ended(g, IF offered THEN polled ELSE "none", delivered)
           after(polled) == HoleAfter(ended(polled), polled, Announces(f, visible))
<1>1. Good(frame) /\ ~frame.rebuilt BY DEF IInv, Present, Drawing
<1>2. c \in [aa : 0 .. 2, small : BOOLEAN, motion : BOOLEAN] BY NextConfigType DEF IInv
<1>3. Good(b) /\ (b.rebuilt => b.prev = None)
  <2> HIDE DEF c
  <2> QED BY <1>1, <1>2, RecreatedGood
<1>4. f \in Frames /\ Pictured(f) /\ Sorted(f) /\ Paired(f)
  <2> HIDE DEF b, c
  <2> QED BY <1>3, RecordedGood
<1>5. g \in Frames /\ Pictured(g) /\ Sorted(g) /\ Paired(g) /\ (offered => g.frame_had_3d_draw)
  <2> HIDE DEF f, h
  <2>2. CASE h = "ready" BY <1>4, <2>2
  <2>3. CASE h # "ready"
    <3>1. g = [f EXCEPT !.hole = "none"] BY <2>3
    <3> HIDE DEF g
    <3>2. g \in Frames /\ g.frame_had_3d_draw = f.frame_had_3d_draw BY <1>4, <3>1 DEF Frames
    <3>3. Pictured(g) BY <1>4, <3>1 DEF Frames, Pictured
    <3>4. Sorted(g) BY ZenonT(40), <1>4, <3>1 DEF Frames, Sorted
    <3>5. Paired(g) BY <1>4, <3>1 DEF Frames, Paired
    <3> QED BY <3>2, <3>3, <3>4, <3>5
  <2> QED BY <2>2, <2>3
<1>6. h \in {"none", "starting", "ready"} BY DEF IInv
<1>7. PICK polled \in IF offered THEN Polls(h) ELSE {h} :
        /\ helper' = polled
        /\ frame' = [ended(polled) EXCEPT !.presented = TRUE, !.hole = after(polled)]
  BY DEF Present
<1>8. polled \in {"none", "starting", "ready"} BY <1>6 DEF Polls
<1>9. Good(ended(polled)) /\ ~ended(polled).scene_pass_active
  <2> HIDE DEF g, offered
  <2> QED BY <1>5, EndedGood
<1>10. after(polled) \in {"none", "announced", "read", "silent"} BY DEF HoleAfter
<1>11. Good(frame') /\ frame'.presented
  <2> DEFINE e == ended(polled)
             hole == after(polled)
  <2>1. frame' = [e EXCEPT !.presented = TRUE, !.hole = hole] BY <1>7
  <2>2. e \in Frames /\ Pictured(e) /\ Sorted(e) /\ Paired(e) /\ ~e.scene_pass_active
    BY <1>9 DEF Good
  <2>3. hole \in {"none", "announced", "read", "silent"} BY <1>10
  <2> HIDE DEF e, hole
  <2>4. frame' \in Frames /\ frame'.presented /\ ~frame'.scene_pass_active
    BY <2>1, <2>2, <2>3 DEF Frames
  <2>5. Pictured(frame') BY <2>1, <2>2 DEF Frames, Pictured
  <2>6. Sorted(frame') BY ZenonT(120), <2>1, <2>2 DEF Frames, Sorted
  <2>7. Paired(frame') BY <2>1, <2>2 DEF Frames, Paired
  <2> QED BY <2>4, <2>5, <2>6, <2>7 DEF Good, Open
<1>12. config' = c /\ started' = <<c.aa, f.small>> BY DEF Present
<1>13. started' \in (0 .. 2) \X BOOLEAN
  <2> HIDE DEF f, c
  <2> QED BY <1>2, <1>4, <1>12 DEF Frames
<1> HIDE DEF c
<1> QED BY <1>2, <1>7, <1>8, <1>11, <1>12, <1>13 DEF IInv

\* A 3D draw, a 2D draw in the scene and one that ends it.
LEMMA DrawInv ==
  ASSUME IInv, NEW c \in Cameras, Draw3D(c) \/ Draw2D(c)
  PROVE  Good(frame') /\ ~frame'.rebuilt
<1>1. Good(frame) /\ ~frame.rebuilt BY DEF IInv, Draw3D, Draw2D, Drawing
<1> DEFINE k == Captured(frame, c)
<1>2. /\ Good(k) /\ ~k.rebuilt /\ k.scene_pass_active = frame.scene_pass_active
      /\ k.frame_had_3d_draw = frame.frame_had_3d_draw
  BY <1>1, CapturedGood
<1>3. k \in Frames /\ Pictured(k) /\ Sorted(k) /\ Paired(k) /\ Open(k) BY <1>2 DEF Good
<1>4. CASE Draw3D(c)
  <2> DEFINE f == [k EXCEPT !.frame_had_3d_draw = TRUE]
             g == IF f.scene_pass_active /\ ~f.off_screen
                  THEN [f EXCEPT !.depths = @ \cup {CurrentDepth(f)}] ELSE f
  <2>1. frame' = OnTarget(g, "3d") BY <1>4 DEF Draw3D
  <2> HIDE DEF k
  <2>2. f \in Frames BY <1>3 DEF Frames
  <2>3. Pictured(f) BY <1>3 DEF Frames, Pictured
  <2>4. Sorted(f) BY <1>3 DEF Frames, Sorted
  <2>5. Paired(f) BY <1>3 DEF Frames, Paired
  <2>6. Open(f) BY <1>3 DEF Frames, Open
  <2>7. f.frame_had_3d_draw /\ ~f.rebuilt BY <1>2, <1>3 DEF Frames
  <2> HIDE DEF f
  <2>8. Good(g) /\ g.frame_had_3d_draw /\ ~g.rebuilt
    <3>1. CASE ~(f.scene_pass_active /\ ~f.off_screen)
      BY <3>1, <2>2, <2>3, <2>4, <2>5, <2>6, <2>7 DEF Good
    <3>2. CASE f.scene_pass_active /\ ~f.off_screen
      <4>1. g = [f EXCEPT !.depths = f.depths \cup {CurrentDepth(f)}] BY <2>2, <3>2 DEF Frames
      <4>2. CurrentDepth(f) = IF f.small THEN "scene" ELSE "own"
        BY <2>2, <2>5, <3>2, CamerasAssumption DEF CurrentDepth, Paired, Frames
      <4>3. ~f.inputs.fresh BY <2>5, <2>6, <3>2 DEF Paired, Open
      <4> HIDE DEF g
      <4>4. g \in Frames BY <2>2, <4>1, <4>2 DEF Frames, Depths
      <4>5. Pictured(g) BY <2>2, <2>3, <4>1 DEF Frames, Pictured
      <4>6. Sorted(g) BY ZenonT(40), <2>2, <2>4, <4>1 DEF Frames, Sorted
      <4>7. Paired(g) BY <2>2, <2>5, <4>1, <4>3 DEF Frames, Paired
      <4>8. Open(g) BY <2>2, <2>6, <4>1, <4>2 DEF Frames, Open
      <4>9. g.frame_had_3d_draw /\ ~g.rebuilt BY <2>2, <2>7, <4>1 DEF Frames
      <4> QED BY <4>4, <4>5, <4>6, <4>7, <4>8, <4>9 DEF Good
    <3> QED BY <3>1, <3>2
  <2> HIDE DEF g
  <2>9. Good(frame') BY <2>1, <2>8, OnTargetGood
  <2>10. frame'.rebuilt = g.rebuilt BY <2>1, <2>8, OnTargetRebuilt DEF Good
  <2> QED BY <2>8, <2>9, <2>10
<1>5. CASE Draw2D(c)
  <2>1. frame' = OnTarget(k, "2d") /\ ~(k.scene_pass_active /\ k.frame_had_3d_draw)
    BY <1>2, <1>5 DEF Draw2D, EndsPass
  <2> HIDE DEF k
  <2> QED BY <1>2, <1>3, <2>1, OnTargetGood, OnTargetRebuilt
<1> QED BY <1>4, <1>5

\* IInv is kept by every step.
LEMMA NextInv == IInv /\ [Next]_vars => IInv'
<1> SUFFICES ASSUME IInv, [Next]_vars PROVE IInv' OBVIOUS
<1> USE DEF IInv
<1>1. frame \in Frames /\ Pictured(frame) /\ Sorted(frame) /\ Paired(frame) /\ Open(frame) BY DEF Good
<1>2. CASE BeginFrame
  <2> DEFINE active == Opens(frame)
             last == IF frame.recorded = None THEN frame.last
                     ELSE IF frame.recorded \in Flat THEN None ELSE frame.recorded
  <2>1. frame' = [NewFrame EXCEPT !.scene_pass_active = active, !.off_screen = frame.off_screen,
                     !.depth = frame.depth, !.small = frame.small, !.prev = frame.prev,
                     !.hole = frame.hole, !.last = last]
    BY <1>2 DEF BeginFrame
  <2>2. active \in BOOLEAN BY <1>1 DEF Opens, Frames
  <2>3. last \in Cams BY <1>1 DEF Frames, Cams
  <2>4. frame.prev \in {None, last} BY <1>1 DEF Paired
  <2>5. /\ frame.off_screen \in BOOLEAN /\ frame.small \in BOOLEAN /\ frame.depth \in {"own", None}
        /\ frame.prev \in Cams /\ frame.hole \in {"none", "announced", "read", "silent"}
        /\ (~frame.off_screen => frame.depth = "own")
    BY <1>1 DEF Frames, Paired
  <2> HIDE DEF active, last
  <2>6. frame' \in Frames BY ZenonT(40), <2>1, <2>2, <2>3, <2>5, NewFrameBlank DEF Frames
  <2>7. Blank(frame') BY <2>1, NewFrameBlank DEF Frames, Blank
  <2>8. /\ frame'.prev = frame.prev /\ frame'.last = last /\ frame'.off_screen = frame.off_screen
        /\ frame'.depth = frame.depth
    BY <2>1, NewFrameBlank DEF Frames
  <2>9. Good(frame') /\ ~frame'.rebuilt BY <2>4, <2>5, <2>6, <2>7, <2>8, BlankGood
  <2> QED BY <1>2, <2>9 DEF BeginFrame
<1>3. CASE Clear
  <2>1. ~frame.rebuilt /\ frame' = OnTarget(frame, "clear") BY <1>3 DEF Clear, Drawing
  <2>2. Good(frame') /\ ~frame'.rebuilt BY <1>1, <2>1, OnTargetGood, OnTargetRebuilt
  <2> QED BY <1>3, <2>2 DEF Clear
<1>4. CASE ReadBackBuffer
  <2> DEFINE r == Resolved(frame)
  <2>1. ~frame.rebuilt /\ frame' = [r EXCEPT !.read = TRUE] BY <1>4 DEF ReadBackBuffer, Drawing
  <2>2. /\ r \in Frames /\ Pictured(r) /\ Sorted(r) /\ Paired(r) /\ ~r.scene_pass_active
        /\ ~r.rebuilt
    BY <1>1, <2>1, ResolvedGood DEF Good
  <2> HIDE DEF r
  <2>3. frame' \in Frames /\ ~frame'.scene_pass_active /\ ~frame'.rebuilt BY <2>1, <2>2 DEF Frames
  <2>4. Pictured(frame') BY <2>1, <2>2 DEF Frames, Pictured
  <2>5. Sorted(frame') BY ZenonT(90), <2>1, <2>2 DEF Frames, Sorted
  <2>6. Paired(frame') BY <2>1, <2>2 DEF Frames, Paired
  <2>7. Good(frame') BY <2>3, <2>4, <2>5, <2>6 DEF Good, Open
  <2> QED BY <1>4, <2>3, <2>7 DEF ReadBackBuffer
<1>5. CASE Reset
  <2> DEFINE active == config.aa # 0
             small == config.aa # 0 /\ config.small
             hole == IF helper = "ready" THEN "announced" ELSE "none"
  <2>1. frame' = [NewFrame EXCEPT !.scene_pass_active = active, !.small = small, !.hole = hole]
    BY <1>5 DEF Reset
  <2>2. active \in BOOLEAN /\ small \in BOOLEAN /\ hole \in {"none", "announced", "read", "silent"}
    OBVIOUS
  <2> HIDE DEF active, small, hole
  <2>3. Good(frame') /\ ~frame'.rebuilt BY <2>1, <2>2, FirstFrame
  <2> QED BY <1>5, <2>3 DEF Reset
<1>6. ASSUME NEW c \in Cameras, Draw3D(c) \/ Draw2D(c) PROVE IInv'
  <2>1. Good(frame') /\ ~frame'.rebuilt BY <1>6, DrawInv
  <2> QED BY <1>6, <2>1 DEF Draw3D, Draw2D
<1>7. ASSUME NEW off \in BOOLEAN, NEW depth \in {"own", None}, SetRenderTarget(off, depth) PROVE IInv'
  <2>1. /\ frame' = [frame EXCEPT !.off_screen = off, !.depth = depth]
        /\ (~off => depth = "own") /\ ~frame.rebuilt
    BY <1>7 DEF SetRenderTarget, Drawing
  <2>2. frame' \in Frames /\ ~frame'.rebuilt BY <1>1, <2>1 DEF Frames
  <2>3. Pictured(frame') BY <1>1, <2>1 DEF Frames, Pictured
  <2>4. Sorted(frame')
    <3>1. /\ frame'.scene = frame.scene /\ frame'.submitted = frame.submitted
          /\ frame'.frame_had_3d_draw = frame.frame_had_3d_draw
      BY <1>1, <2>1 DEF Frames
    <3> QED BY <1>1, <3>1 DEF Sorted
  <2>5. Paired(frame') BY <1>1, <2>1 DEF Frames, Paired
  <2>6. Open(frame') BY <1>1, <2>1 DEF Frames, Open
  <2>7. Good(frame') BY <2>2, <2>3, <2>4, <2>5, <2>6 DEF Good
  <2> QED BY <1>7, <2>2, <2>7 DEF SetRenderTarget
<1>8. ASSUME NEW polled \in {"none", "starting", "ready"}, NEW delivered \in BOOLEAN,
             DrawUi(polled, delivered)
      PROVE  IInv'
  <2> DEFINE f == Recorded(frame, config.motion)
             e == Ended(f, polled, delivered)
  <2>1. /\ ~frame.rebuilt /\ frame.frame_had_3d_draw /\ helper' = polled
        /\ frame' = OnTarget(e, "2d")
    BY <1>8 DEF DrawUi, Drawing, EndsPass
  <2>2. /\ f \in Frames /\ Pictured(f) /\ Sorted(f) /\ Paired(f)
        /\ ~f.rebuilt /\ f.frame_had_3d_draw
    BY <2>1, RecordedGood
  <2> HIDE DEF f
  <2>3. Good(e) /\ ~e.scene_pass_active /\ ~e.rebuilt BY <2>2, EndedGood
  <2> HIDE DEF e
  <2>4. Good(frame') /\ ~frame'.rebuilt BY <2>1, <2>3, OnTargetGood, OnTargetRebuilt DEF Good
  <2> QED BY <1>8, <2>1, <2>4 DEF DrawUi
<1>9. ASSUME NEW v \in 0 .. 2, SetTemporalAA(v) PROVE IInv'
  BY <1>9 DEF SetTemporalAA
<1>10. ASSUME NEW on \in BOOLEAN, SetMotionVectors(on) PROVE IInv'
  BY <1>10 DEF SetMotionVectors
<1>11. ASSUME NEW f5 \in BOOLEAN, NEW restart \in BOOLEAN, NEW visible \in BOOLEAN,
              NEW delivered \in BOOLEAN, Present(f5, restart, visible, delivered)
       PROVE  IInv'
  BY <1>11, PresentInv
<1>12. CASE UNCHANGED vars BY <1>12 DEF vars
<1> QED BY <1>2, <1>3, <1>4, <1>5, <1>6, <1>7, <1>8, <1>9, <1>10, <1>11, <1>12 DEF Next

-----------------------------------------------------------------------------
\* The invariant holds for any cameras and any number of draws.
THEOREM SceneInvariant == Spec => []IInv
BY InitInv, NextInv, PTL DEF Spec

\* The settings, the frame, the helper and what it was started with are of
\* their types.
THEOREM SceneTypes == Spec => []TypeOK
<1>1. IInv => TypeOK BY DEF IInv, Good, TypeOK
<1> QED BY <1>1, SceneInvariant, PTL

\* Whichever way the pass ended, the back buffer shows what the game has drawn.
THEOREM ScenePictureIsComplete == Spec => []ThePictureIsComplete
<1>1. IInv => ThePictureIsComplete BY DEF IInv, Good, Pictured, ThePictureIsComplete
<1> QED BY <1>1, SceneInvariant, PTL

\* The upscaler is handed frames with a world, without the UI drawn over it.
THEOREM SceneUpscalerGetsTheScene == Spec => []UpscalerGetsTheScene
<1>1. IInv => UpscalerGetsTheScene BY DEF IInv, Good, Sorted, UpscalerGetsTheScene
<1> QED BY <1>1, SceneInvariant, PTL

\* Motion vectors handed over lead from the frame before to this one.
THEOREM SceneMotionIsOfThisFrame == Spec => []MotionIsOfThisFrame
<1>1. IInv => MotionIsOfThisFrame BY DEF IInv, Good, Paired, MotionIsOfThisFrame
<1> QED BY <1>1, SceneInvariant, PTL
-----------------------------------------------------------------------------
\* Holes in the upscaler's history.

\* While the helper is ready a pass that has ended left its frame handed over,
\* read back or announced, and a frame presented without a world, after which no
\* pass opens, was announced too.  A frame without the upscaler leaves no hole.
HolesAreKnown ==
  /\ frame.submitted # "over a hole" /\ frame.hole # "silent"
  /\ helper # "none" => started[1] # 0
  /\ helper = "ready" /\ ~frame.presented /\ ~frame.scene_pass_active =>
       frame.submitted # "no" \/ frame.read \/ frame.hole \in {"announced", "read"}
  /\ helper = "ready" /\ frame.presented =>
       /\ config.aa # 0
       /\ frame.frame_had_3d_draw \/ frame.hole \in {"announced", "read"}

\* Two frames agree on what HolesAreKnown says, but for the 3D draws.
Alike(f, g) ==
  /\ f.scene_pass_active = g.scene_pass_active /\ f.submitted = g.submitted
  /\ f.hole = g.hole /\ f.read = g.read /\ f.presented = g.presented

\* Draws, the camera, motion vectors and new resources are no part of it.
LEMMA AlikeKept ==
  ASSUME NEW f, f \in Frames
  PROVE  /\ \A mark : Alike(OnTarget(f, mark), f)
                      /\ OnTarget(f, mark).frame_had_3d_draw = f.frame_had_3d_draw
         /\ \A c : Alike(Captured(f, c), f)
                   /\ Captured(f, c).frame_had_3d_draw = f.frame_had_3d_draw
         /\ \A motion : Alike(Recorded(f, motion), f)
                        /\ Recorded(f, motion).frame_had_3d_draw = f.frame_had_3d_draw
         /\ \A c : Alike(Recreated(f, c), f)
                   /\ Recreated(f, c).frame_had_3d_draw = f.frame_had_3d_draw
<1>1. \A mark : Alike(OnTarget(f, mark), f)
                /\ OnTarget(f, mark).frame_had_3d_draw = f.frame_had_3d_draw
  BY DEF OnTarget, Alike, Frames
<1>2. \A c : Alike(Captured(f, c), f) /\ Captured(f, c).frame_had_3d_draw = f.frame_had_3d_draw
  BY DEF Captured, Alike, Frames
<1>3. \A motion : Alike(Recorded(f, motion), f)
                  /\ Recorded(f, motion).frame_had_3d_draw = f.frame_had_3d_draw
  BY DEF Recorded, Compared, Alike, Frames
<1>4. \A c : Alike(Recreated(f, c), f) /\ Recreated(f, c).frame_had_3d_draw = f.frame_had_3d_draw
  BY DEF Recreated, Alike, Frames
<1> QED BY <1>1, <1>2, <1>3, <1>4

\* A pass ended by way of the helper leaves its frame handed over or announced,
\* one ended without it leaves the hole it found.
EndedAs(f, polled, e) ==
  /\ ~e.scene_pass_active /\ e.read = f.read /\ e.presented = f.presented
  /\ e.hole # "silent" /\ e.submitted # "over a hole"
  /\ polled = "ready" => e.submitted # "no" \/ e.hole = "announced"
  /\ polled # "ready" => e.hole = f.hole /\ e.submitted = f.submitted

\* The end of a pass is as EndedAs has it.
LEMMA EndedAlike ==
  ASSUME NEW f, NEW polled, NEW delivered, f \in Frames,
         f.hole # "silent", f.submitted # "over a hole"
  PROVE  EndedAs(f, polled, Ended(f, polled, delivered))
<1>1. ASSUME NEW x, x \in Frames
      PROVE  LET r == Resolved(x)
             IN  /\ r \in Frames /\ ~r.scene_pass_active /\ r.read = x.read
                 /\ r.presented = x.presented /\ r.hole = x.hole /\ r.submitted = x.submitted
  BY ZenonT(90), <1>1 DEF Resolved, Frames
<1> DEFINE e == Ended(f, polled, delivered)
           r == Resolved(f)
           h == HandedOver(f)
<1>2. /\ h \in Frames /\ h.read = f.read /\ h.presented = f.presented
      /\ h.hole = "none" /\ h.submitted = "yes"
  BY DEF HandedOver, Frames
<1>3. CASE polled # "ready" BY <1>1, <1>3 DEF Ended, EndedAs
<1>4. CASE polled = "ready" /\ f.frame_camera \in Flat
  <2>1. e = [r EXCEPT !.hole = "announced"] BY <1>4 DEF Ended, Exchanged
  <2>2. r \in Frames /\ ~r.scene_pass_active /\ r.read = f.read /\ r.presented = f.presented
        /\ r.submitted = f.submitted
    BY <1>1
  <2> HIDE DEF e, r
  <2>3. /\ ~e.scene_pass_active /\ e.read = r.read /\ e.presented = r.presented
        /\ e.hole = "announced" /\ e.submitted = r.submitted
    BY <2>1, <2>2 DEF Frames
  <2> QED BY <1>4, <2>2, <2>3 DEF e, EndedAs
<1>5. CASE polled = "ready" /\ f.frame_camera \notin Flat /\ ~delivered
  <2>1. e = Resolved(h) BY <1>5 DEF Ended, Exchanged
  <2> HIDE DEF h
  <2> QED BY <1>1, <1>2, <1>5, <2>1 DEF EndedAs
<1>6. CASE polled = "ready" /\ f.frame_camera \notin Flat /\ delivered
  <2>1. e = [h EXCEPT !.scene_pass_active = FALSE, !.back_buffer = Result, !.expected = Result]
    BY <1>6 DEF Ended, Exchanged
  <2> HIDE DEF h, e
  <2>2. /\ ~e.scene_pass_active /\ e.read = h.read /\ e.presented = h.presented
        /\ e.hole = h.hole /\ e.submitted = h.submitted
    BY <1>2, <2>1 DEF Frames
  <2> QED BY <1>2, <1>6, <2>2 DEF e, EndedAs
<1> QED BY <1>3, <1>4, <1>5, <1>6

\* A step that keeps settings and helper and a frame alike keeps HolesAreKnown.
LEMMA AlikeKnown ==
  ASSUME IInv, HolesAreKnown, ~frame.presented, Alike(frame', frame),
         UNCHANGED <<helper, started>>
  PROVE  HolesAreKnown'
BY DEF HolesAreKnown, Alike
\* Present hands the frame over, announces it or finds it read back.
LEMMA PresentKnown ==
  ASSUME IInv, HolesAreKnown, NEW f5 \in BOOLEAN, NEW restart \in BOOLEAN,
         NEW visible \in BOOLEAN, NEW delivered \in BOOLEAN,
         Present(f5, restart, visible, delivered)
  PROVE  HolesAreKnown'
<1> DEFINE c == IF f5 THEN NextConfig ELSE config
           b == IF f5 THEN Recreated(frame, c) ELSE frame
           f == Recorded(b, c.motion)
           h == IF restart \/ (<<c.aa, f.small>> # started /\ c.aa # 0) THEN "starting"
                ELSE IF c.aa = 0 /\ started[1] # 0 THEN "none" ELSE helper
           offered == f.scene_pass_active /\ f.frame_had_3d_draw /\ visible
           g == IF h = "ready" THEN f ELSE [f EXCEPT !.hole = "none"]
           ended(polled) == Ended(g, IF offered THEN polled ELSE "none", delivered)
           after(polled) == HoleAfter(ended(polled), polled, Announces(f, visible))
<1>1. Good(frame) /\ ~frame.rebuilt /\ ~frame.presented BY DEF IInv, Present, Drawing
<1>2. Good(b) /\ (b.rebuilt => b.prev = None)
  <2>1. c \in [aa : 0 .. 2, small : BOOLEAN, motion : BOOLEAN] BY NextConfigType DEF IInv
  <2> HIDE DEF c
  <2> QED BY <1>1, <2>1, RecreatedGood
<1>3. Alike(b, frame) BY <1>1, AlikeKept DEF Good, Alike
<1>4. f \in Frames /\ Pictured(f) /\ Sorted(f) /\ Paired(f) /\ Alike(f, frame)
  <2> HIDE DEF b, c
  <2>1. f \in Frames /\ Pictured(f) /\ Sorted(f) /\ Paired(f) BY <1>2, RecordedGood
  <2>2. Alike(f, b) BY <1>2, AlikeKept DEF Good
  <2> QED BY <1>3, <2>1, <2>2 DEF Alike
<1>5. /\ f.submitted # "over a hole" /\ f.hole # "silent" /\ ~f.presented
      /\ f.submitted # "no" => f.frame_had_3d_draw
      /\ helper = "ready" /\ ~f.scene_pass_active =>
           f.submitted # "no" \/ f.read \/ f.hole \in {"announced", "read"}
  <2> HIDE DEF f
  <2> QED BY <1>1, <1>4 DEF HolesAreKnown, Alike, Sorted
<1>6. h \in {"none", "starting", "ready"} /\ (h = "ready" => helper = "ready" /\ c.aa # 0)
      /\ (h # "none" => c.aa # 0)
  <2>1. restart => c.aa # 0 BY DEF Present
  <2>2. helper \in {"none", "starting", "ready"} /\ (helper # "none" => started[1] # 0)
    BY DEF IInv, HolesAreKnown
  <2> HIDE DEF c, f
  <2> QED BY <2>1, <2>2
<1>7. /\ g \in Frames /\ g.submitted = f.submitted /\ g.read = f.read
      /\ g.scene_pass_active = f.scene_pass_active /\ g.frame_had_3d_draw = f.frame_had_3d_draw
      /\ g.hole # "silent" /\ (h = "ready" => g.hole = f.hole)
  <2> HIDE DEF f, h
  <2> QED BY ZenonT(30), <1>4, <1>5 DEF Frames
<1>8. PICK polled \in IF offered THEN Polls(h) ELSE {h} :
        /\ helper' = polled
        /\ frame' = [ended(polled) EXCEPT !.presented = TRUE, !.hole = after(polled)]
        /\ config' = c /\ started' = <<c.aa, f.small>>
  BY DEF Present
<1> DEFINE e == ended(polled)
           hole == after(polled)
<1> DEFINE p == IF offered THEN polled ELSE "none"
<1>9. /\ e.hole # "silent" /\ e.submitted # "over a hole" /\ e.read = g.read
      /\ offered /\ polled = "ready" => e.submitted # "no" \/ e.hole = "announced"
      /\ ~offered \/ polled # "ready" => e.hole = g.hole /\ e.submitted = g.submitted
  <2>1. e = Ended(g, p, delivered) OBVIOUS
  <2>2. (p = "ready") = (offered /\ polled = "ready") OBVIOUS
  <2>4. g \in Frames /\ g.hole # "silent" /\ g.submitted # "over a hole" BY <1>5, <1>7
  <2> HIDE DEF e, f, g, h, p, offered
  <2>3. EndedAs(g, p, e) BY <2>1, <2>4, EndedAlike
  <2> QED BY <2>2, <2>3 DEF EndedAs
<1>10. e \in Frames /\ e.frame_had_3d_draw = f.frame_had_3d_draw
  <2>1. g = f \/ g = [f EXCEPT !.hole = "none"] OBVIOUS
  <2>2. offered => f.frame_had_3d_draw OBVIOUS
  <2>3. e = Ended(g, p, delivered) /\ (p = "ready" => offered) OBVIOUS
  <2> HIDE DEF f, g, e, p, offered
  <2>4. Pictured(g) BY <1>4, <2>1 DEF Frames, Pictured
  <2>5. Sorted(g)
    <3>1. /\ g.scene = f.scene /\ g.submitted = f.submitted
          /\ g.frame_had_3d_draw = f.frame_had_3d_draw
      BY <1>4, <2>1 DEF Frames
    <3> QED BY <1>4, <3>1 DEF Sorted
  <2>6. Paired(g) BY <1>4, <2>1 DEF Frames, Paired
  <2> QED BY <1>7, <2>2, <2>3, <2>4, <2>5, <2>6, EndedGood DEF Good
<1>11. /\ polled # "none" => c.aa # 0
       /\ ~offered /\ polled = "ready" => helper = "ready" /\ h = "ready"
  <2> HIDE DEF h, c, f
  <2> QED BY <1>6, <1>8 DEF Polls
<1>12. /\ hole # "silent"
       /\ polled = "ready" => f.frame_had_3d_draw \/ hole \in {"announced", "read"}
  <2> DEFINE told == Announces(f, visible)
  <2>4. hole = HoleAfter(e, polled, told) OBVIOUS
  <2>5. offered = (f.scene_pass_active /\ f.frame_had_3d_draw /\ visible) OBVIOUS
  <2>6. told = (~visible \/ (f.scene_pass_active /\ ~f.frame_had_3d_draw)) BY DEF Announces
  <2> HIDE DEF f, h, g, e, offered, hole, told
  <2>1. CASE polled # "ready" BY <2>1, <2>4 DEF HoleAfter
  <2>2. CASE polled = "ready" /\ offered BY <1>9, <2>2, <2>4, <2>5 DEF HoleAfter
  <2>3. CASE polled = "ready" /\ ~offered
    BY <1>5, <1>7, <1>9, <1>11, <2>3, <2>4, <2>5, <2>6 DEF HoleAfter
  <2> QED BY <2>1, <2>2, <2>3
<1>13. /\ frame'.presented /\ frame'.hole = hole /\ frame'.submitted = e.submitted
       /\ frame'.frame_had_3d_draw = f.frame_had_3d_draw
  <2>1. frame' = [e EXCEPT !.presented = TRUE, !.hole = hole] BY <1>8
  <2> HIDE DEF e, hole, f
  <2> QED BY <1>10, <2>1 DEF Frames
<1>14. config'.aa = c.aa /\ started'[1] = c.aa BY <1>8
<1> HIDE DEF c, f, e, hole
<1> QED BY <1>8, <1>9, <1>11, <1>12, <1>13, <1>14 DEF HolesAreKnown

\* HolesAreKnown is kept by every step.
LEMMA NextKnown == IInv /\ HolesAreKnown /\ [Next]_vars => HolesAreKnown'
<1> SUFFICES ASSUME IInv, HolesAreKnown, [Next]_vars PROVE HolesAreKnown' OBVIOUS
<1>1. frame \in Frames /\ Sorted(frame) BY DEF IInv, Good
<1>2. CASE BeginFrame
  <2>1. /\ frame'.scene_pass_active = Opens(frame) /\ frame'.hole = frame.hole
        /\ frame'.submitted = "no" /\ ~frame'.presented
    BY <1>2 DEF BeginFrame, NewFrame
  <2> QED BY <1>2, <2>1 DEF HolesAreKnown, BeginFrame, Opens
<1>3. CASE Clear
  <2>1. ~frame.presented /\ frame' = OnTarget(frame, "clear") /\ UNCHANGED <<helper, started>>
    BY <1>3 DEF Clear, Drawing
  <2> QED BY <1>1, <2>1, AlikeKept, AlikeKnown
<1>4. CASE ReadBackBuffer
  <2>1. /\ ~frame.presented /\ frame' = [Resolved(frame) EXCEPT !.read = TRUE]
        /\ UNCHANGED <<config, helper, started>>
    BY <1>4 DEF ReadBackBuffer, Drawing
  <2>2. /\ frame'.read /\ ~frame'.presented /\ frame'.hole = frame.hole
        /\ frame'.submitted = frame.submitted
    BY <1>1, <2>1 DEF Resolved, Frames
  <2> QED BY <2>1, <2>2 DEF HolesAreKnown
<1>5. CASE Reset
  <2> DEFINE active == config.aa # 0
             small == config.aa # 0 /\ config.small
             hole == IF helper = "ready" THEN "announced" ELSE "none"
  <2>2. frame' = [NewFrame EXCEPT !.scene_pass_active = active, !.small = small, !.hole = hole]
    BY <1>5 DEF Reset
  <2>3. helper = "ready" => hole = "announced" OBVIOUS
  <2>4. hole \in {"none", "announced"} OBVIOUS
  <2> HIDE DEF active, small, hole
  <2>1. frame'.hole = hole /\ frame'.submitted = "no" /\ ~frame'.presented
    BY <2>2 DEF NewFrame
  <2> QED BY <1>5, <2>1, <2>3, <2>4 DEF HolesAreKnown, Reset
<1>6. ASSUME NEW k \in Cameras, Draw3D(k) \/ Draw2D(k) PROVE HolesAreKnown'
  <2> DEFINE f == Captured(frame, k)
  <2>1. ~frame.presented /\ UNCHANGED <<helper, started>>
    <3>1. CASE Draw3D(k) BY <3>1 DEF Draw3D, Drawing
    <3>2. CASE Draw2D(k) BY <3>2 DEF Draw2D, Drawing
    <3> QED BY <1>6, <3>1, <3>2
  <2>2. f \in Frames BY <1>6, CapturedGood DEF IInv, Good
  <2>3. Alike(f, frame) BY <1>1, AlikeKept
  <2>4. CASE Draw2D(k)
    <3>1. frame' = OnTarget(f, "2d") BY <2>4 DEF Draw2D
    <3> HIDE DEF f
    <3>2. Alike(frame', f) BY <2>2, <3>1, AlikeKept
    <3> QED BY <2>1, <2>3, <3>2, AlikeKnown DEF Alike
  <2>5. CASE Draw3D(k)
    <3> DEFINE d == [f EXCEPT !.frame_had_3d_draw = TRUE]
               g == IF d.scene_pass_active /\ ~d.off_screen
                    THEN [d EXCEPT !.depths = @ \cup {CurrentDepth(d)}] ELSE d
    <3>1. frame' = OnTarget(g, "3d") BY <2>5 DEF Draw3D
    <3> HIDE DEF f
    <3>2. d \in Frames /\ Alike(d, f) BY <2>2 DEF Frames, Alike
    <3> HIDE DEF d
    <3>3. CurrentDepth(d) \in Depths BY <3>2 DEF CurrentDepth, Depths, Frames
    <3>4. g \in Frames /\ Alike(g, d)
      <4>1. PICK depth \in Depths : depth = CurrentDepth(d) BY <3>3
      <4>2. ASSUME g = [d EXCEPT !.depths = @ \cup {depth}] PROVE g \in Frames /\ Alike(g, d)
        <5> HIDE DEF g
        <5>1. d.depths \cup {depth} \in SUBSET Depths BY <3>2 DEF Frames
        <5>2. g \in Frames BY <3>2, <4>2, <5>1 DEF Frames
        <5>3. Alike(g, d) BY <3>2, <4>2, <5>1 DEF Frames, Alike
        <5> QED BY <5>2, <5>3
      <4>3. Alike(d, d) BY DEF Alike
      <4>4. g = [d EXCEPT !.depths = @ \cup {depth}] \/ g = d BY <4>1
      <4> HIDE DEF g
      <4> QED BY <3>2, <4>2, <4>3, <4>4
    <3> HIDE DEF g
    <3>5. Alike(frame', g) BY <3>1, <3>4, AlikeKept
    <3> QED BY <2>1, <2>3, <3>2, <3>4, <3>5, AlikeKnown DEF Alike
  <2> QED BY <1>6, <2>4, <2>5
<1>7. ASSUME NEW off \in BOOLEAN, NEW depth \in {"own", None}, SetRenderTarget(off, depth)
      PROVE  HolesAreKnown'
  <2>1. /\ ~frame.presented /\ frame' = [frame EXCEPT !.off_screen = off, !.depth = depth]
        /\ UNCHANGED <<helper, started>>
    BY <1>7 DEF SetRenderTarget, Drawing
  <2>2. Alike(frame', frame) BY <1>1, <2>1 DEF Frames, Alike
  <2> QED BY <2>1, <2>2, AlikeKnown
<1>8. ASSUME NEW polled \in {"none", "starting", "ready"}, NEW delivered \in BOOLEAN,
             DrawUi(polled, delivered)
      PROVE  HolesAreKnown'
  <2> DEFINE f == Recorded(frame, config.motion)
             e == Ended(f, polled, delivered)
  <2>1. /\ ~frame.presented /\ ~frame.rebuilt /\ frame.frame_had_3d_draw /\ helper' = polled
        /\ polled \in Polls(helper) /\ UNCHANGED <<config, started>> /\ frame' = OnTarget(e, "2d")
    BY <1>8 DEF DrawUi, Drawing, EndsPass, IInv
  <2>2. /\ f \in Frames /\ Pictured(f) /\ Sorted(f) /\ Paired(f) /\ f.frame_had_3d_draw
        /\ Alike(f, frame)
    BY <1>1, <2>1, RecordedGood, AlikeKept DEF IInv
  <2> HIDE DEF f
  <2>3. e \in Frames BY <2>2, EndedGood DEF Good
  <2>4. /\ e.hole # "silent" /\ e.submitted # "over a hole" /\ ~e.presented
        /\ polled = "ready" => e.submitted # "no" \/ e.hole = "announced"
    <3>1. f.hole # "silent" /\ f.submitted # "over a hole" /\ ~f.presented
      BY <2>1, <2>2 DEF HolesAreKnown, Alike
    <3>2. e = Ended(f, polled, delivered) OBVIOUS
    <3> HIDE DEF e
    <3>3. EndedAs(f, polled, e) BY <2>2, <3>1, <3>2, EndedAlike
    <3> QED BY <3>1, <3>3 DEF EndedAs
  <2> HIDE DEF e
  <2>5. Alike(frame', e) BY <2>1, <2>3, AlikeKept
  <2>6. polled # "none" => helper # "none" BY <2>1 DEF Polls
  <2> QED BY <2>1, <2>4, <2>5, <2>6 DEF HolesAreKnown, Alike
<1>9. ASSUME NEW v \in 0 .. 2, SetTemporalAA(v) PROVE HolesAreKnown'
  BY <1>9 DEF SetTemporalAA, FrameBegins, Drawing, HolesAreKnown
<1>10. ASSUME NEW on \in BOOLEAN, SetMotionVectors(on) PROVE HolesAreKnown'
  BY <1>10 DEF SetMotionVectors, FrameBegins, Drawing, HolesAreKnown
<1>11. ASSUME NEW f5 \in BOOLEAN, NEW restart \in BOOLEAN, NEW visible \in BOOLEAN,
              NEW delivered \in BOOLEAN, Present(f5, restart, visible, delivered)
       PROVE  HolesAreKnown'
  BY <1>11, PresentKnown
<1>12. CASE UNCHANGED vars BY <1>12 DEF vars, HolesAreKnown
<1> QED BY <1>2, <1>3, <1>4, <1>5, <1>6, <1>7, <1>8, <1>9, <1>10, <1>11, <1>12 DEF Next

\* No frame is handed over after one the upscaler was not told of, unless the
\* game had read that one back.
THEOREM SceneTellsOfHoles == Spec => []SceneHolesAreAnnounced
<1>1. Init => HolesAreKnown BY DEF Init, NewFrame, HolesAreKnown
<1>2. HolesAreKnown => SceneHolesAreAnnounced BY DEF HolesAreKnown, SceneHolesAreAnnounced
<1> QED BY <1>1, <1>2, NextKnown, SceneInvariant, PTL DEF Spec
==============================================================================
