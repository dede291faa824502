------------------------------ MODULE DrawState ------------------------------
(***************************************************************************)
(* How the game's state reaches a draw (src/device.cpp: the Set* methods,  *)
(* PrepareDrawCall, BeginScene, ResolveScenePass, RecordMotionVectorPass,  *)
(* the state blocks).  Calls only store a value and raise dirty flags; a   *)
(* draw binds again what the flags and the caches of what was bound last   *)
(* say it must, and whatever else touches the command list has to tell     *)
(* them.  Inputs hold small numbers: 0 is what nothing has been set to.    *)
(***************************************************************************)
EXTENDS RenderStateTables

CONSTANTS
  Inputs,      \* the inputs whose changes are modelled (one per way a call
               \*   raises flags; RenderStateTables relates all of them)
  Prims,       \* D3DPRIMITIVETYPE; one of them is "list"
  CacheBuilt,  \* is DX8TO12_DRAW_STATE_CACHE compiled in?
  MaxCalls     \* bound: calls that change state

ASSUME InputsAssumption == /\ Inputs \subseteq (UNION {Raisers[f] : f \in DirtyFlags})
                               \cup {"viewport", "stream", "stencil_ref"} \cup Settings
                           /\ {"viewport", "target", "stream"} \subseteq Inputs
ASSUME PrimsAssumption == "list" \in Prims /\ "none" \notin Prims
ASSUME CacheBuiltAssumption == CacheBuilt \in BOOLEAN
ASSUME MaxCallsAssumption == MaxCalls \in Nat \ {0}

Textures == Inputs \cap {"tex0", "tex1"}
Values(i) == IF i \in Textures THEN 0 .. 2 ELSE 0 .. 1
TableOf == [t \in {"tex0", "tex1"} |-> IF t = "tex0" THEN "table0" ELSE "table1"]
Tables == {TableOf[t] : t \in Textures}
CBuffers == {"vs_cbuffer", "lights_cbuffer", "ps_cbuffer", "vs_creg_cbuffer"}

\* What the list holds for a draw.  Topology, stencil reference and vertex
\* buffers are compared at each draw instead of being flagged.
Parts == {"viewport", "render_target", "pso", "sampler", "topology", "stencil",
          "streams"} \cup CBuffers \cup Tables
InputsOf ==
  [p \in Parts |->
     (CASE p = "topology" -> {"prim"}
        [] p = "stencil" -> {"stencil_ref"}
        [] p = "streams" -> {"stream"}
        [] OTHER -> ReadBy[p])
     \cap (Inputs \cup {"prim", "scene"})]
Reads(p) == InputsOf[p]

VARIABLES
  st,          \* the state the game has set, scene_pass_active_ ("scene")
  flags,       \* dirty_flags_
  texture_mask,\* dirty_texture_stage_mask_, as the stages' inputs
  sampler_mask,\* dirty_sampler_stage_mask_ # 0
  cache,       \* CacheDrawStateBindings()
  last,        \* the caches of what was bound last
  filled,      \* what the constant buffers hold
  root,        \* the list's root signature
  bound,       \* what the list holds
  wrong,       \* history: what this draw is drawn with that differs from the
               \*   state, as pairs of a part and an input
  untold,      \* history: such pairs that nothing has announced
  block,       \* the state block: the values it holds
  promised,    \* history: the state it was asked to hold
  overlooked,  \* history: what of that it was known not to hold when made
  start,       \* state_block_recording_start_
  recording,   \* recording_state_block_
  calls        \* bounded by MaxCalls

blockVars == <<block, promised, overlooked, start, recording>>
listVars == <<filled, root, bound, last>>
maskVars == <<texture_mask, sampler_mask>>
vars == <<st, flags, maskVars, cache, listVars, wrong, untold, blockVars, calls>>

-----------------------------------------------------------------------------
Nothing == [i \in {} |-> 0]

\* A stage counts as textured while every stage before it is.
HasTexture(s, t) == \A u \in Textures : (u = t \/ TableOf[u] = "table0") => s[u] > 0

Seen(s, p, i) ==
  CASE p = "pso" /\ i \in Textures -> IF HasTexture(s, i) THEN 1 ELSE 0
    [] i = "scene" -> IF s["scene"] /\ s["target"] = 0 THEN 1 ELSE 0
    [] OTHER -> s[i]
View(s, p) == [i \in Reads(p) |-> Seen(s, p, i)]

\* The caches when nothing is known to be bound: only the pipeline state made
\* last is kept, and for which primitives.
Forgotten(pso, prim) ==
  [prim |-> "none", stencil |-> Nothing, streams |-> Nothing, set_pso |-> Nothing,
   root |-> FALSE, pso |-> pso, pso_prim |-> prim]
Unbound == [p \in Parts |-> Nothing]

Init ==
  /\ st = [i \in Inputs \cup {"scene"} |-> IF i = "scene" THEN FALSE ELSE 0]
  /\ flags = DirtyFlags
  /\ texture_mask = Textures
  /\ sampler_mask = TRUE
  /\ cache \in {CacheBuilt, FALSE}
  /\ last = Forgotten(Nothing, "none")
  /\ filled = [c \in CBuffers |-> Nothing]
  /\ root = "none"
  /\ bound = Unbound
  /\ wrong = {}
  /\ untold = {}
  /\ block = Nothing
  /\ promised = Nothing
  /\ overlooked = {}
  /\ start = Nothing
  /\ recording = FALSE
  /\ calls = 0

Call == /\ calls < MaxCalls
        /\ calls' = calls + 1
        /\ wrong' = {}

\* What a block may hold: everything but the targets, the viewport and the
\* streams, which no StateBlock field stands for.
Recordable == Inputs \ ({"viewport", "target", "stream"} \cup Settings)

\* A call made while a block is recorded is one the block was asked to hold.
Ask(i, v) == promised' = IF recording /\ i \in Recordable
                         THEN [j \in DOMAIN promised \cup {i} |->
                                 IF j = i THEN v ELSE promised[j]]
                         ELSE promised

-----------------------------------------------------------------------------
\* SetRenderState, SetTextureStageState, SetTransform, SetLight (of a light that
\* is enabled), SetMaterial, SetVertexShader, SetPixelShader,
\* SetVertexShaderConstant, SetStreamSource and LightEnable.
Store(i, v) ==
  /\ Call
  /\ i \in Inputs \ (Textures \cup Settings \cup {"viewport", "target"})
  /\ st' = [st EXCEPT ![i] = v]
  /\ flags' = flags \cup Raises(i)
  /\ sampler_mask' = (sampler_mask \/ "PS_SAMPLERS" \in Raises(i))
  /\ Ask(i, v)
  /\ UNCHANGED <<texture_mask, cache, listVars, untold, block, overlooked, start, recording>>

\* SetTexture: the pipeline state only if the stage gains or loses its texture.
SetTextureUnflipped(t, v) ==  \* fault: the pipeline state is left alone
  /\ Call
  /\ t \in Textures
  /\ st' = [st EXCEPT ![t] = v]
  /\ IF st[t] = v
     THEN UNCHANGED <<flags, texture_mask>>
     ELSE /\ flags' = flags \cup {"PS_TEXTURES"}
          /\ texture_mask' = texture_mask \cup {t}
  /\ Ask(t, v)
  /\ UNCHANGED <<sampler_mask, cache, listVars, untold, block, overlooked, start, recording>>

SetTexture(t, v) ==
  /\ Call
  /\ t \in Textures
  /\ st' = [st EXCEPT ![t] = v]
  /\ IF st[t] = v
     THEN UNCHANGED <<flags, texture_mask>>
     ELSE /\ flags' = flags \cup {"PS_TEXTURES"}
                            \cup (IF (st[t] = 0) # (v = 0) THEN {"PSO"} ELSE {})
          /\ texture_mask' = texture_mask \cup {t}
  /\ Ask(t, v)
  /\ UNCHANGED <<sampler_mask, cache, listVars, untold, block, overlooked, start, recording>>

\* SetViewport stores; the list's viewport waits for the next BeginScene.
SetViewport(v) ==
  /\ Call
  /\ st' = [st EXCEPT !["viewport"] = v]
  /\ untold' = untold \cup {"viewport", "vs_cbuffer"} \X {"viewport"}
  /\ UNCHANGED <<flags, maskVars, cache, listVars, blockVars>>

\* SetRenderTarget (the target stands for the depth surface set with it) also
\* sets the viewport, which the vertex constants are made
\* from.  It fails on a depth surface in system memory after having stored both,
\* with no flag raised.
SetRenderTarget(target) ==
  /\ Call
  /\ st' = [st EXCEPT !["target"] = target, !["viewport"] = 0]
  /\ flags' = flags \cup {"OM", "PSO"}
  /\ untold' = untold \cup {<<"vs_cbuffer", "viewport">>}
  /\ UNCHANGED <<maskVars, cache, listVars, blockVars>>

SetRenderTargetFails(target) ==
  /\ Call
  /\ st' = [st EXCEPT !["target"] = target, !["viewport"] = 0]
  /\ untold' = untold \cup {"viewport", "render_target", "pso", "vs_cbuffer"}
                           \X {"target", "viewport", "scene"}
  /\ UNCHANGED <<flags, maskVars, cache, listVars, blockVars>>

\* A setting written through the mod API, or an injection registered.
ChangeSetting(i, v) ==
  /\ Call
  /\ i \in Inputs \cap Settings
  /\ st' = [st EXCEPT ![i] = v]
  /\ untold' = untold \cup {"pso", "sampler"} \X {i}
  /\ UNCHANGED <<flags, maskVars, cache, listVars, blockVars>>

-----------------------------------------------------------------------------
Toggle(f, F) == IF f \in F THEN F \ {f} ELSE F \cup {f}

\* BeginScene as the game calls it: operator^= flips the flag.
BeginScene ==
  /\ Call
  /\ bound' = [p \in Parts |-> IF p \in {"viewport", "render_target"}
                               THEN View(st, p) ELSE bound[p]]
  /\ flags' = Toggle("OM", flags)
  /\ untold' = {u \in untold : u[1] \notin {"viewport", "render_target"}}
  /\ UNCHANGED <<st, maskVars, cache, filled, root, last, blockVars>>

\* A draw.  The root signature, whose setting drops every root argument, is set
\* once per list, or at each draw without the cache.
RootReset == ~cache \/ ~last.root
RootArguments == CBuffers \cup Tables \cup {"sampler"}
TablesNamed == IF RootReset THEN Textures
               ELSE IF "PS_TEXTURES" \in flags THEN texture_mask ELSE {}
SamplersNamed == RootReset \/ ("PS_SAMPLERS" \in flags /\ sampler_mask)

\* The parts a draw with state s makes again, and those it binds again.
PsoMade(s) == ~cache \/ "PSO" \in flags \/ last.pso_prim # s["prim"]
PsoFor(s) == IF PsoMade(s) THEN View(s, "pso") ELSE last.pso
Made(s) ==
  {p \in Parts : \/ p \in {"viewport", "render_target"} /\ "OM" \in flags
                 \/ p = "topology" /\ s["prim"] # last.prim
                 \/ p = "pso" /\ PsoMade(s)
                 \/ p \in CBuffers /\ MadeAgainFor[p] \in flags
                 \/ p = "sampler" /\ SamplersNamed
                 \/ p = "stencil" /\ (~cache \/ View(s, p) # last.stencil)
                 \/ p = "streams" /\ (~cache \/ View(s, p) # last.streams)
                 \/ \E t \in TablesNamed : p = TableOf[t] /\ s[t] > 0}
Rebound(s, made) ==
  ((made \ {"pso"}) \cup (IF RootReset THEN CBuffers ELSE {})
   \cup (IF ~cache \/ PsoFor(s) # last.set_pso THEN {"pso"} ELSE {}))
  \ (IF RootReset \/ root = "main" THEN {} ELSE RootArguments)

AfterDraw(s) ==
  LET made == Made(s)
      now == [c \in CBuffers |-> IF c \in made THEN View(s, c) ELSE filled[c]]
      now_bound == Rebound(s, made)
  IN [made |-> made,
      filled |-> now,
      bound |-> [p \in Parts |->
                   IF p \notin now_bound
                   THEN IF RootReset /\ p \in RootArguments THEN Nothing ELSE bound[p]
                   ELSE IF p = "pso" THEN PsoFor(s)
                   ELSE IF p \in CBuffers THEN now[p]
                   ELSE View(s, p)]]

\* The parts that hold something else than the state asks for.  A stage with no
\* texture needs no table.
Read == {w \in Parts \X (Inputs \cup {"prim", "scene"}) : w[2] \in Reads(w[1])}
Differs(s, p, i, held) ==
  /\ i \in Textures /\ p # "pso" => s[i] > 0
  /\ i \notin DOMAIN held \/ held[i] # Seen(s, p, i)
Wrong(s, b) == {w \in Read : Differs(s, w[1], w[2], b[w[1]])}

PrepareDrawCall(s, after) ==
  /\ filled' = after.filled
  /\ wrong' = Wrong(s, after.bound)
  /\ flags' = {}
  /\ texture_mask' = IF RootReset \/ "PS_TEXTURES" \in flags THEN {} ELSE texture_mask
  /\ sampler_mask' = (sampler_mask /\ ~RootReset /\ "PS_SAMPLERS" \notin flags)
  /\ root' = IF RootReset THEN "main" ELSE root
  /\ untold' = {u \in untold :
                  \/ u[1] \notin after.made
                  \/ root = "blit" /\ ~RootReset /\ u[1] \in RootArguments \cup {"pso"}}
  /\ UNCHANGED <<cache, blockVars, calls>>
LastBound(s) ==
  [prim |-> s["prim"], pso |-> PsoFor(s), pso_prim |-> s["prim"], set_pso |-> PsoFor(s),
   stencil |-> View(s, "stencil"), streams |-> View(s, "streams"), root |-> TRUE]

\* The state a draw of these primitives is drawn with.
Drawing(s, prim) ==
  [i \in DOMAIN s \cup {"prim"} |-> IF i = "prim" THEN prim ELSE s[i]]

Draw(prim) ==
  LET s == Drawing(st, prim)
      after == AfterDraw(s)
  IN /\ PrepareDrawCall(s, after)
     /\ bound' = after.bound
     /\ last' = LastBound(s)
     /\ UNCHANGED st

\* A draw of the game's own memory, which takes the first stream from the game
\* and binds its copy over what PrepareDrawCall has bound.
DrawUPUntold(prim) ==  \* fault: the views bound last are not forgotten
  LET taken == [st EXCEPT !["stream"] = 0]
      s == Drawing(taken, prim)
      after == AfterDraw(s)
  IN /\ PrepareDrawCall(s, after)
     /\ bound' = [after.bound EXCEPT !["streams"] = Nothing]
     /\ last' = LastBound(s)
     /\ st' = taken
DrawUP(prim) ==
  LET taken == [st EXCEPT !["stream"] = 0]
      s == Drawing(taken, prim)
      after == AfterDraw(s)
  IN /\ PrepareDrawCall(s, after)
     /\ bound' = [after.bound EXCEPT !["streams"] = Nothing]
     /\ last' = [LastBound(s) EXCEPT !.streams = Nothing]
     /\ st' = taken

-----------------------------------------------------------------------------
\* What else touches the list.  A list reset (FlushCommandListNoFence, the end
\* of SubmitAndWait) unbinds everything and says so.
ListReset ==
  /\ root' = "none"
  /\ bound' = Unbound
  /\ last' = Forgotten(last.pso, last.pso_prim)
  /\ flags' = DirtyFlags
  /\ texture_mask' = Textures
  /\ sampler_mask' = TRUE
  /\ untold' = {}

\* A mid-frame flush: a read-back, or RunDlaaExchange, which ends the scene.
MidFrameFlush(exchange) ==
  /\ Call
  /\ exchange => st["scene"]
  /\ ListReset
  /\ st' = [st EXCEPT !["scene"] = @ /\ ~exchange]
  /\ UNCHANGED <<cache, filled, blockVars>>

\* The end of a frame: the F6 key may switch the cache, and the next frame may
\* open a scene pass.
EndFrame(cached, scene) ==
  /\ Call
  /\ ListReset
  /\ cache' = (cached /\ CacheBuilt)
  /\ st' = [st EXCEPT !["scene"] = scene]
  /\ UNCHANGED <<filled, blockVars>>

\* ResolveScenePass at the same size: a copy, which binds nothing.
ResolveByCopy ==
  /\ Call
  /\ st["scene"]
  /\ st' = [st EXCEPT !["scene"] = FALSE]
  /\ flags' = flags \cup {"OM", "PSO"}
  /\ UNCHANGED <<maskVars, cache, listVars, untold, blockVars>>

\* ResolveScenePass at another size: a draw of its own, of a triangle list with
\* a root signature of its own.
Overdrawn == [p \in Parts |->
               CASE p = "topology" -> [i \in {"prim"} |-> "list"]
                 [] p \in {"stencil", "streams"} -> bound[p]
                 [] OTHER -> Nothing]
ResolveByBlit ==
  /\ Call
  /\ st["scene"]
  /\ st' = [st EXCEPT !["scene"] = FALSE]
  /\ bound' = Overdrawn
  /\ root' = "blit"
  /\ flags' = flags \cup {"OM", "PSO"}
  /\ untold' = untold \cup
       (IF cache THEN RootArguments \cup {"topology", "pso"} ELSE {"topology"})
       \X (Inputs \cup {"prim"})
  /\ UNCHANGED <<maskVars, cache, filled, last, blockVars>>

\* RecordMotionVectorPass, past its early returns: the same, but the caches are
\* told.
MotionPass ==
  /\ Call
  /\ st["scene"]
  /\ bound' = Overdrawn
  /\ root' = "motion"
  /\ last' = [last EXCEPT !.root = FALSE, !.set_pso = Nothing, !.prim = "none"]
  /\ flags' = flags \cup {"OM", "PSO"}
  /\ texture_mask' = Textures
  /\ sampler_mask' = TRUE
  /\ UNCHANGED <<st, cache, filled, untold, blockVars>>

-----------------------------------------------------------------------------
\* State blocks, one at a time, neither applied nor captured while one is being
\* recorded.  Transforms and lights are maps, which have no entry for what
\* was never set, and lose none.
Mapped == Inputs \cap {"world", "view", "projection", "light"}
Held(s) == [i \in {j \in Recordable : j \in Mapped => s[j] # 0} |-> s[i]]
ChangedFrom(s, t) ==  \* fault: it keeps where the recording began
  [i \in {j \in Recordable : s[j] # t[j]} |-> s[i]]
Changed(s, t) == [i \in {j \in Recordable : s[j] # t[j]} |-> t[i]]

CreateStateBlock ==
  /\ Call
  /\ ~recording
  /\ block' = Held(st)
  /\ promised' = [i \in Recordable |-> st[i]]
  /\ overlooked' = Recordable \ DOMAIN Held(st)
  /\ UNCHANGED <<st, flags, maskVars, cache, listVars, untold, start, recording>>

BeginStateBlock ==
  /\ Call
  /\ ~recording
  /\ recording' = TRUE
  /\ start' = [i \in Recordable |-> st[i]]
  /\ block' = Nothing
  /\ promised' = Nothing
  /\ overlooked' = {}
  /\ UNCHANGED <<st, flags, maskVars, cache, listVars, untold>>

\* EndStateBlock keeps what differs from where the recording began.
EndStateBlock ==
  /\ Call
  /\ recording
  /\ recording' = FALSE
  /\ block' = Changed(start, st)
  /\ overlooked' = {i \in Recordable : start[i] = st[i]}
  /\ UNCHANGED <<st, flags, maskVars, cache, listVars, untold, promised, start>>

\* CaptureStateBlock takes new values for what the block already holds.
CaptureStateBlock ==
  /\ Call
  /\ ~recording
  /\ block' = [i \in DOMAIN block |-> st[i]]
  /\ promised' = [i \in DOMAIN promised |-> st[i]]
  /\ UNCHANGED <<st, flags, maskVars, cache, listVars, untold, overlooked, start, recording>>

ApplyStateBlock ==
  /\ Call
  /\ ~recording
  /\ st' = [i \in DOMAIN st |-> IF i \in DOMAIN block THEN block[i] ELSE st[i]]
  /\ flags' = DirtyFlags
  /\ texture_mask' = Textures
  /\ sampler_mask' = TRUE
  /\ UNCHANGED <<cache, listVars, untold, blockVars>>

-----------------------------------------------------------------------------
Set == \/ \E i \in Inputs : \E v \in Values(i) :
            Store(i, v) \/ SetTexture(i, v) \/ ChangeSetting(i, v)
       \/ \E v \in Values("viewport") : SetViewport(v)
       \/ \E v \in Values("target") : SetRenderTarget(v) \/ SetRenderTargetFails(v)
Blocks == \/ CreateStateBlock \/ BeginStateBlock \/ EndStateBlock
          \/ CaptureStateBlock \/ ApplyStateBlock
Others == \/ ResolveByCopy \/ ResolveByBlit \/ MotionPass
          \/ \E exchange \in BOOLEAN : MidFrameFlush(exchange)
          \/ \E cached, scene \in BOOLEAN : EndFrame(cached, scene)

Next == Set \/ Blocks \/ Others \/ BeginScene \/ \E p \in Prims : Draw(p) \/ DrawUP(p)

Spec == Init /\ [][Next]_vars

-----------------------------------------------------------------------------
TypeOK ==
  /\ \A i \in Inputs : st[i] \in Values(i)
  /\ st["scene"] \in BOOLEAN
  /\ flags \subseteq DirtyFlags
  /\ texture_mask \subseteq Textures
  /\ sampler_mask \in BOOLEAN
  /\ cache \in BOOLEAN
  /\ \A p \in Parts : DOMAIN bound[p] \subseteq Reads(p)
  /\ DOMAIN block \subseteq Recordable
  /\ recording \in BOOLEAN
  /\ calls \in 0 .. MaxCalls

\* A draw is drawn with the state the game has set, whatever was drawn, flushed,
\* restored or bound by the frame's own passes in between: PrepareDrawCall skips
\* a binding only when it is already there.  What no flag announces is excepted
\* until it is made again: a SetViewport, the vertex constants' share of a
\* SetRenderTarget, what a failed SetRenderTarget has stored, and the topology
\* after the scene was scaled onto the back buffer; with the cache on, also the
\* settings and everything that blit has unbound.
DrawsSeeTheirState == wrong \subseteq untold

\* The primitives of a draw are assembled the way the draw asks for
\* (PrepareDrawCall: IASetPrimitiveTopology is skipped only when redundant).
\* Refuted: not after the scene was scaled onto the back buffer.
DrawsUseTheirTopology == \A w \in wrong : w[1] # "topology"

\* Applying a block gives back every state it was asked to hold (CreateStateBlock,
\* the calls of a recording, CaptureStateBlock), except a call that left a state
\* as it was when the recording began, and a transform or light that had not been
\* set when a full block was created.  Nothing else changes.
BlocksRestore ==
  [][calls' = calls + 1 /\ ApplyStateBlock =>
       \A i \in Recordable :
         st'[i] = IF i \in DOMAIN promised \ overlooked THEN promised[i] ELSE st[i]]_vars
==============================================================================
