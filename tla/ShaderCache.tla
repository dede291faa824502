------------------------------ MODULE ShaderCache ------------------------------
(***************************************************************************)
(* Which compiled code a draw runs.  Vertex shaders are kept by handle, a  *)
(* vertex format standing for its own handle; fixed-function pixel shaders *)
(* are kept by the stage states they were generated from; pipeline states  *)
(* by the identities of their two shaders.  The lighting mode and a mod's  *)
(* injected code are compiled in, and both may change while shaders are    *)
(* alive; a mod registers and unregisters its callback on a thread of its  *)
(* own, in the middle of a draw if it likes.                               *)
(***************************************************************************)
EXTENDS Naturals, FiniteSets

CONSTANTS Formats,        \* vertex formats: handles below kFirstShaderHandle
          StageStates,    \* render and stage states a pixel shader is made from
          Callbacks,      \* pixel shader injection callbacks of mods
          None,
          MaxCreated, MaxId, MaxGeneration  \* bounds of the model

\* Handles from CreateVertexShader and CreatePixelShader, in order.
Created == 1 .. MaxCreated
Handles == Formats \cup Created

VertexCodes == [of : Handles, mode : {0, 1, None}]
PixelCodes == [of : StageStates \cup Created, mode : {0, 1, None},
               injected : Callbacks \cup {None}, generation : 0 .. MaxGeneration]
Psos == [vs : VertexCodes, ps : PixelCodes]
DrawRecords == [pso : Psos, since : 0 .. MaxGeneration, reused : BOOLEAN]
Shaders(codes) == [id : Nat, code : codes]

ASSUME BoundsAssumption == MaxCreated \in Nat /\ MaxId \in Nat \ {0} /\ MaxGeneration \in Nat
ASSUME NamesAssumption == IsFiniteSet(Formats) /\ Created \cap (Formats \cup StageStates) = {}
ASSUME NoneAssumption ==
  None \notin Handles \cup StageStates \cup Callbacks \cup Shaders(VertexCodes) \cup Shaders(PixelCodes)
              \cup Psos \cup DrawRecords

VARIABLES
  lighting_mode,      \* Config::lighting_mode: 0, or 1 for PerPixel
  vertex_shaders, pixel_shaders, next_shader_handle,
  bound_vertex_shader, bound_pixel_shader,
  stages,             \* render_state_ and texture_stage_states_
  next_id,            \* NextShaderId's counter
  ps_cache, pso_cache,
  applied,            \* applied_pixel_shader_injection_generation_
  injection,          \* the callback and the generation, under the mutex
  running,            \* the callback being invoked: the mutex is held meanwhile
  caching,            \* CacheDrawStateBindings()
  dirty_pso, last_pso,
  draw,               \* the draw under way: how far it is, what it has read
  drawn               \* what the last step drew with, if it drew

shaders == <<vertex_shaders, pixel_shaders, next_shader_handle, next_id>>
bindings == <<bound_vertex_shader, bound_pixel_shader, stages>>
caches == <<ps_cache, pso_cache, applied, last_pso>>
vars == <<lighting_mode, shaders, bindings, caches, injection, running, caching,
          dirty_pso, draw, drawn>>

-----------------------------------------------------------------------------
\* Compiled code is known by what it was compiled from: the shader or stage
\* states, the lighting mode compiled in, and the injected callback together
\* with the generation it was asked at.
Code(of, mode) == [of |-> of, mode |-> mode]
PixelCode(of, mode, injected, generation) ==
  [of |-> of, mode |-> mode, injected |-> injected, generation |-> generation]
Fixed(of) == Code(of, lighting_mode)                  \* CreateFixedFunctionVertexShader
Programmed(of) == Code(of, None)                      \* ParseProgrammableVertexShader
Shader(id, code) == [id |-> id, code |-> code]

Live(f) == {f[x].id : x \in {y \in DOMAIN f : f[y] # None}}
NextShaderIdOfFreed ==  \* fault: the lowest identity no live shader has, as an address would be
  CHOOSE n \in 1 .. MaxId + 1 :
     /\ n \notin Live(vertex_shaders) \cup Live(pixel_shaders) \cup Live(ps_cache)
     /\ \A k \in 1 .. n - 1 : k \in Live(vertex_shaders) \cup Live(pixel_shaders) \cup Live(ps_cache)
NextShaderId == next_id

Init ==
  /\ lighting_mode \in 0 .. 1
  /\ vertex_shaders = [h \in Handles |-> None]
  /\ pixel_shaders = [h \in Created |-> None]
  /\ next_shader_handle = 1 /\ next_id = 1
  /\ bound_vertex_shader = None /\ bound_pixel_shader = None
  /\ stages \in StageStates
  /\ ps_cache = [s \in StageStates |-> None]
  /\ pso_cache = [k \in {} |-> None]
  /\ applied = 0
  /\ injection = [callback |-> None, generation |-> 0]
  /\ running = None
  /\ caching \in BOOLEAN /\ dirty_pso = TRUE /\ last_pso = None
  /\ draw = [at |-> "none", since |-> 0, enabled |-> FALSE]
  /\ drawn = None

-----------------------------------------------------------------------------
\* The game's calls, between draws.
InGame == draw.at = "none" /\ drawn' = None

CreateVertexShader ==
  /\ InGame /\ next_shader_handle \in Created /\ next_id < MaxId
  /\ \E code \in {Fixed(next_shader_handle), Programmed(next_shader_handle)} :
       vertex_shaders' = [vertex_shaders EXCEPT ![next_shader_handle] = Shader(NextShaderId, code)]
  /\ next_shader_handle' = next_shader_handle + 1 /\ next_id' = next_id + 1
  /\ UNCHANGED <<lighting_mode, pixel_shaders, bindings, caches, injection, running, caching, dirty_pso, draw>>

CreatePixelShader ==
  /\ InGame /\ next_shader_handle \in Created /\ next_id < MaxId
  /\ pixel_shaders' = [pixel_shaders EXCEPT ![next_shader_handle] =
                         Shader(NextShaderId, PixelCode(next_shader_handle, None, None, 0))]
  /\ next_shader_handle' = next_shader_handle + 1 /\ next_id' = next_id + 1
  /\ UNCHANGED <<lighting_mode, vertex_shaders, bindings, caches, injection, running, caching, dirty_pso, draw>>

\* A game does not delete the shader that is bound: the next draw would not find
\* it and the program would end.
DeleteVertexShader(h) ==
  /\ InGame /\ vertex_shaders[h] # None /\ h \in Created /\ bound_vertex_shader # h
  /\ vertex_shaders' = [vertex_shaders EXCEPT ![h] = None]
  /\ UNCHANGED <<lighting_mode, pixel_shaders, next_shader_handle, next_id, bindings, caches,
                 injection, running, caching, dirty_pso, draw>>
DeletePixelShader(h) ==
  /\ InGame /\ pixel_shaders[h] # None /\ bound_pixel_shader # h
  /\ pixel_shaders' = [pixel_shaders EXCEPT ![h] = None]
  /\ UNCHANGED <<lighting_mode, vertex_shaders, next_shader_handle, next_id, bindings, caches,
                 injection, running, caching, dirty_pso, draw>>

\* A format's shader is made the first time it is set.
SetFormat(f) ==
  /\ InGame
  /\ IF vertex_shaders[f] = None
     THEN /\ next_id < MaxId /\ next_id' = next_id + 1
          /\ vertex_shaders' = [vertex_shaders EXCEPT ![f] = Shader(NextShaderId, Fixed(f))]
     ELSE UNCHANGED <<next_id, vertex_shaders>>
  /\ bound_vertex_shader' = f /\ dirty_pso' = TRUE
  /\ UNCHANGED <<lighting_mode, pixel_shaders, next_shader_handle, bound_pixel_shader, stages,
                 caches, injection, running, caching, draw>>
SetVertexShader(h) ==
  /\ InGame /\ h \in Created /\ vertex_shaders[h] # None
  /\ bound_vertex_shader' = h /\ dirty_pso' = TRUE
  /\ UNCHANGED <<lighting_mode, shaders, bound_pixel_shader, stages, caches, injection, running, caching, draw>>

SetPixelShader(h) ==
  /\ InGame /\ (h # None => pixel_shaders[h] # None)
  /\ bound_pixel_shader' = h /\ dirty_pso' = TRUE
  /\ UNCHANGED <<lighting_mode, shaders, bound_vertex_shader, stages, caches, injection, running, caching, draw>>
SetStages(s) ==
  /\ InGame /\ s # stages
  /\ stages' = s /\ dirty_pso' = TRUE
  /\ UNCHANGED <<lighting_mode, shaders, bound_vertex_shader, bound_pixel_shader, caches, injection,
                 running, caching, draw>>

ToggleCaching ==
  /\ InGame /\ caching' = ~caching
  /\ UNCHANGED <<lighting_mode, shaders, bindings, caches, injection, running, dirty_pso, draw>>

\* SetConfigValueInt("LightingMode") and OnLightingModeChanged: the shaders of
\* formats are compiled again in place, under new identities; no flag is raised.
RegeneratedUnderOldId(f, n) == vertex_shaders[f].id  \* fault: unique_id is not copied
RegeneratedId(f, n) == n
Regenerated == {f \in Formats : vertex_shaders[f] # None}
SetLightingMode(m) ==
  /\ InGame /\ m # lighting_mode /\ next_id + Cardinality(Regenerated) <= MaxId
  /\ lighting_mode' = m
  /\ \E order \in [Regenerated -> next_id .. next_id + Cardinality(Regenerated) - 1] :
       /\ \A f, g \in Regenerated : f # g => order[f] # order[g]
       /\ vertex_shaders' = [h \in Handles |->
            IF h \in Regenerated THEN Shader(RegeneratedId(h, order[h]), Code(h, m)) ELSE vertex_shaders[h]]
  /\ next_id' = next_id + Cardinality(Regenerated)
  /\ ps_cache' = [s \in StageStates |-> None]
  /\ UNCHANGED <<pixel_shaders, next_shader_handle, bindings, pso_cache, applied, last_pso, injection,
                 running, caching, dirty_pso, draw>>

-----------------------------------------------------------------------------
\* A mod's calls, on any thread, each under the mutex, which is held while the
\* callback runs.
MutexFreeAlways == TRUE  \* fault: the mutex is let go before the callback is called
MutexFree == running = None
InMod == MutexFree /\ drawn' = None /\ injection.generation < MaxGeneration

RegisterPixelShaderInjection(c) ==
  /\ InMod /\ injection.callback = None
  /\ injection' = [callback |-> c, generation |-> injection.generation + 1]
  /\ UNCHANGED <<lighting_mode, shaders, bindings, caches, running, caching, dirty_pso, draw>>
UnregisterPixelShaderInjection ==
  /\ InMod /\ injection.callback # None
  /\ injection' = [callback |-> None, generation |-> injection.generation + 1]
  /\ UNCHANGED <<lighting_mode, shaders, bindings, caches, running, caching, dirty_pso, draw>>
InvalidatePixelShaderCache ==
  /\ InMod /\ injection' = [injection EXCEPT !.generation = @ + 1]
  /\ UNCHANGED <<lighting_mode, shaders, bindings, caches, running, caching, dirty_pso, draw>>

-----------------------------------------------------------------------------
\* The end of CreatePSO: the pipeline state of the two shaders, by their
\* identities.
Pso(vs, ps) == [vs |-> vs.code, ps |-> ps.code]
PsoOf(vs, ps) ==
  IF <<vs.id, ps.id>> \in DOMAIN pso_cache THEN pso_cache[<<vs.id, ps.id>>] ELSE Pso(vs, ps)
DrawWith(ps, since) ==
  LET vs == vertex_shaders[bound_vertex_shader]
      key == <<vs.id, ps.id>>
      pso == PsoOf(vs, ps)
  IN /\ pso_cache' = [k \in DOMAIN pso_cache \cup {key} |-> IF k = key THEN pso ELSE pso_cache[k]]
     /\ last_pso' = pso /\ dirty_pso' = FALSE
     /\ drawn' = [pso |-> pso, since |-> since, reused |-> FALSE]
     /\ draw' = [at |-> "none", since |-> 0, enabled |-> FALSE]

\* PrepareDrawCall: CreatePSO is left out when nothing that was announced has
\* changed.
Reused == caching /\ ~dirty_pso
DrawAgain ==
  /\ draw.at = "none" /\ Reused /\ last_pso # None
  /\ drawn' = [pso |-> last_pso, since |-> 0, reused |-> TRUE]
  /\ UNCHANGED <<lighting_mode, shaders, bindings, caches, injection, running, caching, dirty_pso, draw>>

DrawProgrammed ==
  /\ draw.at = "none" /\ bound_vertex_shader # None /\ ~Reused /\ bound_pixel_shader # None
  /\ DrawWith(pixel_shaders[bound_pixel_shader], 0)
  /\ UNCHANGED <<lighting_mode, shaders, bindings, ps_cache, applied, injection, running, caching>>

\* CreatePSO without a pixel shader: the generation is read, and shaders of an
\* older one are dropped.
KeptForAny(generation) == ps_cache  \* fault: the cache is not cleared
KeptFor(generation) == IF applied = generation THEN ps_cache ELSE [s \in StageStates |-> None]
StartDraw ==
  /\ InGame /\ bound_vertex_shader # None /\ ~Reused /\ bound_pixel_shader = None
  /\ next_id < MaxId
  /\ ps_cache' = KeptFor(injection.generation) /\ applied' = injection.generation
  /\ draw' = [at |-> "looking", since |-> injection.generation, enabled |-> injection.callback # None]
  /\ UNCHANGED <<lighting_mode, shaders, bindings, pso_cache, last_pso, injection, running, caching, dirty_pso>>

\* The cache has it.
DrawCached ==
  /\ draw.at = "looking" /\ ps_cache[stages] # None
  /\ DrawWith(ps_cache[stages], draw.since)
  /\ UNCHANGED <<lighting_mode, shaders, bindings, ps_cache, applied, injection, running, caching>>

\* It is generated, with what the callback returned when there is one.
DrawCompiled(injected, generation) ==
  LET ps == Shader(NextShaderId, PixelCode(stages, lighting_mode, injected, generation))
  IN /\ next_id' = next_id + 1
     /\ ps_cache' = [ps_cache EXCEPT ![stages] = ps]
     /\ DrawWith(ps, draw.since)
     /\ UNCHANGED <<lighting_mode, vertex_shaders, pixel_shaders, next_shader_handle, bindings, applied,
                    injection, caching>>
CompilePlain ==
  /\ draw.at = "looking" /\ ps_cache[stages] = None
  /\ \/ ~draw.enabled /\ DrawCompiled(None, draw.since)
     \/ draw.enabled /\ injection.callback = None /\ DrawCompiled(None, injection.generation)
  /\ UNCHANGED running
InvokePixelShaderInjection ==
  /\ draw.at = "looking" /\ ps_cache[stages] = None /\ draw.enabled /\ injection.callback # None
  /\ running' = injection.callback /\ draw' = [draw EXCEPT !.at = "invoking"] /\ drawn' = None
  /\ UNCHANGED <<lighting_mode, shaders, bindings, caches, injection, caching, dirty_pso>>
\* It returns code that compiles, or the shader is compiled without.
InvokeReturns ==
  /\ draw.at = "invoking" /\ running' = None
  /\ \E injected \in {running, None} : DrawCompiled(injected, injection.generation)

GameCalls ==
  \/ CreateVertexShader \/ CreatePixelShader
  \/ \E h \in Created : DeleteVertexShader(h) \/ DeletePixelShader(h) \/ SetVertexShader(h)
  \/ \E f \in Formats : SetFormat(f)
  \/ \E h \in Created \cup {None} : SetPixelShader(h)
  \/ \E s \in StageStates : SetStages(s)
  \/ ToggleCaching
  \/ \E m \in 0 .. 1 : SetLightingMode(m)
ModCalls ==
  \/ \E c \in Callbacks : RegisterPixelShaderInjection(c)
  \/ UnregisterPixelShaderInjection \/ InvalidatePixelShaderCache
Draws ==
  \/ DrawAgain \/ DrawProgrammed \/ StartDraw \/ DrawCached \/ CompilePlain
  \/ InvokePixelShaderInjection \/ InvokeReturns
Next == GameCalls \/ ModCalls \/ Draws
Spec == Init /\ [][Next]_vars

-----------------------------------------------------------------------------
TypeOK ==
  /\ lighting_mode \in 0 .. 1
  /\ vertex_shaders \in [Handles -> Shaders(VertexCodes) \cup {None}]
  /\ pixel_shaders \in [Created -> Shaders(PixelCodes) \cup {None}]
  /\ next_shader_handle \in 1 .. MaxCreated + 1 /\ next_id \in 1 .. MaxId
  /\ bound_vertex_shader \in Handles \cup {None} /\ bound_pixel_shader \in Created \cup {None}
  /\ stages \in StageStates
  /\ ps_cache \in [StageStates -> Shaders(PixelCodes) \cup {None}]
  /\ \A k \in DOMAIN pso_cache : k \in Nat \X Nat /\ pso_cache[k] \in Psos
  /\ applied \in 0 .. MaxGeneration
  /\ injection \in [callback : Callbacks \cup {None}, generation : 0 .. MaxGeneration]
  /\ running \in Callbacks \cup {None}
  /\ caching \in BOOLEAN /\ dirty_pso \in BOOLEAN /\ last_pso \in Psos \cup {None}
  /\ draw \in [at : {"none", "looking", "invoking"}, since : 0 .. MaxGeneration, enabled : BOOLEAN]
  /\ drawn \in DrawRecords \cup {None}

\* A draw runs the vertex and the pixel shader that are bound, or the pixel
\* shader of the stage states set, whatever has been deleted, created or
\* compiled again before: identities are never reused and every call that
\* changes a binding has the pipeline state looked up again (NextShaderId,
\* PSOState, DIRTY_FLAG_PSO).
DrawsRunTheBoundShaders ==
  drawn # None =>
    /\ drawn.pso.vs.of = bound_vertex_shader
    /\ drawn.pso.ps.of = IF bound_pixel_shader = None THEN stages ELSE bound_pixel_shader

\* Geometry is lit in exactly one place: with the draw-state cache off, the
\* vertex shader of a format and the generated pixel shader it is drawn with
\* were both compiled for the mode in force (OnLightingModeChanged).
IsFixed(code) == code.of \in StageStates
LitInOnePlace ==
  drawn # None /\ ~drawn.reused =>
    /\ drawn.pso.vs.of \in Formats => drawn.pso.vs.mode = lighting_mode
    /\ IsFixed(drawn.pso.ps) => drawn.pso.ps.mode = lighting_mode

\* With the draw-state cache off, a draw does not run code a mod had withdrawn
\* or replaced before the draw started, whichever step of another draw the
\* mod's calls fell between (CreatePSO reads the generation before it compiles).
InjectionIsCurrent ==
  drawn # None /\ ~drawn.reused /\ IsFixed(drawn.pso.ps) => drawn.pso.ps.generation >= drawn.since

\* A mod may be unloaded once its unregistration has returned: its callback is
\* not running then (InvokePixelShaderInjection).
CallbackRunsWhileRegistered == running # None => injection.callback = running

\* Every fixed-function vertex shader is compiled again when the mode changes,
\* those made by CreateVertexShader without a function included (the comment
\* in CreateFixedFunctionVertexShader).  Refuted: those are left as they were.
EveryFixedShaderFollowsTheMode ==
  drawn # None /\ ~drawn.reused /\ drawn.pso.vs.mode # None => drawn.pso.vs.mode = lighting_mode
==============================================================================
