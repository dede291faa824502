--------------------------- MODULE ShaderCache_proof ---------------------------
(***************************************************************************)
(* For any number of vertex formats, shaders, stage states and callbacks:  *)
(* a draw runs the shaders that are bound, lit in one place, with injected *)
(* code at least as new as the draw, and a callback that runs is           *)
(* registered.  What the caches rely on is that no identity is given to    *)
(* two shaders.                                                            *)
(***************************************************************************)
EXTENDS ShaderCache, FiniteSetTheorems, TLAPS

\* A shader is known under what it was compiled from.
Named ==
  /\ \A h \in Handles : vertex_shaders[h] # None => vertex_shaders[h].code.of = h
  /\ \A h \in Created : pixel_shaders[h] # None => pixel_shaders[h].code.of = h
  /\ \A s \in StageStates : ps_cache[s] # None => ps_cache[s].code.of = s

\* What depends on the lighting mode and on the mod is of the mode and of a
\* generation in force.
Current ==
  /\ \A f \in Formats : vertex_shaders[f] # None => vertex_shaders[f].code.mode = lighting_mode
  /\ \A s \in StageStates : ps_cache[s] # None =>
       ps_cache[s].code.mode = lighting_mode /\ ps_cache[s].code.generation >= applied
  /\ applied <= injection.generation

\* No two shaders of a kind have the same identity.
Identified ==
  /\ \A h \in Handles : vertex_shaders[h] # None => vertex_shaders[h].id < next_id
  /\ \A h \in Created : pixel_shaders[h] # None => pixel_shaders[h].id < next_id
  /\ \A s \in StageStates : ps_cache[s] # None => ps_cache[s].id < next_id
  /\ \A g, h \in Handles : vertex_shaders[g] # None /\ vertex_shaders[h] # None
       /\ vertex_shaders[g].id = vertex_shaders[h].id => g = h
  /\ \A g, h \in Created : pixel_shaders[g] # None /\ pixel_shaders[h] # None
       /\ pixel_shaders[g].id = pixel_shaders[h].id => g = h
  /\ \A r, s \in StageStates : ps_cache[r] # None /\ ps_cache[s] # None
       /\ ps_cache[r].id = ps_cache[s].id => r = s
  /\ \A h \in Created, s \in StageStates : pixel_shaders[h] # None /\ ps_cache[s] # None
       => pixel_shaders[h].id # ps_cache[s].id

\* A pipeline state is found under the identities of the shaders it was made of.
Agreed ==
  \A k \in DOMAIN pso_cache :
    /\ k \in Nat \X Nat /\ k[1] < next_id /\ k[2] < next_id
    /\ pso_cache[k] \in Psos
    /\ \A h \in Handles : vertex_shaders[h] # None /\ vertex_shaders[h].id = k[1]
         => pso_cache[k].vs = vertex_shaders[h].code
    /\ \A h \in Created : pixel_shaders[h] # None /\ pixel_shaders[h].id = k[2]
         => pso_cache[k].ps = pixel_shaders[h].code
    /\ \A s \in StageStates : ps_cache[s] # None /\ ps_cache[s].id = k[2]
         => pso_cache[k].ps = ps_cache[s].code

\* What is bound exists; a draw under way does not use a pixel shader of the
\* game's and has seen the generation it has applied; a callback that runs is
\* the one registered.
Bound ==
  /\ bound_vertex_shader # None => vertex_shaders[bound_vertex_shader] # None
  /\ bound_pixel_shader # None => pixel_shaders[bound_pixel_shader] # None
  /\ draw.at # "none" =>
       bound_vertex_shader # None /\ bound_pixel_shader = None /\ draw.since = applied /\ next_id < MaxId
  /\ draw.at = "invoking" <=> running # None
  /\ draw.at = "invoking" => ps_cache[stages] = None
  /\ CallbackRunsWhileRegistered

\* The pipeline state set last is that of the shaders bound, unless a flag says
\* otherwise.
Kept ==
  ~dirty_pso /\ last_pso # None =>
    /\ last_pso.vs.of = bound_vertex_shader
    /\ last_pso.ps.of = IF bound_pixel_shader = None THEN stages ELSE bound_pixel_shader

\* What a draw shows, as the run checks it.
Shown == DrawsRunTheBoundShaders /\ LitInOnePlace /\ InjectionIsCurrent

IInv == TypeOK /\ Named /\ Current /\ Identified /\ Agreed /\ Bound /\ Kept /\ Shown

LEMMA InitInvariant == Init => IInv
<1> SUFFICES ASSUME Init PROVE IInv
  OBVIOUS
<1> USE BoundsAssumption, NoneAssumption DEF Init
<1>1. TypeOK
  BY DEF TypeOK
<1>2. Named /\ Identified
  BY DEF Named, Identified
<1>3. Current
  BY DEF Current, Handles
<1>4. Agreed /\ Bound /\ Kept
  BY DEF Agreed, Bound, Kept, CallbackRunsWhileRegistered
<1>5. Shown
  BY DEF Shown, DrawsRunTheBoundShaders, LitInOnePlace, InjectionIsCurrent
<1>6. QED
  BY <1>1, <1>2, <1>3, <1>4, <1>5 DEF IInv

\* A step without a draw shows nothing.
LEMMA NothingDrawn == drawn' = None => Shown'
  BY DEF Shown, DrawsRunTheBoundShaders, LitInOnePlace, InjectionIsCurrent

-----------------------------------------------------------------------------
\* The game's calls.
LEMMA CreationKeeps == IInv /\ (CreateVertexShader \/ CreatePixelShader) => IInv'
<1> USE BoundsAssumption, NamesAssumption, NoneAssumption DEF IInv
<1> USE DEF InGame, shaders, bindings, caches, Fixed, Programmed, Code, PixelCode, Shader, NextShaderId
<1>1. ASSUME IInv, CreateVertexShader PROVE IInv'
  <2> USE <1>1 DEF CreateVertexShader
  <2>1. PICK code \in {Fixed(next_shader_handle), Programmed(next_shader_handle)} :
          vertex_shaders' = [vertex_shaders EXCEPT ![next_shader_handle] = Shader(NextShaderId, code)]
    OBVIOUS
  <2>2. code \in VertexCodes /\ code.of = next_shader_handle
    BY DEF VertexCodes, TypeOK, Handles
  <2>3. vertex_shaders' \in [Handles -> Shaders(VertexCodes) \cup {None}]
    <3>1. Shader(NextShaderId, code) \in Shaders(VertexCodes)
      BY <2>2 DEF Shaders, TypeOK
    <3>2. QED
      BY <2>1, <3>1 DEF TypeOK
  <2>4. TypeOK'
    BY SMTT(40), <2>3 DEF TypeOK, Created
  <2>5. Named' /\ Current'
    BY <2>1, <2>2 DEF TypeOK, Named, Current, Handles
  <2>6. Identified'
    BY <2>1 DEF TypeOK, Identified, Handles, Shaders
  <2>7. Agreed'
    BY <2>1 DEF TypeOK, Agreed, Handles, Shaders
  <2>8. Bound' /\ Kept'
    BY <2>1, <2>2 DEF TypeOK, Bound, Kept, CallbackRunsWhileRegistered, Handles, Shaders
  <2>9. QED
    BY <2>4, <2>5, <2>6, <2>7, <2>8, NothingDrawn
<1>2. ASSUME IInv, CreatePixelShader PROVE IInv'
  <2> USE <1>2 DEF CreatePixelShader
  <2>1. PixelCode(next_shader_handle, None, None, 0) \in PixelCodes
    BY DEF PixelCodes
  <2>2. pixel_shaders' \in [Created -> Shaders(PixelCodes) \cup {None}]
    BY <2>1 DEF Shaders, TypeOK
  <2>3. TypeOK'
    BY SMTT(40), <2>2 DEF TypeOK, Created
  <2>4. Named' /\ Current'
    BY DEF TypeOK, Named, Current, Handles
  <2>5. Identified'
    BY DEF TypeOK, Identified, Handles, Shaders
  <2>6. Agreed'
    BY DEF TypeOK, Agreed, Handles, Shaders
  <2>7. Bound' /\ Kept'
    BY <2>1 DEF TypeOK, Bound, Kept, CallbackRunsWhileRegistered, Shaders
  <2>8. QED
    BY <2>3, <2>4, <2>5, <2>6, <2>7, NothingDrawn
<1>3. QED
  BY <1>1, <1>2

\* What is deleted is not bound.
LEMMA DeletionKeeps ==
  ASSUME IInv, NEW h \in Created, DeleteVertexShader(h) \/ DeletePixelShader(h)
  PROVE  IInv'
<1> USE NamesAssumption, NoneAssumption DEF IInv
<1> USE DEF DeleteVertexShader, DeletePixelShader, InGame, bindings, caches
<1>1. TypeOK' /\ Named' /\ Current'
  BY DEF TypeOK, Named, Current, Handles
<1>2. Identified' /\ Agreed'
  BY SMTT(120) DEF TypeOK, Identified, Agreed, Handles
<1>3. Bound' /\ Kept'
  BY DEF TypeOK, Bound, Kept, CallbackRunsWhileRegistered
<1>4. QED
  BY <1>1, <1>2, <1>3, NothingDrawn

\* Whatever changes a binding raises the flag.
LEMMA BindingKeeps ==
  ASSUME IInv,
         \/ \E f \in Formats : SetFormat(f)
         \/ \E h \in Created : SetVertexShader(h)
         \/ \E h \in Created \cup {None} : SetPixelShader(h)
         \/ \E s \in StageStates : SetStages(s)
  PROVE  IInv'
<1> USE BoundsAssumption, NamesAssumption, NoneAssumption DEF IInv, InGame, shaders, caches
<1>1. ASSUME NEW f \in Formats, SetFormat(f) PROVE IInv'
  <2> USE <1>1 DEF SetFormat, NextShaderId, Fixed, Code, Shader
  <2>1. Shader(NextShaderId, Fixed(f)) \in Shaders(VertexCodes)
    BY DEF Shaders, VertexCodes, Handles, TypeOK
  <2>2. TypeOK'
    BY <2>1 DEF TypeOK, Handles
  <2>3. Named' /\ Current'
    BY <2>1 DEF TypeOK, Named, Current, Handles
  <2>4. Identified'
    BY <2>1 DEF TypeOK, Identified, Handles, Shaders
  <2>5. Agreed'
    BY <2>1 DEF TypeOK, Agreed, Handles, Shaders
  <2>6. Bound' /\ Kept'
    BY <2>1 DEF TypeOK, Bound, Kept, CallbackRunsWhileRegistered, Handles, Shaders
  <2>7. QED
    BY <2>2, <2>3, <2>4, <2>5, <2>6, NothingDrawn
<1>2. ASSUME \/ \E h \in Created : SetVertexShader(h)
             \/ \E h \in Created \cup {None} : SetPixelShader(h)
             \/ \E s \in StageStates : SetStages(s)
      PROVE IInv'
  <2> USE <1>2 DEF SetVertexShader, SetPixelShader, SetStages
  <2>1. TypeOK'
    BY ZenonT(120) DEF TypeOK, Handles
  <2>2. Named' /\ Current' /\ Identified' /\ Agreed'
    BY DEF Named, Current, Identified, Agreed
  <2>3. Bound' /\ Kept'
    BY DEF TypeOK, Bound, Kept, CallbackRunsWhileRegistered
  <2>4. QED
    BY <2>1, <2>2, <2>3, NothingDrawn
<1>3. QED
  BY <1>1, <1>2

\* The formats' shaders are compiled again under identities nobody has had.
LEMMA LightingModeKeeps ==
  ASSUME IInv, NEW m \in 0 .. 1, SetLightingMode(m)
  PROVE  IInv'
<1> USE BoundsAssumption, NamesAssumption, NoneAssumption
<1> USE DEF IInv, SetLightingMode, InGame, bindings, RegeneratedId, Code, Shader
<1> DEFINE n == Cardinality(Regenerated)
<1>1. n \in Nat /\ Regenerated \subseteq Formats
  BY FS_Subset, FS_CardinalityType DEF Regenerated
<1>2. PICK order \in [Regenerated -> next_id .. next_id + n - 1] :
        /\ \A f, g \in Regenerated : f # g => order[f] # order[g]
        /\ vertex_shaders' = [h \in Handles |->
             IF h \in Regenerated THEN Shader(RegeneratedId(h, order[h]), Code(h, m)) ELSE vertex_shaders[h]]
  OBVIOUS
<1> HIDE DEF n
<1>3. \A f \in Regenerated :
        order[f] \in Nat /\ order[f] >= next_id /\ order[f] < next_id + n
  BY <1>1, <1>2 DEF TypeOK
<1>4. next_id' = next_id + n /\ next_id + n \in 1 .. MaxId
  BY <1>1 DEF n, TypeOK
<1>5. \A h \in Handles :
        vertex_shaders'[h] = IF h \in Regenerated THEN [id |-> order[h], code |-> [of |-> h, mode |-> m]]
                             ELSE vertex_shaders[h]
  BY <1>2
<1>6. \A f \in Regenerated :
        f \in Handles /\ [id |-> order[f], code |-> [of |-> f, mode |-> m]] \in Shaders(VertexCodes)
  BY <1>1, <1>3 DEF Handles, Shaders, VertexCodes
<1>7. vertex_shaders' \in [Handles -> Shaders(VertexCodes) \cup {None}]
  BY <1>2, <1>6 DEF TypeOK
<1>8. TypeOK'
  BY <1>4, <1>7 DEF TypeOK
<1>9. Named' /\ Current'
  BY <1>5 DEF Named, Current, TypeOK, Handles, Regenerated
<1>10. Identified'
  BY <1>1, <1>2, <1>3, <1>4, <1>5, <1>7 DEF Identified, TypeOK, Shaders, Handles
<1>11. Agreed'
  BY <1>1, <1>3, <1>4, <1>5, <1>7 DEF Agreed, TypeOK, Shaders, Handles
<1>12. Bound' /\ Kept'
  <2>1. \A h \in Handles : vertex_shaders[h] # None => vertex_shaders'[h] # None
    <3>1. \A x \in Shaders(VertexCodes) : x # None
      BY NoneAssumption
    <3>2. QED
      BY <1>5, <1>6, <3>1
  <2>2. QED
    BY <2>1 DEF Bound, Kept, CallbackRunsWhileRegistered, TypeOK
<1>13. QED
  BY <1>8, <1>9, <1>10, <1>11, <1>12, NothingDrawn

-----------------------------------------------------------------------------
\* A mod's calls and the draw-state cache's switch.
LEMMA ModKeeps == IInv /\ (ModCalls \/ ToggleCaching) => IInv'
<1> SUFFICES ASSUME IInv, ModCalls \/ ToggleCaching PROVE IInv'
  OBVIOUS
<1> USE NoneAssumption DEF IInv, ModCalls, RegisterPixelShaderInjection, UnregisterPixelShaderInjection,
      InvalidatePixelShaderCache, ToggleCaching, InMod, InGame, MutexFree, shaders, bindings, caches
<1>1. TypeOK' /\ Current'
  <2>1. /\ injection' \in [callback : Callbacks \cup {None}, generation : 0 .. MaxGeneration]
        /\ injection'.generation >= injection.generation
    BY BoundsAssumption DEF TypeOK
  <2>2. caching' \in BOOLEAN
    BY DEF TypeOK
  <2>3. QED
    BY <2>1, <2>2, BoundsAssumption DEF TypeOK, Current
<1>2. Named' /\ Identified' /\ Agreed' /\ Kept'
  BY DEF Named, Identified, Agreed, Kept
<1>3. Bound'
  BY DEF Bound, CallbackRunsWhileRegistered
<1>4. QED
  BY <1>1, <1>2, <1>3, NothingDrawn

-----------------------------------------------------------------------------
\* The vertex shader a draw uses.
BoundShader == vertex_shaders[bound_vertex_shader]

\* What is found in the cache of pipeline states is what would be made.
LEMMA FoundIsMade ==
  ASSUME IInv, bound_vertex_shader # None, NEW ps \in Shaders(PixelCodes),
         \/ \E h \in Created : ps = pixel_shaders[h]
         \/ \E s \in StageStates : ps = ps_cache[s]
         \/ ps.id = next_id
  PROVE  /\ BoundShader \in Shaders(VertexCodes) /\ BoundShader.code.of = bound_vertex_shader
         /\ BoundShader.id < next_id
         /\ PsoOf(BoundShader, ps) = Pso(BoundShader, ps)
         /\ Pso(BoundShader, ps) \in Psos
<1> USE NoneAssumption DEF IInv
<1>1. /\ bound_vertex_shader \in Handles
      /\ BoundShader \in Shaders(VertexCodes) /\ BoundShader.code.of = bound_vertex_shader
      /\ BoundShader.id < next_id
  BY DEF BoundShader, TypeOK, Bound, Named, Identified
<1>2. Pso(BoundShader, ps) \in Psos
  BY <1>1 DEF Pso, Psos, Shaders
<1>3. ASSUME <<BoundShader.id, ps.id>> \in DOMAIN pso_cache
      PROVE  pso_cache[<<BoundShader.id, ps.id>>] = Pso(BoundShader, ps)
  <2> DEFINE k == <<BoundShader.id, ps.id>>
  <2>1. ps.id < next_id /\ pso_cache[k] \in Psos
    BY <1>3 DEF Agreed
  <2>2. pso_cache[k].vs = BoundShader.code
    BY <1>1, <1>3 DEF Agreed, BoundShader, Bound
  <2>3. pso_cache[k].ps = ps.code
    <3>1. k[2] = ps.id /\ k[2] < next_id /\ k[2] \in Nat /\ next_id \in Nat /\ ps # None
      BY <1>3 DEF Agreed, TypeOK
    <3>2. (\E h \in Created : ps = pixel_shaders[h]) \/ \E s \in StageStates : ps = ps_cache[s]
      BY SMTT(40), <3>1
    <3>3. QED
      BY <1>3, <3>1, <3>2 DEF Agreed
  <2>4. QED
    BY <2>1, <2>2, <2>3 DEF Pso, Psos
<1>4. QED
  BY <1>1, <1>2, <1>3 DEF PsoOf

\* The end of a draw with a pixel shader that is the game's or cached by then.
LEMMA DrawWithKeeps ==
  ASSUME IInv, bound_vertex_shader # None, NEW ps \in Shaders(PixelCodes), NEW since \in 0 .. MaxGeneration,
         \/ \E h \in Created : ps = pixel_shaders[h]
         \/ \E s \in StageStates : ps = ps_cache[s]
         \/ ps.id = next_id,
         DrawWith(ps, since), UNCHANGED <<lighting_mode, vertex_shaders, pixel_shaders, bindings>>,
         next_id' \in Nat, next_id' >= next_id, ps.id < next_id',
         \A h \in Created : pixel_shaders[h] # None /\ pixel_shaders[h].id = ps.id => pixel_shaders[h] = ps,
         \A s \in StageStates : ps_cache'[s] # None =>
            /\ ps_cache'[s] = ps_cache[s] \/ ps_cache'[s].id = next_id
            /\ ps_cache'[s].id = ps.id => ps_cache'[s] = ps,
         ps.code.of = IF bound_pixel_shader = None THEN stages ELSE bound_pixel_shader,
         bound_pixel_shader = None => ps.code.mode = lighting_mode /\ ps.code.generation >= since
  PROVE  /\ Agreed' /\ Kept' /\ Shown'
         /\ last_pso' \in Psos /\ drawn' \in DrawRecords
         /\ dirty_pso' = FALSE /\ draw' = [at |-> "none", since |-> 0, enabled |-> FALSE]
         /\ \A k \in DOMAIN pso_cache' : k \in Nat \X Nat /\ pso_cache'[k] \in Psos
<1> USE NoneAssumption DEF IInv, bindings
<1> DEFINE key == <<BoundShader.id, ps.id>>
           pso == Pso(BoundShader, ps)
<1>1. /\ BoundShader \in Shaders(VertexCodes) /\ BoundShader.code.of = bound_vertex_shader
      /\ BoundShader.id < next_id /\ pso \in Psos
      /\ pso_cache' = [k \in DOMAIN pso_cache \cup {key} |-> IF k = key THEN pso ELSE pso_cache[k]]
      /\ last_pso' = pso /\ dirty_pso' = FALSE
      /\ drawn' = [pso |-> pso, since |-> since, reused |-> FALSE]
      /\ draw' = [at |-> "none", since |-> 0, enabled |-> FALSE]
  BY FoundIsMade DEF DrawWith, BoundShader
<1>2. pso.vs = BoundShader.code /\ pso.ps = ps.code
  BY DEF Pso
<1>3. Agreed'
  <2> SUFFICES ASSUME NEW k \in DOMAIN pso_cache'
               PROVE  /\ k \in Nat \X Nat /\ k[1] < next_id' /\ k[2] < next_id'
                      /\ pso_cache'[k] \in Psos
                      /\ \A h \in Handles : vertex_shaders[h] # None /\ vertex_shaders[h].id = k[1]
                           => pso_cache'[k].vs = vertex_shaders[h].code
                      /\ \A h \in Created : pixel_shaders[h] # None /\ pixel_shaders[h].id = k[2]
                           => pso_cache'[k].ps = pixel_shaders[h].code
                      /\ \A s \in StageStates : ps_cache'[s] # None /\ ps_cache'[s].id = k[2]
                           => pso_cache'[k].ps = ps_cache'[s].code
    BY DEF Agreed
  <2>1. CASE k = key
    <3>1. pso_cache'[k] = pso
      BY <1>1, <2>1
    <3>2. \A h \in Handles : vertex_shaders[h] # None /\ vertex_shaders[h].id = BoundShader.id
            => vertex_shaders[h] = BoundShader
      BY DEF Identified, BoundShader, TypeOK, Bound
    <3>3. BoundShader.id \in Nat /\ ps.id \in Nat
      BY <1>1 DEF Shaders
    <3>4. QED
      BY <1>1, <1>2, <2>1, <3>1, <3>2, <3>3 DEF TypeOK
  <2>2. CASE k # key
    <3>1. k \in DOMAIN pso_cache /\ pso_cache'[k] = pso_cache[k]
      BY <1>1, <2>2
    <3>2. k[2] \in Nat /\ k[1] \in Nat /\ k[2] < next_id /\ k[1] < next_id
      BY <3>1 DEF Agreed
    <3>3. QED
      BY <3>1, <3>2 DEF Agreed, TypeOK
  <2>3. QED
    BY <2>1, <2>2
<1>4. Kept'
  BY <1>1, <1>2 DEF Kept
<1>5. drawn' \in DrawRecords
  BY <1>1 DEF DrawRecords
<1>6. Shown'
  <2>1. drawn'.pso = pso /\ drawn'.since = since
    BY <1>1
  <2>2. bound_vertex_shader \in Formats => BoundShader.code.mode = lighting_mode
    BY DEF Current, Bound, BoundShader
  <2>3. bound_pixel_shader # None => ps.code.of \notin StageStates
    BY NamesAssumption DEF TypeOK
  <2>4. QED
    BY <1>1, <1>2, <2>1, <2>2, <2>3
       DEF Shown, DrawsRunTheBoundShaders, LitInOnePlace, InjectionIsCurrent, IsFixed
<1>7. QED
  BY <1>1, <1>3, <1>4, <1>5, <1>6 DEF Agreed

\* No draw is under way after that.
LEMMA NoDraw ==
  draw' = [at |-> "none", since |-> 0, enabled |-> FALSE]
    => draw' \in [at : {"none", "looking", "invoking"}, since : 0 .. MaxGeneration, enabled : BOOLEAN]
  BY BoundsAssumption

LEMMA DrawAgainKeeps == IInv /\ DrawAgain => IInv'
<1> SUFFICES ASSUME IInv, DrawAgain PROVE IInv'
  OBVIOUS
<1> USE NoneAssumption DEF IInv, DrawAgain, Reused, shaders, bindings, caches
<1>1. TypeOK'
  BY BoundsAssumption DEF TypeOK, DrawRecords
<1>2. Named' /\ Current' /\ Identified' /\ Agreed' /\ Kept'
  BY DEF Named, Current, Identified, Agreed, Kept
<1>3. Bound'
  BY DEF Bound, CallbackRunsWhileRegistered
<1>4. Shown'
  BY DEF Shown, Kept, DrawsRunTheBoundShaders, LitInOnePlace, InjectionIsCurrent
<1>5. QED
  BY <1>1, <1>2, <1>3, <1>4

\* Draws with a shader that exists: the game's, or one of the cache.
LEMMA DrawFoundKeeps == IInv /\ (DrawProgrammed \/ DrawCached) => IInv'
<1> USE BoundsAssumption, NoneAssumption DEF IInv, shaders, bindings
<1>1. ASSUME IInv, DrawProgrammed PROVE IInv'
  <2> USE <1>1 DEF DrawProgrammed
  <2> DEFINE ps == pixel_shaders[bound_pixel_shader]
  <2>1. bound_pixel_shader \in Created /\ ps \in Shaders(PixelCodes)
        /\ ps.code.of = bound_pixel_shader /\ ps.id < next_id
    BY DEF TypeOK, Bound, Named, Identified
  <2>2. /\ \A h \in Created : pixel_shaders[h] # None /\ pixel_shaders[h].id = ps.id => pixel_shaders[h] = ps
        /\ \A s \in StageStates : ps_cache[s] # None => ps_cache[s].id # ps.id
    BY <2>1 DEF Identified, Bound
  <2>3. /\ next_id \in Nat /\ next_id' = next_id /\ ps_cache' = ps_cache /\ 0 \in 0 .. MaxGeneration
        /\ DrawWith(ps, 0) /\ bound_vertex_shader # None /\ bound_pixel_shader # None
        /\ UNCHANGED <<lighting_mode, vertex_shaders, pixel_shaders, bindings>>
    BY DEF TypeOK
  <2>4. /\ Agreed' /\ Kept' /\ Shown' /\ last_pso' \in Psos /\ drawn' \in DrawRecords
        /\ dirty_pso' = FALSE /\ draw' = [at |-> "none", since |-> 0, enabled |-> FALSE]
        /\ \A k \in DOMAIN pso_cache' : k \in Nat \X Nat /\ pso_cache'[k] \in Psos
    <3>1. /\ (\E h \in Created : ps = pixel_shaders[h]) \/ (\E s \in StageStates : ps = ps_cache[s])
          /\ ps.id < next_id' /\ next_id' >= next_id
      BY <2>1, <2>3
    <3>2. /\ \A h \in Created : pixel_shaders[h] # None /\ pixel_shaders[h].id = ps.id => pixel_shaders[h] = ps
          /\ \A s \in StageStates : ps_cache'[s] # None =>
               /\ ps_cache'[s] = ps_cache[s] \/ ps_cache'[s].id = next_id
               /\ ps_cache'[s].id = ps.id => ps_cache'[s] = ps
      BY <2>2, <2>3
    <3> HIDE DEF ps, IInv
    <3>3. QED
      BY <1>1, <2>1, <2>3, <3>1, <3>2, DrawWithKeeps
  <2>5. TypeOK'
    BY <2>4, NoDraw DEF TypeOK
  <2>6. Named' /\ Current' /\ Identified' /\ Bound'
    BY <2>4 DEF Named, Current, Identified, Bound, CallbackRunsWhileRegistered
  <2>7. QED
    BY <2>4, <2>5, <2>6
<1>2. ASSUME IInv, DrawCached PROVE IInv'
  <2> USE <1>2 DEF DrawCached
  <2> DEFINE ps == ps_cache[stages]
  <2>1. /\ stages \in StageStates /\ ps \in Shaders(PixelCodes)
        /\ ps.code.of = stages /\ ps.id < next_id
        /\ ps.code.mode = lighting_mode /\ ps.code.generation >= draw.since
        /\ bound_vertex_shader # None /\ bound_pixel_shader = None
    BY DEF TypeOK, Bound, Named, Identified, Current
  <2>2. /\ \A h \in Created : pixel_shaders[h] # None => pixel_shaders[h].id # ps.id
        /\ \A s \in StageStates : ps_cache[s] # None /\ ps_cache[s].id = ps.id => ps_cache[s] = ps
    BY <2>1 DEF Identified
  <2>3. /\ next_id \in Nat /\ next_id' = next_id /\ ps_cache' = ps_cache /\ draw.since \in 0 .. MaxGeneration
        /\ DrawWith(ps, draw.since)
        /\ UNCHANGED <<lighting_mode, vertex_shaders, pixel_shaders, bindings>>
    BY DEF TypeOK
  <2>4. /\ Agreed' /\ Kept' /\ Shown' /\ last_pso' \in Psos /\ drawn' \in DrawRecords
        /\ dirty_pso' = FALSE /\ draw' = [at |-> "none", since |-> 0, enabled |-> FALSE]
        /\ \A k \in DOMAIN pso_cache' : k \in Nat \X Nat /\ pso_cache'[k] \in Psos
    <3>1. /\ (\E h \in Created : ps = pixel_shaders[h]) \/ (\E s \in StageStates : ps = ps_cache[s])
          /\ ps.id < next_id' /\ next_id' >= next_id
      BY <2>1, <2>3
    <3>2. /\ \A h \in Created : pixel_shaders[h] # None /\ pixel_shaders[h].id = ps.id => pixel_shaders[h] = ps
          /\ \A s \in StageStates : ps_cache'[s] # None =>
               /\ ps_cache'[s] = ps_cache[s] \/ ps_cache'[s].id = next_id
               /\ ps_cache'[s].id = ps.id => ps_cache'[s] = ps
      BY <2>2, <2>3
    <3> HIDE DEF ps, IInv
    <3>3. QED
      BY <1>2, <2>1, <2>3, <3>1, <3>2, DrawWithKeeps
  <2>5. TypeOK'
    BY <2>4, NoDraw DEF TypeOK
  <2>6. Named' /\ Current' /\ Identified' /\ Bound'
    BY <2>4 DEF Named, Current, Identified, Bound, CallbackRunsWhileRegistered
  <2>7. QED
    BY <2>4, <2>5, <2>6
<1>3. QED
  BY <1>1, <1>2

\* A draw that has its pixel shader generated.
LEMMA DrawCompiledKeeps ==
  ASSUME IInv, draw.at # "none", ps_cache[stages] = None, running' = None,
         NEW injected \in Callbacks \cup {None}, NEW generation \in 0 .. MaxGeneration,
         generation >= applied, DrawCompiled(injected, generation)
  PROVE  IInv'
<1> USE BoundsAssumption, NoneAssumption DEF IInv, bindings
<1> DEFINE code == PixelCode(stages, lighting_mode, injected, generation)
           ps == Shader(next_id, code)
<1>1. /\ stages \in StageStates /\ ps \in Shaders(PixelCodes) /\ ps.id = next_id
      /\ ps.code.of = stages /\ ps.code.mode = lighting_mode /\ ps.code.generation = generation
      /\ bound_vertex_shader # None /\ bound_pixel_shader = None /\ draw.since = applied
      /\ next_id < MaxId /\ next_id \in Nat
  BY DEF TypeOK, Bound, PixelCode, Shader, Shaders, PixelCodes
<1>2. /\ ps_cache' = [ps_cache EXCEPT ![stages] = ps] /\ next_id' = next_id + 1
      /\ DrawWith(ps, draw.since)
      /\ UNCHANGED <<lighting_mode, vertex_shaders, pixel_shaders, bindings>>
      /\ UNCHANGED <<next_shader_handle, applied, injection, caching>>
  BY DEF DrawCompiled, NextShaderId
<1>3. \A s \in StageStates : ps_cache'[s] = IF s = stages THEN ps ELSE ps_cache[s]
  BY <1>2 DEF TypeOK
<1> HIDE DEF ps
<1>4. /\ \A h \in Created : pixel_shaders[h] # None => pixel_shaders[h].id < next_id
      /\ \A s \in StageStates : ps_cache[s] # None => ps_cache[s].id < next_id
      /\ \A h \in Created : pixel_shaders[h] # None => pixel_shaders[h].id \in Nat
      /\ \A s \in StageStates : ps_cache[s] # None => ps_cache[s].id \in Nat
  BY DEF Identified, TypeOK, Shaders
<1>5. /\ Agreed' /\ Kept' /\ Shown' /\ last_pso' \in Psos /\ drawn' \in DrawRecords
      /\ dirty_pso' = FALSE /\ draw' = [at |-> "none", since |-> 0, enabled |-> FALSE]
      /\ \A k \in DOMAIN pso_cache' : k \in Nat \X Nat /\ pso_cache'[k] \in Psos
  <2>1. /\ \A h \in Created : pixel_shaders[h] # None /\ pixel_shaders[h].id = ps.id => pixel_shaders[h] = ps
        /\ \A s \in StageStates : ps_cache'[s] # None =>
             /\ ps_cache'[s] = ps_cache[s] \/ ps_cache'[s].id = next_id
             /\ ps_cache'[s].id = ps.id => ps_cache'[s] = ps
    BY <1>1, <1>3, <1>4
  <2>2. draw.since \in 0 .. MaxGeneration /\ next_id' \in Nat /\ next_id' >= next_id /\ ps.id < next_id'
    BY <1>1, <1>2 DEF TypeOK
  <2>3. QED
    BY <1>1, <1>2, <2>1, <2>2, DrawWithKeeps
<1>6. ps_cache' \in [StageStates -> Shaders(PixelCodes) \cup {None}]
  BY <1>1, <1>2 DEF TypeOK
<1>7. TypeOK'
  <2>1. next_id' = next_id + 1 /\ next_id < MaxId /\ next_id \in Nat
    BY <1>1, <1>2
  <2>2. next_id' \in 1 .. MaxId
    BY <2>1
  <2>3. dirty_pso' \in BOOLEAN
    BY <1>5
  <2>4. QED
    BY <1>2, <1>5, <1>6, <2>2, <2>3, NoDraw DEF TypeOK
<1>8. Named' /\ Current'
  BY <1>1, <1>2, <1>3 DEF Named, Current, TypeOK
<1>9. Identified'
  <2>1. /\ \A h \in Handles : vertex_shaders[h] # None => vertex_shaders[h].id < next_id
        /\ \A h \in Handles : vertex_shaders[h] # None => vertex_shaders[h].id \in Nat
    BY DEF Identified, TypeOK, Shaders
  <2>2. QED
    BY <1>1, <1>2, <1>3, <1>4, <2>1 DEF Identified
<1>10. Bound'
  BY <1>1, <1>2, <1>5 DEF Bound, CallbackRunsWhileRegistered
<1>11. QED
  BY <1>5, <1>7, <1>8, <1>9, <1>10

LEMMA CompilingKeeps == IInv /\ (StartDraw \/ CompilePlain \/ InvokePixelShaderInjection \/ InvokeReturns) => IInv'
<1> USE BoundsAssumption, NoneAssumption
<1>1. ASSUME IInv, StartDraw \/ InvokePixelShaderInjection PROVE IInv'
  <2> USE <1>1 DEF IInv, StartDraw, InvokePixelShaderInjection, InGame, KeptFor, shaders, bindings, caches
  <2>1. TypeOK'
    <3>1. ps_cache' \in [StageStates -> Shaders(PixelCodes) \cup {None}]
          /\ applied' \in 0 .. MaxGeneration /\ running' \in Callbacks \cup {None}
      BY DEF TypeOK
    <3>2. draw' \in [at : {"none", "looking", "invoking"}, since : 0 .. MaxGeneration, enabled : BOOLEAN]
      <4>1. CASE StartDraw
        BY <4>1 DEF TypeOK
      <4>2. CASE InvokePixelShaderInjection
        BY <4>2 DEF TypeOK
      <4>3. QED
        BY <4>1, <4>2
    <3>3. QED
      BY <3>1, <3>2 DEF TypeOK
  <2>2. Named' /\ Current'
    BY DEF TypeOK, Named, Current
  <2>3. Identified' /\ Agreed'
    BY DEF TypeOK, Identified, Agreed
  <2>4. Bound' /\ Kept'
    BY DEF TypeOK, Bound, Kept, CallbackRunsWhileRegistered
  <2>5. QED
    BY <2>1, <2>2, <2>3, <2>4, NothingDrawn
<1>2. ASSUME IInv, CompilePlain PROVE IInv'
  <2>1. /\ draw.at # "none" /\ ps_cache[stages] = None /\ running' = None
        /\ draw.since \in 0 .. MaxGeneration /\ draw.since >= applied
        /\ injection.generation \in 0 .. MaxGeneration /\ injection.generation >= applied
    BY <1>2 DEF CompilePlain, IInv, TypeOK, Bound, Current
  <2>2. \E generation \in {draw.since, injection.generation} : DrawCompiled(None, generation)
    BY <1>2 DEF CompilePlain
  <2>3. QED
    BY <1>2, <2>1, <2>2, DrawCompiledKeeps
<1>3. ASSUME IInv, InvokeReturns PROVE IInv'
  <2>1. /\ draw.at # "none" /\ ps_cache[stages] = None /\ running' = None /\ running \in Callbacks \cup {None}
        /\ injection.generation \in 0 .. MaxGeneration /\ injection.generation >= applied
    BY <1>3 DEF InvokeReturns, IInv, TypeOK, Bound, Current
  <2>2. QED
    BY <1>3, <2>1, DrawCompiledKeeps DEF InvokeReturns
<1>4. QED
  BY <1>1, <1>2, <1>3

-----------------------------------------------------------------------------
LEMMA InvariantInductive == IInv /\ [Next]_vars => IInv'
<1> SUFFICES ASSUME IInv, [Next]_vars PROVE IInv'
  OBVIOUS
<1>1. CASE GameCalls
  BY <1>1, CreationKeeps, DeletionKeeps, BindingKeeps, LightingModeKeeps, ModKeeps DEF GameCalls
<1>2. CASE ModCalls
  BY <1>2, ModKeeps
<1>3. CASE Draws
  BY <1>3, DrawAgainKeeps, DrawFoundKeeps, CompilingKeeps DEF Draws
<1>4. CASE UNCHANGED vars
  BY <1>4 DEF IInv, vars, shaders, bindings, caches, TypeOK, Named, Current, Identified, Agreed, Bound, Kept,
     Shown, CallbackRunsWhileRegistered, DrawsRunTheBoundShaders, LitInOnePlace, InjectionIsCurrent
<1>5. QED
  BY <1>1, <1>2, <1>3, <1>4 DEF Next

\* The shaders, their identities and the caches are always in step.
THEOREM ShaderInvariant == Spec => []IInv
<1>1. QED
  BY InitInvariant, InvariantInductive, PTL DEF Spec

\* Type correctness.
THEOREM ShaderTypes == Spec => []TypeOK
<1>1. IInv => TypeOK
  BY DEF IInv
<1>2. QED
  BY <1>1, ShaderInvariant, PTL

\* A draw runs the shaders that are bound (PrepareDrawCall, CreatePSO).
THEOREM ShaderDrawsRunTheBound == Spec => []DrawsRunTheBoundShaders
<1>1. IInv => DrawsRunTheBoundShaders
  BY DEF IInv, Shown
<1>2. QED
  BY <1>1, ShaderInvariant, PTL

\* Geometry is lit in exactly one place (OnLightingModeChanged).
THEOREM ShaderLitInOnePlace == Spec => []LitInOnePlace
<1>1. IInv => LitInOnePlace
  BY DEF IInv, Shown
<1>2. QED
  BY <1>1, ShaderInvariant, PTL

\* A draw runs no code withdrawn before it started (CreatePSO).
THEOREM ShaderInjectionIsCurrent == Spec => []InjectionIsCurrent
<1>1. IInv => InjectionIsCurrent
  BY DEF IInv, Shown
<1>2. QED
  BY <1>1, ShaderInvariant, PTL

\* A callback that runs is registered (InvokePixelShaderInjection).
THEOREM ShaderCallbackRuns == Spec => []CallbackRunsWhileRegistered
<1>1. IInv => CallbackRunsWhileRegistered
  BY DEF IInv, Bound
<1>2. QED
  BY <1>1, ShaderInvariant, PTL
================================================================================
