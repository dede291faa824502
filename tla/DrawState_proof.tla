--------------------------- MODULE DrawState_proof ---------------------------
(***************************************************************************)
(* For every set of inputs the tables relate, every set of primitive types *)
(* and with the cache of bindings compiled in or not: a draw is drawn with *)
(* the state the game has set, and a state block gives back what it was    *)
(* asked to hold. For every draw and every setting of every texture stage: *)
(* the readers of the state are told, the fixed function shader computes   *)
(* what the stages ask for, and the primitives asked for are drawn.        *)
(***************************************************************************)
EXTENDS DrawState, RenderStateCases, FixedFunctionStages, DrawCalls, TLAPS

\* What was made for part p shows input i as it is now, or it has not been told.
Known(p, i, b) == \/ i \in DOMAIN b /\ b[i] = Seen(st, p, i)
                  \/ <<p, i>> \in untold
Current(p, b) == \A i \in Reads(p) \ {"prim"} : Known(p, i, b)

\* The targets are set again when OM is raised, the pipeline state made when PSO
\* is or the primitives differ, a constant buffer when its flag is.
TargetsCurrent ==
  "OM" \notin flags => /\ Current("viewport", bound["viewport"])
                       /\ Current("render_target", bound["render_target"])
PsoCurrent ==
  "PSO" \notin flags => /\ Current("pso", last.pso)
                        /\ "prim" \in DOMAIN last.pso
                        /\ last.pso["prim"] = last.pso_prim
FilledCurrent ==
  \A c \in CBuffers : MadeAgainFor[c] \notin flags => Current(c, filled[c])

\* What the list's root arguments are while its root signature is PrepareDrawCall's.
TableCurrent(t) ==
  \/ "PS_TEXTURES" \in flags /\ t \in texture_mask
  \/ st[t] = 0
  \/ Known(TableOf[t], t, bound[TableOf[t]])
RootCurrent ==
  last.root /\ root = "main" =>
    /\ \A c \in CBuffers : bound[c] = filled[c]
    /\ \A t \in Textures : TableCurrent(t)
    /\ \/ "PS_SAMPLERS" \in flags /\ sampler_mask
       \/ Current("sampler", bound["sampler"])

\* Nothing is known of them after the scene was scaled onto the back buffer.
BlitIsUntold ==
  root = "blit" /\ cache /\ last.root =>
    (RootArguments \cup {"pso"}) \X (Inputs \cup {"prim"}) \subseteq untold

\* The caches say what the list holds.
CachesAreRight ==
  /\ last.root => root \in {"main", "blit"}
  /\ ~last.root => last.set_pso = Nothing
  /\ cache => \/ last.set_pso \in {bound["pso"], Nothing}
              \/ root = "blit" /\ last.root
  /\ last.stencil = bound["stencil"]
  /\ last.streams = bound["streams"]
  /\ \/ last.prim = "none"
     \/ "prim" \in DOMAIN bound["topology"] /\ bound["topology"]["prim"] = last.prim
     \/ <<"topology", "prim">> \in untold

\* A state block holds what it was asked to, that apart which it overlooks; while
\* one is recorded, what was asked is how the state has changed since.
BlockHolds ==
  /\ DOMAIN promised \subseteq Recordable
  /\ ~recording => /\ DOMAIN block = DOMAIN promised \ overlooked
                   /\ \A i \in DOMAIN block : block[i] = promised[i]
  /\ recording => \A i \in Recordable :
                    /\ i \in DOMAIN start
                    /\ IF i \in DOMAIN promised THEN promised[i] = st[i]
                       ELSE start[i] = st[i]

Shapes ==
  /\ DOMAIN st = Inputs \cup {"scene"}
  /\ DOMAIN bound = Parts
  /\ DOMAIN filled = CBuffers
  /\ \A c \in CBuffers : DOMAIN filled[c] \subseteq Reads(c)
  /\ DOMAIN last = {"prim", "stencil", "streams", "set_pso", "root", "pso", "pso_prim"}
  /\ last.root \in BOOLEAN
  /\ DOMAIN last.pso \subseteq Reads("pso")
  /\ \A i \in DOMAIN block : block[i] \in Values(i)
  /\ \A i \in DOMAIN promised : promised[i] \in Values(i)

IInv ==
  /\ TypeOK
  /\ Shapes
  /\ TargetsCurrent
  /\ PsoCurrent
  /\ FilledCurrent
  /\ RootCurrent
  /\ BlitIsUntold
  /\ CachesAreRight
  /\ BlockHolds
  /\ DrawsSeeTheirState

-----------------------------------------------------------------------------
\* The tables: what a part is made from raises the flag it is made again for,
\* the unannounced inputs apart.
LEMMA PsoIsAnnounced ==
  ASSUME NEW i \in ReadBy.pso, i \notin Unannounced
  PROVE  i \in Raisers.PSO
<1>1. ShaderStageStates \subseteq Raisers.PSO
  BY DEF Raisers
<1>2. ShaderStates \subseteq Raisers.PSO
  BY DEF Raisers, ShaderStates, RenderStates, DrawnRenderStates, NotPsoStates, FogStates,
         MaterialSources
<1>3. StencilStates \subseteq Raisers.PSO
  BY DEF Raisers, StencilStates, RenderStates, DrawnRenderStates, NotPsoStates, FogStates,
         MaterialSources
<1>4. DescStates \subseteq Raisers.PSO
  BY <1>3 DEF Raisers, DescStates, RenderStates, DrawnRenderStates, NotPsoStates, FogStates,
         MaterialSources
<1>5. QED
  BY <1>1, <1>2, <1>4 DEF ReadBy, Raisers, Unannounced, Settings

LEMMA ReadsAreAnnounced ==
  ASSUME NEW p \in DOMAIN ReadBy, NEW i \in ReadBy[p], i \notin Unannounced
  PROVE  MadeAgainFor[p] \in Raises(i)
<1>1. CASE p = "pso"
  BY <1>1, PsoIsAnnounced DEF MadeAgainFor, Raises, DirtyFlags
<1>2. CASE p = "viewport"
  BY <1>2 DEF MadeAgainFor, Raises, DirtyFlags, ReadBy, Raisers, Unannounced
<1>3. CASE p = "render_target"
  BY <1>3 DEF MadeAgainFor, Raises, DirtyFlags, ReadBy, Raisers, Unannounced
<1>4. CASE p = "vs_cbuffer"
  BY <1>4 DEF MadeAgainFor, Raises, DirtyFlags, ReadBy, Raisers, Unannounced
<1>5. CASE p = "lights_cbuffer"
  BY <1>5 DEF MadeAgainFor, Raises, DirtyFlags, ReadBy, Raisers, Unannounced
<1>6. CASE p = "ps_cbuffer"
  BY <1>6 DEF MadeAgainFor, Raises, DirtyFlags, ReadBy, Raisers, Unannounced
<1>7. CASE p = "vs_creg_cbuffer"
  BY <1>7 DEF MadeAgainFor, Raises, DirtyFlags, ReadBy, Raisers, Unannounced
<1>8. CASE p = "table0"
  BY <1>8 DEF MadeAgainFor, Raises, DirtyFlags, ReadBy, Raisers, Unannounced
<1>9. CASE p = "table1"
  BY <1>9 DEF MadeAgainFor, Raises, DirtyFlags, ReadBy, Raisers, Unannounced
<1>10. CASE p = "sampler"
  BY <1>10 DEF MadeAgainFor, Raises, DirtyFlags, ReadBy, Raisers, Unannounced, Settings
<1>11. QED
  BY <1>1, <1>2, <1>3, <1>4, <1>5, <1>6, <1>7, <1>8, <1>9, <1>10 DEF ReadBy

\* Where an input is read.
LEMMA WhereRead ==
  ASSUME NEW p \in DOMAIN ReadBy, NEW i \in ReadBy[p]
  PROVE  /\ i \notin {"stream", "stencil_ref"}
         /\ i = "scene" => p \in {"viewport", "render_target"}
         /\ i = "prim" => p = "pso"
         /\ i = "viewport" => p \in {"viewport", "vs_cbuffer"}
         /\ i = "target" => p \in {"viewport", "render_target", "pso"}
         /\ i \in Settings => p \in {"pso", "sampler"}
         /\ i = "tex0" => p \in {"pso", "table0"}
         /\ i = "tex1" => p \in {"pso", "table1"}
<1> USE DEF ReadBy, Settings, PsoSettings, SamplerSettings
<1>1. CASE p = "pso"
  <2>1. DescStates \cap {"stream", "stencil_ref", "scene", "viewport"} = {}
    BY DEF DescStates, StencilStates
  <2>2. (ShaderStates \cup ShaderStageStates) \cap {"stream", "stencil_ref", "scene", "viewport"} = {}
    BY DEF ShaderStates, ShaderStageStates
  <2>3. QED
    BY <1>1, <2>1, <2>2
<1>2. CASE p = "viewport"
  BY <1>2
<1>3. CASE p = "render_target"
  BY <1>3
<1>4. CASE p = "vs_cbuffer"
  BY <1>4
<1>5. CASE p = "lights_cbuffer"
  BY <1>5 DEF MaterialSources
<1>6. CASE p = "ps_cbuffer"
  BY <1>6 DEF FogStates
<1>7. CASE p = "vs_creg_cbuffer"
  BY <1>7
<1>8. CASE p = "table0"
  BY <1>8
<1>9. CASE p = "table1"
  BY <1>9
<1>10. CASE p = "sampler"
  BY <1>10 DEF SamplerStageStates
<1>11. QED
  BY <1>1, <1>2, <1>3, <1>4, <1>5, <1>6, <1>7, <1>8, <1>9, <1>10

\* A draw's primitives and the scene pass are no inputs of the game's.
LEMMA InputsAreTheGames ==
  /\ "prim" \notin Inputs
  /\ "scene" \notin Inputs
  /\ {"viewport", "target", "stream"} \subseteq Inputs
<1>1. "prim" \notin Settings /\ "scene" \notin Settings
  BY DEF Settings, PsoSettings, SamplerSettings
<1>2. "prim" \notin RenderStates /\ "scene" \notin RenderStates
  BY DEF RenderStates, DrawnRenderStates, KeptRenderStates, FogStates, MaterialSources,
         StencilStates
<1>3. "prim" \notin ShaderStageStates \cup SamplerStageStates \cup FogStates \cup MaterialSources
  BY DEF ShaderStageStates, SamplerStageStates, FogStates, MaterialSources
<1>4. "scene" \notin ShaderStageStates \cup SamplerStageStates \cup FogStates \cup MaterialSources
  BY DEF ShaderStageStates, SamplerStageStates, FogStates, MaterialSources
<1>5. ASSUME NEW f \in DirtyFlags PROVE "prim" \notin Raisers[f] /\ "scene" \notin Raisers[f]
  BY <1>2, <1>3, <1>4 DEF DirtyFlags, Raisers
<1>6. \A i \in UNION {Raisers[f] : f \in DirtyFlags} : i # "prim" /\ i # "scene"
  BY <1>5
<1>7. {"viewport", "target", "stream"} \subseteq Inputs
  BY InputsAssumption
<1>8. \A i \in Inputs : \/ i \in UNION {Raisers[f] : f \in DirtyFlags}
                        \/ i \in {"viewport", "stream", "stencil_ref"}
                        \/ i \in Settings
  BY InputsAssumption
<1>9. QED
  BY <1>1, <1>6, <1>7, <1>8

LEMMA PartsRead ==
  /\ Reads("topology") = {"prim"}
  /\ Reads("stencil") = {"stencil_ref"} \cap Inputs
  /\ Reads("streams") = {"stream"}
  /\ \A p \in Parts \cap DOMAIN ReadBy :
        Reads(p) = ReadBy[p] \cap (Inputs \cup {"prim", "scene"})
  /\ Parts \subseteq DOMAIN ReadBy \cup {"topology", "stencil", "streams"}
  /\ {"viewport", "render_target", "pso", "sampler"} \cup CBuffers \cup Tables
       \subseteq Parts \cap DOMAIN ReadBy
<1>1. DOMAIN ReadBy = {"viewport", "render_target", "pso", "sampler", "table0", "table1"}
                      \cup CBuffers
  BY DEF ReadBy, CBuffers
<1>2. Tables \subseteq {"table0", "table1"}
  BY DEF Tables, TableOf, Textures
<1>3. \A p \in DOMAIN ReadBy : p \notin {"topology", "stencil", "streams"}
  BY <1>1 DEF CBuffers
<1>4. QED
  BY <1>1, <1>2, <1>3, InputsAreTheGames DEF Reads, InputsOf, Parts

-----------------------------------------------------------------------------
\* What a call that binds nothing has to do for an input of a part: leave what
\* the part shows of it, raise the flag the part is made again for, or be one of
\* those that tell nobody.
Announced(p, i) ==
  \/ Seen(st', p, i) = Seen(st, p, i)
  \/ <<p, i>> \in untold'
  \/ /\ MadeAgainFor[p] \in flags'
     /\ p \in Tables => i \in texture_mask'
     /\ p = "sampler" => sampler_mask'
OnlyRaises == /\ flags \subseteq flags'
              /\ texture_mask \subseteq texture_mask'
              /\ sampler_mask => sampler_mask'
              /\ untold \subseteq untold'
BindingsCurrent == /\ TargetsCurrent
                   /\ PsoCurrent
                   /\ FilledCurrent
                   /\ RootCurrent
                   /\ BlitIsUntold
                   /\ CachesAreRight

LEMMA KnownKept ==
  ASSUME OnlyRaises, NEW p, NEW i, NEW b, Known(p, i, b), Seen(st', p, i) = Seen(st, p, i)
  PROVE  \/ i \in DOMAIN b /\ b[i] = Seen(st', p, i)
         \/ <<p, i>> \in untold'
  BY DEF Known, OnlyRaises

LEMMA CurrentKept ==
  ASSUME OnlyRaises, NEW p \in Parts \cap DOMAIN ReadBy,
         \A i \in Reads(p) \ {"prim"} : Announced(p, i),
         MadeAgainFor[p] \notin flags' \/ (p = "sampler" /\ ~sampler_mask'),
         p \notin Tables,
         NEW b, Current(p, b)
  PROVE  \A i \in Reads(p) \ {"prim"} : \/ i \in DOMAIN b /\ b[i] = Seen(st', p, i)
                                        \/ <<p, i>> \in untold'
  BY DEF Announced, Current, Known, OnlyRaises

LEMMA CallKeepsBindings ==
  ASSUME BindingsCurrent, Shapes, OnlyRaises,
         \A p \in Parts \cap DOMAIN ReadBy : \A i \in Reads(p) \ {"prim"} : Announced(p, i),
         UNCHANGED <<cache, listVars>>
  PROVE  BindingsCurrent'
<1>1. UNCHANGED <<cache, filled, root, bound, last>>
  BY DEF listVars
<1>2. /\ {"viewport", "render_target", "pso", "sampler"} \cup CBuffers \cup Tables
           \subseteq Parts \cap DOMAIN ReadBy
      /\ ({"viewport", "render_target", "pso", "sampler"} \cup CBuffers) \cap Tables = {}
      /\ MadeAgainFor["viewport"] = "OM" /\ MadeAgainFor["render_target"] = "OM"
      /\ MadeAgainFor["pso"] = "PSO" /\ MadeAgainFor["sampler"] = "PS_SAMPLERS"
      /\ \A t \in Tables : MadeAgainFor[t] = "PS_TEXTURES"
  <2>1. Tables \subseteq {"table0", "table1"}
    BY DEF Tables, TableOf, Textures
  <2>2. /\ MadeAgainFor["viewport"] = "OM" /\ MadeAgainFor["render_target"] = "OM"
        /\ MadeAgainFor["pso"] = "PSO" /\ MadeAgainFor["sampler"] = "PS_SAMPLERS"
        /\ MadeAgainFor["table0"] = "PS_TEXTURES" /\ MadeAgainFor["table1"] = "PS_TEXTURES"
    BY DEF MadeAgainFor
  <2>3. ({"viewport", "render_target", "pso", "sampler"} \cup CBuffers) \cap Tables = {}
    BY <2>1 DEF CBuffers
  <2>4. QED
    BY <2>1, <2>2, <2>3, PartsRead
<1>3. TargetsCurrent'
  <2>1. SUFFICES ASSUME "OM" \notin flags'
                 PROVE  /\ Current("viewport", bound["viewport"])'
                        /\ Current("render_target", bound["render_target"])'
    BY DEF TargetsCurrent
  <2>2. /\ Current("viewport", bound["viewport"])
        /\ Current("render_target", bound["render_target"])
    BY <2>1 DEF BindingsCurrent, TargetsCurrent, OnlyRaises
  <2>3. Current("viewport", bound["viewport"])'
    BY <1>1, <1>2, <2>1, <2>2, CurrentKept DEF Current, Known
  <2>4. Current("render_target", bound["render_target"])'
    BY <1>1, <1>2, <2>1, <2>2, CurrentKept DEF Current, Known
  <2>5. QED
    BY <2>3, <2>4
<1>4. PsoCurrent'
  <2>1. SUFFICES ASSUME "PSO" \notin flags'
                 PROVE  Current("pso", last.pso)'
    BY <1>1 DEF BindingsCurrent, PsoCurrent, OnlyRaises
  <2>2. Current("pso", last.pso)
    BY <2>1 DEF BindingsCurrent, PsoCurrent, OnlyRaises
  <2>3. QED
    BY <1>1, <1>2, <2>1, <2>2, CurrentKept DEF Current, Known
<1>5. FilledCurrent'
  <2>1. SUFFICES ASSUME NEW c \in CBuffers, MadeAgainFor[c] \notin flags'
                 PROVE  Current(c, filled[c])'
    BY DEF FilledCurrent
  <2>2. Current(c, filled[c])
    BY <2>1 DEF BindingsCurrent, FilledCurrent, OnlyRaises
  <2>3. QED
    BY <1>1, <1>2, <2>1, <2>2, CurrentKept DEF Current, Known
<1>6. RootCurrent'
  <2>1. SUFFICES ASSUME last.root, root = "main"
                 PROVE  /\ \A c \in CBuffers : bound[c]' = filled[c]'
                        /\ \A t \in Textures : TableCurrent(t)'
                        /\ \/ "PS_SAMPLERS" \in flags' /\ sampler_mask'
                           \/ Current("sampler", bound["sampler"])'
    BY <1>1 DEF RootCurrent
  <2>2. /\ \A c \in CBuffers : bound[c]' = filled[c]'
        /\ \A t \in Textures : TableCurrent(t)
        /\ \/ "PS_SAMPLERS" \in flags /\ sampler_mask
           \/ Current("sampler", bound["sampler"])
    BY <1>1, <2>1 DEF BindingsCurrent, RootCurrent
  <2>3. ASSUME NEW t \in Textures PROVE TableCurrent(t)'
    <3>1. /\ TableOf[t] \in Tables /\ TableOf[t] # "pso" /\ t # "scene"
          /\ \A s : Seen(s, TableOf[t], t) = s[t]
      BY DEF Tables, TableOf, Textures, Seen
    <3>2. t \in Reads(TableOf[t]) \ {"prim"}
      <4>1. t \in ReadBy[TableOf[t]] /\ t \in Inputs /\ t # "prim"
        BY DEF ReadBy, TableOf, Textures
      <4>2. QED
        BY <1>2, <3>1, <4>1, PartsRead
    <3>3. Announced(TableOf[t], t)
      BY <1>2, <3>1, <3>2
    <3>4. QED
      BY <1>1, <1>2, <2>2, <3>1, <3>3 DEF TableCurrent, Announced, OnlyRaises, Known
  <2>4. \/ "PS_SAMPLERS" \in flags' /\ sampler_mask'
        \/ Current("sampler", bound["sampler"])'
    <3>1. SUFFICES ASSUME "PS_SAMPLERS" \notin flags' \/ ~sampler_mask'
                   PROVE  Current("sampler", bound["sampler"])'
      OBVIOUS
    <3>2. Current("sampler", bound["sampler"])
      BY <2>2, <3>1 DEF OnlyRaises
    <3>3. QED
      BY <1>1, <1>2, <3>1, <3>2, CurrentKept DEF Current, Known
  <2>5. QED
    BY <2>2, <2>3, <2>4
<1>7. BlitIsUntold'
  BY <1>1 DEF BindingsCurrent, BlitIsUntold, OnlyRaises, RootArguments
<1>8. CachesAreRight'
  BY <1>1 DEF BindingsCurrent, CachesAreRight, OnlyRaises
<1>9. QED
  BY <1>3, <1>4, <1>5, <1>6, <1>7, <1>8 DEF BindingsCurrent

-----------------------------------------------------------------------------
\* The calls that bind nothing.
LEMMA SeenDependsOn ==
  ASSUME NEW p, NEW i, NEW r, NEW s,
         i = "scene" => r["scene"] = s["scene"] /\ r["target"] = s["target"],
         p = "pso" /\ i \in Textures => \A t \in Textures : (r[t] > 0) <=> (s[t] > 0),
         i # "scene" /\ ~(p = "pso" /\ i \in Textures) => r[i] = s[i]
  PROVE  Seen(r, p, i) = Seen(s, p, i)
<1>1. CASE p = "pso" /\ i \in Textures
  <2>1. HasTexture(r, i) <=> HasTexture(s, i)
    BY <1>1 DEF HasTexture
  <2>2. QED
    BY <1>1, <2>1 DEF Seen
<1>2. CASE ~(p = "pso" /\ i \in Textures) /\ i = "scene"
  BY <1>2 DEF Seen
<1>3. CASE ~(p = "pso" /\ i \in Textures) /\ i # "scene"
  BY <1>3 DEF Seen
<1>4. QED
  BY <1>1, <1>2, <1>3

\* What a part of the list reads, as far as the calls below tell inputs apart.
LEMMA ReadsTold ==
  ASSUME NEW p \in Parts \cap DOMAIN ReadBy, NEW i \in Reads(p) \ {"prim"}
  PROVE  /\ i \in Inputs \/ i = "scene"
         /\ i = "scene" => p \in {"viewport", "render_target"}
         /\ i = "viewport" => p \in {"viewport", "vs_cbuffer"}
         /\ i = "target" => p \in {"viewport", "render_target", "pso"}
         /\ i \in Settings => p \in {"pso", "sampler"}
         /\ i \in Textures => p = "pso" \/ p = TableOf[i]
         /\ p \in Tables => i \in Textures /\ p = TableOf[i]
         /\ i \notin {"viewport", "scene"} \cup Settings => MadeAgainFor[p] \in Raises(i)
         /\ MadeAgainFor[p] \in DirtyFlags
<1>1. i \in ReadBy[p] /\ i \in Inputs \cup {"scene"} /\ i # "prim"
  BY PartsRead
<1>2. i \in Textures => p = "pso" \/ p = TableOf[i]
  BY <1>1, WhereRead DEF Textures, TableOf
<1>3. p \in Tables => i \in Textures /\ p = TableOf[i]
  <2>1. ASSUME NEW t \in Textures, p = TableOf[t] PROVE i = t
    BY <1>1, <2>1 DEF Textures, TableOf, ReadBy
  <2>2. QED
    BY <2>1 DEF Tables
<1>4. i \notin {"viewport", "scene"} \cup Settings => MadeAgainFor[p] \in Raises(i)
  BY <1>1, ReadsAreAnnounced DEF Unannounced
<1>5. MadeAgainFor[p] \in DirtyFlags
  BY DEF MadeAgainFor, DirtyFlags, ReadBy
<1>6. QED
  BY <1>1, <1>2, <1>3, <1>4, <1>5, WhereRead

LEMMA StoreKeepsBindings ==
  ASSUME IInv, NEW i \in Inputs, NEW v, Store(i, v)
  PROVE  BindingsCurrent'
<1>1. /\ i \notin Textures \cup Settings \cup {"viewport", "target"}
      /\ st' = [st EXCEPT ![i] = v] /\ DOMAIN st = Inputs \cup {"scene"}
      /\ flags' = flags \cup Raises(i)
      /\ sampler_mask' = (sampler_mask \/ "PS_SAMPLERS" \in Raises(i))
      /\ UNCHANGED <<cache, listVars, texture_mask, untold>>
      /\ i # "scene"
  BY InputsAreTheGames DEF Store, IInv, Shapes
<1>2. ASSUME NEW p \in Parts \cap DOMAIN ReadBy, NEW j \in Reads(p) \ {"prim"}
      PROVE  Announced(p, j)
  <2>1. CASE j = i
    <3>1. MadeAgainFor[p] \in Raises(i)
      BY <1>1, <2>1, ReadsTold
    <3>2. p \notin Tables
      BY <1>1, <2>1, ReadsTold
    <3>3. p = "sampler" => sampler_mask'
      <4>1. MadeAgainFor["sampler"] = "PS_SAMPLERS"
        BY DEF MadeAgainFor
      <4>2. QED
        BY <1>1, <3>1, <4>1
    <3>4. QED
      BY <1>1, <3>1, <3>2, <3>3 DEF Announced
  <2>2. CASE j # i
    <3>1. st'[j] = st[j] /\ st'["scene"] = st["scene"] /\ st'["target"] = st["target"]
      BY <1>1, <2>2, ReadsTold, InputsAreTheGames
    <3>2. \A t \in Textures : st'[t] = st[t]
      BY <1>1 DEF Textures
    <3>3. Seen(st', p, j) = Seen(st, p, j)
      BY <3>1, <3>2, SeenDependsOn
    <3>4. QED
      BY <3>3 DEF Announced
  <2>3. QED
    BY <2>1, <2>2
<1>3. OnlyRaises
  BY <1>1 DEF OnlyRaises
<1>4. QED
  BY <1>1, <1>2, <1>3, CallKeepsBindings DEF IInv, BindingsCurrent

LEMMA SetTextureKeepsBindings ==
  ASSUME IInv, NEW t \in Inputs, NEW v \in Values(t), SetTexture(t, v)
  PROVE  BindingsCurrent'
<1>1. /\ t \in Textures /\ DOMAIN st = Inputs \cup {"scene"} /\ st' = [st EXCEPT ![t] = v]
      /\ UNCHANGED <<cache, listVars, sampler_mask, untold>>
      /\ t # "scene" /\ t # "target" /\ t # "viewport"
      /\ v \in 0 .. 2
      /\ \A u \in Textures : u \in Inputs /\ st[u] \in 0 .. 2
  BY InputsAreTheGames DEF SetTexture, IInv, Shapes, TypeOK, Values, Textures
<1>2. \/ st[t] = v /\ UNCHANGED <<flags, texture_mask>>
      \/ /\ flags' = flags \cup {"PS_TEXTURES"}
                      \cup (IF (st[t] = 0) # (v = 0) THEN {"PSO"} ELSE {})
         /\ texture_mask' = texture_mask \cup {t}
  BY DEF SetTexture
<1>3. OnlyRaises
  BY <1>1, <1>2 DEF OnlyRaises
<1>4. ASSUME NEW p \in Parts \cap DOMAIN ReadBy, NEW j \in Reads(p) \ {"prim"}
      PROVE  Announced(p, j)
  <2>1. j = "scene" => st'["scene"] = st["scene"] /\ st'["target"] = st["target"]
    BY <1>1, InputsAreTheGames
  <2>2. CASE p = "pso" /\ j \in Textures
    <3>1. CASE (st[t] = 0) # (v = 0)
      <4>1. "PSO" \in flags'
        BY <1>2, <3>1
      <4>2. MadeAgainFor[p] = "PSO" /\ p \notin Tables
        BY <2>2 DEF MadeAgainFor, Tables, TableOf, Textures
      <4>3. QED
        BY <2>2, <4>1, <4>2 DEF Announced
    <3>2. CASE (st[t] = 0) = (v = 0)
      <4>1. (st[t] > 0) <=> (v > 0)
        BY <1>1, <3>2
      <4>2. \A u \in Textures : (st'[u] > 0) <=> (st[u] > 0)
        BY <1>1, <4>1
      <4>3. Seen(st', p, j) = Seen(st, p, j)
        BY <2>1, <2>2, <4>2, SeenDependsOn
      <4>4. QED
        BY <4>3 DEF Announced
    <3>3. QED
      BY <3>1, <3>2
  <2>3. CASE ~(p = "pso" /\ j \in Textures) /\ st'[j] = st[j]
    <3>1. Seen(st', p, j) = Seen(st, p, j)
      BY <2>1, <2>3, SeenDependsOn
    <3>2. QED
      BY <3>1 DEF Announced
  <2>4. CASE ~(p = "pso" /\ j \in Textures) /\ st'[j] # st[j]
    <3>1. j = t
      BY <1>1, <2>4, ReadsTold
    <3>2. st[t] # v
      BY <1>1, <2>4, <3>1
    <3>3. "PS_TEXTURES" \in flags' /\ t \in texture_mask'
      BY <1>2, <3>2
    <3>4. p = TableOf[t]
      BY <1>1, <2>4, <3>1, ReadsTold
    <3>5. p # "sampler" /\ MadeAgainFor[p] = "PS_TEXTURES"
      BY <1>1, <3>4 DEF TableOf, Textures, MadeAgainFor
    <3>6. QED
      BY <3>1, <3>3, <3>5 DEF Announced
  <2>5. QED
    BY <2>2, <2>3, <2>4
<1>5. QED
  BY <1>1, <1>3, <1>4, CallKeepsBindings DEF IInv, BindingsCurrent

LEMMA SetViewportKeepsBindings ==
  ASSUME IInv, NEW v, SetViewport(v)
  PROVE  BindingsCurrent'
<1>1. /\ st' = [st EXCEPT !["viewport"] = v] /\ DOMAIN st = Inputs \cup {"scene"}
      /\ UNCHANGED <<flags, maskVars, cache, listVars>>
      /\ untold' = untold \cup {"viewport", "vs_cbuffer"} \X {"viewport"}
  BY DEF SetViewport, IInv, Shapes
<1>2. OnlyRaises
  BY <1>1 DEF OnlyRaises, maskVars
<1>3. ASSUME NEW p \in Parts \cap DOMAIN ReadBy, NEW j \in Reads(p) \ {"prim"}
      PROVE  Announced(p, j)
  <2>1. CASE j = "viewport"
    BY <1>1, <2>1, ReadsTold DEF Announced
  <2>2. CASE j # "viewport"
    <3>1. st'[j] = st[j] /\ st'["scene"] = st["scene"] /\ st'["target"] = st["target"]
      BY <1>1, <2>2, ReadsTold, InputsAreTheGames
    <3>2. \A t \in Textures : st'[t] = st[t]
      BY <1>1 DEF Textures
    <3>3. Seen(st', p, j) = Seen(st, p, j)
      BY <3>1, <3>2, SeenDependsOn
    <3>4. QED
      BY <3>3 DEF Announced
  <2>3. QED
    BY <2>1, <2>2
<1>4. QED
  BY <1>1, <1>2, <1>3, CallKeepsBindings DEF IInv, BindingsCurrent

\* Both targets and the viewport are stored before the call can fail.
LEMMA TargetKeepsBindings ==
  ASSUME IInv, NEW v, SetRenderTarget(v) \/ SetRenderTargetFails(v)
  PROVE  BindingsCurrent'
<1>1. /\ st' = [st EXCEPT !["target"] = v, !["viewport"] = 0]
      /\ DOMAIN st = Inputs \cup {"scene"}
      /\ UNCHANGED <<maskVars, cache, listVars>>
      /\ flags \subseteq flags' /\ untold \subseteq untold'
  BY DEF SetRenderTarget, SetRenderTargetFails, IInv, Shapes
<1>2. OnlyRaises
  BY <1>1 DEF OnlyRaises, maskVars
<1>3. \/ {"OM", "PSO"} \subseteq flags' /\ <<"vs_cbuffer", "viewport">> \in untold'
      \/ {"viewport", "render_target", "pso", "vs_cbuffer"} \X {"target", "viewport", "scene"}
           \subseteq untold'
  BY DEF SetRenderTarget, SetRenderTargetFails
<1>4. ASSUME NEW p \in Parts \cap DOMAIN ReadBy, NEW j \in Reads(p) \ {"prim"}
      PROVE  Announced(p, j)
  <2>1. CASE j \in {"target", "viewport", "scene"}
    <3>1. p \in {"viewport", "render_target", "pso", "vs_cbuffer"}
      BY <2>1, ReadsTold
    <3>2. p = "vs_cbuffer" => j = "viewport"
      BY <2>1, ReadsTold
    <3>3. p \notin Tables /\ p # "sampler"
      BY <3>1 DEF Tables, TableOf, Textures
    <3>4. p # "vs_cbuffer" => MadeAgainFor[p] \in {"OM", "PSO"}
      BY <3>1 DEF MadeAgainFor
    <3>5. QED
      BY <1>3, <2>1, <3>1, <3>2, <3>3, <3>4 DEF Announced
  <2>2. CASE j \notin {"target", "viewport", "scene"}
    <3>1. st'[j] = st[j]
      BY <1>1, <2>2, ReadsTold
    <3>2. \A t \in Textures : st'[t] = st[t]
      BY <1>1 DEF Textures
    <3>3. Seen(st', p, j) = Seen(st, p, j)
      BY <2>2, <3>1, <3>2, SeenDependsOn
    <3>4. QED
      BY <3>3 DEF Announced
  <2>3. QED
    BY <2>1, <2>2
<1>5. QED
  BY <1>1, <1>2, <1>4, CallKeepsBindings DEF IInv, BindingsCurrent

LEMMA ChangeSettingKeepsBindings ==
  ASSUME IInv, NEW i \in Inputs, NEW v, ChangeSetting(i, v)
  PROVE  BindingsCurrent'
<1>1. /\ i \in Settings
      /\ st' = [st EXCEPT ![i] = v] /\ DOMAIN st = Inputs \cup {"scene"}
      /\ UNCHANGED <<flags, maskVars, cache, listVars>>
      /\ untold' = untold \cup {"pso", "sampler"} \X {i}
      /\ i # "scene" /\ i # "target" /\ i \notin Textures
  <2>1. Settings \cap {"scene", "target", "tex0", "tex1"} = {}
    BY DEF Settings, PsoSettings, SamplerSettings
  <2>2. QED
    BY <2>1 DEF ChangeSetting, IInv, Shapes, Textures
<1>2. OnlyRaises
  BY <1>1 DEF OnlyRaises, maskVars
<1>3. ASSUME NEW p \in Parts \cap DOMAIN ReadBy, NEW j \in Reads(p) \ {"prim"}
      PROVE  Announced(p, j)
  <2>1. CASE j = i
    BY <1>1, <2>1, ReadsTold DEF Announced
  <2>2. CASE j # i
    <3>1. st'[j] = st[j] /\ st'["scene"] = st["scene"] /\ st'["target"] = st["target"]
      BY <1>1, <2>2, ReadsTold, InputsAreTheGames
    <3>2. \A t \in Textures : st'[t] = st[t]
      BY <1>1 DEF Textures
    <3>3. Seen(st', p, j) = Seen(st, p, j)
      BY <3>1, <3>2, SeenDependsOn
    <3>4. QED
      BY <3>3 DEF Announced
  <2>3. QED
    BY <2>1, <2>2
<1>4. QED
  BY <1>1, <1>2, <1>3, CallKeepsBindings DEF IInv, BindingsCurrent

LEMMA ResolveByCopyKeepsBindings ==
  ASSUME IInv, ResolveByCopy
  PROVE  BindingsCurrent'
<1>1. /\ st' = [st EXCEPT !["scene"] = FALSE] /\ DOMAIN st = Inputs \cup {"scene"}
      /\ flags' = flags \cup {"OM", "PSO"}
      /\ UNCHANGED <<maskVars, cache, listVars, untold>>
  BY DEF ResolveByCopy, IInv, Shapes
<1>2. OnlyRaises
  BY <1>1 DEF OnlyRaises, maskVars
<1>3. ASSUME NEW p \in Parts \cap DOMAIN ReadBy, NEW j \in Reads(p) \ {"prim"}
      PROVE  Announced(p, j)
  <2>1. CASE j = "scene"
    <3>1. p \in {"viewport", "render_target"}
      BY <2>1, ReadsTold
    <3>2. MadeAgainFor[p] = "OM"
      BY <3>1 DEF MadeAgainFor
    <3>3. p \notin Tables /\ p # "sampler"
      BY <3>1 DEF Tables, TableOf, Textures
    <3>4. QED
      BY <1>1, <3>2, <3>3 DEF Announced
  <2>2. CASE j # "scene"
    <3>1. st'[j] = st[j]
      BY <1>1, <2>2, ReadsTold
    <3>2. \A t \in Textures : st'[t] = st[t]
      BY <1>1, InputsAreTheGames DEF Textures
    <3>3. Seen(st', p, j) = Seen(st, p, j)
      BY <2>2, <3>1, <3>2, SeenDependsOn
    <3>4. QED
      BY <3>3 DEF Announced
  <2>3. QED
    BY <2>1, <2>2
<1>4. QED
  BY <1>1, <1>2, <1>3, CallKeepsBindings DEF IInv, BindingsCurrent

LEMMA ApplyKeepsBindings ==
  ASSUME IInv, ApplyStateBlock
  PROVE  BindingsCurrent'
<1>1. /\ flags' = DirtyFlags /\ texture_mask' = Textures /\ sampler_mask' = TRUE
      /\ UNCHANGED <<cache, listVars, untold>>
      /\ flags \subseteq DirtyFlags /\ texture_mask \subseteq Textures
  BY DEF ApplyStateBlock, IInv, TypeOK
<1>2. OnlyRaises
  BY <1>1 DEF OnlyRaises
<1>3. ASSUME NEW p \in Parts \cap DOMAIN ReadBy, NEW j \in Reads(p) \ {"prim"}
      PROVE  Announced(p, j)
  BY <1>1, ReadsTold DEF Announced
<1>4. QED
  BY <1>1, <1>2, <1>3, CallKeepsBindings DEF IInv, BindingsCurrent

-----------------------------------------------------------------------------
\* What touches the list besides draws.
LEMMA ListResetKeepsBindings ==
  ASSUME IInv, ListReset, filled' = filled
  PROVE  BindingsCurrent'
<1>1. /\ flags' = DirtyFlags /\ bound' = Unbound /\ root' = "none"
      /\ last' = Forgotten(last.pso, last.pso_prim)
  BY DEF ListReset
<1>2. /\ last'.root = FALSE /\ last'.set_pso = Nothing /\ last'.prim = "none"
      /\ last'.stencil = Nothing /\ last'.streams = Nothing
  BY <1>1 DEF Forgotten
<1>3. bound'["stencil"] = Nothing /\ bound'["streams"] = Nothing
  BY <1>1 DEF Unbound, Parts
<1>4. TargetsCurrent' /\ PsoCurrent'
  BY <1>1 DEF TargetsCurrent, PsoCurrent, DirtyFlags
<1>5. FilledCurrent'
  <2>1. \A c \in CBuffers : MadeAgainFor[c] \in DirtyFlags
    BY DEF CBuffers, MadeAgainFor, DirtyFlags
  <2>2. QED
    BY <1>1, <2>1 DEF FilledCurrent
<1>6. RootCurrent' /\ BlitIsUntold'
  BY <1>1, <1>2 DEF RootCurrent, BlitIsUntold
<1>7. CachesAreRight'
  BY <1>2, <1>3 DEF CachesAreRight
<1>8. QED
  BY <1>4, <1>5, <1>6, <1>7 DEF BindingsCurrent

LEMMA BeginSceneKeepsBindings ==
  ASSUME IInv, BeginScene
  PROVE  BindingsCurrent'
<1>1. /\ bound' = [p \in Parts |-> IF p \in {"viewport", "render_target"}
                                   THEN View(st, p) ELSE bound[p]]
      /\ flags' = Toggle("OM", flags)
      /\ untold' = {u \in untold : u[1] \notin {"viewport", "render_target"}}
      /\ UNCHANGED <<st, texture_mask, sampler_mask, cache, filled, root, last>>
  BY DEF BeginScene, maskVars
<1>2. /\ \A p \in Parts : p \notin {"viewport", "render_target"} => bound'[p] = bound[p]
      /\ \A f : f # "OM" => (f \in flags' <=> f \in flags)
      /\ \A p, i : p \notin {"viewport", "render_target"} =>
                     (<<p, i>> \in untold' <=> <<p, i>> \in untold)
  BY <1>1 DEF Toggle
<1>3. TargetsCurrent'
  <2>1. /\ bound'["viewport"] = View(st, "viewport")
        /\ bound'["render_target"] = View(st, "render_target")
    BY <1>1, PartsRead
  <2>2. QED
    BY <1>1, <2>1 DEF TargetsCurrent, Current, Known, View
<1>4. ASSUME NEW p \in Parts, p \notin {"viewport", "render_target"}, NEW b
      PROVE  Current(p, b) <=> \A i \in Reads(p) \ {"prim"} :
                                 \/ i \in DOMAIN b /\ b[i] = Seen(st', p, i)
                                 \/ <<p, i>> \in untold'
  BY <1>1, <1>2, <1>4 DEF Current, Known
<1>5. PsoCurrent'
  <2>1. "pso" \in Parts
    BY PartsRead
  <2>2. QED
    BY <1>1, <1>2, <1>4, <2>1 DEF IInv, PsoCurrent, Current, Known
<1>6. FilledCurrent'
  <2>1. ASSUME NEW c \in CBuffers
        PROVE  c \in Parts /\ c \notin {"viewport", "render_target"} /\ MadeAgainFor[c] # "OM"
    BY PartsRead DEF CBuffers, MadeAgainFor
  <2>2. QED
    BY <1>1, <1>2, <1>4, <2>1 DEF IInv, FilledCurrent, Current, Known
<1>7. RootCurrent'
  <2>1. SUFFICES ASSUME last.root, root = "main" PROVE RootCurrent'
    BY <1>1 DEF RootCurrent
  <2>2. \A c \in CBuffers : bound'[c] = filled'[c]
    BY <1>1, <1>2, <2>1, PartsRead DEF CBuffers, IInv, RootCurrent
  <2>3. ASSUME NEW t \in Textures PROVE TableCurrent(t)'
    <3>1. TableOf[t] \in Parts /\ TableOf[t] \notin {"viewport", "render_target"}
      BY PartsRead DEF Tables, Textures, TableOf
    <3>2. TableCurrent(t)
      BY <2>1 DEF IInv, RootCurrent
    <3>3. QED
      BY <1>1, <1>2, <3>1, <3>2 DEF TableCurrent, Known
  <2>4. \/ "PS_SAMPLERS" \in flags' /\ sampler_mask'
        \/ Current("sampler", bound["sampler"])'
    BY <1>1, <1>2, <1>4, <2>1, PartsRead DEF IInv, RootCurrent, Current, Known
  <2>5. QED
    BY <2>2, <2>3, <2>4 DEF RootCurrent
<1>8. BlitIsUntold'
  <2>1. \A p \in RootArguments \cup {"pso"} : p \notin {"viewport", "render_target"}
    BY DEF RootArguments, CBuffers, Tables, TableOf, Textures
  <2>2. RootArguments' = RootArguments
    BY DEF RootArguments
  <2>3. QED
    BY <1>1, <1>2, <2>1, <2>2 DEF IInv, BlitIsUntold
<1>9. CachesAreRight'
  <2>1. \A p \in {"pso", "stencil", "streams", "topology"} : bound'[p] = bound[p]
    BY <1>2 DEF Parts
  <2>2. QED
    BY <1>1, <1>2, <2>1 DEF IInv, CachesAreRight
<1>10. QED
  BY <1>3, <1>5, <1>6, <1>7, <1>8, <1>9 DEF BindingsCurrent

\* Both passes end with the flags of the targets and the pipeline state raised,
\* and the constant buffers' contents as they were.
LEMMA PassKeepsFilled ==
  ASSUME IInv, {"OM", "PSO"} \subseteq flags', flags \subseteq flags', untold \subseteq untold',
         filled' = filled, \A i \in Inputs : st'[i] = st[i]
  PROVE  TargetsCurrent' /\ PsoCurrent' /\ FilledCurrent'
<1>1. TargetsCurrent' /\ PsoCurrent'
  BY DEF TargetsCurrent, PsoCurrent
<1>2. ASSUME NEW c \in CBuffers, MadeAgainFor[c] \notin flags'
      PROVE  Current(c, filled[c])'
  <2>1. Current(c, filled[c])
    BY <1>2 DEF IInv, FilledCurrent
  <2>2. c \in Parts \cap DOMAIN ReadBy /\ c \notin {"pso", "viewport", "render_target"}
    BY PartsRead DEF CBuffers
  <2>3. ASSUME NEW i \in Reads(c) \ {"prim"} PROVE Seen(st', c, i) = Seen(st, c, i)
    <3>1. i \in Inputs /\ i # "scene"
      BY <2>2, ReadsTold
    <3>2. QED
      BY <2>2, <3>1, SeenDependsOn
  <2>4. QED
    BY <2>1, <2>3 DEF Current, Known
<1>3. QED
  BY <1>1, <1>2 DEF FilledCurrent

LEMMA BlitKeepsBindings ==
  ASSUME IInv, ResolveByBlit
  PROVE  BindingsCurrent'
<1>1. /\ st' = [st EXCEPT !["scene"] = FALSE] /\ DOMAIN st = Inputs \cup {"scene"}
      /\ flags' = flags \cup {"OM", "PSO"} /\ root' = "blit" /\ bound' = Overdrawn
      /\ UNCHANGED <<cache, filled, last>>
      /\ untold' = untold \cup
           (IF cache THEN RootArguments \cup {"topology", "pso"} ELSE {"topology"})
           \X (Inputs \cup {"prim"})
  BY DEF ResolveByBlit, IInv, Shapes
<1>2. \A i \in Inputs : st'[i] = st[i]
  BY <1>1, InputsAreTheGames
<1>3. TargetsCurrent' /\ PsoCurrent' /\ FilledCurrent'
  BY <1>1, <1>2, PassKeepsFilled
<1>4. RootCurrent'
  BY <1>1 DEF RootCurrent
<1>5. BlitIsUntold'
  <2>1. RootArguments' = RootArguments
    BY DEF RootArguments
  <2>2. SUFFICES ASSUME cache
                 PROVE  (RootArguments \cup {"pso"}) \X (Inputs \cup {"prim"}) \subseteq untold'
    BY <1>1, <2>1 DEF BlitIsUntold
  <2>3. untold' = untold \cup
           (RootArguments \cup {"topology", "pso"}) \X (Inputs \cup {"prim"})
    BY <1>1, <2>2
  <2>4. QED
    BY <2>3
<1>6. CachesAreRight'
  <2>1. bound'["stencil"] = bound["stencil"] /\ bound'["streams"] = bound["streams"]
    BY <1>1 DEF Overdrawn, Parts
  <2>2. <<"topology", "prim">> \in untold'
    BY <1>1
  <2>3. CachesAreRight
    BY DEF IInv
  <2>4. QED
    BY <1>1, <2>1, <2>2, <2>3 DEF CachesAreRight, IInv, Shapes
<1>7. QED
  BY <1>3, <1>4, <1>5, <1>6 DEF BindingsCurrent

LEMMA MotionKeepsBindings ==
  ASSUME IInv, MotionPass
  PROVE  BindingsCurrent'
<1>1. /\ flags' = flags \cup {"OM", "PSO"} /\ root' = "motion" /\ bound' = Overdrawn
      /\ last' = [last EXCEPT !.root = FALSE, !.set_pso = Nothing, !.prim = "none"]
      /\ UNCHANGED <<st, cache, filled, untold>>
  BY DEF MotionPass
<1>2. TargetsCurrent' /\ PsoCurrent' /\ FilledCurrent'
  BY <1>1, PassKeepsFilled
<1>3. /\ last'.root = FALSE /\ last'.set_pso = Nothing /\ last'.prim = "none"
      /\ last'.stencil = last.stencil /\ last'.streams = last.streams
  BY <1>1 DEF IInv, Shapes
<1>4. RootCurrent' /\ BlitIsUntold'
  BY <1>1, <1>3 DEF RootCurrent, BlitIsUntold
<1>5. CachesAreRight'
  <2>1. bound'["stencil"] = bound["stencil"] /\ bound'["streams"] = bound["streams"]
    BY <1>1 DEF Overdrawn, Parts
  <2>2. last.stencil = bound["stencil"] /\ last.streams = bound["streams"]
    BY DEF IInv, CachesAreRight
  <2>3. QED
    BY <1>3, <2>1, <2>2 DEF CachesAreRight
<1>6. QED
  BY <1>2, <1>4, <1>5 DEF BindingsCurrent

-----------------------------------------------------------------------------
\* Draws.  s is the state a draw is drawn with: the game's, but for the primitives
\* and, when the vertices come from the game's own memory, the first stream.
DrawnWith(s) ==
  /\ DOMAIN s = Inputs \cup {"scene", "prim"}
  /\ s["prim"] \in Prims
  /\ \A i \in (Inputs \cup {"scene"}) \ {"stream"} : s[i] = st[i]
Shows(s, p, i, b) == i \in DOMAIN b /\ b[i] = Seen(s, p, i)

LEMMA ViewShows ==
  ASSUME NEW s, NEW p, NEW i \in Reads(p)
  PROVE  Shows(s, p, i, View(s, p))
  BY DEF Shows, View

LEMMA KnownShows ==
  ASSUME IInv, NEW s, DrawnWith(s), NEW p \in Parts \cap DOMAIN ReadBy,
         NEW i \in Reads(p) \ {"prim"}, NEW b, Known(p, i, b)
  PROVE  Shows(s, p, i, b) \/ <<p, i>> \in untold
<1>1. i \in Inputs \cup {"scene"} /\ i # "stream"
  BY PartsRead, WhereRead
<1>2. /\ "target" \in Inputs /\ "target" # "stream" /\ "scene" # "stream"
      /\ \A t \in Textures : t \in Inputs /\ t # "stream"
  BY InputsAreTheGames DEF Textures
<1>3. /\ s[i] = st[i] /\ s["scene"] = st["scene"] /\ s["target"] = st["target"]
      /\ \A t \in Textures : s[t] = st[t]
  BY <1>1, <1>2 DEF DrawnWith
<1>4. Seen(s, p, i) = Seen(st, p, i)
  BY <1>3, SeenDependsOn
<1>5. QED
  BY <1>4 DEF Known, Shows

\* What a draw drops from what is known to be untold.
Kept(s, u) == \/ u[1] \notin Made(s)
              \/ root = "blit" /\ ~RootReset /\ u[1] \in RootArguments \cup {"pso"}
LEMMA KeptStays ==
  ASSUME NEW s, PrepareDrawCall(s, AfterDraw(s)), NEW u \in untold, Kept(s, u)
  PROVE  u \in untold'
<1>1. AfterDraw(s).made = Made(s)
  BY DEF AfterDraw
<1>2. QED
  BY <1>1 DEF PrepareDrawCall, Kept

\* What a draw makes again, part by part.
LEMMA MadeWhen ==
  ASSUME TypeOK, NEW s
  PROVE  /\ \A p \in {"viewport", "render_target"} : p \in Made(s) <=> "OM" \in flags
         /\ "topology" \in Made(s) <=> s["prim"] # last.prim
         /\ "pso" \in Made(s) <=> PsoMade(s)
         /\ \A c \in CBuffers : c \in Made(s) <=> MadeAgainFor[c] \in flags
         /\ "sampler" \in Made(s) <=> SamplersNamed
         /\ "stencil" \in Made(s) <=> ~cache \/ View(s, "stencil") # last.stencil
         /\ "streams" \in Made(s) <=> ~cache \/ View(s, "streams") # last.streams
         /\ \A t \in Textures : TableOf[t] \in Made(s) <=> t \in TablesNamed /\ s[t] > 0
         /\ Made(s) \subseteq Parts
<1> DEFINE Single == {"viewport", "render_target", "topology", "pso", "sampler", "stencil",
                      "streams"}
<1>1. \A t \in TablesNamed : t \in Textures
  BY DEF TypeOK, TablesNamed
<1>2. /\ \A t \in Textures : TableOf[t] \in Parts /\ TableOf[t] \notin Single \cup CBuffers
      /\ \A t, u \in Textures : TableOf[t] = TableOf[u] => t = u
  BY PartsRead DEF Tables, TableOf, Textures, CBuffers
<1>3. \A c \in CBuffers : c \in Parts /\ c \notin Single
  BY PartsRead DEF CBuffers
<1>4. Single \subseteq Parts
  BY DEF Parts
<1>5. ASSUME NEW p \in Parts
      PROVE  p \in Made(s) <=>
               \/ p \in {"viewport", "render_target"} /\ "OM" \in flags
               \/ p = "topology" /\ s["prim"] # last.prim
               \/ p = "pso" /\ PsoMade(s)
               \/ p \in CBuffers /\ MadeAgainFor[p] \in flags
               \/ p = "sampler" /\ SamplersNamed
               \/ p = "stencil" /\ (~cache \/ View(s, p) # last.stencil)
               \/ p = "streams" /\ (~cache \/ View(s, p) # last.streams)
               \/ \E t \in TablesNamed : p = TableOf[t] /\ s[t] > 0
  BY Zenon DEF Made
<1>6. ASSUME NEW p \in Single
      PROVE  p \in Made(s) <=>
               \/ p \in {"viewport", "render_target"} /\ "OM" \in flags
               \/ p = "topology" /\ s["prim"] # last.prim
               \/ p = "pso" /\ PsoMade(s)
               \/ p = "sampler" /\ SamplersNamed
               \/ p = "stencil" /\ (~cache \/ View(s, p) # last.stencil)
               \/ p = "streams" /\ (~cache \/ View(s, p) # last.streams)
  BY <1>1, <1>2, <1>3, <1>4, <1>5
<1>7. \A c \in CBuffers : c \in Made(s) <=> MadeAgainFor[c] \in flags
  BY <1>1, <1>2, <1>3, <1>5
<1>8. \A t \in Textures : TableOf[t] \in Made(s) <=> t \in TablesNamed /\ s[t] > 0
  BY <1>1, <1>2, <1>5
<1>9. Made(s) \subseteq Parts
  BY DEF Made
<1>10. QED
  BY <1>6, <1>7, <1>8, <1>9

LEMMA PsoForShows ==
  ASSUME IInv, NEW s, DrawnWith(s)
  PROVE  /\ "prim" \in DOMAIN PsoFor(s) /\ PsoFor(s)["prim"] = s["prim"]
         /\ \A i \in Reads("pso") : \/ Shows(s, "pso", i, PsoFor(s))
                                    \/ <<"pso", i>> \in untold /\ "pso" \notin Made(s)
<1>1. /\ "pso" \in Parts \cap DOMAIN ReadBy /\ "prim" \in Reads("pso")
      /\ "pso" \notin CBuffers /\ \A t \in Textures : TableOf[t] # "pso"
  BY PartsRead DEF ReadBy, CBuffers, TableOf, Textures
<1>2. Seen(s, "pso", "prim") = s["prim"]
  BY DEF Seen, Textures
<1>3. CASE PsoMade(s)
  <2>1. PsoFor(s) = View(s, "pso")
    BY <1>3 DEF PsoFor
  <2>2. QED
    BY <1>1, <1>2, <2>1, ViewShows DEF Shows
<1>4. CASE ~PsoMade(s)
  <2>1. /\ PsoFor(s) = last.pso /\ "PSO" \notin flags /\ last.pso_prim = s["prim"]
    BY <1>4 DEF PsoFor, PsoMade
  <2>2. /\ Current("pso", last.pso)
        /\ "prim" \in DOMAIN last.pso /\ last.pso["prim"] = last.pso_prim
    BY <2>1 DEF IInv, PsoCurrent
  <2>3. "pso" \notin Made(s)
    BY <1>4, MadeWhen DEF IInv
  <2>4. ASSUME NEW i \in Reads("pso") \ {"prim"}
        PROVE  Shows(s, "pso", i, last.pso) \/ <<"pso", i>> \in untold
    <3>1. Known("pso", i, last.pso)
      BY <2>2 DEF Current
    <3>2. QED
      BY <1>1, <3>1, KnownShows
  <2>5. Shows(s, "pso", "prim", last.pso)
    BY <1>2, <2>1, <2>2 DEF Shows
  <2>6. QED
    BY <2>1, <2>2, <2>3, <2>4, <2>5
<1>5. QED
  BY <1>3, <1>4

\* The constant buffers after the draw.
LEMMA FilledShows ==
  ASSUME IInv, NEW s, DrawnWith(s), NEW c \in CBuffers
  PROVE  /\ AfterDraw(s).filled[c] = IF c \in Made(s) THEN View(s, c) ELSE filled[c]
         /\ \A i \in Reads(c) : \/ Shows(s, c, i, AfterDraw(s).filled[c])
                                \/ <<c, i>> \in untold /\ c \notin Made(s)
<1>1. AfterDraw(s).filled[c] = IF c \in Made(s) THEN View(s, c) ELSE filled[c]
  BY DEF AfterDraw
<1>2. c \in Parts \cap DOMAIN ReadBy
  BY PartsRead
<1>3. c \in Made(s) <=> MadeAgainFor[c] \in flags
  BY MadeWhen DEF IInv
<1>4. ASSUME c \notin Made(s), NEW i \in Reads(c)
      PROVE  Shows(s, c, i, filled[c]) \/ <<c, i>> \in untold
  <2>1. i # "prim"
    BY <1>2, PartsRead, WhereRead DEF CBuffers
  <2>2. Known(c, i, filled[c])
    BY <1>3, <1>4, <2>1 DEF IInv, FilledCurrent, Current
  <2>3. QED
    BY <1>2, <2>1, <2>2, KnownShows
<1>5. QED
  BY <1>1, <1>4, ViewShows

\* What the list holds after the draw.
LEMMA BoundAfter ==
  ASSUME NEW s, NEW p \in Parts
  PROVE  /\ p \in Rebound(s, Made(s)) =>
              AfterDraw(s).bound[p] = IF p = "pso" THEN PsoFor(s)
                                      ELSE IF p \in CBuffers THEN AfterDraw(s).filled[p]
                                      ELSE View(s, p)
         /\ p \notin Rebound(s, Made(s)) =>
              AfterDraw(s).bound[p] =
                IF RootReset /\ p \in RootArguments THEN Nothing ELSE bound[p]
<1>1. PICK made : made = Made(s)
  OBVIOUS
<1>2. PICK now : now = [c \in CBuffers |-> IF c \in made THEN View(s, c) ELSE filled[c]]
  OBVIOUS
<1>3. PICK again : again = Rebound(s, made)
  OBVIOUS
<1>4. PICK held : held = [q \in Parts |->
                   IF q \notin again
                   THEN IF RootReset /\ q \in RootArguments THEN Nothing ELSE bound[q]
                   ELSE IF q = "pso" THEN PsoFor(s)
                   ELSE IF q \in CBuffers THEN now[q]
                   ELSE View(s, q)]
  OBVIOUS
<1>5. AfterDraw(s) = [made |-> made, filled |-> now, bound |-> held]
  BY <1>1, <1>2, <1>3, <1>4, Zenon DEF AfterDraw
<1>6. AfterDraw(s).bound = held /\ AfterDraw(s).filled = now
  BY <1>5
<1>7. held[p] = IF p \notin again
                THEN IF RootReset /\ p \in RootArguments THEN Nothing ELSE bound[p]
                ELSE IF p = "pso" THEN PsoFor(s)
                ELSE IF p \in CBuffers THEN now[p]
                ELSE View(s, p)
  BY <1>4
<1>8. again = Rebound(s, Made(s))
  BY <1>1, <1>3
<1>9. QED
  BY <1>6, <1>7, <1>8

LEMMA ReboundWhen ==
  ASSUME NEW s, NEW p \in Parts
  PROVE  p \in Rebound(s, Made(s)) <=>
           /\ \/ p # "pso" /\ p \in Made(s)
              \/ RootReset /\ p \in CBuffers
              \/ p = "pso" /\ (~cache \/ PsoFor(s) # last.set_pso)
           /\ RootReset \/ root = "main" \/ p \notin RootArguments
<1>1. "pso" \notin CBuffers
  BY DEF CBuffers
<1>2. QED
  BY <1>1 DEF Rebound

\* After the draw every part shows the state it is drawn with, or that was untold
\* before and stays so.
LEMMA DrawShows ==
  ASSUME IInv, NEW s, DrawnWith(s), NEW p \in Parts, NEW i \in Reads(p),
         i \in Textures /\ p # "pso" => s[i] > 0
  PROVE  \/ Shows(s, p, i, AfterDraw(s).bound[p])
         \/ <<p, i>> \in untold /\ Kept(s, <<p, i>>)
<1> DEFINE b == AfterDraw(s).bound[p]
<1>a. /\ CBuffers \cap ({"viewport", "render_target", "pso", "stencil", "streams", "topology",
                         "sampler"} \cup Tables) = {}
      /\ Tables \cap {"viewport", "render_target", "pso", "stencil", "streams", "topology",
                      "sampler"} = {}
      /\ RootArguments = CBuffers \cup Tables \cup {"sampler"}
  BY DEF CBuffers, Tables, TableOf, Textures, RootArguments
<1>b. /\ last.root => root \in {"main", "blit"}
      /\ cache => \/ last.set_pso \in {bound["pso"], Nothing}
                  \/ root = "blit" /\ last.root
      /\ last.stencil = bound["stencil"]
      /\ last.streams = bound["streams"]
      /\ \/ last.prim = "none"
         \/ "prim" \in DOMAIN bound["topology"] /\ bound["topology"]["prim"] = last.prim
         \/ <<"topology", "prim">> \in untold
  BY DEF IInv, CachesAreRight
<1>c. TypeOK
  BY DEF IInv
\* Bound from the state itself.
<1>1. CASE p \in Rebound(s, Made(s)) /\ p \notin CBuffers \cup {"pso"}
  <2>1. b = View(s, p)
    BY <1>1, BoundAfter
  <2>2. QED
    BY <2>1, ViewShows
<1>2. CASE p \in {"viewport", "render_target"} /\ p \notin Rebound(s, Made(s))
  <2>1. p \notin Made(s) /\ p \notin RootArguments
    BY <1>2, <1>a, ReboundWhen
  <2>2. b = bound[p]
    BY <1>2, <2>1, BoundAfter
  <2>3. "OM" \notin flags
    BY <1>2, <1>c, <2>1, MadeWhen
  <2>4. i # "prim"
    BY <1>2, PartsRead, WhereRead
  <2>5. Known(p, i, bound[p])
    BY <1>2, <2>3, <2>4 DEF IInv, TargetsCurrent, Current
  <2>6. p \in Parts \cap DOMAIN ReadBy
    BY <1>2, PartsRead
  <2>7. QED
    BY <2>1, <2>2, <2>4, <2>5, <2>6, KnownShows DEF Kept
<1>3. CASE p = "topology" /\ p \notin Rebound(s, Made(s))
  <2>1. p \notin Made(s) /\ p \notin RootArguments
    BY <1>3, <1>a, ReboundWhen
  <2>2. b = bound[p]
    BY <1>3, <2>1, BoundAfter
  <2>3. s["prim"] = last.prim /\ last.prim # "none"
    BY <1>3, <1>c, <2>1, MadeWhen, PrimsAssumption DEF DrawnWith
  <2>4. i = "prim" /\ Seen(s, p, i) = s["prim"]
    BY <1>3, PartsRead DEF Seen
  <2>5. QED
    BY <1>3, <1>b, <2>1, <2>2, <2>3, <2>4 DEF Shows, Kept
<1>4. CASE p \in {"stencil", "streams"} /\ p \notin Rebound(s, Made(s))
  <2>1. p \notin Made(s) /\ p \notin RootArguments
    BY <1>4, <1>a, ReboundWhen
  <2>2. b = bound[p]
    BY <1>4, <2>1, BoundAfter
  <2>3. bound[p] = View(s, p)
    BY <1>4, <1>b, <1>c, <2>1, MadeWhen
  <2>4. QED
    BY <2>2, <2>3, ViewShows
<1>5. CASE p = "pso"
  <2>1. \/ Shows(s, p, i, PsoFor(s))
        \/ <<p, i>> \in untold /\ p \notin Made(s)
    BY <1>5, PsoForShows
  <2>2. CASE b = PsoFor(s)
    BY <2>1, <2>2 DEF Kept
  <2>3. CASE b # PsoFor(s)
    <3>1. p \notin Rebound(s, Made(s)) /\ p \notin RootArguments
      BY <1>5, <1>a, <2>3, BoundAfter
    <3>2. cache /\ PsoFor(s) = last.set_pso /\ b = bound[p]
      BY <1>5, <3>1, ReboundWhen, BoundAfter
    <3>3. PsoFor(s) # Nothing
      <4>1. "prim" \in DOMAIN PsoFor(s)
        BY PsoForShows
      <4>2. "prim" \notin DOMAIN Nothing
        BY DEF Nothing
      <4>3. QED
        BY <4>1, <4>2
    <3>4. root = "blit" /\ last.root
      BY <1>5, <1>b, <2>3, <3>2, <3>3
    <3>5. i \in Inputs \cup {"prim"}
      BY <1>5, PartsRead, WhereRead
    <3>6. <<p, i>> \in untold
      BY <1>5, <3>2, <3>4, <3>5 DEF IInv, BlitIsUntold
    <3>7. QED
      BY <1>5, <3>2, <3>4, <3>6 DEF Kept, RootReset
  <2>4. QED
    BY <2>2, <2>3
<1>6. ASSUME ~RootReset, root # "main", p \in RootArguments
      PROVE  <<p, i>> \in untold /\ Kept(s, <<p, i>>)
  <2>1. cache /\ last.root /\ root = "blit"
    BY <1>6, <1>b DEF RootReset
  <2>2. i \in Inputs \cup {"prim"}
    BY <1>6, <1>a, PartsRead, WhereRead
  <2>3. <<p, i>> \in untold
    BY <1>6, <2>1, <2>2 DEF IInv, BlitIsUntold
  <2>4. QED
    BY <1>6, <2>1, <2>3 DEF Kept
<1>7. CASE p \in CBuffers /\ ~(~RootReset /\ root # "main")
  <2>1. /\ AfterDraw(s).filled[p] = IF p \in Made(s) THEN View(s, p) ELSE filled[p]
        /\ \/ Shows(s, p, i, AfterDraw(s).filled[p])
           \/ <<p, i>> \in untold /\ p \notin Made(s)
    BY <1>7, FilledShows
  <2>2. b = AfterDraw(s).filled[p]
    <3>1. CASE p \in Rebound(s, Made(s))
      BY <1>7, <1>a, <3>1, BoundAfter
    <3>2. CASE p \notin Rebound(s, Made(s))
      <4>1. ~RootReset /\ root = "main" /\ p \notin Made(s)
        BY <1>7, <1>a, <3>2, ReboundWhen
      <4>2. b = bound[p]
        BY <3>2, <4>1, BoundAfter
      <4>3. bound[p] = filled[p]
        BY <1>7, <4>1 DEF IInv, RootCurrent, RootReset
      <4>4. QED
        BY <2>1, <4>1, <4>2, <4>3
    <3>3. QED
      BY <3>1, <3>2
  <2>3. QED
    BY <2>1, <2>2 DEF Kept
<1>8. CASE p \in Tables \cup {"sampler"} /\ ~(~RootReset /\ root # "main")
           /\ p \notin Rebound(s, Made(s))
  <2>1. p \notin Made(s)
    BY <1>8, <1>a, ReboundWhen
  <2>2. p \in Parts \cap DOMAIN ReadBy /\ i # "prim"
    BY <1>8, <1>a, PartsRead, WhereRead
  <2>3. ~RootReset /\ Known(p, i, bound[p])
    <3>1. CASE p = "sampler"
      <4>1. ~SamplersNamed
        BY <1>c, <2>1, <3>1, MadeWhen
      <4>2. ~RootReset /\ ~("PS_SAMPLERS" \in flags /\ sampler_mask)
        BY <4>1 DEF SamplersNamed
      <4>3. last.root /\ root = "main"
        BY <1>8, <4>2 DEF RootReset
      <4>4. Current("sampler", bound["sampler"])
        BY <4>2, <4>3 DEF IInv, RootCurrent
      <4>5. QED
        BY <2>2, <3>1, <4>2, <4>4 DEF Current
    <3>2. CASE p \in Tables
      <4>1. i \in Textures /\ p = TableOf[i]
        BY <2>2, <3>2, ReadsTold
      <4>2. s[i] > 0
        BY <1>a, <3>2, <4>1
      <4>3. i \notin TablesNamed
        BY <1>c, <2>1, <4>1, <4>2, MadeWhen
      <4>4. ~RootReset /\ ~("PS_TEXTURES" \in flags /\ i \in texture_mask)
        BY <4>1, <4>3 DEF TablesNamed
      <4>5. last.root /\ root = "main"
        BY <1>8, <4>4 DEF RootReset
      <4>6. TableCurrent(i)
        BY <4>1, <4>5 DEF IInv, RootCurrent
      <4>7. s[i] = st[i]
        BY <4>1, InputsAreTheGames DEF DrawnWith, Textures
      <4>8. st[i] # 0
        BY <4>2, <4>7
      <4>9. QED
        BY <4>1, <4>4, <4>6, <4>8 DEF TableCurrent
    <3>3. QED
      BY <1>8, <3>1, <3>2
  <2>4. b = bound[p]
    BY <1>8, <2>3, BoundAfter
  <2>5. QED
    BY <2>1, <2>2, <2>3, <2>4, KnownShows DEF Kept
<1>9. p \in {"viewport", "render_target", "topology", "stencil", "streams", "pso"} \cup RootArguments
  BY <1>a DEF Parts
<1>10. QED
  BY <1>1, <1>2, <1>3, <1>4, <1>5, <1>6, <1>7, <1>8, <1>9, <1>a

\* A draw, of a buffer or of the game's own memory, as far as the bindings go.
LEMMA DrawKeepsBindings ==
  ASSUME IInv, NEW s, DrawnWith(s), PrepareDrawCall(s, AfterDraw(s)),
         \A p \in Parts \ {"streams"} : bound'[p] = AfterDraw(s).bound[p],
         \A i \in (Inputs \cup {"scene"}) \ {"stream"} : st'[i] = st[i],
         /\ last'.root = TRUE /\ last'.prim = s["prim"] /\ last'.pso_prim = s["prim"]
         /\ last'.pso = PsoFor(s) /\ last'.set_pso = PsoFor(s)
         /\ last'.stencil = View(s, "stencil") /\ last'.streams = bound'["streams"]
  PROVE  /\ wrong' \subseteq untold'
         /\ BindingsCurrent'
<1>1. /\ filled' = AfterDraw(s).filled /\ wrong' = Wrong(s, AfterDraw(s).bound) /\ flags' = {}
      /\ root' = (IF RootReset THEN "main" ELSE root) /\ cache' = cache
  BY DEF PrepareDrawCall
<1>2. ASSUME NEW p \in Parts, NEW i \in Reads(p), i \in Textures /\ p # "pso" => s[i] > 0
      PROVE  Shows(s, p, i, AfterDraw(s).bound[p]) \/ <<p, i>> \in untold'
  BY <1>2, DrawShows, KeptStays
<1>3. wrong' \subseteq untold'
  <2>1. SUFFICES ASSUME NEW w \in Wrong(s, AfterDraw(s).bound) PROVE w \in untold'
    BY <1>1
  <2>2. PICK p \in Parts, i \in Inputs \cup {"prim", "scene"} : w = <<p, i>>
    BY DEF Wrong, Read
  <2>3. i \in Reads(p) /\ Differs(s, p, i, AfterDraw(s).bound[p])
    BY <2>2 DEF Wrong, Read
  <2>4. QED
    BY <1>2, <2>2, <2>3 DEF Differs, Shows
\* What the draw was drawn with is still the state after it, where it is read.
<1>4. ASSUME NEW p \in Parts \cap DOMAIN ReadBy, NEW i \in Reads(p) \ {"prim"}
      PROVE  Seen(st', p, i) = Seen(s, p, i)
  <2>1. i \in Inputs \cup {"scene"} /\ i # "stream"
    BY PartsRead, WhereRead
  <2>2. /\ "target" \in Inputs /\ "target" # "stream" /\ "scene" # "stream"
        /\ \A t \in Textures : t \in Inputs /\ t # "stream"
    BY InputsAreTheGames DEF Textures
  <2>3. /\ st'[i] = s[i] /\ st'["scene"] = s["scene"] /\ st'["target"] = s["target"]
        /\ \A t \in Textures : st'[t] = s[t]
    BY <2>1, <2>2 DEF DrawnWith
  <2>4. QED
    BY <2>3, SeenDependsOn
<1>5. ASSUME NEW p \in Parts \cap DOMAIN ReadBy, NEW b,
             \A i \in Reads(p) \ {"prim"} : Shows(s, p, i, b) \/ <<p, i>> \in untold'
      PROVE  \A i \in Reads(p) \ {"prim"} : \/ i \in DOMAIN b /\ b[i] = Seen(st', p, i)
                                            \/ <<p, i>> \in untold'
  BY <1>4, <1>5 DEF Shows
<1>6. /\ {"viewport", "render_target", "pso", "sampler"} \cup CBuffers \cup Tables
           \subseteq Parts \cap DOMAIN ReadBy
      /\ {"viewport", "render_target", "pso", "sampler", "topology", "stencil"}
           \cup CBuffers \cup Tables \subseteq Parts \ {"streams"}
  BY PartsRead DEF CBuffers, Parts, Tables, TableOf, Textures
<1>7. \A p \in {"viewport", "render_target", "sampler"} : \A i \in Reads(p) : i \notin Textures
  <2>1. \A p \in {"viewport", "render_target", "sampler"} : p # "pso" /\ \A t \in Textures : TableOf[t] # p
    BY DEF TableOf, Textures
  <2>2. "prim" \notin Textures
    BY DEF Textures
  <2>3. QED
    BY <1>6, <2>1, <2>2, ReadsTold
<1>8. TargetsCurrent'
  BY <1>2, <1>5, <1>6, <1>7 DEF TargetsCurrent, Current, Known
<1>9. PsoCurrent'
  <2>1. \A i \in Reads("pso") : Shows(s, "pso", i, PsoFor(s)) \/ <<"pso", i>> \in untold'
    BY PsoForShows, KeptStays DEF Kept
  <2>2. "prim" \in DOMAIN PsoFor(s) /\ PsoFor(s)["prim"] = s["prim"]
    BY PsoForShows
  <2>3. QED
    BY <1>5, <1>6, <2>1, <2>2 DEF PsoCurrent, Current, Known
<1>10. FilledCurrent'
  <2>1. ASSUME NEW c \in CBuffers, NEW i \in Reads(c)
        PROVE  Shows(s, c, i, filled'[c]) \/ <<c, i>> \in untold'
    BY <1>1, FilledShows, KeptStays DEF Kept
  <2>2. QED
    BY <1>5, <1>6, <2>1 DEF FilledCurrent, Current, Known
<1>11. RootCurrent'
  <2>1. SUFFICES ASSUME root' = "main"
                 PROVE  /\ \A c \in CBuffers : bound'[c] = filled'[c]
                        /\ \A t \in Textures : TableCurrent(t)'
                        /\ Current("sampler", bound["sampler"])'
    BY DEF RootCurrent
  <2>2. RootReset \/ root = "main"
    BY <1>1, <2>1
  <2>3. ASSUME NEW c \in CBuffers PROVE bound'[c] = filled'[c]
    <3>1. c # "pso" /\ c \in RootArguments
      BY DEF CBuffers, RootArguments
    <3>2. CASE c \in Rebound(s, Made(s))
      BY <1>1, <1>6, <3>1, <3>2, BoundAfter
    <3>3. CASE c \notin Rebound(s, Made(s))
      <4>1. ~RootReset /\ c \notin Made(s)
        BY <1>6, <2>2, <3>1, <3>3, ReboundWhen
      <4>2. bound'[c] = bound[c]
        BY <1>6, <3>3, <4>1, BoundAfter
      <4>3. filled'[c] = filled[c]
        BY <1>1, <4>1, FilledShows
      <4>4. QED
        BY <2>2, <4>1, <4>2, <4>3 DEF IInv, RootCurrent, RootReset
    <3>4. QED
      BY <3>2, <3>3
  <2>4. ASSUME NEW t \in Textures PROVE TableCurrent(t)'
    <3>1. /\ TableOf[t] \in Tables /\ TableOf[t] # "pso" /\ t # "prim"
          /\ st'[t] = s[t] /\ st'[t] = st[t]
      BY InputsAreTheGames DEF Tables, TableOf, Textures, DrawnWith
    <3>2. st[t] = 0 \/ st[t] > 0
      BY DEF IInv, TypeOK, Values, Textures
    <3>3. t \in Reads(TableOf[t])
      <4>1. t \in ReadBy[TableOf[t]] /\ t \in Inputs
        BY DEF ReadBy, TableOf, Textures
      <4>2. QED
        BY <1>6, <3>1, <4>1, PartsRead
    <3>4. CASE st[t] > 0
      <4>1. \/ Shows(s, TableOf[t], t, bound'[TableOf[t]])
            \/ <<TableOf[t], t>> \in untold'
        BY <1>2, <1>6, <3>1, <3>3, <3>4
      <4>2. Seen(st', TableOf[t], t) = Seen(s, TableOf[t], t)
        BY <1>4, <1>6, <3>1, <3>3
      <4>3. QED
        BY <4>1, <4>2 DEF Shows, TableCurrent, Known
    <3>5. QED
      BY <3>1, <3>2, <3>4 DEF TableCurrent
  <2>5. Current("sampler", bound["sampler"])'
    BY <1>2, <1>5, <1>6, <1>7 DEF Current, Known
  <2>6. QED
    BY <2>3, <2>4, <2>5
<1>12. BlitIsUntold'
  <2>1. RootArguments' = RootArguments
    BY DEF RootArguments
  <2>2. SUFFICES ASSUME root' = "blit", cache
                 PROVE  (RootArguments \cup {"pso"}) \X (Inputs \cup {"prim"}) \subseteq untold'
    BY <1>1, <2>1 DEF BlitIsUntold
  <2>3. ~RootReset /\ root = "blit" /\ last.root
    BY <1>1, <2>2 DEF RootReset
  <2>4. SUFFICES ASSUME NEW p \in RootArguments \cup {"pso"}, NEW i \in Inputs \cup {"prim"}
                 PROVE  <<p, i>> \in untold'
    OBVIOUS
  <2>5. <<p, i>> \in untold
    BY <2>2, <2>3 DEF IInv, BlitIsUntold
  <2>6. QED
    BY <2>3, <2>5, KeptStays DEF Kept
<1>13. CachesAreRight'
  <2>1. root' \in {"main", "blit"}
    BY <1>1 DEF IInv, CachesAreRight, RootReset
  <2>2. cache' => \/ last'.set_pso \in {bound'["pso"], Nothing}
                  \/ root' = "blit" /\ last'.root
    <3>1. CASE "pso" \in Rebound(s, Made(s))
      BY <1>6, <3>1, BoundAfter
    <3>2. CASE "pso" \notin Rebound(s, Made(s)) /\ cache
      <4>1. "pso" \notin RootArguments
        BY DEF RootArguments, CBuffers, Tables, TableOf, Textures
      <4>2. PsoFor(s) = last.set_pso /\ bound'["pso"] = bound["pso"]
        BY <1>6, <3>2, <4>1, ReboundWhen, BoundAfter
      <4>3. \/ last.set_pso \in {bound["pso"], Nothing}
            \/ root = "blit" /\ last.root
        BY <3>2 DEF IInv, CachesAreRight
      <4>4. root = "blit" /\ last.root => root' = "blit"
        BY <1>1, <3>2 DEF RootReset
      <4>5. QED
        BY <4>2, <4>3, <4>4
    <3>3. QED
      BY <1>1, <3>1, <3>2
  <2>3. bound'["stencil"] = last'.stencil
    <3>1. CASE "stencil" \in Rebound(s, Made(s))
      BY <1>6, <3>1, BoundAfter DEF CBuffers
    <3>2. CASE "stencil" \notin Rebound(s, Made(s))
      <4>1. "stencil" \notin RootArguments
        BY DEF RootArguments, CBuffers, Tables, TableOf, Textures
      <4>2. "stencil" \notin Made(s) /\ bound'["stencil"] = bound["stencil"]
        BY <1>6, <3>2, <4>1, ReboundWhen, BoundAfter
      <4>3. View(s, "stencil") = last.stencil
        BY <4>2, MadeWhen DEF IInv
      <4>4. QED
        BY <4>2, <4>3 DEF IInv, CachesAreRight
    <3>3. QED
      BY <3>1, <3>2
  <2>4. \/ "prim" \in DOMAIN bound'["topology"] /\ bound'["topology"]["prim"] = last'.prim
        \/ <<"topology", "prim">> \in untold'
    <3>1. "prim" \in Reads("topology") /\ Seen(s, "topology", "prim") = s["prim"]
          /\ "prim" \notin Textures
      BY PartsRead DEF Seen, Textures
    <3>2. QED
      BY <1>2, <1>6, <3>1 DEF Shows
  <2>5. QED
    BY <2>1, <2>2, <2>3, <2>4 DEF CachesAreRight
<1>14. QED
  BY <1>3, <1>8, <1>9, <1>10, <1>11, <1>12, <1>13 DEF BindingsCurrent

-----------------------------------------------------------------------------
\* Types, part by part.
StateTypes == /\ DOMAIN st = Inputs \cup {"scene"}
              /\ \A i \in Inputs : st[i] \in Values(i)
              /\ st["scene"] \in BOOLEAN
FlagTypes == /\ flags \subseteq DirtyFlags
             /\ texture_mask \subseteq Textures
             /\ sampler_mask \in BOOLEAN
             /\ cache \in BOOLEAN
             /\ calls \in 0 .. MaxCalls
ListTypes ==
  /\ DOMAIN bound = Parts
  /\ \A p \in Parts : DOMAIN bound[p] \subseteq Reads(p)
  /\ DOMAIN filled = CBuffers
  /\ \A c \in CBuffers : DOMAIN filled[c] \subseteq Reads(c)
  /\ DOMAIN last = {"prim", "stencil", "streams", "set_pso", "root", "pso", "pso_prim"}
  /\ last.root \in BOOLEAN
  /\ DOMAIN last.pso \subseteq Reads("pso")
BlockTypes == /\ DOMAIN block \subseteq Recordable
              /\ recording \in BOOLEAN
              /\ \A i \in DOMAIN block : block[i] \in Values(i)
              /\ \A i \in DOMAIN promised : promised[i] \in Values(i)
              /\ BlockHolds

LEMMA TypesTogether ==
  (TypeOK /\ Shapes /\ BlockHolds) <=> (StateTypes /\ FlagTypes /\ ListTypes /\ BlockTypes)
BY DEF TypeOK, Shapes, StateTypes, FlagTypes, ListTypes, BlockTypes

\* The invariant after a step, from the parts the lemmas below give.
LEMMA InvariantTogether ==
  (wrong' \subseteq untold' /\ BindingsCurrent' /\ StateTypes' /\ FlagTypes' /\ ListTypes'
   /\ BlockTypes') => IInv'
BY DEF IInv, DrawsSeeTheirState, BindingsCurrent, TypeOK, Shapes, StateTypes, FlagTypes,
       ListTypes, BlockTypes

LEMMA CallTypes == ASSUME FlagTypes, Call PROVE calls' \in 0 .. MaxCalls
BY MaxCallsAssumption DEF FlagTypes, Call

LEMMA RaisesTypes == ASSUME NEW i PROVE Raises(i) \subseteq DirtyFlags
BY DEF Raises

LEMMA ListTypesKept == ASSUME ListTypes, UNCHANGED listVars PROVE ListTypes'
BY DEF ListTypes, listVars

LEMMA BlockKept ==
  ASSUME BlockTypes, UNCHANGED blockVars,
         recording => \A i \in Recordable : st'[i] = st[i]
  PROVE  BlockTypes'
BY DEF BlockTypes, BlockHolds, blockVars

\* What a block is asked to hold while it is recorded.
LEMMA AskKeeps ==
  ASSUME BlockTypes, StateTypes, NEW i \in Inputs, NEW v \in Values(i), Ask(i, v),
         st' = [st EXCEPT ![i] = v], UNCHANGED <<block, overlooked, start, recording>>
  PROVE  BlockTypes' /\ StateTypes'
<1>1. StateTypes'
  BY InputsAreTheGames DEF StateTypes
<1>2. /\ st'[i] = v
      /\ \A j \in Recordable : j # i => st'[j] = st[j]
  BY DEF StateTypes, Recordable
<1>3. CASE recording /\ i \in Recordable
  <2>1. promised' = [j \in DOMAIN promised \cup {i} |-> IF j = i THEN v ELSE promised[j]]
    BY <1>3 DEF Ask
  <2>2. /\ DOMAIN promised' = DOMAIN promised \cup {i} /\ promised'[i] = v
        /\ \A j \in DOMAIN promised : j # i => promised'[j] = promised[j]
    BY <2>1
  <2>3. BlockHolds'
    <3>1. ASSUME NEW j \in Recordable
          PROVE  /\ j \in DOMAIN start
                 /\ IF j \in DOMAIN promised' THEN promised'[j] = st'[j]
                    ELSE start[j] = st'[j]
      <4>1. /\ j \in DOMAIN start
            /\ IF j \in DOMAIN promised THEN promised[j] = st[j] ELSE start[j] = st[j]
        BY <1>3 DEF BlockTypes, BlockHolds
      <4>2. QED
        BY <1>2, <2>2, <4>1
    <3>2. DOMAIN promised' \subseteq Recordable
      BY <1>3, <2>2 DEF BlockTypes, BlockHolds
    <3>3. recording'
      BY <1>3
    <3>4. QED
      BY <3>1, <3>2, <3>3 DEF BlockHolds
  <2>4. \A j \in DOMAIN promised' : promised'[j] \in Values(j)
    BY <2>2 DEF BlockTypes
  <2>5. QED
    BY <1>1, <2>3, <2>4 DEF BlockTypes
<1>4. CASE ~(recording /\ i \in Recordable)
  <2>1. promised' = promised
    BY <1>4 DEF Ask
  <2>2. recording => \A j \in Recordable : st'[j] = st[j]
    BY <1>2, <1>4
  <2>3. QED
    BY <1>1, <2>1, <2>2, BlockKept DEF blockVars
<1>5. QED
  BY <1>1, <1>3, <1>4

LEMMA SetTypes ==
  ASSUME IInv, NEW i \in Inputs, NEW v \in Values(i),
         Store(i, v) \/ SetTexture(i, v) \/ ChangeSetting(i, v)
  PROVE  StateTypes' /\ FlagTypes' /\ ListTypes' /\ BlockTypes'
<1>1. StateTypes /\ FlagTypes /\ ListTypes /\ BlockTypes
  BY TypesTogether DEF IInv
<1>2. st' = [st EXCEPT ![i] = v] /\ UNCHANGED listVars /\ cache' = cache /\ Call
  BY DEF Store, SetTexture, ChangeSetting
<1>3. FlagTypes'
  <2>1. calls' \in 0 .. MaxCalls
    BY <1>1, <1>2, CallTypes
  <2>2. CASE Store(i, v)
    BY <1>1, <2>1, <2>2, RaisesTypes DEF Store, FlagTypes
  <2>3. CASE SetTexture(i, v)
    <3>1. {"PS_TEXTURES", "PSO"} \subseteq DirtyFlags
      BY DEF DirtyFlags
    <3>2. QED
      BY <1>1, <2>1, <2>3, <3>1 DEF SetTexture, FlagTypes
  <2>4. CASE ChangeSetting(i, v)
    BY <1>1, <2>1, <2>4 DEF ChangeSetting, FlagTypes, maskVars
  <2>5. QED
    BY <2>2, <2>3, <2>4
<1>4. ListTypes'
  BY <1>1, <1>2, ListTypesKept
<1>5. StateTypes' /\ BlockTypes'
  <2>1. CASE Store(i, v) \/ SetTexture(i, v)
    <3>1. Ask(i, v) /\ UNCHANGED <<block, overlooked, start, recording>>
      BY <2>1 DEF Store, SetTexture
    <3>2. QED
      BY <1>1, <1>2, <3>1, AskKeeps
  <2>2. CASE ChangeSetting(i, v)
    <3>1. StateTypes'
      BY <1>1, <1>2, InputsAreTheGames DEF StateTypes
    <3>2. \A j \in Recordable : st'[j] = st[j]
      BY <1>1, <1>2, <2>2 DEF StateTypes, Recordable, ChangeSetting
    <3>3. QED
      BY <1>1, <2>2, <3>1, <3>2, BlockKept DEF ChangeSetting
  <2>3. QED
    BY <2>1, <2>2
<1>6. QED
  BY <1>3, <1>4, <1>5

LEMMA TargetTypes ==
  ASSUME IInv,
         \/ \E v \in Values("viewport") : SetViewport(v)
         \/ \E v \in Values("target") : SetRenderTarget(v) \/ SetRenderTargetFails(v)
  PROVE  StateTypes' /\ FlagTypes' /\ ListTypes' /\ BlockTypes'
<1>1. StateTypes /\ FlagTypes /\ ListTypes /\ BlockTypes
  BY TypesTogether DEF IInv
<1>2. /\ UNCHANGED listVars /\ UNCHANGED <<maskVars, cache, blockVars>> /\ Call
      /\ flags' \in {flags, flags \cup {"OM", "PSO"}}
  BY DEF SetViewport, SetRenderTarget, SetRenderTargetFails
<1>3. PICK target \in Values("target"), viewport \in Values("viewport") :
        \/ st' = [st EXCEPT !["viewport"] = viewport]
        \/ st' = [st EXCEPT !["target"] = target, !["viewport"] = viewport]
  <2>1. 0 \in Values("viewport") /\ 0 \in Values("target")
    BY DEF Values
  <2>2. QED
    BY <2>1 DEF SetViewport, SetRenderTarget, SetRenderTargetFails
<1>4. StateTypes'
  BY <1>1, <1>3, InputsAreTheGames DEF StateTypes
<1>5. \A j \in Recordable : st'[j] = st[j]
  BY <1>1, <1>3 DEF StateTypes, Recordable
<1>6. FlagTypes'
  <2>1. {"OM", "PSO"} \subseteq DirtyFlags
    BY DEF DirtyFlags
  <2>2. QED
    BY <1>1, <1>2, <2>1, CallTypes DEF FlagTypes, maskVars
<1>7. QED
  BY <1>1, <1>2, <1>4, <1>5, <1>6, ListTypesKept, BlockKept

LEMMA ViewDomain == ASSUME NEW s, NEW p PROVE DOMAIN View(s, p) = Reads(p)
BY DEF View

LEMMA NothingHasNoDomain == DOMAIN Nothing = {}
BY DEF Nothing

LEMMA SceneTypes ==
  ASSUME IInv, BeginScene
  PROVE  StateTypes' /\ FlagTypes' /\ ListTypes' /\ BlockTypes'
<1>1. StateTypes /\ FlagTypes /\ ListTypes /\ BlockTypes
  BY TypesTogether DEF IInv
<1>2. StateTypes'
  BY <1>1 DEF BeginScene, StateTypes
<1>3. FlagTypes'
  <2>1. Toggle("OM", flags) \subseteq DirtyFlags
    BY <1>1 DEF Toggle, FlagTypes, DirtyFlags
  <2>2. QED
    BY <1>1, <2>1, CallTypes DEF BeginScene, FlagTypes, maskVars
<1>4. ListTypes'
  <2>1. bound' = [p \in Parts |-> IF p \in {"viewport", "render_target"}
                                  THEN View(st, p) ELSE bound[p]]
        /\ UNCHANGED <<filled, root, last>>
    BY DEF BeginScene
  <2>2. \A p \in Parts : DOMAIN bound'[p] \subseteq Reads(p)
    BY <1>1, <2>1, ViewDomain DEF ListTypes
  <2>3. QED
    BY <1>1, <2>1, <2>2 DEF ListTypes
<1>5. BlockTypes'
  BY <1>1, BlockKept DEF BeginScene
<1>6. QED
  BY <1>2, <1>3, <1>4, <1>5

\* A draw makes nothing out of what a part does not read.
LEMMA DrawTypes ==
  ASSUME IInv, NEW s, PrepareDrawCall(s, AfterDraw(s)),
         DOMAIN bound' = Parts,
         \A p \in Parts : bound'[p] \in {AfterDraw(s).bound[p], Nothing},
         DOMAIN last' = {"prim", "stencil", "streams", "set_pso", "root", "pso", "pso_prim"},
         last'.root = TRUE, last'.pso = PsoFor(s),
         \A i \in Recordable : st'[i] = st[i]
  PROVE  FlagTypes' /\ ListTypes' /\ BlockTypes'
<1>1. StateTypes /\ FlagTypes /\ ListTypes /\ BlockTypes
  BY TypesTogether DEF IInv
<1>2. /\ filled' = AfterDraw(s).filled /\ flags' = {} /\ UNCHANGED <<cache, blockVars, calls>>
      /\ texture_mask' = IF RootReset \/ "PS_TEXTURES" \in flags THEN {} ELSE texture_mask
      /\ sampler_mask' \in BOOLEAN
  BY DEF PrepareDrawCall
<1>3. FlagTypes'
  BY <1>1, <1>2 DEF FlagTypes
<1>4. DOMAIN filled' = CBuffers
  BY <1>2 DEF AfterDraw
<1>5. ASSUME NEW c \in CBuffers PROVE DOMAIN filled'[c] \subseteq Reads(c)
  <2>1. filled'[c] = IF c \in Made(s) THEN View(s, c) ELSE filled[c]
    BY <1>2 DEF AfterDraw
  <2>2. QED
    BY <1>1, <2>1, ViewDomain DEF ListTypes
<1>6. DOMAIN PsoFor(s) \subseteq Reads("pso")
  BY <1>1, ViewDomain DEF PsoFor, ListTypes
<1>7. ASSUME NEW p \in Parts PROVE DOMAIN bound'[p] \subseteq Reads(p)
  <2>1. CASE p \in Rebound(s, Made(s))
    <3>1. \/ p = "pso" /\ AfterDraw(s).bound[p] = PsoFor(s)
          \/ p \in CBuffers /\ AfterDraw(s).bound[p] = filled'[p]
          \/ AfterDraw(s).bound[p] = View(s, p)
      BY <1>2, <2>1, BoundAfter
    <3>2. QED
      BY <1>5, <1>6, <3>1, ViewDomain, NothingHasNoDomain
  <2>2. CASE p \notin Rebound(s, Made(s))
    BY <1>1, <2>2, BoundAfter, NothingHasNoDomain DEF ListTypes
  <2>3. QED
    BY <2>1, <2>2
<1>8. ListTypes'
  BY <1>4, <1>5, <1>6, <1>7 DEF ListTypes
<1>9. BlockTypes'
  BY <1>1, <1>2, BlockKept
<1>10. QED
  BY <1>3, <1>8, <1>9

LEMMA DrawingIsDrawnWith ==
  ASSUME IInv, NEW taken, taken \in {st, [st EXCEPT !["stream"] = 0]}, NEW prim \in Prims
  PROVE  DrawnWith(Drawing(taken, prim)) /\ Drawing(taken, prim)["prim"] = prim
<1>1. DOMAIN taken = Inputs \cup {"scene"}
      /\ \A i \in (Inputs \cup {"scene"}) \ {"stream"} : taken[i] = st[i]
  BY DEF IInv, Shapes
<1>2. \A i \in Inputs \cup {"scene"} : i # "prim"
  BY InputsAreTheGames
<1>3. Drawing(taken, prim) = [i \in (Inputs \cup {"scene"}) \cup {"prim"} |->
                                IF i = "prim" THEN prim ELSE taken[i]]
  BY <1>1 DEF Drawing
<1>4. QED
  BY <1>1, <1>2, <1>3 DEF DrawnWith

LEMMA AfterDrawBinds ==
  ASSUME NEW s
  PROVE  DOMAIN AfterDraw(s).bound = Parts
  BY DEF AfterDraw

LEMMA DrawKeeps ==
  ASSUME IInv, NEW prim \in Prims, Draw(prim)
  PROVE  IInv'
<1> DEFINE s == Drawing(st, prim)
<1>1. /\ PrepareDrawCall(s, AfterDraw(s)) /\ bound' = AfterDraw(s).bound
      /\ last' = LastBound(s) /\ st' = st
  BY DEF Draw
<1>2. DrawnWith(s)
  BY DrawingIsDrawnWith
<1> HIDE DEF s
<1>3. /\ DOMAIN last' = {"prim", "stencil", "streams", "set_pso", "root", "pso", "pso_prim"}
      /\ last'.root = TRUE /\ last'.prim = s["prim"] /\ last'.pso_prim = s["prim"]
      /\ last'.pso = PsoFor(s) /\ last'.set_pso = PsoFor(s)
      /\ last'.stencil = View(s, "stencil") /\ last'.streams = View(s, "streams")
  BY <1>1 DEF LastBound
<1>4. bound'["streams"] = View(s, "streams")
  <2>1. "streams" \in Parts /\ "streams" \notin CBuffers \cup RootArguments \cup {"pso"}
    BY DEF Parts, CBuffers, RootArguments, Tables, TableOf, Textures
  <2>2. CASE "streams" \in Rebound(s, Made(s))
    BY <1>1, <2>1, <2>2, BoundAfter
  <2>3. CASE "streams" \notin Rebound(s, Made(s))
    <3>1. bound'["streams"] = bound["streams"] /\ "streams" \notin Made(s)
      BY <1>1, <2>1, <2>3, BoundAfter, ReboundWhen
    <3>2. View(s, "streams") = last.streams
      BY <3>1, MadeWhen DEF IInv
    <3>3. QED
      BY <3>1, <3>2 DEF IInv, CachesAreRight
  <2>4. QED
    BY <2>2, <2>3
<1>5. wrong' \subseteq untold' /\ BindingsCurrent'
  BY <1>1, <1>2, <1>3, <1>4, DrawKeepsBindings
<1>6. FlagTypes' /\ ListTypes' /\ BlockTypes'
  BY <1>1, <1>3, AfterDrawBinds, DrawTypes
<1>7. StateTypes'
  BY <1>1, TypesTogether DEF IInv, StateTypes
<1>8. QED
  BY <1>5, <1>6, <1>7, InvariantTogether

LEMMA DrawUPKeeps ==
  ASSUME IInv, NEW prim \in Prims, DrawUP(prim)
  PROVE  IInv'
<1> DEFINE taken == [st EXCEPT !["stream"] = 0]
           s == Drawing(taken, prim)
<1>1. /\ PrepareDrawCall(s, AfterDraw(s))
      /\ bound' = [AfterDraw(s).bound EXCEPT !["streams"] = Nothing]
      /\ last' = [LastBound(s) EXCEPT !.streams = Nothing]
      /\ st' = taken
  BY DEF DrawUP
<1>2. DrawnWith(s)
  BY DrawingIsDrawnWith
<1>3. StateTypes'
  BY <1>1, TypesTogether, InputsAreTheGames DEF IInv, StateTypes, Values, Textures
<1>4. /\ \A i \in (Inputs \cup {"scene"}) \ {"stream"} : st'[i] = st[i]
      /\ \A i \in Recordable : st'[i] = st[i]
  BY <1>1 DEF IInv, Shapes, Recordable
<1> HIDE DEF s
<1>5. /\ DOMAIN last' = {"prim", "stencil", "streams", "set_pso", "root", "pso", "pso_prim"}
      /\ last'.root = TRUE /\ last'.prim = s["prim"] /\ last'.pso_prim = s["prim"]
      /\ last'.pso = PsoFor(s) /\ last'.set_pso = PsoFor(s)
      /\ last'.stencil = View(s, "stencil") /\ last'.streams = Nothing
  BY <1>1 DEF LastBound
<1>6. /\ DOMAIN bound' = Parts /\ bound'["streams"] = Nothing
      /\ \A p \in Parts \ {"streams"} : bound'[p] = AfterDraw(s).bound[p]
  BY <1>1, AfterDrawBinds DEF Parts
<1>7. wrong' \subseteq untold' /\ BindingsCurrent'
  BY <1>1, <1>2, <1>4, <1>5, <1>6, DrawKeepsBindings
<1>8. \A p \in Parts : bound'[p] \in {AfterDraw(s).bound[p], Nothing}
  BY <1>6
<1>9. FlagTypes' /\ ListTypes' /\ BlockTypes'
  BY <1>1, <1>4, <1>5, <1>6, <1>8, DrawTypes
<1>10. QED
  BY <1>3, <1>7, <1>9, InvariantTogether

-----------------------------------------------------------------------------
\* What else touches the list, and what it leaves of the state.
LEMMA SceneChangeTypes ==
  ASSUME StateTypes, NEW scene \in BOOLEAN, st' = [st EXCEPT !["scene"] = scene]
  PROVE  StateTypes' /\ \A i \in Inputs : st'[i] = st[i]
BY InputsAreTheGames DEF StateTypes

LEMMA RecordableInputs == Recordable \subseteq Inputs
BY DEF Recordable

LEMMA ListResetTypes ==
  ASSUME IInv, Call, ListReset, filled' = filled, UNCHANGED blockVars, cache' \in BOOLEAN,
         NEW scene \in BOOLEAN, st' = [st EXCEPT !["scene"] = scene]
  PROVE  StateTypes' /\ FlagTypes' /\ ListTypes' /\ BlockTypes'
<1>1. StateTypes /\ FlagTypes /\ ListTypes /\ BlockTypes
  BY TypesTogether DEF IInv
<1>2. StateTypes' /\ \A i \in Inputs : st'[i] = st[i]
  BY <1>1, SceneChangeTypes
<1>3. FlagTypes'
  BY <1>1, CallTypes DEF ListReset, FlagTypes
<1>4. ListTypes'
  <2>1. last' = Forgotten(last.pso, last.pso_prim) /\ bound' = Unbound
    BY DEF ListReset
  <2>2. /\ DOMAIN last' = {"prim", "stencil", "streams", "set_pso", "root", "pso", "pso_prim"}
        /\ last'.root = FALSE /\ last'.pso = last.pso
    BY <2>1 DEF Forgotten
  <2>3. DOMAIN bound' = Parts /\ \A p \in Parts : DOMAIN bound'[p] \subseteq Reads(p)
    BY <2>1, NothingHasNoDomain DEF Unbound
  <2>4. QED
    BY <1>1, <2>2, <2>3 DEF ListTypes
<1>5. BlockTypes'
  BY <1>1, <1>2, RecordableInputs, BlockKept
<1>6. QED
  BY <1>2, <1>3, <1>4, <1>5

LEMMA ListResetsKeep ==
  ASSUME IInv, \/ \E exchange \in BOOLEAN : MidFrameFlush(exchange)
               \/ \E cached, scene \in BOOLEAN : EndFrame(cached, scene)
  PROVE  IInv'
<1>1. /\ Call /\ ListReset /\ filled' = filled /\ UNCHANGED blockVars
      /\ cache' \in BOOLEAN
  BY DEF MidFrameFlush, EndFrame, IInv, TypeOK
<1>2. PICK scene \in BOOLEAN : st' = [st EXCEPT !["scene"] = scene]
  <2>1. CASE \E exchange \in BOOLEAN : MidFrameFlush(exchange)
    <3>1. PICK exchange \in BOOLEAN : MidFrameFlush(exchange)
      BY <2>1
    <3>2. (st["scene"] /\ ~exchange) \in BOOLEAN
      OBVIOUS
    <3>3. st' = [st EXCEPT !["scene"] = st["scene"] /\ ~exchange]
      BY <3>1 DEF MidFrameFlush
    <3>4. QED
      BY <3>2, <3>3
  <2>2. CASE \E cached, scene \in BOOLEAN : EndFrame(cached, scene)
    BY <2>2 DEF EndFrame
  <2>3. QED
    BY <2>1, <2>2
<1>3. StateTypes' /\ FlagTypes' /\ ListTypes' /\ BlockTypes'
  BY <1>1, <1>2, ListResetTypes
<1>4. BindingsCurrent'
  BY <1>1, ListResetKeepsBindings
<1>5. QED
  BY <1>1, <1>3, <1>4, InvariantTogether DEF Call

\* The frame's own draws.
LEMMA OverdrawnTypes ==
  ASSUME ListTypes
  PROVE  DOMAIN Overdrawn = Parts /\ \A p \in Parts : DOMAIN Overdrawn[p] \subseteq Reads(p)
<1>1. DOMAIN Overdrawn = Parts
  BY DEF Overdrawn
<1>2. ASSUME NEW p \in Parts PROVE DOMAIN Overdrawn[p] \subseteq Reads(p)
  <2>1. CASE p = "topology"
    <3>1. Overdrawn[p] = [i \in {"prim"} |-> "list"]
      BY <2>1 DEF Overdrawn
    <3>2. QED
      BY <2>1, <3>1, PartsRead
  <2>2. CASE p \in {"stencil", "streams"}
    BY <2>2 DEF Overdrawn, ListTypes
  <2>3. CASE p \notin {"topology", "stencil", "streams"}
    BY <2>3, NothingHasNoDomain DEF Overdrawn
  <2>4. QED
    BY <2>1, <2>2, <2>3
<1>3. QED
  BY <1>1, <1>2

LEMMA PassesKeep ==
  ASSUME IInv, ResolveByCopy \/ ResolveByBlit \/ MotionPass
  PROVE  IInv'
<1>1. StateTypes /\ FlagTypes /\ ListTypes /\ BlockTypes
  BY TypesTogether DEF IInv
<1>2. Call /\ flags' = flags \cup {"OM", "PSO"} /\ filled' = filled /\ UNCHANGED <<cache, blockVars>>
  BY DEF ResolveByCopy, ResolveByBlit, MotionPass, listVars
<1>3. BindingsCurrent'
  BY ResolveByCopyKeepsBindings, BlitKeepsBindings, MotionKeepsBindings
<1>4. StateTypes' /\ \A i \in Inputs : st'[i] = st[i]
  <2>1. CASE MotionPass
    BY <1>1, <2>1 DEF MotionPass, StateTypes
  <2>2. CASE ResolveByCopy \/ ResolveByBlit
    <3>1. st' = [st EXCEPT !["scene"] = FALSE]
      BY <2>2 DEF ResolveByCopy, ResolveByBlit
    <3>2. QED
      BY <1>1, <3>1, SceneChangeTypes
  <2>3. QED
    BY <2>1, <2>2
<1>5. FlagTypes'
  <2>1. {"OM", "PSO"} \subseteq DirtyFlags
    BY DEF DirtyFlags
  <2>2. \/ texture_mask' = texture_mask /\ sampler_mask' = sampler_mask
        \/ texture_mask' = Textures /\ sampler_mask' = TRUE
    BY DEF ResolveByCopy, ResolveByBlit, MotionPass, maskVars
  <2>3. QED
    BY <1>1, <1>2, <2>1, <2>2, CallTypes DEF FlagTypes
<1>6. ListTypes'
  <2>1. CASE ResolveByCopy
    BY <1>1, <2>1, ListTypesKept DEF ResolveByCopy
  <2>2. CASE ResolveByBlit
    BY <1>1, <2>2, OverdrawnTypes DEF ResolveByBlit, ListTypes
  <2>3. CASE MotionPass
    <3>1. bound' = Overdrawn /\ filled' = filled
          /\ last' = [last EXCEPT !.root = FALSE, !.set_pso = Nothing, !.prim = "none"]
      BY <2>3 DEF MotionPass
    <3>2. /\ DOMAIN last' = DOMAIN last /\ last'.root = FALSE /\ last'.pso = last.pso
      BY <1>1, <3>1 DEF ListTypes
    <3>3. QED
      BY <1>1, <3>1, <3>2, OverdrawnTypes DEF ListTypes
  <2>4. QED
    BY <2>1, <2>2, <2>3
<1>7. BlockTypes'
  BY <1>1, <1>2, <1>4, RecordableInputs, BlockKept
<1>8. QED
  BY <1>2, <1>3, <1>4, <1>5, <1>6, <1>7, InvariantTogether DEF Call

-----------------------------------------------------------------------------
\* State blocks.
LEMMA BlockMadeKeeps ==
  ASSUME IInv, CreateStateBlock \/ BeginStateBlock \/ EndStateBlock \/ CaptureStateBlock
  PROVE  BlockTypes'
<1>1. StateTypes /\ BlockTypes /\ st' = st
  BY TypesTogether DEF IInv, CreateStateBlock, BeginStateBlock, EndStateBlock, CaptureStateBlock
<1>2. \A i \in Recordable : st[i] \in Values(i)
  BY <1>1, RecordableInputs DEF StateTypes
<1>3. CASE CreateStateBlock
  <2>1. /\ block' = Held(st) /\ promised' = [i \in Recordable |-> st[i]]
        /\ overlooked' = Recordable \ DOMAIN Held(st) /\ recording' = FALSE
    BY <1>1, <1>3 DEF CreateStateBlock, BlockTypes
  <2>2. DOMAIN Held(st) \subseteq Recordable /\ \A i \in DOMAIN Held(st) : Held(st)[i] = st[i]
    BY DEF Held
  <2>3. DOMAIN promised' = Recordable /\ \A i \in Recordable : promised'[i] = st[i]
    BY <2>1
  <2>4. BlockHolds'
    BY <2>1, <2>2, <2>3 DEF BlockHolds
  <2>5. QED
    BY <1>2, <2>1, <2>2, <2>3, <2>4 DEF BlockTypes
<1>4. CASE BeginStateBlock
  <2>1. /\ block' = Nothing /\ promised' = Nothing /\ start' = [i \in Recordable |-> st[i]]
        /\ recording' = TRUE
    BY <1>4 DEF BeginStateBlock
  <2>2. BlockHolds'
    BY <1>1, <2>1, NothingHasNoDomain DEF BlockHolds
  <2>3. QED
    BY <2>1, <2>2, NothingHasNoDomain DEF BlockTypes
<1>5. CASE EndStateBlock
  <2>1. /\ block' = Changed(start, st) /\ promised' = promised /\ recording' = FALSE /\ recording
        /\ overlooked' = {i \in Recordable : start[i] = st[i]}
    BY <1>5 DEF EndStateBlock
  <2>2. /\ DOMAIN Changed(start, st) = {i \in Recordable : start[i] # st[i]}
        /\ \A i \in DOMAIN Changed(start, st) : Changed(start, st)[i] = st[i]
    BY DEF Changed
  <2>3. /\ DOMAIN promised \subseteq Recordable
        /\ \A i \in Recordable : IF i \in DOMAIN promised THEN promised[i] = st[i]
                                 ELSE start[i] = st[i]
    BY <1>1, <2>1 DEF BlockTypes, BlockHolds
  <2>4. BlockHolds'
    <3>1. DOMAIN block' = DOMAIN promised' \ overlooked'
      BY <2>1, <2>2, <2>3
    <3>2. \A i \in DOMAIN block' : block'[i] = promised'[i]
      BY <2>1, <2>2, <2>3, <3>1
    <3>3. QED
      BY <2>1, <2>3, <3>1, <3>2 DEF BlockHolds
  <2>5. QED
    BY <1>1, <1>2, <2>1, <2>2, <2>4 DEF BlockTypes
<1>6. CASE CaptureStateBlock
  <2>1. /\ block' = [i \in DOMAIN block |-> st[i]]
        /\ promised' = [i \in DOMAIN promised |-> st[i]]
        /\ ~recording /\ recording' = recording /\ overlooked' = overlooked
    BY <1>6 DEF CaptureStateBlock
  <2>2. DOMAIN block \subseteq Recordable /\ DOMAIN promised \subseteq Recordable
        /\ DOMAIN block = DOMAIN promised \ overlooked
    BY <1>1, <2>1 DEF BlockTypes, BlockHolds
  <2>3. BlockHolds'
    BY <2>1, <2>2 DEF BlockHolds
  <2>4. QED
    BY <1>1, <1>2, <2>1, <2>2, <2>3 DEF BlockTypes
<1>7. QED
  BY <1>3, <1>4, <1>5, <1>6

LEMMA BlocksKeep ==
  ASSUME IInv, Blocks
  PROVE  IInv'
<1>1. StateTypes /\ FlagTypes /\ ListTypes /\ BlockTypes
  BY TypesTogether DEF IInv
<1>2. Call /\ UNCHANGED <<cache, listVars, untold>>
  BY DEF Blocks, CreateStateBlock, BeginStateBlock, EndStateBlock, CaptureStateBlock,
         ApplyStateBlock
<1>3. ListTypes'
  BY <1>1, <1>2, ListTypesKept
<1>4. CASE ApplyStateBlock
  <2>1. /\ st' = [i \in DOMAIN st |-> IF i \in DOMAIN block THEN block[i] ELSE st[i]]
        /\ flags' = DirtyFlags /\ texture_mask' = Textures /\ sampler_mask' = TRUE
        /\ ~recording /\ UNCHANGED blockVars
    BY <1>4 DEF ApplyStateBlock
  <2>2. StateTypes'
    <3>1. "scene" \notin DOMAIN block
      BY <1>1, RecordableInputs, InputsAreTheGames DEF BlockTypes
    <3>2. QED
      BY <1>1, <2>1, <3>1 DEF StateTypes, BlockTypes
  <2>3. FlagTypes'
    BY <1>1, <1>2, <2>1, CallTypes DEF FlagTypes
  <2>4. BlockTypes'
    BY <1>1, <2>1, BlockKept
  <2>5. BindingsCurrent'
    BY <1>4, ApplyKeepsBindings
  <2>6. QED
    BY <1>2, <1>3, <2>2, <2>3, <2>4, <2>5, InvariantTogether DEF Call
<1>5. CASE CreateStateBlock \/ BeginStateBlock \/ EndStateBlock \/ CaptureStateBlock
  <2>1. UNCHANGED <<st, flags, maskVars>>
    BY <1>5 DEF CreateStateBlock, BeginStateBlock, EndStateBlock, CaptureStateBlock
  <2>2. StateTypes' /\ FlagTypes'
    BY <1>1, <1>2, <2>1, CallTypes DEF StateTypes, FlagTypes, maskVars
  <2>3. BindingsCurrent'
    <3>1. OnlyRaises
      BY <1>2, <2>1 DEF OnlyRaises, maskVars
    <3>2. \A p \in Parts \cap DOMAIN ReadBy : \A i \in Reads(p) \ {"prim"} : Announced(p, i)
      BY <2>1 DEF Announced
    <3>3. BindingsCurrent
      BY DEF IInv, BindingsCurrent
    <3>4. QED
      BY <1>2, <3>1, <3>2, <3>3, CallKeepsBindings DEF IInv
  <2>4. BlockTypes'
    BY <1>5, BlockMadeKeeps
  <2>5. QED
    BY <1>2, <1>3, <2>2, <2>3, <2>4, InvariantTogether DEF Call
<1>6. QED
  BY <1>4, <1>5 DEF Blocks

LEMMA SetKeeps ==
  ASSUME IInv, Set
  PROVE  IInv'
<1>1. CASE \E i \in Inputs : \E v \in Values(i) :
             Store(i, v) \/ SetTexture(i, v) \/ ChangeSetting(i, v)
  <2>0. PICK i \in Inputs : \E v \in Values(i) :
          Store(i, v) \/ SetTexture(i, v) \/ ChangeSetting(i, v)
    BY <1>1
  <2>1. PICK v \in Values(i) : Store(i, v) \/ SetTexture(i, v) \/ ChangeSetting(i, v)
    BY <2>0
  <2>2. StateTypes' /\ FlagTypes' /\ ListTypes' /\ BlockTypes'
    BY <2>1, SetTypes
  <2>3. BindingsCurrent'
    BY <2>1, StoreKeepsBindings, SetTextureKeepsBindings, ChangeSettingKeepsBindings
  <2>4. QED
    BY <2>1, <2>2, <2>3, InvariantTogether DEF Store, SetTexture, ChangeSetting, Call
<1>2. CASE \/ \E v \in Values("viewport") : SetViewport(v)
           \/ \E v \in Values("target") : SetRenderTarget(v) \/ SetRenderTargetFails(v)
  <2>1. StateTypes' /\ FlagTypes' /\ ListTypes' /\ BlockTypes'
    BY <1>2, TargetTypes
  <2>2. BindingsCurrent'
    BY <1>2, SetViewportKeepsBindings, TargetKeepsBindings
  <2>3. wrong' = {}
    BY <1>2 DEF SetViewport, SetRenderTarget, SetRenderTargetFails, Call
  <2>4. QED
    BY <2>1, <2>2, <2>3, InvariantTogether
<1>3. QED
  BY <1>1, <1>2 DEF Set

-----------------------------------------------------------------------------
\* The invariant of the specification.
LEMMA InitInvariant ==
  ASSUME Init
  PROVE  IInv
<1>1. /\ st = [i \in Inputs \cup {"scene"} |-> IF i = "scene" THEN FALSE ELSE 0]
      /\ flags = DirtyFlags /\ texture_mask = Textures /\ sampler_mask = TRUE
      /\ cache \in {CacheBuilt, FALSE} /\ last = Forgotten(Nothing, "none")
      /\ filled = [c \in CBuffers |-> Nothing] /\ root = "none" /\ bound = Unbound
      /\ wrong = {} /\ untold = {} /\ block = Nothing /\ promised = Nothing
      /\ recording = FALSE /\ overlooked = {} /\ calls = 0
  BY DEF Init
<1>2. /\ DOMAIN last = {"prim", "stencil", "streams", "set_pso", "root", "pso", "pso_prim"}
      /\ last.root = FALSE /\ last.pso = Nothing /\ last.set_pso = Nothing
      /\ last.prim = "none" /\ last.stencil = Nothing /\ last.streams = Nothing
  BY <1>1 DEF Forgotten
<1>3. DOMAIN bound = Parts /\ \A p \in Parts : bound[p] = Nothing
  BY <1>1 DEF Unbound
<1>4. StateTypes
  <2>1. \A i \in Inputs : 0 \in Values(i)
    BY DEF Values
  <2>2. QED
    BY <1>1, <2>1, InputsAreTheGames DEF StateTypes
<1>5. FlagTypes
  <2>1. cache \in BOOLEAN
    BY <1>1, CacheBuiltAssumption
  <2>2. calls \in 0 .. MaxCalls
    BY <1>1, MaxCallsAssumption
  <2>3. QED
    BY <1>1, <2>1, <2>2 DEF FlagTypes
<1>6. ListTypes
  BY <1>1, <1>2, <1>3, NothingHasNoDomain DEF ListTypes
<1>7. BlockTypes
  BY <1>1, NothingHasNoDomain DEF BlockTypes, BlockHolds
<1>8. TargetsCurrent /\ PsoCurrent
  BY <1>1 DEF TargetsCurrent, PsoCurrent, DirtyFlags
<1>9. FilledCurrent
  <2>1. \A c \in CBuffers : MadeAgainFor[c] \in DirtyFlags
    BY DEF CBuffers, MadeAgainFor, DirtyFlags
  <2>2. QED
    BY <1>1, <2>1 DEF FilledCurrent
<1>10. RootCurrent /\ BlitIsUntold
  BY <1>1 DEF RootCurrent, BlitIsUntold
<1>11. CachesAreRight
  BY <1>1, <1>2, <1>3 DEF CachesAreRight, Parts
<1>12. DrawsSeeTheirState
  BY <1>1 DEF DrawsSeeTheirState
<1>13. QED
  BY <1>4, <1>5, <1>6, <1>7, <1>8, <1>9, <1>10, <1>11, <1>12, TypesTogether DEF IInv

LEMMA Inductive ==
  ASSUME IInv, [Next]_vars
  PROVE  IInv'
<1>1. CASE Set
  BY <1>1, SetKeeps
<1>2. CASE Blocks
  BY <1>2, BlocksKeep
<1>3. CASE Others
  BY <1>3, PassesKeep, ListResetsKeep DEF Others
<1>4. CASE BeginScene
  <2>1. wrong' = {}
    BY <1>4 DEF BeginScene, Call
  <2>2. QED
    BY <1>4, <2>1, SceneTypes, BeginSceneKeepsBindings, InvariantTogether
<1>5. CASE \E p \in Prims : Draw(p) \/ DrawUP(p)
  BY <1>5, DrawKeeps, DrawUPKeeps
<1>6. CASE UNCHANGED vars
  <2>1. UNCHANGED <<cache, listVars>> /\ UNCHANGED <<st, flags, maskVars, untold, wrong>>
        /\ UNCHANGED blockVars /\ UNCHANGED calls
    BY <1>6 DEF vars
  <2>2. StateTypes /\ FlagTypes /\ ListTypes /\ BlockTypes
    BY TypesTogether DEF IInv
  <2>3. StateTypes' /\ FlagTypes' /\ ListTypes' /\ BlockTypes'
    BY <2>1, <2>2, ListTypesKept, BlockKept DEF StateTypes, FlagTypes, maskVars
  <2>4. BindingsCurrent'
    <3>1. OnlyRaises
      BY <2>1 DEF OnlyRaises, maskVars
    <3>2. \A p \in Parts \cap DOMAIN ReadBy : \A i \in Reads(p) \ {"prim"} : Announced(p, i)
      BY <2>1 DEF Announced
    <3>3. QED
      BY <2>1, <3>1, <3>2, CallKeepsBindings DEF IInv, BindingsCurrent
  <2>5. wrong' \subseteq untold'
    BY <2>1 DEF IInv, DrawsSeeTheirState
  <2>6. QED
    BY <2>3, <2>4, <2>5, InvariantTogether
<1>7. QED
  BY <1>1, <1>2, <1>3, <1>4, <1>5, <1>6 DEF Next

\* The invariant of the bindings holds for every set of inputs the tables relate.
THEOREM Invariance == Spec => []IInv
<1>1. Init => IInv
  BY InitInvariant
<1>2. IInv /\ [Next]_vars => IInv'
  BY Inductive
<1>3. QED
  BY <1>1, <1>2, PTL DEF Spec

\* Flags and masks name what exists, what the list and the block hold is what
\* their parts and fields may hold (device.h: dirty_flags_, the state blocks).
THEOREM TypeCorrect == Spec => []TypeOK
<1>1. IInv => TypeOK
  BY DEF IInv
<1>2. QED
  BY <1>1, Invariance, PTL

\* A draw is drawn with the state the game has set, what nothing announces
\* apart, however calls, flushes, passes and blocks come between the draws
\* (device.cpp: PrepareDrawCall).
THEOREM DrawsSeeTheState == Spec => []DrawsSeeTheirState
<1>1. IInv => DrawsSeeTheirState
  BY DEF IInv
<1>2. QED
  BY <1>1, Invariance, PTL

\* A state block gives back what it was asked to hold, that apart which it is
\* known not to hold, and touches nothing else (device.cpp: ApplyStateBlock).
THEOREM BlocksGiveBack == Spec => BlocksRestore
<1>1. ASSUME IInv, ApplyStateBlock, NEW i \in Recordable
      PROVE  st'[i] = IF i \in DOMAIN promised \ overlooked THEN promised[i] ELSE st[i]
  <2>1. /\ DOMAIN block = DOMAIN promised \ overlooked
        /\ \A j \in DOMAIN block : block[j] = promised[j]
        /\ st' = [j \in DOMAIN st |-> IF j \in DOMAIN block THEN block[j] ELSE st[j]]
    BY <1>1 DEF IInv, BlockHolds, ApplyStateBlock
  <2>2. i \in DOMAIN st
    BY <1>1, RecordableInputs DEF IInv, Shapes
  <2>3. QED
    BY <2>1, <2>2
<1>2. IInv => [calls' = calls + 1 /\ ApplyStateBlock =>
                 \A i \in Recordable :
                   st'[i] = IF i \in DOMAIN promised \ overlooked
                            THEN promised[i] ELSE st[i]]_vars
  BY <1>1
<1>3. QED
  BY <1>2, Invariance, PTL DEF BlocksRestore

-----------------------------------------------------------------------------
\* The tables again, for any input: what is read is announced.  What SetRenderState
\* keeps from DIRTY_FLAG_PSO is out of the cache key and of the description
\* (device.cpp: SetRenderState, CreatePSO).
THEOREM ReadsAreHeard == EveryReadIsAnnounced
<1>1. \A i : i \notin Unannounced =>
        \A part \in DOMAIN ReadBy : i \in ReadBy[part] => MadeAgainFor[part] \in Raises(i)
  BY ReadsAreAnnounced
<1>2. NotPsoStates \subseteq NormalizedStates
  BY DEF NotPsoStates, NormalizedStates
<1>3. NormalizedStates \cap (DescStates \cup ShaderStates) = {}
  BY DEF NormalizedStates, DescStates, StencilStates, ShaderStates, FogStates, MaterialSources
<1>4. QED
  BY <1>1, <1>2, <1>3 DEF EveryReadIsAnnounced

-----------------------------------------------------------------------------
\* Texture stages: any operations and arguments, with textures anywhere.
AnyOperation(Ops, Args) == [op : Ops, arg1 : Args, arg2 : Args, arg0 : Args]
AnyStageCase(Ops, Args) ==
  [kind : {"stages"},
   ts : [Stages -> [color : AnyOperation(Ops, Args), alpha : AnyOperation(Ops, Args)]],
   textured : [Stages -> BOOLEAN]]

\* What the key says of a stage: where the loop ends nothing of the stage is
\* copied, and nothing of those after it.
LEMMA KeyOfStage ==
  ASSUME NEW s, NEW i \in Stages
  PROVE  PixelShaderState(s)[i] =
           IF \E j \in 0 .. i : j < i /\ Stops(s, j) THEN Cleared
           ELSE IF Stops(s, i) THEN [Cleared EXCEPT !.color.op = "disable"]
           ELSE [color |-> s.ts[i].color, alpha |-> AlphaKey(s, i)]
BY DEF PixelShaderState

LEMMA KeyIsCopied ==
  ASSUME NEW s, NEW i \in Stages, \A j \in 0 .. i : ~Stops(s, j)
  PROVE  /\ PixelShaderState(s)[i].color = s.ts[i].color
         /\ PixelShaderState(s)[i].alpha = AlphaKey(s, i)
         /\ PixelShaderState(s)[i] = [color |-> s.ts[i].color, alpha |-> AlphaKey(s, i)]
<1>1. i \in 0 .. i
  BY kMaxTexStagesAssumption DEF Stages
<1>2. PixelShaderState(s)[i] = [color |-> s.ts[i].color, alpha |-> AlphaKey(s, i)]
  BY <1>1, KeyOfStage
<1>3. QED
  BY <1>2

LEMMA KeyStops ==
  ASSUME NEW s, NEW i \in Stages, Stops(s, i)
  PROVE  PixelShaderState(s)[i].color.op \in {"unset", "disable"}
         /\ PixelShaderState(s)[i].alpha.op \in {"unset", "disable"}
<1>1. CASE \E j \in 0 .. i : j < i /\ Stops(s, j)
  <2>1. PixelShaderState(s)[i] = Cleared
    BY <1>1, KeyOfStage
  <2>2. QED
    BY <2>1 DEF Cleared, Unset, Operation
<1>2. CASE ~\E j \in 0 .. i : j < i /\ Stops(s, j)
  <2>1. PixelShaderState(s)[i] = [Cleared EXCEPT !.color.op = "disable"]
    BY <1>2, KeyOfStage
  <2>2. [Cleared EXCEPT !.color.op = "disable"].color.op = "disable"
        /\ [Cleared EXCEPT !.color.op = "disable"].alpha.op = "unset"
    BY DEF Cleared, Unset, Operation
  <2>3. QED
    BY <2>1, <2>2
<1>3. QED
  BY <1>1, <1>2

\* The alpha operation in the key: the game's, with no missing texture among the
\* arguments it reads.
LEMMA AlphaKeyReads ==
  ASSUME NEW Ops, NEW Args, NEW s \in AnyStageCase(Ops, Args), NEW i \in Stages
  PROVE  LET o == AlphaKey(s, i)
         IN  /\ o.op = s.ts[i].alpha.op
             /\ UsesArg1(o.op) /\ o.arg1 = "texture" => StageHasTexture(s, i)
             /\ UsesArg2(o.op) /\ o.arg2 = "texture" => StageHasTexture(s, i)
<1>1. PICK o : o = s.ts[i].alpha
  OBVIOUS
<1>2. o \in [op : Ops, arg1 : Args, arg2 : Args, arg0 : Args]
  BY <1>1 DEF AnyStageCase, AnyOperation
<1>3. AlphaKey(s, i) = [o EXCEPT !.arg1 = OrDiffuse(s, i, UsesArg1(o.op), o.arg1),
                                 !.arg2 = OrDiffuse(s, i, UsesArg2(o.op), o.arg2)]
  BY <1>1 DEF AlphaKey
<1>4. /\ AlphaKey(s, i).op = o.op
      /\ AlphaKey(s, i).arg1 = OrDiffuse(s, i, UsesArg1(o.op), o.arg1)
      /\ AlphaKey(s, i).arg2 = OrDiffuse(s, i, UsesArg2(o.op), o.arg2)
  BY <1>2, <1>3
<1>5. QED
  BY <1>1, <1>4 DEF OrDiffuse

\* The operations of a channel that are applied, stage by stage.
LEMMA ActiveWhen ==
  ASSUME NEW Ops, "unset" \notin Ops, NEW Args, NEW s \in AnyStageCase(Ops, Args), NEW i \in Stages
  PROVE  /\ Active(PixelShaderState(s), "color", i) <=> Runs(s, "color", i)
         /\ Active(PixelShaderState(s), "alpha", i) <=> Runs(s, "alpha", i) /\ Runs(s, "color", i)
<1> DEFINE key == PixelShaderState(s)
<1>1. 0 .. i \subseteq Stages /\ \A j \in 0 .. i : 0 .. j \subseteq 0 .. i
  BY kMaxTexStagesAssumption DEF Stages
<1>2. ASSUME NEW j \in Stages
      PROVE  s.ts[j].color.op # "unset" /\ s.ts[j].alpha.op # "unset"
  BY DEF AnyStageCase, AnyOperation
<1>3. Runs(s, "color", i) <=> \A j \in 0 .. i : ~Stops(s, j)
  BY DEF Runs, Stops
<1>4. Runs(s, "alpha", i) <=> \A j \in 0 .. i : s.ts[j].alpha.op # "disable"
  BY DEF Runs
<1>5. /\ Active(key, "color", i) <=> \A j \in 0 .. i : key[j].color.op \notin {"unset", "disable"}
      /\ Active(key, "alpha", i) <=> \A j \in 0 .. i : key[j].alpha.op \notin {"unset", "disable"}
  <2>1. \A j : key[j]["color"].op = key[j].color.op /\ key[j]["alpha"].op = key[j].alpha.op
    OBVIOUS
  <2> HIDE DEF key
  <2>2. QED
    BY <2>1 DEF Active
<1>6. CASE \A j \in 0 .. i : ~Stops(s, j)
  <2>1. ASSUME NEW j \in 0 .. i
        PROVE  key[j].color = s.ts[j].color /\ key[j].alpha = AlphaKey(s, j)
    BY <1>1, <1>6, KeyIsCopied
  <2>2. ASSUME NEW j \in 0 .. i PROVE AlphaKey(s, j).op = s.ts[j].alpha.op
    BY <1>1, AlphaKeyReads
  <2>3. ASSUME NEW j \in 0 .. i PROVE s.ts[j].color.op # "disable"
    BY <1>6 DEF Stops
  <2> HIDE DEF key
  <2>4. Active(key, "color", i) /\ Runs(s, "color", i)
    BY <1>1, <1>2, <1>3, <1>5, <1>6, <2>1, <2>3
  <2>5. Active(key, "alpha", i) <=> Runs(s, "alpha", i)
    BY <1>1, <1>2, <1>4, <1>5, <2>1, <2>2
  <2>6. QED
    BY <2>4, <2>5 DEF key
<1>7. CASE \E j \in 0 .. i : Stops(s, j)
  <2>1. PICK j \in 0 .. i : Stops(s, j)
    BY <1>7
  <2>2. key[j].color.op \in {"unset", "disable"} /\ key[j].alpha.op \in {"unset", "disable"}
    BY <1>1, <2>1, KeyStops
  <2> HIDE DEF key
  <2>3. ~Active(key, "color", i) /\ ~Active(key, "alpha", i) /\ ~Runs(s, "color", i)
    BY <1>3, <1>5, <2>1, <2>2
  <2>4. QED
    BY <2>3 DEF key
<1>8. QED
  BY <1>6, <1>7

\* The generated shader runs the game's color operations, its alpha operations
\* for as long as the color channel lasts, and uses no texture that is not there
\* but in the ways PixelShaderState does not look at: for any number of stages,
\* operations, arguments and textures (render_state.cpp: PixelShaderState;
\* ff_pixel_shader.cpp: CreatePixelShaderFromState).
THEOREM StagesTranslated ==
  ASSUME NEW Ops, "unset" \notin Ops, NEW Args, given \in AnyStageCase(Ops, Args)
  PROVE  StagesAreTranslated
<1> DEFINE key == PixelShaderState(given)
<1>1. ASSUME NEW i \in Stages, Runs(given, "color", i)
      PROVE  /\ key[i]["color"] = given.ts[i].color
             /\ key[i]["alpha"] = AlphaKey(given, i)
  <2>1. \A j \in 0 .. i : ~Stops(given, j)
    BY <1>1 DEF Runs, Stops
  <2>2. QED
    BY <2>1, KeyIsCopied
<1>2. ASSUME NEW i \in Stages
      PROVE  /\ Active(key, "color", i) <=> Runs(given, "color", i)
             /\ Active(key, "alpha", i) <=> Runs(given, "alpha", i) /\ Runs(given, "color", i)
  BY ActiveWhen
<1> HIDE DEF key
<1>3. Applied(key, "color") = MeantOperations(given, "color")
  <2>1. Applied(key, "color") = {<<i, key[i]["color"]>> : i \in {j \in Stages : Active(key, "color", j)}}
    BY DEF Applied
  <2>2. MeantOperations(given, "color") =
          {<<i, given.ts[i].color>> : i \in {j \in Stages : Runs(given, "color", j)}}
    BY DEF MeantOperations
  <2>3. QED
    BY <1>1, <1>2, <2>1, <2>2
<1>4. Applied(key, "alpha") = {m \in MeantOperations(given, "alpha") : Runs(given, "color", m[1])}
  <2>1. Applied(key, "alpha") = {<<i, key[i]["alpha"]>> : i \in {j \in Stages : Active(key, "alpha", j)}}
    BY DEF Applied
  <2>2. MeantOperations(given, "alpha") =
          {<<i, AlphaKey(given, i)>> : i \in {j \in Stages : Runs(given, "alpha", j)}}
    BY DEF MeantOperations
  <2>3. QED
    BY <1>1, <1>2, <2>1, <2>2
<1>5. ASSUME NEW c \in Channels, NEW a \in Applied(key, c), NEW arg \in Samples(a[2]) \ {"arg0"},
             a[2][arg] = "texture"
      PROVE  StageHasTexture(given, a[1])
  <2>1. PICK i \in Stages : Active(key, c, i) /\ a = <<i, key[i][c]>>
    BY DEF Applied
  <2>2. c \in {"color", "alpha"} /\ Runs(given, "color", i) /\ a[1] = i /\ a[2] = key[i][c]
    BY <1>2, <2>1 DEF Channels
  <2>3. \/ arg = "arg1" /\ UsesArg1(a[2].op) /\ a[2].arg1 = "texture"
        \/ arg = "arg2" /\ UsesArg2(a[2].op) /\ a[2].arg2 = "texture"
    BY <1>5 DEF Samples
  <2>4. CASE c = "color"
    <3>1. a[2] = given.ts[i].color
      BY <1>1, <2>2, <2>4
    <3>2. i \in 0 .. i
      BY <2>1, kMaxTexStagesAssumption DEF Stages
    <3>3. ~Lacks(given, i, given.ts[i].color)
      BY <2>2, <3>2 DEF Runs
    <3>4. QED
      BY <2>2, <2>3, <3>1, <3>3 DEF Lacks
  <2>5. CASE c = "alpha"
    <3>1. a[2] = AlphaKey(given, i)
      BY <1>1, <2>2, <2>5
    <3>2. QED
      BY <2>1, <2>2, <2>3, <3>1, AlphaKeyReads
  <2>6. QED
    BY <2>2, <2>4, <2>5
<1>6. QED
  BY <1>3, <1>4, <1>5 DEF StagesAreTranslated, key

\* The cases of the run are among these.
LEMMA StageCasesAreCases ==
  StageCases \subseteq AnyStageCase({"disable", "select1", "select2", "binary", "ternary"},
                                   {"texture", "texture_modified", "diffuse"})
<1> DEFINE Any == AnyOperation({"disable", "select1", "select2", "binary", "ternary"},
                               {"texture", "texture_modified", "diffuse"})
<1>1. ColorChoices \subseteq Any /\ AlphaChoices \subseteq Any
  BY DEF AnyOperation, ColorChoices, AlphaChoices, Operation
<1>2. {[i \in Stages |-> i < n] : n \in 0 .. kMaxTexStages} \subseteq [Stages -> BOOLEAN]
  <2>1. \A n \in 0 .. kMaxTexStages : [i \in Stages |-> i < n] \in [Stages -> BOOLEAN]
    <3>1. \A n, i : (i < n) \in BOOLEAN
      OBVIOUS
    <3>2. QED
      BY <3>1, Zenon
  <2>2. QED
    BY <2>1, Zenon
<1> HIDE DEF Any
<1>3. [color : ColorChoices, alpha : AlphaChoices] \subseteq [color : Any, alpha : Any]
  BY <1>1
<1>4. [Stages -> [color : ColorChoices, alpha : AlphaChoices]]
        \subseteq [Stages -> [color : Any, alpha : Any]]
  BY <1>3
<1>5. QED
  BY <1>2, <1>4 DEF StageCases, AnyStageCase, Any

-----------------------------------------------------------------------------
\* Draw calls of any size.  What the game has to see to itself: as many indices
\* as the call asks for, and vertices that are in the buffer.
Elements(c) == 0 .. VertexCount(IF c.type = "TRIANGLEFAN" THEN "TRIANGLESTRIP" ELSE c.type, c.count) - 1
AnyDrawCase(c) ==
  /\ c.call \in DOMAIN Supported /\ c.type \in PrimitiveTypes
  /\ c.count \in Nat \ {0} /\ c.stride \in Nat \ {0}
  /\ c.call \in {"DrawPrimitive", "DrawIndexedPrimitive"} => c.start \in Nat /\ c.width \in Nat
  /\ c.call \in {"DrawIndexedPrimitive", "DrawIndexedPrimitiveUP"} => c.indices \in Seq(Nat)
  /\ c.call = "DrawIndexedPrimitive" => c.base \in Nat
  /\ c.call = "DrawIndexedPrimitiveUP" =>
       /\ c.min \in Nat /\ c.number \in Nat
       /\ Elements(c) \subseteq 0 .. Len(c.indices) - 1
VerticesAreThere(c) ==
  /\ c.call = "DrawPrimitive" =>
       \A e \in Elements(c) : (c.start + e + 1) * c.stride <= c.width
  /\ c.call = "DrawIndexedPrimitive" =>
       \A e \in Elements(c) : c.start + e < Len(c.indices) =>
         (c.base + c.indices[c.start + e + 1] + 1) * c.stride <= c.width

Plain == PrimitiveTypes \ {"TRIANGLEFAN"}

LEMMA CornersOfPlain ==
  ASSUME NEW type \in Plain, NEW i \in Nat
  PROVE  /\ \A k \in DOMAIN Corners(type, i) : Corners(type, i)[k] \in Nat
         /\ \E k \in DOMAIN Corners(type, i) : i <= Corners(type, i)[k]
         /\ \A count \in Nat : VertexCount(type, count) \in Nat
         /\ \A count \in Nat : i < count <=>
              \A k \in DOMAIN Corners(type, i) : Corners(type, i)[k] < VertexCount(type, count)
<1>1. CASE type = "POINTLIST"
  BY <1>1 DEF Corners, VertexCount
<1>2. CASE type = "LINELIST"
  BY <1>2 DEF Corners, VertexCount
<1>3. CASE type = "LINESTRIP"
  BY <1>3 DEF Corners, VertexCount
<1>4. CASE type = "TRIANGLELIST"
  BY <1>4 DEF Corners, VertexCount
<1>5. CASE type = "TRIANGLESTRIP"
  BY <1>5 DEF Corners, VertexCount
<1>6. QED
  BY <1>1, <1>2, <1>3, <1>4, <1>5 DEF Plain, PrimitiveTypes

\* Primitives that keep their corners: enough that each corner reached is the
\* vertex asked for, and that the corners reached are those that can be asked for.
LEMMA SamePrimitives ==
  ASSUME NEW c, c.type \in Plain, c.count \in Nat, NEW m \in Nat, NEW vertex,
         \A j \in Nat :
           (\A k \in DOMAIN Corners(c.type, j) : Corners(c.type, j)[k] < m) <=>
           /\ j < c.count
           /\ \A k \in DOMAIN Corners(c.type, j) : Askable(c, Corners(c.type, j)[k]),
         \A e \in 0 .. m - 1 : vertex[e] = AskedVertex(c, e)
  PROVE  Assembled(c.type, m, vertex) = Asked(c)
<1> DEFINE Made1 == {j \in 0 .. m - 1 : \A k \in DOMAIN Corners(c.type, j) : Corners(c.type, j)[k] < m}
           Made2 == {j \in 0 .. c.count - 1 :
                       \A k \in DOMAIN Corners(c.type, j) : Askable(c, Corners(c.type, j)[k])}
<1>1. Made1 = Made2
  <2>1. ASSUME NEW j \in Nat, \A k \in DOMAIN Corners(c.type, j) : Corners(c.type, j)[k] < m
        PROVE  j \in 0 .. m - 1
    <3>1. PICK k \in DOMAIN Corners(c.type, j) : j <= Corners(c.type, j)[k]
      BY CornersOfPlain
    <3>2. Corners(c.type, j)[k] \in Nat
      BY CornersOfPlain
    <3>3. QED
      BY <2>1, <3>1, <3>2
  <2>2. QED
    BY <2>1
<1>2. ASSUME NEW i \in Made1, NEW k \in DOMAIN Corners(c.type, i)
      PROVE  vertex[Corners(c.type, i)[k]] = AskedVertex(c, Corners(c.type, i)[k])
  <2>1. Corners(c.type, i)[k] \in Nat /\ Corners(c.type, i)[k] < m
    BY CornersOfPlain
  <2>2. QED
    BY <2>1
<1>3. Assembled(c.type, m, vertex) =
        [i \in Made1 |-> [k \in DOMAIN Corners(c.type, i) |-> vertex[Corners(c.type, i)[k]]]]
  BY DEF Assembled
<1>4. Asked(c) =
        [i \in Made2 |-> [k \in DOMAIN Corners(c.type, i) |-> AskedVertex(c, Corners(c.type, i)[k])]]
  BY DEF Asked
<1> HIDE DEF Made1, Made2
<1>5. QED
  BY <1>1, <1>2, <1>3, <1>4

LEMMA MoreVerticesAreLonger ==
  ASSUME NEW a \in Nat, NEW b \in Nat, a <= b, NEW stride \in Nat
  PROVE  a * stride <= b * stride
<1>1. PICK d \in Nat : b = a + d
  <2>1. b - a \in Nat /\ b = a + (b - a)
    OBVIOUS
  <2>2. QED
    BY <2>1
<1>2. (a + d) * stride = a * stride + d * stride
  OBVIOUS
<1>3. a * stride \in Nat /\ d * stride \in Nat
  OBVIOUS
<1>4. QED
  BY <1>1, <1>2, <1>3

LEMMA DrawPrimitivePlain ==
  ASSUME NEW c, AnyDrawCase(c), VerticesAreThere(c), Drawable(c), c.call = "DrawPrimitive",
         c.type # "TRIANGLEFAN"
  PROVE  DrawPrimitive(c) = Asked(c)
<1>1. /\ c.type \in Plain /\ c.count \in Nat /\ c.start \in Nat /\ c.stride \in Nat
      /\ c.declared = c.stride
  BY DEF AnyDrawCase, Drawable, Plain
<1>2. PICK n : n = VertexCount(c.type, c.count)
  OBVIOUS
<1>3. n \in Nat
  BY <1>1, <1>2, CornersOfPlain
<1>4. PICK vertex : vertex = [e \in 0 .. n - 1 |-> StreamVertex(c, c.start + e)]
  OBVIOUS
<1>5. ASSUME NEW e \in 0 .. n - 1
      PROVE  vertex[e] = AskedVertex(c, e)
  <2>1. (c.start + e + 1) * c.stride <= c.width
    BY <1>2 DEF VerticesAreThere, Elements
  <2>2. ByteOf("stream", c.width, c.stride, c.start + e) = <<"stream", (c.start + e) * c.stride>>
    BY <2>1, Zenon DEF ByteOf
  <2>3. vertex[e] = <<"stream", (c.start + e) * c.stride>>
    BY <1>1, <1>4, <2>2, Zenon DEF StreamVertex
  <2>4. QED
    BY <2>3 DEF AskedVertex
<1>6. \A e : Askable(c, e)
  BY DEF Askable
<1>7. Assembled(c.type, n, vertex) = Asked(c)
  BY <1>1, <1>2, <1>3, <1>5, <1>6, CornersOfPlain, SamePrimitives
<1>8. QED
  BY <1>2, <1>4, <1>7 DEF DrawPrimitive

LEMMA DrawPrimitiveUPPlain ==
  ASSUME NEW c, AnyDrawCase(c), Drawable(c), c.call = "DrawPrimitiveUP", c.type # "TRIANGLEFAN"
  PROVE  DrawPrimitiveUP(c) = Asked(c)
<1>1. c.type \in Plain /\ c.count \in Nat
  BY DEF AnyDrawCase, Plain
<1>2. PICK n : n = VertexCount(c.type, c.count)
  OBVIOUS
<1>3. n \in Nat
  BY <1>1, <1>2, CornersOfPlain
<1>4. PICK vertex : vertex = [e \in 0 .. n - 1 |->
                                <<"memory", (IF c.type = "TRIANGLEFAN" THEN FanElement(e) ELSE e)
                                            * c.stride>>]
  OBVIOUS
<1>5. ASSUME NEW e \in 0 .. n - 1
      PROVE  vertex[e] = AskedVertex(c, e)
  BY <1>4 DEF AskedVertex
<1>6. \A e : Askable(c, e)
  BY DEF Askable
<1>7. Assembled(c.type, n, vertex) = Asked(c)
  BY <1>1, <1>2, <1>3, <1>5, <1>6, CornersOfPlain, SamePrimitives
<1>8. QED
  BY <1>2, <1>4, <1>7 DEF DrawPrimitiveUP

LEMMA DrawIndexedPrimitivePlain ==
  ASSUME NEW c, AnyDrawCase(c), VerticesAreThere(c), Drawable(c),
         c.call = "DrawIndexedPrimitive"
  PROVE  DrawIndexedPrimitive(c) = Asked(c)
<1>1. /\ c.type \in Plain /\ c.count \in Nat /\ c.start \in Nat /\ c.stride \in Nat
      /\ c.declared = c.stride /\ c.base \in Nat
  BY DEF AnyDrawCase, Drawable, Plain, Supported
<1>i. c.indices \in Seq(Nat)
  BY DEF AnyDrawCase
<1>2. PICK n : n = VertexCount(c.type, c.count)
  OBVIOUS
<1>3. PICK m : m = IF c.start >= Len(c.indices) THEN 0
                   ELSE IF c.start + n > Len(c.indices) THEN Len(c.indices) - c.start
                   ELSE n
  OBVIOUS
<1>4. n \in Nat /\ Len(c.indices) \in Nat /\ m \in Nat
      /\ \A e \in Nat : e < m <=> e < n /\ c.start + e < Len(c.indices)
  <2>1. n \in Nat
    BY <1>1, <1>2, CornersOfPlain
  <2>2. Len(c.indices) \in Nat
    BY <1>i
  <2>3. PICK len \in Nat, s \in Nat : len = Len(c.indices) /\ s = c.start
    BY <1>1, <2>2
  <2>4. m = IF s >= len THEN 0 ELSE IF s + n > len THEN len - s ELSE n
    BY <1>3, <2>3, Zenon
  <2>5. m \in Nat /\ \A e \in Nat : e < m <=> e < n /\ s + e < len
    BY <2>1, <2>4
  <2>6. QED
    BY <2>1, <2>3, <2>5, Zenon
<1>5. PICK vertex : vertex = [e \in 0 .. m - 1 |->
                                StreamVertex(c, c.base + c.indices[c.start + e + 1])]
  OBVIOUS
<1>6. ASSUME NEW e \in 0 .. m - 1
      PROVE  vertex[e] = AskedVertex(c, e)
  <2>1. e \in Elements(c) /\ c.start + e < Len(c.indices)
    BY <1>1, <1>2, <1>4 DEF Elements, Plain
  <2>2. (c.base + c.indices[c.start + e + 1] + 1) * c.stride <= c.width
    BY <2>1 DEF VerticesAreThere
  <2>3. c.indices[c.start + e + 1] \in Nat
    <3>1. c.start + e + 1 \in 1 .. Len(c.indices)
      BY <1>1, <1>4, <2>1
    <3>2. QED
      BY <1>i, <3>1
  <2>4. vertex[e] = <<"stream", (c.base + c.indices[c.start + e + 1]) * c.stride>>
    <3>1. PICK v \in Nat : v = c.base + c.indices[c.start + e + 1]
      BY <1>1, <2>3
    <3>2. ByteOf("stream", c.width, c.stride, v) = <<"stream", v * c.stride>>
      BY <2>2, <3>1, Zenon DEF ByteOf
    <3>3. QED
      BY <1>1, <1>5, <3>1, <3>2, Zenon DEF StreamVertex
  <2>5. QED
    BY <2>4 DEF AskedVertex
<1>7. ASSUME NEW j \in Nat
      PROVE  (\A k \in DOMAIN Corners(c.type, j) : Corners(c.type, j)[k] < m) <=>
             /\ j < c.count
             /\ \A k \in DOMAIN Corners(c.type, j) : Askable(c, Corners(c.type, j)[k])
  <2>1. \A k \in DOMAIN Corners(c.type, j) :
          Corners(c.type, j)[k] < m <=>
            Corners(c.type, j)[k] < n /\ Askable(c, Corners(c.type, j)[k])
    BY <1>1, <1>4, CornersOfPlain DEF Askable
  <2>2. j < c.count <=> \A k \in DOMAIN Corners(c.type, j) : Corners(c.type, j)[k] < n
    BY <1>1, <1>2, CornersOfPlain
  <2>3. QED
    BY <2>1, <2>2
<1>8. Assembled(c.type, m, vertex) = Asked(c)
  BY <1>1, <1>4, <1>6, <1>7, SamePrimitives
<1>9. QED
  BY <1>2, <1>3, <1>5, <1>8 DEF DrawIndexedPrimitive

LEMMA DrawIndexedPrimitiveUPPlain ==
  ASSUME NEW c, AnyDrawCase(c), Drawable(c), c.call = "DrawIndexedPrimitiveUP"
  PROVE  DrawIndexedPrimitiveUP(c) = Asked(c)
<1>1. /\ c.type \in Plain /\ c.count \in Nat /\ c.stride \in Nat
      /\ c.min \in Nat /\ c.number \in Nat
  BY DEF AnyDrawCase, Drawable, Plain, Supported
<1>i. c.indices \in Seq(Nat) /\ Len(c.indices) \in Nat
  BY DEF AnyDrawCase
<1>2. PICK n : n = VertexCount(c.type, c.count)
  OBVIOUS
<1>3. n \in Nat /\ Elements(c) = 0 .. n - 1
  BY <1>1, <1>2, CornersOfPlain DEF Elements, Plain
<1>4. PICK vertex : vertex = [e \in 0 .. n - 1 |->
                                ByteOf("memory", (c.min + c.number) * c.stride, c.stride,
                                       c.indices[e + 1])]
  OBVIOUS
<1>5. ASSUME NEW e \in 0 .. n - 1
      PROVE  vertex[e] = AskedVertex(c, e)
  <2>1. e + 1 \in 1 .. Len(c.indices)
    BY <1>i, <1>3 DEF AnyDrawCase
  <2>2. c.indices[e + 1] \in Nat
    BY <1>i, <2>1
  <2>3. c.indices[e + 1] < c.min + c.number
    <3>1. e + 1 \in 1 .. n
      BY <1>3
    <3>2. c.type # "TRIANGLEFAN"
      BY <1>1 DEF Plain
    <3>3. QED
      BY <1>2, <3>1, <3>2 DEF Drawable
  <2>4. (c.indices[e + 1] + 1) * c.stride <= (c.min + c.number) * c.stride
    <3>1. PICK v \in Nat, end \in Nat : v = c.indices[e + 1] + 1 /\ end = c.min + c.number
      BY <1>1, <2>2
    <3>2. v <= end
      BY <1>1, <2>2, <2>3, <3>1
    <3>3. v * c.stride <= end * c.stride
      BY <1>1, <3>2, MoreVerticesAreLonger
    <3>4. QED
      BY <3>1, <3>3
  <2>5. vertex[e] = <<"memory", c.indices[e + 1] * c.stride>>
    <3>1. ByteOf("memory", (c.min + c.number) * c.stride, c.stride, c.indices[e + 1]) =
            <<"memory", c.indices[e + 1] * c.stride>>
      BY <2>4, Zenon DEF ByteOf
    <3>2. QED
      BY <1>4, <3>1, Zenon
  <2>6. QED
    BY <2>5 DEF AskedVertex
<1>6. \A e : Askable(c, e)
  BY DEF Askable
<1>7. Assembled(c.type, n, vertex) = Asked(c)
  BY <1>1, <1>2, <1>3, <1>5, <1>6, CornersOfPlain, SamePrimitives
<1>8. QED
  BY <1>2, <1>4, <1>7 DEF DrawIndexedPrimitiveUP

\* A fan drawn as a list: each corner of the list is the fan's.
LEMMA SameFans ==
  ASSUME NEW c, c.type = "TRIANGLEFAN", c.count \in Nat, NEW vertex,
         \A e : Askable(c, e),
         \A e \in 0 .. 3 * c.count - 1 : vertex[e] = AskedVertex(c, FanElement(e))
  PROVE  Assembled("TRIANGLELIST", 3 * c.count, vertex) = Asked(c)
<1> DEFINE Reached == {j \in 0 .. 3 * c.count - 1 :
                         \A k \in DOMAIN Corners("TRIANGLELIST", j) :
                           Corners("TRIANGLELIST", j)[k] < 3 * c.count}
           Meant == {j \in 0 .. c.count - 1 :
                       \A k \in DOMAIN Corners(c.type, j) : Askable(c, Corners(c.type, j)[k])}
<1>1. /\ \A j : Corners("TRIANGLELIST", j) = <<3 * j, 3 * j + 1, 3 * j + 2>>
      /\ \A j : Corners("TRIANGLEFAN", j) = <<0, j + 1, j + 2>>
  BY DEF Corners
<1>2. Reached = 0 .. c.count - 1
  <2>1. ASSUME NEW j \in Nat
        PROVE  (\A k \in DOMAIN Corners("TRIANGLELIST", j) :
                  Corners("TRIANGLELIST", j)[k] < 3 * c.count) <=> j < c.count
    BY <1>1
  <2>2. QED
    BY <2>1
<1>3. Meant = 0 .. c.count - 1
  OBVIOUS
<1>4. ASSUME NEW i \in 0 .. c.count - 1, NEW k \in 1 .. 3
      PROVE  vertex[Corners("TRIANGLELIST", i)[k]] = AskedVertex(c, Corners("TRIANGLEFAN", i)[k])
  <2>1. /\ Corners("TRIANGLELIST", i)[k] \in 0 .. 3 * c.count - 1
        /\ FanElement(Corners("TRIANGLELIST", i)[k]) = Corners("TRIANGLEFAN", i)[k]
    BY <1>1 DEF FanElement
  <2>2. QED
    BY <2>1
<1>5. Assembled("TRIANGLELIST", 3 * c.count, vertex) =
        [i \in Reached |-> [k \in DOMAIN Corners("TRIANGLELIST", i) |->
                              vertex[Corners("TRIANGLELIST", i)[k]]]]
  BY DEF Assembled
<1>6. Asked(c) =
        [i \in Meant |-> [k \in DOMAIN Corners(c.type, i) |-> AskedVertex(c, Corners(c.type, i)[k])]]
  BY DEF Asked
<1>7. \A i : DOMAIN Corners("TRIANGLELIST", i) = 1 .. 3 /\ DOMAIN Corners("TRIANGLEFAN", i) = 1 .. 3
  BY <1>1
<1> HIDE DEF Reached, Meant
<1>8. Assembled("TRIANGLELIST", 3 * c.count, vertex) =
        [i \in 0 .. c.count - 1 |-> [k \in 1 .. 3 |-> vertex[Corners("TRIANGLELIST", i)[k]]]]
  BY <1>2, <1>5, <1>7
<1>9. Asked(c) =
        [i \in 0 .. c.count - 1 |-> [k \in 1 .. 3 |-> AskedVertex(c, Corners("TRIANGLEFAN", i)[k])]]
  BY <1>3, <1>6, <1>7
<1>10. QED
  BY ZenonT(40), <1>4, <1>8, <1>9

LEMMA FanElementsAreElements ==
  ASSUME NEW count \in Nat \ {0}, NEW e \in 0 .. 3 * count - 1
  PROVE  FanElement(e) \in 0 .. count + 1
BY DEF FanElement

LEMMA DrawPrimitiveFan ==
  ASSUME NEW c, AnyDrawCase(c), VerticesAreThere(c), Drawable(c), c.call = "DrawPrimitive",
         c.type = "TRIANGLEFAN"
  PROVE  DrawPrimitive(c) = Asked(c)
<1>1. /\ c.count \in Nat \ {0} /\ c.start \in Nat /\ c.stride \in Nat /\ c.declared = c.stride
      /\ c.start + (2 + c.count) <= Index16 /\ Elements(c) = 0 .. (2 + c.count) - 1
  BY DEF AnyDrawCase, Drawable, Elements, VertexCount
<1>2. PICK vertex : vertex = [e \in 0 .. 3 * c.count - 1 |->
                                StreamVertex(c, (c.start + FanElement(e)) % Index16)]
  OBVIOUS
<1>3. ASSUME NEW e \in 0 .. 3 * c.count - 1
      PROVE  vertex[e] = AskedVertex(c, FanElement(e))
  <2>1. PICK f \in 0 .. c.count + 1 : f = FanElement(e)
    BY <1>1, FanElementsAreElements
  <2>2. PICK v \in Nat : v = c.start + f
    BY <1>1
  <2>3. v % Index16 = v
    <3>1. Index16 = 65536
      BY SMT DEF Index16
    <3>2. c.count \in Nat /\ c.start \in Nat /\ c.start + (2 + c.count) <= 65536
      BY <1>1, <3>1, SMT
    <3>3. v < 65536
      BY <2>1, <2>2, <3>2, SMT
    <3>4. v % 65536 = v
      BY <3>3, SMT
    <3>5. QED
      BY <3>1, <3>4, SMT
  <2>4. (v + 1) * c.stride <= c.width
    BY <1>1, <2>1, <2>2 DEF VerticesAreThere
  <2>5. ByteOf("stream", c.width, c.stride, v) = <<"stream", v * c.stride>>
    BY <2>4, Zenon DEF ByteOf
  <2>6. vertex[e] = <<"stream", v * c.stride>>
    BY <1>1, <1>2, <2>1, <2>2, <2>3, <2>5 DEF StreamVertex
  <2>7. QED
    BY <2>1, <2>2, <2>6 DEF AskedVertex
<1>4. \A e : Askable(c, e)
  BY DEF Askable
<1>5. Assembled("TRIANGLELIST", 3 * c.count, vertex) = Asked(c)
  BY <1>1, <1>3, <1>4, SameFans
<1>6. QED
  BY <1>2, <1>5 DEF DrawPrimitive

LEMMA DrawPrimitiveUPFan ==
  ASSUME NEW c, AnyDrawCase(c), c.call = "DrawPrimitiveUP", c.type = "TRIANGLEFAN"
  PROVE  DrawPrimitiveUP(c) = Asked(c)
<1>1. c.count \in Nat /\ VertexCount("TRIANGLELIST", c.count) = 3 * c.count
  BY DEF AnyDrawCase, VertexCount
<1>2. PICK vertex : vertex = [e \in 0 .. 3 * c.count - 1 |-> <<"memory", FanElement(e) * c.stride>>]
  OBVIOUS
<1>3. ASSUME NEW e \in 0 .. 3 * c.count - 1
      PROVE  vertex[e] = AskedVertex(c, FanElement(e))
  BY <1>2 DEF AskedVertex
<1>4. \A e : Askable(c, e)
  BY DEF Askable
<1>5. Assembled("TRIANGLELIST", 3 * c.count, vertex) = Asked(c)
  BY <1>1, <1>3, <1>4, SameFans
<1>6. QED
  BY <1>1, <1>2, <1>5 DEF DrawPrimitiveUP

\* Every call the code provides for draws the primitives it was asked for, of any
\* number, from any place of a buffer of any size, through any indices, as long
\* as the game keeps to its own buffers (device.cpp: DrawPrimitive,
\* DrawPrimitiveUP, DrawIndexedPrimitive, DrawIndexedPrimitiveUP).
THEOREM PrimitivesDrawn ==
  ASSUME given.kind = "draw" => AnyDrawCase(given) /\ VerticesAreThere(given)
  PROVE  PrimitivesAreDrawn
<1>1. SUFFICES ASSUME given.kind = "draw", Drawable(given)
               PROVE  Drawn(given) = Asked(given)
  BY DEF PrimitivesAreDrawn
<1>2. AnyDrawCase(given) /\ VerticesAreThere(given)
  BY <1>1
<1>3. CASE given.call = "DrawPrimitive"
  BY <1>1, <1>2, <1>3, DrawPrimitivePlain, DrawPrimitiveFan DEF Drawn
<1>4. CASE given.call = "DrawPrimitiveUP"
  BY <1>1, <1>2, <1>4, DrawPrimitiveUPPlain, DrawPrimitiveUPFan DEF Drawn
<1>5. CASE given.call = "DrawIndexedPrimitive"
  BY <1>1, <1>2, <1>5, DrawIndexedPrimitivePlain DEF Drawn
<1>6. CASE given.call = "DrawIndexedPrimitiveUP"
  BY <1>1, <1>2, <1>6, DrawIndexedPrimitiveUPPlain DEF Drawn
<1>7. given.call \in {"DrawPrimitive", "DrawPrimitiveUP", "DrawIndexedPrimitive",
                      "DrawIndexedPrimitiveUP"}
  BY <1>2 DEF AnyDrawCase, Supported
<1>8. QED
  BY <1>3, <1>4, <1>5, <1>6, <1>7

\* The calls TLC draws are such calls.
LEMMA DrawCasesAreAnyDrawCases ==
  ASSUME NEW c \in DrawCases
  PROVE  AnyDrawCase(c) /\ VerticesAreThere(c)
<1>1. CASE c.call = "DrawPrimitive"
  <2>1. /\ c.type \in PrimitiveTypes /\ c.count \in 1 .. 3 /\ c.stride \in {4, 12}
        /\ c.start \in {0, 5, 65532, 65533, 65537} /\ c.width = 786624
    BY <1>1 DEF DrawCases, VertexSizes, Index16
  <2>2. VertexCount(IF c.type = "TRIANGLEFAN" THEN "TRIANGLESTRIP" ELSE c.type, c.count) \in 1 .. 9
    BY <2>1 DEF PrimitiveTypes, VertexCount
  <2>3. ASSUME NEW e \in Elements(c)
        PROVE  (c.start + e + 1) * c.stride <= c.width
    <3>1. e \in 0 .. 8
      BY <2>2 DEF Elements
    <3>2. PICK v \in Nat : v = c.start + e + 1 /\ v <= 65552
      BY <2>1, <3>1
    <3>3. CASE c.stride = 4
      BY <2>1, <3>2, <3>3
    <3>4. CASE c.stride = 12
      BY <2>1, <3>2, <3>4
    <3>5. QED
      BY <2>1, <3>3, <3>4
  <2>4. AnyDrawCase(c)
    BY <1>1, <2>1 DEF AnyDrawCase, Supported
  <2>5. QED
    BY <1>1, <2>3, <2>4 DEF VerticesAreThere
<1>2. CASE c.call = "DrawPrimitiveUP"
  <2>1. c.type \in PrimitiveTypes /\ c.count \in 1 .. 3 /\ c.stride \in {4, 12}
    BY <1>2 DEF DrawCases, VertexSizes
  <2>2. QED
    BY <1>2, <2>1 DEF AnyDrawCase, VerticesAreThere, Supported
<1>3. CASE c.call = "DrawIndexedPrimitive"
  <2>1. /\ c.type \in PrimitiveTypes /\ c.count \in 1 .. 3 /\ c.stride \in {4, 12}
        /\ c.start \in 0 .. 6 /\ c.base \in {0, 3} /\ c.width = 108
        /\ c.indices \in {<<0, 1, 2, 3, 4, 5>>, <<5, 3, 3, 0, 1>>, <<2, 4>>}
    BY <1>3 DEF DrawCases, VertexSizes
  <2>2. c.indices \in Seq(0 .. 5)
    <3>1. /\ <<0, 1, 2, 3, 4, 5>> \in Seq(0 .. 5)
          /\ <<5, 3, 3, 0, 1>> \in Seq(0 .. 5)
          /\ <<2, 4>> \in Seq(0 .. 5)
      OBVIOUS
    <3>2. QED
      BY <2>1, <3>1
  <2>3. ASSUME NEW e \in Elements(c), c.start + e < Len(c.indices)
        PROVE  (c.base + c.indices[c.start + e + 1] + 1) * c.stride <= c.width
    <3>1. e \in Nat
      BY DEF Elements
    <3>2. c.indices[c.start + e + 1] \in 0 .. 5
      BY SMTT(40), <2>1, <2>2, <2>3, <3>1
    <3>3. PICK v \in Nat : v = c.base + c.indices[c.start + e + 1] + 1 /\ v <= 9
      BY <2>1, <3>2
    <3>4. CASE c.stride = 4
      BY <2>1, <3>3, <3>4
    <3>5. CASE c.stride = 12
      BY <2>1, <3>3, <3>5
    <3>6. QED
      BY <2>1, <3>4, <3>5
  <2>4. c.indices \in Seq(Nat)
    BY <2>2
  <2>5. AnyDrawCase(c)
    BY <1>3, <2>1, <2>4 DEF AnyDrawCase, Supported
  <2>6. QED
    BY <1>3, <2>3, <2>5 DEF VerticesAreThere
<1>4. CASE c.call = "DrawIndexedPrimitiveUP"
  <2>1. /\ c.type \in PrimitiveTypes /\ c.count \in 1 .. 3 /\ c.stride \in {4, 12}
        /\ c.min \in 0 .. 2 /\ c.number \in 1 .. 6
        /\ c.indices \in {<<0, 1, 2, 3, 4, 5, 1, 2, 0>>, <<5, 3, 3, 4, 5, 3, 4, 3, 5>>}
    BY <1>4 DEF DrawCases, VertexSizes
  <2>2. c.indices \in Seq(0 .. 5) /\ Len(c.indices) = 9
    <3>1. /\ <<0, 1, 2, 3, 4, 5, 1, 2, 0>> \in Seq(0 .. 5)
          /\ <<5, 3, 3, 4, 5, 3, 4, 3, 5>> \in Seq(0 .. 5)
      OBVIOUS
    <3>2. /\ Len(<<0, 1, 2, 3, 4, 5, 1, 2, 0>>) = 9
          /\ Len(<<5, 3, 3, 4, 5, 3, 4, 3, 5>>) = 9
      OBVIOUS
    <3>3. QED
      BY <2>1, <3>1, <3>2
  <2>3. VertexCount(IF c.type = "TRIANGLEFAN" THEN "TRIANGLESTRIP" ELSE c.type, c.count) \in 1 .. 9
    BY <2>1 DEF PrimitiveTypes, VertexCount
  <2>4. Elements(c) \subseteq 0 .. Len(c.indices) - 1
    BY <2>2, <2>3 DEF Elements
  <2>5. c.indices \in Seq(Nat)
    BY <2>2
  <2>6. /\ c.type \in PrimitiveTypes /\ c.count \in Nat \ {0} /\ c.stride \in Nat \ {0}
        /\ c.min \in Nat /\ c.number \in Nat
    BY <2>1
  <2>7. QED
    BY <1>4, <2>4, <2>5, <2>6, Zenon DEF AnyDrawCase, VerticesAreThere, Supported
<1>5. QED
  BY <1>1, <1>2, <1>3, <1>4 DEF DrawCases
=============================================================================
