------------------------- MODULE TextureContents_proof -------------------------
(***************************************************************************)
(* For every set of textures in the three pools, every number of levels    *)
(* and back buffers and any number of calls: what the game wrote into a    *)
(* surface last is what it holds once the open list has executed, and      *)
(* every command finds the resources it names in the state it needs, both  *)
(* but for the calls of SetRenderTarget that failed.                       *)
(***************************************************************************)
EXTENDS TextureContents, TLAPS

\* The open list: its target is the one the game has bound, unless a call that
\* failed has changed it, and in the state for drawing to it unless it was taken
\* out of it meanwhile.
TargetFollows ==
  /\ ~om_dirty => om_target \in OnGpu
  /\ unflagged => ~om_dirty
  /\ ~om_dirty /\ ~unflagged => om_target = ColorTarget
  /\ displaced => bound_target # None
  /\ ~om_dirty /\ ~displaced /\ ~unflagged => state[om_target] = "RENDER_TARGET"

TextureInv ==
  /\ TypeOK
  /\ TargetFollows
  /\ TexelsAreTheLastWritten
  /\ StatesFitTheirUses

-----------------------------------------------------------------------------
\* A subresource is a texture of its pool and one of its levels.
LEMMA SubresourceParts ==
  /\ \A pool, s : s \in Subresources(pool) => /\ s[1] \in pool
                                               /\ s[2] \in 0 .. Levels[s[1]] - 1
                                               /\ s = <<s[1], s[2]>>
  /\ \A pool : \A t \in pool : \A i \in 0 .. Levels[t] - 1 : <<t, i>> \in Subresources(pool)
  /\ \A pool, t : t \in pool => Level(t) \subseteq Subresources(pool)
  BY DEF Subresources, Level

\* The textures of the game, the back buffers and the ring are different.
LEMMA ResourcesDiffer ==
  /\ \A s \in Subresources(Managed \cup Default) : s \notin BackBuffers /\ s # Ring
  /\ Ring \notin OnGpu
  /\ BackBuffer(0) \in BackBuffers
<1>1. \A s \in Subresources(Managed \cup Default) : s[1] \notin {Back, Ring[1]}
  BY SubresourceParts, TexturesAssumption
<1>2. \A b \in BackBuffers : b[1] = Back /\ b[1] # Ring[1]
  <2>1. \A i : BackBuffer(i)[1] = Back /\ Ring[1] # Back
    BY DEF BackBuffer, Back, Ring
  <2>2. QED
    BY <2>1 DEF BackBuffers
<1>3. QED
  BY <1>1, <1>2, NumBackBuffersAssumption DEF OnGpu, BackBuffers, BackBuffer

LEMMA ColorTargets ==
  ASSUME TypeOK
  PROVE  /\ ColorTarget \in OnGpu /\ TargetSurface \in Surfaces
         /\ ColorTarget = Place(TargetSurface)
         /\ CurrentBackBuffer \in BackBuffers
         /\ bound_target # None => ColorTarget = <<bound_target, 0>>
         /\ bound_target = None => ColorTarget \in BackBuffers
         /\ Surfaces = Subresources(Managed \cup Default) \cup {BackBuffer(0)}
<1>1. CurrentBackBuffer \in BackBuffers
  BY DEF TypeOK, CurrentBackBuffer, BackBuffers
<1>2. CASE bound_target = None
  BY <1>1, <1>2 DEF ColorTarget, TargetSurface, Surfaces, OnGpu, Place
<1>3. CASE bound_target # None
  <2>1. bound_target \in Managed \cup Default /\ 0 \in 0 .. Levels[bound_target] - 1
    BY <1>3, TexturesAssumption DEF TypeOK
  <2>2. <<bound_target, 0>> \in Subresources(Managed \cup Default)
    BY <2>1, SubresourceParts
  <2>3. QED
    BY <1>1, <1>3, <2>2, ResourcesDiffer
       DEF ColorTarget, TargetSurface, Surfaces, OnGpu, Place
<1>4. QED
  BY <1>2, <1>3, <1>1 DEF Surfaces

\* Two surfaces never share their texels.
LEMMA PlacesDiffer ==
  ASSUME TypeOK, NEW s \in Surfaces
  PROVE  /\ Place(s) \in OnGpu
         /\ \A s2 \in Surfaces : Place(s2) = Place(s) => s2 = s
         /\ s \in Subresources(Managed \cup Default) => Place(s) = s
  BY ColorTargets, ResourcesDiffer DEF Place, OnGpu, Surfaces

-----------------------------------------------------------------------------
\* A command that writes what is promised at the places it is promised for keeps
\* every other promise.
LEMMA WritesArePromised ==
  ASSUME TextureInv, NEW writes, NEW values, Record(writes), Promise(values),
         current_back_buffer' = current_back_buffer,
         DOMAIN values \subseteq Surfaces,
         DOMAIN writes = {Place(s) : s \in DOMAIN values},
         \A s \in DOMAIN values :
           /\ writes[Place(s)] \in Values \cup OnGpu
           /\ values[s] \in Values \cup {Unknown}
           /\ values[s] \in
                {Unknown, IF writes[Place(s)] \in OnGpu THEN recorded[writes[Place(s)]]
                          ELSE writes[Place(s)]}
  PROVE  /\ \A s \in Surfaces : promised'[s] \in {Unknown, recorded'[Place(s)']}
         /\ recorded' \in [OnGpu -> Values]
         /\ promised' \in [Surfaces -> Values \cup {Unknown}]
<1>t. /\ recorded \in [OnGpu -> Values] /\ promised \in [Surfaces -> Values \cup {Unknown}]
      /\ \A s \in Surfaces : promised[s] \in {Unknown, recorded[Place(s)]}
  BY DEF TextureInv, TypeOK, TexelsAreTheLastWritten, Place
<1>1. \A s : Place(s)' = Place(s)
  BY DEF Place, CurrentBackBuffer
<1>2. ASSUME NEW s \in Surfaces PROVE promised'[s] \in {Unknown, recorded'[Place(s)]}
  <2>1. Place(s) \in OnGpu
    BY PlacesDiffer DEF TextureInv
  <2>2. CASE s \in DOMAIN values
    BY <2>1, <2>2 DEF Record, Promise
  <2>3. CASE s \notin DOMAIN values
    <3>1. Place(s) \notin DOMAIN writes
      BY <2>3, PlacesDiffer DEF TextureInv
    <3>2. QED
      BY <1>t, <2>1, <2>3, <3>1 DEF Record, Promise
  <2>4. QED
    BY <2>2, <2>3
<1>3. recorded' \in [OnGpu -> Values]
  <2>1. ASSUME NEW g \in OnGpu
        PROVE  (IF g \notin DOMAIN writes THEN recorded[g]
                ELSE IF writes[g] \in OnGpu THEN recorded[writes[g]] ELSE writes[g]) \in Values
    BY <1>t
  <2>2. QED
    BY <2>1 DEF Record
<1>4. promised' \in [Surfaces -> Values \cup {Unknown}]
  BY <1>t DEF Promise
<1>5. QED
  BY <1>1, <1>2, <1>3, <1>4

\* A transition keeps the states typed.
LEMMA TransitionTypes ==
  ASSUME NEW st \in [OnGpu \cup {Ring} -> States], NEW subs, NEW after \in States
  PROVE  /\ Transition(st, subs, after) \in [OnGpu \cup {Ring} -> States]
         /\ \A s \in OnGpu \cup {Ring} :
              Transition(st, subs, after)[s] = IF s \in subs THEN after ELSE st[s]
  BY DEF Transition

\* What a copy into the target leaves of a target bound in the open list.
LEMMA CopiesIntoTargets ==
  ASSUME TypeOK, NEW subs \in SUBSET Subresources(Managed \cup Default), ~Overwrites(subs)
  PROVE  ColorTarget \notin subs
<1>1. CASE bound_target = None
  BY <1>1, ColorTargets, ResourcesDiffer
<1>2. CASE bound_target # None
  BY <1>2, ColorTargets DEF Overwrites
<1>3. QED
  BY <1>1, <1>2

\* An upload, by whatever call: what goes into the ring is what is promised.
LEMMA UploadsKeep ==
  ASSUME TextureInv, NEW sources, NEW values, Uploads(sources), Promise(values),
         DOMAIN sources \subseteq Subresources(Managed \cup Default),
         DOMAIN values = DOMAIN sources,
         \A s \in DOMAIN sources : sources[s] \in Values /\ values[s] \in {Unknown, sources[s]},
         misread' = {}, behind' \subseteq Subresources(Managed),
         UNCHANGED <<data, contents, readback, bindings, om_dirty, om_target, unflagged>>
  PROVE  TextureInv'
<1> DEFINE subs == DOMAIN sources
           before == Transition(state, subs, "COPY_DEST")
           copying == Transition(before, {Ring}, "COPY_SOURCE")
<1>u. UNCHANGED <<current_back_buffer, bound_target, bound_texture, ColorTarget>>
  BY DEF bindings, ColorTarget, CurrentBackBuffer
<1>1. \A s \in subs : s \in Surfaces /\ Place(s) = s /\ s \in OnGpu /\ s # Ring
  BY ZenonT(60), PlacesDiffer, ColorTargets, ResourcesDiffer DEF TextureInv
<1>2. /\ recorded' \in [OnGpu -> Values]
      /\ promised' \in [Surfaces -> Values \cup {Unknown}]
      /\ \A s \in Surfaces : promised'[s] \in {Unknown, recorded'[Place(s)']}
  <2>1. \A s \in subs : /\ sources[Place(s)] \in Values /\ sources[Place(s)] \notin OnGpu
                        /\ values[s] \in {Unknown, sources[Place(s)]}
    BY <1>1, ValuesAssumption
  <2>2. DOMAIN sources = {Place(s) : s \in DOMAIN values}
    BY <1>1
  <2>3. Record(sources)
    BY DEF Uploads
  <2>4. QED
    BY <1>1, <1>u, <2>1, <2>2, <2>3, WritesArePromised
<1>3. /\ before \in [OnGpu \cup {Ring} -> States] /\ copying \in [OnGpu \cup {Ring} -> States]
      /\ \A s \in OnGpu \cup {Ring} :
           copying[s] = IF s = Ring THEN "COPY_SOURCE"
                        ELSE IF s \in subs THEN "COPY_DEST" ELSE state[s]
  <2>1. before \in [OnGpu \cup {Ring} -> States]
    BY ZenonT(60), TransitionTypes DEF TextureInv, TypeOK, States
  <2>2. copying \in [OnGpu \cup {Ring} -> States]
    BY <2>1, TransitionTypes DEF States
  <2>3. QED
    BY <2>1, <2>2 DEF Transition, TextureInv, TypeOK
<1>4. /\ state' = Transition(copying, subs, "ALL_SHADER_RESOURCE")
      /\ misused' = Misfits(copying, subs, "COPY_DEST") \cup Misfits(copying, {Ring}, "COPY_SOURCE")
      /\ displaced' = Overwrites(subs)
  BY DEF Uploads
<1> HIDE DEF before, copying
<1>5. misused' = {}
  BY <1>1, <1>3, <1>4 DEF Misfits
<1>6. /\ state' \in [OnGpu \cup {Ring} -> States]
      /\ \A s \in OnGpu \ subs : state'[s] = state[s]
  BY SMTT(40), <1>3, <1>4, TransitionTypes, ResourcesDiffer DEF States
<1>7. TargetFollows'
  <2>1. displaced' => bound_target # None
    BY <1>4 DEF Overwrites, TextureInv, TargetFollows
  <2>2. ~displaced' => ~displaced /\ ColorTarget \notin subs
    BY <1>4, CopiesIntoTargets DEF Overwrites, TextureInv
  <2>3. QED
    BY <1>6, <1>u, <2>1, <2>2, ColorTargets DEF TextureInv, TargetFollows
<1>8. TypeOK'
  BY <1>2, <1>4, <1>6, <1>u DEF TextureInv, TypeOK, Overwrites
<1>9. QED
  BY <1>2, <1>5, <1>7, <1>8
     DEF TextureInv, TexelsAreTheLastWritten, StatesFitTheirUses, Place, CurrentBackBuffer

LEMMA UnlockKeeps ==
  ASSUME TextureInv, NEW s \in InMemory, UnlockRect(s)
  PROVE  TextureInv'
<1> DEFINE sources == [x \in {s} |-> data[s]]
           values == [x \in {s} |-> IF s \in behind THEN Unknown ELSE data[s]]
<1>1. /\ s \in Subresources(Managed \cup Default) /\ data[s] \in Values
  BY DEF UnlockRect, TextureInv, TypeOK, Subresources
<1>2. Uploads(sources) /\ Promise(values)
  BY DEF UnlockRect
<1>3. behind' \subseteq Subresources(Managed)
  BY DEF UnlockRect, TextureInv, TypeOK
<1>4. /\ DOMAIN sources = {s} /\ DOMAIN values = {s}
      /\ sources[s] = data[s] /\ values[s] \in {Unknown, data[s]}
  OBVIOUS
<1>5. UNCHANGED <<data, contents, readback, bindings, om_dirty, om_target, unflagged>> /\ misread' = {}
  BY DEF UnlockRect
<1> HIDE DEF sources, values
<1>6. QED
  BY <1>1, <1>2, <1>3, <1>4, <1>5, UploadsKeep

LEMMA UpdateKeeps ==
  ASSUME TextureInv, NEW source \in System, NEW dest \in Managed \cup Default,
         UpdateTexture(source, dest)
  PROVE  TextureInv'
<1> DEFINE levels == [t \in Level(dest) |-> data[<<source, t[2]>>]]
<1>1. ASSUME NEW t \in Level(dest)
      PROVE  t \in Subresources(Managed \cup Default) /\ data[<<source, t[2]>>] \in Values
  <2>1. t[2] \in 0 .. Levels[source] - 1
    BY <1>1 DEF Level, UpdateTexture
  <2>2. <<source, t[2]>> \in InMemory
    BY <2>1, SubresourceParts DEF InMemory
  <2>3. QED
    BY <1>1, <2>2, SubresourceParts DEF TextureInv, TypeOK
<1>2. Uploads(levels) /\ Promise(levels)
  BY DEF UpdateTexture
<1>3. /\ UNCHANGED <<data, contents, readback, bindings, om_dirty, om_target, unflagged>>
      /\ misread' = {} /\ behind' \subseteq Subresources(Managed)
  BY DEF UpdateTexture, TextureInv, TypeOK
<1>4. /\ DOMAIN levels = Level(dest)
      /\ \A t \in DOMAIN levels : levels[t] \in Values
  BY <1>1
<1> HIDE DEF levels
<1>5. QED
  BY <1>1, <1>2, <1>3, <1>4, UploadsKeep

LEMMA CopyFromMemoryKeeps ==
  ASSUME TextureInv, NEW source \in InMemory, NEW dest \in OnGpu, CopyFromMemory(source, dest)
  PROVE  TextureInv'
<1> DEFINE sources == [x \in {dest} |-> data[source]]
<1>1. /\ dest \in Subresources(Managed \cup Default) /\ data[source] \in Values
      /\ Uploads(sources) /\ Promise(sources)
      /\ UNCHANGED <<data, contents, readback, bindings, om_dirty, om_target, unflagged>>
      /\ misread' = {} /\ behind' \subseteq Subresources(Managed)
  BY DEF CopyFromMemory, TextureInv, TypeOK
<1>2. DOMAIN sources = {dest} /\ sources[dest] = data[source]
  OBVIOUS
<1> HIDE DEF sources
<1>3. QED
  BY <1>1, <1>2, UploadsKeep

\* A copy between resources gives the source back its state, so that a target
\* that is read stays one.
LEMMA CopyKeeps ==
  ASSUME TextureInv, NEW source \in Surfaces, NEW dest \in Surfaces, CopyRects(source, dest)
  PROVE  TextureInv'
<1> DEFINE reading == Transition(state, {source}, "COPY_SOURCE")
           copying == Transition(reading, {dest}, "COPY_DEST")
           staged == Transition(copying, {Ring}, "COPY_DEST")
           back == Transition(copying, {source}, state[source])
           writes == [x \in {dest} |-> source]
           values == [x \in {dest} |-> Expected(source)]
<1>u. UNCHANGED <<data, contents, readback, current_back_buffer, bound_target, bound_texture,
                  om_dirty, om_target, unflagged, ColorTarget>>
  BY DEF CopyRects, bindings, ColorTarget, CurrentBackBuffer
<1>1. /\ dest \in Subresources(Managed \cup Default) /\ dest # source
      /\ misread' = {} /\ behind' \subseteq Subresources(Managed)
      /\ Record(writes) /\ Promise(values) /\ displaced' = Overwrites({dest})
      /\ misused' = Misfits(copying, {source}, "COPY_SOURCE") \cup Misfits(copying, {dest}, "COPY_DEST")
                    \cup IF NeedsStaging(source, dest) THEN Misfits(staged, {Ring}, "COPY_DEST") ELSE {}
      /\ state' = Transition(back, {dest}, "ALL_SHADER_RESOURCE")
  BY DEF CopyRects, TextureInv, TypeOK, GivenBack
<1>2. /\ source \in OnGpu /\ dest \in OnGpu /\ source # Ring /\ dest # Ring /\ Place(dest) = dest
      /\ Ring \notin OnGpu
  BY SMTT(40), <1>1, PlacesDiffer, ColorTargets, ResourcesDiffer DEF TextureInv, OnGpu
<1>3. /\ reading \in [OnGpu \cup {Ring} -> States] /\ copying \in [OnGpu \cup {Ring} -> States]
      /\ staged \in [OnGpu \cup {Ring} -> States] /\ back \in [OnGpu \cup {Ring} -> States]
      /\ state' \in [OnGpu \cup {Ring} -> States]
      /\ copying[source] = "COPY_SOURCE" /\ copying[dest] = "COPY_DEST" /\ staged[Ring] = "COPY_DEST"
      /\ \A s \in OnGpu \ {dest} : state'[s] = state[s]
  <2>1. reading \in [OnGpu \cup {Ring} -> States] /\ state[source] \in States
    <3>1. state \in [OnGpu \cup {Ring} -> States] /\ "COPY_SOURCE" \in States
      BY DEF TextureInv, TypeOK, States
    <3>2. QED
      BY <1>2, <3>1, TransitionTypes
  <2>2. copying \in [OnGpu \cup {Ring} -> States]
    BY ZenonT(40), <2>1, TransitionTypes DEF States
  <2>3. back \in [OnGpu \cup {Ring} -> States] /\ staged \in [OnGpu \cup {Ring} -> States]
    BY ZenonT(120), <2>1, <2>2, TransitionTypes DEF States
  <2>4. state' \in [OnGpu \cup {Ring} -> States]
    BY SMTT(120), <1>1, <2>3, TransitionTypes DEF States
  <2>5. QED
    BY <1>1, <1>2, <2>1, <2>2, <2>3, <2>4 DEF Transition, TextureInv, TypeOK
<1>4. /\ recorded' \in [OnGpu -> Values]
      /\ promised' \in [Surfaces -> Values \cup {Unknown}]
      /\ \A s \in Surfaces : promised'[s] \in {Unknown, recorded'[Place(s)']}
  <2>1. Expected(source) \in (Values \cup {Unknown}) \cap {Unknown, recorded[source]}
    BY DEF Expected, TextureInv, TypeOK, TexelsAreTheLastWritten, Place
  <2>2. /\ DOMAIN writes = {dest} /\ DOMAIN values = {dest}
        /\ writes[dest] = source /\ values[dest] = Expected(source)
    OBVIOUS
  <2> HIDE DEF writes, values
  <2>3. DOMAIN writes = {Place(s) : s \in DOMAIN values}
    BY <1>2, <2>2
  <2>4. QED
    BY <1>1, <1>2, <1>u, <2>1, <2>2, <2>3, WritesArePromised
<1> HIDE DEF reading, copying, staged, back, writes, values
<1>5. misused' = {}
  BY <1>1, <1>3 DEF Misfits
<1>6. TargetFollows'
  <2>1. displaced' => bound_target # None
    BY <1>1 DEF Overwrites, TextureInv, TargetFollows
  <2>2. ~displaced' => ~displaced /\ ColorTarget # dest
    BY <1>1, CopiesIntoTargets DEF Overwrites, TextureInv
  <2>3. QED
    BY <1>3, <1>u, <2>1, <2>2, ColorTargets DEF TextureInv, TargetFollows
<1>7. TypeOK'
  BY <1>1, <1>3, <1>4, <1>u DEF TextureInv, TypeOK, Overwrites
<1>8. QED
  BY <1>1, <1>4, <1>5, <1>6, <1>7
     DEF TextureInv, TexelsAreTheLastWritten, StatesFitTheirUses, Place, CurrentBackBuffer
-----------------------------------------------------------------------------
LEMMA LockKeeps ==
  ASSUME TextureInv, NEW s \in InMemory, NEW v \in Values, LockRect(s, v)
  PROVE  TextureInv'
<1>1. /\ data' = [data EXCEPT ![s] = v] /\ behind' = behind \ {s}
      /\ misused' = {} /\ misread' = {}
      /\ UNCHANGED <<contents, recorded, promised, state, readback, current_back_buffer,
                     bound_target, bound_texture, om_dirty, om_target, displaced, unflagged>>
  BY DEF LockRect, bindings, list
<1>2. QED
  BY <1>1 DEF TextureInv, TypeOK, TargetFollows, ColorTarget, CurrentBackBuffer,
              TexelsAreTheLastWritten, Place, StatesFitTheirUses

\* A readback executes what is recorded before it shows the surface.
LEMMA ReadbackKeeps ==
  ASSUME TextureInv, NEW s \in ReadBack, LockGpuReadback(s)
  PROVE  TextureInv'
<1>1. /\ readback' = readback \cup {s} /\ contents' = recorded
      /\ om_dirty' = TRUE /\ om_target' = None /\ unflagged' = FALSE /\ misused' = {}
      /\ misread' = IF Expected(s) \in {contents'[s], Unknown} THEN {} ELSE {s}
      /\ UNCHANGED <<data, recorded, promised, behind, state, current_back_buffer,
                     bound_target, bound_texture, displaced>>
  BY DEF LockGpuReadback, SubmitAndWait, bindings
<1>2. s \in Surfaces
  BY ColorTargets DEF TextureInv, ReadBack, Subresources
<1>3. Expected(s) \in {recorded[s], Unknown}
  BY <1>2 DEF Expected, TextureInv, TexelsAreTheLastWritten, Place
<1>4. misread' = {}
  BY <1>1, <1>3
<1>5. TypeOK'
  BY <1>1 DEF TextureInv, TypeOK
<1>6. QED
  BY <1>1, <1>4, <1>5 DEF TextureInv, TargetFollows,
     TexelsAreTheLastWritten, Place, CurrentBackBuffer, StatesFitTheirUses

LEMMA UnlockReadbackKeeps ==
  ASSUME TextureInv, NEW s \in ReadBack, NEW written \in BOOLEAN, UnlockGpuReadback(s, written)
  PROVE  TextureInv'
<1>1. /\ readback' = readback \ {s} /\ misused' = {} /\ misread' = {}
      /\ promised' = IF written THEN [promised EXCEPT ![s] = Unknown] ELSE promised
      /\ UNCHANGED <<data, contents, recorded, behind, state, current_back_buffer,
                     bound_target, bound_texture, om_dirty, om_target, displaced, unflagged>>
  BY DEF UnlockGpuReadback, bindings, list
<1>2. /\ promised' \in [Surfaces -> Values \cup {Unknown}]
      /\ \A x \in Surfaces : promised'[x] \in {Unknown, promised[x]}
  BY <1>1 DEF TextureInv, TypeOK
<1>3. TypeOK'
  BY <1>1, <1>2 DEF TextureInv, TypeOK
<1>4. TexelsAreTheLastWritten'
  BY <1>1, <1>2 DEF TextureInv, TexelsAreTheLastWritten, Place, CurrentBackBuffer
<1>5. QED
  BY <1>1, <1>3, <1>4 DEF TextureInv, TargetFollows, ColorTarget, CurrentBackBuffer,
                          StatesFitTheirUses

-----------------------------------------------------------------------------
LEMMA SetTextureKeeps ==
  ASSUME TextureInv, NEW t, SetTexture(t)
  PROVE  TextureInv'
<1>1. /\ t \in Managed \cup Default \cup {None} /\ bound_texture' = t
      /\ misused' = {} /\ misread' = {}
      /\ UNCHANGED <<data, contents, recorded, promised, behind, state, readback,
                     current_back_buffer, bound_target, om_dirty, om_target, displaced, unflagged>>
  BY DEF SetTexture, texels, list
<1>2. QED
  BY <1>1 DEF TextureInv, TypeOK, TargetFollows, ColorTarget, CurrentBackBuffer,
              TexelsAreTheLastWritten, Place, StatesFitTheirUses

\* The old target is let go by every call with a colour surface.
LEMMA LetGoTypes == TypeOK => LetGo \in [OnGpu \cup {Ring} -> States]
  BY TransitionTypes DEF TypeOK, States, LetGo

\* A call that fails for its depth surface leaves the list to the target it was
\* drawing to, and says so; one that succeeds has it bound anew.
LEMMA SetRenderTargetKeeps ==
  ASSUME TextureInv, NEW t, NEW depth_accepted \in BOOLEAN, SetRenderTarget(t, depth_accepted)
  PROVE  TextureInv'
<1>1. /\ t \in Targets \cup {None} /\ bound_target' = t
      /\ misused' = {} /\ misread' = {} /\ displaced' = FALSE
      /\ om_dirty' = (om_dirty \/ depth_accepted) /\ unflagged' = (~depth_accepted /\ ~om_dirty)
      /\ state' = Transition(LetGo, TargetOf(t), "RENDER_TARGET")
      /\ UNCHANGED <<data, contents, recorded, promised, behind, readback,
                     current_back_buffer, bound_texture, om_target>>
  BY DEF SetRenderTarget, texels
<1>2. LetGo \in [OnGpu \cup {Ring} -> States]
  BY LetGoTypes DEF TextureInv
<1>3. state' \in [OnGpu \cup {Ring} -> States]
  BY <1>1, <1>2, TransitionTypes DEF States
<1>4. om_dirty' \in BOOLEAN /\ unflagged' \in BOOLEAN /\ (~om_dirty' => ~om_dirty /\ unflagged')
  BY <1>1 DEF TextureInv, TypeOK
<1>5. TypeOK'
  BY <1>1, <1>3, <1>4 DEF TextureInv, TypeOK
<1>6. TargetFollows'
  BY <1>1, <1>4 DEF TextureInv, TargetFollows
<1>7. TexelsAreTheLastWritten'
  BY <1>1 DEF TextureInv, TexelsAreTheLastWritten, Place, CurrentBackBuffer
<1>8. QED
  BY <1>1, <1>5, <1>6, <1>7 DEF TextureInv, StatesFitTheirUses

LEMMA SetRenderTargetRefusedKeeps ==
  ASSUME TextureInv, SetRenderTargetRefused
  PROVE  TextureInv'
<1>1. /\ state' = LetGo /\ displaced' = (displaced \/ bound_target # None)
      /\ misused' = {} /\ misread' = {}
      /\ UNCHANGED <<data, contents, recorded, promised, behind, readback, bound_target,
                     current_back_buffer, bound_texture, om_dirty, om_target, unflagged>>
  BY DEF SetRenderTargetRefused, texels, bindings
<1>2. state' \in [OnGpu \cup {Ring} -> States]
  BY <1>1, LetGoTypes DEF TextureInv
<1>3. TypeOK'
  BY <1>1, <1>2 DEF TextureInv, TypeOK
<1>4. bound_target = None => LetGo = state
  BY DEF LetGo, TargetOf, Transition, TextureInv, TypeOK
<1>5. TargetFollows'
  BY <1>1, <1>4 DEF TextureInv, TargetFollows, ColorTarget, CurrentBackBuffer
<1>6. QED
  BY <1>1, <1>3, <1>5 DEF TextureInv, TexelsAreTheLastWritten, Place, CurrentBackBuffer,
                          StatesFitTheirUses

LEMMA SetDepthTargetKeeps ==
  ASSUME TextureInv, SetDepthTarget
  PROVE  TextureInv'
<1>1. /\ om_dirty' = TRUE /\ unflagged' = FALSE /\ misused' = {} /\ misread' = {}
      /\ UNCHANGED <<data, contents, recorded, promised, behind, state, readback, bound_target,
                     current_back_buffer, bound_texture, om_target, displaced>>
  BY DEF SetDepthTarget, texels, bindings
<1>2. QED
  BY <1>1 DEF TextureInv, TypeOK, TargetFollows, TexelsAreTheLastWritten, Place,
              CurrentBackBuffer, StatesFitTheirUses

LEMMA BeginSceneKeeps ==
  ASSUME TextureInv, BeginScene
  PROVE  TextureInv'
<1>1. /\ state' = Transition(state, {ColorTarget}, "RENDER_TARGET")
      /\ om_target' = ColorTarget /\ om_dirty' = ~om_dirty
      /\ displaced' = FALSE /\ unflagged' = FALSE
      /\ misused' = {} /\ misread' = {}
      /\ UNCHANGED <<data, contents, recorded, promised, behind, readback,
                     current_back_buffer, bound_target, bound_texture, ColorTarget>>
  BY DEF BeginScene, texels, bindings, ColorTarget, CurrentBackBuffer
<1>2. ColorTarget \in OnGpu
  BY ColorTargets DEF TextureInv
<1>3. state' \in [OnGpu \cup {Ring} -> States] /\ state'[ColorTarget] = "RENDER_TARGET"
  BY ZenonT(60), <1>1, <1>2, TransitionTypes DEF TextureInv, TypeOK, States
<1>4. TypeOK'
  BY <1>1, <1>2, <1>3 DEF TextureInv, TypeOK
<1>5. TargetFollows'
  BY <1>1, <1>2, <1>3 DEF TargetFollows
<1>6. QED
  BY <1>1, <1>4, <1>5 DEF TextureInv, TexelsAreTheLastWritten, Place, CurrentBackBuffer,
                          StatesFitTheirUses

\* What is written to the target is promised of the surface the game knows it by.
LEMMA TargetWritesArePromised ==
  ASSUME TextureInv, NEW w \in Values \cup OnGpu, NEW v \in Values \cup {Unknown},
         v \in {Unknown, IF w \in OnGpu THEN recorded[w] ELSE w},
         Record([x \in {ColorTarget} |-> w]), Promise([x \in {TargetSurface} |-> v]),
         current_back_buffer' = current_back_buffer
  PROVE  /\ \A s \in Surfaces : promised'[s] \in {Unknown, recorded'[Place(s)']}
         /\ recorded' \in [OnGpu -> Values]
         /\ promised' \in [Surfaces -> Values \cup {Unknown}]
<1> DEFINE writes == [x \in {ColorTarget} |-> w]
           values == [x \in {TargetSurface} |-> v]
<1>1. /\ DOMAIN writes = {ColorTarget} /\ DOMAIN values = {TargetSurface}
      /\ writes[ColorTarget] = w /\ values[TargetSurface] = v
      /\ Record(writes) /\ Promise(values)
  OBVIOUS
<1>2. ColorTarget = Place(TargetSurface) /\ TargetSurface \in Surfaces
  BY ColorTargets DEF TextureInv
<1> HIDE DEF writes, values
<1>3. DOMAIN writes = {Place(s) : s \in DOMAIN values}
  BY <1>1, <1>2
<1>4. QED
  BY <1>1, <1>2, <1>3, WritesArePromised

LEMMA ClearKeeps ==
  ASSUME TextureInv, NEW v \in Values, Clear(v)
  PROVE  TextureInv'
<1>1. /\ state' = Transition(state, {ColorTarget}, "RENDER_TARGET")
      /\ displaced' = FALSE /\ misused' = {} /\ misread' = {}
      /\ Record([x \in {ColorTarget} |-> v]) /\ Promise([x \in {TargetSurface} |-> v])
      /\ UNCHANGED <<data, contents, behind, readback, om_dirty, om_target, unflagged,
                     current_back_buffer, bound_target, bound_texture, ColorTarget>>
  BY DEF Clear, bindings, ColorTarget, CurrentBackBuffer
<1>2. ColorTarget \in OnGpu
  BY ColorTargets DEF TextureInv
<1>3. state' \in [OnGpu \cup {Ring} -> States] /\ state'[ColorTarget] = "RENDER_TARGET"
  BY ZenonT(120), <1>1, <1>2, TransitionTypes DEF TextureInv, TypeOK, States
<1>4. /\ \A s \in Surfaces : promised'[s] \in {Unknown, recorded'[Place(s)']}
      /\ recorded' \in [OnGpu -> Values]
      /\ promised' \in [Surfaces -> Values \cup {Unknown}]
  BY <1>1, ValuesAssumption, TargetWritesArePromised
<1>5. TypeOK'
  BY <1>1, <1>3, <1>4 DEF TextureInv, TypeOK
<1>6. TargetFollows'
  BY <1>1, <1>3 DEF TextureInv, TargetFollows
<1>7. QED
  BY <1>1, <1>4, <1>5, <1>6 DEF TextureInv, TexelsAreTheLastWritten, Place, CurrentBackBuffer,
                                StatesFitTheirUses

\* What a draw covers is promised of the target the game has bound; of the two
\* targets between which a call has failed, nothing.
LEMMA DrawsArePromised ==
  ASSUME TextureInv, NEW from \in Values \cup OnGpu, Draw(from)
  PROVE  /\ \A s \in Surfaces : promised'[s] \in {Unknown, recorded'[Place(s)']}
         /\ recorded' \in [OnGpu -> Values]
         /\ promised' \in [Surfaces -> Values \cup {Unknown}]
<1>1. /\ from \in (IF bound_texture = None THEN Values ELSE Level(bound_texture))
      /\ om_target' = IF om_dirty THEN ColorTarget ELSE om_target
      /\ Record([x \in {om_target'} |-> from])
      /\ Promise(IF unflagged THEN [x \in Astray |-> Unknown]
                 ELSE [x \in {TargetSurface} |->
                         IF bound_texture = None THEN from ELSE promised[from]])
      /\ current_back_buffer' = current_back_buffer
  BY DEF Draw, bindings
<1>2. CASE unflagged
  <2>1. om_target' = om_target BY <1>1, <1>2 DEF TextureInv, TargetFollows
  <2>2. \A s \in Surfaces : promised'[s] = IF s \in Astray THEN Unknown ELSE promised[s]
    BY <1>1, <1>2 DEF Promise
  <2>3. \A g \in OnGpu : recorded'[g] = IF g # om_target THEN recorded[g]
                                       ELSE IF from \in OnGpu THEN recorded[from] ELSE from
    BY <1>1, <2>1 DEF Record
  <2>4. recorded' \in [OnGpu -> Values]
    <3>1. \A g \in OnGpu : recorded'[g] \in Values BY <2>3 DEF TextureInv, TypeOK
    <3>2. recorded' = [g \in OnGpu |-> recorded'[g]] BY <1>1 DEF Record
    <3> QED BY <3>1, <3>2
  <2>5. promised' \in [Surfaces -> Values \cup {Unknown}]
    BY <1>1, <1>2 DEF Promise, TextureInv, TypeOK
  <2>6. ASSUME NEW s \in Surfaces PROVE promised'[s] \in {Unknown, recorded'[Place(s)']}
    <3>0. Place(s)' = Place(s) BY <1>1 DEF Place, CurrentBackBuffer
    <3>1. CASE s \in Astray BY <2>2, <3>1
    <3>2. CASE s \notin Astray
      <4>1. Place(s) # om_target BY <3>2 DEF Astray
      <4>2. Place(s) \in OnGpu BY PlacesDiffer DEF TextureInv
      <4>3. promised[s] \in {Unknown, recorded[Place(s)]}
        BY DEF TextureInv, TexelsAreTheLastWritten
      <4> QED BY <2>2, <2>3, <3>0, <3>2, <4>1, <4>2, <4>3
    <3> QED BY <3>1, <3>2
  <2> QED BY <2>4, <2>5, <2>6
<1>3. CASE ~unflagged
  <2>0. om_target' = ColorTarget BY <1>1, <1>3 DEF TextureInv, TargetFollows, TypeOK
  <2>1. CASE bound_texture = None
    <3>1. from \in Values /\ from \notin OnGpu BY <1>1, <2>1, ValuesAssumption
    <3>2. Record([x \in {ColorTarget} |-> from]) /\ Promise([x \in {TargetSurface} |-> from])
      BY <1>1, <1>3, <2>0, <2>1
    <3>3. from \in Values \cup {Unknown}
          /\ from \in {Unknown, IF from \in OnGpu THEN recorded[from] ELSE from}
      BY <3>1
    <3>4. current_back_buffer' = current_back_buffer /\ from \in Values \cup OnGpu BY <1>1, <3>1
    <3> QED BY <3>2, <3>3, <3>4, TargetWritesArePromised
  <2>2. CASE bound_texture # None
    <3>1. from \in Subresources(Managed \cup Default)
      BY <1>1, <2>2, SubresourceParts DEF TextureInv, TypeOK
    <3>2. from \in Surfaces /\ from \in OnGpu /\ Place(from) = from
      BY <3>1, PlacesDiffer, ColorTargets DEF TextureInv
    <3>3. promised[from] \in {Unknown, recorded[from]} /\ promised[from] \in Values \cup {Unknown}
      BY <3>2 DEF TextureInv, TypeOK, TexelsAreTheLastWritten
    <3>4. /\ Record([x \in {ColorTarget} |-> from])
          /\ Promise([x \in {TargetSurface} |-> promised[from]])
      BY <1>1, <1>3, <2>0, <2>2
    <3>5. promised[from] \in {Unknown, IF from \in OnGpu THEN recorded[from] ELSE from}
      BY <3>2, <3>3
    <3>6. current_back_buffer' = current_back_buffer /\ from \in Values \cup OnGpu BY <1>1, <3>2
    <3>7. QED
      BY <3>3, <3>4, <3>5, <3>6, TargetWritesArePromised
  <2>3. QED
    BY <2>1, <2>2
<1>4. QED
  BY <1>2, <1>3

\* A draw finds the target of the list ready to be drawn to, unless it was
\* displaced or a call that failed has bound another; and nothing it samples is
\* the target.
LEMMA DrawKeeps ==
  ASSUME TextureInv, NEW from \in Values \cup OnGpu, Draw(from)
  PROVE  TextureInv'
<1> DEFINE levels == Bound(bound_texture)
           ring == Transition(state, {Ring}, "BUFFER")
           begun == IF om_dirty THEN Transition(ring, {ColorTarget}, "RENDER_TARGET") ELSE ring
           drawing == Transition(begun, levels, "PIXEL_SHADER_RESOURCE")
<1>1. /\ from \in (IF bound_texture = None THEN Values ELSE Level(bound_texture))
      /\ bound_texture = None \/ bound_texture # bound_target
      /\ om_target' = IF om_dirty THEN ColorTarget ELSE om_target
      /\ om_dirty' = FALSE /\ misread' = {} /\ displaced' = (displaced /\ ~om_dirty)
      /\ state' = drawing
      /\ misused' = Misfits(drawing, {Ring}, "BUFFER")
                    \cup Misfits(drawing, {om_target'}, "RENDER_TARGET")
                    \cup Misfits(drawing, levels, "PIXEL_SHADER_RESOURCE")
      /\ UNCHANGED <<data, contents, behind, readback, current_back_buffer,
                     bound_target, bound_texture, unflagged, ColorTarget>>
  BY DEF Draw, bindings, ColorTarget, CurrentBackBuffer
<1>2. /\ om_target' \in OnGpu /\ om_dirty \in BOOLEAN /\ (unflagged => ~om_dirty)
      /\ ~unflagged => om_target' = ColorTarget
  BY <1>1, ColorTargets DEF TextureInv, TypeOK, TargetFollows
<1>3. /\ ColorTarget \in OnGpu /\ ColorTarget \notin levels /\ ColorTarget # Ring
      /\ levels \subseteq OnGpu /\ Ring \notin levels
  <2>1. ColorTarget \in OnGpu /\ Ring \notin OnGpu
    BY ColorTargets, ResourcesDiffer DEF TextureInv
  <2>2. CASE bound_texture = None
    BY <2>1, <2>2 DEF Bound
  <2>3. CASE bound_texture # None
    <3>1. bound_texture \in Managed \cup Default
      BY <2>3 DEF TextureInv, TypeOK
    <3>2. levels \subseteq Subresources(Managed \cup Default)
      BY <2>3, <3>1, SubresourceParts DEF Bound
    <3>3. \A s \in levels : s[1] = bound_texture
      BY <2>3 DEF Bound, Level
    <3>4. bound_target # None => ColorTarget[1] = bound_target
      BY ColorTargets DEF TextureInv
    <3>5. bound_target = None => ColorTarget \notin levels
      BY <3>2, ColorTargets, ResourcesDiffer DEF TextureInv
    <3>6. QED
      BY <1>1, <2>1, <2>3, <3>2, <3>3, <3>4, <3>5 DEF OnGpu
  <2>4. QED
    BY <2>2, <2>3
<1>4. /\ drawing \in [OnGpu \cup {Ring} -> States]
      /\ drawing[Ring] = "BUFFER"
      /\ \A s \in levels : drawing[s] = "PIXEL_SHADER_RESOURCE"
      /\ drawing[ColorTarget] = IF om_dirty THEN "RENDER_TARGET" ELSE state[ColorTarget]
  <2>1. ring \in [OnGpu \cup {Ring} -> States]
    BY TransitionTypes DEF TextureInv, TypeOK, States
  <2>2. ring[Ring] = "BUFFER" /\ ring[ColorTarget] = state[ColorTarget]
    BY <1>3 DEF Transition, TextureInv, TypeOK
  <2> HIDE DEF ring
  <2>3. begun \in [OnGpu \cup {Ring} -> States]
    BY <2>1, TransitionTypes DEF States
  <2>4. /\ begun[Ring] = "BUFFER"
        /\ begun[ColorTarget] = IF om_dirty THEN "RENDER_TARGET" ELSE state[ColorTarget]
    BY <1>3, <2>1, <2>2 DEF Transition
  <2> HIDE DEF begun
  <2>5. drawing \in [OnGpu \cup {Ring} -> States]
    BY <2>3, TransitionTypes DEF States
  <2>6. QED
    BY <1>3, <2>3, <2>4, <2>5 DEF Transition
<1>5. /\ \A s \in Surfaces : promised'[s] \in {Unknown, recorded'[Place(s)']}
      /\ recorded' \in [OnGpu -> Values]
      /\ promised' \in [Surfaces -> Values \cup {Unknown}]
  BY DrawsArePromised
<1> HIDE DEF levels, drawing
<1>6. misused' \subseteq {om_target'}
  BY <1>1, <1>4 DEF Misfits
<1>7. ~displaced' /\ ~unflagged' => drawing[om_target'] = "RENDER_TARGET"
  BY <1>1, <1>2, <1>4 DEF TextureInv, TargetFollows
<1>8. StatesFitTheirUses'
  <2>1. CASE displaced' \/ unflagged'
    BY <1>6, <2>1 DEF StatesFitTheirUses
  <2>2. CASE ~displaced' /\ ~unflagged'
    <3>1. drawing[om_target'] = "RENDER_TARGET" BY <1>7, <2>2
    <3>2. misused' = {} BY <1>1, <1>4, <3>1 DEF Misfits
    <3> QED BY <3>2 DEF StatesFitTheirUses
  <2>3. QED
    BY <2>1, <2>2
<1>9. displaced' => bound_target # None
  BY <1>1 DEF TextureInv, TargetFollows
<1>10. TargetFollows'
  BY <1>1, <1>2, <1>7, <1>9 DEF TargetFollows
<1>11. TypeOK'
  BY <1>1, <1>2, <1>3, <1>4, <1>5 DEF TextureInv, TypeOK
<1>12. QED
  BY <1>1, <1>5, <1>8, <1>10, <1>11
     DEF TextureInv, TexelsAreTheLastWritten, Place, CurrentBackBuffer

LEMMA PresentKeeps ==
  ASSUME TextureInv, Present
  PROVE  TextureInv'
<1>1. /\ state' = Transition(state, {CurrentBackBuffer}, "COMMON") /\ contents' = recorded
      /\ om_dirty' = TRUE /\ om_target' = None /\ unflagged' = FALSE
      /\ misused' = {} /\ misread' = {}
      /\ current_back_buffer' = (current_back_buffer + 1) % NumBackBuffers
      /\ Promise([x \in {BackBuffer(0)} |-> Unknown])
      /\ UNCHANGED <<data, recorded, behind, readback, bound_target, bound_texture, displaced>>
  BY DEF Present, SubmitAndWait
<1>2. current_back_buffer' \in 0 .. NumBackBuffers - 1
  BY <1>1, NumBackBuffersAssumption DEF TextureInv, TypeOK
<1>3. \A s \in Surfaces : promised'[s] = IF s = BackBuffer(0) THEN Unknown ELSE promised[s]
  BY <1>1 DEF Promise
<1>4. promised' \in [Surfaces -> Values \cup {Unknown}]
  BY <1>1 DEF Promise, TextureInv, TypeOK
<1>5. state' \in [OnGpu \cup {Ring} -> States]
  BY <1>1, TransitionTypes DEF TextureInv, TypeOK, States
<1>6. TypeOK'
  BY <1>1, <1>2, <1>4, <1>5 DEF TextureInv, TypeOK
<1>7. TexelsAreTheLastWritten'
  BY <1>1, <1>3 DEF TextureInv, TexelsAreTheLastWritten, Place
<1>8. QED
  BY <1>1, <1>6, <1>7 DEF TextureInv, TargetFollows, StatesFitTheirUses

-----------------------------------------------------------------------------
LEMMA InitTextures == Init => TextureInv
<1> SUFFICES ASSUME NEW blank \in Values,
       /\ data = [s \in InMemory |-> blank] /\ contents = [s \in OnGpu |-> blank]
       /\ promised = [s \in Surfaces |-> IF s = BackBuffer(0) THEN Unknown ELSE blank]
       /\ recorded = contents /\ state = [s \in OnGpu \cup {Ring} |-> "COMMON"]
       /\ readback = {} /\ current_back_buffer = 0 /\ bound_target = None
       /\ bound_texture = None /\ om_dirty = TRUE /\ om_target = None /\ behind = {}
       /\ displaced = FALSE /\ unflagged = FALSE /\ misused = {} /\ misread = {}
     PROVE TextureInv
  BY DEF Init
<1>1. TypeOK
  <2>1. data \in [InMemory -> Values] /\ recorded \in [OnGpu -> Values]
    OBVIOUS
  <2>2. promised \in [Surfaces -> Values \cup {Unknown}]
    OBVIOUS
  <2>3. state \in [OnGpu \cup {Ring} -> States]
    BY DEF States
  <2>4. current_back_buffer \in 0 .. NumBackBuffers - 1
    BY NumBackBuffersAssumption
  <2>5. QED
    BY <2>1, <2>2, <2>3, <2>4 DEF TypeOK
<1>2. \A s \in Surfaces : s # BackBuffer(0) => s \in OnGpu
  BY SMTT(120), <1>1, ColorTargets DEF OnGpu
<1>3. QED
  BY <1>1, <1>2 DEF TextureInv, TargetFollows, TexelsAreTheLastWritten, Place, StatesFitTheirUses

LEMMA TexturesInductive == TextureInv /\ [Next]_vars => TextureInv'
<1> SUFFICES ASSUME TextureInv, [Next]_vars PROVE TextureInv'
  OBVIOUS
<1>1. CASE UNCHANGED vars
  BY <1>1 DEF vars, texels, bindings, list, TextureInv, TypeOK, TargetFollows,
     TexelsAreTheLastWritten, Place, StatesFitTheirUses, ColorTarget, CurrentBackBuffer
<1>2. QED
  BY <1>1, LockKeeps, UnlockKeeps, UpdateKeeps, ReadbackKeeps, UnlockReadbackKeeps,
     CopyFromMemoryKeeps, CopyKeeps, SetTextureKeeps, SetRenderTargetKeeps,
     SetRenderTargetRefusedKeeps, SetDepthTargetKeeps, BeginSceneKeeps, ClearKeeps, DrawKeeps, PresentKeeps DEF Next

\* Texels, resource states and the list's target have the values the rest of
\* the argument computes with.
THEOREM TextureTypes == Spec => []TypeOK
  BY InitTextures, TexturesInductive, PTL DEF Spec, TextureInv

\* Once the open list has executed, every surface holds what the game wrote into
\* it last, and a lock of a resource shows it: memory is copied at the call,
\* draws and copies read what was recorded before them, and a draw never goes
\* to a target bound earlier, unless the call that bound the new one failed for
\* its depth surface (CpuTexture::CopySubresourceToGpuTexture,
\* Device::CopyRects, UpdateTexture, PrepareDrawCall, LockGpuReadback).
THEOREM TextureTexels == Spec => []TexelsAreTheLastWritten
  BY InitTextures, TexturesInductive, PTL DEF Spec, TextureInv

\* Every draw and copy finds the ring, its textures and its target in the state
\* it needs, as tracked by TransitionTexture (Device::TransitionTexture,
\* TransitionDynamicRingBuffer, SetRenderTarget), except a target that was copied
\* to while it was bound, or that a SetRenderTarget which failed has let go: until
\* it is bound anew, cleared or another one set, a draw may find it in COMMON.
THEOREM TextureStates == Spec => []StatesFitTheirUses
  BY InitTextures, TexturesInductive, PTL DEF Spec, TextureInv
=============================================================================
