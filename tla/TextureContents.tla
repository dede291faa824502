---------------------------- MODULE TextureContents ----------------------------
(***************************************************************************)
(* The texels of textures and surfaces: what the game writes by locks,     *)
(* copies, updates and draws, against what the resources hold once the     *)
(* commands recorded for it have executed.  A SYSTEMMEM texture is memory; *)
(* a MANAGED one is memory and a resource, uploaded at every unlock; a     *)
(* DEFAULT one is a resource, read by a copy, a flush and a wait.  Memory  *)
(* is written at once, a resource in the order of the list, and a command  *)
(* needs each resource in one state, which the code tracks for every       *)
(* subresource and for the upload ring as a whole.                         *)
(*                                                                         *)
(* A subresource holds one value: rectangles, pitches and formats are in   *)
(* TextureFormats.  The scene target is closed (ScenePass has it open),    *)
(* and no surface is copied onto itself.                                   *)
(***************************************************************************)
EXTENDS Integers

CONSTANTS System, Managed, Default,  \* textures by pool
          Targets,                   \* those of Default made as render targets
          Levels,                    \* how many levels each texture has
          Recoded,                   \* textures whose format is not the others'
          Values, None,
          NumBackBuffers,
          MaxCalls                   \* bound of the model

\* The textures of the swap chain: the game is given a surface of the first.
Back == "back buffer"
BackBuffer(i) == <<Back, i>>
BackBuffers == {BackBuffer(i) : i \in 0 .. NumBackBuffers - 1}

Level(t) == {t} \X (0 .. Levels[t] - 1)
Subresources(pool) == UNION {Level(t) : t \in pool}
InMemory == Subresources(System \cup Managed)
OnGpu == Subresources(Managed \cup Default) \cup BackBuffers
Surfaces == Subresources(Managed \cup Default) \cup {BackBuffer(0)}
ReadBack == Subresources(Default) \cup {BackBuffer(0)}

Ring == <<"upload ring", 0>>
States == {"COMMON", "RENDER_TARGET", "COPY_SOURCE", "COPY_DEST",
           "ALL_SHADER_RESOURCE", "PIXEL_SHADER_RESOURCE", "BUFFER"}
Unknown == "unknown"

\* Only the textures of DEFAULT can be render targets; every texture has a level.
ASSUME TexturesAssumption ==
  /\ Targets \subseteq Default
  /\ Levels \in [System \cup Managed \cup Default -> Nat \ {0}]
  /\ \A t \in Managed \cup Default : t \notin {None, Back, Ring[1]}
ASSUME ValuesAssumption == Values \cap OnGpu = {}
ASSUME NumBackBuffersAssumption == NumBackBuffers \in Nat \ {0}

VARIABLES
  data,         \* CpuTexture::data_
  contents,     \* what the resources hold, submitted commands executed
  recorded,     \* what they will hold once the open list has executed too
  state,        \* subresource_states_, and the ring's current_state_
  readback,     \* the surfaces with a readback_resource_
  current_back_buffer,
  bound_target, bound_texture,
  om_dirty,     \* DIRTY_FLAG_OM
  om_target,    \* the target bound in the open list
  promised,     \* what the game may expect of its surfaces
  behind,       \* MANAGED subresources written as resources, not in memory
  displaced,    \* the target has been copied to, or let go by a call that
                \*   failed, since it was last put in the state for drawing
  unflagged,    \* a call that failed has bound it without telling the list
  misused, misread,  \* the last step: used in the wrong state, read wrong
  calls

texels == <<data, contents, recorded, promised, behind>>
bindings == <<current_back_buffer, bound_target, bound_texture>>
list == <<om_dirty, om_target, displaced, unflagged>>
vars == <<texels, state, readback, bindings, list, misused, misread, calls>>

TypeOK ==
  /\ data \in [InMemory -> Values]
  /\ contents \in [OnGpu -> Values] /\ recorded \in [OnGpu -> Values]
  /\ state \in [OnGpu \cup {Ring} -> States]
  /\ readback \subseteq ReadBack
  /\ current_back_buffer \in 0 .. NumBackBuffers - 1
  /\ bound_target \in Targets \cup {None}
  /\ bound_texture \in Managed \cup Default \cup {None}
  /\ om_target \in OnGpu \cup {None}
  /\ promised \in [Surfaces -> Values \cup {Unknown}]
  /\ behind \subseteq Subresources(Managed)
  /\ {om_dirty, displaced, unflagged} \subseteq BOOLEAN

\* Nothing written yet.  The game may expect nothing of a back buffer before a
\* frame is drawn.
Init ==
  \E blank \in Values :
    /\ data = [s \in InMemory |-> blank]
    /\ contents = [s \in OnGpu |-> blank]
    /\ promised = [s \in Surfaces |-> IF s = BackBuffer(0) THEN Unknown ELSE blank]
    /\ recorded = contents
    /\ state = [s \in OnGpu \cup {Ring} |-> "COMMON"]
    /\ readback = {}
    /\ current_back_buffer = 0
    /\ bound_target = None /\ bound_texture = None
    /\ om_dirty = TRUE /\ om_target = None
    /\ behind = {} /\ displaced = FALSE /\ unflagged = FALSE
    /\ misused = {} /\ misread = {}
    /\ calls = 0

-----------------------------------------------------------------------------
\* A command writes subresources with values, or with what others hold when it
\* executes; commands execute in the order of the list.
Record(writes) ==
  recorded' = [s \in OnGpu |-> IF s \notin DOMAIN writes THEN recorded[s]
                               ELSE IF writes[s] \in OnGpu THEN recorded[writes[s]] ELSE writes[s]]

\* TransitionTexture and TransitionDynamicRingBuffer, which also skip what is in
\* the state already; and what a command finds in another state than it needs.
Transition(st, subs, after) == [s \in DOMAIN st |-> IF s \in subs THEN after ELSE st[s]]
Misfits(st, subs, needed) == {s \in subs : st[s] # needed}

Call == /\ calls < MaxCalls
        /\ calls' = calls + 1

\* What the game may expect to get out of a surface: the first back buffer holds
\* the frame only while it is the current one.
CurrentBackBuffer == BackBuffer(current_back_buffer)
Expected(s) == IF s = BackBuffer(0) /\ s # CurrentBackBuffer THEN Unknown ELSE promised[s]
Promise(values) ==
  promised' = [s \in Surfaces |-> IF s \in DOMAIN values THEN values[s] ELSE promised[s]]

\* What is recorded executes before the call returns; the new list has nothing
\* bound, and every binding of resources is made again.
SubmitAndWait ==
  /\ contents' = recorded
  /\ UNCHANGED recorded
  /\ om_dirty' = TRUE
  /\ om_target' = None
  /\ unflagged' = FALSE

-----------------------------------------------------------------------------
\* LockRect of a SYSTEMMEM or MANAGED level gives out its memory: a lock, and
\* what the game writes under it.
LockRect(s, v) ==
  /\ Call
  /\ s \in InMemory
  /\ data' = [data EXCEPT ![s] = v]
  /\ behind' = behind \ {s}
  /\ misused' = {} /\ misread' = {}
  /\ UNCHANGED <<contents, recorded, promised, state, readback, bindings, list>>

\* What a copy into s does to the target: one that is bound is not looked at again.
Overwrites(subs) == displaced \/ (bound_target # None /\ <<bound_target, 0>> \in subs)

\* The levels of a texture in memory go through the ring, as they are at the call.
Uploads(sources) ==
  LET subs == DOMAIN sources
      before == Transition(state, subs, "COPY_DEST")
      copying == Transition(before, {Ring}, "COPY_SOURCE")
  IN /\ Record(sources)
     /\ state' = Transition(copying, subs, "ALL_SHADER_RESOURCE")
     /\ misused' = Misfits(copying, subs, "COPY_DEST") \cup Misfits(copying, {Ring}, "COPY_SOURCE")
     /\ displaced' = Overwrites(subs)

\* UnlockRect uploads the level whether or not it was locked or written: what a
\* copy has put into the resource meanwhile is lost.
UnlockRect(s) ==
  /\ Call
  /\ s \in Subresources(Managed)
  /\ Uploads([x \in {s} |-> data[s]])
  /\ Promise([x \in {s} |-> IF s \in behind THEN Unknown ELSE data[s]])
  /\ behind' = behind \ {s}
  /\ misread' = {}
  /\ UNCHANGED <<data, contents, readback, bindings, om_dirty, om_target, unflagged>>

UpdateTexture(source, dest) ==
  /\ Call
  /\ source \in System /\ dest \in Managed \cup Default
  /\ Levels[source] = Levels[dest]
  /\ LET levels == [t \in Level(dest) |-> data[<<source, t[2]>>]]
     IN Uploads(levels) /\ Promise(levels)
  /\ behind' = behind \cup (Level(dest) \cap Subresources(Managed))
  /\ misread' = {}
  /\ UNCHANGED <<data, contents, readback, bindings, om_dirty, om_target, unflagged>>

\* LockRect of a DEFAULT surface or of the back buffer: a copy into a buffer, the
\* state restored, and everything recorded executed before the copy is shown.
LockGpuReadbackUnwaited(s) ==  \* fault: shown before it is executed
  /\ Call
  /\ s \in ReadBack \ readback
  /\ readback' = readback \cup {s}
  /\ misused' = {}
  /\ misread' = IF Expected(s) \in {contents[s], Unknown} THEN {} ELSE {s}
  /\ UNCHANGED <<texels, state, bindings, list>>

LockGpuReadback(s) ==
  /\ Call
  /\ s \in ReadBack \ readback
  /\ readback' = readback \cup {s}
  /\ SubmitAndWait
  /\ misused' = {}
  /\ misread' = IF Expected(s) \in {contents'[s], Unknown} THEN {} ELSE {s}
  /\ UNCHANGED <<data, promised, behind, state, bindings, displaced>>

\* What the game has written under the lock is dropped.
UnlockGpuReadback(s, written) ==
  /\ Call
  /\ s \in readback
  /\ readback' = readback \ {s}
  /\ promised' = IF written THEN [promised EXCEPT ![s] = Unknown] ELSE promised
  /\ misused' = {} /\ misread' = {}
  /\ UNCHANGED <<data, contents, recorded, behind, state, bindings, list>>

-----------------------------------------------------------------------------
\* CopyRects out of memory: one rectangle through the ring.
CopyFromMemory(source, dest) ==
  /\ Call
  /\ source \in Subresources(System) /\ dest \in Subresources(Managed \cup Default)
  /\ Uploads([x \in {dest} |-> data[source]])
  /\ Promise([x \in {dest} |-> data[source]])
  /\ behind' = behind \cup ({dest} \cap Subresources(Managed))
  /\ misread' = {}
  /\ UNCHANGED <<data, contents, readback, bindings, om_dirty, om_target, unflagged>>

\* CopyRects between resources.  Of two formats, it goes through the ring, written
\* by one command and read by the next; the source and the ring are given back
\* the states they had.
NeedsStaging(source, dest) == (source[1] \in Recoded) # (dest[1] \in Recoded)
GivenBack(st, source, dest) ==
  Transition(Transition(st, {source}, state[source]), {dest}, "ALL_SHADER_RESOURCE")
CopyRectsUnrestored(source, dest) ==  \* fault: the source stays in COPY_SOURCE
  /\ Call
  /\ source \in Surfaces
  /\ dest \in Subresources(Managed \cup Default) \ {source}
  /\ Record([x \in {dest} |-> source])
  /\ misused' = {} /\ misread' = {}
  /\ state' = Transition(Transition(state, {source}, "COPY_SOURCE"), {dest}, "ALL_SHADER_RESOURCE")
  /\ Promise([x \in {dest} |-> Expected(source)])
  /\ behind' = behind \cup ({dest} \cap Subresources(Managed))
  /\ displaced' = Overwrites({dest})
  /\ UNCHANGED <<data, contents, readback, bindings, om_dirty, om_target, unflagged>>

CopyRects(source, dest) ==
  /\ Call
  /\ source \in Surfaces
  /\ dest \in Subresources(Managed \cup Default) \ {source}
  /\ LET copying == Transition(Transition(state, {source}, "COPY_SOURCE"), {dest}, "COPY_DEST")
         staged == Transition(copying, {Ring}, "COPY_DEST")
     IN /\ Record([x \in {dest} |-> source])
        /\ misused' = Misfits(copying, {source}, "COPY_SOURCE") \cup Misfits(copying, {dest}, "COPY_DEST")
                      \cup IF NeedsStaging(source, dest) THEN Misfits(staged, {Ring}, "COPY_DEST") ELSE {}
        /\ state' = GivenBack(copying, source, dest)
  /\ Promise([x \in {dest} |-> Expected(source)])
  /\ behind' = behind \cup ({dest} \cap Subresources(Managed))
  /\ displaced' = Overwrites({dest})
  /\ misread' = {}
  /\ UNCHANGED <<data, contents, readback, bindings, om_dirty, om_target, unflagged>>

-----------------------------------------------------------------------------
\* Binding and drawing.
SetTexture(t) ==
  /\ Call
  /\ t \in (Managed \cup Default \cup {None}) \ {bound_texture}
  /\ bound_texture' = t
  /\ misused' = {} /\ misread' = {}
  /\ UNCHANGED <<texels, state, readback, current_back_buffer, bound_target, list>>

\* SetRenderTarget: the old target is let go and t bound; then the depth surface
\* is looked at, and one in memory fails the call before it flags anything.
TargetOf(t) == IF t = None THEN {} ELSE {<<t, 0>>}
LetGo == Transition(state, TargetOf(bound_target), "COMMON")
SetRenderTargetUnflagged(t, depth_accepted) ==  \* fault: the next draw does not bind it
  /\ Call
  /\ t \in Targets \cup {None}
  /\ state' = Transition(LetGo, TargetOf(t), "RENDER_TARGET")
  /\ bound_target' = t
  /\ unflagged' = (~depth_accepted /\ ~om_dirty)
  /\ displaced' = FALSE
  /\ misused' = {} /\ misread' = {}
  /\ UNCHANGED <<texels, readback, current_back_buffer, bound_texture, om_dirty, om_target>>

SetRenderTarget(t, depth_accepted) ==
  /\ Call
  /\ t \in Targets \cup {None}
  /\ state' = Transition(LetGo, TargetOf(t), "RENDER_TARGET")
  /\ bound_target' = t
  /\ om_dirty' = (om_dirty \/ depth_accepted)
  /\ unflagged' = (~depth_accepted /\ ~om_dirty)
  /\ displaced' = FALSE
  /\ misused' = {} /\ misread' = {}
  /\ UNCHANGED <<texels, readback, current_back_buffer, bound_texture, om_target>>

\* The old target is let go before the new one is looked at: a surface in memory
\* fails the call, and the old target is still the one that is bound.
SetRenderTargetRefused ==
  /\ Call
  /\ state' = LetGo
  /\ displaced' = (displaced \/ bound_target # None)
  /\ misused' = {} /\ misread' = {}
  /\ UNCHANGED <<texels, readback, bindings, om_dirty, om_target, unflagged>>

\* With no colour surface the target stays, and is bound anew with the depth's.
SetDepthTarget ==
  /\ Call
  /\ om_dirty' = TRUE
  /\ unflagged' = FALSE
  /\ misused' = {} /\ misread' = {}
  /\ UNCHANGED <<texels, state, readback, bindings, om_target, displaced>>

\* CurrentColorTarget, and the surface the game knows it by.
ColorTarget == IF bound_target = None THEN CurrentBackBuffer ELSE <<bound_target, 0>>
TargetSurface == IF bound_target = None THEN BackBuffer(0) ELSE <<bound_target, 0>>

\* Where the texels of a surface are.
Place(s) == IF s = BackBuffer(0) THEN CurrentBackBuffer ELSE s

\* BeginScene binds the target, and toggles the flag that asks for it.
BeginScene ==
  /\ Call
  /\ state' = Transition(state, {ColorTarget}, "RENDER_TARGET")
  /\ om_target' = ColorTarget
  /\ om_dirty' = ~om_dirty
  /\ displaced' = FALSE /\ unflagged' = FALSE
  /\ misused' = {} /\ misread' = {}
  /\ UNCHANGED <<texels, readback, bindings>>

Clear(v) ==
  /\ Call
  /\ state' = Transition(state, {ColorTarget}, "RENDER_TARGET")
  /\ Record([x \in {ColorTarget} |-> v])
  /\ Promise([x \in {TargetSurface} |-> v])
  /\ displaced' = FALSE
  /\ misused' = {} /\ misread' = {}
  /\ UNCHANGED <<data, contents, behind, readback, bindings, om_dirty, om_target, unflagged>>

\* A draw covers its target with a level of its texture or, without one, with a
\* colour.  The game does not sample the target it draws to.  What it may expect
\* of the two targets after a call that failed between them is open.
Bound(t) == IF t = None THEN {} ELSE Level(t)
Astray == {s \in Surfaces : Place(s) \in {om_target, ColorTarget}}
Draw(from) ==
  /\ Call
  /\ from \in (IF bound_texture = None THEN Values ELSE Level(bound_texture))
  /\ bound_texture = None \/ bound_texture # bound_target
  /\ om_target' = IF om_dirty THEN ColorTarget ELSE om_target
  /\ om_dirty' = FALSE
  /\ LET ring == Transition(state, {Ring}, "BUFFER")
         begun == IF om_dirty THEN Transition(ring, {ColorTarget}, "RENDER_TARGET") ELSE ring
         drawing == Transition(begun, Bound(bound_texture), "PIXEL_SHADER_RESOURCE")
     IN /\ state' = drawing
        /\ misused' = Misfits(drawing, {Ring}, "BUFFER")
                      \cup Misfits(drawing, {om_target'}, "RENDER_TARGET")
                      \cup Misfits(drawing, Bound(bound_texture), "PIXEL_SHADER_RESOURCE")
  /\ Record([x \in {om_target'} |-> from])
  /\ Promise(IF unflagged THEN [x \in Astray |-> Unknown]
             ELSE [x \in {TargetSurface} |-> IF bound_texture = None THEN from ELSE promised[from]])
  /\ displaced' = (displaced /\ ~om_dirty)
  /\ misread' = {}
  /\ UNCHANGED <<data, contents, behind, readback, bindings, unflagged>>

\* The next frame is drawn to the next back buffer, which holds an older one.
Present ==
  /\ Call
  /\ state' = Transition(state, {CurrentBackBuffer}, "COMMON")
  /\ SubmitAndWait
  /\ current_back_buffer' = (current_back_buffer + 1) % NumBackBuffers
  /\ Promise([x \in {BackBuffer(0)} |-> Unknown])
  /\ misused' = {} /\ misread' = {}
  /\ UNCHANGED <<data, behind, readback, bound_target, bound_texture, displaced>>

-----------------------------------------------------------------------------
Next ==
  \/ \E s \in InMemory : \E v \in Values : LockRect(s, v)
  \/ \E s \in InMemory : UnlockRect(s)
  \/ \E source \in System, dest \in Managed \cup Default : UpdateTexture(source, dest)
  \/ \E s \in ReadBack : LockGpuReadback(s)
  \/ \E s \in ReadBack, written \in BOOLEAN : UnlockGpuReadback(s, written)
  \/ \E source \in InMemory, dest \in OnGpu : CopyFromMemory(source, dest)
  \/ \E source, dest \in Surfaces : CopyRects(source, dest)
  \/ \E t \in Managed \cup Default \cup {None} : SetTexture(t)
  \/ \E t \in Default \cup {None}, depth_accepted \in BOOLEAN : SetRenderTarget(t, depth_accepted)
  \/ SetRenderTargetRefused
  \/ SetDepthTarget
  \/ BeginScene
  \/ \E v \in Values : Clear(v)
  \/ \E from \in Values \cup OnGpu : Draw(from)
  \/ Present

Spec == Init /\ [][Next]_vars

-----------------------------------------------------------------------------
\* Once what is recorded has executed, every surface holds what the game wrote
\* into it last, by whatever way, and a lock of a resource shows it: a level is
\* uploaded as it is at the call, a draw samples what was written before it
\* though both are only recorded, and it covers the target bound last.  Not
\* promised: a MANAGED level unlocked after a copy into it, writes under a
\* readback lock, what is read out of the first back buffer while another is
\* drawn to, and what a draw covers after a SetRenderTarget that failed for its
\* depth surface, which binds the new target while the list draws to the old.
TexelsAreTheLastWritten ==
  /\ misread = {}
  /\ \A s \in Surfaces : promised[s] \in {Unknown, recorded[Place(s)]}

\* A command finds every texture, target and the ring in the state it needs,
\* unless it is the target of a draw that was copied to while it was bound, or
\* that a SetRenderTarget which failed has left in COMMON, still bound (in the
\* list, if it failed for its depth surface).
StatesFitTheirUses ==
  misused \subseteq IF displaced \/ unflagged THEN {om_target} ELSE {}
=============================================================================
