# Dx8to12: a verification project

Dx8to12 is a Direct3D 8 runtime implemented on Direct3D 12: a `d3d8.dll` a
32-bit game loads instead of the system's. Most of it is translation, but its
core is a hand-made memory manager: the game may overwrite, release or relock
anything at any time, while the GPU executes what was recorded one or two
frames earlier. Around that core sit two helper processes (an upscaler and a
ray tracer, both 64-bit), which share textures and fences with the game and may
be late, fail or die.

The modules here are translated from the code under `src/`. TLC checks them on
small instances; TLAPS proves, for every value of their constants, the
invariants of the upload ring, of the frame lifecycle, of dynamic and shadowed
buffers, of textures, of the scene pass, of the draw state and state blocks, of
the shader caches and of the exchange with the upscaling helper, and, of the
parts that only translate, the tables of dirty flags, the texture stages and the
draw calls.

## 1. The system

| component | source | state | operations | talks to |
|---|---|---|---|---|
| upload ring | `src/dynamic_ring_buffer.*` | `head_`, `tail_`, `frame_heads_`, `current_frame_` | Allocate, HasCompletedFrame, SetCurrentFrame | every draw, buffer and texture upload; told of fences by the device |
| descriptor heaps | `src/pool_heap.*` | free list, slots parked per frame | Allocate, Free, ReleaseCompleted | views of textures |
| frame lifecycle | `src/device.cpp` | one command list, an allocator and a fence value per back buffer, keep-alive lists | Present, SubmitAndWait, WaitForFrame, FreeFrameResources, WaitForGpuIdle, Reset | all of them |
| reference counts | `src/util.h`, `src/device.h` | external and internal count per object, generation stamps | AddRef, Release, MarkResourceAsUsed | draws, bindings, the game |
| buffers | `src/buffer.*`, `src/utils/range_set.h` | own resource, speculative cache, ring allocation, written ranges; or a CPU shadow | Lock, Unlock, GetGpuPtr, PersistDynamicChanges, FlushShadowToResource | ring, draws, the persist loop of SubmitAndWait |
| textures, surfaces | `src/texture.*`, `src/surface.*` | resource states, views, CPU copies | LockRect, UpdateTexture, CopyRects, readback | ring, heaps, frame lifecycle (a readback flushes) |
| draws and state tracking | `src/device.*` | dirty flags, bound objects, PSO cache, draw-state cache | Set*, Draw*, PrepareDrawCall | all objects |
| state blocks | `src/device.cpp` | recorded deltas, captured states | Begin/End/Apply/Capture | state tracking |
| scene pass | `src/device.cpp` | `scene_pass_active_`, `frame_had_3d_draw_`, jitter, motion vectors | EndScenePassIfDrawIsUi, ResolveScenePass | upscaler client |
| upscaler client | `src/dlss_client.*`, RunDlaaExchange | session flags, frame index, time-outs, shared memory | Start, PollReady, SubmitFrame, AcquirePreviousResult, Stop | upscaler helper: two fences, four textures per slot, one struct |
| upscaler helper | `dlaa_helper/dlaa_helper_main.cpp` | `processed`, one allocator, its queue | the frame loop | upscaler client, Streamline |
| shader caches | `src/device.cpp`, `src/vertex_shader.*` | vertex shaders by handle, generated pixel shaders by stage states, pipeline states by shader identities | CreateVertexShader, SetVertexShader, OnLightingModeChanged, GetPixelShader | draws, mods' injection callbacks |
| translation | `src/shader_parser.cpp`, `src/ff_pixel_shader.cpp`, `src/utils/dx_utils.cpp` and others | none | from declarations, programs, stage states, formats, draw calls to D3D12's | shader caches, textures, draws |
| ray tracing scene | `src/raytracing.*` | recorded draws, BLAS cache, TLAS | RecordIndexedTriangleList, BuildForFrame | buffers, the device's list |
| ray tracing helper | `src/rt_helper_client.*`, `rt_helper/` | session flags, resources, fences | smoke test, shadow upload, Stop | device, its own process |
| mod API | `src/dx8to12_api.*` | callbacks, shader injections | register, unregister, inject | Present, shader caches |
| configuration | `src/config.*` | values, dirty flag | load, mark dirty, rate-limited save | everywhere |
| hashes, adapters, DLL entry | `src/direct3d8.cpp`, `src/dllmain.cpp` | none of their own | pure functions, set-up | |

Threads and processes. The device is driven by one application thread. The real
concurrency is between that thread and the GPU, which executes submitted lists
later and in order, and with the helper processes, each with a queue of its
own. Mod callbacks may be registered from other threads.

What is hard in each, and what makes it correct:

* *ring*: the pointers wrap and "full" looks like "empty"; a live range must
  never be handed out again, and no live frame may be forgotten.
* *frame lifecycle, heaps, reference counts*: a texture released right after a
  draw, a mid-frame flush (a readback), a helper restart with draws recorded,
  a `Reset`. Nothing a pending command names may be deleted, reused or
  described anew; and nothing may be kept for ever.
* *buffers*: D3D8 semantics (a draw sees the buffer as it was at the call) out
  of a CPU cache, a ring and a GPU copy at the end of the frame, under any
  sequence of DISCARD, NOOVERWRITE and plain locks; the buffer must outlive its
  own copies.
* *upscaler*: two processes, two GPU queues, two slots, a wait with a time-out
  and a helper that skips frames. Inputs stay put while they are read; the
  result shown is that of the frame asked for; neither side hangs on the other.
* *textures*: memory is written at once, resources in the order of a list, and
  a readback flushes the list in mid-frame; every resource has to be in the
  state each command needs.
* *scene pass*: flags re-evaluated at several places of a frame, all of which
  must agree on where the frame is and on what the upscaler is told of it.
* *state tracking*: a draw binds again only what flags and caches say it must,
  and whatever else touches the command list must tell them; state blocks
  restore exactly what they promise.
* *shader caches*: three caches keyed by different things, dropped by different
  events; a mod changes its callback on another thread in the middle of a draw.
* *translation*: every case of a table, a token stream or a layout, where a
  test would take a few.
* *ray tracing* cannot be reached in this version (section 5).

`PROJECT.json` lists the hazards line by line, with the properties that cover
them, and for the others the reason why none does.

## 2. The modules

| module | models | extends or instances |
|---|---|---|
| `DynamicRingBuffer` | the upload ring | |
| `DescriptorPoolHeap` | a descriptor heap's free list and parked slots | |
| `ResourceLifetime` | abstract: a busy object is never deleted | |
| `FrameLifecycle` | draws, submission, fences, keep-alive, helper restarts | instances `DescriptorPoolHeap`; implements `ResourceLifetime` |
| `BufferTimeline` | one buffer, the ring and the GPU executing its commands in order | |
| `DynamicBuffer` | dynamic buffers of the default build | extends `BufferTimeline` |
| `ShadowBuffer` | every buffer under `DX8TO12_BUFFER_SHADOW` | extends `BufferTimeline` |
| `DlssHandshake` | the game and its upscaling helper | |
| `DrawState` | from the game's state to what a draw has bound; state blocks | extends `RenderStateTables` |
| `TextureContents` | texels and resource states | |
| `ScenePass` | where a frame is drawn, shown and handed over | |
| `ShaderCache` | which compiled code a draw runs | |
| `RenderStateTables` | which state is read by what, which flag a change raises | |
| `RenderStateCases` | these tables, one input at a time | extends `RenderStateTables`, `TranslationCase` |
| `FixedFunctionStages` | stage states to a pixel shader and its key | extends `TranslationCase` |
| `VertexDeclaration` | declarations and vertex formats to input layouts | extends `TranslationCase` |
| `ShaderTokens` | vs.1.x and ps.1.x programs to statements | extends `TranslationCase` |
| `TextureFormats` | formats accepted, created, sized; layout of a copy | extends `TranslationCase` |
| `DrawCalls` | draw calls to primitives | extends `TranslationCase` |
| `ConfigFile` | settings and the file they are kept in | extends `TranslationCase` |
| `Translation` | the seven modules above that extend `TranslationCase` | extends them |
| `MC*` | values and symmetry for TLC | |
| `*_proof` | theorems and proofs | extend the module they prove about; `FrameLifecycle_proof` the ring too, `DrawState_proof` the tables, stages and draw calls |

### DynamicRingBuffer

One action per entry point: `TryAllocate(n, align)`, which appends at the tail
or wraps, and `FreeRingFrames(f, cur)`, the device's pair of calls
`HasCompletedFrame(f)`, `SetCurrentFrame(cur)`. `live_allocs` and `collision`
are the validation build's own (`CheckForOverlap`), which the properties use as
the code does: an allocation over a live one is a collision. `filled` is a
history variable: some allocation ended exactly on `head`. An allocation the
code would FAIL on is not enabled. Bytes are counted in units.

### FrameLifecycle and DescriptorPoolHeap

The open list is `recorded`, a set of pairs of texture and SRV slot; each
submitted one is `submitted[f]`. The GPU advances `completed`. References are
kept as who holds one (`app`, `bound`, `frame_resources`), so a texture is
deleted when the sum of the code's two counters reaches zero, in the step that
drops the last. `SubmitAndWait` runs up to its wait, `WaitForFrame` from there
on, and is where FreeFrameResources tells ring and heaps. `Present`, a mid-frame
flush and `Reset` are its three callers. `StopHelperFlushes` and
`StopHelperFrees` are the two outcomes of `DlssClient::Stop` calling
`WaitForGpuIdle` with draws recorded; they exist when `HelperRestarts` is TRUE.
An identity is reused for a new texture only when no list names the old object,
otherwise the model could not tell them apart.

### BufferTimeline, DynamicBuffer, ShadowBuffer

The contents of a buffer are a function from bytes to the number of the write
that put them there. `want` is what the application's buffer holds; a recorded
draw carries the `want` of its call, and `misread` says that the GPU has
executed one that read something else. Commands name a place: the buffer's own
resource (0) or a ring allocation. `raced` records that the CPU has written the
own resource under a pending command, or beside a ring allocation of the same
frame: what D3D8 leaves to the application for NOOVERWRITE, and the known
weakness of the default build for plain locks. `DynamicBuffer` has one action
per path of `Lock`, `GetGpuPtr` within `Draw`, and the persist loop within
`Submit`; `RangeSet::insert` is the operator `Insert`, its two ASSERTs included,
which report and go on. What an application does is the variable `habits`, fixed
at the start.

### DlssHandshake

Actions of the game follow its exchange in program order (`gpc`): copy into the
write slot (`HandOver`), `SetCameraConstants`, `SubmitFrame`, the four ways
through `AcquirePreviousResult`, `Present`; or a frame kept from the helper
(`Bypass`, `ReadBack`). The helper reports itself ready, opens the game's process
if it still can (`OpensGame`, `shim_process`), and then loops: it looks for the end
of the game (`Notices`), takes the newest frame signalled, reads the constants,
evaluates or fails, and queues its signal. Both GPUs execute their
queues one command at a time. A fence is the last number signalled;
`SetEventOnCompletion` puts a value into `registered`, and the event
is auto-reset and may be left set by a wait that had timed out. Any step may be
the last of either process (`HelperDies`, `GameDies`). A session starts with
fresh textures, fences and shared memory, so a restart is a new behaviour.

### DrawState and RenderStateTables

`st` is what the Set calls have stored, `flags` the dirty flags, `last` what
the caches of `DX8TO12_DRAW_STATE_CACHE` remember, `filled` what the constant
buffers hold, `bound` what the command list has. A part of the bindings
(topology, pipeline state, a table, a constant buffer) holds the values of the
inputs it was made from, so a draw is right if these are the inputs of now:
`wrong` collects, at the draw, the pairs of a part and an input that differ.
`untold` holds the pairs that no flag has announced. One action per kind of
call; `Draw` is `PrepareDrawCall`, and
`DrawUP` is a draw from the game's memory, which forgets the views bound last.
`ListReset` inside `MidFrameFlush` and `EndFrame` is a new command list;
`ResolveByCopy`, `ResolveByBlit` and `MotionPass` are the device's own draws
between the game's. A state block is a partial function from inputs to values;
`promised` is what D3D8 says it holds. The sets of `RenderStateTables` say, for
all inputs, who reads them and which flag they raise; the state machine takes
one of each kind (the proof takes any), and `RenderStateCases` relates the sets.

### ShaderCache

A compiled shader is an identity and the code it was compiled from: of what, in
which lighting mode, with which injection. Identities are what pipeline states
are kept by. `draw` follows `PrepareDrawCall` from the pixel shader lookup to
the pipeline state, because the injection callback is called in between with a
lock held, and the mod's thread may register or unregister meanwhile
(`running`). `InMod` is that thread.

### ScenePass

`frame` is the frame under construction: the flags of the code, what is painted
on the scene's texture and on the back buffer, the camera captured and the one
kept of the frame before, the inputs made for the upscaler. `helper` is the
upscaler as `PollReady` sees it, `started` what it was started with. A picture is the
sequence of kinds of drawing on it, consecutive draws of one kind being one
mark. The places that end the pass (`DrawUi`, `ReadBackBuffer`, `Present`) all go
through `Resolved` and `Exchanged`. The camera is chosen at the frame's first
draw; settings change between frames only; RenderScale changes through the F5
key; the restart timers and the F8 key are a free choice to restart; an
off-screen target comes with the own depth buffer or none.

### TextureContents

A subresource holds one value. `data` is the memory of SYSTEMMEM and MANAGED
textures, `contents` what the resources hold, `recorded` what they will hold
when everything recorded has executed, `promised` what D3D8 says a surface
holds, `state` the resource state the code tracks. `LockGpuReadback` copies,
flushes, waits and shows. `om_target` is what the list has bound, `om_dirty`
whether the next draw looks again. `SetRenderTarget` lets the bound target go
before it looks at the new one, and has three outcomes: it succeeds, it fails for
a depth surface in memory with the new target stored and no flag raised
(`unflagged`), or it fails for a target in memory with the old one still bound, in
COMMON (`SetRenderTargetRefused`, `displaced`). Where the code does not provide for a use
(section 5), `promised` is unknown.

### The translating parts

`TranslationCase` has one variable, `given`, the case at hand; every module has
a set of cases, operators translated from the code, and one property comparing
what they give with what D3D8 asks for. `Translation` joins the cases; a case is
an initial state.

* `RenderStateCases`: what a part of the bindings is made from raises the flag
  it is made again for.
* `FixedFunctionStages`: what a generated shader reads and runs follows the
  stage states, though it is made from their key only. `kMaxTexStages` is 8
  (device_limits.h:22) and 3 in the run: a stage looks at those before it and
  at nothing else.
* `VertexDeclaration`: the tokens of a declaration are read as what they are
  (constant data may look like any token), every element at its offset and
  stream; formats are declarations.
* `ShaderTokens`: each instruction takes as many words as it has, comments are
  skipped, and a component goes through write mask and swizzle as asked.
* `TextureFormats`: a format CheckDeviceFormat accepts can be created and
  sized, and the levels of a copy lie one after the other. `AcceptedCanBeCreated`
  names two exceptions: formats without a size, and cube textures to render to.
* `DrawCalls`: the primitives drawn are those asked for, of the vertices the
  game means, whatever range it hints at. `Drawable` names the exceptions:
  types that end the program (the calls from memory know lists, strips and, not
  indexed, fans; indexed calls no fans), fan vertices past 65535 (cast to 16
  bits, device.cpp:6132), a stride other than the declaration's
  (device.cpp:5720), indices outside DrawIndexedPrimitiveUP's range, which is
  all it copies.
* `ConfigFile`: what a mod sets and the rules between settings survive saving
  and loading, the diagnostics apart.

## 3. What the runs show

| run | bounds | result |
|---|---|---|
| `ring_safety` | 8 units, sizes 1-4, alignments 1 and 2, 3 frames | until an allocation fills the ring to the last unit, nothing live is handed out |
| `frame_restarts` | 2 textures, 3 slots, 2 back buffers, 4 submissions, restarts | descriptor slots are not reused early, allocators and ring bytes follow the fences (`ReuseFollowsFences`), a stamp means a reference, even with restarts; nothing is kept past the frame after |
| `frame_lifetime` | 3 submissions, no restarts | textures outlive their commands; `FrameLifecycle` implements `ResourceLifetime`; every wait ends |
| `buffer_dynamic` | 3 bytes, 3 frames, 3 writes, 1 draw a frame, two sets of habits | the only wrong reads are races; every other write is persisted, inside the buffer; a drawn buffer outlives its commands |
| `buffer_shadow` | 2 bytes, 3 frames, 3 writes | with the shadow the only wrong reads follow a full ring; the dirty range covers every difference |
| `dlss_handshake` | 2 slots, 2 time-outs in a row, 3 frames | inputs, constants, results, holes, deaths and progress, see below |
| `draw_state` | 7 inputs, 2 primitive types, cache built in, 4 calls that change state, any number of draws | every draw sees the state of its call; state blocks restore what they promise |
| `texture_contents` | a SYSTEMMEM, a MANAGED and a DEFAULT texture with 2, 1 and 2 levels, 2 back buffers, 2 values, 6 calls | surfaces hold what was written last and readbacks show it; every command finds its resources in the state it needs |
| `scene_pass` | 3 cameras, one of them flat, 3 draws a picture | the picture shown is complete, the upscaler gets the scene and motion of the same frame, its holes are announced |
| `scene_previous` | the same | **violation**: the camera called the previous frame's is this frame's at the exchange |
| `shader_cache` | 1 format, 2 stage states, 1 callback, 2 created shaders, 4 identities, 2 generations | a draw runs the shaders bound, in the current lighting mode, with the current injection; a callback runs only while registered |
| `translation` | 137,701 cases | the seven properties of the translating parts |

The violating run checks one sentence of the source's own; `PROJECT.json` quotes
it under "findings": the protocol header calls a matrix the previous frame's,
and `EndScenePassIfDrawIsUi` and `Present` exchange after it has been advanced
(device.cpp:1994).

`dlss_handshake` in detail. `InputsHeldStill`: the protocol header's argument
for two slots, which fails only after a time-out. `ConstantsAreNeverOld`: the
struct the helper reads is its frame's or already the next one's, never older.
`ResultIsPreviousInStep`: as long as the helper is neither late nor behind, the
slot shown holds the very frame asked for, and no failed one. `HolesAreAnnounced`:
super resolution blends over a frame it has not seen only if the helper has
fallen behind (the request travels with a frame it has skipped) or the game has
read back the frame, which the client is not told of. `DeadHelperIsDropped`: a
helper that dies is given up within one frame more than the limit. `FramesFinish`:
the game never waits for ever. `HelperEnds`: nor does the helper, once asked to
stop or once a game has died whose process it has opened. It opens it only after
it is ready and may fail to, and then sees an orderly end only: for a game that
dies earlier `gpc = "dead" ~> hpc = "gone"` is refuted (section 5).

`draw_state` in detail. `DrawsSeeTheirState`: after any order of calls, flushes,
device draws and cache resets, each part of the bindings was made from the
inputs as they are, but for what no flag announces (`untold`): a viewport alone,
what a SetRenderTarget does to the vertex constants, the topology after a blit,
and with the cache on the settings. `BlocksRestore`: applying a block gives back
every state it was asked to hold and changes no other; a recorded call that
left a state as it was is excepted, as is a transform or light never set.

`scene_pass` in detail. `ThePictureIsComplete`: what reaches the screen has all
marks of the frame, in order, wherever the pass ended. `UpscalerGetsTheScene`:
what is handed over has a world in it, and no 2D draw over a 3D one.
`MotionIsOfThisFrame`: motion vectors made in a frame compare its camera with
that of the frame before, and come from the depth buffer the world was drawn
with. `SceneHolesAreAnnounced`: the upscaler is told of every frame it was not
given, those apart that the game has read back.

`shader_cache` in detail. `LitInOnePlace`: vertex and pixel shader of a draw
agree on which of them lights, whatever was compiled when the mode changed.
`InjectionIsCurrent`: a draw that began after a change of the injection runs no
code with the old one. Both speak of draws with the draw-state cache off; with it
on, a mode or an injection takes effect at the next state change.

`texture_contents` in detail. `TexelsAreTheLastWritten` compares
every surface with what it will hold when everything recorded has executed, and
every readback with what has executed when it is shown. `StatesFitTheirUses`
excepts, of all resources, the target the list draws to, and only from a copy onto
it or a SetRenderTarget that failed to the next step that puts it right. What a
draw covers between such a failure for the depth surface and the next BeginScene,
flush or successful call is open: the game has one target bound, the list another.

**Why the bounds are enough.** The ring's cases differ by the order of `head`,
`tail`, the request and the end of the buffer, all of which eight units, four
sizes and three frames produce (and the proof removes the bound). A lifetime error
needs one texture, a second to take over its slot, and as many submissions as
there are back buffers plus two; three slots let one be parked, one free and one
in use. A buffer error needs ranges that are disjoint, adjacent or overlapping:
three bytes; and a frame before, at and after the write. The handshake reuses a
slot in frame 3; two time-outs in a row tell "one" from "the limit". A
binding error needs one input of each kind of announcement, a draw before and
one after, and at most an open scene, its end and a change between them, or a
block recorded with one change and applied, four calls (the proof removes the
bound); texels need a copy through each of memory, ring and resource, a
target that is also copied, and one change of back buffer. A scene pass error
needs two frames that differ in camera and one that shows nothing, and a third
draw after the pass has ended. A cache error needs a shader deleted, another
created in its place, and a mode or an injection changed twice. The cases of
the translating parts take every table entry, and of sequences every length up
to the first that repeats a kind.

Bounds named in the modules: `MaxFrame`, `MaxFence`, `MaxWrites`, `MaxDraws`,
`MaxCalls`, `MaxCreated`, `MaxId`, `MaxGeneration`. A model stops at them, and an
aborted or dead process does nothing more: the runs of the ring, the frame
lifecycle, the buffers, the handshake and the texels do not check for deadlock
(`CHECK_DEADLOCK FALSE`); the others do.

**Fairness.** `FrameLifecycle`: weak fairness of `GpuCompletes` (a GPU that
hangs is the 60 s FAIL of `WaitForFrame`) and of `WaitForFrame` (the thread is
blocked on the fence event). `DlssHandshake`: weak fairness of the game's
exchange, its GPU and the end of `Stop` (bounded waits, then TerminateProcess), and
of the helper's loop, which the scheduler runs while the process exists.
Nothing is assumed of the helper's GPU: `FramesFinish` must hold if it hangs.
The other modules state safety only.

Every property has a mutant in `PROJECT.json`: a definition marked "fault", next
to the one it replaces, under which the property fails.

## 4. What is proved

Checked by TLAPS, for every value of the constants under the named ASSUMEs of
the modules (`NumBackBuffers \in Nat \ {0}`, the sizes and alignments are
positive, what the CPU writes is never the mark of what only the GPU knows, and
the like). The theorems of the handshake are about `Spec`, without the fairness
of `FairSpec`; those about a case say of which in their hypotheses:

| theorem | statement |
|---|---|
| `RingInvariant`, `RingTypes` | `DynamicRingBuffer!RingSpec => []RingIInv`, `[]RingTypeOK` |
| `RingNoCollisionUntilFilled` | no live byte is handed out while the ring was never exactly full |
| `RingLiveFramesAreRemembered` | a live range's frame is among the remembered starts |
| `FrameTypes`, `FrameStamps` | types, and that a stamp means a reference, restarts included |
| `FrameResourcesOutliveCommands` | without restarts, no texture a pending command names is deleted |
| `FrameImplementsLifetime` | without restarts, `FrameLifecycle` implements `ResourceLifetime` |
| `FrameDescriptorsOutliveCommands` | no SRV slot a pending command names is reused, restarts included |
| `ShaderTypes` | `ShaderCache!Spec => []TypeOK` |
| `ShaderDrawsRunTheBound` | a draw runs the code of the shaders bound |
| `ShaderLitInOnePlace` | its two shaders are of the lighting mode in force |
| `ShaderInjectionIsCurrent` | it runs no code withdrawn before it started |
| `ShaderCallbackRuns` | a callback that is running is registered |
| `SceneTypes` | `ScenePass!Spec => []TypeOK` |
| `ScenePictureIsComplete` | the picture presented has every mark of the frame |
| `SceneUpscalerGetsTheScene` | what is handed over is a world without 2D draws over it |
| `SceneMotionIsOfThisFrame` | motion compares this frame's camera with the one before |
| `SceneTellsOfHoles` | the upscaler is told of every frame it was not given, but for a readback |
| `FrameReuseFollowsFences` | the allocator reopened and the ring's bytes are those of finished frames |
| `FrameRetentionIsBounded` | with two back buffers or more, what is kept belongs to the last submissions |
| `TextureTypes` | `TextureContents!Spec => []TypeOK` |
| `TextureTexels` | a surface will hold what was written last, a readback shows what has executed |
| `TextureStates` | every command finds its textures in the state it needs, a target that was copied to or that a failed call left behind apart |
| `ShadowTypes` | `ShadowBuffer!Spec => []TypeOK` |
| `ShadowReads` | a draw reads the buffer as it was at the call, but where the ring was full |
| `ShadowLosesNothing` | the dirty interval covers every byte that is still to be uploaded |
| `DynamicTypesHold` | `DynamicBuffer!Spec => []TypeOK` |
| `DynamicReads` | for every application, a draw reads the buffer as it was at the call, but for a CPU write under a command |
| `DynamicPersists` | once the GPU has caught up the resource holds the buffer's contents, but for such a write |
| `DynamicCopiesStayInside` | without "relock", what is copied is disjoint and inside the buffer |
| `DynamicOutlivesCommands` | without "undrawn", a keep-alive list holds the buffer while a pending command names it |
| `HandshakeTypes` | `DlssHandshake!Spec => []TypeOK` |
| `HandshakeInputs` | with two slots or more, inputs stay put while they are read, until a wait times out |
| `HandshakeResults` | with two slots or more, what is shown is the result asked for, while the helper keeps up |
| `HandshakeConstants` | the constants the helper reads are never those of an earlier frame |
| `HandshakeHoles` | super resolution blends over no hole, unless behind or after a readback |
| `HandshakeDeadHelper` | a dead helper is given up after one frame and the tolerated time-outs |
| `TypeCorrect` | `DrawState!Spec => []TypeOK` |
| `DrawsSeeTheState` | a draw is drawn with the state of its call, what nothing announces apart |
| `BlocksGiveBack` | applying a state block restores what it was asked to hold and nothing else |
| `ReadsAreHeard` | what a part of the bindings is made from raises its flag |
| `StagesTranslated` | a generated shader runs the operations of any stages |
| `PrimitivesDrawn` | a draw call draws the primitives asked for, from buffers of any size |

*The ring.* `NoCollisionUntilFilled` is not inductive: it says nothing of where
live ranges lie. `RingIInv` adds windows. The window of a start `h` is what lies
between `h` and `tail`, around the end if need be. Every live range lies in
`head`'s window, and in that of each frame start no later than its own frame;
the starts follow one another in frame order. `TryAllocate` extends every
window by a part that was in none (this is where `~filled` is needed: a tail that
catches up with `head` turns a full window into an empty one);
`HasCompletedFrame` moves `head` to a remembered start, whose window holds the
ranges that stay live.

*Textures.* `CoverInv`: everything the open list names is in the keep-alive list
of the current back buffer, and everything a submitted list `f` names is in
the list of some buffer whose fence is `f` or later, which is only cleared once
that fence has passed. Submission gives the current buffer the new fence, so
recorded becomes submitted with the same witness. A helper restart clears the
current buffer's list by its *old* fence, and breaks exactly
`RecordedIsCovered`: hence `HelperRestarts = FALSE`.

*Descriptor slots.* With restarts the texture may be gone, but its slot is then
parked under a frame no earlier than the list's: `SafeUntil` is the second
disjunct `SlotInv` needs, together with the disjointness of owned, free and
parked slots and with the heap's frame following the device's.

*Shader caches.* The pipeline states are kept by identity and say nothing of
code, so the invariant has to: `Identified` says that no two live shaders of a
kind share an identity and all are below the counter, `Agreed` that a pipeline
state kept under an identity of a live shader has that shader's code. Together
they survive creation, because a new identity is in no key; deletion, because
it only takes premises away; and a change of the lighting mode, because shaders
compiled again take new identities. `Current` says that what is reachable is of
the mode and of a generation in force, `Bound` that what is bound exists and
that a draw under way has seen the generation it applied, `Kept` that the
pipeline state set last is that of the shaders bound unless a flag is raised.

*Scene pass.* The invariant is a predicate of the frame, `Good`, so that a step
is a lemma about the operator that makes the next record. `Frames` is its type.
`Pictured`: the scene's texture while the pass is open, the back buffer after
it, holds what the game has drawn. `Sorted`: on the scene no 2D draw follows a
3D one. `Paired`: until the frame is recorded the kept camera is that of the
frame before, from then on its own, and the inputs made stay. `Open`: while the
pass is open nothing has been recorded, and all 3D draws have used one depth
buffer.

`HolesAreKnown` relates the frame to the helper as it will see the next one: a
helper that exists, has been started with what is now set and has not been told
of anything since, has been given the frame before or been told that it has not.

*Reuse and retention.* `AllocatorsFollowFences`: an unfinished list was recorded
into the allocator of a back buffer whose fence value is that list's or later, and
the one reopened is that of a back buffer whose value has passed. The ring's frame
is the device's while the list is open, because `FreeFrameResources` tells it so
on every way there. Retention is about the rotation (`RotationInv`): `Distance(s)`
submissions ago the list was submitted from back buffer `s`, or everything was
emptied since by a wait for the last fence. With one back buffer what was just
released would be a whole round old already, hence `NumBackBuffers # 1`;
`kNumBackBuffers` is 2 (device_limits.h:19).

*Textures, texels and states.* The two properties are nearly inductive
(`TextureInv`): what is promised of a surface is what `recorded` says of its place,
and places are distinct (`Place`: the game's back buffer is buffer 0, drawn to is the
current one). `WritesArePromised` is the lemma all copies share: a command that
writes what is promised where it is promised keeps every other promise. For the
states the open list's target has to be known: `TargetFollows` says that it is
the one the game has bound and is still in the state for drawing, unless the
output merger's flag is up, it was copied to, or a SetRenderTarget has failed.
The two failures are kept apart (`displaced`, `unflagged`), because different steps
end them: a Clear puts the target back into its state, but does not bind it.

*Shadowed buffer.* The GPU executes the queue of submitted and recorded commands
in order, so the invariant says what each of them will find: `Holds(.., i, b, v)`
is that byte `b` of the resource is `v` when the `i`-th command executes, because the
last copy before it puts `v` there, or because it is there and no copy comes.
`DrawsReadTheirs`: each draw finds what it expects. `CleanBytesArrive`: a draw
recorded now would find what the buffer holds, at every byte outside the dirty
interval. An upload copies all of that interval from an allocation filled with
the shadow, and the shadow is what the buffer holds (`ShadowIsCurrent`).

*Dynamic buffer.* The same queue, in which draws may also name an allocation
of the ring; such a draw must find what it expects in the allocation itself.
`ContentsAreSafe` says where the buffer's contents are: while the buffer is to be
persisted, in the cache or the current allocation (`Latest`), and every byte that
counts is in a written range; otherwise the next draw will find them in the
resource. The step that turns the first into the second is submission, whose copy
covers all written ranges. `FrameIsKnown` makes the cases exclusive: a buffer is
to be persisted exactly if it was locked for the ring in this frame.
`AppendsAreSafe` lets appends write an allocation under recorded draws: no copy
reads it yet, and its drawn bytes are those the application promises to leave
alone. That no range is lost is `InsertCovers`, about the three ways
`RangeSet::insert` has (`InsertCases`); it needs no promise of the application.
That none grows past the end is `InsertKeepsApart`, which does: ranges that
overlap are added up. For lifetimes, `NamersAreKept`: behind each command that
names the resource is a signal no later than the fence of a back buffer whose
keep-alive list has the buffer; `SignalsInOrder` makes that signal one that has not
completed, so that `FreeFrameResources` leaves the list alone.

*The exchange with the helper.* The invariant has a part for each pair of
parties. `Control`: what the game's thread knows at each point of a frame.
`GameQueue`: the game's queue holds copies and signals in the order of frames,
and a signal finds the inputs of its frame in their slot (`Copied`), whatever is
executed in between. `HelperQueue`, `InStep`: what is at work has been signalled
and is not done; a helper that has passed over nothing works on every frame.
`Confirmed` is the heart: while no wait has timed out, the game is two frames
ahead of `done` at most, each value registered is the one waited for, and an
event that is set is set for it. From these follow `InputsStay` (a copy for frame
f + 2 is only recorded when f is done, and f + 1 has another slot) and
`ResultsStay` (the helper's GPU writes the slot of f + 2 only after the copy for
frame f + 2 has been recorded and signalled, hence after f was presented; and
what is acquired is one of the last two results). These two need
`FrameSlots # 1`; `kFrameSlots` is 2 (dlss_ipc_protocol.h:36). `Requests` follows a
hole through `pending_history_reset_` and shared memory to the frame evaluated.
`Orphans` counts: of a helper that is gone, with nothing in its queue and no event
set, `done` stays, so that each frame handed over but the first costs a
time-out.

*Draw state.* `DrawsSeeTheirState` speaks of the draw just made, and the
invariant has to say why the next one will be right. `Known(p, i, b)` is the unit: `b`,
made for part `p`, shows input `i` as it is now, or the pair is `untold`. Each
cache then has its clause, with the flag that suspends it: `TargetsCurrent`,
`PsoCurrent` and `FilledCurrent` for what is made when OM, PSO or a constant
buffer's flag is up; `RootCurrent` for tables, samplers and constant buffers in
the list, as long as the list's root signature is `PrepareDrawCall`'s; and
`CachesAreRight` for what `DX8TO12_DRAW_STATE_CACHE` and the fields for stencil
reference and streams remember, which must be what the list has. After
the scene was scaled onto the back buffer the list's root signature is the blit's while
the cache says it is set: `BlitIsUntold` says that every pair of a root argument is
untold from then on. A call of the game keeps the clauses because of
`ReadsAreAnnounced` (a table, input by input: the flag is raised), or because the
pair is put among the untold ones. A draw takes each part from the clause of its cache
(`DrawShows`) and leaves the flags down, so every clause has to hold again
without its premise (`DrawKeepsBindings`). `Inputs` is any set of the
inputs a flag answers for and of those none does, with viewport, target and
streams among them; `Prims` any set of primitive types with "list" in it.

*State blocks.* `BlockHolds`: a finished block holds what is promised, that apart
which it is known to overlook; while one is recorded, an input not yet promised
is as it was at the start, which is what EndStateBlock's comparison needs.

*Tables, stages, draw calls.* `ReadsAreHeard` has no hypothesis. For the
stages, `KeyOfStage` says in closed form what the copying loop of
`PixelShaderState` leaves of stage `i`; the generator's loop, run on the key, stops
where the game's stages do. `Ops` and `Args` stand for any enumerations in
which "unset", the mark of a cleared field, is no operation. For the draw calls,
`SamePrimitives` and `SameFans` compare two assemblies vertex by vertex. Beyond
`Drawable`, the theorem asks that the game keeps to its own buffers: that there
are as many indices in its memory as it asks for (`AnyDrawCase`), and that the
vertices meant lie in the stream (`VerticesAreThere`); a draw beyond them reads
zeros in D3D12 and is not defined in D3D8. `StageCasesAreCases` and
`DrawCasesAreAnyDrawCases` show that the cases TLC enumerates satisfy the
hypotheses.

Only model-checked: liveness (`WaitEnds`, `FramesFinish`, `HelperEnds`), which is
out of the provers' reach, and four of the translating parts.
`DeclarationsAreRead` and `ProgramsAreRead` are about readers that recurse over
token streams, `TexturesAreMadeAndFilled` about sums over mip levels, and
`SettingsSurviveARestart` about a fold over the lines of a file: what they
compute for every input would take induction over data.

## 5. What is left out

* Ray tracing, the scene and the helper: unreachable in this version. The
  lighting mode is clamped to `kHighestImplementedLightingMode`, 1
  (config.cpp:52, 405-420), and both calls into it ask for 2 or more
  (device.cpp:6816, 7592).
* One texture stage stands for all bindings of `FrameLifecycle`, one buffer for
  all, and the ring of the buffer modules never fills unless `RingMayFill`.
* The failing paths of `Device::Reset`, device removal, and a helper restart's
  timers. Reset's rebuilding of back buffers and heaps appears as the index it
  leaves.
* The width of reference counts (16 bits each) and of fence values.
* `kBuffersInGpuMemory` (compiled out), `USE_ALLOCATOR` (off by default).
* In the handshake: creation of the shared objects, `NotifyDeviceReset` and
  `device_generation`, loopback and a refused frame token at equal sizes (both
  copy without counting a failure), neural rendering, Streamline's own state.
* Of textures: rectangles, depth surfaces, dynamic textures, additional swap
  chains, a surface copied onto itself, a draw that samples its own target.
* Of the scene pass: the arithmetic of matrices and jitter, the drawing of
  motion vectors for diagnosis.
* Of mods: render callbacks, queries and native handles.
* Of the translating parts: the text of HLSL, conversions of one enumeration to
  another, hashes, the spelling of the file's lines, a save that fails.
* `IsRangeWrittenThisFrame` and other diagnostics of the validation build;
  adapters but for CheckDeviceFormat, process set-up, tools, vendored code.

**Statements of the source that TLC refutes**, without a run of their own; each
is an operator of its module or follows from a constant:

* A ring filled exactly is taken for an empty one
  (dynamic_ring_buffer.cpp:66; `NoCollision`).
* A helper restart in mid-frame with the GPU idle frees textures the open list
  names (dlss_client.cpp:336, against device.cpp:7880-7882;
  `ResourcesOutliveCommands` with `HelperRestarts = TRUE`).
* Overlapping locks in one frame copy past the end (range_set.h:25); a buffer
  locked and released without a draw is deleted under its copy
  (device.cpp:7663): `CopiesStayInside` and `BufferOutlivesCommands`, with the
  habits "relock" and "undrawn".
* A skipped frame's slot is presented as its result (dlss_client.cpp:530;
  `ResultIsPrevious`).
* The helper resets its allocator with a list on its GPU
  (dlaa_helper_main.cpp:1070; `HelperAllocatorIsIdle`).
* A game that dies before its helper has opened its process (or whose process
  cannot be opened) leaves the helper polling for ever
  (dlaa_helper_main.cpp:1028-1036; `gpc = "dead" ~> hpc = "gone"`): the handle is there
  because "Orphans were observed accumulating" (1022-1027), and the helper itself
  prints that it "will exit only on a clean shutdown request".
* CheckDeviceFormat accepts a cube texture to render to (direct3d8.cpp:242-245,
  267-279), CreateCubeTexture passes the usage on (device.cpp:3264-3271), and
  InitViews asserts that a target is a Texture2d (texture.cpp:446;
  `AcceptedCanBeCreated` without `CubeTarget`).
* The blit of a resolved scene changes the topology behind the draw-state cache
  (device.cpp:1609; `DrawsUseTheirTopology`).
* Fixed-function shaders made by CreateVertexShader keep the old lighting mode
  (vertex_shader.cpp:236-238; `EveryFixedShaderFollowsTheMode`).

**Noted while reading**, as exceptions the properties name or outside of them:

* *Ring and heaps.* A request of more than half the ring may FAIL although the
  ring is empty; the heaps' frame is 0 while the device's is 1 until the first
  FreeFrameResources (harmless); `device.h:613` says that FreeFrameResources
  empties `buffers_to_persist_`, which SubmitAndWait does;
  `CopySubresourceToGpuTexture` allocates with the ring's default alignment of
  256 (dynamic_ring_buffer.h:36) where placed copies need 512.
* *State.* SetRenderTarget stores a viewport and raises no flag for it, and one
  that fails for its depth surface leaves target and viewport stored; settings, the lighting mode and
  injections raise none either (stale only with the draw-state cache on);
  BeginScene toggles the output merger's flag instead of setting it.
* *Draws.* The exceptions of `DrawCalls`; after a draw from memory the index
  buffer stays bound.
* *Fixed function.* The alpha chain of a key ends at the first disabled stage
  (render_state.cpp:190-217) and that of the generator does not
  (ff_pixel_shader.cpp:322-335); an injection is given 7 stages; the check for
  a missing texture ignores the third and the modified arguments.
* *Shaders.* The constants of a declaration are skipped one word short and never
  loaded, and none with a count of 0 can be read to its end; NOP leaves a
  stray semicolon; saturation and co-issue are parsed and ignored; deleting a
  bound pixel shader dereferences `end()`; registering a callback from within
  one waits for itself; declared transformed vertices are drawn as 3D.
* *Formats.* A8, V8U8, Q8W8V8U8, V16U16 and R3G3B2 are accepted and have no size;
  X8R8G8B8 reads back as R8G8B8; L8 and A8L8 cannot be described. A usage
  CheckDeviceFormat has no branch for, such as a depth texture, ends the program
  in FAIL instead of being refused (direct3d8.cpp:253, 266, 279).
* *Settings.* TemporalAA without its inputs, set through the API or an unlucky
  order of lines, is overridden at the next start; `MotionVectorDebug=true` forces
  MotionVectors at each start; numbers keep six digits.
* *Scene pass.* The previous camera is advanced before its use (the finding);
  a hidden window's frame is withheld at Present only, not when a 2D draw ends
  the pass (device.cpp:2224 against 7491); F5 at Present loses the frame; the
  first frame's and a flat camera's inputs are handed over; a 2D draw on an
  off-screen target ends the pass and records the depth bound; at a scale other
  than 1, 3D draws after the pass test a depth nothing has cleared; the first
  draw decides the camera; the comment at device.cpp:1560-1571 says otherwise
  of what is resolved.
* *Textures.* The back buffer's surface is always that of buffer 0 (device.cpp:3219,
  4681) while draws go to the current one (2460), against surface.cpp:200-203;
  a copy onto the bound off-screen target leaves it in a state later draws do
  not expect; a SetRenderTarget of a SYSTEMMEM surface fails after it has put the
  bound target into COMMON, with the target still bound and no flag raised
  (device.cpp:4593-4621), so that the next draw writes it in that state; a copy into
  a MANAGED texture is lost to a later unlock; writes
  through a readback are dropped; the comment at device.cpp:2934 says that
  managed resources are off, device_limits.h:146 that they are on.

## 6. Plan

What would come next, in this order:

1. Ray tracing, once a version reaches it: the scene against
   `ResourceLifetime` (buffers replaced while commands name them, a cache keyed
   by raw pointers), then the helper's smoke test and shadow upload.
2. Composition: `ScenePass` with `DlssHandshake` for the frames handed over;
   `Reset` with its failing paths; the restart timers.
3. `TextureContents` with rectangles, depth surfaces and dynamic textures.
4. Reference count widths; a save of the settings that fails.

