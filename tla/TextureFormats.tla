---------------------------- MODULE TextureFormats ----------------------------
(***************************************************************************)
(* D3D8 formats and what D3D12 makes of them (dx_utils.cpp), what a game   *)
(* that asks is told (Direct3D8::CheckDeviceFormat), and how a texture's   *)
(* levels are laid out in the copy the game writes to (texture.cpp).  A    *)
(* D3D12 format has the name of the first D3D8 format that maps to it,     *)
(* unless none does.                                                       *)
(***************************************************************************)
EXTENDS Naturals, SequencesExt, TranslationCase

BlockFormats == {"DXT1", "DXT2", "DXT3", "DXT4", "DXT5"}
DepthFormats == {"D32", "D16", "D24S8", "D24X8", "D24X4S4"}
PlainFormats == {"X8R8G8B8", "A8R8G8B8", "R5G6B5", "A4R4G4B4", "X1R5G5B5", "A1R5G5B5",
                 "R3G3B2", "A8", "V8U8", "Q8W8V8U8", "V16U16", "L8", "A8L8"}
RefusedFormats == {"P8", "A4L4", "A8R3G3B2", "X4R4G4B4", "A8P8", "L6V5U5", "X8L8V8U8",
                   "W11V11U10", "A2W10V10U10", "UYVY", "YUY2", "R8G8B8"}
D3DFormats == BlockFormats \cup DepthFormats \cup PlainFormats \cup RefusedFormats

\* DXGIFromD3DFormat.
DXGIFromD3DFormat(f) ==
  CASE f \in RefusedFormats -> "UNKNOWN"
    [] f \in {"D24X8", "D24X4S4"} -> "D24S8"
    [] f = "X1R5G5B5" -> "A1R5G5B5"
    [] f = "DXT2" -> "DXT3"
    [] f = "DXT4" -> "DXT5"
    [] f = "R3G3B2" -> "R32G32_FLOAT"
    [] OTHER -> f

\* DXGIToD3DFormat, "FAIL" where it ends the program.
DXGIToD3DFormat(x) ==
  CASE x = "X8R8G8B8" -> "R8G8B8"
    [] x = "R32G32_FLOAT" -> "R3G3B2"
    [] x \in {"A8R8G8B8", "R5G6B5", "A4R4G4B4", "A1R5G5B5", "D32", "D16", "D24S8", "A8",
              "DXT1", "DXT3", "DXT5"} -> x
    [] OTHER -> "FAIL"

\* DXGIFormatSize, DXGIBlockSize: bytes per texel, and per 4x4 block; 0 is FAIL.
SizeWithoutLuminance(x) ==  \* fault: no case for the luminance formats
  CASE x \in {"X8R8G8B8", "A8R8G8B8", "D32", "D24S8"} -> 4
    [] x \in {"R5G6B5", "A4R4G4B4", "A1R5G5B5", "D16"} -> 2
    [] OTHER -> 0
DXGIFormatSize(x) ==
  CASE x \in {"X8R8G8B8", "A8R8G8B8", "D32", "D24S8"} -> 4
    [] x \in {"R5G6B5", "A4R4G4B4", "A1R5G5B5", "D16", "A8L8"} -> 2
    [] x = "L8" -> 1
    [] OTHER -> 0
IsBlockCompressedFormat(x) == x \in {"DXT1", "DXT3", "DXT5"}
DXGIBlockSize(x) == IF x = "DXT1" THEN 8 ELSE 16

\* DepthTypelessFromConcrete: only a depth format has a typeless counterpart,
\* which keeps its size and is reported as the depth format it stands for.
DepthTypelessFromConcrete(x) == IF x \in {"D32", "D16", "D24S8"} THEN x ELSE "FAIL"

\* CheckDeviceFormat on an adapter that supports every D3D12 format in every
\* role; "usage" is one of the D3DUSAGE_ flags.  A usage the resource type has no
\* branch for ends the program instead of being refused.
AnsweredUsages(kind) ==
  {"none", "rendertarget"} \cup {IF kind = "surface" THEN "depthstencil" ELSE "dynamic"}
CheckDeviceFormat(f, kind, usage) ==
  IF DXGIFromD3DFormat(f) = "UNKNOWN" \/ kind = "volume" THEN "NOTAVAILABLE"
  ELSE IF usage \notin AnsweredUsages(kind) THEN "FAIL"
  ELSE IF usage = "dynamic" \/ (usage = "depthstencil" /\ f \notin DepthFormats) THEN "NOTAVAILABLE"
  ELSE "OK"

\* Create, with one level of a target, in a pool on the GPU.  The constructors
\* size every level before anything else; InitViews asserts that a target is a
\* Texture2d, whatever the caller was told.
TargetKinds == {"surface", "texture"}
CreateSucceeds(f, kind, usage) ==
  LET x == IF usage = "depthstencil" THEN DepthTypelessFromConcrete(DXGIFromD3DFormat(f))
           ELSE DXGIFromD3DFormat(f)
  IN /\ kind # "volume"
     /\ usage # "dynamic"
     /\ x \notin {"UNKNOWN", "FAIL"}
     /\ IsBlockCompressedFormat(x) \/ DXGIFormatSize(x) > 0
     /\ usage \in {"rendertarget", "depthstencil"} => kind \in TargetKinds
GetLevelDescFormat(f) == DXGIToD3DFormat(DXGIFromD3DFormat(f))

-----------------------------------------------------------------------------
\* Levels of a texture.
Half(n) == IF n > 1 THEN n \div 2 ELSE 1
Size[n \in 1 .. 64, level \in 0 .. 6] == IF level = 0 THEN n ELSE Half(Size[n, level - 1])
CalcNumberOfMips(w, h) ==
  CHOOSE n \in 1 .. 7 : LET m == IF w > h THEN w ELSE h IN 2 ^ (n - 1) <= m /\ m < 2 ^ n
BlockCountForDimension(n) == (n + 3) \div 4
CalcSubresourceIndex(slice, mip, mips) == mip + slice * mips

LevelOf(i, mips) == i % mips
\* The subresources one after the other, each with its rows one after the other.
CompactPitch(t, i) ==
  LET w == Size[t.width, LevelOf(i, t.mips)]
  IN IF t.bytes > 4 THEN BlockCountForDimension(w) * t.bytes ELSE w * t.bytes
RowCount(t, i) ==
  LET h == Size[t.height, LevelOf(i, t.mips)]
  IN IF t.bytes > 4 THEN BlockCountForDimension(h) ELSE h
Subresources(t) == {CalcSubresourceIndex(face, mip, t.mips) : face \in 0 .. t.faces - 1, mip \in 0 .. t.mips - 1}
CompactOffset(t, i) ==
  FoldFunctionOnSet(+, 0, [j \in Subresources(t) |-> CompactPitch(t, j) * RowCount(t, j)], 0 .. i - 1)

\* LockRect of a rectangle of a plain format, in bytes from the copy's start.
LockedByte(t, i, x, y) == CompactOffset(t, i) + y * CompactPitch(t, i) + x * t.bytes

\* CopySubresourceToGpuTexture: the bytes it reads, row by row.  A D3D12 row
\* has a multiple of 256 bytes.
CopiedTexelRows(t, i) == Size[t.height, LevelOf(i, t.mips)]  \* fault: of a block format, too
CopiedRows(t, i) ==
  IF t.bytes > 4 THEN BlockCountForDimension(Size[t.height, LevelOf(i, t.mips)])
  ELSE Size[t.height, LevelOf(i, t.mips)]
RowPitch(t, i) == ((CompactPitch(t, i) + 255) \div 256) * 256
BytesRead(t, i) ==
  IF CompactPitch(t, i) = RowPitch(t, i)
  THEN CompactOffset(t, i) .. CompactOffset(t, i) + RowPitch(t, i) * CopiedRows(t, i) - 1
  ELSE UNION {CompactOffset(t, i) + r * CompactPitch(t, i) ..
                CompactOffset(t, i) + (r + 1) * CompactPitch(t, i) - 1 : r \in 0 .. CopiedRows(t, i) - 1}

-----------------------------------------------------------------------------
Kinds == {"surface", "texture", "cube", "volume"}
FormatQueryCases ==
  [kind : {"query"}, format : D3DFormats, of : Kinds,
   usage : {"none", "rendertarget", "depthstencil", "dynamic"}]
LayoutCases ==
  {t \in [kind : {"layout"}, width : {1, 2, 5, 8, 64}, height : {1, 3, 16}, faces : {1, 6},
          mips : 1 .. 7,
         bytes : {DXGIFormatSize(x) : x \in {"L8", "R5G6B5", "A8R8G8B8"}} \cup
                 {DXGIBlockSize(x) : x \in {"DXT1", "DXT3"}}] :
     /\ t.mips \in {1, CalcNumberOfMips(t.width, t.height)}
     /\ t.faces = 6 => t.width \in {1, 8} /\ t.height = 1}

\* The formats the program maps but does not size: the signed ones, A8 and
\* R3G3B2.
Unsized == {"A8", "V8U8", "Q8W8V8U8", "V16U16", "R3G3B2"}
Misreported == {"X8R8G8B8", "L8", "A8L8"}

\* What CheckDeviceFormat accepts and InitViews asserts not to be asked for.
CubeTarget(kind, usage) == kind = "cube" /\ usage = "rendertarget"

\* A texture of a format and usage the game was told it may create can be
\* created, the unsized formats and cubes to render to apart, and nothing else
\* can, except a format for a use nobody checks (CheckDeviceFormat,
\* BaseTexture::Create, GpuTexture::InitViews).  The texture then says it has a
\* format for which it would be created alike, except that X8R8G8B8 reads back
\* as a format refused, and luminance ends the program.
AcceptedCanBeCreated ==
  given.kind = "query" =>
    LET accepted == CheckDeviceFormat(given.format, given.of, given.usage) = "OK"
        created == CreateSucceeds(given.format, given.of, given.usage)
    IN /\ accepted /\ given.format \notin Unsized /\ ~CubeTarget(given.of, given.usage) => created
       /\ created /\ given.of = "surface" => accepted
       /\ created /\ given.format \notin Misreported
            => DXGIFromD3DFormat(GetLevelDescFormat(given.format)) = DXGIFromD3DFormat(given.format)

\* The levels and faces of a texture's copy do not share a byte, an
\* upload of one reads exactly its bytes, and a locked rectangle is inside the
\* level it was asked for (the BaseTexture constructor, CpuTexture::LockRect,
\* CopySubresourceToGpuTexture).
LevelsAreDisjoint ==
  given.kind = "layout" =>
    /\ \A i \in Subresources(given) :
         BytesRead(given, i) = CompactOffset(given, i) .. CompactOffset(given, i + 1) - 1
    /\ given.bytes <= 4 =>
         \A i \in Subresources(given) :
            LET w == Size[given.width, LevelOf(i, given.mips)]
                h == Size[given.height, LevelOf(i, given.mips)]
            IN LockedByte(given, i, w - 1, h - 1) + given.bytes = CompactOffset(given, i + 1)

\* A texture the game was told it may create can be created, but for those
\* formats and cubes, and every byte it writes reaches its place in the level it
\* is meant for (CheckDeviceFormat, the BaseTexture constructor, InitViews,
\* LockRect, CopySubresourceToGpuTexture).
TexturesAreMadeAndFilled == AcceptedCanBeCreated /\ LevelsAreDisjoint
==============================================================================
