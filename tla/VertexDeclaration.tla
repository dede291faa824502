--------------------------- MODULE VertexDeclaration ---------------------------
(***************************************************************************)
(* From a vertex shader's declaration, or the flexible vertex format that  *)
(* stands for one, to an input layout (vertex_shader.cpp).  A declaration  *)
(* is a sequence of words; a word is named for what ParseShaderDeclaration *)
(* would read it as, since the data of a constant may look like any token. *)
(***************************************************************************)
EXTENDS Naturals, SequencesExt, TranslationCase

\* Register numbers of the fixed-function inputs.
POSITION == 0
NORMAL == 3
DIFFUSE == 5
SPECULAR == 6
TEXCOORD0 == 7

\* The bytes of D3DVSDT_FLOAT1, ... in a vertex.  D3DVSDT_SHORT2 is refused.
SizeOf == [float1 |-> 4, float2 |-> 8, float3 |-> 12, float4 |-> 16,
           color |-> 4, ubyte4 |-> 4, short4 |-> 8]

Nop == [is |-> "nop"]
End == [is |-> "end"]
Other == [is |-> "other"]      \* tessellator and extension tokens
StreamToken(s) == [is |-> "stream", slot |-> s]
Reg(r, type) == [is |-> "data", reg |-> r, type |-> type]
ConstToken(c, n) == [is |-> "const", reg |-> c, count |-> n]

\* What has been read so far.  "failed" is FAIL, which ends the program.
Empty == [elements |-> <<>>, strides |-> [s \in 0 .. 1 |-> 0],
          consts |-> [c \in 0 .. 3 |-> <<>>], failed |-> FALSE]

RECURSIVE AfterNops(_, _)
AfterNops(w, i) == IF w[i] = Nop THEN AfterNops(w, i + 1) ELSE i

\* The inputs of one stream, up to the first token that is not one.
RECURSIVE ReadInputs(_, _, _, _, _)
ReadInputs(w, i, slot, offset, d) ==
  IF w[i].is = "data"
  THEN ReadInputs(w, i + 1, slot, offset + SizeOf[w[i].type],
         [d EXCEPT !.elements =
            Append(@, [reg |-> w[i].reg, slot |-> slot, offset |-> offset, type |-> w[i].type])])
  ELSE [at |-> i, decl |-> [d EXCEPT !.strides[slot] = offset]]

StridePerStreamForgotten(w, i, slot, d) ==  \* fault: offsets go on from the last stream
  ReadInputs(w, i, slot, d.strides[0], d)
ReadStream(w, i, slot, d) == ReadInputs(w, i, slot, 0, d)

\* The four words of each constant; the words are left at the last of them.
ReadConstants(w, i, d) ==
  [at |-> i + 4 * w[i].count,
   decl |-> [d EXCEPT !.consts =
      [c \in DOMAIN @ |->
         IF c \in w[i].reg .. w[i].reg + w[i].count - 1
         THEN LET first == i + 1 + 4 * (c - w[i].reg) IN SubSeq(w, first, first + 3)
         ELSE @[c]]]]

RECURSIVE Read(_, _, _)
Read(w, i, d) ==
  IF w[i] = End THEN d
  ELSE LET j == AfterNops(w, i)
       IN CASE w[j].is = "stream" ->
                 LET r == ReadStream(w, AfterNops(w, j + 1), w[j].slot, d)
                 IN Read(w, r.at, r.decl)
            [] w[j].is = "const" ->
                 LET r == ReadConstants(w, j, d) IN Read(w, r.at, r.decl)
            [] OTHER -> [d EXCEPT !.failed = TRUE]

ParseShaderDeclaration(w) == Read(w, 1, Empty)

-----------------------------------------------------------------------------
\* CreateFromFVFDesc: the declaration a vertex format stands for.
FormatTokens(f) ==
  <<StreamToken(0), Reg(POSITION, IF f.rhw THEN "float4" ELSE "float3")>>
  \o (IF f.normal THEN <<Reg(NORMAL, "float3")>> ELSE <<>>)
  \o (IF f.diffuse THEN <<Reg(DIFFUSE, "color")>> ELSE <<>>)
  \o (IF f.specular THEN <<Reg(SPECULAR, "color")>> ELSE <<>>)
  \o [t \in 1 .. f.texcoords |-> Reg(TEXCOORD0 + t - 1, "float2")]
  \o <<End>>
CreateFromFVFDesc(f) == ParseShaderDeclaration(FormatTokens(f))

\* CreateFixedFunctionVertexShader: what the shader is told it has.
Types(decl, r) == {e.type : e \in {x \in ToSet(decl.elements) : x.reg = r}}
IsUntransformed(decl) == Types(decl, POSITION) = {"float3"}
NamedInputs == [HAS_DIFFUSE |-> DIFFUSE, HAS_SPECULAR |-> SPECULAR, HAS_NORMAL |-> NORMAL]
InputDefines(decl) == {name \in DOMAIN NamedInputs : Types(decl, NamedInputs[name]) # {}}
TexcoordDefines(decl) == {t \in 0 .. 7 : Types(decl, TEXCOORD0 + t) # {}}
Defines(decl, lightingMode) ==
  InputDefines(decl)
  \cup (IF lightingMode >= 1 THEN {"PER_PIXEL_LIGHTING"} ELSE {})
  \cup (IF IsUntransformed(decl) THEN {} ELSE {"HAS_TRANSFORM"})

-----------------------------------------------------------------------------
\* A declaration is made of chunks.
Layouts == {<<Reg(POSITION, "float3")>>,
            <<Reg(POSITION, "float3"), Reg(DIFFUSE, "color"), Reg(TEXCOORD0, "float2")>>,
            <<Reg(NORMAL, "ubyte4"), Reg(1, "short4")>>}
Vectors(firsts) == {<<Nop, x, StreamToken(1), Nop>> : x \in firsts}
StreamChunks == {<<StreamToken(s)>> \o gap \o l : s \in 0 .. 1, gap \in {<<>>, <<Nop>>}, l \in Layouts}
\* The last word of a constant is zero, the others are anything.
ConstChunks ==
  {<<ConstToken(c, 1)>> \o v : c \in 0 .. 3, v \in Vectors({Other, End})} \cup
  {<<ConstToken(1, 2)>> \o v \o u : v \in Vectors({Other, End}), u \in Vectors({Other})}
DeclarationCases ==
  [kind : {"declaration"}, chunks : SeqOf(StreamChunks \cup ConstChunks \cup {<<Nop>>}, 2)]
FormatCases ==
  [kind : {"format"}, rhw : BOOLEAN, normal : BOOLEAN, diffuse : BOOLEAN,
   specular : BOOLEAN, texcoords : 0 .. 8]

\* What the chunks mean: each stream's inputs one after the other, each
\* register's constant; a later chunk for a slot or a register wins.
SizeUpTo(l, n) == FoldLeft(LAMBDA sum, x : sum + SizeOf[x.type], 0, SubSeq(l, 1, n))
InputsOf(chunk) == SelectSeq(chunk, LAMBDA x : x.is = "data")
MeantElements(chunk) ==
  LET l == InputsOf(chunk)
  IN [n \in 1 .. Len(l) |-> [reg |-> l[n].reg, slot |-> chunk[1].slot,
                             offset |-> SizeUpTo(l, n - 1), type |-> l[n].type]]
IsStream(chunk) == chunk[1].is = "stream"
MeantStride(chunks, s) ==
  LET of == SelectSeq(chunks, LAMBDA x : IsStream(x) /\ x[1].slot = s)
  IN IF of = <<>> THEN 0 ELSE SizeUpTo(InputsOf(Last(of)), Len(InputsOf(Last(of))))
MeantDeclaration(chunks) ==
  [elements |-> FlattenSeq([n \in 1 .. Len(chunks) |->
                   IF IsStream(chunks[n]) THEN MeantElements(chunks[n]) ELSE <<>>]),
   strides |-> [s \in 0 .. 1 |-> MeantStride(chunks, s)]]

Parsed(case) == ParseShaderDeclaration(FlattenSeq(case.chunks) \o <<End>>)
ReadsAsMeant(case) ==
  /\ ~Parsed(case).failed
  /\ Parsed(case).elements = MeantDeclaration(case.chunks).elements
  /\ Parsed(case).strides = MeantDeclaration(case.chunks).strides

EndsInInputs(case) == case.chunks # <<>> /\ IsStream(Last(case.chunks))

\* ParseShaderDeclaration finds each stream's inputs at the right offsets and
\* its stride, whatever NOPs and constants stand between them, as long as the
\* last word of a constant is zero and inputs come last: a NOP or such a word
\* right before the end is skipped and the end taken for an unexpected token.
\* A flexible vertex format is read in the order D3D8 fixes, and the shader is
\* told of exactly the inputs the layout has (CreateFromFVFDesc,
\* ParseShaderDeclaration, CreateFixedFunctionVertexShader).
DeclarationsAreRead ==
  /\ given.kind = "declaration" /\ EndsInInputs(given) => ReadsAsMeant(given)
  /\ given.kind = "format" =>
    LET d == CreateFromFVFDesc(given)
        before == (IF given.rhw THEN 16 ELSE 12) + (IF given.normal THEN 12 ELSE 0)
                  + (IF given.diffuse THEN 4 ELSE 0) + (IF given.specular THEN 4 ELSE 0)
    IN /\ ~d.failed
       /\ d.strides[0] = before + 8 * given.texcoords
       /\ \A t \in 0 .. given.texcoords - 1 : \E e \in ToSet(d.elements) :
             e = [reg |-> TEXCOORD0 + t, slot |-> 0, offset |-> before + 8 * t, type |-> "float2"]
       /\ ("HAS_TRANSFORM" \in Defines(d, 0)) = given.rhw
       /\ ("HAS_NORMAL" \in Defines(d, 1)) = given.normal
       /\ TexcoordDefines(d) = 0 .. given.texcoords - 1
==============================================================================
