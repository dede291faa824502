------------------------------ MODULE DrawCalls ------------------------------
(***************************************************************************)
(* What the four draw calls (device.cpp) make of the primitives a game     *)
(* asks for.  D3D12 has no fans, and stays inside the views it is given:   *)
(* fans become lists, the game's own memory is copied, and the views       *)
(* decide which vertices a draw can reach.  A vertex is the memory it is   *)
(* in and the byte it begins at.                                           *)
(***************************************************************************)
EXTENDS Naturals, Sequences, TranslationCase

PrimitiveTypes == {"POINTLIST", "LINELIST", "LINESTRIP", "TRIANGLELIST",
                   "TRIANGLESTRIP", "TRIANGLEFAN"}

\* The elements that are the corners of a primitive, in D3D8 and but for fans in
\* D3D12.
Corners(type, i) ==
  CASE type = "POINTLIST"     -> <<i>>
    [] type = "LINELIST"      -> <<2 * i, 2 * i + 1>>
    [] type = "LINESTRIP"     -> <<i, i + 1>>
    [] type = "TRIANGLELIST"  -> <<3 * i, 3 * i + 1, 3 * i + 2>>
    [] type = "TRIANGLESTRIP" -> <<i, i + 1, i + 2>>
    [] type = "TRIANGLEFAN"   -> <<0, i + 1, i + 2>>

\* The first n elements make as many primitives as have all their corners.
Assembled(type, n, vertex) ==
  [i \in {j \in 0 .. n - 1 : \A k \in DOMAIN Corners(type, j) : Corners(type, j)[k] < n} |->
     [k \in DOMAIN Corners(type, i) |-> vertex[Corners(type, i)[k]]]]

-----------------------------------------------------------------------------
\* The types each call counts the elements of; any other ends the program.
Supported ==
  [DrawPrimitive          |-> PrimitiveTypes,
   DrawPrimitiveUP        |-> {"LINELIST", "TRIANGLELIST", "TRIANGLESTRIP", "TRIANGLEFAN"},
   DrawIndexedPrimitive   |-> PrimitiveTypes \ {"TRIANGLEFAN"},
   DrawIndexedPrimitiveUP |-> {"LINELIST", "TRIANGLELIST", "TRIANGLESTRIP"}]
VertexCount(type, primitives) ==
  CASE type = "POINTLIST"     -> primitives
    [] type = "LINELIST"      -> 2 * primitives
    [] type = "LINESTRIP"     -> 1 + primitives
    [] type = "TRIANGLELIST"  -> 3 * primitives
    [] type = "TRIANGLESTRIP" -> 2 + primitives

\* A fan as a list: 0, i + 1, i + 2.
FanElement(e) == IF e % 3 = 0 THEN 0 ELSE (e \div 3) + (e % 3)

\* The view of a stream spans the whole buffer, in vertices of the size the
\* shader declares.  What lies behind a view reads as nothing.
BehindTheView == <<"nothing", 0>>
ByteOf(memory, size, stride, n) ==
  IF (n + 1) * stride <= size THEN <<memory, n * stride>> ELSE BehindTheView
HintedVertex(c, n) ==  \* fault: the view ends where the call says its vertices do
  ByteOf("stream", (c.base + c.min + c.number) * c.declared, c.declared, n)
StreamVertex(c, n) == ByteOf("stream", c.width, c.declared, n)

Index16 == 65536
DrawPrimitive(c) ==
  IF c.type = "TRIANGLEFAN"
  THEN Assembled("TRIANGLELIST", 3 * c.count,
                 [e \in 0 .. 3 * c.count - 1 |->
                    StreamVertex(c, (c.start + FanElement(e)) % Index16)])
  ELSE LET n == VertexCount(c.type, c.count)
       IN Assembled(c.type, n, [e \in 0 .. n - 1 |-> StreamVertex(c, c.start + e)])

\* The copy of the vertices holds a fan's as a list.
DrawPrimitiveUP(c) ==
  LET fan == c.type = "TRIANGLEFAN"
      type == IF fan THEN "TRIANGLELIST" ELSE c.type
      n == VertexCount(type, c.count)
  IN Assembled(type, n, [e \in 0 .. n - 1 |->
       <<"memory", (IF fan THEN FanElement(e) ELSE e) * c.stride>>])

\* A draw is cut where the index buffer, padding included, ends.
DrawIndexedPrimitive(c) ==
  LET n == VertexCount(c.type, c.count)
      indices_in_buffer == Len(c.indices)
      clamped == IF c.start >= indices_in_buffer THEN 0
                 ELSE IF c.start + n > indices_in_buffer THEN indices_in_buffer - c.start
                 ELSE n
  IN Assembled(c.type, clamped,
               [e \in 0 .. clamped - 1 |-> StreamVertex(c, c.base + c.indices[c.start + e + 1])])

\* Indices count from the start of the game's memory, copied up to the end of
\* the range the call names.
DrawIndexedPrimitiveUP(c) ==
  LET n == VertexCount(c.type, c.count)
  IN Assembled(c.type, n, [e \in 0 .. n - 1 |->
       ByteOf("memory", (c.min + c.number) * c.stride, c.stride, c.indices[e + 1])])

Drawn(c) ==
  CASE c.call = "DrawPrimitive"          -> DrawPrimitive(c)
    [] c.call = "DrawPrimitiveUP"        -> DrawPrimitiveUP(c)
    [] c.call = "DrawIndexedPrimitive"   -> DrawIndexedPrimitive(c)
    [] c.call = "DrawIndexedPrimitiveUP" -> DrawIndexedPrimitiveUP(c)

-----------------------------------------------------------------------------
\* The calls: a buffer of a few vertices more than 16 bits can count, a short
\* index buffer, ranges that say too much or too little.
VertexSizes == {4, 12}
DrawCases ==
  [kind : {"draw"}, call : {"DrawPrimitive"}, type : PrimitiveTypes, count : 1 .. 3,
   start : {0, 5, Index16 - 4, Index16 - 3, Index16 + 1}, base : {0}, min : {0}, number : {0},
   stride : VertexSizes, declared : VertexSizes, width : {(Index16 + 16) * 12}, indices : {<<>>}]
  \cup
  [kind : {"draw"}, call : {"DrawPrimitiveUP"}, type : PrimitiveTypes, count : 1 .. 3,
   stride : VertexSizes]
  \cup
  [kind : {"draw"}, call : {"DrawIndexedPrimitive"}, type : PrimitiveTypes, count : 1 .. 3,
   start : 0 .. 6, base : {0, 3}, min : {0, 1}, number : {2, 6},
   stride : VertexSizes, declared : VertexSizes, width : {9 * 12},
   indices : {<<0, 1, 2, 3, 4, 5>>, <<5, 3, 3, 0, 1>>, <<2, 4>>}]
  \cup
  [kind : {"draw"}, call : {"DrawIndexedPrimitiveUP"}, type : PrimitiveTypes, count : 1 .. 3,
   min : 0 .. 2, number : 1 .. 6, stride : VertexSizes,
   indices : {<<0, 1, 2, 3, 4, 5, 1, 2, 0>>, <<5, 3, 3, 4, 5, 3, 4, 3, 5>>}]

\* What D3D8 is asked to draw: element e of a call is a vertex, found at the
\* stride of SetStreamSource or of the call.
AskedVertex(c, e) ==
  CASE c.call = "DrawPrimitive"          -> <<"stream", (c.start + e) * c.stride>>
    [] c.call = "DrawPrimitiveUP"        -> <<"memory", e * c.stride>>
    [] c.call = "DrawIndexedPrimitive"   ->
         <<"stream", (c.base + c.indices[c.start + e + 1]) * c.stride>>
    [] c.call = "DrawIndexedPrimitiveUP" -> <<"memory", c.indices[e + 1] * c.stride>>
Askable(c, e) == c.call = "DrawIndexedPrimitive" => c.start + e < Len(c.indices)
Asked(c) ==
  [i \in {j \in 0 .. c.count - 1 :
            \A k \in DOMAIN Corners(c.type, j) : Askable(c, Corners(c.type, j)[k])} |->
     [k \in DOMAIN Corners(c.type, i) |-> AskedVertex(c, Corners(c.type, i)[k])]]

\* What the code does not provide for: types that end the program, vertices of a
\* fan that 16 bits do not count, a stream whose stride is not what the shader
\* declares, indices outside the range given to DrawIndexedPrimitiveUP.
Drawable(c) ==
  LET used == VertexCount(IF c.type = "TRIANGLEFAN" THEN "TRIANGLESTRIP" ELSE c.type, c.count)
  IN /\ c.type \in Supported[c.call]
     /\ c.call = "DrawPrimitive" /\ c.type = "TRIANGLEFAN" => c.start + used <= Index16
     /\ c.call \in {"DrawPrimitive", "DrawIndexedPrimitive"} => c.stride = c.declared
     /\ c.call = "DrawIndexedPrimitiveUP" => \A e \in 1 .. used : c.indices[e] < c.min + c.number

\* Every call draws the primitives it was asked for, of the vertices the game
\* means, less those whose indices lie behind the index buffer (DrawPrimitive,
\* DrawPrimitiveUP, DrawIndexedPrimitive, DrawIndexedPrimitiveUP and the views
\* PrepareDrawCall binds), whatever range DrawIndexedPrimitive is given; the
\* calls the code does not provide for apart.
PrimitivesAreDrawn ==
  given.kind = "draw" /\ Drawable(given) => Drawn(given) = Asked(given)
==============================================================================
