---------------------------- MODULE StructFields ----------------------------
(* Elements as Element.java, cpp/Element.cpp and the core (rsElement.cpp,     *)
(* rsComponent.cpp) size them and lay out their fields, the write of one      *)
(* field (setFromFieldPacker, elementData) and the packed form allocations    *)
(* are serialised in (rsAllocation.cpp). An element keeps the sizes the three *)
(* layers cached for it: jSize and cSize in bytes, mBits and mBitsUnpadded.   *)
EXTENDS Integers, Sequences, SequencesExt

CONSTANTS
  PointerSize, \* RenderScript.sPointerSize; __LP64__ in the core
  MaxFields,   \* the calls of Builder.add
  StructCells        \* the cells of the allocation

VARIABLES
  asked,   \* the element the application asks for: [op, dt, dk, n]
  builder, \* [fields, skip, calls]
  elem,    \* the struct created, NoElement before
  store,     \* the bytes of its allocation
  wrote,   \* the last field write: [x, c, size, ok]
  loaded   \* the bytes of the allocation serialised and read back

fieldVars == <<asked, builder, elem, store, wrote, loaded>>

FieldTypes == {"U8", "U16", "F32", "MAT3", "P565", "P4444", "OBJ"}
PixelKinds == {"L", "A", "LA", "RGB", "RGBA", "DEPTH", "YUV"}
Packed == {"P565", "P4444"}
Wide == PointerSize = 8

\* DataType of Element.java, GetSizeInBytesForType of cpp/Element.cpp, mTypeBits.
DataType(dt) == CASE dt = "U8" -> 1 [] dt \in {"U16", "P565", "P4444"} -> 2 [] dt = "F32" -> 4
                  [] dt = "MAT3" -> 36 [] dt = "OBJ" -> IF Wide THEN 32 ELSE 4
GetSizeInBytesForType(dt) == CASE dt = "U8" -> 1 [] dt \in {"U16", "P565", "P4444"} -> 2
                               [] dt \in {"F32", "OBJ"} -> 4 [] dt = "MAT3" -> 9 * 4
mTypeBits(dt) == CASE dt = "U8" -> 8 [] dt = "U16" -> 16 [] dt = "F32" -> 32 [] dt \in Packed -> 0
                   [] dt = "MAT3" -> 9 * 32 [] dt = "OBJ" -> IF Wide THEN 256 ELSE 32
rsHigherPow2(n) == CHOOSE p \in {1, 2, 4} : p >= n /\ \A q \in {1, 2, 4} : q >= n => q >= p

\* The element constructors of the front ends and Component::set, which leaves
\* mBitsUnpadded unset for packed pixels and objects.
ElementJava(dt, n) == DataType(dt) * (IF dt \in Packed THEN 1 ELSE IF n = 3 THEN 4 ELSE n)
ElementCpp(dt, n) == GetSizeInBytesForType(dt) * (IF dt \in Packed THEN 1 ELSE IF n = 3 THEN 4 ELSE n)
Uninitialised == {0, 16}
Component(dt, n) ==
  [mBits : {IF dt \in Packed THEN 16 ELSE IF dt = "OBJ" THEN mTypeBits(dt) ELSE mTypeBits(dt) * rsHigherPow2(n)},
   mBitsUnpadded : IF dt \in Packed \cup {"OBJ"} THEN Uninitialised ELSE {mTypeBits(dt) * n}]
\* The assertions of Component::set on a kind and a type.
ComponentAsserts(dt, dk, n) ==
  /\ dk \in {"L", "A", "YUV"} => n = 1
  /\ dk = "LA" => n = 2
  /\ dk = "RGB" => n = 3
  /\ dk = "RGBA" => n = 4
  /\ dt = "P565" => dk = "RGB"
  /\ dt = "P4444" => dk = "RGBA"
  /\ dt \in {"MAT3", "OBJ"} => dk = "USER" /\ n = 1

\* createUser, createVector and createPixel: the vector size, 0 when refused.
Primitive == {"U8", "U16", "F32"}
createVectorJava(dt, n) == IF n \in 2 .. 4 /\ dt \in Primitive THEN n ELSE 0
createVectorCpp(dt, n) == IF n \in 2 .. 4 THEN n ELSE 0
PixelAllowed(dt, dk) ==
  /\ dk \in PixelKinds /\ dt \in {"U8", "U16"} \cup Packed
  /\ dt = "P565" => dk = "RGB"
  /\ dt = "P4444" => dk = "RGBA"
  /\ dt = "U16" => dk = "DEPTH"
PixelSize(dk) == CASE dk = "LA" -> 2 [] dk = "RGB" -> 3 [] dk = "RGBA" -> 4 [] OTHER -> 1
createPixelJava(dt, dk) == IF PixelAllowed(dt, dk) THEN PixelSize(dk) ELSE 0
createPixelCpp(dt, dk) == IF PixelAllowed(dt, dk) THEN IF dk = "DEPTH" THEN 2 ELSE PixelSize(dk) ELSE 0
UserRequests == {[op |-> "user", dt |-> dt, dk |-> "USER", n |-> 1] : dt \in FieldTypes \ Packed}
VectorRequests == {[op |-> "vector", dt |-> dt, dk |-> "USER", n |-> n] : dt \in FieldTypes, n \in 1 .. 5}
PixelRequests == {[op |-> "pixel", dt |-> dt, dk |-> dk, n |-> 1] : dt \in FieldTypes, dk \in PixelKinds}
createJava(r) == CASE r.op = "user" -> 1 [] r.op = "vector" -> createVectorJava(r.dt, r.n)
                   [] r.op = "pixel" -> createPixelJava(r.dt, r.dk)
createCpp(r) == CASE r.op = "user" -> 1 [] r.op = "vector" -> createVectorCpp(r.dt, r.n)
                  [] r.op = "pixel" -> createPixelCpp(r.dt, r.dk)
\* The creation of elements by a script (rs_allocation.c); OBJ is one of the four
\* kinds of objects rsCreateElement knows.
rsCreateVectorElement(dt, n) == IF n \in 2 .. 4 /\ dt \in Primitive THEN n ELSE 0
rsCreatePixelElement(dt, dk) ==
  IF PixelAllowed(dt, dk) THEN CASE dk \in {"LA", "DEPTH"} -> 2 [] dk = "RGB" -> 3 [] dk = "RGBA" -> 4 [] OTHER -> 1
  ELSE 0
rsCreateElement(r) == CASE r.op = "user" -> IF r.dt \in Packed THEN 0 ELSE 1
                        [] r.op = "vector" -> rsCreateVectorElement(r.dt, r.n)
                        [] r.op = "pixel" -> rsCreatePixelElement(r.dt, r.dk)

Basic(dt, n) == {[vec |-> n, jSize |-> ElementJava(dt, n), cSize |-> ElementCpp(dt, n),
                  mBits |-> c.mBits, mBitsUnpadded |-> c.mBitsUnpadded,
                  unset |-> dt \in Packed \cup {"OBJ"}, obj |-> dt = "OBJ", fields |-> <<>>] : c \in Component(dt, n)}
NoElement == [vec |-> 0, jSize |-> 0, cSize |-> 0, mBits |-> 0, mBitsUnpadded |-> 0,
              unset |-> FALSE, obj |-> FALSE, fields |-> <<>>]

\* Sum over the first k fields of a struct.
SumTo(fields, k, Of(_)) == FoldLeft(LAMBDA s, f : s + Of(f) * f.arr, 0, SubSeq(fields, 1, k))
Offsets(fields, Of(_)) == [k \in 1 .. Len(fields) |-> SumTo(fields, k - 1, Of)]
JavaBytes(f) == f.e.jSize
CppSize(f) == f.e.cSize
Bits(f) == f.e.mBits
BitsUnpadded(f) == f.e.mBitsUnpadded
\* The struct constructors of the front ends, and Element::compute.
mOffsetInBytesJava(e) == Offsets(e.fields, JavaBytes)
mOffsetInBytesCpp(e) == Offsets(e.fields, CppSize)
offsetBits(e) == Offsets(e.fields, Bits)
offsetBitsUnpadded(e) == Offsets(e.fields, BitsUnpadded)
Struct(fields) ==
  LET n == Len(fields)
  IN [vec |-> 1, jSize |-> SumTo(fields, n, JavaBytes), cSize |-> SumTo(fields, n, CppSize),
      mBits |-> SumTo(fields, n, Bits), mBitsUnpadded |-> SumTo(fields, n, BitsUnpadded),
      unset |-> \E k \in 1 .. n : fields[k].e.unset, obj |-> \E k \in 1 .. n : fields[k].e.obj, fields |-> fields]
\* updateVisibleSubElements; compute's fields of the HAL: '#' names are hidden.
VisibleJava(e) == SelectSeq([k \in 1 .. Len(e.fields) |-> k], LAMBDA k : e.fields[k].name = "named")
VisibleCore(e) == SelectSeq([k \in 1 .. Len(e.fields) |-> k], LAMBDA k : e.fields[k].name = "named")
SubElementOffsets(e) == [i \in 1 .. Len(VisibleJava(e)) |-> mOffsetInBytesJava(e)[VisibleJava(e)[i]]]
fieldOffsetBytes(e) == [i \in 1 .. Len(VisibleCore(e)) |-> offsetBits(e)[VisibleCore(e)[i]] \div 8]

\* Builder.add: padding after a vector of three is dropped, it is part of the vector.
\* The names are "named" and "padding" ("#padding_...").
add(b, e, name, arr) ==
  IF arr < 1 THEN b
  ELSE IF b.skip /\ name = "padding" THEN [b EXCEPT !.skip = FALSE]
  ELSE [b EXCEPT !.fields = Append(@, [e |-> e, name |-> name, arr |-> arr]), !.skip = e.vec = 3]
-----------------------------------------------------------------------------
SizeBytes(e) == e.mBits \div 8
BytesUnpadded(e) == e.mBitsUnpadded \div 8
\* writePackedData: from one form of the cells to the other, field by field. The source
\* is a function of byte offsets; the bytes not written are 0.
FieldBytes(e) == {<<k, i>> \in (1 .. Len(e.fields)) \X (0 .. 35) : i < BytesUnpadded(e.fields[k].e)}
writePackedData(e, src, dstPadded) ==
  LET padded == [k \in 1 .. Len(e.fields) |-> offsetBits(e)[k] \div 8]
      unpadded == [k \in 1 .. Len(e.fields) |-> offsetBitsUnpadded(e)[k] \div 8]
      srcOff == IF dstPadded THEN unpadded ELSE padded
      dstOff == IF dstPadded THEN padded ELSE unpadded
      srcInc == IF dstPadded THEN BytesUnpadded(e) ELSE SizeBytes(e)
      dstInc == IF dstPadded THEN SizeBytes(e) ELSE BytesUnpadded(e)
      from(cell, o) == {src[cell * srcInc + srcOff[fb[1]] + fb[2]] : fb \in {g \in FieldBytes(e) : dstOff[g[1]] + g[2] = o}}
  IN [b \in 0 .. StructCells * dstInc - 1 |->
        LET s == from(b \div dstInc, b % dstInc) IN IF s = {} THEN 0 ELSE CHOOSE v \in s : TRUE]
\* Allocation::serialize and createFromStream: the packed form when it is smaller.
serialize(e, m) == IF SizeBytes(e) = BytesUnpadded(e) THEN m ELSE writePackedData(e, m, FALSE)
createFromStream(e, stream) ==
  IF SizeBytes(e) = BytesUnpadded(e) THEN stream ELSE writePackedData(e, stream, TRUE)

\* setFromFieldPacker(xoff, component_number, fp), nAllocationElementData1D, elementData
\* and the driver: what the write of size bytes does to the memory.
SetAccepted(e, x, c, size) == c <= Len(e.fields) /\ x >= 0 /\ size = e.fields[c].e.jSize * e.fields[c].arr
elementDataAccepted(e, x, c, size) ==
  x < StructCells /\ c <= Len(e.fields) /\ size = SizeBytes(e.fields[c].e) * e.fields[c].arr
ElementDataVisible(e, m, x, c, size, v) ==
  LET at == x * SizeBytes(e) + (IF c <= Len(fieldOffsetBytes(e)) THEN fieldOffsetBytes(e)[c] ELSE 0)
  IN [b \in DOMAIN m |-> IF b \in at .. at + size - 1 THEN v ELSE m[b]]
ElementData(e, m, x, c, size, v) ==
  LET at == x * SizeBytes(e) + (offsetBits(e)[c] \div 8)
  IN [b \in DOMAIN m |-> IF b \in at .. at + size - 1 THEN v ELSE m[b]]
-----------------------------------------------------------------------------
Scalars == UNION {Basic("U8", 1), Basic("F32", 1), Basic("U8", 3), Basic("OBJ", 1)}
InnerFields == LET B(dt, n) == CHOOSE e \in Basic(dt, n) : TRUE
               IN <<[e |-> B("U8", 3), name |-> "named", arr |-> 1], [e |-> B("U8", 1), name |-> "named", arr |-> 1]>>
FieldElements == Scalars \cup {Struct(InnerFields)}
NoWrite == [x |-> 0, c |-> 1, size |-> 0, ok |-> FALSE]
FreshCells(e) == [b \in 0 .. StructCells * SizeBytes(e) - 1 |-> b + 1]

FieldsInit ==
  /\ asked \in UserRequests \cup VectorRequests \cup PixelRequests
  /\ builder = [fields |-> <<>>, skip |-> FALSE, calls |-> 0]
  /\ elem = NoElement /\ store = <<>> /\ wrote = NoWrite /\ loaded = <<>>

BuilderAdd(e, name, arr) ==
  /\ elem = NoElement /\ builder.calls < MaxFields
  /\ name = "padding" => e.jSize = 1 /\ arr = 1
  /\ builder' = [add(builder, e, name, arr) EXCEPT !.calls = @ + 1]
  /\ UNCHANGED <<asked, elem, store, wrote, loaded>>
BuilderCreate ==
  /\ elem = NoElement /\ builder.fields # <<>>
  /\ elem' = Struct(builder.fields)
  /\ store' = FreshCells(elem')
  /\ UNCHANGED <<asked, builder, wrote, loaded>>
SetField(x, c, size) ==
  /\ elem # NoElement /\ wrote = NoWrite /\ loaded = <<>>
  /\ SetAccepted(elem, x, c, size)
  /\ IF elementDataAccepted(elem, x, c, size)
     THEN store' = ElementData(elem, store, x, c, size, -1)
     ELSE store' = store
  /\ wrote' = [x |-> x, c |-> c, size |-> size, ok |-> elementDataAccepted(elem, x, c, size)]
  /\ UNCHANGED <<asked, builder, elem, loaded>>
SerializeAndLoad ==
  /\ elem # NoElement /\ wrote = NoWrite /\ loaded = <<>> /\ ~elem.unset /\ SizeBytes(elem) > 0
  /\ loaded' = createFromStream(elem, serialize(elem, store))
  /\ UNCHANGED <<asked, builder, elem, store, wrote>>

FirstRequest == [op |-> "user", dt |-> "U8", dk |-> "USER", n |-> 1]
FieldsNext ==
  /\ asked = FirstRequest
  /\ \/ \E e \in FieldElements, name \in {"named", "padding"}, arr \in 0 .. 2 : BuilderAdd(e, name, arr)
     \/ BuilderCreate
     \/ \E x \in 0 .. StructCells, c \in 1 .. Len(elem.fields) + 1 :
          \E size \in {elem.fields[k].e.jSize * elem.fields[k].arr : k \in 1 .. Len(elem.fields)} : SetField(x, c, size)
     \/ SerializeAndLoad

\* The front ends and the core give one element the same size and its fields the same
\* offsets and visible fields, and what createPixel accepts meets the core's
\* assertions (C++ excepted where its sizes differ: objects on 64 bits, PIXEL_DEPTH).
\* A script can create the elements an application can, with the sizes C++ gives them.
LayoutsAgree ==
  /\ LET n == createJava(asked)
         m == createCpp(asked)
     IN /\ n # 0 => /\ ComponentAsserts(asked.dt, asked.dk, n)
                    /\ \A c \in Component(asked.dt, n) : c.mBits = 8 * ElementJava(asked.dt, n)
                    /\ m # 0
        /\ (n # 0 /\ asked.dk # "DEPTH") => m = n
        /\ rsCreateElement(asked) = IF n = 0 THEN 0 ELSE m
  /\ \A k \in 1 .. Len(elem.fields) : offsetBits(elem)[k] = 8 * mOffsetInBytesJava(elem)[k]
  /\ elem.mBits = 8 * elem.jSize
  /\ SubElementOffsets(elem) = fieldOffsetBytes(elem)
  /\ (~elem.obj \/ ~Wide) => mOffsetInBytesCpp(elem) = mOffsetInBytesJava(elem) /\ elem.cSize = elem.jSize

\* A field write the core accepts changes the bytes Element.java gives the field in
\* that cell, all of them, and no others; what it refuses changes nothing.
FieldWriteExact ==
  wrote' # wrote =>
    LET at == wrote'.x * elem.jSize + mOffsetInBytesJava(elem)[wrote'.c]
    IN \A b \in DOMAIN store : store'[b] # store[b] <=> (wrote'.x < StructCells /\ b \in at .. at + wrote'.size - 1)

\* Serialising an allocation and reading it back keeps every byte of every field
\* (not the padding of vectors), for structs whose packed form has no arrays and no
\* struct with padding of its own, the case packVec3Allocation was written for.
Data(e) == {o \in 0 .. SizeBytes(e) - 1 : \E k \in 1 .. Len(e.fields) :
              o \in (offsetBits(e)[k] \div 8) .. (offsetBits(e)[k] + e.fields[k].e.mBitsUnpadded) \div 8 - 1}
Packable(e) == \A k \in 1 .. Len(e.fields) :
                 e.fields[k].arr = 1 /\ (e.fields[k].e.fields # <<>> => e.fields[k].e.mBits = e.fields[k].e.mBitsUnpadded)
PackedRoundTrip ==
  (loaded # <<>> /\ (Packable(elem) \/ elem.mBits = elem.mBitsUnpadded)) =>
    \A b \in DOMAIN store : (b % SizeBytes(elem)) \in Data(elem) => loaded[b] = store[b]
=============================================================================
