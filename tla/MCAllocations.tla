---------------------------- MODULE MCAllocations ----------------------------
(***************************************************************************)
(* What allocations hold and how it is reached: copies, packed fields,     *)
(* struct elements, script accesses, and the buffer queues of IO           *)
(* allocations.  A behaviour explores one of them, chosen at the start;    *)
(* the variables of the others stay at Off.                                *)
(***************************************************************************)
EXTENDS MCCopies, FieldPacker, StructFields, ScriptAccess, IoInput, IoOutput, TLC

\* What scripts access: every pixel kind in one and two dimensions, with levels
\* and without, and buffers of one to three dimensions and of frames.
Of(kind) == CASE kind = "RGBA" -> "RGBA_8888" [] kind = "RGB" -> "U8_3" [] kind = "565" -> "RGB_565"
              [] kind \in {"A", "L"} -> "A_8" [] kind = "LA" -> "U16"
Mips(t) == [t EXCEPT !.lods = TRUE]
MCTextures ==
  {[kind |-> "RGBA", type |-> t, texture |-> TRUE]
     : t \in {Mips(Type("RGBA_8888", 4, 0, 0)), Mips(Type("RGBA_8888", 3, 4, 0))}}
  \cup {[kind |-> k, type |-> Type(Of(k), 3, y, 0), texture |-> TRUE]
          : k \in {"RGB", "565", "A", "L", "LA"}, y \in {0, 2}}
  \cup {[kind |-> "A", type |-> Type("A_8", 2, 2, 0), texture |-> FALSE]}
MCBuffers ==
  {Type("U8_3", 3, 0, 0), Type("U8", 3, 2, 0), Type("U16", 2, 3, 2), Mips(Type("RGBA_8888", 3, 2, 0)),
   [Type("YUV", 4, 4, 0) EXCEPT !.yuv = "YV12"], [Type("YUV", 6, 4, 0) EXCEPT !.yuv = "NV21"]}
\* The allocations that share a queue are interchangeable.
MCSymmetry == Permutations(InAllocs)
MCPlaces == {-17, -4, 3, 8, 15, 16, 29}

VARIABLE part   \* "copies", "packer", "fields", "access", "input", "output"

vars == <<part, copyVars, packerVars, fieldVars, accessVars, inputVars, outputVars>>

Off == 0
CopyOff == /\ type = Off /\ tab = Off /\ mem = Off /\ req = Off /\ cmd = Off /\ out = Off
           /\ error = Off /\ stray = Off /\ ops = Off
PackerOff == packer = Off /\ stack = Off /\ popped = Off /\ adds = Off /\ wasReset = Off
FieldsOff == asked = Off /\ builder = Off /\ elem = Off /\ store = Off /\ wrote = Off /\ loaded = Off
AccessOff == alloc = Off /\ sampler = Off /\ did = Off
InputOff == inAlloc = Off /\ queue = Off /\ frames = Off /\ callback = Off
OutputOff == /\ front = Off /\ support = Off /\ outAlloc = Off /\ window = Off /\ sends = Off
             /\ failed = Off /\ calls = Off

Init ==
  \/ part = "copies" /\ CopyInit /\ PackerOff /\ FieldsOff /\ AccessOff /\ InputOff /\ OutputOff
  \/ part = "packer" /\ PackerInit /\ CopyOff /\ FieldsOff /\ AccessOff /\ InputOff /\ OutputOff
  \/ part = "fields" /\ FieldsInit /\ CopyOff /\ PackerOff /\ AccessOff /\ InputOff /\ OutputOff
  \/ part = "access" /\ AccessInit /\ CopyOff /\ PackerOff /\ FieldsOff /\ InputOff /\ OutputOff
  \/ part = "input" /\ InputInit /\ CopyOff /\ PackerOff /\ FieldsOff /\ AccessOff /\ OutputOff
  \/ part = "output" /\ OutputInit /\ CopyOff /\ PackerOff /\ FieldsOff /\ AccessOff /\ InputOff

Next ==
  \/ /\ part = "copies" /\ CopyNext
     /\ UNCHANGED <<part, packerVars, fieldVars, accessVars, inputVars, outputVars>>
  \/ /\ part = "packer" /\ PackerNext
     /\ UNCHANGED <<part, copyVars, fieldVars, accessVars, inputVars, outputVars>>
  \/ /\ part = "fields" /\ FieldsNext
     /\ UNCHANGED <<part, copyVars, packerVars, accessVars, inputVars, outputVars>>
  \/ /\ part = "access" /\ AccessNext
     /\ UNCHANGED <<part, copyVars, packerVars, fieldVars, inputVars, outputVars>>
  \/ /\ part = "input" /\ InputNext
     /\ UNCHANGED <<part, copyVars, packerVars, fieldVars, accessVars, outputVars>>
  \/ /\ part = "output" /\ OutputNext
     /\ UNCHANGED <<part, copyVars, packerVars, fieldVars, accessVars, inputVars>>

Spec == Init /\ [][Next]_vars

\* A copy into or out of an allocation that the front end and the core accept
\* moves the bytes of the region asked for and no others; a whole YUV frame
\* fills its planes, and resize1D keeps the cells that both sizes have
\* (Allocation.java, cpp/Allocation.cpp, rsdAllocationData1D to Read3D).
CopiesExact ==
  [][part = "copies" => WritesExact /\ ReadsExact /\ FrameCopied /\ ResizeKeeps]_vars

\* No accepted copy leaves the allocation or the caller's array; every cell of
\* every level and face has bytes of its own; the front ends and the core count
\* the same cells, and memory shared with the vendor's driver is laid out alike
\* (AllocationBuildPointerTable, nIncAllocationCreateTyped).
LayoutSound ==
  part = "copies" => StaysInside /\ CellsApart /\ CountsAgree /\ SharedLayoutSame

\* What FieldPacker packs is read by the core where it was put and comes back
\* in reverse order; Java, C++, the core and the script runtime lay an element
\* out alike, and a struct serialised without the padding of its vectors reads
\* back unchanged (FieldPacker.java, Element.java, cpp/Element.cpp,
\* Element::compute, writePackedData).
FieldsExact == /\ part = "packer" => PackedInOrder /\ SubReturnsAdded
               /\ part = "fields" => LayoutsAgree /\ PackedRoundTrip

\* setFromFieldPacker on one field of one cell changes that field in that cell
\* only (Allocation::elementData, rsdAllocationElementData).
FieldStored == [][part = "fields" => FieldWriteExact]_vars

\* rsSample returns what its sampler describes where rs_sample.c implements it,
\* and every accessor of rs_allocation.c finds a cell where the driver put it.
AccessExact == part = "access" => SampleExact /\ CellsFound

\* The indices of a GrallocConsumer and the allocations that use it agree, and
\* an allocation holds the image it received until it releases it.
QueueOwned == part = "input" => SlotsOwned /\ ReceivedHeld

\* onFrameAvailable tells every allocation that still uses the queue of a frame,
\* and none that is gone.
ListenersTold == part = "input" => FrameTold

\* Every buffer of a window comes back or is posted once, and a script writes
\* into the buffer that the next ioSend posts (rsdAllocationSetSurface,
\* rsdAllocationIoSend).
WindowExact == part = "output" => BuffersReturned /\ WritesLand
==============================================================================
