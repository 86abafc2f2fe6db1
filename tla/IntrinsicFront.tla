--------------------------- MODULE IntrinsicFront ---------------------------
(* The image intrinsics as programs use them: the Java and the C++ classes   *)
(* check their arguments and issue core calls (create an intrinsic script by *)
(* number, set a slot, launch a slot), and the CPU driver's classes behind   *)
(* the numbers pick the kernel.  A kernel reads and stores cells of the type *)
(* it was written for, whatever the allocations hold.                        *)
EXTENDS Integers, Sequences

CONSTANTS
    LutSpan        \* entries of one channel of a lookup table, 256 in the code

ASSUME SpanAssumption == LutSpan \in Nat \ {0}

VARIABLES
    api,        \* "java" or "cpp": the class library in use
    script,     \* the program's script: class, and the element given to create
    cpu,        \* the driver's object: class, its element, its allocation
    launched,   \* the last launch: slot, elements, whether an error was raised
    cache,      \* LUT: mCache, per channel and index
    dirty,      \* LUT: mDirty
    table       \* LUT: contents of the allocation the kernel reads

frontVars == <<api, script, cpu, launched, cache, dirty, table>>

ScriptKinds == {"lut3d", "blend", "blur", "matrix", "convolve3", "convolve5",
          "histogram", "lut", "resize", "yuv"}
E(type, vec) == [type |-> type, vec |-> vec]
Elements == [type : {"u8", "f32"}, vec : {1, 3, 4}] \cup [type : {"u32"}, vec : {1, 4}]
            \cup {E("yuv", 1)}
NoneGiven == E("none", 0)

(* isCompatible with one of U8, U8_2, U8_3, U8_4, and with one of F32...     *)
Image(e) == e.type \in {"u8", "f32"}
U8_4(e) == e = E("u8", 4)

(* What a call does: the core calls it makes, and whether it raised an error.*)
Checked(ok, calls) == [calls |-> IF ok THEN calls ELSE <<>>, raised |-> ~ok]
(* throwError only records the error: where the code does not return after   *)
(* it, the core call is made all the same.                                   *)
Warned(ok, calls) == [calls |-> calls, raised |-> ~ok]

CreateCall(id) == <<[op |-> "create", n |-> id]>>
Var(slot) == <<[op |-> "var", n |-> slot]>>
Launch(slot) == <<[op |-> "forEach", n |-> slot]>>

----------------------------------------------------------------------------
(* Java: create, the input, forEach.  y is the input's second dimension.     *)
JLut3dCreate(e) == Checked(U8_4(e), CreateCall(8))
JLut3dSetLUT(s, e, z) == Checked(z # 0 /\ e = s.elem, Var(0))
JLut3dForEach(in, out) == Checked(TRUE, Launch(0))

JBlendCreate(e) == Checked(TRUE, CreateCall(7))
JBlend(slot, in, out) == Checked(U8_4(in) /\ U8_4(out), Launch(slot))
JBlendForEach(mode, in, out) ==
    IF mode = "Dst" THEN Checked(TRUE, <<>>)
    ELSE JBlend([Clear |-> 0, Src |-> 1, SrcOver |-> 3, DstOver |-> 4, SrcIn |-> 5, DstIn |-> 6,
                 SrcOut |-> 7, DstOut |-> 8, SrcAtop |-> 9, DstAtop |-> 10, Xor |-> 11,
                 Multiply |-> 14, Add |-> 34, Subtract |-> 35][mode], in, out)

JBlurCreate(e) == Checked(e = E("u8", 1) \/ U8_4(e), CreateCall(5))
JBlurSetInput(e, y) == Checked(y # 0, Var(1))
JBlurSetRadius(r) == Checked(r > 0 /\ r <= 25, Var(0))
JBlurForEach(out, y) == Checked(y # 0, Launch(0))

JMatrixCreate(e) == Checked(U8_4(e), CreateCall(2))
JMatrixForEach(in, out) == Checked(Image(in) /\ Image(out), Launch(0))

JConvolve3Create(e) == Checked(Image(e), CreateCall(1))
JConvolve3SetInput(e) == Checked(TRUE, Var(1))
JConvolve3ForEach(out) == Checked(TRUE, Launch(0))

JConvolve5Create(e) == Checked(Image(e), CreateCall(4))
JConvolve5SetInput(e) == Checked(TRUE, Var(1))
JConvolve5ForEach(out) == Checked(TRUE, Launch(0))

JHistogramCreate(e) == Checked(e.type = "u8", CreateCall(9))
JHistogramSetOutput(e, x, y) == Checked(e.type = "u32" /\ x = 256 /\ y = 0, Var(1))
JHistogramForEach(s, in) == Checked(in.vec >= s.out.vec /\ in.type = "u8", Launch(0))
JHistogramForEachDot(s, in) == Checked(s.out.vec = 1 /\ in.type = "u8", Launch(1))

JResizeCreate == Checked(TRUE, CreateCall(12))
JResizeSetInput(e) == Checked(Image(e), Var(0))
JResizeForEach(same) == Checked(~same, Launch(0))

JYuvCreate(e) == Checked(TRUE, CreateCall(6))
JYuvSetInput(e) == Checked(TRUE, Var(0))
JYuvForEach(out) == Checked(TRUE, Launch(0))

JLutCreate(e) == Checked(TRUE, CreateCall(3))
JLutForEach(in, out) == Checked(TRUE, Launch(0))

----------------------------------------------------------------------------
(* C++.                                                                      *)
CLut3dCreate(e) == Checked(U8_4(e), CreateCall(8))
CLut3dForEach(s, in, out) == Checked(in = s.elem /\ out = s.elem, Launch(0))
CLut3dSetLUT(s, e, z) == Checked(e = s.elem /\ z # 0, Var(0))

CBlendCreate(e) == Checked(U8_4(e), CreateCall(7))
CBlend(s, slot, in, out) == Warned(in = s.elem /\ out = s.elem, Launch(slot))
CBlendForEach(s, mode, in, out) ==
    CBlend(s, [Clear |-> 0, Src |-> 1, Dst |-> 2, SrcOver |-> 3, DstOver |-> 4, SrcIn |-> 5,
               DstIn |-> 6, SrcOut |-> 7, DstOut |-> 8, SrcAtop |-> 9, DstAtop |-> 10, Xor |-> 11,
               Multiply |-> 14, Add |-> 34, Subtract |-> 35][mode], in, out)

CBlurCreate(e) == Checked(U8_4(e) \/ e = E("u8", 1), CreateCall(5))
CBlurSetInput(s, e) == Checked(e = s.elem, Var(1))
CBlurForEach(s, out) == Checked(out = s.elem, Launch(0))
CBlurSetRadius(r) == Checked(r > 0 /\ r <= 25, Var(0))

CMatrixCreate == Checked(TRUE, CreateCall(2))
CMatrixForEach(in, out) == Checked(Image(in) /\ Image(out), Launch(0))

CConvolve3Create(e) == Checked(Image(e), CreateCall(1))
CConvolve3SetInput(s, e) == Checked(e = s.elem, Var(1))
CConvolve3ForEach(s, out) == Checked(out = s.elem, Launch(0))

CConvolve5Create(e) == Checked(Image(e), CreateCall(4))
CConvolve5SetInput(s, e) == Checked(e = s.elem, Var(1))
CConvolve5ForEach(s, out) == Checked(out = s.elem, Launch(0))

CHistogramCreate(e) == Checked(TRUE, CreateCall(9))
CHistogramSetOutput(e, x, y) == Checked(e.type = "u32" /\ x = 256 /\ y = 0, Var(1))
CHistogramForEach(s, in) ==
    Checked(in.vec >= s.out.vec /\ in \in {E("u8", 1), E("u8", 4)}, Launch(0))
CHistogramForEachDot(s, in) ==
    Checked(s.out.vec = 1 /\ in \in {E("u8", 1), E("u8", 4)}, Launch(1))

CLutCreate(e) == Checked(U8_4(e), CreateCall(3))
CLutForEach(in, out) == Checked(U8_4(in) /\ U8_4(out), Launch(0))

CResizeCreate == Checked(TRUE, CreateCall(12))
CResizeForEach(s, out, same) ==
    IF s.in = out THEN Warned(~same, Launch(0)) ELSE Checked(FALSE, Launch(0))
CResizeSetInput(e) == Checked(Image(e), Var(0))

CYuvCreate(e) == Checked(U8_4(e), CreateCall(6))
CYuvSetInput(e) == Checked(e.type = "yuv", Var(0))
CYuvForEach(s, out) == Checked(out = s.elem, Launch(0))

----------------------------------------------------------------------------
(* The calls by class.  The element of an input or of a lookup table goes to *)
(* "bind"; the two-dimensional and 256-entry conditions of setInput, forEach *)
(* and setOutput are met.                                                    *)
JCreate(kind, e) ==
    CASE kind = "lut3d" -> JLut3dCreate(e) [] kind = "blend" -> JBlendCreate(e)
      [] kind = "blur" -> JBlurCreate(e) [] kind = "matrix" -> JMatrixCreate(e)
      [] kind = "convolve3" -> JConvolve3Create(e) [] kind = "convolve5" -> JConvolve5Create(e)
      [] kind = "histogram" -> JHistogramCreate(e) [] kind = "lut" -> JLutCreate(e)
      [] kind = "resize" -> JResizeCreate [] kind = "yuv" -> JYuvCreate(e)

CCreate(kind, e) ==
    CASE kind = "lut3d" -> CLut3dCreate(e) [] kind = "blend" -> CBlendCreate(e)
      [] kind = "blur" -> CBlurCreate(e) [] kind = "matrix" -> CMatrixCreate
      [] kind = "convolve3" -> CConvolve3Create(e) [] kind = "convolve5" -> CConvolve5Create(e)
      [] kind = "histogram" -> CHistogramCreate(e) [] kind = "lut" -> CLutCreate(e)
      [] kind = "resize" -> CResizeCreate [] kind = "yuv" -> CYuvCreate(e)

Bound == {"lut3d", "blur", "convolve3", "convolve5", "histogram", "resize", "yuv"}
JBind(s, e) ==
    CASE s.kind = "lut3d" -> JLut3dSetLUT(s, e, 1) [] s.kind = "blur" -> JBlurSetInput(e, 1)
      [] s.kind = "convolve3" -> JConvolve3SetInput(e)
      [] s.kind = "convolve5" -> JConvolve5SetInput(e)
      [] s.kind = "histogram" -> JHistogramSetOutput(e, 256, 0)
      [] s.kind = "resize" -> JResizeSetInput(e) [] s.kind = "yuv" -> JYuvSetInput(e)

CBind(s, e) ==
    CASE s.kind = "lut3d" -> CLut3dSetLUT(s, e, 1) [] s.kind = "blur" -> CBlurSetInput(s, e)
      [] s.kind = "convolve3" -> CConvolve3SetInput(s, e)
      [] s.kind = "convolve5" -> CConvolve5SetInput(s, e)
      [] s.kind = "histogram" -> CHistogramSetOutput(e, 256, 0)
      [] s.kind = "resize" -> CResizeSetInput(e) [] s.kind = "yuv" -> CYuvSetInput(e)

(* forEach; op is the blend mode, and "Dot" is the histogram's forEach_Dot.  *)
JForEach(s, op, in, out, same) ==
    CASE s.kind = "lut3d" -> JLut3dForEach(in, out) [] s.kind = "blend" -> JBlendForEach(op, in, out)
      [] s.kind = "blur" -> JBlurForEach(out, 1) [] s.kind = "matrix" -> JMatrixForEach(in, out)
      [] s.kind = "convolve3" -> JConvolve3ForEach(out)
      [] s.kind = "convolve5" -> JConvolve5ForEach(out)
      [] s.kind = "histogram" -> IF op = "Dot" THEN JHistogramForEachDot(s, in) ELSE JHistogramForEach(s, in)
      [] s.kind = "lut" -> JLutForEach(in, out)
      [] s.kind = "resize" -> JResizeForEach(same) [] s.kind = "yuv" -> JYuvForEach(out)

CForEach(s, op, in, out, same) ==
    CASE s.kind = "lut3d" -> CLut3dForEach(s, in, out) [] s.kind = "blend" -> CBlendForEach(s, op, in, out)
      [] s.kind = "blur" -> CBlurForEach(s, out) [] s.kind = "matrix" -> CMatrixForEach(in, out)
      [] s.kind = "convolve3" -> CConvolve3ForEach(s, out)
      [] s.kind = "convolve5" -> CConvolve5ForEach(s, out)
      [] s.kind = "histogram" -> IF op = "Dot" THEN CHistogramForEachDot(s, in) ELSE CHistogramForEach(s, in)
      [] s.kind = "lut" -> CLutForEach(in, out)
      [] s.kind = "resize" -> CResizeForEach(s, out, same) [] s.kind = "yuv" -> CYuvForEach(s, out)

----------------------------------------------------------------------------
(* The driver: the class behind a number, and the kernel of a launch, as the *)
(* cells it reads and stores.  The constructors of Convolve3x3 and           *)
(* Convolve5x5 and Resize's preLaunch take anything but one of the two types *)
(* for the other.                                                            *)
createIntrinsic(id) ==
    CASE id = 8 -> "lut3d" [] id = 1 -> "convolve3" [] id = 2 -> "matrix" [] id = 3 -> "lut"
      [] id = 4 -> "convolve5" [] id = 5 -> "blur" [] id = 6 -> "yuv" [] id = 7 -> "blend"
      [] id = 9 -> "histogram" [] id = 12 -> "resize"

ConvolveCells(c) == LET t == E(IF c.elem.type = "f32" THEN "f32" ELSE "u8", c.elem.vec)
                    IN [reads |-> t, stores |-> t]
ResizeCells(c) == LET t == E(IF c.alloc.type = "u8" THEN "u8" ELSE "f32", c.alloc.vec)
                  IN [reads |-> t, stores |-> t]
MatrixCells(in, out) ==
    [reads |-> E(IF in.type = "f32" THEN "f32" ELSE "u8", in.vec),
     stores |-> E(IF out.type = "f32" THEN "f32" ELSE "u8", out.vec)]
HistogramCells(c, slot, in) ==
    [reads |-> E("u8", IF slot = 0 THEN c.alloc.vec ELSE in.vec), stores |-> c.alloc]

KernelCells(c, slot, in, out) ==
    CASE c.kind \in {"convolve3", "convolve5"} -> ConvolveCells(c)
      [] c.kind = "blur" -> [reads |-> c.elem, stores |-> c.elem]
      [] c.kind = "resize" -> ResizeCells(c)
      [] c.kind = "matrix" -> MatrixCells(in, out)
      [] c.kind = "histogram" -> HistogramCells(c, slot, in)
      [] c.kind = "yuv" -> [reads |-> E("yuv", 1), stores |-> E("u8", 4)]
      [] OTHER -> [reads |-> E("u8", 4), stores |-> E("u8", 4)]

(* The kernel's modes by slot.                                               *)
BlendMode(slot) ==
    CASE slot = 0 -> "Clear" [] slot = 1 -> "Src" [] slot = 2 -> "Dst" [] slot = 3 -> "SrcOver"
      [] slot = 4 -> "DstOver" [] slot = 5 -> "SrcIn" [] slot = 6 -> "DstIn" [] slot = 7 -> "SrcOut"
      [] slot = 8 -> "DstOut" [] slot = 9 -> "SrcAtop" [] slot = 10 -> "DstAtop"
      [] slot = 11 -> "Xor" [] slot = 14 -> "Multiply" [] slot = 34 -> "Add" [] slot = 35 -> "Subtract"

ModeCalls == {"Clear", "Src", "Dst", "SrcOver", "DstOver", "SrcIn", "DstIn", "SrcOut", "DstOut",
          "SrcAtop", "DstAtop", "Xor", "Multiply", "Add", "Subtract"}
Calls(s) == IF s.kind = "blend" THEN ModeCalls ELSE IF s.kind = "histogram" THEN {"Plain", "Dot"}
          ELSE {"Plain"}

Padded(v) == IF v = 3 THEN 4 ELSE v
Fits(cell, e) == cell.type = e.type /\ Padded(cell.vec) = Padded(e.vec)
Within(cell, e) == cell.type = e.type /\ cell.vec <= e.vec

----------------------------------------------------------------------------
NoScript == [kind |-> "none", elem |-> NoneGiven, in |-> NoneGiven, out |-> NoneGiven]
NoCpu == [kind |-> "none", elem |-> NoneGiven, alloc |-> NoneGiven]
NoLaunch == [slot |-> -1, op |-> "Plain", in |-> NoneGiven, out |-> NoneGiven, raised |-> FALSE]
TableIndex == 0..4 * LutSpan - 1
Identity == [i \in TableIndex |-> i % LutSpan]

FrontInit ==
    /\ api \in {"java", "cpp"}
    /\ script = NoScript /\ cpu = NoCpu /\ launched = NoLaunch
    /\ cache = Identity /\ dirty = TRUE
    /\ table = [i \in TableIndex |-> 0]

(* rsi_ScriptIntrinsicCreate: ScriptIntrinsic::init hands the number and the *)
(* element to the driver.                                                    *)
Create(kind, e) ==
    LET r == IF api = "java" THEN JCreate(kind, e) ELSE CCreate(kind, e)
    IN  /\ script = NoScript
        /\ r.calls # <<>>
        /\ script' = [NoScript EXCEPT !.kind = kind, !.elem = e]
        /\ cpu' = [NoCpu EXCEPT !.kind = createIntrinsic(r.calls[1].n), !.elem = e]
        /\ UNCHANGED <<api, launched, cache, dirty, table>>

Bind(e) ==
    LET r == IF api = "java" THEN JBind(script, e) ELSE CBind(script, e)
    IN  /\ script.kind \in Bound
        /\ r.calls # <<>>
        /\ script' = IF script.kind = "histogram" THEN [script EXCEPT !.out = e]
                     ELSE [script EXCEPT !.in = e]
        /\ cpu' = [cpu EXCEPT !.alloc = e]
        /\ launched' = NoLaunch
        /\ UNCHANGED <<api, cache, dirty, table>>

(* LUT: setRed, setGreen, setBlue and setAlpha.  Java sets one entry, C++ a  *)
(* run of them starting at base.                                             *)
JLutSet(channel, index) == [ok |-> index \in 0..LutSpan - 1, at |-> {channel * LutSpan + index}]
CLutSetTable(channel, base, length) ==
    [ok |-> base + length <= LutSpan /\ length # 0,
     at |-> {channel * LutSpan + base + i : i \in 0..length - 1}]

SetEntryClean(channel, base, length) ==
    LET r == IF api = "java" THEN JLutSet(channel, base) ELSE CLutSetTable(channel, base, length)
    IN  /\ script.kind = "lut" /\ r.ok
        /\ cache' = [i \in TableIndex |-> IF i \in r.at THEN LutSpan ELSE cache[i]]
        /\ launched' = NoLaunch
        /\ UNCHANGED <<api, script, cpu, dirty, table>>

SetEntry(channel, base, length) ==
    LET r == IF api = "java" THEN JLutSet(channel, base) ELSE CLutSetTable(channel, base, length)
    IN  /\ script.kind = "lut" /\ r.ok
        /\ cache' = [i \in TableIndex |-> IF i \in r.at THEN LutSpan ELSE cache[i]]
        /\ dirty' = TRUE
        /\ launched' = NoLaunch
        /\ UNCHANGED <<api, script, cpu, table>>

(* forEach: LUT sends a changed table first, in C++ even for arguments it    *)
(* then refuses.  A launch without a bound allocation is refused by the      *)
(* kernel, or by the program where the kernel does not look (3DLUT,          *)
(* Histogram).                                                               *)
ForEach(op, in, out, same) ==
    LET r == IF api = "java" THEN JForEach(script, op, in, out, same)
             ELSE CForEach(script, op, in, out, same)
        send == script.kind = "lut" /\ dirty
    IN  /\ script # NoScript
        /\ script.kind \in Bound => cpu.alloc # NoneGiven
        /\ same => script.in = out
        /\ launched' = IF r.calls = <<>> THEN NoLaunch
                       ELSE [slot |-> r.calls[1].n, op |-> op, in |-> in, out |-> out, raised |-> r.raised]
        /\ IF send THEN table' = cache /\ dirty' = FALSE ELSE UNCHANGED <<table, dirty>>
        /\ UNCHANGED <<api, script, cpu, cache>>

(* The tables are explored apart from the elements: once an entry is set, a  *)
(* LUT is created for and launched over four-byte pixels.  A launch leaves   *)
(* nothing that the next one looks at, so that one follows a change.         *)
Apart(in, out) == cache # Identity => U8_4(in) /\ U8_4(out)

FrontNext ==
    \/ \E kind \in ScriptKinds, e \in Elements : Create(kind, e)
    \/ \E e \in Elements : Bind(e)
    \/ \E channel \in 0..3, base \in 0..LutSpan, length \in 0..LutSpan :
         U8_4(script.elem) /\ SetEntry(channel, base, length)
    \/ /\ launched = NoLaunch
       /\ \E op \in Calls(script), in, out \in Elements, same \in BOOLEAN :
            Apart(in, out) /\ ForEach(op, in, out, same)

----------------------------------------------------------------------------
(* What the Java documentation asks of the program where the classes do not  *)
(* check: the allocations have the element given to create ("Must match the  *)
(* element type supplied during create"), lookup tables and YUV output are   *)
(* four bytes, a resize keeps the element.                                   *)
Documented(in, out) ==
    CASE script.kind \in {"convolve3", "convolve5", "blur"} ->
           script.in = script.elem /\ out = script.elem
      [] script.kind \in {"lut", "lut3d"} -> U8_4(in) /\ U8_4(out)
      [] script.kind = "yuv" -> script.in.type = "yuv" /\ U8_4(out)
      [] script.kind = "resize" -> script.in = out
      [] OTHER -> TRUE

(* Every launch that goes through without an error runs a kernel written for *)
(* the cells of the allocations it reads and stores, and the blend mode      *)
(* asked for: create's number, the slots and checks of the class, the        *)
(* constructor's and preLaunch's choice of kernel fit together.              *)
LaunchMatches ==
    (launched # NoLaunch /\ ~launched.raised /\ (api = "java" => Documented(launched.in, launched.out)))
    => LET k == KernelCells(cpu, launched.slot, launched.in, launched.out)
       IN  /\ CASE script.kind \in {"convolve3", "convolve5", "blur", "resize", "yuv"} ->
                     Fits(k.reads, script.in)
                [] script.kind = "histogram" -> Within(k.reads, launched.in)
                [] OTHER -> Fits(k.reads, launched.in)
           /\ script.kind # "histogram" => Fits(k.stores, launched.out)
           /\ script.kind = "blend" => BlendMode(launched.slot) = launched.op

(* A call that both class libraries accept becomes the same core calls in    *)
(* both: the same intrinsic, slot and kernel numbers.  (forEachDst makes no  *)
(* call in Java; in C++ it launches a kernel that stores nothing.)  A blur's *)
(* radius is refused by both or by neither.                                  *)
Agree(j, c) == (~j.raised /\ ~c.raised) => j.calls = c.calls
FrontCallsAgree ==
    /\ script = NoScript =>
         \A kind \in ScriptKinds, e \in Elements : Agree(JCreate(kind, e), CCreate(kind, e))
    /\ script.kind \in Bound => \A e \in Elements : Agree(JBind(script, e), CBind(script, e))
    /\ script.kind = "blur" => \A r \in {0, 1, 25, 26} : JBlurSetRadius(r) = CBlurSetRadius(r)
    /\ (script # NoScript /\ launched = NoLaunch) =>
         \A op \in Calls(script) \ {"Dst"}, in, out \in Elements :
           Agree(JForEach(script, op, in, out, FALSE), CForEach(script, op, in, out, FALSE))

(* A launched LUT kernel reads the entries the program has set, all of them, *)
(* whatever was set and launched before (mDirty).                            *)
LutCurrent == (script.kind = "lut" /\ launched # NoLaunch) => table = cache

============================================================================
