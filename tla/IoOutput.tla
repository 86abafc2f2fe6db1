------------------------------- MODULE IoOutput -------------------------------
(* The output side of the IO allocations: an allocation with USAGE_IO_OUTPUT  *)
(* writes into a buffer of the surface that is attached to it and sends the   *)
(* buffer to the surface's consumer.  The driver's functions dequeue, lock,   *)
(* unlock, queue and cancel hardware buffers; the compatibility library       *)
(* replaces them by functions of its own that lock and post the whole window. *)
(* Every window call is external and may fail; a buffer that is not locked    *)
(* cannot be unlocked.                                                        *)
EXTENDS Integers, FiniteSets

CONSTANTS Windows,   \* the surfaces the application has
          MaxCalls   \* bound on the calls of the application

VARIABLES front,    \* the bindings in use: "java" or "cpp"
          support,  \* libRSSupportIO.so was loaded: its functions replace the driver's
          outAlloc,      \* the allocation and its DrvAllocation
          window,   \* per surface: references held for it, buffers out, posted
          sends,    \* per surface: the sends that succeeded
          failed,   \* some window call failed
          calls

outputVars == <<front, support, outAlloc, window, sends, failed, calls>>

NoWindow == "no window"
NoBuffer == 0

\* A buffer's number is its place in the sequence of buffers its window hands out.
OutputInit ==
    /\ front \in {"java", "cpp"}
    /\ support \in (IF front = "java" THEN BOOLEAN ELSE {FALSE})
    /\ outAlloc = [life |-> "live", wndSurface |-> NoWindow, wndBuffer |-> NoBuffer,
              locked |-> FALSE, mallocPtr |-> <<NoWindow, NoBuffer>>]
    /\ window = [w \in Windows |-> [refs |-> 0, made |-> 0, dequeued |-> {}, posted |-> 0]]
    /\ sends = [w \in Windows |-> 0]
    /\ failed = FALSE
    /\ calls = 0

\* Mutant: the allocation keeps the pointer of its first buffer.
IoGetBufferOnce(o, w, wnd, fails) ==
    LET b == wnd.made + 1
        taken == [wnd EXCEPT !.made = b, !.dequeued = @ \cup {b}]
    IN  CASE fails = "dequeue" -> [o |-> o, wnd |-> wnd]
          [] fails = "lock" -> [o |-> [o EXCEPT !.wndBuffer = b, !.locked = FALSE], wnd |-> taken]
          [] OTHER -> [o |-> [o EXCEPT !.wndBuffer = b, !.locked = TRUE,
                                       !.mallocPtr = IF o.mallocPtr[2] = NoBuffer THEN <<w, b>> ELSE @],
                       wnd |-> taken]

\* ANativeWindow_dequeueBuffer and AHardwareBuffer_lock of a new buffer: how far
\* they come.  The result is the allocation and the window after the calls.
IoGetBuffer(o, w, wnd, fails) ==
    LET b == wnd.made + 1
        taken == [wnd EXCEPT !.made = b, !.dequeued = @ \cup {b}]
    IN  CASE fails = "dequeue" -> [o |-> o, wnd |-> wnd]
          [] fails = "lock" -> [o |-> [o EXCEPT !.wndBuffer = b, !.locked = FALSE], wnd |-> taken]
          [] OTHER -> [o |-> [o EXCEPT !.wndBuffer = b, !.locked = TRUE, !.mallocPtr = <<w, b>>],
                       wnd |-> taken]

\* The same for the support library: ANativeWindow_lock does both, or neither.
rscIoGetBuffer(o, w, wnd, fails) == IoGetBuffer(o, w, wnd, IF fails = "none" THEN "none" ELSE "dequeue")

Detached(o) == [o EXCEPT !.wndSurface = NoWindow, !.wndBuffer = NoBuffer, !.locked = FALSE]

Cancelled(wnd, b) == [wnd EXCEPT !.refs = @ - 1, !.dequeued = @ \ {b}]
PostedLast(wnd, b) == [wnd EXCEPT !.dequeued = @ \ {b},
                              !.posted = @ + Cardinality({b} \cap wnd.dequeued)]

Abandoned(wnd, b) == [IF outAlloc.locked THEN PostedLast(wnd, b) ELSE wnd EXCEPT !.refs = @ - 1]

Failure == {"none", "dequeue", "lock", "unlock", "queue", "cancel", "geometry"}

\* The Java bindings acquire the surface for the allocation
\* (ANativeWindow_fromSurface); the C++ ones pass their own pointer on.
Taken(wnd) == [wnd EXCEPT !.refs = @ + IF front = "java" THEN 1 ELSE 0]

\* An allocation that has a surface gives it up before it takes the next one:
\* the buffer is unlocked and cancelled.  A call that fails ends the function.
rsdAllocationSetSurface(w, fails) ==
    LET old == outAlloc.wndSurface
        stuck == old # NoWindow /\ (~outAlloc.locked \/ fails \in {"unlock", "cancel"})
        o == IF old = NoWindow THEN outAlloc ELSE Detached(outAlloc)
        left == IF old = NoWindow THEN window
                ELSE [window EXCEPT ![old] = Cancelled(@, outAlloc.wndBuffer)]
    IN  /\ old # NoWindow => outAlloc.wndBuffer # NoBuffer
        /\ fails \in {"none", "dequeue", "lock", "unlock", "cancel", "geometry"}
        /\ IF stuck
           THEN /\ outAlloc' = [outAlloc EXCEPT !.locked = @ /\ fails = "unlock"]
                /\ window' = IF w = NoWindow THEN window ELSE [window EXCEPT ![w] = Taken(@)]
           ELSE IF w = NoWindow THEN outAlloc' = o /\ window' = left
           ELSE LET mine == Taken(left[w])
                    get == IoGetBuffer(o, w, mine, fails)
                IN  IF fails = "geometry"
                    THEN outAlloc' = o /\ window' = [left EXCEPT ![w] = mine]
                    ELSE /\ outAlloc' = [get.o EXCEPT !.wndSurface = w]
                         /\ window' = [left EXCEPT ![w] = get.wnd]
        /\ failed' = (failed \/ stuck \/ (w # NoWindow /\ fails # "none"))
        /\ UNCHANGED sends

\* The support library posts the buffer of the old surface, and looks at no
\* result of that.
rscAllocationSetSurface(w, fails) ==
    LET old == outAlloc.wndSurface
        o == IF old = NoWindow THEN outAlloc ELSE Detached(outAlloc)
        left == IF old = NoWindow THEN window
                ELSE [window EXCEPT ![old] = Abandoned(@, outAlloc.wndBuffer)]
    IN  /\ fails \in {"none", "lock", "geometry"}
        /\ IF w = NoWindow THEN outAlloc' = o /\ window' = left
           ELSE LET mine == Taken(left[w])
                    get == rscIoGetBuffer(o, w, mine, fails)
                IN  IF fails = "geometry"
                    THEN outAlloc' = o /\ window' = [left EXCEPT ![w] = mine]
                    ELSE /\ outAlloc' = [get.o EXCEPT !.wndSurface = w]
                         /\ window' = [left EXCEPT ![w] = get.wnd]
        /\ failed' = (failed \/ (w # NoWindow /\ fails # "none"))
        /\ UNCHANGED sends

\* A send queues the buffer and takes the next one from the same surface.
rsdAllocationIoSend(fails) ==
    LET w == outAlloc.wndSurface
        b == outAlloc.wndBuffer
        stuck == ~outAlloc.locked \/ fails = "unlock"
        sent == PostedLast(window[w], b)
        get == IoGetBuffer([outAlloc EXCEPT !.wndBuffer = NoBuffer, !.locked = FALSE], w, sent, fails)
    IN  /\ w # NoWindow => b # NoBuffer
        /\ fails \in {"none", "dequeue", "lock", "unlock", "queue"}
        /\ IF w = NoWindow THEN UNCHANGED <<outAlloc, window, sends>>
           ELSE IF stuck \/ fails = "queue"
           THEN /\ outAlloc' = [outAlloc EXCEPT !.locked = @ /\ fails = "unlock"]
                /\ UNCHANGED <<window, sends>>
           ELSE /\ outAlloc' = get.o
                /\ window' = [window EXCEPT ![w] = get.wnd]
                /\ sends' = [sends EXCEPT ![w] = @ + 1]
        /\ failed' = (failed \/ w = NoWindow \/ stuck \/ fails # "none")

rscAllocationIoSend(fails) ==
    LET w == outAlloc.wndSurface
        sent == PostedLast(window[w], outAlloc.wndBuffer)
        get == rscIoGetBuffer([outAlloc EXCEPT !.wndBuffer = NoBuffer, !.locked = FALSE], w, sent, fails)
    IN  /\ fails \in {"none", "lock", "queue"}
        /\ IF w = NoWindow THEN UNCHANGED <<outAlloc, window, sends>>
           ELSE IF ~outAlloc.locked \/ fails = "queue"
           THEN outAlloc' = [outAlloc EXCEPT !.locked = FALSE] /\ UNCHANGED <<window, sends>>
           ELSE /\ outAlloc' = get.o
                /\ window' = [window EXCEPT ![w] = get.wnd]
                /\ sends' = [sends EXCEPT ![w] = @ + 1]
        /\ failed' = (failed \/ w = NoWindow \/ ~outAlloc.locked \/ fails # "none")

\* The allocation's destruction looks at no result.
rsdAllocationDestroy ==
    LET w == outAlloc.wndSurface
    IN  /\ w # NoWindow => outAlloc.wndBuffer # NoBuffer
        /\ window' = IF w = NoWindow THEN window
                     ELSE [window EXCEPT ![w] = Cancelled(@, outAlloc.wndBuffer)]
        /\ outAlloc' = [Detached(outAlloc) EXCEPT !.life = "gone", !.mallocPtr = <<NoWindow, NoBuffer>>]
        /\ UNCHANGED <<sends, failed>>

rscAllocationDestroy ==
    LET w == outAlloc.wndSurface
    IN  /\ window' = IF w = NoWindow THEN window
                     ELSE [window EXCEPT ![w] = Abandoned(@, outAlloc.wndBuffer)]
        /\ outAlloc' = [Detached(outAlloc) EXCEPT !.life = "gone", !.mallocPtr = <<NoWindow, NoBuffer>>]
        /\ UNCHANGED <<sends, failed>>

\* After a dequeue that failed the allocation has a surface and no buffer, and
\* the driver's functions use the null buffer.
NullBuffer ==
    /\ ~support /\ outAlloc.wndSurface # NoWindow /\ outAlloc.wndBuffer = NoBuffer
    /\ outAlloc' = [outAlloc EXCEPT !.life = "crashed"]
    /\ UNCHANGED <<window, sends, failed>>

SetSurface(w) == \E fails \in Failure :
    IF support THEN rscAllocationSetSurface(w, fails) ELSE rsdAllocationSetSurface(w, fails)
IoSend == \E fails \in Failure :
    IF support THEN rscAllocationIoSend(fails) ELSE rsdAllocationIoSend(fails)
DestroyOutput == IF support THEN rscAllocationDestroy ELSE rsdAllocationDestroy

OutputNext ==
    /\ outAlloc.life = "live" /\ calls < MaxCalls
    /\ calls' = calls + 1
    /\ UNCHANGED <<front, support>>
    /\ (\E w \in Windows \cup {NoWindow} : SetSurface(w)) \/ IoSend \/ DestroyOutput \/ NullBuffer

OutputSpec == OutputInit /\ [][OutputNext]_outputVars

-----------------------------------------------------------------------------
\* BuffersReturned: a surface that is no longer attached has got back every
\* buffer, and only the buffers that were sent were posted to it, whichever
\* window call failed on the way and whether the surface was replaced, removed
\* or its allocation destroyed (rsdAllocationSetSurface, rsdAllocationIoSend,
\* rsdAllocationDestroy); the references the Java bindings take are dropped
\* with the surface.  The support library posts the unfinished buffer of a
\* surface it gives up, and after a failed post leaves the buffer out.
BuffersReturned ==
    /\ ~(support /\ failed) => \A w \in Windows :
           window[w].dequeued = IF w = outAlloc.wndSurface THEN {outAlloc.wndBuffer} \ {NoBuffer} ELSE {}
    /\ ~support => \A w \in Windows : window[w].posted = sends[w]
    /\ support => \A w \in Windows : window[w].posted >= sends[w]
    /\ (front = "java" /\ ~failed) => \A w \in Windows :
           window[w].refs = IF w = outAlloc.wndSurface THEN 1 ELSE 0

\* WritesLand: while a surface is attached and its buffer locked, the pointer
\* scripts and copies write through is in that buffer, and the buffer is the
\* one the next send posts; without a failed call an attached surface always
\* has a locked buffer (IoGetBuffer after setSurface and after each send).
WritesLand ==
    (outAlloc.life = "live" /\ outAlloc.wndSurface # NoWindow) =>
        /\ outAlloc.locked => /\ outAlloc.mallocPtr = <<outAlloc.wndSurface, outAlloc.wndBuffer>>
                        /\ outAlloc.wndBuffer \in window[outAlloc.wndSurface].dequeued
        /\ ~failed => outAlloc.locked
===============================================================================
