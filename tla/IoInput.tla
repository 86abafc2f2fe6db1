------------------------------- MODULE IoInput -------------------------------
(* The input side of the IO allocations: allocations that receive the images *)
(* of a buffer queue.  Several allocations may share one GrallocConsumer; each *)
(* of them owns one index of it and holds at most one acquired image.  The    *)
(* API calls run on the context's thread, the frame callback on the thread of *)
(* the image reader, without a lock between them.  The image reader is        *)
(* external: acquireNextImage hands out the queued images in order, never     *)
(* more than mNumAlloc at a time, and AImageReader_delete waits for a callback *)
(* that is running.                                                           *)
EXTENDS Integers, Sequences, FiniteSets

CONSTANTS InAllocs,    \* allocations created with USAGE_IO_INPUT | USAGE_SCRIPT
          QueueSizes,  \* the values of numAlloc that are asked for
          MaxMade      \* bound on the consumers and the queued images together

VARIABLES inAlloc,  \* per allocation: life, consumer, index, pointers, last result
          queue,    \* the GrallocConsumers, in the order of their creation
          frames,   \* images queued so far; image ids are 1 .. frames
          callback  \* the onFrameAvailable that is running

inputVars == <<inAlloc, queue, frames, callback>>

NoQueue == 0
NoImage == 0

\* What a slot of mAlloc may hold: an allocation, null, or what the memory held
\* before (only slot 0 is written by the constructor).
Null == "null"
Junk == "junk"

Fresh == [life |-> "live", mGrallocConsumer |-> NoQueue, mCurrentIdx |-> 0,
          mBufferQueueInited |-> FALSE, mallocPtr |-> NoImage, planes |-> NoImage,
          received |-> "nothing"]

Indices(c) == 0 .. queue[c].mNumAlloc - 1
Acquired(c) == {queue[c].mImg[i] : i \in Indices(c)} \ {NoImage}
Alive(a) == inAlloc[a].life = "live"

\* The allocation holds an index of the consumer it points to; a share that was
\* refused leaves it pointing at a consumer without one.
Attached(a) == /\ Alive(a)
               /\ inAlloc[a].mGrallocConsumer # NoQueue
               /\ inAlloc[a].mCurrentIdx \in Indices(inAlloc[a].mGrallocConsumer)

Quiet == [of |-> NoQueue, at |-> 0, seen |-> FALSE, told |-> {}, due |-> {}, known |-> {}]

InputInit ==
    /\ inAlloc = [a \in InAllocs |-> Fresh]
    /\ queue = <<>>
    /\ frames = 0
    /\ callback = Quiet

\* The constructor with AImageReader_new: mAlloc[1..] is left as it was.
GrallocConsumer(a, numAlloc, rest) ==
    [st |-> "live", mNumAlloc |-> numAlloc,
     isIdxUsed |-> [i \in 0 .. numAlloc - 1 |-> i = 0],
     mAlloc |-> [i \in 0 .. numAlloc - 1 |-> IF i = 0 THEN a ELSE rest],
     mImg |-> [i \in 0 .. numAlloc - 1 |-> NoImage],
     pending |-> <<>>, unannounced |-> 0]

\* An allocation with a queue is not set up again: the buffer queues are built
\* once, when the allocations are created.
setupGrallocConsumer(a, numAlloc) ==
    /\ Alive(a) /\ ~inAlloc[a].mBufferQueueInited /\ Len(queue) + frames < MaxMade
    /\ \E rest \in {Null, Junk} :
           queue' = Append(queue, GrallocConsumer(a, numAlloc, rest))
    /\ inAlloc' = [inAlloc EXCEPT ![a].mGrallocConsumer = Len(queue) + 1,
                                  ![a].mCurrentIdx = 0,
                                  ![a].mBufferQueueInited = TRUE]
    /\ UNCHANGED <<frames, callback>>

\* A surface of an allocation that has no queue yet makes one of a single image;
\* otherwise the call only returns the window.
getSurface(a) == setupGrallocConsumer(a, 1)

\* The index getNextAvailableIdx hands out; mNumAlloc when none is free.
getNextAvailableIdx(c) ==
    LET free == {i \in Indices(c) : ~queue[c].isIdxUsed[i]}
    IN  IF free = {} THEN queue[c].mNumAlloc
        ELSE CHOOSE i \in free : \A j \in free : i <= j

\* A refused share keeps the consumer and the index past its end.
shareBufferQueue(a, other) ==
    LET c == inAlloc[other].mGrallocConsumer
        i == getNextAvailableIdx(c)
    IN  /\ Alive(a) /\ ~inAlloc[a].mBufferQueueInited
        /\ a # other /\ Attached(other)
        /\ inAlloc' = [inAlloc EXCEPT ![a].mGrallocConsumer = c, ![a].mCurrentIdx = i,
                                      ![a].mBufferQueueInited = i < queue[c].mNumAlloc]
        /\ queue' = IF i < queue[c].mNumAlloc
                    THEN [queue EXCEPT ![c].mAlloc[i] = a, ![c].isIdxUsed[i] = TRUE]
                    ELSE queue
        /\ callback' = IF callback.of = c THEN [callback EXCEPT !.known = @ \cup {a}] ELSE callback
        /\ UNCHANGED frames

\* AImage_delete of the image the index holds.
unlockBuffer(q, i) == [q EXCEPT !.mImg[i] = NoImage]

\* One receive.  The image held from the receive before is deleted first, and
\* the pointers of the allocation are only set once the new image has answered
\* all its queries: those of the first plane, then those of the chroma planes.
\* step says how far the image answers: "none" when it is not even acquired.
lockNextBuffer(a, step) ==
    LET c == inAlloc[a].mGrallocConsumer
        i == inAlloc[a].mCurrentIdx
        q == unlockBuffer(queue[c], i)
        img == Head(q.pending)
        got == [queue EXCEPT ![c] = [q EXCEPT !.mImg[i] = img, !.pending = Tail(@)]]
    IN  \/ /\ q.pending = <<>> /\ step = "none"
           /\ queue' = [queue EXCEPT ![c] = q]
           /\ inAlloc' = [inAlloc EXCEPT ![a].received = "no frame"]
        \/ /\ q.pending # <<>> /\ step = "none"
           /\ queue' = [queue EXCEPT ![c] = q]
           /\ inAlloc' = [inAlloc EXCEPT ![a].received = "error"]
        \/ /\ q.pending # <<>> /\ step = "acquired"
           /\ queue' = got
           /\ inAlloc' = [inAlloc EXCEPT ![a].received = "error"]
        \/ /\ q.pending # <<>> /\ step = "first plane"
           /\ queue' = got
           /\ inAlloc' = [inAlloc EXCEPT ![a].mallocPtr = img, ![a].received = "error"]
        \/ /\ q.pending # <<>> /\ step = "planes"
           /\ queue' = got
           /\ inAlloc' = [inAlloc EXCEPT ![a].mallocPtr = img, ![a].planes = img,
                                         ![a].received = "ok"]

\* An index past the end is an error and changes nothing else.
ioReceive(a) ==
    /\ Alive(a) /\ inAlloc[a].mGrallocConsumer # NoQueue
    /\ queue[inAlloc[a].mGrallocConsumer].st = "live"
    /\ IF Attached(a)
       THEN \E step \in {"none", "acquired", "first plane", "planes"} : lockNextBuffer(a, step)
       ELSE inAlloc' = [inAlloc EXCEPT ![a].received = "error"] /\ UNCHANGED queue
    /\ UNCHANGED <<frames, callback>>

\* Mutant: a released index keeps its allocation in mAlloc.
releaseIdxKept(q, i) ==
    IF i >= q.mNumAlloc \/ ~q.isIdxUsed[i] THEN q
    ELSE [unlockBuffer(q, i) EXCEPT !.isIdxUsed[i] = FALSE]

releaseIdx(q, i) ==
    IF i >= q.mNumAlloc \/ ~q.isIdxUsed[i] THEN q
    ELSE [unlockBuffer(q, i) EXCEPT !.mAlloc[i] = Null, !.isIdxUsed[i] = FALSE]

\* Mutant: only the first index keeps the consumer alive.
isActiveFirst(q) == q.isIdxUsed[0]

isActive(q) == \E i \in 0 .. q.mNumAlloc - 1 : q.isIdxUsed[i]

\* The destructor.  A consumer without a used index is deleted, which first
\* waits in AImageReader_delete (closing).  When a refused allocation outlives
\* the consumer it points to, the call reads freed memory (stray).
DestroyInput(a) ==
    /\ Alive(a)
    /\ LET c == inAlloc[a].mGrallocConsumer
           q == releaseIdx(queue[c], inAlloc[a].mCurrentIdx)
           stray == c # NoQueue /\ queue[c].st # "live"
       IN  /\ queue' = IF c = NoQueue \/ stray THEN queue
                       ELSE [queue EXCEPT ![c] =
                                 IF isActive(q) THEN q ELSE [q EXCEPT !.st = "closing"]]
           /\ inAlloc' = [inAlloc EXCEPT ![a] =
                                 [Fresh EXCEPT !.life = IF stray THEN "stray" ELSE "gone"]]
    /\ callback' = [callback EXCEPT !.due = @ \ {a}]
    /\ UNCHANGED frames

\* The end of AImageReader_delete and of the consumer's destructor.
DeleteConsumer(c) ==
    /\ queue[c].st = "closing" /\ callback.of # c
    /\ queue' = [queue EXCEPT ![c] = [GrallocConsumer(Null, 1, Null) EXCEPT
                     !.st = "deleted", !.isIdxUsed = [i \in {0} |-> FALSE]]]
    /\ UNCHANGED <<inAlloc, frames, callback>>

\* A producer queues an image.
FrameQueued(c) ==
    /\ Len(queue) + frames < MaxMade /\ queue[c].st = "live"
    /\ frames' = frames + 1
    /\ queue' = [queue EXCEPT ![c].pending = Append(@, frames + 1), ![c].unannounced = @ + 1]
    /\ UNCHANGED <<inAlloc, callback>>

\* The reader's thread calls the listener for an image.  due are the allocations
\* that stay attached while the callback runs; known are all those that are
\* attached at some moment of it.  (The callbacks of two consumers share no
\* state: one at a time is followed.)
CallListener(c) ==
    /\ callback.of = NoQueue /\ queue[c].unannounced > 0 /\ queue[c].st # "deleted"
    /\ queue' = [queue EXCEPT ![c].unannounced = @ - 1]
    /\ LET on == {a \in InAllocs : Attached(a) /\ inAlloc[a].mGrallocConsumer = c}
       IN  callback' = [of |-> c, at |-> 0, seen |-> FALSE, told |-> {}, due |-> on, known |-> on]
    /\ UNCHANGED <<inAlloc, frames>>

\* One slot of the callback's loop: the test for null, and the read that fills
\* the message, are two reads of mAlloc[i].
onFrameAvailable ==
    /\ callback.of # NoQueue
    /\ LET q == queue[callback.of]
           now == IF callback.at < q.mNumAlloc THEN q.mAlloc[callback.at] ELSE Null
       IN  callback' =
               IF callback.at = q.mNumAlloc THEN Quiet
               ELSE IF callback.seen
               THEN [callback EXCEPT !.seen = FALSE, !.at = @ + 1, !.told = @ \cup {now}]
               ELSE IF now = Null THEN [callback EXCEPT !.at = @ + 1]
               ELSE [callback EXCEPT !.seen = TRUE]
    /\ UNCHANGED <<inAlloc, queue, frames>>

InputNext ==
    \/ \E a \in InAllocs : getSurface(a) \/ ioReceive(a) \/ DestroyInput(a)
    \/ \E a \in InAllocs, n \in QueueSizes : setupGrallocConsumer(a, n)
    \/ \E a, b \in InAllocs : shareBufferQueue(a, b)
    \/ \E c \in DOMAIN queue : DeleteConsumer(c) \/ FrameQueued(c) \/ CallListener(c)
    \/ onFrameAvailable

InputSpec == InputInit /\ [][InputNext]_inputVars

-----------------------------------------------------------------------------
\* SlotsOwned: the indices of a consumer and the allocations that use it agree:
\* an attached allocation owns exactly the index it thinks it has, every used
\* index belongs to one live allocation, and a consumer lives exactly as long
\* as an index of it is used, whatever order the sharing allocations come and
\* go in (getNextAvailableIdx, releaseIdx, isActive, ~Allocation).  Only an
\* allocation whose share was refused can be left with a deleted consumer.
SlotsOwned ==
    /\ \A a \in InAllocs : Attached(a) =>
           LET q == queue[inAlloc[a].mGrallocConsumer]
           IN  q.st = "live" /\ q.isIdxUsed[inAlloc[a].mCurrentIdx]
                             /\ q.mAlloc[inAlloc[a].mCurrentIdx] = a
    /\ \A c \in DOMAIN queue : \A i \in Indices(c) : queue[c].isIdxUsed[i] =>
           \E a \in InAllocs : /\ Attached(a) /\ inAlloc[a].mGrallocConsumer = c
                              /\ inAlloc[a].mCurrentIdx = i
    /\ \A c \in DOMAIN queue : queue[c].st = "live" <=> isActive(queue[c])

\* ReceivedHeld: after a receive that reported no error all the pointers of the
\* allocation are in the image its own index holds, no other allocation holds
\* that image, and it stays so while others of the same queue receive, join and
\* leave (lockNextBuffer, unlockBuffer).  The images in use never reach the
\* number the reader was made for, so a receive cannot starve for one.
ReceivedHeld ==
    /\ \A a \in InAllocs : (Attached(a) /\ inAlloc[a].received = "ok") =>
           LET c == inAlloc[a].mGrallocConsumer
               i == inAlloc[a].mCurrentIdx
           IN  /\ inAlloc[a].mallocPtr = inAlloc[a].planes
               /\ queue[c].mImg[i] = inAlloc[a].mallocPtr
               /\ \A j \in Indices(c) \ {i} : queue[c].mImg[j] # inAlloc[a].mallocPtr
    /\ \A c \in DOMAIN queue : \A i \in Indices(c) :
           queue[c].mImg[i] # NoImage => queue[c].isIdxUsed[i]

\* FrameTold: when onFrameAvailable has run, every allocation that was attached
\* all the while has been sent the message, and no message names an allocation
\* that had left before the frame came.  (A slot no allocation has used yet may
\* hold anything, and one released between the two reads of the loop is null.)
FrameTold ==
    /\ callback.told \subseteq callback.known \cup {Null, Junk}
    /\ (callback.of # NoQueue /\ callback.at = queue[callback.of].mNumAlloc) =>
           callback.due \subseteq callback.told

\* NoFrameKeepsData: a receive that finds no new frame leaves the allocation
\* with the image it had, as the comment in ioReceive says it does nothing then.
NoFrameKeepsData ==
    \A a \in InAllocs : (Attached(a) /\ inAlloc[a].received = "no frame") =>
        \/ inAlloc[a].mallocPtr = NoImage
        \/ inAlloc[a].mallocPtr \in Acquired(inAlloc[a].mGrallocConsumer)
==============================================================================
