----------------------------- MODULE FieldPacker -----------------------------
(* support/.../FieldPacker.java: the byte buffer arguments and fields are     *)
(* packed in, and unpacked from its end. A byte is the number of the value    *)
(* added and its place in it; 0 is padding.                                   *)
EXTENDS Integers, Sequences

CONSTANTS
  MaxAdds, \* the values added in one behaviour
  Lens     \* the lengths a packer starts with

VARIABLES
  packer, \* [mPos, mLen, mData, mAlignment]: mAlignment is the set of padding positions
  stack,  \* the values in the packer: [id, k, n], n components of k bytes
  popped, \* the last value read back: [want, got]
  adds,   \* the values added so far
  wasReset \* reset, skip or a failed addSafely: mAlignment no longer matches the bytes

packerVars == <<packer, stack, popped, adds, wasReset>>

NothingRead == [want |-> <<>>, got |-> <<>>]
New(len) == [mPos |-> 0, mLen |-> len, mData |-> [i \in 0 .. len - 1 |-> 0], mAlignment |-> {}]
Byte(id, i) == 100 * id + i
ValueBytes(v) == [i \in 1 .. v.k * v.n |-> Byte(v.id, i)]
Flip(s, t) == (s \ t) \cup (t \ s)
Up(pos, v) == ((pos + v - 1) \div v) * v
Down(pos, v) == (pos \div v) * v

\* align: zero bytes up to the next multiple of v, each marked in mAlignment.
align(p, v) ==
  LET q == Up(p.mPos, v)
  IN [p EXCEPT !.mPos = q, !.mData = [i \in DOMAIN p.mData |-> IF i \in p.mPos .. q - 1 THEN 0 ELSE p.mData[i]],
               !.mAlignment = Flip(p.mAlignment, p.mPos .. q - 1)]
Fits(p, k, n) == Up(p.mPos, k) + k * n <= p.mLen

\* addI8 ... addI64, addF32, addF64, addObj: aligned to its size, from its first byte.
\* Bytes first + 1 .. first + k of value id.
addScalar(p, id, first, k) ==
  LET q == align(p, k)
  IN [q EXCEPT !.mPos = q.mPos + k,
               !.mData = [i \in DOMAIN q.mData |->
                            IF i \in q.mPos .. q.mPos + k - 1 THEN Byte(id, first + i - q.mPos + 1) ELSE q.mData[i]]]
\* The vectors and the matrices: component after component.
addVector(p, id, k, n) ==
  LET add[c \in 0 .. n] == IF c = 0 THEN p ELSE addScalar(add[c - 1], id, (c - 1) * k, k)
  IN add[n]

\* subalign: back to a multiple of v, then over the padding before it.
subalignKeepingMarks(p, v) == [p EXCEPT !.mPos = Down(p.mPos, v)]
subalign(p, v) ==
  LET from == Down(p.mPos, v)
      to == CHOOSE t \in 0 .. from : (t .. from - 1) \subseteq p.mAlignment /\ (t = 0 \/ t - 1 \notin p.mAlignment)
  IN [p EXCEPT !.mPos = to, !.mAlignment = @ \ (to .. from - 1)]
\* subI8 ... subI64: the k bytes before the position; the vectors and the matrices
\* take their components from the last to the first.
subScalar(s, k) ==
  LET a == subalign(s.p, k)
      at == a.mPos - k
  IN IF at < 0 THEN s
     ELSE [p |-> [a EXCEPT !.mPos = at], got |-> [i \in 1 .. k |-> a.mData[at + i - 1]] \o s.got]
subVector(p, k, n) ==
  LET sub[c \in 0 .. n] == IF c = 0 THEN [p |-> p, got |-> <<>>] ELSE subScalar(sub[c - 1], k)
  IN sub[n]

\* resize, and addSafely: double the buffer until the value fits. The attempt that
\* failed flipped the marks of the padding it had reached.
resize(p, newSize) ==
  [p EXCEPT !.mLen = newSize,
            !.mData = [i \in 0 .. newSize - 1 |-> IF i < p.mPos THEN p.mData[i] ELSE 0]]
\* addToPack and getPackedSize dispatch on the class of the argument.
addToPack(p, id, k, n) == addVector(p, id, k, n)
getPackedSize(k, n) == k * n
FailedFlips(p, k) == p.mPos .. (IF Up(p.mPos, k) <= p.mLen THEN Up(p.mPos, k) - 1 ELSE p.mLen)
addSafely(p, id, k, n) ==
  LET try[c \in 0 .. 5] ==
        IF c = 0 THEN p
        ELSE IF Fits(try[c - 1], k, n) THEN try[c - 1]
        ELSE resize([try[c - 1] EXCEPT !.mAlignment = Flip(@, FailedFlips(try[c - 1], k))], 2 * try[c - 1].mLen)
  IN addToPack(try[5], id, k, n)
-----------------------------------------------------------------------------
PackerInit ==
  /\ packer \in {New(len) : len \in Lens}
  /\ stack = <<>> /\ popped = NothingRead /\ adds = 0 /\ wasReset = FALSE

Push(id, k, n) == stack' = Append(stack, [id |-> id, k |-> k, n |-> n])

\* The reflected code sizes its packers; createFromArray grows them.
Add(k, n) ==
  /\ adds < MaxAdds /\ Fits(packer, k, n)
  /\ adds' = adds + 1
  /\ packer' = addVector(packer, adds', k, n)
  /\ Push(adds', k, n)
  /\ popped' = NothingRead /\ UNCHANGED wasReset
AddSafely(k, n) ==
  /\ adds < MaxAdds /\ ~Fits(packer, k, n)
  /\ adds' = adds + 1
  /\ packer' = addSafely(packer, adds', k, n)
  /\ Push(adds', k, n)
  /\ popped' = NothingRead
  /\ wasReset' = TRUE \* the marks are not those of the bytes: such a packer is only sent
\* createFieldPack sizes the packer without the padding its arguments may need:
\* where it is too small addToPack throws.
createFieldPack(k1, n1, k2, n2) ==
  /\ adds = 0 /\ stack = <<>> /\ MaxAdds >= 2
  /\ LET p == addToPack(New(getPackedSize(k1, n1) + getPackedSize(k2, n2)), 1, k1, n1)
     IN Fits(p, k2, n2) /\ packer' = addToPack(p, 2, k2, n2)
  /\ stack' = <<[id |-> 1, k |-> k1, n |-> n1], [id |-> 2, k |-> k2, n |-> n2]>>
  /\ adds' = 2 /\ UNCHANGED <<popped, wasReset>>
Align(v) ==
  /\ Up(packer.mPos, v) <= packer.mLen /\ packer.mPos % v # 0
  /\ packer' = align(packer, v)
  /\ popped' = NothingRead /\ UNCHANGED <<stack, adds, wasReset>>
Sub ==
  /\ stack # <<>>
  /\ LET top == stack[Len(stack)]
         s == subVector(packer, top.k, top.n)
     IN packer' = s.p /\ popped' = [want |-> ValueBytes(top), got |-> s.got]
  /\ stack' = IF wasReset THEN <<>> ELSE SubSeq(stack, 1, Len(stack) - 1) \* stale marks: the rest is lost
  /\ UNCHANGED <<adds, wasReset>>
\* reset() moves to the start and leaves the marks.
Reset ==
  /\ packer.mPos > 0
  /\ packer' = [packer EXCEPT !.mPos = 0]
  /\ stack' = <<>> /\ popped' = NothingRead /\ wasReset' = TRUE /\ UNCHANGED adds
\* skip(i) moves without marking; a step back gives up what it crosses.
Skip(i) ==
  /\ ~wasReset \* bound: one move
  /\ packer.mPos + i \in 0 .. packer.mLen
  /\ packer' = [packer EXCEPT !.mPos = @ + i]
  /\ stack' = (IF i < 0 THEN <<>> ELSE stack) /\ popped' = NothingRead /\ wasReset' = TRUE /\ UNCHANGED adds

PackerNext ==
  \/ \E k \in {1, 2, 4}, n \in {1, 3} : Add(k, n) \/ AddSafely(k, n)
  \/ \E k1, k2 \in {1, 2, 4}, n1, n2 \in {1, 3} : createFieldPack(k1, n1, k2, n2)
  \/ \E v \in {2, 8} : Align(v)
  \/ \E i \in {-2, 2} : Skip(i)
  \/ Sub
  \/ Reset

\* What the core reads: every value added since the last reset lies whole in the
\* buffer, at a multiple of its component's size and after the value added before it.
PackedInOrder ==
  LET first(i) == {p \in 0 .. packer.mPos - 1 : packer.mData[p] = Byte(stack[i].id, 1)}
      size(i) == stack[i].k * stack[i].n
  IN \A i \in 1 .. Len(stack) : \E p \in first(i) :
       /\ p % stack[i].k = 0 /\ p + size(i) <= packer.mPos
       /\ \A b \in 1 .. size(i) : packer.mData[p + b - 1] = Byte(stack[i].id, b)
       /\ i > 1 => \A q \in first(i - 1) : q + size(i - 1) <= p

\* A packer that was never reset or moved by skip gives back its values from the last to the first,
\* whatever was aligned in between.
SubReturnsAdded == ~wasReset => popped.got = popped.want
=============================================================================
