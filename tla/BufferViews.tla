------------------------------ MODULE BufferViews ------------------------------
(***************************************************************************)
(* Several ByteBuffers of bytebuffer.js over the buffers they share.       *)
(* slice, readBytes, clone and wrap give another view of the same backing  *)
(* buffer; a call that grows, moves or compacts gives its own view another *)
(* one, and the other views keep the old.                                  *)
(***************************************************************************)
EXTENDS BrowserByteBuffer, FiniteSets

CONSTANTS Views,      \* variables of a program that hold a ByteBuffer
          Stores,     \* backing buffers: what no view shows is used again
          MaxBytes,   \* bound: bytes of a backing buffer
          Values      \* bytes that are written

ASSUME ViewsAssumption ==
    /\ RadixAssumption
    /\ MaxBytes \in Nat \ {0} /\ Values \subseteq Byte
    /\ Cardinality(Stores) > Cardinality(Views)

VARIABLES view,   \* [v -> its positions and the backing buffer it shows]
          store   \* the bytes of each backing buffer

viewVars == <<view, store>>

Bytes == UNION {[1..n -> Values \cup {0}] : n \in 0..MaxBytes}

\* A view as the record that the operators of BrowserByteBuffer work on.
Buf(v) == [bytes |-> store[view[v].store], offset |-> view[v].offset, limit |-> view[v].limit,
           mark |-> view[v].mark, endian |-> "BE"]
Position(b, s) == [store |-> s, offset |-> b.offset, limit |-> b.limit, mark |-> b.mark]

Unused == Stores \ {view[w].store : w \in Views}

ViewsInit ==
    \E first \in Stores :
        /\ view = [v \in Views |-> [store |-> first, offset |-> 0, limit |-> 1, mark |-> None]]
        /\ store = [s \in Stores |-> IF s = first THEN Zeros(1) ELSE <<>>]

\* Bytes of backing buffers that no view shows are forgotten.
Shown(views, stores) ==
    [s \in Stores |-> IF \E v \in Views : views[v].store = s THEN stores[s] ELSE <<>>]

\* Where v goes when it becomes b: its own backing buffer or, when the length is another,
\* a new one.
StoresFor(v, b) ==
    IF Len(b.bytes) # Len(store[view[v].store]) THEN Unused ELSE {view[v].store}

\* Fault: the buffer that grows stays the one that the others show.
BecomesInPlace(v, b) ==
    /\ Len(b.bytes) <= MaxBytes
    /\ view' = [view EXCEPT ![v] = Position(b, @.store)]
    /\ store' = [store EXCEPT ![view[v].store] = b.bytes]

Becomes(v, b) ==
    /\ Len(b.bytes) <= MaxBytes
    /\ \E s \in StoresFor(v, b) :
        LET views == [view EXCEPT ![v] = Position(b, s)] IN
        view' = views /\ store' = Shown(views, [store EXCEPT ![s] = b.bytes])

\* View v becomes b over a backing buffer of its own.
BecomesNew(v, b) ==
    \E s \in Unused :
        LET views == [view EXCEPT ![v] = Position(b, s)] IN
        view' = views /\ store' = Shown(views, [store EXCEPT ![s] = b.bytes])

\* View v becomes b over the buffer of w.
BecomesView(v, b, w) ==
    LET views == [view EXCEPT ![v] = Position(b, view[w].store)] IN
    view' = views /\ store' = Shown(views, store)
-------------------------------------------------------------------------------
(* One view. *)

WriteByte(v) ==
    \E x \in Values : CanPut(Buf(v), None, 1) /\ Becomes(v, writeUint8(Buf(v), x, None))

Move(v) ==
    \/ Becomes(v, clear(Buf(v))) \/ Becomes(v, flip(Buf(v)))
    \/ Becomes(v, mark(Buf(v), None)) \/ Becomes(v, reset(Buf(v)))
    \/ \E n \in {-1, 1} : CanSkip(Buf(v), n) /\ Becomes(v, skip(Buf(v), n))

\* compact does not look at a mark behind the contents; callers that leave one there are
\* not modelled.
Compact(v) ==
    /\ CanRange(Buf(v), None, None)
    /\ view[v].mark <= view[v].limit
    /\ Becomes(v, compact(Buf(v), None, None))

Grow(v) ==
    \E n \in 1..MaxBytes : /\ CanGrow(Buf(v), n)
                           /\ Becomes(v, ensureCapacity(Buf(v), n))

Fill(v) ==
    \E x \in Values : /\ CanRange(Buf(v), None, None)
                      /\ Becomes(v, fill(Buf(v), x, None, None))
Turn(v) ==
    CanRange(Buf(v), None, None) /\ Becomes(v, reverse(Buf(v), None, None))
-------------------------------------------------------------------------------
(* Two views. *)

\* Other views of the buffer of w.
SliceOf(v, w) ==
    /\ v # w /\ CanRange(Buf(w), None, None)
    /\ BecomesView(v, slice(Buf(w), None, None), w)
CloneOf(v, w) == v # w /\ BecomesView(v, clone(Buf(w), FALSE), w)

\* wrap(ByteBuffer) clones without the mark.
WrapOf(v, w) == v # w /\ BecomesView(v, [clone(Buf(w), FALSE) EXCEPT !.mark = None], w)

\* v = w.readBytes(1) moves w.
ReadBytesOf(v, w) ==
    LET read == readBytes(Buf(w), 1, None)
        views == [view EXCEPT ![v] = Position(read.value, view[w].store),
                              ![w] = Position(read.b, view[w].store)]
    IN  /\ v # w /\ CanReadBytes(Buf(w), 1, None)
        /\ view' = views /\ store' = Shown(views, store)

\* v = ByteBuffer.wrap(w.toBuffer()): the same memory when that holds nothing else.
WrapBufferOf(v, w) ==
    LET b == Buf(w) IN
    /\ v # w /\ CanRange(b, None, None)
    /\ IF GivesOwnBuffer(b, FALSE) THEN BecomesView(v, wrap(toBuffer(b)), w)
       ELSE BecomesNew(v, wrap(toBuffer(b)))

CopyOf(v, w) ==
    /\ CanRange(Buf(w), None, None)
    /\ BecomesNew(v, copy(Buf(w), None, None))
CopyingCloneOf(v, w) == v # w /\ BecomesNew(v, clone(Buf(w), TRUE))
ConcatOf(v, w) ==
    /\ Len(Window(Buf(v))) + Len(Window(Buf(w))) <= MaxBytes
    /\ BecomesNew(v, concat(<<Buf(v), Buf(w)>>))

\* A call that changes v and moves the offset of w.
BecomesBoth(v, b, w, offset) ==
    /\ Len(b.bytes) <= MaxBytes
    /\ \E s \in StoresFor(v, b) :
        LET views == [view EXCEPT ![v] = Position(b, s), ![w].offset = offset] IN
        view' = views /\ store' = Shown(views, [store EXCEPT ![s] = b.bytes])

AppendTo(v, w) ==
    /\ v # w
    /\ CanPut(Buf(v), None, remaining(Buf(w)))
    /\ BecomesBoth(v, append(Buf(v), Buf(w), None), w, Used(Buf(w)).offset)

Prepend(v, w) ==
    /\ v # w /\ CanPrepend(Buf(v), Buf(w), None)
    /\ BecomesBoth(v, prepend(Buf(v), Buf(w), None), w, Used(Buf(w)).offset)

\* v.copyTo(w).  A source whose offset is behind its limit has a negative length, and
\* both offsets would move back; callers with such a source are not modelled.
CopyTo(v, w) ==
    LET r == copyTo(Buf(v), Buf(w), None, None, None) IN
    /\ v # w
    /\ remaining(Buf(v)) >= 0
    /\ remaining(Buf(v)) # 0 => CanPut(Buf(w), None, remaining(Buf(v)))
    /\ BecomesBoth(w, r.target, v, r.b.offset)

Alone(v) == WriteByte(v) \/ Move(v) \/ Compact(v) \/ Grow(v) \/ Fill(v) \/ Turn(v)
Together(v, w) ==
    \/ SliceOf(v, w) \/ CloneOf(v, w) \/ WrapOf(v, w) \/ ReadBytesOf(v, w)
    \/ WrapBufferOf(v, w) \/ CopyOf(v, w) \/ CopyingCloneOf(v, w) \/ ConcatOf(v, w)
    \/ AppendTo(v, w) \/ Prepend(v, w) \/ CopyTo(v, w)

ViewsNext ==
    \/ \E v \in Views : Alone(v)
    \/ \E v, w \in Views : Together(v, w)

ViewsSpec == ViewsInit /\ [][ViewsNext]_viewVars

-------------------------------------------------------------------------------
ViewsTypeOK ==
    /\ view \in [Views -> [store : Stores, offset : Nat, limit : Nat, mark : (-MaxBytes - 1)..MaxBytes]]
    /\ store \in [Stores -> Bytes]

\* Whatever a caller does that looks after its marks, the positions of every view stay in
\* its own backing buffer, although others write through it, and its next relative call
\* finds what the methods assert.
PositionsInside ==
    \A v \in Views : LET size == Len(store[view[v].store]) IN
        /\ view[v].offset \in 0..size /\ view[v].limit \in 0..size
        /\ view[v].mark <= size

\* Where a call grows, moves or compacts the backing buffer of one view, the other views
\* keep the bytes that they show: a resize never reaches the buffer that is shared.
GrowsAlone ==
    \A v, w \in Views :
        /\ v # w /\ view'[v].store = view[v].store
        /\ Len(Buf(w)'.bytes) # Len(Buf(w).bytes)
        => Buf(v)'.bytes = Buf(v).bytes

\* ensureCapacity and compact lose nothing (lines 2490, 2607): wherever the positions are,
\* the view has the same contents in its new buffer.
ContentsMoveAlong ==
    \A v \in Views :
        /\ \A n \in 1..MaxBytes : Window(ensureCapacity(Buf(v), n)) = Window(Buf(v))
        /\ CanRange(Buf(v), None, None) =>
              Window(compact(Buf(v), None, None)) = Window(Buf(v))

\* What is prepended stands in front of the contents, whether there is room in front of
\* offset or all has to be moved (line 2752), and whether or not the source shows the
\* same backing buffer.
PrependedInFront ==
    \A v, w \in Views :
        v # w /\ CanPrepend(Buf(v), Buf(w), None) /\ remaining(Buf(v)) >= 0 =>
            Window(prepend(Buf(v), Buf(w), None)) = Window(Buf(w)) \o Window(Buf(v))

ViewsKeepContents == PositionsInside /\ ContentsMoveAlong /\ PrependedInFront
GrowingDisturbsNobody == [][GrowsAlone]_viewVars
===============================================================================
