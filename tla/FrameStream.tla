------------------------------ MODULE FrameStream ------------------------------
(***************************************************************************)
(* What a frame splitter promises: of a byte stream that arrives in        *)
(* arbitrary pieces, every frame's body is handed over whole, once and in  *)
(* order, and never before its last byte has arrived.                      *)
(*                                                                         *)
(* A byte is its position in the stream, counted from 1.  Frame n is the   *)
(* bytes ends[n-1]+1 .. ends[n]; its first HeadLen bytes are the header.   *)
(***************************************************************************)
EXTENDS Integers, Sequences

CONSTANTS HeadLen,     \* bytes in a header
          FrameCount,  \* frames in a stream
          Streams      \* the streams a peer may send

VARIABLES ends,       \* where each frame of the stream ends; ends[0] = 0
          received,   \* bytes that have arrived
          delivered   \* the bodies handed over, in order

streamVars == <<ends, received, delivered>>

Body(n) == [i \in 1..(ends[n] - ends[n - 1] - HeadLen) |-> ends[n - 1] + HeadLen + i]

Init == ends \in Streams /\ received = 0 /\ delivered = <<>>

Arrive ==
    /\ received' \in received..ends[FrameCount]
    /\ UNCHANGED <<ends, delivered>>

Deliver ==
    LET n == Len(delivered) + 1
    IN  /\ n <= FrameCount /\ ends[n] <= received
        /\ delivered' = Append(delivered, Body(n))
        /\ UNCHANGED <<ends, received>>

Next == Arrive \/ Deliver

Spec == Init /\ [][Next]_streamVars
===============================================================================
