------------------------------ MODULE MCExBuffer ------------------------------
(* ExBuffer on every short stream: FrameCount frames with few body lengths *)
EXTENDS ExBuffer

CONSTANT BodyLengths

ShortStreams ==
    {e \in [0..FrameCount -> 0..(FrameCount * (HeadLen + MaxFrame))] :
        /\ e[0] = 0
        /\ \A n \in 1..FrameCount : e[n] - e[n - 1] - HeadLen \in BodyLengths}
===============================================================================
