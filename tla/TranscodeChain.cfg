\* The stream decodes four packets through the decoder, the rescaler and
\* the encoder, from an H.264 input or one no decoder exists for.
CONSTANTS
    MaxFrames = 4
    Codecs = {"H264", "VP8"}

SPECIFICATION Spec

\* Both stages are stopped for good once their joins returned, and a
\* track whose decoder could not be created is given up; StopReturns
\* covers every other way the thread and the stages could stop moving.
CHECK_DEADLOCK FALSE

INVARIANT TypeOK
INVARIANT ChainKeepsOrder
INVARIANT NoLostWakeup
PROPERTY StopReturns
