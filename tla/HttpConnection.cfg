\* One connection carrying up to two requests, with the HLS and DASH
\* interceptors registered.
CONSTANTS
    NumRequests = 2
    Interceptors = {hls, dash}
    DefaultInterceptor = DefaultInterceptor
    NoTarget = NoTarget

SPECIFICATION Spec

\* A connection ends for good once OnDisconnected has run.
CHECK_DEADLOCK FALSE

INVARIANT TypeOK
INVARIANT NewRequestChunkParsed
