\* Keep-alive and pipelined requests against HTTP/1.1 semantics.
CONSTANTS
    NumRequests = 2
    Interceptors = {hls, dash}
    DefaultInterceptor = DefaultInterceptor
    NoTarget = NoTarget

SPECIFICATION Spec

\* A connection ends for good once OnDisconnected has run.
CHECK_DEADLOCK FALSE

INVARIANT RequestBytesReachTheirRequest
