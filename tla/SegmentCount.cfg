\* The per-session request count carried over by UpdateSegmentRequestInfo.
CONSTANTS
    Workers <- MCWorkers
    IPs <- MCIPs
    MaxSeq = 3
    MaxEntries = 2
    ExpireAfter = 1
    SweepPeriod = 1

SPECIFICATION Spec

INVARIANT SegmentCountTracksRequests
