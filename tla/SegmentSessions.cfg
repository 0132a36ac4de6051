\* Viewer accounting of the segment table against the housekeeping sweep.
CONSTANTS
    Workers <- MCWorkers
    IPs <- MCIPs
    MaxSeq = 3
    MaxEntries = 2
    ExpireAfter = 1
    SweepPeriod = 1

SPECIFICATION Spec

INVARIANT SessionAccounting
PROPERTY ExpiredSessionEventuallyClosed
