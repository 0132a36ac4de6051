\* Grace admissions against the housekeeping sweep, with and without a
\* signed-URL key configured.
CONSTANTS
    Workers <- MCWorkers
    IPs <- MCIPs
    SessionIds <- MCSessionIds
    MaxSessionAge = 1
    SweepPeriod = 1
    SignedUrlConfigs = {TRUE, FALSE}
    NoEntry = NoEntry

SPECIFICATION Spec

INVARIANT GraceChain
PROPERTY TooOldSessionEventuallyRevoked
