\* Start, failed start with rollback, and stop of publishers sharing ports.
CONSTANTS
    Publishers <- MCPublishers
    Ports = {p80, p443}
    NoPort = NoPort

SPECIFICATION Spec

INVARIANT TypeOK
INVARIANT NoOrphanListener
