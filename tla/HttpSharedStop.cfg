\* A publisher keeps its listener while the publishers sharing it change.
CONSTANTS
    Publishers <- MCPublishers
    Ports = {p80, p443}
    NoPort = NoPort

SPECIFICATION Spec

INVARIANT StartedPublisherServed
