\* Lengths of the fragments MakePacket derives from the packet size.
CONSTANTS
    X = X
    NoPacket = NoPacket
    MinBody = 2
    MaxBody = 4

SPECIFICATION Spec

INVARIANT FragmentsWithinPacket
