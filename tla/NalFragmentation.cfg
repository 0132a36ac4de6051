\* Start-code scan of MakePacket over every packet with NAL units of up to
\* three bytes.
CONSTANTS
    X = X
    NoPacket = NoPacket
    MinBody = 2
    MaxBody = 4

SPECIFICATION Spec

INVARIANT TypeOK
INVARIANT FragmentsStartAtNalUnits
