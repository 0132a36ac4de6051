\* Offers and packetizers of every stream of up to two tracks, and VP8
\* picture ids across the uint16_t wrap (2^15 + 1 frames).  The payload
\* types are defined outside src/: any values with the dynamic range
\* below RED and ULPFEC do.
CONSTANTS
    TrackKinds <- MCTrackKinds
    MaxTracks = 2
    PayloadTypeOffset = 100
    RedPayloadType = 120
    UlpfecPayloadType = 121
    MaxVp8Frames = 32769
    NoOffer = NoOffer
    Extradatas <- MCExtradatas

SPECIFICATION Spec

INVARIANT TypeOK
INVARIANT OfferMatchesPacketizers
INVARIANT BroadcastKeySeparatesClasses
INVARIANT PictureIdCycle
INVARIANT SpropDecodesToParameterSets
