----------------------------- MODULE RtcStream -----------------------------
(***************************************************************************)
(* The WebRTC publisher's stream, RtcStream (publishers/webrtc/            *)
(* rtc_stream.cpp): Start builds the SDP offer and one RTP packetizer per  *)
(* track it can send, SendVideoFrame gives every VP8 frame a picture id   *)
(* and hands the frame to its track's packetizer, OnRtpPacketized keys    *)
(* each RTP packet for the sessions, and Stop releases the offer and the  *)
(* packetizers.                                                            *)
(*                                                                         *)
(* The tracks are the stream's _tracks map, iterated in track-id order;   *)
(* a track is its media type, its codec and, for H.264 and Opus, what     *)
(* decides its fmtp (usable SPS/PPS extradata, a stereo layout).  An SDP  *)
(* payload is its payload type, its codec, an fmtp tag and whether it     *)
(* advertises NACK; the offer is its video and audio m-line payload       *)
(* lists (an empty list: no m-line).  The SSRC of a packetizer is named   *)
(* by the m-line it was taken from.  The packetizers themselves, the SDP  *)
(* classes and Stream::Start are outside this file.                       *)
(***************************************************************************)
EXTENDS Integers, Sequences, SequencesExt, Bitwise

CONSTANTS
    TrackKinds,          \* the tracks a stream may carry
    MaxTracks,           \* most tracks in a stream
    PayloadTypeOffset,   \* PAYLOAD_TYPE_OFFSET: first dynamic payload type
    RedPayloadType,      \* RED_PAYLOAD_TYPE
    UlpfecPayloadType,   \* ULPFEC_PAYLOAD_TYPE
    MaxVp8Frames,        \* bound on the VP8 frames a behaviour sends
    Extradatas,          \* deserialized H.264 extradata: [sps, pps] lists of byte strings
    NoOffer              \* model value: _offer_sdp released

ASSUME /\ MaxTracks \in Nat \ {0} /\ MaxVp8Frames \in Nat
       /\ {PayloadTypeOffset, RedPayloadType, UlpfecPayloadType} \subseteq 0..127

VARIABLES
    tracks,       \* _tracks: track id -> track
    phase,        \* "created", "started" (Start returned true), "stopped"
    offer,        \* _offer_sdp: [video, audio] payload lists, or NoOffer
    packetizers,  \* _packetizers: track id -> [pt, ssrc, ulpfec]
    picId,        \* _vp8_picture_id, a uint16_t
    vp8Frames     \* history: VP8 frames given a picture id

vars == <<tracks, phase, offer, packetizers, picId, vp8Frames>>

Track == [media : {"video", "audio", "data"},
          codec : {"VP8", "H264", "H265", "VP9", "OPUS", "AAC", "NONE"},
          sprop : BOOLEAN, stereo : BOOLEAN]

Payload == [pt : 0..255, codec : {"VP8", "H264", "H265", "OPUS", "red", "ulpfec"},
            fmtp : {"none", "sprop", "default", "stereo", "mono"}, nack : BOOLEAN]

Packetizer == [pt : 0..255, ssrc : {"video", "audio"}, ulpfec : BOOLEAN]

\* The three kinds of RTP packet a packetizer hands to OnRtpPacketized
\* (spec 4.3, RED/ULPFEC): the media packet, the media packet in a RED
\* wrapper, and a ULPFEC packet in a RED wrapper that remembers the media
\* payload type.  The RED kinds exist only with ULPFEC enabled.
RtpPacket == [pt : 0..255, block : 0..255, isFec : BOOLEAN, origin : 0..255]

Emitted(p) ==
    {[pt |-> p.pt, block |-> 0, isFec |-> FALSE, origin |-> 0]}
    \cup (IF p.ulpfec
            THEN {[pt |-> RedPayloadType, block |-> p.pt, isFec |-> FALSE, origin |-> 0],
                  [pt |-> RedPayloadType, block |-> UlpfecPayloadType, isFec |-> TRUE,
                   origin |-> p.pt]}
            ELSE {})

B64 == INSTANCE Base64

\* The ',' between parameter sets: not a base64 symbol.
Comma == 65

-----------------------------------------------------------------------------
(* Mutants: plausible faults of the operators below.                       *)

PtNextStuck(n) == n

AllocateVP8PictureIDNoWrap(id) == (id + 1) % 2^16

AllocateVP8PictureIDWide(id) == IF id + 1 = 0 THEN 32768 ELSE id + 1

SpropParameterSetsTrailingComma(sps, pps) ==
    FlattenSeq([i \in DOMAIN sps |-> B64!Encode(sps[i]) \o <<Comma>>])
    \o FlattenSeq([i \in DOMAIN pps |-> B64!Encode(pps[i]) \o <<Comma>>])

PayloadTypeKeyNoOrigin(pkt) ==
    pkt.pt | ((IF pkt.pt = RedPayloadType THEN pkt.block ELSE 0) * 2^8)

-----------------------------------------------------------------------------
(* Start: the SDP offer and the packetizers                                *)

\* payload_type_num++ on a uint8_t.
PtNext(n) == (n + 1) % 2^8

\* AddPacketizer (lines 402-427): video codecs get a packetizer with
\* ULPFEC, Opus one without; any other codec returns without one.
AddPacketizer(pack, codec, id, pt, ssrc) ==
    CASE codec \in {"VP8", "H264", "H265"} ->
            pack @@ (id :> [pt |-> pt, ssrc |-> ssrc, ulpfec |-> TRUE])
      [] codec = "OPUS" ->
            pack @@ (id :> [pt |-> pt, ssrc |-> ssrc, ulpfec |-> FALSE])
      [] OTHER -> pack

\* The codec name and fmtp the switches of lines 59-182 give a track; the
\* codec "skip" for the codecs they leave with continue and for media
\* types other than video and audio.
Describe(t) ==
    CASE t.media = "video" /\ t.codec \in {"VP8", "H265"} -> [codec |-> t.codec, fmtp |-> "none"]
      [] t.media = "video" /\ t.codec = "H264" ->
            [codec |-> "H264", fmtp |-> IF t.sprop THEN "sprop" ELSE "default"]
      [] t.media = "audio" /\ t.codec = "OPUS" ->
            [codec |-> "OPUS", fmtp |-> IF t.stereo THEN "stereo" ELSE "mono"]
      [] OTHER -> [codec |-> "skip", fmtp |-> "none"]

\* The test of lines 78-84 on a deserialized extradata: an SPS, the first
\* of at least 4 bytes (profile-level-id is bytes 1-3), and a PPS.
UsableExtradata(x) == x.sps # <<>> /\ Len(x.sps[1]) >= 4 /\ x.pps # <<>>

\* The sprop-parameter-sets value (lines 86-97): every SPS in base64
\* followed by ',', then the PPSs in base64 with ',' between them.
SpropParameterSets(sps, pps) ==
    FlattenSeq([i \in DOMAIN sps |-> B64!Encode(sps[i]) \o <<Comma>>])
    \o FlattenSeq([i \in DOMAIN pps |->
                    B64!Encode(pps[i]) \o (IF i # Len(pps) THEN <<Comma>> ELSE <<>>)])

\* The for loop of Start (lines 54-217), from track i on: each track it
\* describes gets the next payload type on the m-line of its media type
\* (created with the first such track), NACK if it is video, and a
\* packetizer on that m-line's SSRC.
RECURSIVE OfferLoop(_, _, _)
OfferLoop(ts, i, acc) ==
    IF i > Len(ts) THEN acc
    ELSE LET d == Describe(ts[i])
             m == ts[i].media
         IN IF d.codec = "skip" THEN OfferLoop(ts, i + 1, acc)
            ELSE OfferLoop(ts, i + 1,
                   [acc EXCEPT ![m] = Append(@, [pt |-> acc.pt, codec |-> d.codec,
                                                 fmtp |-> d.fmtp, nack |-> m = "video"]),
                               !.pt = PtNext(@),
                               !.pack = AddPacketizer(@, d.codec, i, acc.pt, m)])

RedPayload    == [pt |-> RedPayloadType, codec |-> "red", fmtp |-> "none", nack |-> FALSE]
UlpfecPayload == [pt |-> UlpfecPayloadType, codec |-> "ulpfec", fmtp |-> "none", nack |-> FALSE]

\* Start (lines 35-239): the loop, then RED and ULPFEC on the video m-line
\* if there is one, then Stream::Start.  If that fails, Create (lines
\* 9-19) drops the stream and its destructor calls Stop.
Start(streamStarted) ==
    LET r == OfferLoop(tracks, 1, [video |-> <<>>, audio |-> <<>>,
                                   pt |-> PayloadTypeOffset, pack |-> <<>>])
        o == [video |-> IF r.video = <<>> THEN <<>> ELSE r.video \o <<RedPayload, UlpfecPayload>>,
              audio |-> r.audio]
    IN
    /\ phase = "created"
    /\ IF streamStarted
         THEN phase' = "started" /\ offer' = o /\ packetizers' = r.pack
         ELSE phase' = "stopped" /\ offer' = NoOffer /\ packetizers' = <<>>
    /\ UNCHANGED <<tracks, picId, vp8Frames>>

\* Stop (lines 241-247): release the offer, drop the packetizers.  The
\* destructor calls it again (lines 29-33).
Stop ==
    /\ phase # "created"
    /\ phase' = "stopped"
    /\ offer' = NoOffer
    /\ packetizers' = <<>>
    /\ UNCHANGED <<tracks, picId, vp8Frames>>

-----------------------------------------------------------------------------
(* Sending                                                                 *)

\* AllocateVP8PictureID (lines 356-368): the uint16_t is incremented and,
\* when it wraps to 0, set back to 0x8000 (the 15-bit flag, picture id 0).
AllocateVP8PictureID(id) ==
    IF (id + 1) % 2^16 = 0 THEN 32768 ELSE (id + 1) % 2^16

\* MakeRtpVideoHeader (lines 370-400): only a VP8 header takes a picture id.
MakeRtpVideoHeader(codec, id) == IF codec = "VP8" THEN AllocateVP8PictureID(id) ELSE id

\* SendVideoFrame (lines 285-329) for a frame of video track i: the RTP
\* video header is made first, so a VP8 frame takes a picture id before
\* GetPacketizer (lines 429-437) is asked for the track's packetizer; the
\* packetizer, if any, packetizes the frame outside this file.
SendVideoFrame(i) ==
    /\ phase = "started"
    /\ tracks[i].media = "video"
    /\ tracks[i].codec = "VP8" => vp8Frames < MaxVp8Frames
    /\ picId' = MakeRtpVideoHeader(tracks[i].codec, picId)
    /\ vp8Frames' = IF tracks[i].codec = "VP8" THEN vp8Frames + 1 ELSE vp8Frames
    /\ UNCHANGED <<tracks, phase, offer, packetizers>>

\* OnRtpPacketized (lines 254-283): the key BroadcastPacket sends a packet
\* under, payload_type | (red_block_pt << 8) | (origin_pt_of_fec << 16).
PayloadTypeKey(pkt) ==
    LET red    == IF pkt.pt = RedPayloadType THEN pkt.block ELSE 0
        origin == IF pkt.pt = RedPayloadType /\ pkt.isFec THEN pkt.origin ELSE 0
    IN pkt.pt | (red * 2^8) | (origin * 2^16)

-----------------------------------------------------------------------------

\* The constructor (lines 21-27) on any set of up to MaxTracks tracks.
Init ==
    /\ tracks \in UNION {[1..n -> TrackKinds] : n \in 0..MaxTracks}
    /\ phase = "created"
    /\ offer = NoOffer
    /\ packetizers = <<>>
    /\ picId = 32768
    /\ vp8Frames = 0

Next ==
    \/ \E ok \in BOOLEAN : Start(ok)
    \/ Stop
    \/ \E i \in DOMAIN tracks : SendVideoFrame(i)

Spec == Init /\ [][Next]_vars

-----------------------------------------------------------------------------
(* Properties *)

TypeOK ==
    /\ tracks \in Seq(Track) /\ Len(tracks) <= MaxTracks
    /\ phase \in {"created", "started", "stopped"}
    /\ offer \in [video : Seq(Payload), audio : Seq(Payload)] \cup {NoOffer}
    /\ DOMAIN packetizers \subseteq DOMAIN tracks
    /\ \A i \in DOMAIN packetizers : packetizers[i] \in Packetizer
    /\ picId \in 0..(2^16 - 1)
    /\ vp8Frames \in 0..MaxVp8Frames

\* The codecs spec 4.3 has the WebRTC publisher send, with the H.265 that
\* the code also offers.
Sendable(t) ==
    \/ t.media = "video" /\ t.codec \in {"VP8", "H264", "H265"}
    \/ t.media = "audio" /\ t.codec = "OPUS"

AllPayloads == IF offer = NoOffer THEN <<>> ELSE offer.video \o offer.audio

\* What the offer announces is what the packetizers send (spec 4.3): every
\* sendable track, and no other, has a packetizer; its payload type is a
\* payload of its codec on the m-line whose SSRC it sends with, and no two
\* payloads of the offer share a type; the video m-line lists the codec
\* payloads, each with NACK, then RED, then ULPFEC.  Start computes all of
\* it in one pass over tracks of mixed media types and unsupported codecs.
OfferMatchesPacketizers ==
    phase = "started" =>
        /\ \A i \in DOMAIN tracks : i \in DOMAIN packetizers <=> Sendable(tracks[i])
        /\ \A i \in DOMAIN packetizers :
              \E k \in DOMAIN offer[packetizers[i].ssrc] :
                  /\ offer[packetizers[i].ssrc][k].pt = packetizers[i].pt
                  /\ offer[packetizers[i].ssrc][k].codec = tracks[i].codec
        /\ \A j, k \in DOMAIN AllPayloads : AllPayloads[j].pt = AllPayloads[k].pt => j = k
        /\ offer.video # <<>> =>
              /\ SubSeq(offer.video, Len(offer.video) - 1, Len(offer.video))
                    = <<RedPayload, UlpfecPayload>>
              /\ \A k \in 1..(Len(offer.video) - 2) : offer.video[k].nack

\* The broadcast key tells the packet classes apart (spec 4.3): two RTP
\* packets of the stream's packetizers get the same key only if they are
\* the same kind of packet for the same media payload type, so a session
\* subscribed to one track's ULPFEC or RED packets gets no other track's.
BroadcastKeySeparatesClasses ==
    LET keyed == {<<a, PayloadTypeKey(a)>> : a \in UNION {Emitted(packetizers[i]) : i \in DOMAIN packetizers}}
    IN \A x, y \in keyed : x[2] = y[2] => x[1] = y[1]

\* VP8 picture ids (spec 4.3): after n VP8 frames the id is 0x8000 plus n
\* modulo 2^15, so every id carries the 15-bit flag and consecutive frames'
\* 15-bit ids follow each other, across the uint16_t wrap of the counter.
PictureIdCycle == picId = 32768 + (vp8Frames % 2^15)

\* A receiver's reading of sprop-parameter-sets: the text cut at each ','.
RECURSIVE SplitAtComma(_)
SplitAtComma(t) ==
    LET i == SelectInSeq(t, LAMBDA c : c = Comma)
    IN IF i = 0 THEN <<t>>
       ELSE <<SubSeq(t, 1, i - 1)>> \o SplitAtComma(SubSeq(t, i + 1, Len(t)))

\* Every usable extradata's sprop-parameter-sets decodes back to it.
SpropRoundTrip ==
    \A x \in Extradatas : UsableExtradata(x) =>
        LET sets  == x.sps \o x.pps
            parts == SplitAtComma(SpropParameterSets(x.sps, x.pps))
        IN [i \in DOMAIN parts |-> B64!Decode(parts[i])]
             = [i \in DOMAIN sets |-> B64!Result(TRUE, sets[i])]

\* An offer Start built carries the stream's parameter sets (spec 4.3,
\* RFC 6184): for every extradata Start finds usable, cutting its
\* sprop-parameter-sets at the commas and decoding each piece with
\* Base64::Decode gives back every SPS and then every PPS, in order and
\* none missing or extra, whatever the lengths' remainders modulo 3.
SpropDecodesToParameterSets == offer # NoOffer => SpropRoundTrip
=============================================================================
