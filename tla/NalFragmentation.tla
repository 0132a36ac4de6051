-------------------------- MODULE NalFragmentation --------------------------
(***************************************************************************)
(* The H.264 fragmentation header built by the AVC encoder,               *)
(* OvenCodecImplAvcodecEncAVC::MakePacket (transcode_codec_enc_avc.cpp).   *)
(*                                                                         *)
(* MakePacket scans the Annex-B byte stream of an encoded packet for start *)
(* codes and records, in a FragmentationHeader, the offset and length of   *)
(* each NAL unit: SPS, PPS and the IDR slice of a key frame, the single    *)
(* slice of any other frame.  The RTP packetizer of the WebRTC publisher   *)
(* cuts packets along this header.                                        *)
(*                                                                         *)
(* The encoder thread hands MakePacket one packet after another and sends *)
(* each on; the model does the same, over every packet the encoder may    *)
(* produce within the NAL unit length bounds, and compares the header     *)
(* with the NAL units the packet was built from.                          *)
(*                                                                         *)
(* Bytes are abstracted to 0, 1 and X (any byte above 1): the scan only   *)
(* ever compares with 0 and 1.                                             *)
(***************************************************************************)
EXTENDS Integers, Sequences, SequencesExt

CONSTANTS
    X,          \* model value: a byte other than 0x00 and 0x01
    MinBody,    \* shortest NAL unit generated, in bytes
    MaxBody,    \* longest NAL unit generated, in bytes
    NoPacket    \* model value: no packet encoded yet

ASSUME MinBody \in Nat \ {0} /\ MaxBody \in MinBody..100

VARIABLES
    pkt,        \* the packet handed to MakePacket: [key, scs, bodies]
    header      \* the FragmentationHeader it built: [offset, length]

vars == <<pkt, header>>

-----------------------------------------------------------------------------
(* Packets as libx264 emits them (Annex B).                                *)

Bytes == {0, 1, X}

SC3 == <<0, 0, 1>>
SC4 == <<0, 0, 0, 1>>

\* A NAL unit: a header byte (forbidden bit 0, type # 0), then a payload of
\* at least one byte (every SPS, PPS and slice x264 writes has one), with
\* emulation prevention (no 00 00 00 / 00 00 01 inside) that ends with the
\* rbsp stop bit, so on a non-zero byte.
NalUnits ==
    {u \in UNION {[1..n -> Bytes] : n \in MinBody..MaxBody} :
        /\ u[1] = X
        /\ u[Len(u)] # 0
        /\ ~\E i \in 1..(Len(u) - 2) : u[i] = 0 /\ u[i + 1] = 0 /\ u[i + 2] \in {0, 1}}

\* A key frame is SPS, PPS and an IDR slice; any other frame is one slice.
\* Each unit is preceded by a 3- or 4-byte start code.
Packets ==
    {[key |-> TRUE, scs |-> s, bodies |-> b] :
        s \in {SC3, SC4} \X {SC3, SC4} \X {SC3, SC4},
        b \in NalUnits \X NalUnits \X NalUnits}
    \cup
    {[key |-> FALSE, scs |-> <<s>>, bodies |-> <<b>>] : s \in {SC3, SC4}, b \in NalUnits}

\* _packet->data
Data(p) == FlattenSeq([i \in DOMAIN p.bodies |-> p.scs[i] \o p.bodies[i]])

\* Reference: 0-based offset and length of the k-th NAL unit of p.
RefOffset(p, k) ==
    SumFunction([i \in 1..k |-> Len(p.scs[i]) + IF i < k THEN Len(p.bodies[i]) ELSE 0])
RefLength(p, k) == Len(p.bodies[k])

-----------------------------------------------------------------------------
(* MakePacket *)

\* _packet->data[i], 0-based.
At(d, i) == d[i + 1]

\* The loop variables of MakePacket that reach the header; -1 is "not
\* found yet".
NoIndex == -1
ScanStart == [spsStart |-> NoIndex, spsEnd |-> NoIndex, ppsStart |-> NoIndex,
              ppsEnd |-> NoIndex, nps |-> 4]

\* Size of the start code at index ci (lines 283-296), 0 when there is none.
StartCodeAt(d, ci) ==
    IF At(d, ci) = 0 /\ At(d, ci + 1) = 0
      THEN IF At(d, ci + 2) = 0 /\ At(d, ci + 3) = 1 THEN 4
           ELSE IF At(d, ci + 2) = 1 THEN 3
           ELSE 0
      ELSE 0

\* The while loop of lines 280-325.  "key" is _packet->flags == KEY.
RECURSIVE Scan(_, _, _, _)
Scan(d, key, ci, r) ==
    LET n == StartCodeAt(d, ci) IN
    IF ci + r.nps >= Len(d) THEN r
    ELSE IF n = 0 THEN Scan(d, key, ci + 1, r)
    ELSE IF r.spsStart = NoIndex
      THEN IF key THEN Scan(d, key, ci + n, [r EXCEPT !.spsStart = ci + n, !.nps = n])
                  ELSE [r EXCEPT !.spsStart = ci + n, !.nps = n]
    ELSE IF r.spsEnd = NoIndex
      THEN Scan(d, key, ci + n,
                [r EXCEPT !.spsEnd = ci - 1, !.ppsStart = ci + n, !.nps = n])
    ELSE [r EXCEPT !.ppsEnd = ci - 1, !.nps = n]

\* Mutants: plausible faults of MakeHeader.
MakeHeaderIdrNoPattern(size, key, r) ==
    IF key
      THEN [offset |-> <<r.spsStart, r.ppsStart, r.ppsEnd + 1>>,
            length |-> <<r.spsEnd - (r.spsStart - 1), r.ppsEnd - (r.ppsStart - 1),
                         size - (r.ppsEnd + r.nps)>>]
      ELSE [offset |-> <<r.spsStart>>, length |-> <<size - (r.spsStart - 1)>>]

MakeHeaderDeltaPps(size, key, r) ==
    IF key
      THEN [offset |-> <<r.spsStart, r.ppsStart, (r.ppsEnd + 1) + r.nps>>,
            length |-> <<r.spsEnd - (r.spsStart - 1), r.ppsEnd - (r.ppsStart - 1),
                         size - (r.ppsEnd + r.nps)>>]
      ELSE [offset |-> <<r.ppsStart>>, length |-> <<size - (r.spsStart - 1)>>]

\* The fragmentation header of lines 327-348.
MakeHeader(size, key, r) ==
    IF key
      THEN [offset |-> <<r.spsStart, r.ppsStart, (r.ppsEnd + 1) + r.nps>>,
            length |-> <<r.spsEnd - (r.spsStart - 1), r.ppsEnd - (r.ppsStart - 1),
                         size - (r.ppsEnd + r.nps)>>]
      ELSE [offset |-> <<r.spsStart>>, length |-> <<size - (r.spsStart - 1)>>]

\* avcodec_receive_packet returns a packet and MakePacket (lines 262-353)
\* builds its header (ThreadEncode, lines 210-230).
EncodePacket ==
    /\ pkt = NoPacket
    /\ \E p \in Packets :
          LET d == Data(p) IN
          /\ pkt' = p
          /\ header' = MakeHeader(Len(d), p.key, Scan(d, p.key, 0, ScanStart))

\* av_packet_unref and SendOutputBuffer hand the MediaPacket on (lines
\* 231-233); the loop asks the codec for the next packet.
SendOutputBuffer ==
    /\ pkt # NoPacket
    /\ pkt' = NoPacket
    /\ header' = [offset |-> <<>>, length |-> <<>>]

Init ==
    /\ pkt = NoPacket
    /\ header = [offset |-> <<>>, length |-> <<>>]

Next == EncodePacket \/ SendOutputBuffer

Spec == Init /\ [][Next]_vars

-----------------------------------------------------------------------------
(* Properties *)

TypeOK ==
    /\ pkt \in [key : BOOLEAN, scs : Seq({SC3, SC4}), bodies : Seq(Seq(Bytes))]
              \cup {NoPacket}
    /\ header \in [offset : Seq(Nat), length : Seq(Nat)]

\* The header has one fragment per NAL unit, each starting where its NAL
\* unit starts, and the SPS and PPS fragments have their NAL unit's length:
\* the start-code scan finds every start code, of either size, and no
\* false one inside a unit.
FragmentsStartAtNalUnits ==
    pkt # NoPacket =>
        /\ Len(header.offset) = Len(pkt.bodies)
        /\ \A k \in DOMAIN pkt.bodies : header.offset[k] = RefOffset(pkt, k)
        /\ pkt.key => \A k \in 1..2 : header.length[k] = RefLength(pkt, k)

\* Every fragment lies inside the packet, so the RTP packetizer that copies
\* along the header never reads past _packet->data.
FragmentsWithinPacket ==
    pkt # NoPacket =>
        \A k \in DOMAIN header.offset :
            header.offset[k] + header.length[k] <= Len(Data(pkt))
=============================================================================
