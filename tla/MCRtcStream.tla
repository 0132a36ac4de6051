---------------------------- MODULE MCRtcStream ----------------------------
(* Model-checking instance of RtcStream: a track of each codec Start      *)
(* offers, of an unsupported video and audio codec, and of another media  *)
(* type.  The fmtp variants of H.264 and Opus (no usable extradata, mono) *)
(* change no payload type, m-line or packetizer and are left out.         *)
EXTENDS RtcStream

MCTrackKinds ==
    { [media |-> "video", codec |-> "VP8",  sprop |-> FALSE, stereo |-> FALSE],
      [media |-> "video", codec |-> "H264", sprop |-> TRUE,  stereo |-> FALSE],
      [media |-> "video", codec |-> "H265", sprop |-> FALSE, stereo |-> FALSE],
      [media |-> "video", codec |-> "VP9",  sprop |-> FALSE, stereo |-> FALSE],
      [media |-> "audio", codec |-> "OPUS", sprop |-> FALSE, stereo |-> TRUE],
      [media |-> "audio", codec |-> "AAC",  sprop |-> FALSE, stereo |-> FALSE],
      [media |-> "data",  codec |-> "NONE", sprop |-> FALSE, stereo |-> FALSE] }

\* H.264 extradata of up to two SPSs and two PPSs, their lengths covering
\* every remainder modulo 3, with bytes whose bits are all 0 or all 1 at
\* the quantum edges; a short SPS is usable only after the first.  The
\* lists may be empty, which Start does not find usable.
MCSps == {<<103, 66, 192, 31>>, <<103, 66, 192, 31, 255>>, <<0, 255>>}
MCPps == {<<104>>, <<104, 206>>, <<104, 206, 60>>}
MCExtradatas == [sps : BoundedSeq(MCSps, 2), pps : BoundedSeq(MCPps, 2)]
=============================================================================
