--------------------------- MODULE TranscodeChain ---------------------------
(***************************************************************************)
(* The three stages of one video track chained together: the decoder      *)
(* base (TranscodeDecoder, transcode/codec/transcode_decoder.cpp) feeds    *)
(* the rescaler (RescalerThread), which feeds the H.264 encoder            *)
(* (AvcEncoderThread).                                                     *)
(*                                                                         *)
(* The transcode stream's thread drives all three.  It creates the        *)
(* decoder, then configures the filter and the encoder, and gives the     *)
(* track up at the first failure.  It then sends packets to the decoder,  *)
(* sends each decoded frame to the filter, moves each rescaled frame on   *)
(* to the encoder and takes the encoded frames.  At the end, or after a   *)
(* failed Configure (the stages' destructors), it stops the filter and    *)
(* then the encoder.  That thread and the codec-specific decoders'        *)
(* RecvBuffer are outside src/ and are modelled from spec 4.2 (decoder -> *)
(* filter -> encoder, FIFOs between them, construction failures mark the  *)
(* track not transcodable); the filter and encoder are the modules        *)
(* translated from their sources.  The thread is one caller, so at most   *)
(* one stage has a call of it in progress.                                *)
(***************************************************************************)
EXTENDS Naturals, Sequences, SequencesExt

CONSTANTS
    MaxFrames,     \* packets the stream decodes: 1..MaxFrames
    Codecs         \* input codecs of the track

VARIABLES
    dec,           \* CreateDecoder: "none" (not called), "ok", "failed" (nullptr)
    dIn,           \* the decoder's _input_buffer: packets not yet decoded
    dSent,         \* history: packets sent to the decoder
    rIn, rOut, rEv, rKill, rPc, rFrame, rGraph, rCpc, rSent, rDelivered,
    eIn, eOut, eEv, eKill, ePc, eFrame, eCodec, eCpc, eSent, eDelivered

dVars == <<dec, dIn, dSent>>
rVars == <<rIn, rOut, rEv, rKill, rPc, rFrame, rGraph, rCpc, rSent, rDelivered>>
eVars == <<eIn, eOut, eEv, eKill, ePc, eFrame, eCodec, eCpc, eSent, eDelivered>>
vars == <<dVars, rVars, eVars>>

R == INSTANCE RescalerThread
        WITH inputBuffer <- rIn, outputBuffer <- rOut, queueEvent <- rEv,
             killFlag <- rKill, tpc <- rPc, frame <- rFrame, graph <- rGraph,
             cpc <- rCpc, sent <- rSent, delivered <- rDelivered

E == INSTANCE AvcEncoderThread
        WITH inputBuffer <- eIn, outputBuffer <- eOut, queueEvent <- eEv,
             killFlag <- eKill, tpc <- ePc, frame <- eFrame, codec <- eCodec,
             cpc <- eCpc, sent <- eSent, delivered <- eDelivered

\* A step of one stage leaves the others alone.
OnFilter(A)  == A /\ UNCHANGED <<dVars, eVars>>
OnEncoder(A) == A /\ UNCHANGED <<dVars, rVars>>

-----------------------------------------------------------------------------
(* Mutants: plausible faults of the operators below.                       *)

DecoderSendBufferFront(q, p) == <<p>> \o q

-----------------------------------------------------------------------------
(* TranscodeDecoder *)

\* The switch of CreateDecoder (lines 54-69): H.264, H.265 and AAC have a
\* decoder; any other codec asserts and leaves it nullptr.
HasDecoder(c) == c \in {"H264", "H265", "AAC"}

\* CreateDecoder (lines 50-80): the decoder, or nullptr when there is none
\* for the codec or Configure (lines 82-127) returns false (no context, no
\* codec, a context that cannot be allocated or opened, no parser).
CreateDecoder(c, configured) ==
    /\ dec = "none"
    /\ dec' = IF HasDecoder(c) /\ configured THEN "ok" ELSE "failed"
    /\ UNCHANGED <<dIn, dSent, rVars, eVars>>

\* SendBuffer (lines 129-132): push_back on _input_buffer, with no lock;
\* only the stream's thread touches the decoder.
SendBuffer(q, p) == Append(q, p)

-----------------------------------------------------------------------------
(* The transcode stream's thread *)

\* The filter is configured once the decoder exists, the encoder once the
\* filter's Configure returned true.
ConfigureFilter  == dec = "ok" /\ OnFilter(R!Configure)
ConfigureEncoder == rCpc = "idle" /\ OnEncoder(E!Configure)

\* The track runs once all three stages are configured.
Running == dec = "ok" /\ rCpc \in {"idle", "notify"} /\ eCpc = "idle"

\* The next packet goes to the decoder.
DecoderSend ==
    /\ Running /\ rCpc = "idle"
    /\ dSent < MaxFrames
    /\ dIn' = SendBuffer(dIn, dSent + 1)
    /\ dSent' = dSent + 1
    /\ UNCHANGED <<dec, rVars, eVars>>

\* The decoder's RecvBuffer takes the oldest packet: its frame goes to the
\* filter, or a decoding error drops it (spec 4.2: the stage drops the
\* offending frame and continues).
Decode ==
    /\ Running /\ rCpc = "idle"
    /\ dIn # <<>>
    /\ dIn' = Tail(dIn)
    /\ \/ R!SendBuffer(Head(dIn)) /\ UNCHANGED <<dec, dSent, eVars>>
       \/ UNCHANGED <<dec, dSent, rVars, eVars>>

\* A frame the filter returns goes to the encoder.
EncoderSend == R!RecvBuffer /\ E!SendBuffer(Head(rOut)) /\ UNCHANGED dVars

\* Encoded frames are taken from the encoder.
EncoderRecv == rCpc = "idle" /\ OnEncoder(E!RecvBuffer)

\* At the end, or when the encoder's Configure failed, the filter is
\* stopped, then the encoder; a stage never constructed is not stopped.
StopFilter  == eCpc \in {"new", "idle", "failed"} /\ OnFilter(R!Stop)
StopEncoder == rCpc = "stopped" /\ OnEncoder(E!Stop)

-----------------------------------------------------------------------------

Init ==
    /\ dec = "none" /\ dIn = <<>> /\ dSent = 0
    /\ R!Init /\ E!Init

Next ==
    \/ \E c \in Codecs, ok \in BOOLEAN : CreateDecoder(c, ok)
    \/ ConfigureFilter \/ ConfigureEncoder
    \/ DecoderSend \/ Decode \/ OnFilter(R!NotifyQueueEvent) \/ EncoderSend
    \/ OnEncoder(E!NotifyQueueEvent) \/ EncoderRecv
    \/ StopFilter \/ OnFilter(R!Join) \/ StopEncoder \/ OnEncoder(E!Join)
    \/ OnFilter(R!LoopTest \/ R!Dequeue \/ R!Feed \/ R!Drain)
    \/ OnEncoder(E!LoopTest \/ E!Dequeue \/ E!Feed \/ E!Drain)

\* Each stage's thread runs unless blocked on its semaphore; the stream's
\* thread, once inside a SendBuffer or a Stop, finishes it.
Fairness ==
    /\ WF_vars(OnFilter(R!LoopTest)) /\ WF_vars(OnFilter(R!Dequeue))
    /\ WF_vars(OnFilter(R!Feed)) /\ WF_vars(OnFilter(R!Drain))
    /\ WF_vars(OnEncoder(E!LoopTest)) /\ WF_vars(OnEncoder(E!Dequeue))
    /\ WF_vars(OnEncoder(E!Feed)) /\ WF_vars(OnEncoder(E!Drain))
    /\ WF_vars(OnFilter(R!NotifyQueueEvent)) /\ WF_vars(OnEncoder(E!NotifyQueueEvent))
    /\ WF_vars(OnFilter(R!Join)) /\ WF_vars(OnEncoder(E!Join))

Spec == Init /\ [][Next]_vars /\ Fairness

-----------------------------------------------------------------------------
(* Properties *)

TypeOK ==
    /\ dec \in {"none", "ok", "failed"}
    /\ dIn \in Seq(1..MaxFrames) /\ dSent \in 0..MaxFrames
    /\ R!TypeOK /\ E!TypeOK

\* Per-track order end to end (spec section 5): every frame in the chain,
\* read from the encoder's consumer back to the decoder's input queue, is
\* in decoding order and appears once, across both stages' lock releases,
\* put-backs of refused frames and frames the decoder drops.
ChainKeepsOrder == IsSorted(E!InStage \o R!Pending \o dIn, <)

\* Neither stage's thread sleeps on its semaphore while a frame is queued
\* for it.
NoLostWakeup == R!NoLostWakeup /\ E!NoLostWakeup

\* Each Stop returns, the destructor's after a failed Configure included:
\* a started thread leaves the loop and the join completes, and a thread
\* never started is not joined.
StopReturns == R!StopReturns /\ E!StopReturns
=============================================================================
