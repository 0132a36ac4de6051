-------------------------- MODULE AvcEncoderThread --------------------------
(***************************************************************************)
(* The encoding thread of the H.264 encoder, OvenCodecImplAvcodecEncAVC    *)
(* (transcode/codec/transcode_codec_enc_avc.cpp): Configure's thread       *)
(* start, ThreadEncode, RecvBuffer and Stop, with the calls the transcode  *)
(* stream makes on it.  The VP8 encoder (transcode_codec_enc_vp8.cpp,      *)
(* lines 73-226) runs the same loop line for line.                         *)
(*                                                                         *)
(* Actors:                                                                 *)
(*  - the caller: TranscodeEncoder::SendBuffer (push_back under _mutex,    *)
(*    then _queue_event.Notify), RecvBuffer, and at the end Stop;          *)
(*  - ThreadEncode: waits on _queue_event, pops one frame under _mutex,    *)
(*    sends it to libavcodec with the lock released, then drains the       *)
(*    packets the codec has ready through MakePacket and SendOutputBuffer. *)
(*                                                                         *)
(* _queue_event is an ov::Semaphore (Notify adds a token, Wait takes one). *)
(* The codec is a FIFO of the frames it accepted (B-frames are disabled,   *)
(* so packets leave in frame order); avcodec_receive_packet may answer     *)
(* EAGAIN at any time and returns the oldest packet otherwise.  Frames are *)
(* numbered in the order the caller sends them.                            *)
(***************************************************************************)
EXTENDS Naturals, Sequences, SequencesExt

CONSTANTS
    MaxFrames      \* frames the caller sends: 1..MaxFrames

ASSUME MaxFrames \in Nat \ {0}

VARIABLES
    inputBuffer,   \* _input_buffer
    outputBuffer,  \* _output_buffer
    queueEvent,    \* tokens of the _queue_event semaphore
    killFlag,      \* _kill_flag
    tpc,           \* ThreadEncode: "none" (not started), "loop", "wait", "feed",
                   \* "drain", "exit"
    frame,         \* the frame ThreadEncode dequeued (0: none)
    codec,         \* frames accepted by the codec whose packet is not yet out
    cpc,           \* caller: "new" (constructed), "failed" (Configure returned
                   \* false), "idle", "notify" (in SendBuffer), "join", "stopped"
    sent,          \* history: frames sent so far
    delivered      \* history: frames RecvBuffer returned, in order

vars == <<inputBuffer, outputBuffer, queueEvent, killFlag, tpc, frame, codec,
          cpc, sent, delivered>>

Frames == 1..MaxFrames

-----------------------------------------------------------------------------
(* Mutants: plausible faults of the operators below.                       *)

FeedRetryAtBack(q, f) == Append(q, f)

LoopTestIgnoreKill ==
    /\ tpc = "loop"
    /\ tpc' = "wait"
    /\ UNCHANGED <<inputBuffer, outputBuffer, queueEvent, killFlag, frame, codec,
                   cpc, sent, delivered>>

FeedRetryNoNotify(n) == n

FeedRetryNotifyTwice(n) == n + 2

-----------------------------------------------------------------------------
(* The caller *)

\* TranscodeEncoder::SendBuffer, first half: push_back under _mutex.
SendBuffer(f) ==
    /\ cpc = "idle"
    /\ sent < MaxFrames
    /\ inputBuffer' = Append(inputBuffer, f)
    /\ sent' = sent + 1
    /\ cpc' = "notify"
    /\ UNCHANGED <<outputBuffer, queueEvent, killFlag, tpc, frame, codec, delivered>>

\* SendBuffer, second half: after mlock.unlock(), _queue_event.Notify().
NotifyQueueEvent ==
    /\ cpc = "notify"
    /\ queueEvent' = queueEvent + 1
    /\ cpc' = "idle"
    /\ UNCHANGED <<inputBuffer, outputBuffer, killFlag, tpc, frame, codec, sent, delivered>>

\* RecvBuffer (lines 243-260): pop the oldest packet under _mutex.
\* An empty buffer answers NoData and changes nothing.
RecvBuffer ==
    /\ cpc = "idle"
    /\ outputBuffer # <<>>
    /\ delivered' = Append(delivered, Head(outputBuffer))
    /\ outputBuffer' = Tail(outputBuffer)
    /\ UNCHANGED <<inputBuffer, queueEvent, killFlag, tpc, frame, codec, cpc, sent>>

\* Configure (lines 24-119).  TranscodeEncoder::Configure, a missing
\* encoder, a context that cannot be allocated or a codec that does not
\* open (lines 26-103) return false with no thread.  Otherwise _kill_flag
\* is cleared and the thread started; if std::thread throws, _kill_flag is
\* set and Configure still returns true.
Configure ==
    /\ cpc = "new"
    /\ \/ cpc' = "failed" /\ UNCHANGED <<killFlag, tpc>>
       \/ cpc' = "idle" /\ killFlag' = FALSE /\ tpc' = "loop"
       \/ cpc' = "idle" /\ killFlag' = TRUE /\ UNCHANGED tpc
    /\ UNCHANGED <<inputBuffer, outputBuffer, queueEvent, frame, codec, sent, delivered>>

\* Stop (lines 122-133): set _kill_flag and notify _queue_event.  The
\* destructor (lines 16-19) calls it too, after a failed Configure.
Stop ==
    /\ cpc \in {"idle", "failed"}
    /\ killFlag' = TRUE
    /\ queueEvent' = queueEvent + 1
    /\ cpc' = "join"
    /\ UNCHANGED <<inputBuffer, outputBuffer, tpc, frame, codec, sent, delivered>>

\* Stop, continued: join the thread if it is joinable; a thread never
\* started is not.
Join ==
    /\ cpc = "join"
    /\ tpc \in {"exit", "none"}
    /\ cpc' = "stopped"
    /\ UNCHANGED <<inputBuffer, outputBuffer, queueEvent, killFlag, tpc, frame,
                   codec, sent, delivered>>

-----------------------------------------------------------------------------
(* ThreadEncode (lines 135-240) *)

\* while (!_kill_flag) (line 137).
LoopTest ==
    /\ tpc = "loop"
    /\ tpc' = IF killFlag THEN "exit" ELSE "wait"
    /\ UNCHANGED <<inputBuffer, outputBuffer, queueEvent, killFlag, frame, codec,
                   cpc, sent, delivered>>

\* _queue_event.Wait(), then under _mutex: continue on an empty queue, or
\* pop the front frame and unlock (lines 139-152).  Wait and lock are one
\* step: only this thread takes tokens.
Dequeue ==
    /\ tpc = "wait"
    /\ queueEvent > 0
    /\ queueEvent' = queueEvent - 1
    /\ IF inputBuffer = <<>>
         THEN /\ tpc' = "loop"
              /\ UNCHANGED <<inputBuffer, frame>>
         ELSE /\ frame' = Head(inputBuffer)
              /\ inputBuffer' = Tail(inputBuffer)
              /\ tpc' = "feed"
    /\ UNCHANGED <<outputBuffer, killFlag, codec, cpc, sent, delivered>>

\* The frame put back by a failed avcodec_send_frame (line 199).
FeedRetry(q, f) == <<f>> \o q

\* The tokens after the Notify of line 201.
FeedRetryNotify(n) == n + 1

\* Lines 159-202.  av_frame_get_buffer or av_frame_make_writable fails:
\* break leaves the loop and ends the thread.  Otherwise the frame goes to
\* the codec, or, if avcodec_send_frame fails, back to the front of
\* _input_buffer under _mutex with a Notify.
Feed ==
    /\ tpc = "feed"
    /\ \/ /\ tpc' = "exit"
          /\ UNCHANGED <<inputBuffer, queueEvent, codec>>
       \/ /\ codec' = Append(codec, frame)
          /\ tpc' = "drain"
          /\ UNCHANGED <<inputBuffer, queueEvent>>
       \/ /\ inputBuffer' = FeedRetry(inputBuffer, frame)
          /\ queueEvent' = FeedRetryNotify(queueEvent)
          /\ tpc' = "drain"
          /\ UNCHANGED codec
    /\ frame' = 0
    /\ UNCHANGED <<outputBuffer, killFlag, cpc, sent, delivered>>

\* The avcodec_receive_packet loop (lines 207-238): a ready packet goes
\* through MakePacket and SendOutputBuffer (push_back on _output_buffer
\* under _mutex); EAGAIN, EOF or an error ends the loop and the thread goes
\* back to the while test.
Drain ==
    /\ tpc = "drain"
    /\ \/ /\ codec # <<>>
          /\ outputBuffer' = Append(outputBuffer, Head(codec))
          /\ codec' = Tail(codec)
          /\ UNCHANGED tpc
       \/ /\ tpc' = "loop"
          /\ UNCHANGED <<outputBuffer, codec>>
    /\ UNCHANGED <<inputBuffer, queueEvent, killFlag, frame, cpc, sent, delivered>>

-----------------------------------------------------------------------------

\* The constructor (declared in the header): empty queues, no thread.
Init ==
    /\ inputBuffer = <<>>
    /\ outputBuffer = <<>>
    /\ queueEvent = 0
    /\ killFlag = FALSE
    /\ tpc = "none"
    /\ frame = 0
    /\ codec = <<>>
    /\ cpc = "new"
    /\ sent = 0
    /\ delivered = <<>>

Next ==
    \/ Configure \/ SendBuffer(sent + 1) \/ NotifyQueueEvent \/ RecvBuffer \/ Stop \/ Join
    \/ LoopTest \/ Dequeue \/ Feed \/ Drain

\* The thread runs whenever it is not blocked on the semaphore, and the
\* caller, once in SendBuffer or Stop, finishes it.
Fairness ==
    /\ WF_vars(LoopTest) /\ WF_vars(Dequeue) /\ WF_vars(Feed) /\ WF_vars(Drain)
    /\ WF_vars(NotifyQueueEvent) /\ WF_vars(Join)

Spec == Init /\ [][Next]_vars /\ Fairness

-----------------------------------------------------------------------------
(* Properties *)

TypeOK ==
    /\ inputBuffer \in Seq(Frames)
    /\ outputBuffer \in Seq(Frames)
    /\ queueEvent \in 0..(MaxFrames + 1)
    /\ killFlag \in BOOLEAN
    /\ tpc \in {"none", "loop", "wait", "feed", "drain", "exit"}
    /\ frame \in 0..MaxFrames
    /\ codec \in Seq(Frames)
    /\ cpc \in {"new", "failed", "idle", "notify", "join", "stopped"}
    /\ sent \in 0..MaxFrames
    /\ delivered \in Seq(Frames)

\* Every frame still in the stage, read from the caller's side back to the
\* upstream end (delivered, _output_buffer, the codec, the dequeued frame,
\* _input_buffer), is in the order it was sent and appears once: the
\* encoder keeps per-track order across the lock release, the put-back of
\* a refused frame and the concurrent SendBuffer calls.
Pending == outputBuffer \o codec \o (IF frame = 0 THEN <<>> ELSE <<frame>>) \o inputBuffer

InStage == delivered \o Pending

FramesKeepOrder == IsSorted(InStage, <)

\* No lost wake-up: a frame in _input_buffer always has a _queue_event
\* token for it, or the SendBuffer that pushed it is about to notify, so
\* ThreadEncode never sleeps in Wait while a frame is queued.
NoLostWakeup ==
    Len(inputBuffer) <= queueEvent + (IF cpc = "notify" THEN 1 ELSE 0)

\* Stop returns: once the kill flag is set and the semaphore notified,
\* ThreadEncode leaves its loop and the join completes, whether the thread
\* is waiting, feeding a frame or draining the codec at that moment.
StopReturns == cpc = "join" ~> cpc = "stopped"

=============================================================================
