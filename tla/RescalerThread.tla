--------------------------- MODULE RescalerThread ---------------------------
(***************************************************************************)
(* The worker thread of the video rescaler, MediaFilterRescaler            *)
(* (transcode/filter/media_filter_rescaler.cpp), and the calls the         *)
(* transcode stream makes on it: SendBuffer, RecvBuffer and Stop.          *)
(*                                                                         *)
(* Actors:                                                                 *)
(*  - the caller (the upstream stage of the transcode stream): pushes      *)
(*    frames into _input_buffer under _mutex and then notifies             *)
(*    _queue_event, takes rescaled frames from _output_buffer, and at the  *)
(*    end stops the filter (kill flag, notify, join);                      *)
(*  - ThreadFilter: waits on _queue_event, pops one frame under _mutex,    *)
(*    feeds it to the filter graph with the lock released, and drains the *)
(*    graph's sink into _output_buffer.                                     *)
(*                                                                         *)
(* _queue_event is an ov::Semaphore: Notify adds a token and Wait blocks   *)
(* until it can take one.  The filter graph (libavfilter) is a FIFO of     *)
(* the frames it accepted; av_buffersink_get_frame may answer EAGAIN at    *)
(* any time and returns the oldest frame otherwise.  Frames are numbered   *)
(* in the order the caller sends them.                                     *)
(***************************************************************************)
EXTENDS Naturals, Sequences, SequencesExt

CONSTANTS
    MaxFrames      \* frames the caller sends: 1..MaxFrames

ASSUME MaxFrames \in Nat \ {0}

VARIABLES
    inputBuffer,   \* _input_buffer
    outputBuffer,  \* _output_buffer
    queueEvent,    \* tokens of the _queue_event semaphore
    killFlag,      \* _kill_flag
    tpc,           \* ThreadFilter: "none" (not started), "loop", "wait", "feed",
                   \* "drain", "exit"
    frame,         \* the frame ThreadFilter dequeued (0: none)
    graph,         \* frames accepted by the filter graph, not yet in the sink
    cpc,           \* caller: "new" (constructed), "failed" (Configure returned
                   \* false), "idle", "notify" (in SendBuffer), "join", "stopped"
    sent,          \* history: frames sent so far
    delivered      \* history: frames RecvBuffer returned, in order

vars == <<inputBuffer, outputBuffer, queueEvent, killFlag, tpc, frame, graph,
          cpc, sent, delivered>>

Frames == 1..MaxFrames

-----------------------------------------------------------------------------
(* Mutants: plausible faults of the operators below.                       *)

FeedRetryAtBack(q, f) == Append(q, f)

StopNoNotify ==
    /\ cpc = "idle"
    /\ killFlag' = TRUE
    /\ cpc' = "join"
    /\ UNCHANGED <<inputBuffer, outputBuffer, queueEvent, tpc, frame, graph,
                   sent, delivered>>

FeedRetryNoNotify(n) == n

FeedRetryNotifyTwice(n) == n + 2

JoinAlways ==
    /\ cpc = "join"
    /\ tpc = "exit"
    /\ cpc' = "stopped"
    /\ UNCHANGED <<inputBuffer, outputBuffer, queueEvent, killFlag, tpc, frame,
                   graph, sent, delivered>>

-----------------------------------------------------------------------------
(* The caller *)

\* SendBuffer (lines 181-193), first half: push_back under _mutex.
SendBuffer(f) ==
    /\ cpc = "idle"
    /\ sent < MaxFrames
    /\ inputBuffer' = Append(inputBuffer, f)
    /\ sent' = sent + 1
    /\ cpc' = "notify"
    /\ UNCHANGED <<outputBuffer, queueEvent, killFlag, tpc, frame, graph, delivered>>

\* SendBuffer, second half: after mlock.unlock(), _queue_event.Notify().
NotifyQueueEvent ==
    /\ cpc = "notify"
    /\ queueEvent' = queueEvent + 1
    /\ cpc' = "idle"
    /\ UNCHANGED <<inputBuffer, outputBuffer, killFlag, tpc, frame, graph, sent, delivered>>

\* RecvBuffer (lines 333-349): pop the oldest rescaled frame under _mutex.
\* An empty buffer answers NoData and changes nothing.
RecvBuffer ==
    /\ cpc = "idle"
    /\ outputBuffer # <<>>
    /\ delivered' = Append(delivered, Head(outputBuffer))
    /\ outputBuffer' = Tail(outputBuffer)
    /\ UNCHANGED <<inputBuffer, queueEvent, killFlag, tpc, frame, graph, cpc, sent>>

\* Configure (lines 42-178).  Any of the early returns of lines 50-152
\* (graph allocation, a NaN timebase scale, the buffer source and sink,
\* the pixel format, parsing and validating the filter string) returns
\* false with no thread.  Otherwise _kill_flag is cleared and the thread
\* started; if std::thread throws, _kill_flag is set and Configure still
\* returns true.
Configure ==
    /\ cpc = "new"
    /\ \/ cpc' = "failed" /\ UNCHANGED <<killFlag, tpc>>
       \/ cpc' = "idle" /\ killFlag' = FALSE /\ tpc' = "loop"
       \/ cpc' = "idle" /\ killFlag' = TRUE /\ UNCHANGED tpc
    /\ UNCHANGED <<inputBuffer, outputBuffer, queueEvent, frame, graph, sent, delivered>>

\* Stop (lines 196-207): set _kill_flag and notify _queue_event.  The
\* destructor (lines 30-40) calls it too, after a failed Configure.
Stop ==
    /\ cpc \in {"idle", "failed"}
    /\ killFlag' = TRUE
    /\ queueEvent' = queueEvent + 1
    /\ cpc' = "join"
    /\ UNCHANGED <<inputBuffer, outputBuffer, tpc, frame, graph, sent, delivered>>

\* Stop, continued: join the thread if it is joinable; a thread never
\* started is not.
Join ==
    /\ cpc = "join"
    /\ tpc \in {"exit", "none"}
    /\ cpc' = "stopped"
    /\ UNCHANGED <<inputBuffer, outputBuffer, queueEvent, killFlag, tpc, frame,
                   graph, sent, delivered>>

-----------------------------------------------------------------------------
(* ThreadFilter (lines 209-332) *)

\* while (!_kill_flag) (line 213).
LoopTest ==
    /\ tpc = "loop"
    /\ tpc' = IF killFlag THEN "exit" ELSE "wait"
    /\ UNCHANGED <<inputBuffer, outputBuffer, queueEvent, killFlag, frame, graph,
                   cpc, sent, delivered>>

\* _queue_event.Wait(), then under _mutex: continue on an empty queue, or
\* pop the front frame and unlock (lines 215-228).  Wait and lock are one
\* step: only this thread takes tokens.
Dequeue ==
    /\ tpc = "wait"
    /\ queueEvent > 0
    /\ queueEvent' = queueEvent - 1
    /\ IF inputBuffer = <<>>
         THEN /\ tpc' = "loop"
              /\ UNCHANGED <<inputBuffer, frame>>
         ELSE /\ frame' = Head(inputBuffer)
              /\ inputBuffer' = Tail(inputBuffer)
              /\ tpc' = "feed"
    /\ UNCHANGED <<outputBuffer, killFlag, graph, cpc, sent, delivered>>

\* The frame put back by a failed av_buffersrc_add_frame_flags (line 270).
FeedRetry(q, f) == <<f>> \o q

\* The tokens after the Notify of line 272.
FeedRetryNotify(n) == n + 1

\* Lines 232-273.  av_frame_get_buffer or av_frame_make_writable fails:
\* break leaves the loop and ends the thread.  Otherwise the frame goes to
\* the graph, or, if av_buffersrc_add_frame_flags fails, back to the front
\* of _input_buffer under _mutex with a Notify.
Feed ==
    /\ tpc = "feed"
    /\ \/ /\ tpc' = "exit"
          /\ UNCHANGED <<inputBuffer, queueEvent, graph>>
       \/ /\ graph' = Append(graph, frame)
          /\ tpc' = "drain"
          /\ UNCHANGED <<inputBuffer, queueEvent>>
       \/ /\ inputBuffer' = FeedRetry(inputBuffer, frame)
          /\ queueEvent' = FeedRetryNotify(queueEvent)
          /\ tpc' = "drain"
          /\ UNCHANGED graph
    /\ frame' = 0
    /\ UNCHANGED <<outputBuffer, killFlag, cpc, sent, delivered>>

\* The av_buffersink_get_frame loop (lines 278-328): a frame from the sink
\* goes to _output_buffer under _mutex; EAGAIN, EOF or an error ends the
\* loop and the thread goes back to the while test.
Drain ==
    /\ tpc = "drain"
    /\ \/ /\ graph # <<>>
          /\ outputBuffer' = Append(outputBuffer, Head(graph))
          /\ graph' = Tail(graph)
          /\ UNCHANGED tpc
       \/ /\ tpc' = "loop"
          /\ UNCHANGED <<outputBuffer, graph>>
    /\ UNCHANGED <<inputBuffer, queueEvent, killFlag, frame, cpc, sent, delivered>>

-----------------------------------------------------------------------------

\* The constructor (lines 16-28): empty queues, no thread.
Init ==
    /\ inputBuffer = <<>>
    /\ outputBuffer = <<>>
    /\ queueEvent = 0
    /\ killFlag = FALSE
    /\ tpc = "none"
    /\ frame = 0
    /\ graph = <<>>
    /\ cpc = "new"
    /\ sent = 0
    /\ delivered = <<>>

Next ==
    \/ Configure \/ SendBuffer(sent + 1) \/ NotifyQueueEvent \/ RecvBuffer \/ Stop \/ Join
    \/ LoopTest \/ Dequeue \/ Feed \/ Drain

\* The thread runs whenever it is not blocked on the semaphore, and the
\* caller, once in SendBuffer or Stop, finishes it.
Fairness ==
    /\ WF_vars(LoopTest) /\ WF_vars(Dequeue) /\ WF_vars(Feed) /\ WF_vars(Drain)
    /\ WF_vars(NotifyQueueEvent) /\ WF_vars(Join)

Spec == Init /\ [][Next]_vars /\ Fairness

-----------------------------------------------------------------------------
(* Properties *)

TypeOK ==
    /\ inputBuffer \in Seq(Frames)
    /\ outputBuffer \in Seq(Frames)
    /\ queueEvent \in 0..(MaxFrames + 1)
    /\ killFlag \in BOOLEAN
    /\ tpc \in {"none", "loop", "wait", "feed", "drain", "exit"}
    /\ frame \in 0..MaxFrames
    /\ graph \in Seq(Frames)
    /\ cpc \in {"new", "failed", "idle", "notify", "join", "stopped"}
    /\ sent \in 0..MaxFrames
    /\ delivered \in Seq(Frames)

\* Every frame still in the stage, read from the caller's side back to the
\* upstream end (delivered, _output_buffer, the graph, the dequeued frame,
\* _input_buffer), is in the order it was sent and appears once: the
\* rescaler keeps per-track order across the lock release, the
\* put-back of a refused frame and the concurrent SendBuffer calls.
Pending == outputBuffer \o graph \o (IF frame = 0 THEN <<>> ELSE <<frame>>) \o inputBuffer

InStage == delivered \o Pending

FramesKeepOrder == IsSorted(InStage, <)

\* No lost wake-up: a frame in _input_buffer always has a _queue_event
\* token for it, or the SendBuffer that pushed it is about to notify, so
\* ThreadFilter never sleeps in Wait while a frame is queued.
NoLostWakeup ==
    Len(inputBuffer) <= queueEvent + (IF cpc = "notify" THEN 1 ELSE 0)

\* Stop returns: once the kill flag is set and the semaphore notified,
\* ThreadFilter leaves its loop and the join completes, whether the thread
\* is waiting, feeding a frame or draining the sink at that moment.
StopReturns == cpc = "join" ~> cpc = "stopped"

\* Spec 4.2 (failure semantics): a per-stage error is local; the stage
\* drops the offending frame and continues.  ThreadFilter ends only after
\* Stop set the kill flag.
ThreadEndsOnlyOnStop == tpc = "exit" => killFlag
=============================================================================
