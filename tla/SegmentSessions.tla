--------------------------- MODULE SegmentSessions ---------------------------
(***************************************************************************)
(* Viewer-session accounting of the segment publisher (HLS / DASH /       *)
(* LL-DASH), segment_publisher.cpp: OnSegmentRequest,                      *)
(* UpdateSegmentRequestInfo and the segment half of                        *)
(* RequestTableUpdateThread.                                               *)
(*                                                                         *)
(* Actors:                                                                 *)
(*  - HTTP worker threads (Workers).  UpdateSegmentRequestInfo edits       *)
(*    _segment_request_table under its lock, unlocks, and only then       *)
(*    counts a new viewer in the stream metrics; the handler is cut at    *)
(*    the unlock.                                                         *)
(*  - the housekeeping thread: erase expired entries under the lock,      *)
(*    reporting each as a disconnected viewer, then sleep(3).  Its        *)
(*    playlist-table sweep touches no state of this module                *)
(*    (PlaylistAdmission models it).                                      *)
(*  - the clock.  Time is kept as the age of each entry, saturated one    *)
(*    above ExpireAfter, so every IsExpiredRequest keeps its value.       *)
(*                                                                         *)
(* One stream is modelled; its StreamMetrics object exists, so the        *)
(* "stream_metrics != nullptr" branches are taken.                        *)
(***************************************************************************)
EXTENDS Integers, Sequences, FiniteSets

CONSTANTS
    Workers,          \* HTTP worker threads of the segment stream server
    IPs,              \* client IP addresses
    MaxSeq,           \* segment sequence numbers are 0..MaxSeq
    MaxEntries,       \* bound on the length of the segment request table
    ExpireAfter,      \* SegmentRequestInfo::IsExpiredRequest idle window
    SweepPeriod       \* sleep(3) of the housekeeping loop, in clock ticks

ASSUME /\ MaxSeq \in Nat /\ MaxEntries \in Nat \ {0}
       /\ ExpireAfter \in Nat /\ SweepPeriod \in Nat \ {0}

VARIABLES
    segments,       \* _segment_request_table (multimap, insertion order)
    connections,    \* StreamMetrics session counter
    wpc,            \* worker program counter
    hk,             \* housekeeping thread program counter
    nap             \* ticks left in the housekeeping thread's sleep(3)

vars == <<segments, connections, wpc, hk, nap>>

-----------------------------------------------------------------------------
(* Data *)

Seqs == 0..MaxSeq
Ages == 0..(ExpireAfter + 1)

\* SegmentRequestInfo, only the fields the table compares; "age" is the
\* time since last_seen; "requests" is a history field: how many segment
\* requests the entry stands for.
SegmentEntry == [ip : IPs, seq : Seqs, age : Ages, count : Nat, requests : Nat]

-----------------------------------------------------------------------------
(* Helpers of SegmentRequestInfo (its code is outside src/).              *)

\* The SegmentRequestInfo built by OnSegmentRequest: a fresh entry.
NewSegmentRequestInfo(ip, seq) ==
    [ip |-> ip, seq |-> seq, age |-> 0, count |-> 1, requests |-> 1]

\* SegmentRequestInfo::IsNextRequest: the sequence number advances by 1 or 2.
IsNextRequest(item, seq) == seq - item.seq \in {1, 2}

\* SegmentRequestInfo::IsExpiredRequest
IsExpiredRequest(item) == item.age > ExpireAfter

-----------------------------------------------------------------------------
(* Mutants: plausible faults of the operators below.                       *)

ContinueSessionKeepMatched(tbl, i, new) == Append(tbl, new)

SweptSkipLast(tbl) ==
    IF tbl = <<>> THEN tbl
    ELSE SelectSeq(SubSeq(tbl, 1, Len(tbl) - 1), LAMBDA e : ~IsExpiredRequest(e))
            \o <<tbl[Len(tbl)]>>

-----------------------------------------------------------------------------
(* Operations *)

\* Index of the first entry of this IP that the request continues (the
\* equal_range scan of lines 458-481, in insertion order); 0 if none.
MatchIndex(tbl, ip, seq) ==
    LET cands == {i \in 1..Len(tbl) : tbl[i].ip = ip /\ IsNextRequest(tbl[i], seq)}
    IN IF cands = {} THEN 0 ELSE CHOOSE i \in cands : \A j \in cands : i <= j

\* Erase the matched entry and insert the new one (lines 472, 483).
ContinueSession(tbl, i, new) ==
    Append(SubSeq(tbl, 1, i - 1) \o SubSeq(tbl, i + 1, Len(tbl)), new)

\* The continued entry (lines 468-470): info.SetCount(count++) stores the
\* value before the post-increment, i.e. the old count.
Continued(old, ip, seq) ==
    [ip |-> ip, seq |-> seq, age |-> 0, count |-> old.count,
     requests |-> old.requests + 1]

\* OnSegmentRequest (lines 212-254) and the locked part of
\* UpdateSegmentRequestInfo (lines 453-485).  A missing stream or segment
\* returns before touching the table and is not a step of the model.
SegmentRequest(w, ip, seq) ==
    LET i == MatchIndex(segments, ip, seq) IN
    /\ wpc[w] = "idle"
    /\ \/ /\ i = 0
          /\ Len(segments) < MaxEntries
          /\ segments' = Append(segments, NewSegmentRequestInfo(ip, seq))
          /\ wpc' = [wpc EXCEPT ![w] = "connect"]
       \/ /\ i # 0
          /\ segments' = ContinueSession(segments, i, Continued(segments[i], ip, seq))
          /\ UNCHANGED wpc
    /\ UNCHANGED <<connections, hk, nap>>

\* After table_lock.unlock(): the new viewer is counted (lines 487-539).
OnSessionConnected(w) ==
    /\ wpc[w] = "connect"
    /\ connections' = connections + 1
    /\ wpc' = [wpc EXCEPT ![w] = "idle"]
    /\ UNCHANGED <<segments, hk, nap>>

\* The table with every expired entry erased (lines 318-379).
Swept(tbl) == SelectSeq(tbl, LAMBDA e : ~IsExpiredRequest(e))

\* Housekeeping under _segment_request_table_lock (lines 314-381): erase
\* every expired entry and report each with OnSessionDisconnected; then the
\* playlist sweep and sleep(3) (lines 383-404).
SweepSegments ==
    LET kept == Swept(segments) IN
    /\ hk = "sweep"
    /\ segments' = kept
    /\ connections' = connections - (Len(segments) - Len(kept))
    /\ hk' = "sleep"
    /\ nap' = SweepPeriod
    /\ UNCHANGED wpc

\* sleep(3) returns and while(_run_thread) starts a new round (line 269).
Wake ==
    /\ hk = "sleep"
    /\ nap = 0
    /\ hk' = "sweep"
    /\ UNCHANGED <<segments, connections, wpc, nap>>

\* One clock tick: every entry ages and the housekeeping sleep runs down.
Tick ==
    /\ segments' = [i \in 1..Len(segments) |->
                      IF segments[i].age > ExpireAfter THEN segments[i]
                      ELSE [segments[i] EXCEPT !.age = @ + 1]]
    /\ nap' = IF hk = "sleep" /\ nap > 0 THEN nap - 1 ELSE nap
    /\ UNCHANGED <<connections, wpc, hk>>

-----------------------------------------------------------------------------

\* StartSessionTableManager (lines 256-262) starts the housekeeping thread.
Init ==
    /\ segments = <<>>
    /\ connections = 0
    /\ wpc = [w \in Workers |-> "idle"]
    /\ hk = "sweep"
    /\ nap = 0

Next ==
    \/ \E w \in Workers, ip \in IPs, seq \in Seqs : SegmentRequest(w, ip, seq)
    \/ \E w \in Workers : OnSessionConnected(w)
    \/ SweepSegments
    \/ Wake
    \/ Tick

\* A worker finishes the handler it started, the housekeeping thread loops
\* forever and time passes; viewers owe nothing.
Fairness ==
    /\ \A w \in Workers : WF_vars(OnSessionConnected(w))
    /\ WF_vars(SweepSegments) /\ WF_vars(Wake) /\ WF_vars(Tick)

Spec == Init /\ [][Next]_vars /\ Fairness

-----------------------------------------------------------------------------
(* Properties *)

TypeOK ==
    /\ segments \in Seq(SegmentEntry)
    /\ connections \in Int
    /\ wpc \in [Workers -> {"idle", "connect"}]
    /\ hk \in {"sweep", "sleep"}
    /\ nap \in 0..SweepPeriod

\* The session counter of the stream metrics agrees with the segment
\* request table: every entry was counted once by UpdateSegmentRequestInfo
\* (or is about to be, by a worker past its unlock) and every erased entry
\* was reported once by the housekeeping sweep.
SessionAccounting ==
    connections + Cardinality({w \in Workers : wpc[w] = "connect"})
        = Len(segments)

\* A viewer that stopped requesting segments is eventually reported as
\* disconnected by the housekeeping thread.
ExpiredSessionEventuallyClosed ==
    \A ip \in IPs, q \in Seqs :
        (\E i \in 1..Len(segments) :
            segments[i].ip = ip /\ segments[i].seq = q /\ IsExpiredRequest(segments[i]))
        ~> ~\E i \in 1..Len(segments) :
                segments[i].ip = ip /\ segments[i].seq = q /\ IsExpiredRequest(segments[i])

\* The viewer count of the stream never goes negative: a session is
\* reported disconnected by the sweep only after the worker that created
\* it reported it connected.
ConnectionsNonNegative == connections >= 0

\* The count of a SegmentRequestInfo is the number of segment requests the
\* viewer session has made (UpdateSegmentRequestInfo carries it over with
\* count++, spec 4.5 keeps a per-session count).
SegmentCountTracksRequests ==
    \A i \in 1..Len(segments) : segments[i].count = segments[i].requests
=============================================================================
