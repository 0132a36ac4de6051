------------------------- MODULE MCSegmentSessions --------------------------
(* Model-checking instance of SegmentSessions.                            *)
EXTENDS SegmentSessions

\* Two HTTP workers, so a worker can sit between its unlock and its
\* OnSessionConnected while the other worker and the sweep run; two client
\* IPs, so one IP's entries sit between another's in the multimap.
MCWorkers == {"w1", "w2"}
MCIPs     == {"ip1", "ip2"}
=============================================================================
