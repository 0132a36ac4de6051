------------------------- MODULE MCPlaylistAdmission -------------------------
(* Model-checking instance of PlaylistAdmission.                          *)
EXTENDS PlaylistAdmission

\* Two HTTP workers, so one can sit between its unlocked check and its
\* update while the other is admitted and the sweep runs; two client IPs,
\* so a token can be replayed from another address; one session id, which
\* every token carries.
MCWorkers    == {"w1", "w2"}
MCIPs        == {"ip1", "ip2"}
MCSessionIds == {"s1"}
=============================================================================
