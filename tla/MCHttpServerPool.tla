-------------------------- MODULE MCHttpServerPool --------------------------
(* Model-checking instance of HttpServerPool.                             *)
EXTENDS HttpServerPool

\* Two publishers (HLS and DASH); the ports are model values p80, p443 of
\* the cfg.  Init tries every way the two may name them: shared, separate,
\* or the HTTP port of one as the TLS port of the other.
MCPublishers == {"hls", "dash"}
=============================================================================
