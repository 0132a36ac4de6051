------------------------- MODULE MCHttpConnection -------------------------
(* Model-checking instance of HttpConnection.                             *)
EXTENDS HttpConnection
=============================================================================
