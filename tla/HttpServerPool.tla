---------------------------- MODULE HttpServerPool ----------------------------
(***************************************************************************)
(* The HTTP listeners shared by the segment publishers (HLS, DASH,        *)
(* LL-DASH): SegmentStreamServer::Start / Stop                            *)
(* (segment_stream_server.cpp) on top of HttpServer::Start / Stop /       *)
(* AddInterceptor (http_server.cpp).                                      *)
(*                                                                         *)
(* Each publisher is configured with an HTTP port and a TLS port, either  *)
(* of which may be absent.  The http_server_manager map, shared by all    *)
(* publishers, holds at most one HttpServer (or HttpsServer) per port;    *)
(* a publisher that finds a server on its port reuses it and adds its     *)
(* interceptor to it, and only the publisher that created a server starts *)
(* it.  Publishers are started and stopped one at a time by the main      *)
(* thread, so each Start and Stop is one step.                            *)
(***************************************************************************)
EXTENDS FiniteSets

CONSTANTS
    Publishers,   \* segment publishers (each owns one SegmentStreamServer)
    Ports,        \* TCP ports named in the configuration
    NoPort        \* model value: address not configured / server pointer null

VARIABLES
    httpPort,     \* configuration: HTTP port of each publisher, or NoPort
    tlsPort,      \* configuration: TLS port of each publisher, or NoPort
    manager,      \* http_server_manager: kind of server created per port
    listening,    \* HttpServer::_physical_port != nullptr, per port
    interceptors, \* HttpServer::_interceptor_list, per port (by publisher)
    httpServer,   \* SegmentStreamServer::_http_server (its port) per publisher
    httpsServer,  \* SegmentStreamServer::_https_server (its port) per publisher
    started       \* Start returned true and Stop has not been called since

vars == <<httpPort, tlsPort, manager, listening, interceptors, httpServer,
          httpsServer, started>>

-----------------------------------------------------------------------------
(* Mutants: plausible faults of the operators below.                       *)

RollbackPointersOnly(S, L, I) == listening' = L /\ interceptors' = I

AddInterceptorNoNullCheck(S, p) ==
    [q \in Ports \cup S |-> (IF q \in Ports THEN interceptors[q] ELSE {})
                            \cup (IF q \in S THEN {p} ELSE {})]

-----------------------------------------------------------------------------
(* HttpServer *)

\* CreateHttpServerIfNeeded (lines 25-60): the server of port q, created if
\* the map has none; nullptr when dynamic_pointer_cast fails.  HttpsServer
\* derives from HttpServer, so an HTTP publisher accepts either kind and a
\* TLS publisher only an HttpsServer.
ServerFor(q, kind) ==
    IF q = NoPort \/ (kind = "https" /\ manager[q] = "http") THEN NoPort ELSE q

\* HttpServer::AddInterceptor (http_server.cpp lines 315-334) on each
\* non-null server in S (segment_stream_server.cpp lines 85-109).
AddInterceptor(S, p) ==
    [q \in Ports |-> IF q \in S \ {NoPort} THEN interceptors[q] \cup {p}
                                           ELSE interceptors[q]]

\* f with the value v at every port of S.
SetAt(f, S, v) == [q \in Ports |-> IF q \in S THEN v ELSE f[q]]

-----------------------------------------------------------------------------
(* SegmentStreamServer *)

\* The rollback of a failed Start (lines 127-139): HttpServer::Stop
\* (http_server.cpp lines 39-62) on every server the publisher holds,
\* whoever created it, from the listeners L and interceptor lists I the
\* start attempts left: release the port and clear the interceptors.
Rollback(S, L, I) ==
    /\ listening' = SetAt(L, S, FALSE)
    /\ interceptors' = SetAt(I, S, {})

\* Start (segment_stream_server.cpp lines 62-143).  bindHttp and bindTls
\* are the outcomes of PhysicalPortManager::CreatePort.  The interceptor is
\* added to each server found or created (the manager keeps a created
\* server whatever follows); then the HTTP server is started if this
\* publisher created it, then, if that succeeded, the HTTPS server.
Start(p, bindHttp, bindTls) ==
    LET h      == ServerFor(httpPort[p], "http")
        t      == ServerFor(tlsPort[p], "https")
        newH   == h # NoPort /\ manager[h] = "none"
        newT   == t # NoPort /\ manager[t] = "none"
        found  == (httpPort[p] = NoPort \/ h # NoPort) /\ (tlsPort[p] = NoPort \/ t # NoPort)
        tryH   == found /\ newH
        okH    == found /\ (~newH \/ bindHttp)
        tryT   == okH /\ newT
        ok     == okH /\ (~newT \/ bindTls)
        L      == SetAt(listening, {q \in {h, t} : (tryH /\ bindHttp /\ q = h)
                                                   \/ (tryT /\ bindTls /\ q = t)}, TRUE)
        I      == AddInterceptor({h, t}, p)
        mine   == {h, t} \ {NoPort}
    IN
    /\ httpServer[p] = NoPort /\ httpsServer[p] = NoPort
    /\ manager' = [q \in Ports |-> IF newH /\ q = h THEN "http"
                                   ELSE IF newT /\ q = t THEN "https"
                                   ELSE manager[q]]
    /\ IF ok
         THEN /\ listening' = L
              /\ interceptors' = I
              /\ httpServer' = [httpServer EXCEPT ![p] = h]
              /\ httpsServer' = [httpsServer EXCEPT ![p] = t]
              /\ started' = [started EXCEPT ![p] = TRUE]
         ELSE /\ Rollback(mine, L, I)
              /\ UNCHANGED <<httpServer, httpsServer, started>>
    /\ UNCHANGED <<httpPort, tlsPort>>

\* Stop (lines 145-163): HttpServer::Stop on both servers, shared or not,
\* and drop the pointers.
Stop(p) ==
    LET mine == {httpServer[p], httpsServer[p]} \ {NoPort} IN
    /\ listening' = SetAt(listening, mine, FALSE)
    /\ interceptors' = SetAt(interceptors, mine, {})
    /\ httpServer' = [httpServer EXCEPT ![p] = NoPort]
    /\ httpsServer' = [httpsServer EXCEPT ![p] = NoPort]
    /\ started' = [started EXCEPT ![p] = FALSE]
    /\ UNCHANGED <<httpPort, tlsPort, manager>>

-----------------------------------------------------------------------------

\* Any configuration where a publisher does not use one port for both.
Init ==
    /\ httpPort \in [Publishers -> Ports \cup {NoPort}]
    /\ tlsPort \in [Publishers -> Ports \cup {NoPort}]
    /\ \A p \in Publishers : httpPort[p] # tlsPort[p] \/ httpPort[p] = NoPort
    /\ manager = [q \in Ports |-> "none"]
    /\ listening = [q \in Ports |-> FALSE]
    /\ interceptors = [q \in Ports |-> {}]
    /\ httpServer = [p \in Publishers |-> NoPort]
    /\ httpsServer = [p \in Publishers |-> NoPort]
    /\ started = [p \in Publishers |-> FALSE]

Next ==
    \/ \E p \in Publishers, bh, bt \in BOOLEAN : Start(p, bh, bt)
    \/ \E p \in Publishers : Stop(p)

Spec == Init /\ [][Next]_vars

-----------------------------------------------------------------------------
(* Properties *)

TypeOK ==
    /\ httpPort \in [Publishers -> Ports \cup {NoPort}]
    /\ tlsPort \in [Publishers -> Ports \cup {NoPort}]
    /\ manager \in [Ports -> {"none", "http", "https"}]
    /\ listening \in [Ports -> BOOLEAN]
    /\ interceptors \in [Ports -> SUBSET Publishers]
    /\ httpServer \in [Publishers -> Ports \cup {NoPort}]
    /\ httpsServer \in [Publishers -> Ports \cup {NoPort}]
    /\ started \in [Publishers -> BOOLEAN]

\* A port is held only for a running publisher: after any sequence of
\* starts, failed starts with their rollback, and stops, every listening
\* server is the HTTP or TLS server of a publisher whose Start succeeded.
NoOrphanListener ==
    \A q \in Ports :
        listening[q] =>
            \E p \in Publishers : started[p] /\ q \in {httpServer[p], httpsServer[p]}

\* Publishers sharing a port coexist (spec 4.4, "so HLS+DASH can
\* coexist"): while a publisher is started, each of its servers is
\* listening and has its interceptor, whatever the other publishers on
\* that port start, fail or stop.
StartedPublisherServed ==
    \A p \in Publishers, q \in Ports :
        started[p] /\ q \in {httpServer[p], httpsServer[p]}
            => listening[q] /\ p \in interceptors[q]
=============================================================================
