--------------------------- MODULE HttpConnection ---------------------------
(***************************************************************************)
(* One client connection of the HTTP server (http_server/http_server.cpp): *)
(* ProcessConnect, OnDataReceived with FindClient and ProcessData (header  *)
(* parsing, keep-alive, interceptor binding and dispatch), and             *)
(* OnDisconnected.                                                         *)
(*                                                                         *)
(* The client sends a sequence of requests over one TCP stream; it sends  *)
(* a further request only after a persistent one (HTTP/1.1 without         *)
(* "Connection: close", or HTTP/1.0 with "Connection: keep-alive").  A     *)
(* request is a header of two parts (so a header can be split across       *)
(* reads) and an optional body.  The stream arrives in chunks cut          *)
(* anywhere.                                                               *)
(*                                                                         *)
(* Actors: the socket I/O thread, which delivers each chunk                *)
(* (OnDataReceived: FindClient under _client_list_mutex, then ProcessData  *)
(* without it), and the disconnect path (OnDisconnected), which the        *)
(* comment at line 265 says can run between the two.                      *)
(*                                                                         *)
(* HttpRequest's parser and the interceptors are outside this file: the    *)
(* parser consumes header parts and stops after the last one, anything     *)
(* else where a header is expected is a parse error; an interceptor claims *)
(* the requests whose target it serves, and its OnHttpPrepare / OnHttpData *)
(* may ask for a disconnect.                                               *)
(***************************************************************************)
EXTENDS Naturals, Sequences, SequencesExt

CONSTANTS
    NumRequests,         \* longest request sequence a client sends
    Interceptors,        \* interceptors in _interceptor_list (model values)
    DefaultInterceptor,  \* _default_interceptor given to every HttpRequest
    NoTarget             \* model value: a request no interceptor claims

ASSUME NumRequests \in Nat \ {0}

VARIABLES
    reqs,         \* the client's requests (fixed for a behaviour)
    pos,          \* atoms of the stream delivered so far
    status,       \* request->ParseStatus(): "partial", "ok", "error"
    headSeen,     \* the parser holds the first header part of a request
    parsed,       \* the request whose header the parser completed last (0: none)
    bound,        \* request->GetRequestInterceptor()
    inList,       \* the client is in _client_list
    closing,      \* response->Close() was called
    iopc,         \* I/O thread: "idle", or "found" between FindClient and ProcessData
    chunk,        \* the data of the OnDataReceived in progress
    prepared,     \* history: OnHttpPrepare calls, [r, ic]
    fed,          \* history: atoms given to OnHttpData, [atom, to, first]
    misparsed,    \* history: a body was parsed as a header
    closedCalled, \* history: OnHttpClosed was called
    lateDispatch  \* history: an interceptor was called after OnHttpClosed

vars == <<reqs, pos, status, headSeen, parsed, bound, inList, closing, iopc,
          chunk, prepared, fed, misparsed, closedCalled, lateDispatch>>

-----------------------------------------------------------------------------
(* The client's requests and the byte stream they make.                    *)

Request == [version : {"1.0", "1.1"}, conn : {"keep-alive", "close", "none"},
            body : BOOLEAN, target : Interceptors \cup {NoTarget}]

\* HTTP persistence (RFC 7230 6.3): an HTTP/1.1 connection persists unless
\* the request says "close", an HTTP/1.0 one only if it says "keep-alive".
IsPersistent(r) ==
    \/ r.version = "1.1" /\ r.conn \in {"keep-alive", "none"}
    \/ r.version = "1.0" /\ r.conn = "keep-alive"

Atom == [r : 1..NumRequests, k : {"h1", "h2", "body"}]

RequestAtoms(rs, i) ==
    <<[r |-> i, k |-> "h1"], [r |-> i, k |-> "h2"]>>
        \o (IF rs[i].body THEN <<[r |-> i, k |-> "body"]>> ELSE <<>>)

Stream(rs) == FlattenSeq([i \in DOMAIN rs |-> RequestAtoms(rs, i)])

-----------------------------------------------------------------------------
(* HttpRequest::ProcessData (outside this file): header parts are consumed *)
(* until the header is complete; "used" is the processed length.           *)

RECURSIVE ParseHeader(_, _, _)
ParseHeader(d, hs, used) ==
    IF d = <<>> THEN [st |-> "partial", used |-> used, hs |-> hs, r |-> 0]
    ELSE IF Head(d).k = "h1" /\ ~hs
      THEN ParseHeader(Tail(d), TRUE, used + 1)
    ELSE IF Head(d).k = "h2" /\ hs
      THEN [st |-> "ok", used |-> used + 1, hs |-> FALSE, r |-> Head(d).r]
    ELSE [st |-> "error", used |-> used, hs |-> hs, r |-> 0]

-----------------------------------------------------------------------------
(* Mutants: plausible faults of the operators below.                       *)

KeepAliveDefaultClose(r) ==
    \/ r.version = "1.1" /\ r.conn = "keep-alive"
    \/ r.version = "1.0" /\ r.conn = "keep-alive"

BindNoFallback(b, r) == r.target

-----------------------------------------------------------------------------
(* HttpServer *)

\* ProcessData's keep-alive test (lines 119-126), with GetHeader's default
\* for a missing Connection header: a parsed request that passes it gets
\* InitParseInfo when the next data arrives.
KeepAlive(r) ==
    LET connection(default) == IF r.conn = "none" THEN default ELSE r.conn IN
    \/ r.version = "1.1" /\ connection("keep-alive") = "keep-alive"
    \/ r.version = "1.0" /\ connection("close") = "keep-alive"

\* The interceptor binding of lines 158-169: the first interceptor that
\* claims the request; if none does, the request keeps the one it had.
Bind(b, r) == IF r.target # NoTarget THEN r.target ELSE b

\* The atoms of d handed to OnHttpData for request "to"; "whole" is TRUE
\* when d is the whole chunk that arrived.
Fed(d, to, whole) ==
    [i \in DOMAIN d |-> [atom |-> d[i], to |-> to, first |-> whole /\ i = 1]]

\* FindClient (lines 93-105) in OnDataReceived (lines 259-270): the data
\* arrives and the client is found; a client no longer listed drops it.
OnDataReceived(n) ==
    /\ iopc = "idle"
    /\ inList
    /\ pos + n <= Len(Stream(reqs))
    /\ chunk' = SubSeq(Stream(reqs), pos + 1, pos + n)
    /\ pos' = pos + n
    /\ iopc' = "found"
    /\ UNCHANGED <<reqs, status, headSeen, parsed, bound, inList, closing,
                   prepared, fed, misparsed, closedCalled, lateDispatch>>

\* ProcessData (lines 107-221) with TryParseHeader (lines 64-91), on the
\* client FindClient returned.  prepDisc and dataDisc are the interceptor's
\* answers (Disconnect or not).
ProcessData(prepDisc, dataDisc) ==
    LET reinit == status = "ok" /\ KeepAlive(reqs[parsed])
        st     == IF reinit THEN "partial" ELSE status
        hs     == IF reinit THEN FALSE ELSE headSeen
        p      == ParseHeader(chunk, hs, 0)
        late   == ~inList
    IN
    /\ iopc = "found"
    /\ iopc' = "idle"
    /\ \/ /\ st = "ok"
          /\ fed' = fed \o Fed(chunk, parsed, TRUE)
          /\ closing' = (closing \/ dataDisc)
          /\ lateDispatch' = (lateDispatch \/ late)
          /\ UNCHANGED <<status, headSeen, parsed, bound, prepared, misparsed>>
       \/ /\ st = "partial" /\ p.st = "partial"
          /\ status' = "partial" /\ headSeen' = p.hs
          /\ UNCHANGED <<parsed, bound, closing, prepared, fed, misparsed, lateDispatch>>
       \/ /\ st = "partial" /\ p.st = "ok"
          /\ LET ic == Bind(bound, reqs[p.r]) IN
             /\ bound' = ic
             /\ prepared' = Append(prepared, [r |-> p.r, ic |-> ic])
          /\ status' = "ok" /\ headSeen' = FALSE /\ parsed' = p.r
          /\ fed' = IF prepDisc THEN fed
                    ELSE fed \o Fed(SubSeq(chunk, p.used + 1, Len(chunk)), p.r, FALSE)
          /\ closing' = (closing \/ prepDisc \/ dataDisc)
          /\ lateDispatch' = (lateDispatch \/ late)
          /\ UNCHANGED misparsed
       \/ /\ st = "partial" /\ p.st = "error"
          /\ status' = "error"
          /\ misparsed' = (misparsed \/ chunk[p.used + 1].k = "body")
          /\ closing' = TRUE
          /\ lateDispatch' = (lateDispatch \/ late)
          /\ UNCHANGED <<headSeen, parsed, bound, prepared, fed>>
       \/ /\ st = "error"
          /\ closing' = TRUE
          /\ UNCHANGED <<status, headSeen, parsed, bound, prepared, fed, misparsed,
                         lateDispatch>>
    /\ UNCHANGED <<reqs, pos, inList, chunk, closedCalled>>

\* OnDisconnected (lines 272-313): under _client_list_mutex, OnHttpClosed
\* on the request's interceptor and erase the client.  The client may hang
\* up at any time; after response->Close() the port reports it too.
OnDisconnected ==
    /\ inList
    /\ inList' = FALSE
    /\ closedCalled' = TRUE
    /\ UNCHANGED <<reqs, pos, status, headSeen, parsed, bound, closing, iopc,
                   chunk, prepared, fed, misparsed, lateDispatch>>

-----------------------------------------------------------------------------

\* A client sends a further request only after a persistent one.
ClientRequests ==
    UNION {{rs \in [1..n -> Request] :
               \A i \in 1..(n - 1) : IsPersistent(rs[i])} : n \in 1..NumRequests}

\* ProcessConnect (lines 223-252): a fresh HttpRequest with the default
\* interceptor, put in _client_list.
Init ==
    /\ reqs \in ClientRequests
    /\ pos = 0
    /\ status = "partial"
    /\ headSeen = FALSE
    /\ parsed = 0
    /\ bound = DefaultInterceptor
    /\ inList = TRUE
    /\ closing = FALSE
    /\ iopc = "idle"
    /\ chunk = <<>>
    /\ prepared = <<>>
    /\ fed = <<>>
    /\ misparsed = FALSE
    /\ closedCalled = FALSE
    /\ lateDispatch = FALSE

Next ==
    \/ \E n \in 1..Len(Stream(reqs)) : OnDataReceived(n)
    \/ \E pd, dd \in BOOLEAN : ProcessData(pd, dd)
    \/ OnDisconnected

Spec == Init /\ [][Next]_vars

-----------------------------------------------------------------------------
(* Properties *)

TypeOK ==
    /\ reqs \in ClientRequests
    /\ pos \in 0..(3 * NumRequests)
    /\ status \in {"partial", "ok", "error"}
    /\ headSeen \in BOOLEAN
    /\ parsed \in 0..NumRequests
    /\ bound \in Interceptors \cup {DefaultInterceptor}
    /\ inList \in BOOLEAN /\ closing \in BOOLEAN
    /\ iopc \in {"idle", "found"}
    /\ chunk \in Seq(Atom)
    /\ prepared \in Seq([r : 1..NumRequests, ic : Interceptors \cup {DefaultInterceptor}])
    /\ fed \in Seq([atom : Atom, to : 1..NumRequests, first : BOOLEAN])
    /\ misparsed \in BOOLEAN /\ closedCalled \in BOOLEAN /\ lateDispatch \in BOOLEAN

\* Keep-alive (lines 119-126): a chunk that begins a new request on a
\* persistent connection is parsed as a header; its first bytes are never
\* handed to the previous request's interceptor as data.
NewRequestChunkParsed ==
    \A i \in DOMAIN fed : fed[i].first => fed[i].atom.k = "body"

\* HTTP/1.1 semantics (spec 4.4): every byte handed to an interceptor's
\* OnHttpData belongs to the request it was prepared for, and no request
\* body is parsed as the header of a new request.
RequestBytesReachTheirRequest ==
    /\ \A i \in DOMAIN fed : fed[i].atom.r = fed[i].to
    /\ ~misparsed

\* After OnHttpClosed told the interceptor the client is gone, the
\* interceptor is not called for that client again.
NoDispatchAfterClosed == ~lateDispatch
=============================================================================
