----------------------------- MODULE SegmentCors -----------------------------
(***************************************************************************)
(* Cross-origin policy of the segment stream server                       *)
(* (segment_stream/segment_stream_server.cpp): SetCrossDomain turns the     *)
(* configured URL list into _cors_urls and the crossdomain.xml document,   *)
(* SetAllowOrigin answers a request's Origin, ProcessRequest decides which *)
(* requests get which, and SegmentPublisher::Start (segment_publisher.cpp) *)
(* is where the configured list would be applied.                          *)
(*                                                                         *)
(* Strings are sequences of tokens: the scheme prefixes "http://" and      *)
(* "https://", "*", "." and host-name pieces.  A piece is a run of         *)
(* letters with no piece a prefix or a suffix of another, so HasPrefix,    *)
(* HasSuffix and Substring on whole tokens give what they give on the      *)
(* characters: "evilexample" is the two pieces "evil" "example".           *)
(***************************************************************************)
EXTENDS Naturals, FiniteSets, Sequences, SequencesExt

CONSTANTS
    Hosts,        \* host names an Origin header may carry
    ConfigHosts,  \* host names the configuration may name
    MaxUrls,      \* longest configured URL list
    MaxCalls,     \* SetCrossDomain calls
    NoHeader,     \* model value: no Access-Control-Allow-Origin header
    NoResponse    \* model value: no request answered yet

VARIABLES
    pubState,     \* SegmentPublisher: "init", "started", "failed"
    configured,   \* the cross-domain URL list of the publisher's configuration
    corsUrls,     \* _cors_urls
    xml,          \* the domains _cross_domain_xml allows
    calls,        \* SetCrossDomain calls so far
    lastList,     \* history: the list of the last SetCrossDomain call
    response      \* the last request answered: [target, origin, allow, body], and
                  \* the last list given to SetCrossDomain before it (history)

vars == <<pubState, configured, corsUrls, xml, calls, lastList, response>>

Http  == <<"http://">>
Https == <<"https://">>
Star  == <<"*">>
Dot   == <<".">>

\* cfg::Url values: "*", and a host, with or without scheme, with or
\* without a "*." subdomain wildcard.
ConfigUrls ==
    {Star} \cup {p \o w \o h : p \in {<<>>, Http, Https}, w \in {<<>>, Star \o Dot},
                               h \in ConfigHosts}

\* Origin request headers; the empty string when there is none.
Origins == {<<>>} \cup {p \o h : p \in {Http, Https}, h \in Hosts}

Targets == {"crossdomain", "unparsable", "stream"}

-----------------------------------------------------------------------------
(* The policy spec 4.4 and P7 describe: "*" allows every origin, an exact  *)
(* origin allows itself (a host without scheme both schemes), and          *)
(* "http://*.example.com" allows the subdomains of example.com by suffix.  *)
(* An empty list restricts nothing.  crossdomain.xml lists the same hosts  *)
(* without their schemes.                                                  *)

IsSubdomain(host, h) == \E l \in Prefixes(host) : l # <<>> /\ host = l \o Dot \o h

EntryAllows(e, o) ==
    \E p \in {<<>>, Http, Https}, w \in {<<>>, Star \o Dot}, h \in ConfigHosts :
        /\ e = p \o w \o h
        /\ w = <<>> => (p = <<>> \/ <<Head(o)>> = p) /\ Tail(o) = h
        /\ w # <<>> => IsSubdomain(Tail(o), h)

AllowsAll(list) == list = <<>> \/ Contains(list, Star)

ExpectedAllow(list, o) ==
    CASE o = <<>>                                  -> NoHeader
      [] AllowsAll(list)                           -> Star
      [] \E i \in DOMAIN list : EntryAllows(list[i], o) -> o
      [] OTHER                                     -> NoHeader

HostOf(e) == IF \E p \in {Http, Https} : IsPrefix(p, e) THEN Tail(e) ELSE e

ExpectedXml(list) ==
    IF AllowsAll(list) THEN {Star} ELSE {HostOf(list[i]) : i \in DOMAIN list}

-----------------------------------------------------------------------------
(* Mutants: plausible faults of the operators below.                       *)

SetAllowOriginEchoEntry(cors, o) ==
    LET Matches(url) == \/ IsPrefix(Http \o Star \o Dot, url) /\ IsSuffix(Tail(Tail(url)), o)
                        \/ url = o
        hit == {i \in DOMAIN cors : Matches(cors[i])}
    IN IF cors = <<>> THEN Star
       ELSE IF hit = {} THEN NoHeader ELSE cors[CHOOSE i \in hit : TRUE]

WildcardSuffixNoDot(url, n) == SubSeq(url, n + 2, Len(url))

DomainUnstripped(url, prefix) == url

-----------------------------------------------------------------------------
(* SegmentStreamServer *)

\* ov::String::Substring(n) on a token string: drop the first n tokens.
Substring(url, n) == SubSeq(url, n + 1, Len(url))

\* url.Substring(strlen("http://*")) (lines 349, 351): the ".host" suffix
\* a wildcard entry matches by.
WildcardSuffix(url, n) == Substring(url, n)

\* UrlExistCheck (lines 454-462) guarding each push_back.
AddUnique(list, url) == IF Contains(list, url) THEN list ELSE Append(list, url)

\* url.Substring(prefix.GetLength()) (lines 405-406, 414-415): the
\* crossdomain.xml domain of a URL with a scheme.
Domain(url, prefix) == Substring(url, Len(prefix))

\* The for loop of SetCrossDomain (lines 390-432): the crossdomain list cd
\* and _cors_urls; "*" clears both and returns from SetCrossDomain.
RECURSIVE CrossDomainLoop(_, _, _)
CrossDomainLoop(list, cd, cors) ==
    IF list = <<>> THEN [star |-> FALSE, cd |-> cd, cors |-> cors]
    ELSE LET url == Head(list) IN
    CASE url = Star ->
            [star |-> TRUE, cd |-> <<>>, cors |-> <<>>]
      [] IsPrefix(Http, url) ->
            CrossDomainLoop(Tail(list), AddUnique(cd, Domain(url, Http)), AddUnique(cors, url))
      [] IsPrefix(Https, url) ->
            CrossDomainLoop(Tail(list), AddUnique(cd, Domain(url, Https)), AddUnique(cors, url))
      [] OTHER ->
            CrossDomainLoop(Tail(list), AddUnique(cd, url),
                            AddUnique(AddUnique(cors, Http \o url), Https \o url))

\* SetCrossDomain (lines 379-452): an empty list changes nothing; "*"
\* clears _cors_urls and keeps the crossdomain.xml there was; otherwise
\* the entries are added to _cors_urls and crossdomain.xml is rebuilt
\* from this list.
SetCrossDomain(list) ==
    LET r == CrossDomainLoop(list, <<>>, corsUrls) IN
    /\ calls < MaxCalls
    /\ calls' = calls + 1
    /\ lastList' = list
    /\ corsUrls' = IF list = <<>> THEN corsUrls ELSE r.cors
    /\ xml' = IF list = <<>> \/ r.star THEN xml ELSE r.cd
    /\ UNCHANGED <<pubState, configured, response>>

\* SetAllowOrigin (lines 337-366): "*" when _cors_urls is empty, else the
\* origin itself if the first matching entry exists (wildcards by suffix,
\* others by equality), else no header.
SetAllowOrigin(cors, o) ==
    LET Matches(url) ==
            CASE IsPrefix(Http \o Star \o Dot, url) ->
                    IsSuffix(WildcardSuffix(url, Len(Http \o Star)), o)
              [] IsPrefix(Https \o Star \o Dot, url) ->
                    IsSuffix(WildcardSuffix(url, Len(Https \o Star)), o)
              [] OTHER -> o = url
    IN CASE cors = <<>>                             -> Star
         [] \E i \in DOMAIN cors : Matches(cors[i]) -> o
         [] OTHER                                   -> NoHeader

\* ProcessRequest (lines 275-335): a target naming crossdomain.xml gets the
\* document; a target ParseRequestUrl rejects gets 404; otherwise CORS is
\* applied when the request has an Origin and the stream is served
\* (ProcessStreamRequest, whose outcome does not touch the header).
ProcessRequest(target, o) ==
    /\ pubState = "started"
    /\ response' =
         CASE target = "crossdomain" -> [target |-> target, origin |-> o, allow |-> NoHeader, body |-> xml,
                                          list |-> lastList]
           [] target = "unparsable"  -> [target |-> target, origin |-> o, allow |-> NoHeader, body |-> <<>>,
                                          list |-> lastList]
           [] OTHER -> [target |-> target, origin |-> o, body |-> <<>>, list |-> lastList,
                        allow |-> IF o = <<>> THEN NoHeader ELSE SetAllowOrigin(corsUrls, o)]
    /\ UNCHANGED <<pubState, configured, corsUrls, xml, calls, lastList>>

-----------------------------------------------------------------------------
(* SegmentPublisher *)

\* Start (segment_publisher.cpp lines 26-64): register as observer, leave
\* the CORS settings alone (the SetCrossDomain call of line 45 is commented
\* out) and start the stream server, which may fail.
Start(list, ok) ==
    /\ pubState = "init"
    /\ configured' = list
    /\ pubState' = IF ok THEN "started" ELSE "failed"
    /\ UNCHANGED <<corsUrls, xml, calls, lastList, response>>

-----------------------------------------------------------------------------

\* The constructor (lines 14-23): crossdomain.xml allows domain "*".
Init ==
    /\ pubState = "init"
    /\ configured = <<>>
    /\ corsUrls = <<>>
    /\ xml = <<Star>>
    /\ calls = 0
    /\ lastList = <<>>
    /\ response = NoResponse

Next ==
    \/ \E list \in BoundedSeq(ConfigUrls, MaxUrls), ok \in BOOLEAN : Start(list, ok)
    \/ \E list \in BoundedSeq(ConfigUrls, MaxUrls) : SetCrossDomain(list)
    \/ \E t \in Targets, o \in Origins : ProcessRequest(t, o)

Spec == Init /\ [][Next]_vars

-----------------------------------------------------------------------------
(* Properties *)

TypeOK ==
    /\ pubState \in {"init", "started", "failed"}
    /\ configured \in BoundedSeq(ConfigUrls, MaxUrls)
    /\ corsUrls \in Seq(ConfigUrls \cup {p \o u : p \in {Http, Https}, u \in ConfigUrls})
    /\ calls \in 0..MaxCalls
    /\ response \in {NoResponse}
         \cup [target : Targets, origin : Origins, allow : {NoHeader, Star} \cup Origins,
               body : Seq(Seq(STRING)), list : BoundedSeq(ConfigUrls, MaxUrls)]

\* SetAllowOrigin answers every Origin as the URL list given to
\* SetCrossDomain says (spec 4.4, P7): "*" for an empty list or one with
\* "*", the origin itself when an exact entry or a wildcard subdomain
\* entry allows it, and no header otherwise (so http://*.example.com
\* allows http://x.example.com and not http://example.com.evil nor
\* http://evilexample.com).
AllowOriginFollowsList ==
    response # NoResponse /\ response.target = "stream"
        => response.allow = ExpectedAllow(response.list, response.origin)

\* crossdomain.xml allows exactly the hosts of the list given to
\* SetCrossDomain, each once, and "*" when the list allows every origin.
CrossDomainXmlFollowsList ==
    /\ ToSet(xml) = ExpectedXml(lastList)
    /\ Len(xml) = Cardinality(ToSet(xml))

\* Spec 4.4: the configured URL list decides the Access-Control-Allow-Origin
\* a request of a started publisher gets.
ConfiguredCorsEnforced ==
    response # NoResponse /\ response.target = "stream"
        => response.allow = ExpectedAllow(configured, response.origin)
=============================================================================
