-------------------------- MODULE PlaylistAdmission --------------------------
(***************************************************************************)
(* Signed-URL admission of playlist requests by the segment publisher     *)
(* (HLS / DASH / LL-DASH), segment_publisher.cpp: OnPlayListRequest,       *)
(* HandleSignedUrl, IsAuthorizedSession, UpdatePlaylistRequestInfo and the *)
(* playlist half of RequestTableUpdateThread.                              *)
(*                                                                         *)
(* Actors:                                                                 *)
(*  - HTTP worker threads (Workers).  HandleSignedUrl reads               *)
(*    _playlist_request_table with no lock (IsAuthorizedSession), then    *)
(*    UpdatePlaylistRequestInfo takes the lock and writes; the handler is *)
(*    cut between the two, so other threads may run in between.          *)
(*  - the housekeeping thread: erase too-old entries under the lock, then *)
(*    sleep(3).  Its segment-table sweep touches no state of this module  *)
(*    (SegmentSessions models it).                                        *)
(*  - the clock.  Time is kept as the age of each entry, saturated one    *)
(*    above MaxSessionAge, so every IsTooOld comparison keeps its value.  *)
(***************************************************************************)
EXTENDS Integers

CONSTANTS
    Workers,          \* HTTP worker threads of the segment stream server
    IPs,              \* client IP addresses
    SessionIds,       \* session ids carried inside signed-URL tokens
    MaxSessionAge,    \* PlaylistRequestInfo::IsTooOld age, in clock ticks
    SweepPeriod,      \* sleep(3) of the housekeeping loop, in clock ticks
    SignedUrlConfigs, \* subset of BOOLEAN: vhost has <SignedUrl><CryptoKey>
    NoEntry           \* model value: no playlist entry / no pending request

ASSUME /\ MaxSessionAge \in Nat /\ SweepPeriod \in Nat \ {0}
       /\ SignedUrlConfigs \subseteq BOOLEAN /\ SignedUrlConfigs # {}

VARIABLES
    signedUrl,      \* configuration, read once at start: signed URLs in use
    playlist,       \* _playlist_request_table: session id -> entry
    wpc,            \* worker program counter
    wreq,           \* worker's PlaylistRequestInfo between check and update
    hk,             \* housekeeping thread program counter
    nap,            \* ticks left in the housekeeping thread's sleep(3)
    validAdmitted,  \* history: <<session, ip>> admitted on an unexpired token
    bypassed        \* history: a 200 was served without the signed-URL checks

vars == <<signedUrl, playlist, wpc, wreq, hk, nap, validAdmitted, bypassed>>

-----------------------------------------------------------------------------
(* Data *)

Ages == 0..(MaxSessionAge + 1)

\* PlaylistRequestInfo, only the fields the table compares; "age" is the
\* time since created_at.
PlaylistEntry == [ip : IPs, age : Ages]

\* A decrypted signed-URL token: its session id and allowed client IP, and
\* whether, at the time of the request, the token window and the stream
\* window are open and its URL equals the request URL.
Tokens == [sid : SessionIds, ip : IPs, tokenOpen : BOOLEAN,
           streamOpen : BOOLEAN, urlOk : BOOLEAN]

\* How a playlist request reaches HandleSignedUrl.
\*  "insecure" : the application name ends with "_insecure" (line 106)
\*  "rejected" : the URL does not parse, the vhost is not resolved, the token
\*               key or rtspURI is missing, or the token does not decrypt
\*  "token"    : a decrypted token is present
RequestForms == {"insecure", "rejected", "token"}

-----------------------------------------------------------------------------
(* Helpers of PlaylistRequestInfo (its code is outside src/).             *)

\* PlaylistRequestInfo::IsTooOld
IsTooOld(entry) == entry.age > MaxSessionAge

\* PlaylistRequestInfo::IsRequestFromSameUser
IsRequestFromSameUser(entry, ip) == entry.ip = ip

-----------------------------------------------------------------------------
(* Mutants: plausible faults of the operators below.                       *)

IsAuthorizedSessionAnyUser(sid, ip) == playlist[sid] # NoEntry

RevokedLogOnly(tbl) == tbl

-----------------------------------------------------------------------------
(* Operations *)

\* IsAuthorizedSession (lines 439-451): the session id has an entry and it
\* was made from the same user.  No lock is taken.
IsAuthorizedSession(sid, ip) ==
    /\ playlist[sid] # NoEntry
    /\ IsRequestFromSameUser(playlist[sid], ip)

\* The four checks of HandleSignedUrl (lines 621-663); token expiry is
\* waived for an authorized session.
AdmissionOk(tok, ip) ==
    /\ tok.tokenOpen \/ IsAuthorizedSession(tok.sid, ip)
    /\ tok.streamOpen
    /\ tok.ip = ip
    /\ tok.urlOk

\* Status of OnPlayListRequest after admission (lines 117-209).  The stream
\* lookup, RequestPullStream and GetPlayList are outside this component;
\* their outcomes range over BOOLEAN.
PlaylistStatus(rtspApp, hasRtspUri, found, pullOk, refound, listOk) ==
    IF ~found /\ rtspApp /\ ~hasRtspUri THEN 400
    ELSE IF ~found /\ ~pullOk THEN 406
    ELSE IF ~found /\ ~refound THEN 404     \* returns false: next observer
    ELSE IF ~listOk THEN 202
    ELSE 200

PlaylistCodes ==
    {PlaylistStatus(a, b, c, d, e, f) : a, b, c, d, e, f \in BOOLEAN}

\* The rest of OnPlayListRequest answers with some code; "admitted" says
\* whether the request passed HandleSignedUrl's checks.
Respond(admitted) ==
    \E code \in PlaylistCodes :
        bypassed' = (bypassed \/ (signedUrl /\ ~admitted /\ code = 200))

\* The table with every too-old entry erased (lines 385-400).
Revoked(tbl) ==
    [s \in SessionIds |-> IF tbl[s] # NoEntry /\ IsTooOld(tbl[s])
                            THEN NoEntry ELSE tbl[s]]

\* OnPlayListRequest up to the end of HandleSignedUrl's checks
\* (lines 85-115, 542-663).  Every path but a passed check answers here.
PlaylistRequest(w, ip, form, tok) ==
    /\ wpc[w] = "idle"
    /\ \/ /\ form = "insecure"
          /\ Respond(FALSE)
          /\ UNCHANGED <<wpc, wreq>>
       \/ /\ form # "insecure"
          /\ ~signedUrl                        \* lines 572-576
          /\ Respond(FALSE)
          /\ UNCHANGED <<wpc, wreq>>
       \/ /\ form = "rejected"                 \* 403, lines 107-113
          /\ signedUrl
          /\ UNCHANGED <<wpc, wreq, bypassed>>
       \/ /\ form = "token"
          /\ signedUrl
          /\ ~AdmissionOk(tok, ip)             \* 403, lines 656-662
          /\ UNCHANGED <<wpc, wreq, bypassed>>
       \/ /\ form = "token"
          /\ signedUrl
          /\ AdmissionOk(tok, ip)
          /\ wpc'  = [wpc EXCEPT ![w] = "update"]
          /\ wreq' = [wreq EXCEPT ![w] = [sid |-> tok.sid, ip |-> ip,
                                          viaToken |-> tok.tokenOpen]]
          /\ UNCHANGED bypassed
    /\ UNCHANGED <<signedUrl, playlist, hk, nap, validAdmitted>>

\* UpdatePlaylistRequestInfo under _playlist_request_table_lock (lines
\* 425-437, 666), then the rest of OnPlayListRequest (lines 117-209).
UpdatePlaylistRequestInfo(w) ==
    LET r == wreq[w] IN
    /\ wpc[w] = "update"
    /\ playlist' = [playlist EXCEPT ![r.sid] = [ip |-> r.ip, age |-> 0]]
    /\ validAdmitted' = IF r.viaToken THEN validAdmitted \cup {<<r.sid, r.ip>>}
                                     ELSE validAdmitted
    /\ wpc'  = [wpc EXCEPT ![w] = "idle"]
    /\ wreq' = [wreq EXCEPT ![w] = NoEntry]
    /\ Respond(TRUE)
    /\ UNCHANGED <<signedUrl, hk, nap>>

\* Housekeeping under _playlist_request_table_lock (lines 383-402), then
\* sleep(3) (line 404).
SweepPlaylists ==
    /\ hk = "sweep"
    /\ playlist' = Revoked(playlist)
    /\ hk' = "sleep"
    /\ nap' = SweepPeriod
    /\ UNCHANGED <<signedUrl, wpc, wreq, validAdmitted, bypassed>>

\* sleep(3) returns and while(_run_thread) starts a new round (line 269).
Wake ==
    /\ hk = "sleep"
    /\ nap = 0
    /\ hk' = "sweep"
    /\ UNCHANGED <<signedUrl, playlist, wpc, wreq, nap, validAdmitted, bypassed>>

\* One clock tick: every entry ages and the housekeeping sleep runs down.
Tick ==
    /\ playlist' = [s \in SessionIds |->
                      IF playlist[s] = NoEntry \/ playlist[s].age > MaxSessionAge
                        THEN playlist[s]
                        ELSE [playlist[s] EXCEPT !.age = @ + 1]]
    /\ nap' = IF hk = "sleep" /\ nap > 0 THEN nap - 1 ELSE nap
    /\ UNCHANGED <<signedUrl, wpc, wreq, hk, validAdmitted, bypassed>>

-----------------------------------------------------------------------------

\* StartSessionTableManager (lines 256-262) starts the housekeeping thread.
Init ==
    /\ signedUrl \in SignedUrlConfigs
    /\ playlist = [s \in SessionIds |-> NoEntry]
    /\ wpc = [w \in Workers |-> "idle"]
    /\ wreq = [w \in Workers |-> NoEntry]
    /\ hk = "sweep"
    /\ nap = 0
    /\ validAdmitted = {}
    /\ bypassed = FALSE

Next ==
    \/ \E w \in Workers, ip \in IPs, form \in RequestForms, tok \in Tokens :
          PlaylistRequest(w, ip, form, tok)
    \/ \E w \in Workers : UpdatePlaylistRequestInfo(w)
    \/ SweepPlaylists
    \/ Wake
    \/ Tick

\* A worker finishes the handler it started, the housekeeping thread loops
\* forever and time passes; clients owe nothing.
Fairness ==
    /\ \A w \in Workers : WF_vars(UpdatePlaylistRequestInfo(w))
    /\ WF_vars(SweepPlaylists) /\ WF_vars(Wake) /\ WF_vars(Tick)

Spec == Init /\ [][Next]_vars /\ Fairness

-----------------------------------------------------------------------------
(* Properties *)

TypeOK ==
    /\ signedUrl \in BOOLEAN
    /\ playlist \in [SessionIds -> PlaylistEntry \cup {NoEntry}]
    /\ wpc \in [Workers -> {"idle", "update"}]
    /\ wreq \in [Workers -> [sid : SessionIds, ip : IPs, viaToken : BOOLEAN]
                             \cup {NoEntry}]
    /\ hk \in {"sweep", "sleep"}
    /\ nap \in 0..SweepPeriod
    /\ validAdmitted \subseteq SessionIds \X IPs
    /\ bypassed \in BOOLEAN

\* Grace never spreads: the token-expiry waiver of HandleSignedUrl rests on
\* the playlist table, so every entry of it must go back, through any
\* number of grace admissions, unlocked reads and housekeeping sweeps, to
\* an admission of the same session from the same IP on an unexpired token.
GraceChain ==
    \A s \in SessionIds :
        playlist[s] # NoEntry => <<s, playlist[s].ip>> \in validAdmitted

\* A session that is too old loses its grace: the housekeeping thread
\* eventually erases it, unless a new admission has renewed it first.
TooOldSessionEventuallyRevoked ==
    \A s \in SessionIds :
        (playlist[s] # NoEntry /\ IsTooOld(playlist[s]))
            ~> (playlist[s] = NoEntry \/ ~IsTooOld(playlist[s]))

\* With a signed-URL key configured, a playlist is served (200) only to a
\* request that passed HandleSignedUrl (spec 4.5 and P6).
PlaylistServedOnlyAfterAdmission == ~bypassed
=============================================================================
