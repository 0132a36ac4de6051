# TLA+ models of OvenMediaEngine (media pipeline core)

This directory holds TLA+ specifications of parts of the repository's
`src/` tree (an excerpt of OvenMediaEngine 0.10.7 and later files). They are
checked with the TLC model checker. Each module is written from the C++
source. `PROJECT.json` maps every modelling definition to the lines it
translates. It also lists the runs, the mutants that show each checked
property can fail, the findings, and the hazards of the code.

## The system and its parts

The excerpt under `src/` covers these parts:

| Part | Source | What it does |
|---|---|---|
| Segment publisher | `publishers/segment/segment_publisher.cpp` | Serves HLS/DASH playlists and segments. Admits playlist requests by signed URL. Keeps a playlist (session) table and a segment (viewer) table, which a housekeeping thread sweeps every 3 s. |
| Segment stream server | `publishers/segment/segment_stream/segment_stream_server.cpp` | Shares one `HttpServer` per port among publishers, registers the publisher's interceptor, parses request URLs and applies CORS / crossdomain.xml. |
| HTTP server | `http_server/http_server.cpp` | Accepts connections from the physical port, parses requests incrementally, binds an interceptor per request and handles keep-alive. |
| AVC / VP8 encoders | `transcode/codec/transcode_codec_enc_avc.cpp`, `..._enc_vp8.cpp` | Worker threads that take frames from an input queue, encode with libavcodec and build output packets (AVC: the NAL fragmentation header). |
| Decoder base, rescaler filter | `transcode/codec/transcode_decoder.cpp`, `transcode/filter/media_filter_rescaler.cpp` | Decoder configuration and input queue; rescaler worker thread with an input and an output queue. |
| WebRTC stream | `publishers/webrtc/rtc_stream.cpp` | Builds the SDP offer (payload types per track, RED/ULPFEC), the packetizers per track, and the VP8 picture id. |
| RTCP NACK | `modules/rtp_rtcp/rtcp_info/nack.h` | Lost sequence numbers of a NACK feedback message. |
| RTMP provider | `providers/rtmp/rtmp_provider.cpp` | Listening port lifecycle (Start/Stop) and connection callbacks. |
| Pull provider | `base/provider/pull_provider/provider.h` | `PullingItem`: the state and lock of a stream being pulled. |
| Base64 | `base/ovcrypto/base_64.cpp` | `ov::Base64::Encode` / `Decode` over an OpenSSL base64 BIO; the WebRTC offer uses `Encode` for H.264 `sprop-parameter-sets`. |
| Helpers | `clock.h`, `log_write.h`, config headers, `stun_mapped_address_attribute.h`, `rtp_packet.h`, `file_stream.h`, `cmaf_application.cpp` | Wrappers, accessors and declarations. |

How these parts interact:
- HTTP worker threads of the stream server call into the segment publisher
  (`OnPlayListRequest`, `OnSegmentRequest`).
- The publisher's housekeeping thread sweeps the same tables concurrently.
- Publishers share listeners through `http_server_manager`.
- The AVC encoder's fragmentation header is what the WebRTC packetizer
  cuts RTP packets along.
- A transcode stream's thread (outside `src/`) sends decoded frames to the
  rescaler, moves the rescaled frames to the encoder and takes the encoded
  frames. Each stage has its own worker thread.
- The physical port's I/O threads deliver connect, data and disconnect
  events to `HttpServer`. It binds each parsed request to the first
  interceptor (HLS, DASH, ...) that claims it. The segment stream server's
  `ProcessRequest` answers the request and applies CORS.

## Modules

| Module | Models | State | Actions |
|---|---|---|---|
| `PlaylistAdmission` | signed-URL admission and the playlist table (`OnPlayListRequest`, `HandleSignedUrl`, `IsAuthorizedSession`, `UpdatePlaylistRequestInfo`, playlist sweep) | `playlist` table, per-worker `wpc`/`wreq` between the unlocked check and the locked update, housekeeping `hk`/`nap`, configuration `signedUrl`, history `validAdmitted`, `bypassed` | `PlaylistRequest`, `UpdatePlaylistRequestInfo`, `SweepPlaylists`, `Wake`, `Tick` |
| `SegmentSessions` | the viewer table (`OnSegmentRequest`, `UpdateSegmentRequestInfo`, segment sweep) | `segments` (the multimap as a sequence in insertion order), the stream's `connections` counter, per-worker `wpc`, `hk`/`nap` | `SegmentRequest`, `OnSessionConnected`, `SweepSegments`, `Wake`, `Tick` |
| `NalFragmentation` | `MakePacket` of the AVC encoder | the packet handed to `MakePacket` and the header built | `EncodePacket`, `SendOutputBuffer` |
| `HttpServerPool` | `SegmentStreamServer::Start/Stop`, `CreateHttpServerIfNeeded`, `HttpServer::Start/Stop/AddInterceptor` | port configuration, `http_server_manager`, per-port `listening` and interceptors, per-publisher server pointers, `started` | `Start` (with bind outcomes), `Stop` |
| `RescalerThread` | `MediaFilterRescaler`: the constructor, `Configure` (its early returns, the thread start, a throwing `std::thread`), `SendBuffer`, `RecvBuffer`, `Stop` (also from the destructor), `ThreadFilter` | `_input_buffer`, `_output_buffer`, the `_queue_event` tokens, `_kill_flag`, the thread's `tpc` and dequeued `frame`, the filter graph as a FIFO, the caller's `cpc` (`new`, `failed`, `idle`, ...) | `Configure`, `SendBuffer(f)`, `NotifyQueueEvent`, `RecvBuffer`, `Stop`, `Join`, `LoopTest`, `Dequeue`, `Feed`, `Drain` |
| `AvcEncoderThread` | `OvenCodecImplAvcodecEncAVC`: `Configure` (its early returns, the thread start, a throwing `std::thread`), `ThreadEncode`, `Stop` (also from the destructor), `RecvBuffer` | as `RescalerThread`, with the codec in place of the graph | as `RescalerThread` |
| `TranscodeChain` | `TranscodeDecoder` (`CreateDecoder`, `SendBuffer`) feeding the rescaler feeding the encoder, driven by one stream thread | `dec`, the decoder's `_input_buffer` `dIn`, and both stages through `INSTANCE ... WITH` | `CreateDecoder(c, ok)`, `ConfigureFilter`, `ConfigureEncoder`, `DecoderSend`, `Decode`, `EncoderSend`, `EncoderRecv`, `StopFilter`, `StopEncoder`, and every action of both stages |
| `HttpConnection` | one client connection: `ProcessConnect`, `OnDataReceived` with `FindClient`, `ProcessData` with `TryParseHeader`, `OnDisconnected` | the client's requests and the stream position, `ParseStatus`, the bound interceptor, `_client_list` membership, the I/O thread between `FindClient` and `ProcessData`, histories of `OnHttpPrepare`/`OnHttpData` calls | `OnDataReceived(n)`, `ProcessData(prepDisc, dataDisc)`, `OnDisconnected` |
| `Base64` | `ov::Base64::Encode` and `Decode` | none: pure operators on byte sequences and texts of base64 symbols (`Pad` for `=`) | `Encode(d)`, `Decode(t)` with their per-quantum helpers |
| `RtcStream` | `RtcStream::Start` (the SDP offer with the H.264 `sprop-parameter-sets`, and `AddPacketizer`, with `Create`'s `Stop` when `Stream::Start` fails), `Stop`, `SendVideoFrame` with `MakeRtpVideoHeader` and `AllocateVP8PictureID`, the broadcast key of `OnRtpPacketized` | the track list, `phase`, the offer as video and audio payload lists, `_packetizers` (payload type, m-line SSRC, ULPFEC on), `_vp8_picture_id`, history `vp8Frames` | `Start(streamStarted)`, `Stop`, `SendVideoFrame(i)` |
| `SegmentCors` | `SetCrossDomain` (with `UrlExistCheck`), `SetAllowOrigin`, `ProcessRequest`, the CORS part of `SegmentPublisher::Start` | `_cors_urls`, the crossdomain.xml domains, the publisher's state and configured list, the last response | `Start`, `SetCrossDomain`, `ProcessRequest` |

Each `MC*.tla` module instantiates one of these with model values. Each
`.cfg` file is one run.

### How the code is cut into steps

- **Playlist requests.** `HandleSignedUrl` checks the table without a lock
  (`IsAuthorizedSession`, line 441). It then takes the lock in
  `UpdatePlaylistRequestInfo` (line 427). A worker is therefore a
  `PlaylistRequest` step followed by an `UpdatePlaylistRequestInfo` step,
  and other threads run in between. Every early return (403, signed URL
  not configured, the `_insecure` suffix) is a disjunct of
  `PlaylistRequest`. The rest of the handler (stream lookup, pull,
  playlist) only chooses the response code; `Respond` ranges over every
  code `PlaylistStatus` can return.
- **Segment requests.** `UpdateSegmentRequestInfo` edits the table under
  its lock. It counts a new viewer only after `table_lock.unlock()`, so a
  new session is a `SegmentRequest` step followed by an
  `OnSessionConnected` step.
- **Housekeeping.** The housekeeping thread sweeps the segment table
  under its lock, then the playlist table under the other lock, then
  sleeps. The two tables share no state, so each module has its own
  table's sweep followed by the sleep.
- **Time.** Time is the age of each entry in clock ticks. Ages saturate
  one above the window they are compared with, so every
  `IsExpiredRequest` / `IsTooOld` comparison keeps its value and the
  state space stays finite.
- **`MakePacket`.** It is the recursive operator `Scan`, a
  line-by-line translation of the while loop over 0-based indices, plus
  `MakeHeader`. Bytes are abstracted to `0`, `1` and `X` (anything else),
  since the scan only compares bytes with 0 and 1. The packets are those
  libx264 writes in Annex B:
  - a key frame is SPS, PPS and IDR; any other frame is one slice;
  - each NAL unit has 3- or 4-byte start codes, a non-zero header byte,
    emulation prevention and a non-zero last byte.

  The model compares the header with the offsets and lengths of the NAL
  units the packet was built from (`RefOffset`, `RefLength`).
- **Starts and stops.** The main thread starts and stops publishers one
  at a time, so `Start` and `Stop` are single steps. Whether binding a
  port succeeds is a free choice.
- **Stage threads.** `SendBuffer` pushes under `_mutex` and notifies after
  the unlock, so it is two steps (`SendBuffer`, `NotifyQueueEvent`).
  `_queue_event` is an `ov::Semaphore`, modelled as a token count. Only
  the stage's thread takes tokens, so its `Wait` and the locked pop are
  one step (`Dequeue`). Feeding the frame to libavfilter/libavcodec
  happens with the lock released (`Feed`). It has three outcomes:
  - the frame is taken;
  - an allocation fails and the loop `break`s;
  - the frame is refused, put back at the front of `_input_buffer` and
    notified again.

  Each `av_buffersink_get_frame` / `avcodec_receive_packet` is a `Drain`
  step that may also answer EAGAIN. `Stop` sets the kill flag and adds a
  token; `Join` waits for the thread's exit. `Configure` either starts
  the thread or, if `std::thread` throws, sets the kill flag.
- **HTTP connection.** The byte stream is a sequence of atoms:
  - two header parts per request, so a header can be split across reads;
  - an optional body.

  A read delivers any number of atoms. `OnDataReceived` is two steps:
  `FindClient` takes `_client_list_mutex`, and `ProcessData` runs after
  the lock is released. `OnDisconnected` can come between them.
  `HttpRequest`'s parser is outside `src/`. `ParseHeader` models its
  contract: it consumes header parts until the header is complete, and
  anything else where a header is expected is an error. The interceptors'
  answers (disconnect or not) are free inputs.
- **WebRTC offer.** `Start` is one step: the loop over `_tracks` is the
  recursive `OfferLoop`, which carries the `uint8_t` payload-type counter
  (`% 2^8`), the m-lines and the packetizers through the tracks in id
  order. A payload keeps its type, codec, fmtp case and NACK flag; SSRCs,
  mids, cnames and the fingerprint are random or constant and left out.
  `SendAudioFrame` changes no state of the stream and is no action. The
  packets a packetizer hands to `OnRtpPacketized` are the three classes
  of spec 4.3 (`Emitted`); the key is composed with `Bitwise`'s `|`.
- **Strings in CORS.** URLs and origins are sequences of tokens:
  `http://`, `https://`, `*`, `.`, and host-name pieces. No piece is a
  prefix or suffix of another, so `HasPrefix`, `HasSuffix` and
  `Substring` on tokens give what they give on characters. The piece
  sequence `evil` `example` stands for `evilexample`.

## Runs

| Run | Cfg | Expect | What it shows |
|---|---|---|---|
| `playlist_grace` | `PlaylistAdmission.cfg` | pass | Grace admissions (expired token, known session) are read without the lock and raced against the sweep. They never give a session to another IP, and never to a session that was not first admitted on a valid token (`GraceChain`). Every too-old session is eventually revoked (`TooOldSessionEventuallyRevoked`). The run covers the vhost both with and without a signed-URL key. |
| `segment_accounting` | `SegmentSessions.cfg` | pass | The stream's session counter, plus the workers between unlock and `OnSessionConnected`, equals the table size (`SessionAccounting`). Every expired viewer is eventually reported disconnected. |
| `segment_count` | `SegmentCount.cfg` | violation | `SetCount(count++)` never advances the count. |
| `nal_offsets` | `NalFragmentation.cfg` | pass | For all 125,050 packets with NAL units of 2–4 bytes, the scan finds every NAL unit's offset and the SPS and PPS lengths. |
| `nal_overrun` | `NalOverrun.cfg` | violation | The last fragment's length is one byte longer than the rest of the packet. |
| `http_pool` | `HttpServerPool.cfg` | pass | Over every assignment of two publishers to two ports, no listener is left without a started publisher. This holds after any sequence of starts, failed starts with rollback, and stops. |
| `http_shared_stop` | `HttpSharedStop.cfg` | violation | One publisher's `Stop` or rollback takes the shared listener from the others. A restart then reuses the stopped server without starting it. |
| `transcode_chain` | `TranscodeChain.cfg` | pass | The decoder feeds the rescaler, which feeds the encoder, each stage on its own thread. The stages are built in order, each `CreateDecoder` or `Configure` may fail and gives the track up, and every library call may fail. Frames stay in decoding order end to end, decoder queue included (`ChainKeepsOrder`). No stage sleeps on its semaphore while a frame is queued (`NoLostWakeup`). Every `Stop` returns, including the destructors' after a failed construction (`StopReturns`). `Codecs = {"H264", "VP8"}`: VP8 stands for an input codec with no decoder. |
| `http_connection` | `HttpConnection.cfg` | pass | The inputs are every sequence of up to two requests (HTTP/1.0 or 1.1, any `Connection` header, with or without body, claimed or not), cut into reads anywhere, with disconnects anywhere. A keep-alive connection parses the read that starts the next request (`NewRequestChunkParsed`). A request that no interceptor claims keeps the previous request's interceptor (lines 158-169); `Bind` models that, and no run states which interceptor it should reach. |
| `http_keepalive_stream` | `HttpKeepAliveStream.cfg` | violation | Keep-alive is reset only when the next read arrives. The start of a pipelined request that shares a read with the previous header goes to the previous request's `OnHttpData`. A body that arrives in a later read than its header is parsed as a new header. |
| `rtc_offer` | `RtcStream.cfg` | pass | Every stream of up to two tracks drawn from VP8, H.264, H.265, VP9, Opus, AAC and a data track is started, stopped and sent VP8 frames past the picture-id wrap. Exactly the sendable tracks get a packetizer, whose payload type is a payload of its codec on the m-line whose SSRC it uses; types are distinct, video payloads carry NACK and RED, ULPFEC come last (`OfferMatchesPacketizers`). The broadcast key tells every packet class of every packetizer apart (`BroadcastKeySeparatesClasses`). After n VP8 frames the id is `0x8000 + n % 2^15` (`PictureIdCycle`). For every usable H.264 extradata of up to two SPSs and two PPSs, the `sprop-parameter-sets` value cut at its commas decodes with `Base64::Decode` to exactly the SPSs and then the PPSs (`SpropDecodesToParameterSets`). |
| `cors_policy` | `SegmentCors.cfg` | pass | The inputs are every URL list of up to two entries given to `SetCrossDomain` and every Origin, including the spec's P7 look-alike `example.com.evil` and `evilexample.com`. `Access-Control-Allow-Origin` is what spec 4.4's rules give (`AllowOriginFollowsList`). crossdomain.xml lists the list's hosts once each (`CrossDomainXmlFollowsList`). |

Every property of a passing run has a mutant in `PROJECT.json`: a
plausible fault of the code that TLC finds the property violated for.

### Disagreements with no run of their own

Each of these is stated as a property in its module, and TLC finds each
one violated. No run checks them, because the runs are spent on the
questions above. `PROJECT.json` lists them as hazards.
- **`ThreadEndsOnlyOnStop` (`RescalerThread`).** A failed
  `av_frame_get_buffer` makes `ThreadFilter` `break` out of its loop, and
  the AVC and VP8 encoders do the same. Spec 4.2 says the stage drops the
  frame and continues.
- **`ConnectionsNonNegative` (`SegmentSessions`).** The sweep can report
  a viewer disconnected before the worker reports it connected.
- **`NoDispatchAfterClosed` (`HttpConnection`).** The order `FindClient`,
  then `OnDisconnected`, then `ProcessData` calls the interceptor after
  `OnHttpClosed`.
- **`PlaylistServedOnlyAfterAdmission` (`PlaylistAdmission`).** With a
  signed-URL key configured, an application whose name ends in
  `_insecure` skips `HandleSignedUrl` (segment_publisher.cpp:106, marked
  "for testing purposes"), so a playlist is served with no admission.
  Spec 4.4 requires the check whenever a key is configured.
- **`ConfiguredCorsEnforced` (`SegmentCors`).** The publisher never calls
  `SetCrossDomain`; the call at segment_publisher.cpp:45 is commented
  out. Every Origin therefore gets `*`.

## Bounds and why they are enough

- **Two workers.** One worker can sit between its two steps while the
  other worker and the housekeeping thread run.
- **Two IPs.** A token can be replayed from another address, and one IP's
  entries sit between another's in the multimap.
- **One session id.** Every token names it, so all grace paths meet on
  one entry.
- **`ExpireAfter = 1`, `MaxSessionAge = 1`, `SweepPeriod = 1`.** Each
  window can be open, closing or closed when a sweep or request comes.
- **`MaxSeq = 3`, `MaxEntries = 2`.** A session can continue twice, by 1
  or by 2.
- **NAL units of 2–4 bytes.** Every unit has a header byte plus one
  payload byte, as x264 writes them. Four bytes is enough to hold
  `00 00 X`, the longest zero run that emulation prevention allows inside
  a unit.
- **Four packets through the chain.** They allow the following:
  - one frame can be in the decoder's queue, the filter's thread and the
    encoder's thread while another is queued behind one of them;
  - a refused frame can be put back in front of a newer one;
  - the stream can send while the thread drains.
- **Two requests per connection.** Two is the least for keep-alive,
  pipelining and re-binding. Every cut of the stream into reads is
  enumerated.
- **CORS.** There is one configured host, so entries can duplicate each
  other (`example.com` and `http://example.com`). The four origin hosts
  are the host, a subdomain, and the two look-alikes. Lists hold up to
  two entries, so `*` can follow another entry and duplicates can occur.

- **WebRTC.** Two tracks of seven kinds give every pair of a media or
  non-media kind before another, so a skipped codec or a data track can
  sit before or after an offered one, and two video tracks share one
  m-line. The fmtp variants (H.264 without usable extradata, Opus mono)
  change no type, m-line or packetizer and are left out of the kinds.
  The `sprop-parameter-sets` check runs over every extradata of up to
  two SPSs and two PPSs drawn from byte strings of 1 to 5 bytes. Their
  lengths cover every remainder modulo 3, so every padding case of a
  base64 quantum occurs. A short SPS can only appear after the first
  one. The extradata also includes empty lists, which `Start` does not
  find usable.
  `MaxVp8Frames = 32769` is one frame past the `uint16_t` wrap of the
  picture id. The payload-type constants are defined outside `src/`; the
  cfg takes 100, 120 and 121, with the dynamic range below RED and ULPFEC.

## Fairness

Weak fairness is assumed on these steps:
- A worker's second step (`UpdatePlaylistRequestInfo`,
  `OnSessionConnected`). The handler is running and holds no lock the
  others keep.
- The housekeeping steps. Its `while (_run_thread)` loop never blocks
  except in `sleep(3)`.
- `Tick`, because time passes.
- Each stage thread's steps. A stage thread blocks only in
  `_queue_event.Wait()`, and `Dequeue` is enabled only when a token is
  there.
- The second half of a call the stream thread is in: the `Notify` after
  `SendBuffer`, and the `join` of `Stop`.

Clients and the stream thread owe nothing else: no fairness is assumed on
requests, on sending frames or on calling `Stop`. The HTTP, CORS and WebRTC
models have no liveness property. Runs whose system can really stop say
`CHECK_DEADLOCK FALSE`, each with a comment in its cfg:
- after both joins;
- after a connection is gone;
- after a publisher's `Start` failed.

## Not modelled (yet)

- `ParseRequestUrl`. `ov::String::Split` is outside `src/`, so
  `SegmentCors` abstracts a target to crossdomain, unparsable or stream.
- `HttpServer::RemoveInterceptor`, `FindClient(iterator)` and
  `DisconnectIf`. Nothing in `src/` calls them.
- The unlocked `_interceptor_list.clear()` in `HttpServer::Stop`. It is
  a data race with no outcome to enumerate.
- The codec-specific decoders' `RecvBuffer` (outside `src/`; `Decode`
  models it from spec 4.2), the decoder base's `ShowCodecParameters`
  (formatting) and the VP8 `MakePacket`. VP8's thread loop is the AVC
  one, line for line.
- The RTP packetizers themselves, `Stream::Start` and the stream's
  worker threads, all outside `src/`. The model takes the stream's
  calls one at a time; which threads make them is decided there.
- NACK, the RTMP provider lifecycle and `PullingItem`. NACK and
  `PullingItem` are accessors; the protocol that uses them is outside
  `src/`. The RTMP provider only forwards to `PushProvider`, which is
  also outside `src/`. Its own hazards are listed in `PROJECT.json`: a
  `Stop` without a null check, and a listener left behind after a failed
  `Start`. A model could only show these as defects. They have no
  property.
- Zero-length SPSs or PPSs in `sprop-parameter-sets`. `Encode` of empty
  data is `""`, and `Decode("")` is nullptr. Only the first SPS's length
  is checked. Whether the extradata parser, which is outside `src/`,
  produces zero-length sets is unknown. The run's extradata are
  therefore non-empty, and the hazard is listed without a property.
- The retry loops of `Base64`. `BIO_write` and `BIO_read` on a memory
  BIO never ask for a retry.

`PROJECT.json` lists each of these with its status.
