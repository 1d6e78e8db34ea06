# P2PLive-FFmpegClient in TLA+

This directory specifies the peer-to-peer live streaming that this fork adds to
FFmpeg. A viewer plays a stream from a CDN (WHEP) at once, looks for a peer that
relays the same stream over WebRTC, measures the candidates, moves to the best
one, and goes back to the CDN if that peer fails. While it plays, a viewer can
relay what it receives to others.

    StreamSwitch   <---- selected_node, p2p_connect_ready ----   P2PReceiver  --+
    (player's read thread)                                       (connect thread,   |
      |  implements    |  reads the CDN through                   web socket,       |
    PlayableOutput   WhipSession (WHEP)                           callbacks)        |
                                                                                P2PSession
    OutputThreads  ---- init, header, packets, deinit ---->      P2PSender          |
    (player's read, video and main                               (muxer's thread, --+
     threads, through mux.c)                                      web sockets,
                                                                  callbacks)

`P2PSession` composes `P2PReceiver` and `P2PSender` over the signalling server's
queues and the network, and implements `StreamAgreement`.

## 1. Inventory

All paths are under `src/libavformat/` unless they say otherwise.

| Part | Source | State | Operations | Model |
|---|---|---|---|---|
| Choice of source | `p2p_rtp_demux.c` (header, packet, scans, commit) | `sw`, `cdn_*`, error count, output indices | read_header, read_packet, close | `StreamSwitch` |
| Connecting to a sender | `p2p_rtp_demux.c` (connect thread, signal handler), `p2p_probe.c` | `current_state`, nodes, metrics, `selected_node` | state loop, messages, callbacks | `P2PReceiver` |
| Relaying to a receiver | `p2p_rtp_mux.c` | `current_state` with mutex and condition, nodes, tracks, `selected_node` | init, header, packet, trailer, deinit, messages | `P2PSender` |
| Peer connections | `p2p_pc.c` | node status, callbacks | create, init, state callback, track callback | partly, in both and in `P2PSession` |
| Tracks, data channels | `p2p_dc.c` | `PeerConnectionTrack` | make send track, make probe channel | partly, in `P2PSender` |
| Probing and scores | `p2p_probe.c` | `network_quality` | init, request, packet, complete, select | partly, in `P2PReceiver` and `P2PSession` |
| Node and track lists | `p2p.c`, `p2p.h` | linked lists | append, find, remove | functions of the id |
| Messages | `p2p_signal.c` | none | send, decode | `P2PSession` (types and order) |
| Web socket | `p2p_ws.c` | `web_socket_connected` | open, close, message | partly |
| WHIP, WHEP | `webrtc*.c` | HTTP resource, connection, tracks | init, header, trailer, read_header, read_close, deinit | `WhipSession` |
| Player output | `src/fftools/ffplay.c`, `mux.c` | `OutputState`, muxing queue, stamps | copy, encode, write header, flush, close | `OutputThreads` |
| RTP queue and repair | `rtpdec.c` | reorder queue | insert, consume, repair | no |
| The rest of FFmpeg | everything else | | | not this project's logic |

How the parts interact:

* The read thread (the player) and the connect thread share `selected_node` and
  `p2p_connect_ready`; nothing else of the switch is shared.
* The web socket's thread calls the signal handler, one message after the other;
  the peer connections' threads call the state and track callbacks. All of them,
  and the connect thread or the muxer's thread, read and write `current_state`.
  The sender protects it with `state_mutex`, the receiver with nothing. Node
  lists, node status and `selected_node` are protected on neither side.
* `state_cond` carries the sender's progress to `p2p_rtp_muxer_init`, which waits
  for STREAMING with a deadline.
* The player copies or encodes what it plays into the relay's muxer. Its read
  thread and its video thread both call `avformat_write_header` and
  `av_interleaved_write_frame`; only the second takes the output's mutex.
* The CDN source is the WHEP demuxer, an inner context of `p2pdemuxer`.
* Sender and receiver meet only through messages (connect request, offer, answer,
  candidate, probe request, stream request, stream ready) and the connection.

What is hard: three kinds of thread per side without a common lock; a wait that
does not own its mutex; a switch of source that is prepared in one call and
committed in another; partial failures (a track, an allocation, a CDN stream)
after which the operation is repeated; timeouts that race the event they wait
for; connections that go down between measuring and choosing. `PROJECT.json`
lists each hazard at its line.

What makes each part correct:

* switch: the decoder is never handed a frame it cannot decode, the source in use
  can be read, a dead peer is left and a good one is reached;
* receiver: a node exists wherever the state says so, only probed nodes are used,
  the connect thread ends;
* sender: media goes only to those who asked, a selected receiver has its tracks
  (it has, unless a track that failed was freed and left in its node), init ends,
  and a receiver that was missed is found by the next attempt;
* session: what either end believes of the other is so: a viewer that streams was
  accepted, a viewer that is fed wants it, whoever is accepted was probed;
* output: the muxer is initialised and torn down in pairs, gets each stream's
  packets in order, and gets them without undue delay (with two writers and no
  lock, or after a header that failed, it does not);
* WHIP and WHEP: nothing is left on the server or in the process without a cause.

## 2. Modules

| Module | What it is |
|---|---|
| `PlayableOutput` | abstract: frames come in runs, each starts at a keyframe and has no hole |
| `StreamSwitch` | `p2p_rtp_read_header`, `read_packet`, `close` |
| `StreamSwitchProofs` | its theorems |
| `P2PSender`, `MCP2PSender` | `p2p_rtp_mux.c`; constants for TLC |
| `P2PSenderProofs` | its theorems |
| `P2PReceiver`, `MCP2PReceiver` | the connecting half of `p2p_rtp_demux.c`; symmetry for TLC |
| `P2PReceiverProofs` | its theorems |
| `P2PSession`, `MCP2PSession` | the two of them, the server and the connection between |
| `StreamAgreement` | abstract: what relay and viewer promise each other |
| `P2PSessionProofs` | its theorems; that it implements both components, and `StreamAgreement` |
| `OutputThreads` | ffplay's output and the part of mux.c it goes through |
| `OutputThreadsProofs` | its theorems |
| `WhipSession` | `webrtc.c`, `webrtc_mux.c`, `webrtc_demux.c` |
| `WhipSessionProofs` | its theorems |

Definitions named "Mutant" in their comment are deliberate defects, used to see
that a property would notice them; no specification contains them.

### StreamSwitch

`pc` is the read thread's place. A call to `read_packet` is "call" (first
commit), "branch" (on `active_source`), and then "upgrade" or "fallback" and
"commit". The cuts are where the call uses `selected_node` or
`p2p_connect_ready`, so that `SelectNode` and `ConnectReady`, the connect
thread's writes, fall in between. `pending_switch` stands for both the enum and
its "none"; `output_video_stream_index` says which source's stream it names. A
frame is its kind: an IDR with parameter sets, which `has_keyframe_info` accepts;
a packet that only has the key flag; a delta frame; audio. The two scan loops
read up to `VideoGop` packets; `ScanFinds` and `ScanMisses` are their outcomes. How
`scan_h264_nals` recognises a keyframe is not modelled, only what depends on it.
`CreateCdnStreams` includes the half-finished case, in which an allocation fails
and the inner demuxer stays open. `CommitSwitch` changes the source first, and
`CommitLosesPacket` is the `av_packet_ref` that fails after it.

The environment (`link`, `gap`) decides what reads give: a "good" source never
fails, a "dead" one always does, a "flaky" one may; a source that delivers has a
usable keyframe at least every `KeyInterval` packets. History: `ref` is the source
whose next frame the decoder could take; `out` is the last call's result;
`keyLost` records the failed reference.

Time stamps, the repair metadata and codec parameters are left out: no branch of
the switch depends on them.

### P2PSender

`step` and `target` are each thread's place in `set_sender_state`: `LockAndTest`,
`Store` with its broadcast, and `Unlock`. The mutex is to keep these together.
`after` is what a signal handler still does after that call returns, for the
handlers in which something follows (register callbacks, send probe packets,
select the node). The muxer's thread goes through `main`; it holds the mutex too,
in `get_state_thread_safe` (`CheckState`, `WritePacket`) and on its way out of the
wait (`WaitTimesOut`, `Woken`). Each of these takes it, looks at the state
(`MainLocks`), and leaves the unlock to the same `Unlock` as everybody's, so that
others run in between. `WritePacket` only looks at the state; the node is read
after that unlock, by `FeedNode`. `rtc` is the connection itself, outside this code.

A track is "none", "live" or "freed": `init_send_track_ex` may fail before it sets
the node's pointer, or after, and then its caller frees the track. `Failures` says
which of the two a run allows.

`p2p_rtp_muxer_init` calls `pthread_cond_timedwait` without owning the mutex
(line 182), which POSIX leaves undefined. With a default mutex, the wait unlocks
it without asking who owns it, and an unlock does not ask either: `WaitForReceiver`
and `Unlock` leave it free whoever holds it by then.

`p2p_close_resource` has an empty body, so `Deinit` closes nothing. The player
writes the header again with its next packet after a failure (`Retry`); the
muxer's context survives with its state, nodes and sockets, while the mutex is
made anew.

### P2PReceiver

`p2p_set_receiver_state` tests and stores without a lock: `storing` is what a
thread is about to store. The connect thread's loop is in `conn`: "loop" is the
outer loop (left when `wait_timeout` has passed), "probing" the inner one (30 s
from the last store of PROBING), "stuck" the loop that is entered when no probe
request could be sent, "ready" and "failed" the function's return values.
`fresh` are connections whose status is set and whose `on_pc_connected_callback`
has not run yet. `flight` are the probe packets still under way; packets may be
lost, since none has to arrive. A node's score is known as zero or positive, and
which positive one is the best is left open.

The branch for a single node's probe timeout is left out: PROBE_TIMEOUT_MS is
5000 * 1000 ms, so the phase's 30 s always come first.

### P2PSession

One relay and one viewer, each a full instance of its module with all its
threads. What those modules take as given (any message at any time, any
connection change, any probe packet) is now an action of the other end, of the
server or of the network. A message is its type string. `Send` is
`p2p_send_signal_message`, `Take` the decoding at the other end, where every
unknown string, among them the trailer's `stream_end`, becomes an error. The
server is not in this repository: it delivers in order, reports the joined room,
tells either end to connect, and may report errors (`FromServer`). A connection
comes up only when both ends were described, each end notices it on its own, and
either may lose it. Probe packets (`wire`) may be lost. Messages that the relay
refuses are consumed without an effect (`SenderRefuses`); the viewer gets no
answer to them. `answered` is history.

`StreamAgreement` says what all this amounts to: six facts (probed, chosen, asked,
accepted, fed, playing), each of which may become true only after the one it
depends on, one at a time, and none of which is taken back except playing.
`Agreement` maps them to the session: `chosen` is the viewer's `selected_node`,
`accepted` the relay's acceptance of the request, `playing` the viewer's STREAMING
or its connect thread's success.

Candidates are left out, and so are the messages that the handlers ignore.

### OutputThreads

`call` is each thread's place in the writing of one packet: the check of
`header_written`, `avformat_write_header` in four steps (reading `initialized`,
init, the muxer's header, setting `header_written`), and
`av_interleaved_write_frame` in four (the stamp check, the queue, taking a packet
from the queue, handing that packet to the muxer). `held` is the packet between
the last two, which another thread may overtake.
The read thread copies both streams. When a packet announces new parameters it
opens an encoder, and from then on the video thread writes the video. The video
thread and the main thread take the output's mutex; the read thread does not,
and the other two are never active together, so that the mutex excludes nothing
and is no variable. `do_exit` waits for both threads, flushes the encoder, writes
a header if there is none yet, the trailer, and frees the context.

`init_muxer` adds each stream to `nb_interleaved_streams` (mux.c:334) and may fail
before the first, between the two, or after both; nothing resets the count
(`StartHeader`, `Count`). `Complete` and `MayFlush` compare it with the streams that
wait. `av_interleaved_write_frame` takes the packet over and
leaves a blank one, so `Queue` clears the caller's stamp and `Return` finds none.
The header and each packet may fail in the muxer.

Simplified: the model starts from a completed `output_init_from_input`, with two
streams; one time base, a duration of 1, pts follows dts; operations on the
queue's list are atomic, except that two insertions at once may lose a packet; two
threads that take the same packet, and free it twice, are not followed further;
which stream's packet leaves first is left open. `overlapped` and `raced` are
history: two threads have been in the queue, or in `avformat_write_header`, at once.

### WhipSession

One session, as the WHIP muxer in the hands of mux.c or as the WHEP demuxer;
`role` is chosen at the start. `place` follows init (connection, tracks), the
header (local description, POST, answer, wait or inner demuxers), the trailer or
close (DELETE) and deinit; each step may fail. The connection's state changes at
any time on its own thread; the header's wait reads it twice per round
(`HeaderLooks`, `HeaderWaits`), and it may change in between. `resource` is what
exists on the server; if the reply to the POST is lost it may exist without the
client knowing. `location` is the client's copy of its URL; the result of
`av_opt_get` is ignored (line 189), so that a session may go on without it. `tracks`
are the track ids and contexts, `inner` the SDP demuxers and inputs that
`whep_read_header` opens for them. `wantsToken` is a server that asks for the bearer
token in every request. Freeing the uninitialised `headers` after a failure before
line 157 of webrtc.c may end the process ("dead"). `excuse` and `deletes` are history.

## 3. Runs

| Run | Instance | Shows |
|---|---|---|
| `switch_safety` | GOP 2, limit 1, interval 3, allocations fail | `TypeOK`, `DecodableOutput`, `PendingConsistent`, `ActiveSourceReadable`, and that `StreamSwitch` implements `PlayableOutput` |
| `switch_live` | the same, no allocation fails, fair | a dead peer is left for a working CDN; a working peer is reached and kept |
| `switch_cdn_first` | as `switch_live` | **violated**: without a source a CDN that is ready is not chosen |
| `sender_receivers` | 2 receivers, 1 socket, 1 stream | `TypeOK`, `MediaOnlyToAskers` |
| `sender_tracks` | 1 receiver, 1 socket, 2 streams, tracks fail and leave none, fair | `SelectedTracksLive`, `InitReturns`, `RetryReachesReceiver` |
| `sender_streaming_noticed` | 1 receiver, 1 socket, 1 stream | **violated**: the wake-up is lost and init times out in STREAMING |
| `receiver_safety` | 2 senders, 1 probe packet | `TypeOK`, `RequestHasNode`, `SelectedWasProbed` |
| `receiver_live` | 1 sender, 2 probe packets, fair | `ConnectThreadReturns` |
| `session_agreement` | 1 socket, 1 stream, 1 probe packet, 2 messages per queue, 2 disturbances | `TypeOK`, `StreamingIsAgreed`, `MediaIsWanted`, `AcceptedWasProbed`, and that a session implements `StreamAgreement` |
| `output_relay` | stamps -1..2, 4 streams counted, 2 packets per stream | `TypeOK`, `MuxerIntact`, `NothingHeldBack`, `WritesIncrease` |
| `output_order` | stamps -1..2, 2 counted, 2 packets per stream | **violated**: a later packet overtakes the one before it on its way to the muxer |
| `whip_life` | both roles, both servers, fair | `TypeOK`, `OrphanHasACause`, `SourceFreesTracks`, `HeaderReturns` |

A violated run states what a comment or message of the code says; `PROJECT.json`
quotes it. All other runs pass. Deadlock is checked in the runs of the single
components. It is not in the other three: a session stops when both ends have
given up or the bounds on messages and disturbances are used up, an output when
it is closed or its bounds are reached, and a WHIP session when it is gone.

Bounds. `VideoGop` = 2 and `KeyInterval` = 3 make scans that find a keyframe at
once, after a dropped packet, and not at all. (The code uses
`P2P_DEFAULT_VIDEO_GOP` and `P2P_WAITING_SENDER_TIMEOUT_SEC`, which this commit
defines nowhere; the model takes any positive GOP and leaves time abstract.)
`TransportErrorLimit` = 1 (100 in the code) gives one tolerated failure, one that
is too many, and the reset in between. Two receivers are what it takes for one to
be selected while another asks, connects or goes down. A second web
socket, which a retry opens, is left to the proofs, which hold for any number of
them. Two streams are what it
takes for a track to be missing behind one that is there. Two senders allow a
probed and an unprobed, an up and a down node at the same time; `receiver_live`
uses two packets, so that a probe can be answered in part (the safety properties
are proved for every number of packets). The error count saturates one above its limit:
the code only compares it with the limit. The invariants do not depend on the
bounds, as the proofs show. Receivers and senders are symmetric in the safety
runs; the liveness runs use no symmetry.

In `P2PSession`, `QueueBound` = 2 lets a message wait behind another, such as an
error behind STREAM_READY or a second request behind the first. `EventBound` = 2
counts what the environment does (server's messages, lost connections, timeouts,
restarts); the relay's connect request is enough for a whole session, which leaves
one disturbance at any point of it. In
`OutputThreads`, `MaxDts` = 2 gives stamps below, at and above 0 (0 is special in
mux.c) and two positive ones in order; `MaxCounted` = 4 one header that fails after
counting both streams, or is written twice at once; `MaxQueue` = 2 a packet that waits behind another. The
theorems hold for every value of these.

Fairness.

* `StreamSwitch`: the read thread goes on (`WF(ReadThread)`). ffplay's read loop
  calls again after a packet as well as after EAGAIN. The network, the connect
  thread and close are unconstrained; the liveness properties name what they need
  of them ("from some point on the CDN works").
* `P2PSender`: a thread inside the code goes on, the deadline passes, and a failed
  header is tried again, because packets keep coming to the player's output.
  Messages and connections may stop for ever. Each thread has its own condition,
  so a thread that wants the mutex may starve if others take it again and again;
  `InitReturns` therefore assumes that those calls end.
* `P2PReceiver`: threads inside the code go on and time passes. `RequestFails` is
  not fair: sends may always succeed. Messages, connections and probe packets may
  all stop.
* `WhipSession`: the muxer's thread goes on while it waits, and time passes.
  Nothing else is fair: HTTP requests have no deadline, and the connection may
  stop changing or go on for ever.
* What "eventually" costs in time is not said. A silent peer blocks each
  `av_read_frame` up to the inner demuxer's timeout, where the model's dead link
  fails at once, and it takes more than 100 failures to fall back
  (`FallsBackToCdn`).
* `P2PSession` and `OutputThreads` have no liveness property and no fairness.

## 4. Proofs

All theorems hold for every value of the constants that satisfies the named
assumption of the module (`SwitchAssumption`, `SenderAssumption`,
`ReceiverAssumption`, `SessionAssumption`, `OutputAssumption`: positive bounds, a
non-empty sequence of streams, names that do not clash; `WhipSession` has no
constants). TLC evaluates the assumptions on every run.

**StreamSwitch.** `TypeCorrect`, `OutputDecodable`, `PendingPacketConsistent`,
`SourceReadable`, `Refinement`. The inductive invariant `IInv` adds to the checked
properties:

* `ControlInv`: what each place in the handlers implies, e.g. that nothing is
  cached while a branch runs, and that a call that is not on the CDN holds only an
  error code;
* `PendingUsable`: the source of a cached packet is open or has a node, which
  makes the commit safe although it checks nothing;
* `InSync` and `HeldDecodable`: while a source is in use and its frames pass the
  gate, either the decoder has that source's last frame or the call in progress
  holds the one that comes next. This is the heart of the argument: the upgrade
  reads a CDN packet, scans the peer, and then returns one or the other.

`Refinement` maps `playing` to `ref`, except while a call holds a CDN frame that
continues the run; every step is then a delivery, a skip or a stutter.

**P2PSender.** `TypeCorrect`, `TracksOfSelected`, `MediaToAskers`,
`LockSuffices`. The invariant follows a receiver from its connect request to its
packets: the probe channel is made last (`ProbeComesLast`), so that a stream request
that finds it finds all tracks; a handler about to select, and a selected node, have
it and were accepted (`SelectionReady`, `SelectedReady`); whoever writes has a
receiver (`WriterHasReceiver`). No part mentions the mutex: these properties survive
its misuse. That a track is there is not yet that it is alive: `TracksOfSelected`
assumes that no failure leaves a freed one ("freed" not in `Failures`), and needs
`NoTrackFreed` besides. Without the assumption it is false (section 5).

`LockSuffices` says what the misuse of the mutex costs. Suppose that init never
enters its wait, and does not make the mutex anew, while a thread holds it
(`WaitSparesHolder`). Then the regions under the mutex exclude each other on all
threads, the muxer's own included, and the state only moves forward. The invariant
is `Owned`: whoever is inside holds the mutex, and a state about to be stored is
still ahead. The code breaks the supposition, and both conclusions fail (section 5).

**P2PReceiver.** `TypeCorrect`, `NodeOfRequest`, `ProbedBeforeSelected`. The state
is not monotonic, so `RequestHasNode` needs `StoreHasNode`: a thread that is about
to store REQUESTING_STREAM or STREAMING already has a node, and `selected_node`
is never cleared. `SelectedWasProbed` needs `PacketsWereAskedFor`: a positive
score means packets, and packets come from nodes that were sent a request.

**P2PSession.** `SenderImplemented` and `ReceiverImplemented` show that every step
of a session is a step, or a stutter, of each component. `RelayKept`,
`RelayTracksKept` (under the assumption of `TracksOfSelected`) and `ViewerKept` therefore take over the theorems of `P2PSenderProofs` and
`P2PReceiverProofs` as they are, by instantiating those modules with the session's
variables; `SameSender` and `SameReceiver` identify the two instances of each
component. `TypeCorrect` adds the queues, the wire and the counts.
`StreamingAgreed`, `MediaWanted` and `AcceptedProbed` follow
from a chain of facts, one for each place where the request can be: probe packets
on the wire, counted, or turned into a selection come from the relay
(`ProbeInv`); a stream request in the queue or accepted comes from a viewer that
has selected the relay (`RequestInv`); STREAM_READY in the queue, the store of
STREAMING that a thread is about to make, and the state itself come from an
acceptance (`ReadyInv`); who is fed was accepted (`RelayInv`). The queues are the
reason for the strengthening: each fact must be known while it is under way.

`AgreementImplemented` shows step by step that a session carries out
`StreamAgreement`. A step moves one end only (`OneMoves`); the relay accepts or
feeds in separate steps (`RelayMoves`); the viewer chooses, asks and changes what
it plays in separate steps (`ViewerMoves`). The invariant supplies each step's
condition: `ProbeInv` that of Choose, `RequestInv` that of Accept, `RelayInv` that
of Feed and `ReadyInv`, after the step, that of Play. That nothing is taken back is
in the shape of the steps: the viewer's state moves backwards and its metrics are
wiped, but neither touches the six facts.

**OutputThreads.** `TypeCorrect`, `NeverTracked`, `MuxerKept`, `QueueDrained`,
`StampsInOrder`, `CopiesInOrder`, `RetrySendsNothing`. The invariant consists of

* `Turns`: which threads may be active together, and that no stream has packets of
  two threads at once before they are queued. This is what holds without the lock;
* `Stamped`: a packet keeps its stamp until it is queued, and `last_dts` is never
  set. Type correctness needs it (a corrected stamp could exceed the bound), and
  it is the theorem `NeverTracked`;
* `Unattempted`, `Draining`: before `init_muxer` has counted both streams nothing is
  queued, and packets of both streams wait only while some thread is handing out;
* `Header`: without a race one thread at a time is in `avformat_write_header`;
* `Ordered`, `Accepted`: positive stamps increase from what has left the queue
  (`Gone`: at the muxer, or in the hands of any thread) through the queue to
  `cur_dts`, and one that passed the check but is not queued yet is above all of
  them. This holds of the queue whoever takes from it;
* `Alone`: a thread that has had the queue to itself holds a stamp above the
  muxer's last one.

The order in which two threads hand over what they have taken is not ensured
(`output_order`). `StampsInOrder` is therefore about a thread that was alone since
the queue was last left by all, which covers the change from copying to encoding
and every run of one thread, and `CopiesInOrder` about everything that happens
before there is an encoder.

`RetrySendsNothing` turns the observation on a failed header (section 5) into a fact
about every run: once a header has failed after counting a stream, and as long as no two threads race in
`avformat_write_header`, no packet reaches the muxer before the trailer. It
needs `BehindHeader` besides the invariant: nobody writes packets before
`header_written`, so that nothing can have been sent before the failure.

**WhipSession.** `TypeCorrect`, `OrphanExplained`, `SourceFreed`,
`SinkKeepsTracks`. The invariant follows the resource and the tracks through the
places of a session:

* `NothingYet` and `Held`: no resource is known before the reply to the POST, and
  from the reply to the DELETE it exists and is not being deleted. `deletes` stays
  below 2 for this reason;
* `Named`: a session that goes on without a location has an excuse;
* `Accounted`: whoever comes to deinit while the resource is there has an excuse
  or lacks the token, so that `OrphanHasACause` is decided before
  `resource_location` is forgotten (`Forgotten`). A session that succeeded and ended
  is what this is about; that each failure after the POST does leave the resource
  is an observation (section 5);
* `Counted`: the tracks that a WHEP source has made are always counted, also half
  way, so that deinit frees them. What their inner demuxers have opened it does not
  close (section 5). `Uncounted` is the opposite for WHIP, from which
  `SinkKeepsTracks` follows: no step of a WHIP session frees a track.

Only model-checked: the liveness properties (`FallsBackToCdn`, `UpgradesToP2P`,
`InitReturns`, `RetryReachesReceiver`, `ConnectThreadReturns`, `HeaderReturns`), which need
fairness and are out of the prover's reach, and the violated runs. Every invariant,
action property and refinement that a passing run checks is also proved
(`SelectedTracksLive` under the assumption that its run makes, `Failures = {"none"}`).

## 5. Observations

Met while modelling and confirmed with TLC on these modules, without a run of
their own (the formula that is violated is given):

* The wait that does not own the mutex lets two threads interleave inside
  `set_sender_state`, and the state moves backwards, although mux line 65 calls
  mutex and condition the "状态变化同步机制" (state change synchronisation mechanism)
  (`P2PSender`: `StateOnlyAdvances`; mux line 182). `LockSuffices` shows that the
  wait and the repeated init are all that is wrong.
* STREAMING is stored before the node is selected, so init can return and
  `write_header` fail without a node
  (`P2PSender`: `main = "inited" => selected_node # None`; mux line 598).
  `RetryReachesReceiver` shows that the next attempt repairs this.
* A second receiver's request leaves two nodes with status Selected
  (`P2PSender`, two receivers; mux line 599).
* After a failed `av_packet_ref` in the commit the new source starts in the middle
  of a group of pictures (`StreamSwitch`: `out.pkt.kind = "delta" =>
  out.pkt.chained`; demux line 1057). `DecodableOutput` excuses exactly this.
* `select_best_node` can select a node that is down (`P2PReceiver`:
  `[][selected_node' # selected_node => selected_node' \in Available]_vars`;
  probe line 274).
* A viewer can ask two relays for the stream: a connection that comes up can set its
  state back, and the second selection may find another node best. Nothing tells
  the first relay (`P2PReceiver`, two senders: `Cardinality(requested) <= 1`; demux
  lines 390, 405).
* A sender that connects after the probe requests went out is never probed (demux
  line 405).
* The relay accepts a stream request from any receiver whose status is Connected,
  probed or not, although the comment at mux line 576 says "检查探测是否完成" (check
  that probing is complete): in `P2PSender`, `asked` grows without a
  `SendProbePackets`. `AcceptedWasProbed` shows that this fork's own viewer never
  makes use of it.
* A track that could not be made is freed but stays in the node; the next connect
  request takes it for made, and the check at mux line 583 ("检查tracks是否已经准备好":
  check that the tracks are ready) accepts it (`P2PSender` with
  `Failures = {"none", "freed"}`: `SelectedTracksLive`; mux line 417, p2p_dc.c:199).
* Threads are inside `set_sender_state` after deinit has destroyed its mutex,
  because `p2p_close_resource` closes nothing (`P2PSender`:
  `main \in {"torn", "closed"} => \A t \in Thread : step[t] = "idle"`; mux line 272).
* The loop that is entered when no probe request could be sent says "500ms等待后重试"
  (retry after 500 ms) and sends nothing (`P2PReceiver`:
  `conn = "stuck" ~> conn # "stuck"`; demux line 630).
* A stream request that the relay refuses is not answered. The viewer waits for
  STREAM_READY until its own timeout (mux line 577).
* The trailer's `stream_end` is an error to the viewer (`p2p_string_to_message_type`).
* A relay whose first header timed out (`RetryReachesReceiver`) writes its header in
  the end, but with two streams its receiver gets no media before the trailer
  (`OutputThreads`: `~failed /\ (\A t \in Thread : call[t] = "idle") => Waiting #
  Stream`; mux.c:334). The theorem `RetrySendsNothing` states it for every run.
* Two threads can be in `avformat_write_header` at once if the video's parameters
  change before the header is written (`OutputThreads`: `~raced`; ffplay.c:749).
  Both initialise the muxer, and closing tears down one initialisation, although
  mux.h:114 says "Any allocations made here must be freed in deinit()"
  (`main = "closed" => open = 0`).
* `nb_interleaved_streams`, the "Number of streams relevant for interleaving"
  (internal.h:77), is 4 after a header that was retried, with two streams
  (`OutputThreads`: `header_written /\ ~raced => nb_interleaved_streams = 2`; mux.c:334).
* `output_write_packet_copy` means to "Ensure DTS/PTS exist and are monotonic"
  (ffplay.c:733), but remembers the stamp of the packet after
  `av_interleaved_write_frame` has blanked it (line 754). No stamp is ever corrected,
  as the theorem `NeverTracked` shows, and mux.c refuses one that goes back
  (`OutputThreads`: `call["read"] = "stamp" => ~Refused(pkt["read"])`).
* After a packet stamped 0, mux.c accepts one stamped -1 (`OutputThreads`:
  `[][\A s \in Stream : out[s] # NoDts /\ out'[s] # out[s] => out'[s] > out[s]]_vars`;
  mux.c:567).
* `output_prepare_video_encoder` changes the stream's time base after the header
  was written, and a failed allocation in `output_init_from_input` leaves an
  enabled output half made (ffplay.c:815, 673; not modelled).
* A WHIP or WHEP connection whose callback cannot be set is deleted twice
  (`WhipSession`: `place = "deinit" => pc # "stale"`; webrtc.c:339 and 393).
* WHIP never sets `nb_tracks`, so that `webrtc_deinit` frees none of its tracks
  (`WhipSession`: `place = "gone" => ~tracks`; webrtc.c:382). The theorem
  `SinkKeepsTracks` shows that no path frees them.
* The DELETE's Authorization header is built and never sent (webrtc.c:226).
* `webrtc_create_resource` ignores `av_opt_get`'s result; without a location the
  DELETE is not sent (`WhipSession`: `place = "running" => location`; webrtc.c:189).
* A header that fails after the POST leaves the resource on the server: deinit frees
  the location that was to be saved "for later use" (webrtc.c:188) without a DELETE
  (`WhipSession`: `[][location /\ ~location' => deletes' > deletes]_vars`;
  webrtc.c:396).
* `webrtc_deinit` frees the contexts of a WHEP session's inner demuxers, which
  avformat.h:2018 says "must be closed with avformat_close_input()", and leaves what
  they and their inputs have opened (`WhipSession`: `place = "gone" => ~inner`;
  webrtc.c:384).
* p2p_rtp_close frees what the detached connect thread uses, and a connect request
  whose target is not its sender dereferences null (demux lines 224, 460; not
  modelled).

## 6. Not modelled

This repository is a fork of FFmpeg: 1.6 million lines, of which about 6000 are
its own. The models cover the control of those; they cover next to nothing of the
whole, and cannot cover more of it: codecs, filters, file formats and tools are
sequential media processing, not this system, and the state they keep is data.

* Media processing: RTP packets, codec parameters, `scan_h264_nals`, time bases.
* JSON fields other than a message's type, HTTP itself, the WebRTC library and its
  threads' internals, SDP texts.
* `on_pc_track_callback` (p2p_pc.c:467): its test for the medium is true for every
  text, so that all tracks are video; the switch reads one stream of a peer, which
  is what `StreamSwitch` models.
* Node and track lists (`p2p.c`): the models use functions of the id. The lists are
  not locked; a lookup on one thread during an append on another finds the node or
  does not, which the interleaving of the actions covers.
* The node's score (`calculate_node_score`): floating point, of which only "zero or
  positive" matters to the protocol.
* `p2p_rtp_close` against the connect thread, and the start of that thread before
  the signalling server is initialised: undefined behaviour from the first step on.
* The reorder queue of `rtpdec.c`: upstream code; the repair that this fork adds is
  never called (line 1090).
* The web socket's open, close and error callbacks, which set a flag that only
  `p2p_init_signal_server`'s loop reads.
* More than one relay in a session: `P2PReceiver` is proved for any number of
  senders and `P2PSender` for any number of receivers. With several relays a viewer
  may choose and ask a second one (section 5), so that "chosen" of `StreamAgreement`
  would have to be allowed to move from one relay to another.
