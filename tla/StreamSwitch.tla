---------------------------- MODULE StreamSwitch ----------------------------
(***************************************************************************)
(* The viewer's demuxer p2pdemuxer: how p2p_rtp_read_header and            *)
(* p2p_rtp_read_packet choose between the CDN (an inner WHEP demuxer) and  *)
(* the selected peer, and when they change from one to the other.          *)
(*                                                                         *)
(* The player's read thread runs the handlers; `pc` is where it is.  A     *)
(* call is cut where it uses state that the connect thread writes          *)
(* (selected_node, p2p_connect_ready).  What the two network streams       *)
(* deliver is chosen by the environment: a frame is known by its kind, and *)
(* a source that works has a usable keyframe every KeyInterval packets.    *)
(*                                                                         *)
(* Three history variables say what the player's decoder sees: `ref` is    *)
(* the source whose latest video frame is the last one it was given,       *)
(* `out` what the last call returned, `keyLost` whether a cached keyframe  *)
(* was lost because av_packet_ref failed in the commit.                    *)
(***************************************************************************)
EXTENDS Integers

CONSTANTS
  VideoGop,            \* P2P_DEFAULT_VIDEO_GOP: packets one keyframe scan reads
  TransportErrorLimit, \* failed P2P reads in a row tolerated (100 in the code)
  KeyInterval,         \* a working source has a usable keyframe this often
  AllocMayFail         \* can av_packet_ref and avformat_new_stream fail?

ASSUME SwitchAssumption ==
  /\ VideoGop \in Nat \ {0}
  /\ TransportErrorLimit \in Nat
  /\ KeyInterval \in Nat \ {0}
  /\ AllocMayFail \in BOOLEAN

VARIABLES
  pc,                         \* the read thread's place in the demuxer
  active_source,              \* sw.active_source
  pending_switch,             \* sw.pending_switch, as the source to switch to
  pending_pkt_valid,          \* sw.pending_pkt_valid
  pending_pkt_from,           \* sw.pending_pkt_from
  pending_pkt_out,            \* sw.pending_pkt_out_stream_index
  cdn_active,
  cdn_started,                \* the CDN's keyframe gate has opened
  cdn_open,                   \* cdn_fmt_ctx # NULL
  cdn_streams,                \* media whose cdn_*_stream_index is set
  output_video_stream_index,  \* whose stream it names: "none", "cdn", "p2p"
  p2p_transport_error_times,  \* saturates one above the limit
  selected_node,              \* is a node selected?  (connect thread)
  p2p_connect_ready,          \* (connect thread)
  pkt,                        \* what the call in progress would return
  link,                       \* environment: how each source's reads go
  gap,                        \* environment: packets since a usable keyframe
  ref, out, keyLost           \* history, see above

swVars  == <<active_source, pending_switch, cdn_active>>
pendVars == <<pending_pkt_valid, pending_pkt_from, pending_pkt_out>>
cdnVars == <<cdn_started, cdn_open, cdn_streams>>
p2pVars == <<selected_node, p2p_connect_ready>>
vars == <<pc, swVars, pendVars, cdnVars, output_video_stream_index,
          p2p_transport_error_times, p2pVars, pkt, link, gap, ref, out, keyLost>>

Source == {"cdn", "p2p"}
None   == "none"
Media  == {"video", "audio"}

(***************************************************************************)
(* "idr" passes has_keyframe_info (an IDR with its parameter sets), "key"  *)
(* only carries AV_PKT_FLAG_KEY, "delta" needs the frames before it.       *)
(***************************************************************************)
Kind   == {"idr", "key", "delta", "audio"}
IsKey(k) == k \in {"idr", "key"}

\* The packet a call holds, or its error code in place of one; `chained` says
\* that the frame before it in its source was the last one delivered.
Packet == [kind : Kind \cup {"again", "error", "blank"}, chained : BOOLEAN]
Result(k) == [kind |-> k, chained |-> FALSE]
Failed(p) == p.kind \in {"again", "error"}

TypeOK ==
  /\ pc \in {"header", "headerScan", "call", "branch", "upgrade", "fallback",
             "commit", "closed"}
  /\ active_source \in Source \cup {None}
  /\ pending_switch \in Source \cup {None}
  /\ pending_pkt_valid \in BOOLEAN
  /\ pending_pkt_from \in Source \cup {None}
  /\ pending_pkt_out \in Source \cup {None}
  /\ cdn_active \in BOOLEAN
  /\ cdn_started \in BOOLEAN
  /\ cdn_open \in BOOLEAN
  /\ cdn_streams \in SUBSET Media
  /\ output_video_stream_index \in Source \cup {None}
  /\ p2p_transport_error_times \in 0..(TransportErrorLimit + 1)
  /\ selected_node \in BOOLEAN
  /\ p2p_connect_ready \in BOOLEAN
  /\ pkt \in Packet
  /\ link \in [Source -> {"good", "flaky", "dead"}]
  /\ gap \in [Source -> 0..(KeyInterval - 1)]
  /\ ref \in Source \cup {None}
  /\ out \in [src : Source \cup {None}, pkt : Packet]
  /\ keyLost \in BOOLEAN

Init ==
  /\ pc = "header"
  /\ active_source = None /\ pending_switch = None /\ cdn_active = FALSE
  /\ pending_pkt_valid = FALSE /\ pending_pkt_from = None /\ pending_pkt_out = None
  /\ cdn_started = FALSE /\ cdn_open = FALSE /\ cdn_streams = {}
  /\ output_video_stream_index = None
  /\ p2p_transport_error_times = 0
  /\ selected_node = FALSE /\ p2p_connect_ready = FALSE
  /\ pkt = Result("again")
  /\ link \in [Source -> {"good", "flaky", "dead"}]
  /\ gap = [s \in Source |-> 0]
  /\ ref = None /\ out = [src |-> None, pkt |-> Result("again")] /\ keyLost = FALSE

-----------------------------------------------------------------------------
(* The two network streams, and the decoder's view of what is returned.     *)

ReadFails(s) == link[s] # "good"

\* av_read_frame on source s returns a frame of kind k.
FrameArrives(s, k) ==
  /\ link[s] # "dead"
  /\ k # "idr" => gap[s] + 1 < KeyInterval
  /\ gap' = [gap EXCEPT ![s] = IF k = "idr" THEN 0 ELSE @ + 1]

\* A frame of s has been read and is not (yet) given to the decoder.
RefAfterRead(s, k) == IF ref = s /\ k # "audio" THEN None ELSE ref

\* The frame p of source s is given to the decoder; r is ref before that.
RefAfterDelivery(s, p, r) ==
  IF p.kind = "audio" THEN r
  ELSE IF IsKey(p.kind) \/ p.chained THEN s ELSE None

Chained(s, k) == k # "audio" /\ ref = s

(***************************************************************************)
(* The scan loop shared by try_prepare_switch_to_p2p and _to_cdn: it reads *)
(* at most VideoGop packets, drops all but a usable keyframe, and caches   *)
(* that one.  Caching may fail, and then the scan goes on.                 *)
(***************************************************************************)
ScanFinds(s) ==
  \E n \in 1..VideoGop :
    /\ link[s] # "dead"
    /\ gap[s] + n <= KeyInterval
    /\ gap' = [gap EXCEPT ![s] = 0]
    /\ ref' = RefAfterRead(s, "idr")

ScanMisses(s) ==
  \E n \in 0..VideoGop :
    /\ n < VideoGop => ReadFails(s)
    /\ n > 0 => link[s] # "dead"
    /\ \/ /\ gap[s] + n < KeyInterval
          /\ gap' = [gap EXCEPT ![s] = @ + n]
       \/ /\ AllocMayFail
          /\ \E g \in 0..(n - 1) :
               g < KeyInterval /\ gap' = [gap EXCEPT ![s] = g]
    /\ ref' = IF n > 0 THEN RefAfterRead(s, "idr") ELSE ref

\* The output stream made for s; create_cdn_streams may have made none for video.
VideoStream(s) == IF s = "cdn" /\ "video" \notin cdn_streams THEN None ELSE s

\* try_prepare_switch_to_p2p and try_prepare_switch_to_cdn past their guards;
\* sw is the value of pending_switch at the call.  A keyframe that is already
\* cached for s is kept.
TryPrepareSwitch(s, sw) ==
  \/ /\ sw = s /\ pending_pkt_valid
     /\ pending_switch' = sw
     /\ UNCHANGED <<pendVars, output_video_stream_index, gap, ref>>
  \/ /\ ~(sw = s /\ pending_pkt_valid)
     /\ ScanFinds(s)
     /\ output_video_stream_index' =
          IF output_video_stream_index = None THEN VideoStream(s)
          ELSE output_video_stream_index
     /\ pending_pkt_valid' = TRUE
     /\ pending_pkt_from' = s
     /\ pending_pkt_out' = output_video_stream_index'
     /\ pending_switch' = s
  \/ /\ ~(sw = s /\ pending_pkt_valid)
     /\ ScanMisses(s)
     /\ pending_switch' = sw
     /\ UNCHANGED <<pendVars, output_video_stream_index>>

Prepared(s) == pending_pkt_valid /\ pending_switch = s

(***************************************************************************)
(* create_cdn_streams past its first test: the WHEP demuxer, which offers  *)
(* one video and one audio stream, is opened (`ok`), cannot be opened, or  *)
(* is open with only some of its streams mirrored because an allocation    *)
(* failed half way.                                                        *)
(***************************************************************************)
CreateCdnStreams(ok) ==
  \/ /\ ok
     /\ link["cdn"] # "dead"
     /\ cdn_open' = TRUE
     /\ cdn_streams' = Media
     /\ output_video_stream_index' =
          IF output_video_stream_index = None THEN "cdn" ELSE output_video_stream_index
  \/ /\ ~ok
     /\ link["cdn"] # "good"
     /\ UNCHANGED <<cdn_open, cdn_streams, output_video_stream_index>>
  \/ /\ ~ok
     /\ AllocMayFail /\ link["cdn"] # "dead"
     /\ cdn_open' = TRUE
     /\ \E made \in SUBSET Media :
          /\ cdn_streams' = made
          /\ output_video_stream_index' =
               IF output_video_stream_index = None /\ "video" \in made
               THEN "cdn" ELSE output_video_stream_index

-----------------------------------------------------------------------------
(* p2p_rtp_read_header                                                      *)

ReadHeader ==
  /\ pc = "header"
  /\ \E ok \in BOOLEAN :
       /\ CreateCdnStreams(ok)
       /\ pc' = IF ok THEN "headerScan" ELSE "call"
  /\ UNCHANGED <<swVars, pendVars, cdn_started, p2p_transport_error_times, p2pVars,
                 pkt, link, gap, ref, out, keyLost>>

ReadHeaderPrepare ==
  /\ pc = "headerScan"
  /\ TryPrepareSwitch("cdn", pending_switch)
  /\ cdn_active' = IF Prepared("cdn")' THEN TRUE ELSE cdn_active
  /\ active_source' = IF Prepared("cdn")' THEN "cdn" ELSE active_source
  /\ pc' = "call"
  /\ UNCHANGED <<cdnVars, p2p_transport_error_times, p2pVars, pkt, link, out, keyLost>>

-----------------------------------------------------------------------------
(* p2p_rtp_read_packet                                                      *)

\* The call returns p, read from source s, to the player.
ReturnPacket(s, p, r) ==
  /\ out' = [src |-> IF Failed(p) THEN None ELSE s, pkt |-> p]
  /\ ref' = IF p.kind \in Kind THEN RefAfterDelivery(s, p, r) ELSE r
  /\ pc' = "call"
  /\ pkt' = Result("again")

\* Mutants: the commit keeps the cached packet; it does not keep cdn_active in
\* step; it does not switch.
CommitKeepsPacket ==
  /\ pending_pkt_valid
  /\ active_source' = IF pending_switch = None THEN active_source ELSE pending_switch
  /\ pending_switch' = None
  /\ cdn_active' = (active_source' = "cdn")
  /\ UNCHANGED pendVars
CommitKeepsCdnActive ==
  /\ pending_pkt_valid
  /\ active_source' = IF pending_switch = None THEN active_source ELSE pending_switch
  /\ pending_switch' = None
  /\ pending_pkt_valid' = FALSE
  /\ UNCHANGED <<cdn_active, pending_pkt_from, pending_pkt_out>>
CommitStays ==
  /\ pending_pkt_valid
  /\ pending_switch' = None
  /\ pending_pkt_valid' = FALSE
  /\ UNCHANGED <<active_source, cdn_active, pending_pkt_from, pending_pkt_out>>

(***************************************************************************)
(* commit_pending_switch_if_ready with a cached packet: the switch is made *)
(* first; giving the packet to the caller may still fail.                  *)
(***************************************************************************)
CommitSwitch ==
  /\ pending_pkt_valid
  /\ active_source' = IF pending_switch = None THEN active_source ELSE pending_switch
  /\ pending_switch' = None
  /\ cdn_active' = (active_source' = "cdn")
  /\ pending_pkt_valid' = FALSE
  /\ UNCHANGED <<pending_pkt_from, pending_pkt_out>>

CommitDelivers ==
  /\ CommitSwitch
  /\ ReturnPacket(pending_pkt_from, Result("idr"), ref)
  /\ UNCHANGED keyLost

CommitLosesPacket ==
  /\ CommitSwitch
  /\ AllocMayFail
  /\ keyLost' = TRUE

ReadPacket ==
  /\ pc = "call"
  /\ \/ CommitDelivers
     \/ /\ CommitLosesPacket
        /\ pc' = "branch"
        /\ UNCHANGED <<pkt, out, ref>>
     \/ /\ ~pending_pkt_valid
        /\ pc' = "branch"
        /\ UNCHANGED <<swVars, pendVars, pkt, out, ref, keyLost>>
  /\ UNCHANGED <<cdnVars, output_video_stream_index, p2p_transport_error_times,
                 p2pVars, link, gap>>

P2PUsable == p2p_connect_ready /\ selected_node

\* Mutant: a usable peer becomes the source without waiting for a keyframe.
ReadWithoutSourceJumps ==
  /\ pc = "branch" /\ active_source = None
  /\ active_source' = IF P2PUsable THEN "p2p" ELSE None
  /\ out' = [src |-> None, pkt |-> Result("again")]
  /\ pc' = "call"
  /\ UNCHANGED <<pending_switch, pendVars, output_video_stream_index, gap, ref, cdn_active,
                 cdnVars, p2p_transport_error_times, p2pVars, pkt, link, keyLost>>

\* active_source == ACTIVE_NONE: whatever the scan finds is for the next call.
ReadWithoutSource ==
  /\ pc = "branch" /\ active_source = None
  /\ \/ /\ P2PUsable
        /\ TryPrepareSwitch("p2p", pending_switch)
     \/ /\ ~P2PUsable
        /\ UNCHANGED <<pending_switch, pendVars, output_video_stream_index, gap, ref>>
  /\ out' = [src |-> None, pkt |-> Result("again")]
  /\ pc' = "call"
  /\ UNCHANGED <<active_source, cdn_active, cdnVars, p2p_transport_error_times,
                 p2pVars, pkt, link, keyLost>>

\* Is this frame dropped by read_one_from_cdn?
HasOutputStream(k) ==
  IF k = "audio" THEN "audio" \in cdn_streams ELSE output_video_stream_index # None
GateApplies(k) ==
  ~cdn_started /\ k # "audio" /\ output_video_stream_index = "cdn" /\ "video" \in cdn_streams

\* Mutant: cdn_started is set before the frame is seen to be a keyframe.
CdnStartedTooEarly(k) == cdn_started \/ GateApplies(k)
CdnStartedAfter(k) == cdn_started \/ (GateApplies(k) /\ IsKey(k))

ReadOneFromCdn ==
  \/ /\ ~cdn_active \/ ~cdn_open
     /\ pkt' = Result("again")
     /\ UNCHANGED <<cdn_started, gap, ref>>
  \/ /\ cdn_active /\ cdn_open /\ ReadFails("cdn")
     /\ pkt' \in {Result("again"), Result("error")}
     /\ UNCHANGED <<cdn_started, gap, ref>>
  \/ /\ cdn_active /\ cdn_open
     /\ \E k \in Kind :
          /\ FrameArrives("cdn", k)
          /\ ref' = RefAfterRead("cdn", k)
          /\ cdn_started' = CdnStartedAfter(k)
          /\ pkt' = IF HasOutputStream(k) /\ (GateApplies(k) => IsKey(k))
                    THEN [kind |-> k, chained |-> Chained("cdn", k)]
                    ELSE Result("again")

\* active_source == ACTIVE_CDN: the packet is read before the peer is looked at.
ReadFromCdn ==
  /\ pc = "branch" /\ active_source = "cdn"
  /\ ReadOneFromCdn
  /\ pc' = "upgrade"
  /\ UNCHANGED <<swVars, pendVars, cdn_open, cdn_streams, output_video_stream_index,
                 p2p_transport_error_times, p2pVars, link, out, keyLost>>

UpgradeToP2P ==
  /\ pc = "upgrade"
  /\ \/ /\ P2PUsable
        /\ TryPrepareSwitch("p2p", "p2p")
        /\ pc' = "commit"
        /\ UNCHANGED <<pkt, out>>
     \/ /\ ~P2PUsable
        /\ ReturnPacket("cdn", pkt, ref)
        /\ UNCHANGED <<pending_switch, pendVars, output_video_stream_index, gap>>
  /\ UNCHANGED <<active_source, cdn_active, cdnVars, p2p_transport_error_times,
                 p2pVars, link, keyLost>>

\* active_source == ACTIVE_P2P: read_one_from_p2p succeeds.
ReadFromP2P ==
  /\ pc = "branch" /\ active_source = "p2p"
  /\ \E k \in Kind \ {"audio"} :
       /\ FrameArrives("p2p", k)
       /\ ReturnPacket("p2p", [kind |-> k, chained |-> Chained("p2p", k)],
                       RefAfterRead("p2p", k))
  /\ p2p_transport_error_times' = 0
  /\ UNCHANGED <<swVars, pendVars, cdnVars, output_video_stream_index, p2pVars,
                 link, keyLost>>

\* Mutants: the count is not bounded; it starts again at the limit.
Unsaturated(n) == n
WrapsAtLimit(n) == IF n > TransportErrorLimit THEN 0 ELSE n
Saturated(n) == IF n > TransportErrorLimit THEN TransportErrorLimit + 1 ELSE n

\* ... or fails once more, and past the limit the CDN is opened if it is not.
ReadFromP2PFails ==
  /\ pc = "branch" /\ active_source = "p2p"
  /\ ReadFails("p2p")
  /\ p2p_transport_error_times' = Saturated(p2p_transport_error_times + 1)
  /\ \E code \in {"again", "error"} :
       IF p2p_transport_error_times' > TransportErrorLimit
       THEN /\ pending_switch' = "cdn"
            /\ \/ /\ cdn_open
                  /\ UNCHANGED <<cdn_open, cdn_streams, output_video_stream_index>>
               \/ /\ ~cdn_open
                  /\ \E ok \in BOOLEAN : CreateCdnStreams(ok)
            /\ IF cdn_open'
               THEN /\ pc' = "fallback"
                    /\ pkt' = Result(code)
                    /\ UNCHANGED <<out, ref>>
               ELSE ReturnPacket("p2p", Result(code), ref)
       ELSE /\ ReturnPacket("p2p", Result(code), ref)
            /\ UNCHANGED <<pending_switch, cdn_open, cdn_streams,
                           output_video_stream_index>>
  /\ UNCHANGED <<active_source, cdn_active, pendVars, cdn_started, p2pVars,
                 link, gap, keyLost>>

FallBackToCdn ==
  /\ pc = "fallback"
  /\ TryPrepareSwitch("cdn", pending_switch)
  /\ pc' = "commit"
  /\ UNCHANGED <<active_source, cdn_active, cdnVars, p2p_transport_error_times,
                 p2pVars, pkt, link, out, keyLost>>

(***************************************************************************)
(* The second commit of a call.  Without a cached packet the call returns  *)
(* what it held; a failed commit has already emptied that packet.          *)
(***************************************************************************)
CommitAndReturn ==
  /\ pc = "commit"
  /\ \/ CommitDelivers
     \/ /\ CommitLosesPacket
        /\ ReturnPacket(active_source,
                        IF Failed(pkt) THEN pkt ELSE Result("blank"), ref)
     \/ /\ ~pending_pkt_valid
        /\ ReturnPacket(active_source, pkt, ref)
        /\ UNCHANGED <<swVars, pendVars, keyLost>>
  /\ UNCHANGED <<cdnVars, output_video_stream_index, p2p_transport_error_times,
                 p2pVars, link, gap>>

\* p2p_rtp_close, called between two reads.  active_source keeps its value.
Close ==
  /\ pc = "call"
  /\ pc' = "closed"
  /\ cdn_open' = FALSE
  /\ pending_pkt_valid' = FALSE
  /\ UNCHANGED <<swVars, pending_pkt_from, pending_pkt_out, cdn_started, cdn_streams,
                 output_video_stream_index, p2p_transport_error_times, p2pVars, pkt,
                 link, gap, ref, out, keyLost>>

-----------------------------------------------------------------------------
(* The connect thread, as far as the read thread sees it, and the network.  *)

\* p2p_pending_for_probing_node selects the best node ...
SelectNode ==
  /\ ~selected_node
  /\ selected_node' = TRUE
  /\ UNCHANGED <<pc, swVars, pendVars, cdnVars, output_video_stream_index,
                 p2p_transport_error_times, p2p_connect_ready, pkt, link, gap,
                 ref, out, keyLost>>

\* ... and p2p_connect_thread_fn reports that it reached STREAMING.
ConnectReady ==
  /\ selected_node /\ ~p2p_connect_ready
  /\ p2p_connect_ready' = TRUE
  /\ UNCHANGED <<pc, swVars, pendVars, cdnVars, output_video_stream_index,
                 p2p_transport_error_times, selected_node, pkt, link, gap,
                 ref, out, keyLost>>

LinkChanges ==
  /\ \E s \in Source, h \in {"good", "flaky", "dead"} : link' = [link EXCEPT ![s] = h]
  /\ UNCHANGED <<pc, swVars, pendVars, cdnVars, output_video_stream_index,
                 p2p_transport_error_times, p2pVars, pkt, gap, ref, out, keyLost>>

ReadThread ==
  \/ ReadHeader \/ ReadHeaderPrepare \/ ReadPacket \/ ReadWithoutSource
  \/ ReadFromCdn \/ UpgradeToP2P \/ ReadFromP2P \/ ReadFromP2PFails
  \/ FallBackToCdn \/ CommitAndReturn

Next == ReadThread \/ Close \/ SelectNode \/ ConnectReady \/ LinkChanges

Spec == Init /\ [][Next]_vars

(***************************************************************************)
(* The player's read loop calls the demuxer again as soon as it returns.   *)
(* Nothing is assumed of the connect thread, of Close or of the network.   *)
(***************************************************************************)
FairSpec == Spec /\ WF_vars(ReadThread)

-----------------------------------------------------------------------------
(***************************************************************************)
(* What the decoder is given can be decoded: a delta frame is returned     *)
(* only right after the frame that precedes it in the same source, so that *)
(* neither a switch nor a frame dropped by a scan or by the CDN's keyframe *)
(* gate ever leaves a hole.  The one excuse is a keyframe lost in          *)
(* commit_pending_switch_if_ready for want of memory.                      *)
(***************************************************************************)
DecodableOutput ==
  out.pkt.kind = "delta" => out.pkt.chained \/ keyLost

(***************************************************************************)
(* A cached packet always comes from the source that the commit will       *)
(* activate, and has a stream to go to: read_packet changes pending_switch *)
(* in two places before it scans, and commit_pending_switch_if_ready       *)
(* neither compares pending_pkt_from with it nor checks the index it uses. *)
(***************************************************************************)
PendingConsistent ==
  pending_pkt_valid => /\ pending_pkt_from = pending_switch
                       /\ pending_pkt_from # None
                       /\ pending_pkt_out # None

(***************************************************************************)
(* The source in use can be read: cdn_active repeats active_source and the *)
(* inner demuxer is open while it is the source; and while the peer is the *)
(* source there is a selected node to dereference and an output stream     *)
(* whose time base can be read (read_one_from_p2p checks neither).         *)
(***************************************************************************)
ActiveSourceReadable ==
  /\ cdn_active <=> active_source = "cdn"
  /\ active_source = "cdn" /\ pc # "closed" => cdn_open
  /\ active_source = "p2p" =>
       p2p_connect_ready /\ selected_node /\ output_video_stream_index # None

(***************************************************************************)
(* The demuxer implements PlayableOutput.  A CDN frame that has been read  *)
(* and is still held while the call looks at the peer does not end the run *)
(* that it continues.                                                      *)
(***************************************************************************)
Playable == INSTANCE PlayableOutput WITH
              playing <- IF pkt.chained THEN "cdn" ELSE ref,
              out     <- [src |-> out.src, kind |-> out.pkt.kind],
              intact  <- ~keyLost
ImplementsPlayableOutput == Playable!Spec

(***************************************************************************)
(* When the peer is gone for good and the CDN works, the demuxer does not  *)
(* stay with the peer: the error count of p2p_rtp_read_packet gets past    *)
(* its limit and the fallback finds a CDN keyframe.                        *)
(***************************************************************************)
FallsBackToCdn ==
  <>[](pc # "closed" /\ link["p2p"] = "dead" /\ link["cdn"] = "good")
    => <>[](active_source # "p2p")

(***************************************************************************)
(* Once the connect thread has reported a streaming peer whose reads work, *)
(* the demuxer ends up on it for good, from the CDN as well as from no     *)
(* source at all.                                                          *)
(***************************************************************************)
UpgradesToP2P ==
  <>[](pc # "closed" /\ link["p2p"] = "good" /\ P2PUsable)
    => <>[](active_source = "p2p")

(***************************************************************************)
(* The comment in p2p_rtp_read_packet: without a source, the CDN is chosen *)
(* first if it is ready.  So a working CDN does not leave the viewer       *)
(* without a source forever.                                               *)
(***************************************************************************)
ReadyCdnIsChosen ==
  <>[](pc # "closed" /\ link["cdn"] = "good" /\ cdn_open) => <>[](active_source # None)
=============================================================================
