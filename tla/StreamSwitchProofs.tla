------------------------- MODULE StreamSwitchProofs -------------------------
(***************************************************************************)
(* Proofs about StreamSwitch for every value of its constants: its type    *)
(* invariant, its safety invariants, and that it implements                *)
(* PlayableOutput.                                                         *)
(***************************************************************************)
EXTENDS StreamSwitch, TLAPS

\* Where a packet is cached, and what each place in the handlers implies.
PendingPlace == pending_pkt_valid => pc \in {"call", "commit"}

ControlInv ==
  /\ pc \in {"header", "headerScan"} =>
       active_source = None /\ ~cdn_started /\ ref = None
  /\ pc = "header" => output_video_stream_index = None /\ ~cdn_open
  /\ pc = "headerScan" =>
       output_video_stream_index = "cdn" /\ cdn_open /\ "video" \in cdn_streams
  /\ PendingPlace
  /\ pc = "upgrade" => active_source = "cdn"
  /\ pc = "fallback" => active_source = "p2p" /\ cdn_open
  /\ pc = "commit" => active_source # None
  /\ pc \in {"header", "headerScan", "call", "branch", "closed"} => pkt = Result("again")
  /\ active_source # "cdn" => Failed(pkt) /\ ~pkt.chained
  /\ active_source # None => output_video_stream_index # None

\* A cached packet can be committed: its source is usable.
PendingUsable ==
  pending_pkt_valid => /\ output_video_stream_index # None
                       /\ pending_switch = "p2p" => P2PUsable
                       /\ pending_switch = "cdn" => cdn_open

\* The CDN's frames reach the decoder without the keyframe gate.
Ungated ==
  cdn_started \/ output_video_stream_index # "cdn" \/ "video" \notin cdn_streams

\* The decoder can continue with the next frame of the source in use.
InSync ==
  ~keyLost =>
    /\ active_source = "p2p" => ref = "p2p"
    /\ active_source = "cdn" /\ Ungated =>
         ref = "cdn" \/ pkt.chained \/ IsKey(pkt.kind)

\* The frame that a call holds can be given to the decoder.
HeldDecodable ==
  /\ pkt.kind = "delta" => pkt.chained \/ keyLost
  /\ pkt.chained => ref = None /\ active_source = "cdn" /\ pkt.kind \in Kind \ {"audio"}
  /\ pkt.kind \in {"idr", "key", "delta"} => ref # "cdn"

IInv ==
  /\ TypeOK
  /\ PendingConsistent
  /\ ActiveSourceReadable
  /\ ControlInv
  /\ PendingUsable
  /\ InSync
  /\ HeldDecodable
  /\ DecodableOutput

-----------------------------------------------------------------------------
(* Typing of the steps' shared parts.                                       *)

\* What a scan for a keyframe may change keeps its type.
LEMMA ScanType ==
  ASSUME TypeOK, NEW s \in Source, ScanFinds(s) \/ ScanMisses(s)
  PROVE  /\ gap' \in [Source -> 0..(KeyInterval - 1)]
         /\ ref' \in {ref, None}
         /\ ref # s => ref' = ref
<1>1. CASE ScanFinds(s)
  BY <1>1, SwitchAssumption DEF ScanFinds, TypeOK, RefAfterRead, Source, None
<1>2. CASE ScanMisses(s)
  <2>1. PICK n \in 0..VideoGop :
          /\ \/ /\ gap[s] + n < KeyInterval
                /\ gap' = [gap EXCEPT ![s] = @ + n]
             \/ \E g \in 0..(n - 1) : g < KeyInterval /\ gap' = [gap EXCEPT ![s] = g]
          /\ ref' = IF n > 0 THEN RefAfterRead(s, "idr") ELSE ref
    BY <1>2 DEF ScanMisses
  <2>2. gap' \in [Source -> 0..(KeyInterval - 1)]
    BY <2>1, SwitchAssumption DEF TypeOK
  <2> QED
    BY <2>1, <2>2 DEF RefAfterRead
<1> QED
  BY <1>1, <1>2

\* What a scan caches, and what it leaves alone.
LEMMA PrepareEffect ==
  ASSUME TypeOK, NEW s \in Source, NEW sw \in Source \cup {None},
         ~pending_pkt_valid, TryPrepareSwitch(s, sw)
  PROVE  /\ gap' \in [Source -> 0..(KeyInterval - 1)]
         /\ ref' \in {ref, None}
         /\ ref # s => ref' = ref
         /\ pending_pkt_valid' \in BOOLEAN
         /\ pending_pkt_from' \in Source \cup {None}
         /\ pending_pkt_out' \in Source \cup {None}
         /\ pending_switch' \in {sw, s}
         /\ output_video_stream_index' \in {output_video_stream_index, s}
         /\ output_video_stream_index # None =>
              output_video_stream_index' = output_video_stream_index
         /\ pending_pkt_valid' => pending_switch' = s /\ pending_pkt_from' = s
         /\ pending_pkt_valid' /\ (output_video_stream_index # None \/ s = "p2p") =>
              /\ pending_pkt_out' # None
              /\ output_video_stream_index' # None
<1>1. CASE /\ ScanFinds(s)
           /\ output_video_stream_index' =
                IF output_video_stream_index = None THEN VideoStream(s)
                ELSE output_video_stream_index
           /\ pending_pkt_valid' = TRUE
           /\ pending_pkt_from' = s
           /\ pending_pkt_out' = output_video_stream_index'
           /\ pending_switch' = s
  BY <1>1, ScanType DEF TypeOK, VideoStream, Source, None
<1>2. CASE /\ ScanMisses(s)
           /\ pending_switch' = sw
           /\ UNCHANGED <<pendVars, output_video_stream_index>>
  BY <1>2, ScanType DEF TypeOK, pendVars
<1> QED
  BY <1>1, <1>2 DEF TryPrepareSwitch

\* A returned packet leaves the decoder's reference and `out` typed.
LEMMA ReturnType ==
  ASSUME NEW s \in Source \cup {None}, NEW p \in Packet, NEW r \in Source \cup {None},
         ReturnPacket(s, p, r)
  PROVE  /\ pc' = "call"
         /\ pkt' = Result("again")
         /\ out' \in [src : Source \cup {None}, pkt : Packet]
         /\ out'.pkt = p
         /\ ref' \in {s, r, None}
BY DEF ReturnPacket, RefAfterDelivery, Result, Packet, Kind, Source, None

\* Opening the CDN: what is set, and that a set output stream stays.
LEMMA CreateType ==
  ASSUME TypeOK, NEW ok \in BOOLEAN, CreateCdnStreams(ok)
  PROVE  /\ cdn_open' \in BOOLEAN
         /\ cdn_open => cdn_open'
         /\ cdn_streams' \in SUBSET Media
         /\ output_video_stream_index' \in {output_video_stream_index, "cdn"}
         /\ output_video_stream_index # None =>
              output_video_stream_index' = output_video_stream_index
         /\ ok => /\ cdn_open'
                  /\ cdn_streams' = Media
                  /\ output_video_stream_index = None => output_video_stream_index' = "cdn"
BY DEF CreateCdnStreams, TypeOK, Source, None

\* The codes and frames the model returns are packets.
LEMMA PacketType ==
  /\ \A c \in Kind \cup {"again", "error", "blank"} : Result(c) \in Packet
  /\ \A k \in Kind, b \in BOOLEAN : [kind |-> k, chained |-> b] \in Packet
BY DEF Result, Packet

\* Commit activates the pending source.
LEMMA CommitType ==
  ASSUME TypeOK, CommitSwitch
  PROVE  /\ active_source' \in Source \cup {None}
         /\ pending_switch' = None
         /\ cdn_active' \in BOOLEAN
         /\ pending_pkt_valid' \in BOOLEAN
         /\ ~pending_pkt_valid'
         /\ pending_pkt_from' \in Source \cup {None}
         /\ pending_pkt_out' \in Source \cup {None}
BY DEF CommitSwitch, TypeOK

\* Delivering the cached keyframe ends the call.
LEMMA DeliverType ==
  ASSUME TypeOK, CommitDelivers
  PROVE  /\ pc' = "call"
         /\ pkt' \in Packet
         /\ out' \in [src : Source \cup {None}, pkt : Packet]
         /\ ref' \in Source \cup {None}
<1>1. ReturnPacket(pending_pkt_from, Result("idr"), ref)
  BY DEF CommitDelivers
<1>2. Result("idr") \in Packet /\ Result("again") \in Packet
  BY PacketType DEF Kind
<1> QED
  BY <1>1, <1>2, ReturnType DEF TypeOK

\* A frame that arrives keeps the keyframe distance of its source in bounds.
LEMMA FrameType ==
  ASSUME TypeOK, NEW s \in Source, NEW k \in Kind, FrameArrives(s, k)
  PROVE  gap' \in [Source -> 0..(KeyInterval - 1)]
BY SwitchAssumption DEF FrameArrives, TypeOK

-----------------------------------------------------------------------------
\* Every step of the demuxer keeps the types: one step per action.
LEMMA TypeStep == TypeOK /\ PendingPlace /\ [Next]_vars => TypeOK'
<1> SUFFICES ASSUME TypeOK, PendingPlace PROVE [Next]_vars => TypeOK'
  OBVIOUS
<1>1. ASSUME ReadHeader PROVE TypeOK'
  <2>1. PICK ok \in BOOLEAN : CreateCdnStreams(ok) /\ pc' = IF ok THEN "headerScan" ELSE "call"
    BY <1>1 DEF ReadHeader
  <2> QED
    BY <1>1, <2>1, CreateType
    DEF ReadHeader, TypeOK, swVars, pendVars, p2pVars, Source, None
<1>2. ASSUME ReadHeaderPrepare PROVE TypeOK'
  <2>1. cdn_active' \in BOOLEAN
    BY <1>2 DEF ReadHeaderPrepare, TypeOK
  <2>2. ~pending_pkt_valid /\ TryPrepareSwitch("cdn", pending_switch)
    BY <1>2 DEF ReadHeaderPrepare, PendingPlace
  <2>3. active_source' \in Source \cup {None} /\ pc' = "call"
    BY <1>2 DEF ReadHeaderPrepare, TypeOK, Source
  <2>4. UNCHANGED <<cdnVars, p2p_transport_error_times, p2pVars, pkt, link, out, keyLost>>
    BY <1>2 DEF ReadHeaderPrepare
  <2> QED
    BY <2>1, <2>2, <2>3, <2>4, PrepareEffect DEF TypeOK, cdnVars, p2pVars, Source, None
<1>3. ASSUME ReadPacket PROVE TypeOK'
  <2>1. /\ pc' \in {"call", "branch"}
        /\ pkt' \in Packet
        /\ out' \in [src : Source \cup {None}, pkt : Packet]
        /\ ref' \in Source \cup {None}
    <3>1. CASE CommitDelivers
      BY <3>1, DeliverType
    <3>2. CASE ~CommitDelivers
      BY <1>3, <3>2 DEF ReadPacket, TypeOK
    <3> QED
      BY <3>1, <3>2
  <2>2. keyLost' \in BOOLEAN
    BY <1>3 DEF ReadPacket, CommitDelivers, CommitLosesPacket, TypeOK
  <2>3. /\ active_source' \in Source \cup {None}
        /\ pending_switch' \in Source \cup {None}
        /\ cdn_active' \in BOOLEAN
        /\ pending_pkt_valid' \in BOOLEAN
        /\ pending_pkt_from' \in Source \cup {None}
        /\ pending_pkt_out' \in Source \cup {None}
    BY <1>3, CommitType
    DEF ReadPacket, CommitDelivers, CommitLosesPacket, TypeOK, swVars, pendVars
  <2> QED
    BY <1>3, <2>1, <2>2, <2>3 DEF ReadPacket, TypeOK, cdnVars, p2pVars
<1>4. ASSUME ReadWithoutSource PROVE TypeOK'
  BY <1>4, PrepareEffect, PacketType
  DEF ReadWithoutSource, TypeOK, PendingPlace, swVars, pendVars, cdnVars, p2pVars, Source, None
<1>5. ASSUME ReadFromCdn PROVE TypeOK'
  <2>1. cdn_started' \in BOOLEAN
    BY <1>5 DEF ReadFromCdn, ReadOneFromCdn, CdnStartedAfter, TypeOK
  <2>2. /\ pkt' \in Packet
        /\ gap' \in [Source -> 0..(KeyInterval - 1)]
        /\ ref' \in {ref, None}
    <3>1. CASE \E k \in Kind :
                 /\ FrameArrives("cdn", k)
                 /\ ref' = RefAfterRead("cdn", k)
                 /\ pkt' \in {[kind |-> k, chained |-> Chained("cdn", k)], Result("again")}
      <4>1. PICK k \in Kind :
              /\ FrameArrives("cdn", k)
              /\ ref' = RefAfterRead("cdn", k)
              /\ pkt' \in {[kind |-> k, chained |-> Chained("cdn", k)], Result("again")}
        BY <3>1
      <4>2. gap' \in [Source -> 0..(KeyInterval - 1)]
        BY <4>1, FrameType DEF Source
      <4>3. ref' \in {ref, None}
        BY <4>1 DEF RefAfterRead
      <4>4. pkt' \in Packet
        BY <4>1, PacketType DEF Chained
      <4> QED
        BY <4>2, <4>3, <4>4
    <3>2. CASE pkt' \in {Result("again"), Result("error")} /\ UNCHANGED <<gap, ref>>
      BY <3>2, PacketType DEF TypeOK
    <3> QED
      BY <1>5, <3>1, <3>2 DEF ReadFromCdn, ReadOneFromCdn
  <2> QED
    BY <1>5, <2>1, <2>2 DEF ReadFromCdn, TypeOK, swVars, pendVars, p2pVars, None
<1>6. ASSUME UpgradeToP2P PROVE TypeOK'
  <2>1. CASE P2PUsable
    BY <1>6, <2>1, PrepareEffect
    DEF UpgradeToP2P, TypeOK, PendingPlace, cdnVars, p2pVars, Source, None
  <2>2. CASE ~P2PUsable
    BY <1>6, <2>2, ReturnType, PacketType
    DEF UpgradeToP2P, TypeOK, pendVars, cdnVars, p2pVars, Source, None
  <2> QED
    BY <2>1, <2>2
<1>7. ASSUME ReadFromP2P PROVE TypeOK'
  <2>1. PICK k \in Kind \ {"audio"} :
          /\ FrameArrives("p2p", k)
          /\ ReturnPacket("p2p", [kind |-> k, chained |-> Chained("p2p", k)],
                          RefAfterRead("p2p", k))
    BY <1>7 DEF ReadFromP2P
  <2>2. Chained("p2p", k) \in BOOLEAN /\ RefAfterRead("p2p", k) \in Source \cup {None}
    BY DEF Chained, RefAfterRead, TypeOK
  <2>3. /\ pc' = "call"
        /\ pkt' = Result("again")
        /\ out' \in [src : Source \cup {None}, pkt : Packet]
        /\ ref' \in Source \cup {None}
    BY <2>1, <2>2, ReturnType, PacketType DEF Source
  <2>4. gap' \in [Source -> 0..(KeyInterval - 1)]
    BY <2>1, FrameType DEF Source
  <2> QED
    BY <1>7, <2>3, <2>4, PacketType, SwitchAssumption
    DEF ReadFromP2P, TypeOK, swVars, pendVars, cdnVars, p2pVars
<1>8. ASSUME ReadFromP2PFails PROVE TypeOK'
  <2>1. p2p_transport_error_times' \in 0..(TransportErrorLimit + 1)
    BY <1>8, SwitchAssumption DEF ReadFromP2PFails, Saturated, TypeOK
  <2>2. /\ cdn_open' \in BOOLEAN
        /\ cdn_streams' \in SUBSET Media
        /\ output_video_stream_index' \in Source \cup {None}
    BY <1>8, CreateType DEF ReadFromP2PFails, TypeOK, Source
  <2>3. /\ pc' \in {"call", "fallback"}
        /\ pkt' \in Packet
        /\ out' \in [src : Source \cup {None}, pkt : Packet]
        /\ ref' \in Source \cup {None}
        /\ pending_switch' \in Source \cup {None}
    BY <1>8, ReturnType, PacketType DEF ReadFromP2PFails, TypeOK, Source
  <2> QED
    BY <1>8, <2>1, <2>2, <2>3 DEF ReadFromP2PFails, TypeOK, pendVars, p2pVars
<1>9. ASSUME FallBackToCdn PROVE TypeOK'
  BY <1>9, PrepareEffect
  DEF FallBackToCdn, TypeOK, PendingPlace, cdnVars, p2pVars, Source, None
<1>10. ASSUME CommitAndReturn PROVE TypeOK'
  <2>1. /\ pc' = "call"
        /\ pkt' \in Packet
        /\ out' \in [src : Source \cup {None}, pkt : Packet]
        /\ ref' \in Source \cup {None}
    <3>1. CASE CommitDelivers
      BY <3>1, DeliverType
    <3>2. CASE ~CommitDelivers
      <4>1. PICK p \in {pkt, Result("blank")} : ReturnPacket(active_source, p, ref)
        <5>1. CASE Failed(pkt)
          BY <1>10, <3>2, <5>1 DEF CommitAndReturn
        <5>2. CASE ~Failed(pkt)
          BY <1>10, <3>2, <5>2 DEF CommitAndReturn
        <5> QED
          BY <5>1, <5>2
      <4>2. pkt \in Packet
        BY DEF TypeOK
      <4>3. Result("blank") \in Packet /\ Result("again") \in Packet
        BY PacketType
      <4>4. p \in Packet
        BY <4>1, <4>2, <4>3
      <4>5. active_source \in Source \cup {None} /\ ref \in Source \cup {None}
        BY DEF TypeOK
      <4>6. /\ pc' = "call" /\ pkt' = Result("again")
            /\ out' \in [src : Source \cup {None}, pkt : Packet]
            /\ ref' \in {active_source, ref, None}
        BY <4>1, <4>4, <4>5, ReturnType
      <4> QED
        BY <4>3, <4>5, <4>6
    <3> QED
      BY <3>1, <3>2
  <2>2. keyLost' \in BOOLEAN
    BY <1>10 DEF CommitAndReturn, CommitDelivers, CommitLosesPacket, TypeOK
  <2>3. /\ active_source' \in Source \cup {None}
        /\ pending_switch' \in Source \cup {None}
        /\ cdn_active' \in BOOLEAN
        /\ pending_pkt_valid' \in BOOLEAN
        /\ pending_pkt_from' \in Source \cup {None}
        /\ pending_pkt_out' \in Source \cup {None}
    BY <1>10, CommitType
    DEF CommitAndReturn, CommitDelivers, CommitLosesPacket, TypeOK, swVars, pendVars
  <2> QED
    BY <1>10, <2>1, <2>2, <2>3 DEF CommitAndReturn, TypeOK, cdnVars, p2pVars
<1>11. ASSUME Close PROVE TypeOK'
  <2>1. cdn_open' \in BOOLEAN /\ pending_pkt_valid' \in BOOLEAN
    BY <1>11 DEF Close
  <2> QED
    BY <1>11, <2>1 DEF Close, TypeOK, swVars, p2pVars
<1>12. ASSUME SelectNode \/ ConnectReady \/ LinkChanges PROVE TypeOK'
  <2>1. selected_node' \in BOOLEAN /\ p2p_connect_ready' \in BOOLEAN
    BY <1>12 DEF SelectNode, ConnectReady, LinkChanges, TypeOK, p2pVars
  <2> QED
    BY <1>12, <2>1
    DEF SelectNode, ConnectReady, LinkChanges, TypeOK, swVars, pendVars, cdnVars, p2pVars
<1>13. ASSUME UNCHANGED vars PROVE TypeOK'
  BY <1>13 DEF vars, TypeOK, swVars, pendVars, cdnVars, p2pVars
<1> QED
  BY <1>1, <1>2, <1>3, <1>4, <1>5, <1>6, <1>7, <1>8, <1>9, <1>10, <1>11, <1>12, <1>13
  DEF Next, ReadThread

-----------------------------------------------------------------------------
\* A commit activates the source of the cached packet, which is usable.
LEMMA CommitSwitchInv ==
  ASSUME IInv, CommitSwitch
  PROVE  /\ active_source' = pending_pkt_from
         /\ active_source' \in Source
         /\ cdn_active' <=> active_source' = "cdn"
         /\ ~pending_pkt_valid'
         /\ active_source' = "cdn" => cdn_open
         /\ active_source' = "p2p" => P2PUsable
         /\ output_video_stream_index # None
<1>1. active_source' = pending_pkt_from /\ active_source' \in Source
  BY DEF IInv, CommitSwitch, PendingConsistent, TypeOK, None
<1>2. (cdn_active' <=> active_source' = "cdn") /\ ~pending_pkt_valid'
  BY DEF CommitSwitch
<1>3. pending_switch = pending_pkt_from
  BY DEF IInv, CommitSwitch, PendingConsistent
<1> QED
  BY <1>1, <1>2, <1>3 DEF IInv, CommitSwitch, PendingUsable

\* The commit that delivers its keyframe puts the decoder in step with the new
\* source.
LEMMA CommitInv ==
  ASSUME IInv, TypeOK', CommitDelivers,
         UNCHANGED <<cdn_started, cdn_open, cdn_streams, output_video_stream_index,
                     p2p_connect_ready, selected_node>>
  PROVE  IInv'
<1>1. CommitSwitch /\ UNCHANGED keyLost
  BY DEF CommitDelivers
<1>2. /\ pc' = "call"
      /\ pkt' = Result("again")
      /\ out'.pkt = Result("idr")
      /\ ref' = pending_pkt_from
  BY DEF CommitDelivers, ReturnPacket, Result, Kind, RefAfterDelivery, IsKey
<1>3. /\ Failed(Result("again"))
      /\ Result("again").kind = "again" /\ ~Result("again").chained
      /\ Result("idr").kind = "idr"
  BY DEF Failed, Result
<1> QED
  BY <1>1, <1>2, <1>3, CommitSwitchInv
  DEF IInv, PendingConsistent, ActiveSourceReadable, ControlInv, PendingPlace, PendingUsable,
      InSync, HeldDecodable, DecodableOutput, P2PUsable, Source, None

\* A call that returns what it holds, and does not switch.
LEMMA HeldReturned ==
  ASSUME IInv, TypeOK', ReturnPacket(active_source, pkt, ref), active_source # None,
         ~pending_pkt_valid, pc # "closed",
         UNCHANGED <<active_source, cdn_active, pending_pkt_valid, cdn_started, cdn_open,
                     cdn_streams, output_video_stream_index, p2p_connect_ready,
                     selected_node, keyLost>>
  PROVE  IInv'
<1>1. pc' = "call" /\ pkt' = Result("again") /\ out'.pkt = pkt
  BY DEF ReturnPacket
<1>2. ref' = IF pkt.kind \in Kind THEN RefAfterDelivery(active_source, pkt, ref) ELSE ref
  BY DEF ReturnPacket
<1>3. active_source = "p2p" => ref' = ref
  BY <1>2 DEF IInv, ControlInv, Failed, Kind
<1>4. active_source = "cdn" /\ Ungated /\ ~keyLost => ref' = "cdn"
  BY <1>2 DEF IInv, InSync, HeldDecodable, RefAfterDelivery, IsKey, Kind
<1>5. /\ Failed(Result("again"))
      /\ Result("again").kind = "again" /\ ~Result("again").chained
  BY DEF Failed, Result
<1>6. active_source \in {"cdn", "p2p"}
  BY DEF IInv, TypeOK, Source
<1>7. PendingConsistent' /\ PendingUsable' /\ ActiveSourceReadable'
  BY <1>1 DEF IInv, PendingConsistent, PendingUsable, ActiveSourceReadable
<1>8. ControlInv'
  BY <1>1, <1>5 DEF IInv, ControlInv, PendingPlace
<1>9. InSync'
  BY <1>3, <1>4, <1>6 DEF IInv, InSync, Ungated
<1>10. HeldDecodable' /\ DecodableOutput'
  BY <1>1, <1>5 DEF IInv, HeldDecodable, DecodableOutput
<1> QED
  BY <1>7, <1>8, <1>9, <1>10 DEF IInv

\* The strengthening is inductive: one step per action.
LEMMA InvStep == IInv /\ [Next]_vars => IInv'
<1> SUFFICES ASSUME IInv PROVE [Next]_vars => IInv'
  OBVIOUS
<1> USE DEF PendingConsistent, ActiveSourceReadable, ControlInv, PendingPlace, PendingUsable,
            InSync, HeldDecodable, DecodableOutput, Ungated
<1>0. TypeOK /\ PendingPlace /\ ([Next]_vars => TypeOK')
  BY TypeStep DEF IInv
<1>1. ASSUME ReadHeader PROVE IInv'
  <2>1. PICK ok \in BOOLEAN : CreateCdnStreams(ok) /\ pc' = IF ok THEN "headerScan" ELSE "call"
    BY <1>1 DEF ReadHeader
  <2>2. /\ pc = "header" /\ ~pending_pkt_valid /\ active_source = None
        /\ output_video_stream_index = None
    BY <1>1 DEF ReadHeader, IInv
  <2>3. UNCHANGED <<active_source, cdn_active, pending_pkt_valid, cdn_started, pkt, ref,
                    out, keyLost>>
    BY <1>1 DEF ReadHeader, swVars, pendVars
  <2>4. pc' \in {"headerScan", "call"}
    BY <2>1
  <2>5. pc' = "headerScan" =>
          output_video_stream_index' = "cdn" /\ cdn_open' /\ "video" \in cdn_streams'
    BY <1>0, <2>1, <2>2, CreateType DEF Media
  <2>6. TypeOK'
    BY <1>0, <1>1 DEF Next, ReadThread
  <2> QED
    BY <2>2, <2>3, <2>4, <2>5, <2>6 DEF IInv, None
<1>2. ASSUME ReadHeaderPrepare PROVE IInv'
  <2>1. /\ pc = "headerScan" /\ ~pending_pkt_valid /\ active_source = None /\ ref = None
        /\ output_video_stream_index = "cdn" /\ cdn_open /\ "video" \in cdn_streams
        /\ ~cdn_started /\ ~cdn_active
    BY <1>2 DEF ReadHeaderPrepare, IInv, None
  <2>2. /\ ref' = None
        /\ output_video_stream_index' = "cdn"
        /\ pending_pkt_valid' => /\ pending_switch' = "cdn"
                                 /\ pending_pkt_from' = "cdn"
                                 /\ pending_pkt_out' # None
    BY <1>0, <1>2, <2>1, PrepareEffect DEF ReadHeaderPrepare, TypeOK, Source, None
  <2>3. /\ pc' = "call"
        /\ UNCHANGED <<cdn_started, cdn_open, cdn_streams, p2p_connect_ready, selected_node,
                       pkt, out, keyLost>>
    BY <1>2 DEF ReadHeaderPrepare, cdnVars, p2pVars
  <2>4. \/ active_source' = None /\ ~cdn_active'
        \/ active_source' = "cdn" /\ cdn_active'
    BY <1>2, <2>1 DEF ReadHeaderPrepare
  <2>5. TypeOK'
    BY <1>0, <1>2 DEF Next, ReadThread
  <2> QED
    BY <2>1, <2>2, <2>3, <2>4, <2>5 DEF IInv, None
<1>3. ASSUME ReadPacket PROVE IInv'
  <2>0. TypeOK'
    BY <1>0, <1>3 DEF Next, ReadThread
  <2>1. pc = "call" /\ pkt = Result("again")
    BY <1>3 DEF ReadPacket, IInv
  <2>2. UNCHANGED <<cdn_started, cdn_open, cdn_streams, output_video_stream_index,
                    p2p_connect_ready, selected_node>>
    BY <1>3 DEF ReadPacket, cdnVars, p2pVars
  <2>3. CASE CommitDelivers
    BY <2>0, <2>2, <2>3, CommitInv DEF IInv
  <2>4. CASE CommitLosesPacket /\ pc' = "branch" /\ UNCHANGED <<pkt, out, ref>>
    BY <2>0, <2>1, <2>2, <2>4, CommitSwitchInv DEF IInv, CommitLosesPacket, Result,
       Kind, Failed, P2PUsable
  <2>5. CASE /\ ~pending_pkt_valid
             /\ pc' = "branch"
             /\ UNCHANGED <<swVars, pendVars, pkt, out, ref, keyLost>>
    BY <2>0, <2>1, <2>2, <2>5 DEF IInv, swVars, pendVars, Result, None
  <2> QED
    BY <1>3, <2>3, <2>4, <2>5 DEF ReadPacket
<1>4. ASSUME ReadWithoutSource PROVE IInv'
  <2>0. TypeOK'
    BY <1>0, <1>4 DEF Next, ReadThread
  <2>1. /\ pc = "branch" /\ active_source = None /\ ~pending_pkt_valid
        /\ pc' = "call" /\ out'.pkt = Result("again")
        /\ UNCHANGED <<active_source, cdn_active, cdn_started, cdn_open, cdn_streams,
                       p2p_connect_ready, selected_node, pkt, keyLost>>
    BY <1>4 DEF ReadWithoutSource, IInv, cdnVars, p2pVars
  <2>2. /\ ref' \in {ref, None}
        /\ pending_pkt_valid' => /\ P2PUsable
                                 /\ pending_switch' = "p2p"
                                 /\ pending_pkt_from' = "p2p"
                                 /\ pending_pkt_out' # None
                                 /\ output_video_stream_index' # None
    BY <1>0, <1>4, <2>1, PrepareEffect DEF ReadWithoutSource, TypeOK, pendVars, Source
  <2> QED
    BY <2>0, <2>1, <2>2 DEF IInv, P2PUsable, None, Result
<1>5. ASSUME ReadFromCdn PROVE IInv'
  <2>0. TypeOK'
    BY <1>0, <1>5 DEF Next, ReadThread
  <2>1. /\ pc = "branch" /\ active_source = "cdn" /\ ~pending_pkt_valid
        /\ pkt = Result("again") /\ cdn_active /\ cdn_open
        /\ pc' = "upgrade"
        /\ UNCHANGED <<active_source, cdn_active, pending_pkt_valid, cdn_open, cdn_streams,
                       output_video_stream_index, p2p_connect_ready, selected_node, out,
                       keyLost>>
    BY <1>5 DEF ReadFromCdn, IInv, swVars, pendVars, p2pVars
  <2>2. ~keyLost /\ Ungated => ref = "cdn"
    BY <2>1 DEF IInv, Result, IsKey
  <2>3. /\ pkt'.kind = "delta" => pkt'.chained \/ keyLost
        /\ pkt'.chained => ref' = None /\ pkt'.kind \in Kind \ {"audio"}
        /\ ~keyLost /\ Ungated' => ref' = "cdn" \/ pkt'.chained \/ IsKey(pkt'.kind)
        /\ pkt'.kind \in {"idr", "key", "delta"} => ref' # "cdn"
    <3>1. CASE /\ pkt' \in {Result("again"), Result("error")}
               /\ UNCHANGED <<cdn_started, ref>>
      BY <2>1, <2>2, <3>1 DEF Result
    <3>2. CASE \E k \in Kind :
                 /\ ref' = RefAfterRead("cdn", k)
                 /\ cdn_started' = CdnStartedAfter(k)
                 /\ pkt' = IF HasOutputStream(k) /\ (GateApplies(k) => IsKey(k))
                           THEN [kind |-> k, chained |-> Chained("cdn", k)]
                           ELSE Result("again")
      <4> PICK k \in Kind :
            /\ ref' = RefAfterRead("cdn", k)
            /\ cdn_started' = CdnStartedAfter(k)
            /\ pkt' = IF HasOutputStream(k) /\ (GateApplies(k) => IsKey(k))
                      THEN [kind |-> k, chained |-> Chained("cdn", k)]
                      ELSE Result("again")
        BY <3>2
      <4>1. CASE HasOutputStream(k) /\ (GateApplies(k) => IsKey(k))
        <5>1. /\ pkt'.kind = k /\ pkt'.chained = Chained("cdn", k)
              /\ ref' = RefAfterRead("cdn", k)
          BY <4>1
        <5>2. (Ungated' => Ungated \/ IsKey(k)) /\ (k = "delta" => Ungated)
          BY <2>1, <4>1 DEF CdnStartedAfter, GateApplies, IsKey
        <5> QED
          BY <2>2, <5>1, <5>2 DEF Chained, RefAfterRead, IsKey, Kind, None
      <4>2. CASE ~(HasOutputStream(k) /\ (GateApplies(k) => IsKey(k)))
        <5>1. pkt' = Result("again") /\ ref' = RefAfterRead("cdn", k)
          BY <4>2
        <5>3. Ungated' => Ungated
          BY <2>1, <4>2 DEF CdnStartedAfter, HasOutputStream, GateApplies, None
        <5>2. Ungated => k = "audio"
          BY <2>1, <4>2 DEF HasOutputStream, GateApplies, IInv, None
        <5> QED
          BY <2>1, <2>2, <5>1, <5>2, <5>3 DEF Result, RefAfterRead
      <4> QED
        BY <4>1, <4>2
    <3> QED
      BY <1>5, <2>1, <3>1, <3>2 DEF ReadFromCdn, ReadOneFromCdn
  <2> QED
    BY <2>0, <2>1, <2>3 DEF IInv, P2PUsable, None
<1>6. ASSUME UpgradeToP2P PROVE IInv'
  <2>0. TypeOK'
    BY <1>0, <1>6 DEF Next, ReadThread
  <2>1. /\ pc = "upgrade" /\ active_source = "cdn" /\ ~pending_pkt_valid
        /\ UNCHANGED <<active_source, cdn_active, cdn_started, cdn_open, cdn_streams,
                       p2p_connect_ready, selected_node, keyLost>>
    BY <1>6 DEF UpgradeToP2P, IInv, cdnVars, p2pVars
  <2>2. CASE P2PUsable
    <3>1. /\ ref' \in {ref, None}
          /\ ref # "p2p" => ref' = ref
          /\ output_video_stream_index # None =>
               output_video_stream_index' = output_video_stream_index
          /\ output_video_stream_index' \in {output_video_stream_index, "p2p"}
          /\ pending_pkt_valid' => /\ pending_switch' = "p2p"
                                   /\ pending_pkt_from' = "p2p"
                                   /\ pending_pkt_out' # None
                                   /\ output_video_stream_index' # None
      BY <1>0, <1>6, <2>1, <2>2, PrepareEffect DEF UpgradeToP2P, TypeOK, Source
    <3>2. pc' = "commit" /\ UNCHANGED <<pkt, out>>
      BY <1>6, <2>2 DEF UpgradeToP2P
    <3>3. output_video_stream_index # None
      BY <2>1 DEF IInv, None
    <3> QED
      BY <2>0, <2>1, <2>2, <3>1, <3>2, <3>3 DEF IInv, P2PUsable, None
  <2>3. CASE ~P2PUsable
    <3>1. /\ ReturnPacket(active_source, pkt, ref) /\ active_source # None
          /\ UNCHANGED <<pending_pkt_valid, output_video_stream_index>>
      BY <1>6, <2>1, <2>3 DEF UpgradeToP2P, pendVars, None
    <3> QED
      BY <2>0, <2>1, <3>1, HeldReturned
  <2> QED
    BY <2>2, <2>3
<1>7. ASSUME ReadFromP2P PROVE IInv'
  <2>0. TypeOK'
    BY <1>0, <1>7 DEF Next, ReadThread
  <2>1. PICK k \in Kind \ {"audio"} :
          ReturnPacket("p2p", [kind |-> k, chained |-> Chained("p2p", k)],
                       RefAfterRead("p2p", k))
    BY <1>7 DEF ReadFromP2P
  <2>2. /\ pc = "branch" /\ active_source = "p2p" /\ ~pending_pkt_valid
        /\ UNCHANGED <<active_source, cdn_active, pending_pkt_valid, cdn_started, cdn_open,
                       cdn_streams, output_video_stream_index, p2p_connect_ready,
                       selected_node, keyLost>>
    BY <1>7 DEF ReadFromP2P, IInv, swVars, pendVars, cdnVars, p2pVars
  <2>3. /\ pc' = "call" /\ pkt' = Result("again")
        /\ out'.pkt.kind = "delta" => out'.pkt.chained \/ keyLost
        /\ ~keyLost => ref' = "p2p"
    BY <2>1, <2>2 DEF IInv, ReturnPacket, RefAfterDelivery, Chained, Kind, IsKey
  <2> QED
    BY <2>0, <2>2, <2>3 DEF IInv, P2PUsable, Result, Failed, None
<1>8. ASSUME ReadFromP2PFails PROVE IInv'
  <2>0. TypeOK'
    BY <1>0, <1>8 DEF Next, ReadThread
  <2>1. /\ pc = "branch" /\ active_source = "p2p" /\ ~pending_pkt_valid
        /\ UNCHANGED <<active_source, cdn_active, pending_pkt_valid, cdn_started,
                       p2p_connect_ready, selected_node, keyLost>>
    BY <1>8 DEF ReadFromP2PFails, IInv, pendVars, p2pVars
  <2>2. output_video_stream_index' = output_video_stream_index
    BY <1>0, <1>8, <2>1, CreateType DEF ReadFromP2PFails, IInv
  <2>3. \E code \in {"again", "error"} :
          \/ /\ pc' = "fallback" /\ cdn_open' /\ pkt' = Result(code)
             /\ UNCHANGED <<out, ref>>
          \/ ReturnPacket("p2p", Result(code), ref)
    BY <1>8 DEF ReadFromP2PFails
  <2>4. /\ ref' = ref
        /\ \E code \in {"again", "error"} : pkt' = Result(code)
        /\ \/ pc' = "fallback" /\ cdn_open' /\ UNCHANGED out
           \/ /\ pc' = "call" /\ pkt' = Result("again")
              /\ out'.pkt.kind # "delta"
    BY <2>3 DEF ReturnPacket, Result, Kind
  <2>5. /\ Failed(pkt') /\ ~pkt'.chained
        /\ pkt'.kind \notin {"idr", "key", "delta"}
    BY <2>4 DEF Result, Failed
  <2> QED
    BY <2>0, <2>1, <2>2, <2>4, <2>5 DEF IInv, None
<1>9. ASSUME FallBackToCdn PROVE IInv'
  <2>0. TypeOK'
    BY <1>0, <1>9 DEF Next, ReadThread
  <2>1. /\ pc = "fallback" /\ active_source = "p2p" /\ ~pending_pkt_valid /\ cdn_open
        /\ pc' = "commit"
        /\ UNCHANGED <<active_source, cdn_active, cdn_started, cdn_open, cdn_streams,
                       p2p_connect_ready, selected_node, pkt, out, keyLost>>
    BY <1>9 DEF FallBackToCdn, IInv, cdnVars, p2pVars
  <2>2. output_video_stream_index # None
    BY <2>1 DEF IInv, None
  <2>3. /\ ref' \in {ref, None}
        /\ ref # "cdn" => ref' = ref
        /\ output_video_stream_index # None =>
             output_video_stream_index' = output_video_stream_index
        /\ pending_pkt_valid' => /\ pending_switch' = "cdn"
                                 /\ pending_pkt_from' = "cdn"
                                 /\ pending_pkt_out' # None
                                 /\ output_video_stream_index' # None
    BY <1>0, <1>9, <2>1, <2>2, PrepareEffect DEF FallBackToCdn, TypeOK, Source
  <2> QED
    BY <2>0, <2>1, <2>2, <2>3 DEF IInv, P2PUsable, None
<1>10. ASSUME CommitAndReturn PROVE IInv'
  <2>0. TypeOK'
    BY <1>0, <1>10 DEF Next, ReadThread
  <2>1. /\ pc = "commit" /\ active_source # None
        /\ UNCHANGED <<cdn_started, cdn_open, cdn_streams, output_video_stream_index,
                       p2p_connect_ready, selected_node>>
    BY <1>10 DEF CommitAndReturn, IInv, cdnVars, p2pVars
  <2>2. CASE CommitDelivers
    BY <2>0, <2>1, <2>2, CommitInv
  <2>3. CASE /\ CommitLosesPacket
             /\ ReturnPacket(active_source, IF Failed(pkt) THEN pkt ELSE Result("blank"), ref)
    <3>1. /\ pc' = "call" /\ pkt' = Result("again")
          /\ CommitSwitch /\ keyLost'
      BY <2>3 DEF ReturnPacket, CommitLosesPacket
    <3>2. /\ Failed(Result("again"))
          /\ Result("again").kind = "again" /\ ~Result("again").chained
      BY DEF Failed, Result
    <3> QED
      BY <2>0, <2>1, <3>1, <3>2, CommitSwitchInv DEF IInv, P2PUsable, Source, None
  <2>4. CASE /\ ~pending_pkt_valid
             /\ ReturnPacket(active_source, pkt, ref)
             /\ UNCHANGED <<swVars, pendVars, keyLost>>
    BY <2>0, <2>1, <2>4, HeldReturned DEF swVars, pendVars
  <2> QED
    BY <1>10, <2>2, <2>3, <2>4 DEF CommitAndReturn
<1>11. ASSUME Close PROVE IInv'
  BY <1>0, <1>11 DEF IInv, Close, swVars, p2pVars, Next, ReadThread
<1>12. ASSUME SelectNode \/ ConnectReady \/ LinkChanges PROVE IInv'
  BY <1>0, <1>12 DEF IInv, SelectNode, ConnectReady, LinkChanges, P2PUsable,
     swVars, pendVars, cdnVars, p2pVars, Next, ReadThread
<1>13. ASSUME UNCHANGED vars PROVE IInv'
  BY <1>0, <1>13 DEF IInv, vars, swVars, pendVars, cdnVars, p2pVars, P2PUsable
<1> QED
  BY <1>1, <1>2, <1>3, <1>4, <1>5, <1>6, <1>7, <1>8, <1>9, <1>10, <1>11, <1>12, <1>13
  DEF Next, ReadThread

LEMMA InvInit == Init => IInv
<1> SUFFICES ASSUME Init PROVE IInv
  OBVIOUS
<1>1. TypeOK
  <2>1. /\ pending_pkt_valid \in BOOLEAN /\ cdn_active \in BOOLEAN /\ cdn_started \in BOOLEAN
        /\ cdn_open \in BOOLEAN /\ selected_node \in BOOLEAN
        /\ p2p_connect_ready \in BOOLEAN /\ keyLost \in BOOLEAN
    BY DEF Init
  <2>2. pkt \in Packet /\ out \in [src : Source \cup {None}, pkt : Packet]
    BY PacketType DEF Init
  <2>3. gap \in [Source -> 0..(KeyInterval - 1)]
    BY SwitchAssumption DEF Init
  <2>4. p2p_transport_error_times \in 0..(TransportErrorLimit + 1)
    BY SwitchAssumption DEF Init
  <2> QED
    BY <2>1, <2>2, <2>3, <2>4 DEF Init, TypeOK
<1> QED
  BY <1>1 DEF Init, IInv, PendingConsistent, ActiveSourceReadable, ControlInv,
     PendingPlace,
     PendingUsable, InSync, HeldDecodable, DecodableOutput, Result, Failed, None

(***************************************************************************)
(* The strengthened invariant holds in every reachable state, for every    *)
(* scan length, error limit and keyframe distance, with and without        *)
(* allocation failures.                                                    *)
(***************************************************************************)
THEOREM Inductive == Spec => []IInv
<1> QED
  BY InvInit, InvStep, PTL DEF Spec

(* The state of the demuxer has its types.                                  *)
THEOREM TypeCorrect == Spec => []TypeOK
<1>1. IInv => TypeOK
  BY DEF IInv
<1> QED
  BY <1>1, Inductive, PTL

(***************************************************************************)
(* What p2p_rtp_read_packet returns can be decoded: no delta frame follows *)
(* a hole or a change of source, unless av_packet_ref failed in a commit.  *)
(***************************************************************************)
THEOREM OutputDecodable == Spec => []DecodableOutput
<1>1. IInv => DecodableOutput
  BY DEF IInv
<1> QED
  BY <1>1, Inductive, PTL

(***************************************************************************)
(* commit_pending_switch_if_ready never activates one source with a packet *)
(* of the other, and never indexes the output streams with -1.             *)
(***************************************************************************)
THEOREM PendingPacketConsistent == Spec => []PendingConsistent
<1>1. IInv => PendingConsistent
  BY DEF IInv
<1> QED
  BY <1>1, Inductive, PTL

(* The source that the demuxer reads from is always there to be read.       *)
THEOREM SourceReadable == Spec => []ActiveSourceReadable
<1>1. IInv => ActiveSourceReadable
  BY DEF IInv
<1> QED
  BY <1>1, Inductive, PTL

-----------------------------------------------------------------------------
(* Refinement: PlayableOutput's variables in terms of the demuxer's.        *)

Playing  == IF pkt.chained THEN "cdn" ELSE ref
Returned == [src |-> out.src, kind |-> out.pkt.kind]

\* A step that returns no frame is a Skip of PlayableOutput.
LEMMA SkipStep ==
  ASSUME Playing' \in {Playing, None},
         Returned' \in Playable!Code \cup {Returned},
         keyLost \in BOOLEAN, keyLost' \in BOOLEAN, keyLost => keyLost'
  PROVE  Playable!Next
<1>1. (~keyLost)' \in {~keyLost, FALSE}
  OBVIOUS
<1> QED
  BY <1>1 DEF Playable!Next, Playable!Skip, Playing, Returned

\* Returning the frame p of source s to a decoder that can use it.
LEMMA DeliverStep ==
  ASSUME NEW s \in Source, NEW k \in Kind,
         k = "delta" => Playing = s \/ keyLost,
         Returned' = [src |-> s, kind |-> k],
         Playing' = IF k = "audio" THEN Playing
                    ELSE IF IsKey(k) \/ Playing = s THEN s ELSE None,
         UNCHANGED keyLost
  PROVE  Playable!Next
<1> DEFINE f == [src |-> s, kind |-> k]
<1>1. f \in Playable!Frame
  BY DEF Playable!Frame, Kind
<1>2. f.src = s /\ f.kind = k
  OBVIOUS
<1>3. Playable!Deliver(f)
  BY <1>2 DEF Playable!Deliver, Playing, Returned, IsKey, None
<1> QED
  BY <1>1, <1>3 DEF Playable!Next

\* A call that returns what it holds delivers a frame or skips.
LEMMA HeldStep ==
  ASSUME IInv, IInv', ReturnPacket(active_source, pkt, ref), UNCHANGED keyLost
  PROVE  Playable!Next
<1>1. /\ pkt' = Result("again") /\ out'.pkt = pkt
      /\ ref' = IF pkt.kind \in Kind THEN RefAfterDelivery(active_source, pkt, ref) ELSE ref
      /\ out'.src = IF Failed(pkt) THEN None ELSE active_source
  BY DEF ReturnPacket
<1>2. Playing' = ref'
  BY <1>1 DEF Playing, Result
<1>3. CASE pkt.kind \in Kind
  <2>1. active_source = "cdn"
    BY <1>3 DEF IInv, ControlInv, Failed, Kind
  <2>2. Returned' = [src |-> "cdn", kind |-> pkt.kind]
    BY <1>1, <1>3, <2>1 DEF Returned, Failed, Kind
  <2>3. pkt.kind = "delta" => Playing = "cdn" \/ keyLost
    BY DEF IInv, HeldDecodable, Playing
  <2>4. Playing' = IF pkt.kind = "audio" THEN Playing
                   ELSE IF IsKey(pkt.kind) \/ Playing = "cdn" THEN "cdn" ELSE None
    BY <1>1, <1>2, <1>3, <2>1
    DEF IInv, HeldDecodable, RefAfterDelivery, Playing, IsKey, Kind
  <2> QED
    BY <1>3, <2>2, <2>3, <2>4, DeliverStep DEF Source
<1>4. CASE pkt.kind \notin Kind
  <2>1. Playing' \in {Playing, None}
    BY <1>1, <1>2, <1>4 DEF Playing, IInv, HeldDecodable
  <2>2. pkt.kind \in {"again", "error", "blank"}
    BY <1>4 DEF IInv, TypeOK, Packet
  <2>3. Returned' \in Playable!Code
    BY <1>1, <2>2 DEF Returned, Playable!Code, IInv, TypeOK
  <2> QED
    BY <2>1, <2>3, SkipStep DEF IInv, TypeOK
<1> QED
  BY <1>3, <1>4

\* Delivering the cached keyframe starts a run.
LEMMA CommitStep ==
  ASSUME IInv, CommitDelivers
  PROVE  Playable!Next
<1>1. /\ ReturnPacket(pending_pkt_from, Result("idr"), ref)
      /\ UNCHANGED keyLost /\ pending_pkt_valid
  BY DEF CommitDelivers, CommitSwitch
<1>2. pending_pkt_from \in Source
  BY <1>1 DEF IInv, TypeOK, PendingConsistent
<1>3. /\ Playing' = pending_pkt_from
      /\ Returned' = [src |-> pending_pkt_from, kind |-> "idr"]
  BY <1>1
  DEF ReturnPacket, Playing, Returned, Result, Failed, Kind, RefAfterDelivery, IsKey
<1> QED
  BY <1>1, <1>2, <1>3, DeliverStep DEF IsKey, Kind

\* Every step of the demuxer is a step of PlayableOutput or leaves it alone.
LEMMA RefinementStep ==
  IInv /\ IInv' /\ [Next]_vars => [Playable!Next]_<<Playing, Returned, ~keyLost>>
<1> SUFFICES ASSUME IInv, IInv'
             PROVE  [Next]_vars => [Playable!Next]_<<Playing, Returned, ~keyLost>>
  OBVIOUS
<1>0. keyLost \in BOOLEAN /\ keyLost' \in BOOLEAN
  BY DEF IInv, TypeOK
<1>1. ASSUME UNCHANGED <<pkt, out, ref, keyLost>>
      PROVE  UNCHANGED <<Playing, Returned, ~keyLost>>
  BY <1>1 DEF Playing, Returned
<1>2. ASSUME UNCHANGED <<pkt, keyLost>>, ref' \in {ref, None},
             UNCHANGED out \/ out' = [src |-> None, pkt |-> Result("again")]
      PROVE  Playable!Next
  <2>1. Playing' \in {Playing, None}
    BY <1>2 DEF Playing
  <2>2. Returned' \in Playable!Code \cup {Returned}
    BY <1>2 DEF Returned, Playable!Code, Result
  <2> QED
    BY <1>0, <1>2, <2>1, <2>2, SkipStep
<1>3. ASSUME ReadHeader \/ Close \/ SelectNode \/ ConnectReady \/ LinkChanges
      PROVE  UNCHANGED <<pkt, out, ref, keyLost>>
  BY <1>3 DEF ReadHeader, Close, SelectNode, ConnectReady, LinkChanges
<1>4. ASSUME ReadHeaderPrepare \/ FallBackToCdn \/ ReadWithoutSource
             \/ (UpgradeToP2P /\ P2PUsable)
      PROVE  Playable!Next
  <2>1. ~pending_pkt_valid /\ TypeOK
    BY <1>4 DEF ReadHeaderPrepare, FallBackToCdn, ReadWithoutSource, UpgradeToP2P, IInv,
                ControlInv, PendingPlace
  <2>2. ref' \in {ref, None}
    BY <1>4, <2>1, PrepareEffect
    DEF ReadHeaderPrepare, FallBackToCdn, ReadWithoutSource, UpgradeToP2P, TypeOK, Source
  <2>3. /\ UNCHANGED <<pkt, keyLost>>
        /\ UNCHANGED out \/ out' = [src |-> None, pkt |-> Result("again")]
    BY <1>4 DEF ReadHeaderPrepare, FallBackToCdn, ReadWithoutSource, UpgradeToP2P
  <2> QED
    BY <1>2, <2>2, <2>3
<1>5. ASSUME ReadPacket PROVE [Playable!Next]_<<Playing, Returned, ~keyLost>>
  <2>1. CASE CommitDelivers
    BY <2>1, CommitStep
  <2>2. CASE CommitLosesPacket /\ UNCHANGED <<pkt, out, ref>>
    <3>1. Playing' = Playing /\ Returned' = Returned /\ keyLost'
      BY <2>2 DEF Playing, Returned, CommitLosesPacket
    <3> QED
      BY <1>0, <3>1, SkipStep
  <2>3. CASE UNCHANGED <<pkt, out, ref, keyLost>>
    BY <1>1, <2>3
  <2> QED
    BY <1>5, <2>1, <2>2, <2>3 DEF ReadPacket
<1>6. ASSUME ReadFromCdn PROVE Playable!Next
  <2>1. pkt = Result("again") /\ UNCHANGED <<out, keyLost>>
    BY <1>6 DEF ReadFromCdn, IInv, ControlInv
  <2>2. \/ ref' = ref /\ ~pkt'.chained
        \/ \E k \in Kind : /\ ref' = RefAfterRead("cdn", k)
                           /\ ~pkt'.chained \/ pkt'.chained = Chained("cdn", k)
    BY <1>6 DEF ReadFromCdn, ReadOneFromCdn, Result
  <2>3. Playing' \in {Playing, None}
    BY <2>1, <2>2 DEF Playing, RefAfterRead, Chained, Result
  <2>4. Returned' = Returned
    BY <2>1 DEF Returned
  <2> QED
    BY <1>0, <2>1, <2>3, <2>4, SkipStep
<1>7. ASSUME UpgradeToP2P, ~P2PUsable PROVE Playable!Next
  BY <1>7, HeldStep DEF UpgradeToP2P, IInv, ControlInv
<1>8. ASSUME ReadFromP2P PROVE Playable!Next
  <2>1. PICK k \in Kind \ {"audio"} :
          ReturnPacket("p2p", [kind |-> k, chained |-> Chained("p2p", k)],
                       RefAfterRead("p2p", k))
    BY <1>8 DEF ReadFromP2P
  <2>2. active_source = "p2p" /\ Playing = ref /\ UNCHANGED keyLost
    BY <1>8 DEF ReadFromP2P, IInv, ControlInv, Playing
  <2>3. /\ Returned' = [src |-> "p2p", kind |-> k]
        /\ Playing' = IF IsKey(k) \/ ref = "p2p" THEN "p2p" ELSE None
    BY <2>1 DEF ReturnPacket, RefAfterDelivery, Chained, Playing, Returned, Result,
       Failed,
                Kind, IsKey
  <2>4. ref = "p2p" \/ keyLost
    BY <2>2 DEF IInv, InSync
  <2> QED
    BY <2>1, <2>2, <2>3, <2>4, DeliverStep DEF Source
<1>9. ASSUME ReadFromP2PFails PROVE Playable!Next
  <2>1. PICK code \in {"again", "error"} :
          \/ /\ pkt' = Result(code)
             /\ UNCHANGED <<out, ref>>
          \/ ReturnPacket("p2p", Result(code), ref)
    BY <1>9 DEF ReadFromP2PFails
  <2>2. ~pkt.chained /\ UNCHANGED keyLost
    BY <1>9 DEF ReadFromP2PFails, IInv, ControlInv
  <2>3. Playing' = Playing
    BY <2>1, <2>2 DEF Playing, ReturnPacket, Result, Kind
  <2>4. Returned' \in Playable!Code \cup {Returned}
    BY <2>1 DEF Returned, Playable!Code, ReturnPacket, Result, Failed
  <2> QED
    BY <1>0, <2>2, <2>3, <2>4, SkipStep
<1>10. ASSUME CommitAndReturn PROVE Playable!Next
  <2>1. CASE CommitDelivers
    BY <2>1, CommitStep
  <2>2. CASE /\ CommitLosesPacket
             /\ ReturnPacket(active_source, IF Failed(pkt) THEN pkt ELSE Result("blank"), ref)
    <3>1. PICK p \in {pkt, Result("blank")} :
            /\ ReturnPacket(active_source, p, ref)
            /\ p.kind \in {"again", "error", "blank"}
      <4>1. CASE Failed(pkt)
        BY <2>2, <4>1 DEF Failed
      <4>2. CASE ~Failed(pkt)
        BY <2>2, <4>2 DEF Result
      <4> QED
        BY <4>1, <4>2
    <3>2. Playing' \in {Playing, None}
      BY <3>1 DEF ReturnPacket, Playing, Kind, IInv, HeldDecodable, Result
    <3>3. Returned' \in Playable!Code
      BY <3>1 DEF ReturnPacket, Returned, Playable!Code, IInv, TypeOK
    <3>4. keyLost'
      BY <2>2 DEF CommitLosesPacket
    <3> QED
      BY <1>0, <3>2, <3>3, <3>4, SkipStep
  <2>3. CASE ReturnPacket(active_source, pkt, ref) /\ UNCHANGED keyLost
    BY <2>3, HeldStep
  <2> QED
    BY <1>10, <2>1, <2>2, <2>3 DEF CommitAndReturn
<1>11. ASSUME UNCHANGED vars PROVE UNCHANGED <<pkt, out, ref, keyLost>>
  BY <1>11 DEF vars
<1> QED
  BY <1>1, <1>3, <1>4, <1>5, <1>6, <1>7, <1>8, <1>9, <1>10, <1>11 DEF Next, ReadThread

(***************************************************************************)
(* The demuxer implements PlayableOutput: through every switch between the *)
(* CDN and the peer, the player is given runs that start at a keyframe.    *)
(***************************************************************************)
THEOREM Refinement == Spec => ImplementsPlayableOutput
<1>1. Init => Playable!Init
  <2> SUFFICES ASSUME Init PROVE Playable!Init
    OBVIOUS
  <2>1. [src |-> out.src, kind |-> out.pkt.kind] \in Playable!Code
    BY DEF Init, Result, Playable!Code
  <2>2. ~pkt.chained /\ ref = None
    BY DEF Init, Result
  <2>3. ~keyLost = TRUE
    BY DEF Init
  <2> QED
    BY <2>1, <2>2, <2>3 DEF Playable!Init
<1>2. IInv /\ IInv' /\ [Next]_vars =>
        [Playable!Next]_<<IF pkt.chained THEN "cdn" ELSE ref,
                          [src |-> out.src, kind |-> out.pkt.kind], ~keyLost>>
  BY RefinementStep DEF Playing, Returned
<1> QED
  BY <1>1, <1>2, Inductive, PTL DEF Spec, ImplementsPlayableOutput, Playable!Spec
=============================================================================
