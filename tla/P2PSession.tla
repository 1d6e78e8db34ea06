------------------------------ MODULE P2PSession ------------------------------
(***************************************************************************)
(* One relay (p2pmuxer, P2PSender) and one viewer (p2pdemuxer,             *)
(* P2PReceiver) that meet through the signalling server.  Every message    *)
(* that either component takes as given in its own module is here sent by  *)
(* the other one or by the server, passes through p2p_send_signal_message  *)
(* and p2p_handle_signal_message, and waits in the socket's queue.         *)
(*                                                                         *)
(* The server and the network are outside the repository.  The server      *)
(* delivers in order; it reports the joined room, tells either side to     *)
(* connect, and may report errors.  Probe packets may be lost.             *)
(***************************************************************************)
EXTENDS Integers, Sequences

CONSTANTS
  Viewer,         \* the receiver's id
  Relay,          \* the sender's id
  Socket, Streams, Failures, ProbePackets,   \* as in the components
  QueueBound,     \* bound: messages in a queue
  EventBound      \* bound: the events of the environment, together

VARIABLES
  \* the variables of P2PSender
  sMain, sLate, sState, sMutex, sStep, sTarget, sOpen, sAfter, sStatus, sRtc, sWatched,
  sTrack, sProbe, sSelected, sAsked, sFed,
  \* the variables of P2PReceiver
  rConn, rLate, rProbeLate, rState, rStoring, rStatus, rRtc, rWatched, rFresh, rExpected,
  rReceived, rComplete, rFlight, rSelected, rProbeSent, rRequested,
  \* what is between them
  toSender,       \* external: type strings on their way to the relay
  toReceiver,     \* external: type strings on their way to the viewer
  wire,           \* external: probe packets that were sent and may still arrive
  answered,       \* history: the relay has sent a probe packet
  events          \* server's messages, lost connections, timeouts and restarts so far

S == INSTANCE P2PSender WITH
       Receiver <- {Viewer}, main <- sMain, late <- sLate, current_state <- sState,
       mutex <- sMutex, step <- sStep, target <- sTarget, open <- sOpen, after <- sAfter,
       status <- sStatus, rtc <- sRtc, watched <- sWatched, track <- sTrack,
       probe <- sProbe, selected_node <- sSelected, asked <- sAsked, fed <- sFed

R == INSTANCE P2PReceiver WITH
       Sender <- {Relay}, conn <- rConn, late <- rLate, probeLate <- rProbeLate,
       current_state <- rState, storing <- rStoring, status <- rStatus, rtc <- rRtc,
       watched <- rWatched, fresh <- rFresh, expected <- rExpected,
       received <- rReceived, complete <- rComplete, flight <- rFlight,
       selected_node <- rSelected, probeSent <- rProbeSent, requested <- rRequested

ASSUME SessionAssumption ==
  /\ QueueBound \in Nat \ {0} /\ EventBound \in Nat
  /\ Streams \in Seq(S!Media) /\ Streams # << >>
  /\ Failures \subseteq {"none", "freed"}
  /\ {S!None, "main"} \cap ({Viewer} \cup Socket) = {}
  /\ Viewer \notin Socket
  /\ ProbePackets \in Nat \ {0}
  /\ Relay \notin {R!None, "connect", "ws"}

senderVars ==
  <<sMain, sLate, sState, sMutex, sStep, sTarget, sOpen, sAfter, sStatus, sRtc, sWatched,
    sTrack, sProbe, sSelected, sAsked, sFed>>
receiverVars ==
  <<rConn, rLate, rProbeLate, rState, rStoring, rStatus, rRtc, rWatched, rFresh,
    rExpected, rReceived, rComplete, rFlight, rSelected, rProbeSent, rRequested>>
queues == <<toSender, toReceiver>>
network == <<wire, answered>>
vars == <<senderVars, receiverVars, queues, network, events>>

-----------------------------------------------------------------------------
(* p2p_signal.c: what a type string is decoded to.                          *)

\* The strings that p2p_string_to_message_type knows and a party here sends.
Known == {"room_joined", "connect_request", "offer", "answer", "probe_request",
          "stream_request", "stream_ready", "error"}

\* The muxer's trailer writes its own "stream_end".
TypeString == Known \cup {"stream_end"}

Decoded(type) == IF type \in Known THEN type ELSE "error"

Init ==
  /\ S!Init /\ R!Init
  /\ toSender = << >> /\ toReceiver = << >>
  /\ wire = 0 /\ answered = FALSE /\ events = 0

TypeOK ==
  /\ S!TypeOK /\ R!TypeOK
  /\ toSender \in Seq(TypeString) /\ toReceiver \in Seq(TypeString)
  /\ wire \in 0..ProbePackets /\ answered \in BOOLEAN
  /\ events \in 0..EventBound

\* p2p_send_signal_message.
Send(queue, type) == Len(queue) < QueueBound /\ queue' = Append(queue, type)

\* p2p_handle_signal_message: the queue's head is of this type, and is taken.
Take(queue, type) == queue # << >> /\ Decoded(Head(queue)) = type /\ queue' = Tail(queue)

-----------------------------------------------------------------------------
(* The server.                                                              *)

Event == events < EventBound /\ events' = events + 1

FromServer == {"room_joined", "connect_request", "error"}

ServerSends ==
  /\ \E type \in FromServer :
       \/ sOpen # {} /\ Send(toSender, type) /\ UNCHANGED toReceiver
       \/ Send(toReceiver, type) /\ UNCHANGED toSender
  /\ Event
  /\ UNCHANGED <<senderVars, receiverVars, network>>

-----------------------------------------------------------------------------
(* p2p_rtp_mux_signal_handler, with the messages that it sends.             *)

SenderIsTold(w) ==
  /\ \/ Take(toSender, "room_joined") /\ S!RoomJoined(w)
     \/ Take(toSender, "error") /\ S!ErrorMessage(w)
     \/ Take(toSender, "answer") /\ S!Answer(w, Viewer)
     \/ Take(toSender, "probe_request") /\ S!ProbeRequest(w, Viewer)
  /\ UNCHANGED <<receiverVars, toReceiver, network, events>>

SenderOffers(w) ==
  /\ Take(toSender, "connect_request")
  /\ \/ S!ConnectRequest(w, Viewer) /\ Send(toReceiver, "offer")
     \/ S!ConnectRequestFails(w, Viewer) /\ UNCHANGED toReceiver
  /\ UNCHANGED <<receiverVars, network, events>>

SenderAccepts(w) ==
  /\ Take(toSender, "stream_request")
  /\ S!StreamRequest(w, Viewer) /\ Send(toReceiver, "stream_ready")
  /\ UNCHANGED <<receiverVars, network, events>>

\* Mutant: STREAM_READY is sent before the checks.
SenderReadyAnyway(w) ==
  /\ S!Idle(w)
  /\ Take(toSender, "stream_request")
  /\ sStatus[Viewer] # "connected"
  /\ Send(toReceiver, "stream_ready")
  /\ UNCHANGED <<senderVars, receiverVars, network, events>>

\* A stream request that comes too early, or again after the selection, and an
\* answer to a second offer.
SenderRefuses(w) ==
  /\ S!Idle(w)
  /\ \/ /\ Take(toSender, "stream_request")
        /\ \/ sStatus[Viewer] # "connected" \/ ~sProbe[Viewer]
           \/ \A m \in S!Media : sTrack[Viewer][m] = "none"
     \/ Take(toSender, "answer") /\ ~(Viewer \in sWatched /\ sRtc[Viewer] = "new")
  /\ UNCHANGED <<senderVars, receiverVars, toReceiver, network, events>>

\* Mutant: the packets of every request are added up.
SenderProbesAddUp(w) ==
  /\ S!SendProbePackets(w)
  /\ \/ sProbe[Viewer] /\ sRtc[Viewer] = "up" /\ wire' = wire + ProbePackets
     \/ UNCHANGED wire
  /\ answered' = (answered \/ wire' > wire)
  /\ UNCHANGED <<receiverVars, queues, events>>

\* send_probe_packets: some or all of them get onto the wire.
SenderProbes(w) ==
  /\ S!SendProbePackets(w)
  /\ \/ sProbe[Viewer] /\ sRtc[Viewer] = "up" /\ wire' \in wire..ProbePackets
     \/ UNCHANGED wire
  /\ answered' = (answered \/ wire' > wire)
  /\ UNCHANGED <<receiverVars, queues, events>>

\* p2p_rtp_muxer_write_trailer; the server may keep the message, which has no
\* receiver_id.
SenderEnds ==
  /\ S!WriteTrailer
  /\ Send(toReceiver, "stream_end") \/ UNCHANGED toReceiver
  /\ UNCHANGED <<receiverVars, toSender, network, events>>

\* A connection comes up only when both ends have been described.
SenderConnected ==
  /\ rRtc[Relay] # "new" /\ S!PcConnected(Viewer)
  /\ UNCHANGED <<receiverVars, queues, network, events>>

\* The relay's steps that send and receive nothing.
SenderAlone ==
  /\ \/ \E t \in S!Thread : S!InSetState(t)
     \/ \E w \in Socket : S!SelectNode(w)
     \/ S!JoinRoom \/ S!CheckState \/ S!WaitForReceiver \/ S!WaitTimesOut
     \/ S!Woken \/ S!WriteHeader \/ S!WritePacket \/ S!FeedNode \/ S!Deinit
  /\ UNCHANGED <<receiverVars, queues, network, events>>

SenderDisturbed ==
  /\ S!PcDown(Viewer) \/ S!DeadlinePasses \/ S!SpuriousWakeup \/ S!Retry
  /\ Event
  /\ UNCHANGED <<receiverVars, queues, network>>

-----------------------------------------------------------------------------
(* p2p_rtp_demux_signal_handler and the connect thread.                     *)

ReceiverIsTold ==
  /\ \/ Take(toReceiver, "room_joined") /\ R!RoomJoined
     \/ Take(toReceiver, "error") /\ R!ErrorMessage
     \/ Take(toReceiver, "connect_request") /\ R!ConnectRequest(Relay)
     \/ Take(toReceiver, "stream_ready") /\ R!StreamReady(Relay)
  /\ UNCHANGED <<senderVars, toSender, network, events>>

ReceiverAnswers ==
  /\ Take(toReceiver, "offer") /\ R!Offer(Relay) /\ Send(toSender, "answer")
  /\ UNCHANGED <<senderVars, network, events>>

\* Mutant: the stream is asked for together with the probe.
ReceiverProbesAndAsks ==
  /\ R!SendProbes
  /\ IF rConn' = "loop" THEN Send(toSender, "stream_request") ELSE UNCHANGED toSender
  /\ UNCHANGED <<senderVars, toReceiver, network, events>>

\* The thread goes on from a probe request only if it could be sent.
ReceiverProbes ==
  /\ R!SendProbes
  /\ IF rConn' = "loop" THEN Send(toSender, "probe_request") ELSE UNCHANGED toSender
  /\ UNCHANGED <<senderVars, toReceiver, network, events>>

ReceiverAsks ==
  /\ R!RequestStream /\ Send(toSender, "stream_request")
  /\ UNCHANGED <<senderVars, toReceiver, network, events>>

\* Mutant: a packet that the relay never sent is counted.
ReceiverCounts ==
  /\ R!ProbePacket(Relay)
  /\ UNCHANGED <<senderVars, queues, network, events>>

ReceiverProbed ==
  /\ wire > 0 /\ R!ProbePacket(Relay)
  /\ wire' = wire - 1
  /\ UNCHANGED <<senderVars, queues, answered, events>>

ReceiverConnected ==
  /\ sRtc[Viewer] # "new" /\ R!PcConnected(Relay)
  /\ UNCHANGED <<senderVars, queues, network, events>>

\* The viewer's steps that send and receive nothing.
ReceiverAlone ==
  /\ \/ \E t \in R!Thread : R!Store(t)
     \/ R!OnPcConnected(Relay)
     \/ R!LoopEnds \/ R!InitProbes \/ R!EnterProbing \/ R!ProbingEnds \/ R!ProbingFails
     \/ R!ProbingCompleted \/ R!SelectBestNode \/ R!SelectionFails \/ R!RequestFails
  /\ UNCHANGED <<senderVars, queues, network, events>>

ReceiverDisturbed ==
  /\ R!PcDown(Relay) \/ R!WaitTimesOut \/ R!ProbePhaseTimesOut
  /\ Event
  /\ UNCHANGED <<senderVars, queues, network>>

-----------------------------------------------------------------------------
SenderNext ==
  \/ \E w \in Socket :
       \/ SenderIsTold(w) \/ SenderOffers(w) \/ SenderAccepts(w) \/ SenderRefuses(w)
       \/ SenderProbes(w)
  \/ SenderEnds \/ SenderConnected \/ SenderAlone \/ SenderDisturbed

ReceiverNext ==
  \/ ReceiverIsTold \/ ReceiverAnswers \/ ReceiverProbes \/ ReceiverAsks
  \/ ReceiverProbed \/ ReceiverConnected \/ ReceiverAlone \/ ReceiverDisturbed

Next == ServerSends \/ SenderNext \/ ReceiverNext

Spec == Init /\ [][Next]_vars

-----------------------------------------------------------------------------
(***************************************************************************)
(* The viewer believes that it is streaming, and reports the peer to the   *)
(* player, only after the relay has accepted its request.  Neither the     *)
(* viewer's unlocked state, which moves backwards, nor the relay's         *)
(* refusals, which are silent, nor a trailer's message that the viewer     *)
(* cannot decode get it there.                                             *)
(***************************************************************************)
StreamingIsAgreed ==
  rState = R!STREAMING \/ rConn = "ready" => Viewer \in sAsked

(***************************************************************************)
(* Media is sent only to a viewer that asked this relay for it and has     *)
(* it selected: a relay that is started again on the old context, or that  *)
(* takes requests in any order, still never feeds a viewer that has not    *)
(* chosen it.                                                              *)
(***************************************************************************)
MediaIsWanted ==
  Viewer \in sFed => Relay \in rRequested /\ rSelected = Relay

(***************************************************************************)
(* The relay accepts a stream request without looking at the probe         *)
(* (p2p_rtp_mux.c:577 only reads the status).  With this viewer at the     *)
(* other end that is harmless: whoever is accepted was sent probe packets, *)
(* because the viewer asks only a node whose packets have arrived.         *)
(***************************************************************************)
AcceptedWasProbed == sAsked # {} => answered

(***************************************************************************)
(* Step by step, the two ends carry out StreamAgreement: whatever their    *)
(* threads, their unlocked states and the messages between them do, no     *)
(* step of the agreement is taken before the one it depends on, no two     *)
(* are taken at once, and none is taken back.                              *)
(***************************************************************************)
Agreement == INSTANCE StreamAgreement WITH
               probed   <- answered,
               chosen   <- rSelected = Relay,
               asked    <- Relay \in rRequested,
               accepted <- Viewer \in sAsked,
               fed      <- Viewer \in sFed,
               playing  <- rState = R!STREAMING \/ rConn = "ready"
ImplementsStreamAgreement == Agreement!Spec
=============================================================================
