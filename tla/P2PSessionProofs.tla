--------------------------- MODULE P2PSessionProofs ---------------------------
(***************************************************************************)
(* Proofs about P2PSession, for every bound on the queues and the          *)
(* environment's events: each end implements its component's               *)
(* specification, the viewer streams only with the relay's consent, and    *)
(* the relay feeds only a viewer that asked for it and was probed.         *)
(***************************************************************************)
EXTENDS P2PSession, TLAPS

USE SessionAssumption

In(type, queue) == \E i \in 1..Len(queue) : queue[i] = type

\* The parts of the state that the invariants speak of.
Types ==
  /\ sAsked \subseteq {Viewer} /\ sSelected \in {Viewer, S!None}
  /\ sAfter \in [Socket -> S!Rest \cup {S!Nothing}]
  /\ rSelected \in {Relay, R!None}
  /\ rReceived \in [{Relay} -> 0..ProbePackets]
  /\ rStoring \in [R!Thread -> R!ReceiverState \cup {R!NoStore}]
  /\ wire \in 0..ProbePackets
  /\ toSender \in Seq(TypeString) /\ toReceiver \in Seq(TypeString)

\* Inside the relay: from an accepted request to the packets.
RelayInv ==
  /\ sFed \subseteq sAsked
  /\ sSelected # S!None => Viewer \in sAsked
  /\ \A w \in Socket : sAfter[w].do = "select" => Viewer \in sAsked
  /\ sMain \in S!Started => sSelected # S!None

\* From the relay's probe packets to the viewer's choice.
ProbeInv ==
  (wire > 0 \/ rReceived[Relay] > 0 \/ rSelected = Relay) => answered

\* From the viewer's request, on its way to the relay, to the acceptance.
RequestInv ==
  In("stream_request", toSender) \/ sAsked # {} =>
    rSelected = Relay /\ Relay \in rRequested

\* From the acceptance, on its way back, to the viewer's state.
ReadyInv ==
  \/ Viewer \in sAsked
  \/ /\ ~In("stream_ready", toReceiver)
     /\ \A t \in R!Thread : rStoring[t] # R!STREAMING
     /\ rState # R!STREAMING
     /\ rConn # "ready"

Inv == Types /\ RelayInv /\ ProbeInv /\ RequestInv /\ ReadyInv

-----------------------------------------------------------------------------
(* The queues.                                                              *)

\* What is in a queue after a message was sent was there or is that message.
LEMMA SentIn ==
  ASSUME NEW q \in Seq(TypeString), NEW type \in TypeString, NEW other
  PROVE  /\ Append(q, type) \in Seq(TypeString)
         /\ In(other, Append(q, type)) => In(other, q) \/ other = type
BY DEF In

\* What is in a queue after a message was taken was there before.
LEMMA TakenIn ==
  ASSUME NEW q \in Seq(TypeString), q # << >>, NEW other, In(other, Tail(q))
  PROVE  In(other, q)
<1>1. PICK i \in 1..Len(Tail(q)) : Tail(q)[i] = other
  BY DEF In
<1>2. i + 1 \in 1..Len(q) /\ q[i + 1] = other
  BY <1>1
<1> QED
  BY <1>2 DEF In

\* The head of a queue, if it is decoded to a type other than "error", is that type.
LEMMA HeadIn ==
  ASSUME NEW q \in Seq(TypeString), q # << >>, NEW type, Decoded(Head(q)) = type,
         type # "error"
  PROVE  In(type, q)
<1>1. q[1] = type /\ 1 \in 1..Len(q)
  BY DEF Decoded
<1> QED
  BY <1>1 DEF In

-----------------------------------------------------------------------------
(* Each end takes the steps of its component.                               *)

\* Every step is one of P2PSender's, or leaves the relay alone.
LEMMA SenderSteps ==
  ASSUME [Next]_vars
  PROVE  [S!Next]_(S!vars)
<1>1. senderVars' = senderVars => UNCHANGED S!vars
  BY DEF senderVars, S!vars, S!stateVars, S!nodeVars, S!history
<1>2. ASSUME NEW w \in Socket,
             \/ SenderIsTold(w) \/ SenderOffers(w) \/ SenderAccepts(w) \/ SenderRefuses(w)
             \/ SenderProbes(w)
      PROVE  S!Handler(w) \/ S!HandlerGoesOn(w) \/ UNCHANGED S!vars
  BY <1>1, <1>2 DEF SenderIsTold, SenderOffers, SenderAccepts, SenderRefuses, SenderProbes,
                    S!Handler, S!HandlerGoesOn
<1>3. ASSUME SenderEnds \/ SenderConnected \/ SenderAlone \/ SenderDisturbed
      PROVE  S!Next
  BY <1>3 DEF SenderEnds, SenderConnected, SenderAlone, SenderDisturbed, S!Next,
              S!HandlerGoesOn, S!MainThread
<1>4. ReceiverNext \/ ServerSends => UNCHANGED S!vars
  BY <1>1 DEF ReceiverNext, ServerSends, ReceiverIsTold, ReceiverAnswers, ReceiverProbes,
              ReceiverAsks, ReceiverProbed, ReceiverConnected, ReceiverAlone,
              ReceiverDisturbed
<1> QED
  BY <1>1, <1>2, <1>3, <1>4 DEF Next, SenderNext, vars, S!Next

\* Every step is one of P2PReceiver's, or leaves the viewer alone.
LEMMA ReceiverSteps ==
  ASSUME [Next]_vars
  PROVE  [R!Next]_(R!vars)
<1>1. receiverVars' = receiverVars => UNCHANGED R!vars
  BY DEF receiverVars, R!vars, R!stateVars, R!nodeVars, R!probeVars, R!timeVars
<1>2. ASSUME ReceiverIsTold \/ ReceiverAnswers
      PROVE  R!Messages
  BY <1>2 DEF ReceiverIsTold, ReceiverAnswers, R!Messages
<1>3. ASSUME \/ ReceiverProbes \/ ReceiverAsks \/ ReceiverProbed \/ ReceiverConnected
             \/ ReceiverAlone \/ ReceiverDisturbed
      PROVE  R!Next
  BY <1>3 DEF ReceiverProbes, ReceiverAsks, ReceiverProbed, ReceiverConnected,
              ReceiverAlone, ReceiverDisturbed, R!Next, R!ConnectThread, R!Callbacks
<1>4. SenderNext \/ ServerSends => UNCHANGED R!vars
  BY <1>1 DEF SenderNext, ServerSends, SenderIsTold, SenderOffers, SenderAccepts,
              SenderRefuses, SenderProbes, SenderEnds, SenderConnected, SenderAlone,
              SenderDisturbed
<1> QED
  BY <1>1, <1>2, <1>3, <1>4 DEF Next, ReceiverNext, vars, R!Next

-----------------------------------------------------------------------------
(* What the components' steps do to the parts that the invariants speak of. *)

RelayTypes ==
  /\ sAsked \subseteq {Viewer} /\ sSelected \in {Viewer, S!None}
  /\ sAfter \in [Socket -> S!Rest \cup {S!Nothing}]

\* The relay's step: only an accepted request adds to sAsked, and RelayInv is kept.
LEMMA RelayStep ==
  ASSUME RelayTypes, RelayInv, [S!Next]_(S!vars)
  PROVE  /\ RelayTypes' /\ RelayInv'
         /\ sAsked \subseteq sAsked'
         /\ sAsked' = sAsked \/ \E w \in Socket : S!StreamRequest(w, Viewer)
<1> USE DEF RelayTypes, RelayInv, S!stateVars, S!nodeVars, S!history
<1>0. /\ Viewer # S!None /\ S!Nothing.do = S!None
      /\ S!Nothing \in S!Rest \cup {S!Nothing}
      /\ \A d \in {"watch", "probe", "select"} :
            [do |-> d, node |-> Viewer] \in S!Rest \cup {S!Nothing}
      /\ S!Nothing.do # "select"
  BY DEF S!Nothing, S!Rest, S!None
<1>1. CASE UNCHANGED S!vars
  BY <1>1 DEF S!vars
<1>2. ASSUME NEW t \in S!Thread, S!InSetState(t)
      PROVE  RelayTypes' /\ RelayInv' /\ sAsked' = sAsked
  BY <1>2 DEF S!InSetState, S!LockAndTest, S!Store, S!Unlock, S!Started
<1>3. ASSUME NEW w \in Socket,
             \/ S!RoomJoined(w) \/ S!ErrorMessage(w)
             \/ S!ConnectRequest(w, Viewer) \/ S!ConnectRequestFails(w, Viewer)
             \/ S!Answer(w, Viewer)
      PROVE  RelayTypes' /\ RelayInv' /\ sAsked' = sAsked
  BY <1>3 DEF S!RoomJoined, S!ErrorMessage, S!ConnectRequest, S!ConnectRequestFails, S!Answer
<1>4. ASSUME NEW w \in Socket, S!Offer(w, Viewer) \/ S!ProbeRequest(w, Viewer)
      PROVE  RelayTypes' /\ RelayInv' /\ sAsked' = sAsked
  <2>1. UNCHANGED <<sAsked, sFed, sSelected, sMain>>
    BY <1>4 DEF S!Offer, S!ProbeRequest
  <2>2. PICK d \in {"watch", "probe"} :
               sAfter' = [sAfter EXCEPT ![w] = [do |-> d, node |-> Viewer]]
    BY <1>4 DEF S!Offer, S!ProbeRequest
  <2>3. sAfter' \in [Socket -> S!Rest \cup {S!Nothing}]
    BY <1>0, <2>2
  <2>4. \A v \in Socket : sAfter'[v].do = "select" => sAfter[v].do = "select"
    BY <2>2
  <2> QED
    BY <2>1, <2>3, <2>4
<1>5. ASSUME NEW w \in Socket, S!StreamRequest(w, Viewer)
      PROVE  RelayTypes' /\ RelayInv' /\ sAsked \subseteq sAsked'
  BY <1>0, <1>5 DEF S!StreamRequest
<1>6. ASSUME NEW w \in Socket, S!WatchConnection(w) \/ S!SendProbePackets(w)
      PROVE  RelayTypes' /\ RelayInv' /\ sAsked' = sAsked
  BY <1>0, <1>6 DEF S!WatchConnection, S!SendProbePackets
<1>7. ASSUME NEW w \in Socket, S!SelectNode(w)
      PROVE  RelayTypes' /\ RelayInv' /\ sAsked' = sAsked
  <2>1. sAfter[w].node = Viewer
    BY <1>7 DEF S!SelectNode, S!Rest, S!Nothing, S!None
  <2> QED
    BY <1>0, <1>7, <2>1 DEF S!SelectNode
<1>8. ASSUME S!PcConnected(Viewer) \/ S!PcDown(Viewer)
      PROVE  RelayTypes' /\ RelayInv' /\ sAsked' = sAsked
  BY <1>8 DEF S!PcConnected, S!PcDown
<1>9. ASSUME \/ S!MainThread \/ S!DeadlinePasses \/ S!SpuriousWakeup \/ S!WritePacket
             \/ S!WriteTrailer
      PROVE  RelayTypes' /\ RelayInv' /\ sAsked' = sAsked
  BY <1>9 DEF S!MainThread, S!JoinRoom, S!CheckState, S!WaitForReceiver, S!WaitTimesOut,
              S!Woken, S!WriteHeader, S!FeedNode, S!Deinit, S!Retry, S!DeadlinePasses,
              S!SpuriousWakeup, S!WritePacket, S!WriteTrailer, S!Started
<1> QED
  BY <1>1, <1>2, <1>3, <1>4, <1>5, <1>6, <1>7, <1>8, <1>9
     DEF S!Next, S!Handler, S!HandlerGoesOn

ViewerTypes ==
  /\ rSelected \in {Relay, R!None}
  /\ rReceived \in [{Relay} -> 0..ProbePackets]
  /\ rStoring \in [R!Thread -> R!ReceiverState \cup {R!NoStore}]

\* The viewer's steps other than a probe packet and STREAM_READY.
ViewerOther ==
  \/ \E t \in R!Thread : R!Store(t)
  \/ R!RoomJoined \/ R!ErrorMessage \/ R!ConnectRequest(Relay) \/ R!Offer(Relay)
  \/ R!PcConnected(Relay) \/ R!PcDown(Relay) \/ R!OnPcConnected(Relay)
  \/ R!ConnectThread \/ R!RequestFails \/ R!WaitTimesOut \/ R!ProbePhaseTimesOut

\* They count no packet and bring STREAMING no nearer; a node is selected only if
\* it has packets.
ViewerEffect ==
  /\ ViewerTypes'
  /\ rSelected' = rSelected \/ (rSelected' = Relay /\ rReceived[Relay] > 0)
  /\ rRequested \subseteq rRequested'
  /\ rReceived'[Relay] > 0 => rReceived[Relay] > 0
  /\ \A t \in R!Thread : rStoring'[t] = R!STREAMING => rStoring[t] = R!STREAMING
  /\ rState' = R!STREAMING =>
       rState = R!STREAMING \/ \E t \in R!Thread : rStoring[t] = R!STREAMING
  /\ rConn' = "ready" => rConn = "ready" \/ rState = R!STREAMING

\* A call of p2p_set_receiver_state prepares to store its argument or nothing.
LEMMA ViewerSets ==
  ASSUME ViewerTypes, NEW t \in R!Thread, NEW s \in R!ReceiverState, R!SetState(t, s)
  PROVE  /\ rStoring' \in [R!Thread -> R!ReceiverState \cup {R!NoStore}]
         /\ \A u \in R!Thread : rStoring'[u] = R!STREAMING =>
              rStoring[u] = R!STREAMING \/ s = R!STREAMING
         /\ rState' = rState
BY DEF ViewerTypes, R!SetState, R!NoStore, R!STREAMING

\* The effect of these steps is as announced.
LEMMA ViewerStep ==
  ASSUME ViewerTypes, ViewerOther \/ UNCHANGED R!vars
  PROVE  ViewerEffect
<1> USE DEF ViewerEffect, ViewerTypes
<1>0. /\ {"ws", "connect", Relay} = R!Thread
      /\ \A s \in {R!JOINING_ROOM, R!WAITING_FOR_SENDER, R!SIGNALING, R!DATACHANNEL_READY,
                   R!PROBING, R!PROBE_COMPLETED, R!REQUESTING_STREAM, R!ERROR} :
           s \in R!ReceiverState /\ s # R!STREAMING
      /\ R!STREAMING \in R!ReceiverState
  BY DEF R!Thread, R!ReceiverState, R!JOINING_ROOM, R!WAITING_FOR_SENDER, R!SIGNALING,
         R!DATACHANNEL_READY, R!PROBING, R!PROBE_COMPLETED, R!REQUESTING_STREAM, R!ERROR,
         R!STREAMING
<1>1. CASE UNCHANGED R!vars
  BY <1>1 DEF R!vars, R!stateVars, R!probeVars
<1>2. ASSUME NEW t \in R!Thread, R!Store(t)
      PROVE  ViewerEffect
  BY <1>2 DEF R!Store, R!NoStore, R!probeVars, R!STREAMING
<1>3. CASE R!RoomJoined \/ R!ErrorMessage \/ R!ConnectRequest(Relay) \/ R!Offer(Relay)
  BY <1>0, <1>3, ViewerSets DEF R!RoomJoined, R!ErrorMessage, R!ConnectRequest, R!Offer,
                                R!nodeVars, R!probeVars
<1>4. CASE R!PcConnected(Relay) \/ R!PcDown(Relay)
  BY <1>4 DEF R!PcConnected, R!PcDown, R!stateVars, R!probeVars
<1>5. CASE R!OnPcConnected(Relay)
  <2>1. rReceived' = [rReceived EXCEPT ![Relay] = 0] /\ 0 \in 0..ProbePackets
    BY <1>5 DEF R!OnPcConnected
  <2>2. rReceived' \in [{Relay} -> 0..ProbePackets] /\ rReceived'[Relay] = 0
    BY <2>1
  <2>3. R!SetState(Relay, R!DATACHANNEL_READY) /\ Relay \in R!Thread
    BY <1>5 DEF R!OnPcConnected, R!Thread
  <2>4. /\ rStoring' \in [R!Thread -> R!ReceiverState \cup {R!NoStore}]
        /\ \A u \in R!Thread : rStoring'[u] = R!STREAMING => rStoring[u] = R!STREAMING
        /\ rState' = rState
    BY <1>0, <2>3, ViewerSets
  <2> QED
    BY <1>5, <2>2, <2>4 DEF R!OnPcConnected
<1>6. CASE R!LoopEnds \/ R!InitProbes \/ R!EnterProbing \/ R!ProbingEnds
  BY <1>6 DEF R!LoopEnds, R!InitProbes, R!EnterProbing, R!ProbingEnds, R!At, R!InState,
              R!stateVars, R!nodeVars, R!probeVars
<1>7. CASE R!SendProbes
  BY <1>0, <1>7, ViewerSets DEF R!SendProbes, R!At, R!stateVars
<1>8. CASE R!ProbingFails \/ R!SelectionFails \/ R!RequestFails
  BY <1>0, <1>8, ViewerSets DEF R!ProbingFails, R!SelectionFails, R!RequestFails, R!Fail,
                                R!probeVars
<1>9. CASE R!ProbingCompleted
  BY <1>0, <1>9, ViewerSets DEF R!ProbingCompleted, R!stateVars, R!probeVars
<1>10. CASE R!SelectBestNode
  BY <1>0, <1>10, ViewerSets DEF R!SelectBestNode, R!BestNodes, R!probeVars
<1>11. CASE R!RequestStream
  BY <1>11 DEF R!RequestStream, R!stateVars, R!probeVars
<1>12. CASE R!WaitTimesOut \/ R!ProbePhaseTimesOut
  BY <1>12 DEF R!WaitTimesOut, R!ProbePhaseTimesOut, R!stateVars, R!probeVars
<1> QED
  BY <1>1, <1>2, <1>3, <1>4, <1>5, <1>6, <1>7, <1>8, <1>9, <1>10, <1>11, <1>12
     DEF ViewerOther, R!ConnectThread

-----------------------------------------------------------------------------
(* The session.                                                             *)

\* Every step of the session is the viewer's STREAM_READY, a probe packet, or
\* one of the viewer's other steps.
LEMMA ViewerKinds ==
  ASSUME [Next]_vars
  PROVE  \/ ReceiverProbed
         \/ Take(toReceiver, "stream_ready") /\ R!StreamReady(Relay)
         \/ ViewerOther \/ UNCHANGED R!vars
<1>1. SenderNext \/ ServerSends \/ UNCHANGED vars => receiverVars' = receiverVars
  BY DEF SenderNext, ServerSends, SenderIsTold, SenderOffers, SenderAccepts,
         SenderRefuses, SenderProbes, SenderEnds, SenderConnected, SenderAlone,
         SenderDisturbed, vars
<1>2. receiverVars' = receiverVars => UNCHANGED R!vars
  BY DEF receiverVars, R!vars, R!stateVars, R!nodeVars, R!probeVars, R!timeVars
<1>3. CASE ReceiverIsTold
  BY <1>3 DEF ReceiverIsTold, ViewerOther
<1>4. CASE \/ ReceiverAnswers \/ ReceiverProbes \/ ReceiverAsks \/ ReceiverConnected
           \/ ReceiverAlone \/ ReceiverDisturbed
  BY <1>4 DEF ReceiverAnswers, ReceiverProbes, ReceiverAsks, ReceiverConnected, ReceiverAlone,
         ReceiverDisturbed, ViewerOther, R!ConnectThread
<1> QED
  BY <1>1, <1>2, <1>3, <1>4 DEF Next, ReceiverNext

\* A stream request on its way comes from a viewer that has selected the relay.
LEMMA ToSenderStep ==
  ASSUME Types, [Next]_vars
  PROVE  /\ toSender' \in Seq(TypeString)
         /\ In("stream_request", toSender') =>
              In("stream_request", toSender) \/ (R!RequestStream /\ rSelected = Relay)
<1> USE DEF Types
<1>1. CASE UNCHANGED toSender
  BY <1>1 DEF In
<1>2. ASSUME NEW type \in TypeString \ {"stream_request"}, toSender' = Append(toSender, type)
      PROVE  /\ toSender' \in Seq(TypeString)
             /\ In("stream_request", toSender') => In("stream_request", toSender)
  <2>1. type \in TypeString /\ type # "stream_request"
    OBVIOUS
  <2>2. /\ Append(toSender, type) \in Seq(TypeString)
        /\ In("stream_request", Append(toSender, type)) => In("stream_request", toSender)
    BY <2>1, SentIn
  <2> QED
    BY <1>2, <2>2
<1>3. ASSUME NEW type, Take(toSender, type)
      PROVE  /\ toSender' \in Seq(TypeString)
             /\ In("stream_request", toSender') => In("stream_request", toSender)
  BY <1>3, TakenIn DEF Take
<1>4. CASE ReceiverAsks
  <2>1. toSender' = Append(toSender, "stream_request") /\ "stream_request" \in TypeString
    BY <1>4 DEF ReceiverAsks, Send, TypeString, Known
  <2>2. R!RequestStream /\ rSelected = Relay
    BY <1>4 DEF ReceiverAsks, R!RequestStream
  <2> QED
    BY <2>1, <2>2, SentIn
<1>5. CASE ReceiverProbes \/ ReceiverAnswers
  <2>1. /\ "probe_request" \in TypeString \ {"stream_request"}
        /\ "answer" \in TypeString \ {"stream_request"}
    BY DEF TypeString, Known
  <2> QED
    BY <1>1, <1>2, <1>5, <2>1 DEF ReceiverProbes, ReceiverAnswers, Send
<1>6. CASE ServerSends
  <2>1. FromServer \subseteq TypeString \ {"stream_request"}
    BY DEF FromServer, TypeString, Known
  <2> QED
    BY <1>1, <1>2, <1>6, <2>1 DEF ServerSends, Send
<1>7. CASE \E w \in Socket : \/ SenderIsTold(w) \/ SenderOffers(w) \/ SenderAccepts(w)
                             \/ SenderRefuses(w)
  BY <1>3, <1>7 DEF SenderIsTold, SenderOffers, SenderAccepts, SenderRefuses
<1>8. CASE \/ \E w \in Socket : SenderProbes(w)
           \/ SenderEnds \/ SenderConnected \/ SenderAlone \/ SenderDisturbed
           \/ ReceiverIsTold \/ ReceiverProbed \/ ReceiverConnected \/ ReceiverAlone
           \/ ReceiverDisturbed \/ UNCHANGED vars
  BY <1>1, <1>8 DEF SenderProbes, SenderEnds, SenderConnected, SenderAlone,
                    SenderDisturbed, ReceiverIsTold, ReceiverProbed, ReceiverConnected,
                    ReceiverAlone, ReceiverDisturbed, queues, vars
<1> QED
  BY <1>4, <1>5, <1>6, <1>7, <1>8 DEF Next, SenderNext, ReceiverNext

\* A STREAM_READY on its way comes from a relay that has accepted a request.
LEMMA ToReceiverStep ==
  ASSUME Types, [Next]_vars
  PROVE  /\ toReceiver' \in Seq(TypeString)
         /\ In("stream_ready", toReceiver') =>
              In("stream_ready", toReceiver) \/ Viewer \in sAsked'
<1> USE DEF Types
<1>1. CASE UNCHANGED toReceiver
  BY <1>1 DEF In
<1>2. ASSUME NEW type \in TypeString \ {"stream_ready"}, toReceiver' = Append(toReceiver, type)
      PROVE  /\ toReceiver' \in Seq(TypeString)
             /\ In("stream_ready", toReceiver') => In("stream_ready", toReceiver)
  <2>1. type \in TypeString /\ type # "stream_ready"
    OBVIOUS
  <2>2. /\ Append(toReceiver, type) \in Seq(TypeString)
        /\ In("stream_ready", Append(toReceiver, type)) => In("stream_ready", toReceiver)
    BY <2>1, SentIn
  <2> QED
    BY <1>2, <2>2
<1>3. ASSUME NEW type, Take(toReceiver, type)
      PROVE  /\ toReceiver' \in Seq(TypeString)
             /\ In("stream_ready", toReceiver') => In("stream_ready", toReceiver)
  BY <1>3, TakenIn DEF Take
<1>4. CASE \E w \in Socket : SenderAccepts(w)
  <2>1. toReceiver' = Append(toReceiver, "stream_ready") /\ "stream_ready" \in TypeString
    BY <1>4 DEF SenderAccepts, Send, TypeString, Known
  <2>2. Viewer \in sAsked'
    BY <1>4 DEF SenderAccepts, S!StreamRequest
  <2> QED
    BY <2>1, <2>2, SentIn
<1>5. CASE SenderEnds \/ \E w \in Socket : SenderOffers(w)
  <2>1. /\ "stream_end" \in TypeString \ {"stream_ready"}
        /\ "offer" \in TypeString \ {"stream_ready"}
    BY DEF TypeString, Known
  <2> QED
    BY <1>1, <1>2, <1>5, <2>1 DEF SenderEnds, SenderOffers, Send
<1>6. CASE ServerSends
  <2>1. FromServer \subseteq TypeString \ {"stream_ready"}
    BY DEF FromServer, TypeString, Known
  <2> QED
    BY <1>1, <1>2, <1>6, <2>1 DEF ServerSends, Send
<1>7. CASE ReceiverIsTold \/ ReceiverAnswers
  BY <1>3, <1>7 DEF ReceiverIsTold, ReceiverAnswers
<1>8. CASE \/ \E w \in Socket : SenderIsTold(w) \/ SenderRefuses(w) \/ SenderProbes(w)
           \/ SenderConnected \/ SenderAlone \/ SenderDisturbed
           \/ ReceiverProbes \/ ReceiverAsks \/ ReceiverProbed \/ ReceiverConnected
           \/ ReceiverAlone \/ ReceiverDisturbed \/ UNCHANGED vars
  BY <1>1, <1>8 DEF SenderIsTold, SenderRefuses, SenderProbes, SenderConnected,
                    SenderAlone, SenderDisturbed, ReceiverProbes, ReceiverAsks,
                    ReceiverProbed, ReceiverConnected, ReceiverAlone, ReceiverDisturbed,
                    queues, vars
<1> QED
  BY <1>4, <1>5, <1>6, <1>7, <1>8 DEF Next, SenderNext, ReceiverNext

\* Packets get onto the wire only if the relay sends them.
LEMMA WireStep ==
  ASSUME Types, [Next]_vars
  PROVE  /\ wire' \in 0..ProbePackets
         /\ wire' > 0 => wire > 0 \/ answered'
         /\ answered => answered'
<1> USE DEF Types
<1>1. CASE \E w \in Socket : SenderProbes(w)
  <2>1. /\ wire' \in wire..ProbePackets \/ wire' = wire
        /\ answered' = (answered \/ wire' > wire)
    BY <1>1 DEF SenderProbes
  <2>2. wire' \in 0..ProbePackets /\ (wire' > 0 => wire > 0 \/ wire' > wire)
    BY <2>1
  <2>3. (answered => answered') /\ (wire' > wire => answered')
    BY <2>1, Zenon
  <2> QED
    BY <2>2, <2>3
<1>2. CASE ReceiverProbed
  BY <1>2 DEF ReceiverProbed
<1>3. CASE UNCHANGED network
  BY <1>3 DEF network
<1>4. ASSUME
      \/ ServerSends \/ SenderEnds \/ SenderConnected \/ SenderAlone \/ SenderDisturbed
      \/ \E w \in Socket : \/ SenderIsTold(w) \/ SenderOffers(w) \/ SenderAccepts(w)
                           \/ SenderRefuses(w)
      \/ ReceiverIsTold \/ ReceiverAnswers \/ ReceiverProbes \/ ReceiverAsks
      \/ ReceiverConnected \/ ReceiverAlone \/ ReceiverDisturbed \/ UNCHANGED vars
      PROVE  UNCHANGED network
  BY <1>4 DEF ServerSends, SenderEnds, SenderConnected, SenderAlone, SenderDisturbed,
         SenderIsTold, SenderOffers, SenderAccepts, SenderRefuses, ReceiverIsTold,
         ReceiverAnswers, ReceiverProbes, ReceiverAsks, ReceiverConnected, ReceiverAlone,
         ReceiverDisturbed, vars
<1> QED
  BY <1>1, <1>2, <1>3, <1>4 DEF Next, SenderNext, ReceiverNext

\* A stream request is accepted only when it is taken from the queue.
LEMMA AcceptStep ==
  ASSUME Types, RelayInv, [Next]_vars
  PROVE  /\ RelayTypes' /\ RelayInv' /\ sAsked \subseteq sAsked'
         /\ sAsked' = sAsked \/ In("stream_request", toSender)
<1>1. RelayTypes /\ [S!Next]_(S!vars)
  BY SenderSteps DEF Types, RelayTypes
<1>2. RelayTypes' /\ RelayInv' /\ sAsked \subseteq sAsked'
  BY <1>1, RelayStep
<1>3. ASSUME NEW w \in Socket, SenderAccepts(w) PROVE In("stream_request", toSender)
  BY <1>3, HeadIn DEF SenderAccepts, Take, Types
<1>4. ASSUME NEW w \in Socket, SenderIsTold(w) \/ SenderOffers(w) \/ SenderProbes(w)
      PROVE  sAsked' = sAsked
  BY <1>4 DEF SenderIsTold, SenderOffers, SenderProbes, S!RoomJoined, S!ErrorMessage,
              S!Answer, S!ProbeRequest, S!ConnectRequest, S!ConnectRequestFails,
              S!SendProbePackets, S!history
<1>5. ASSUME SenderEnds \/ SenderConnected \/ SenderDisturbed PROVE sAsked' = sAsked
  BY <1>5 DEF SenderEnds, SenderConnected, SenderDisturbed, S!WriteTrailer, S!PcConnected,
              S!PcDown, S!DeadlinePasses, S!SpuriousWakeup, S!Retry, S!history
<1>6. ASSUME SenderAlone PROVE sAsked' = sAsked
  BY <1>6 DEF SenderAlone, S!InSetState, S!LockAndTest, S!Store, S!Unlock, S!SelectNode,
              S!JoinRoom, S!CheckState, S!WaitForReceiver, S!WaitTimesOut, S!Woken,
              S!WriteHeader, S!WritePacket, S!FeedNode, S!Deinit, S!history
<1>7. ASSUME \/ ServerSends \/ ReceiverNext \/ UNCHANGED vars
             \/ \E w \in Socket : SenderRefuses(w)
      PROVE  senderVars' = senderVars
  BY <1>7 DEF ServerSends, ReceiverNext, ReceiverIsTold, ReceiverAnswers, ReceiverProbes,
         ReceiverAsks, ReceiverProbed, ReceiverConnected, ReceiverAlone,
         ReceiverDisturbed, SenderRefuses, vars
<1> QED
  BY <1>2, <1>3, <1>4, <1>5, <1>6, <1>7 DEF Next, SenderNext, senderVars

\* The initial states satisfy the invariant.
LEMMA Initially == Init => Inv
<1> USE DEF Init, S!Init, R!Init
<1>1. R!JOINING_ROOM \in R!ReceiverState /\ R!JOINING_ROOM # R!STREAMING
  BY DEF R!ReceiverState, R!JOINING_ROOM, R!STREAMING
<1>2. /\ S!Nothing.do # "select" /\ R!NoStore # R!STREAMING
      /\ 0 \in 0..ProbePackets /\ << >> \in Seq(TypeString)
  BY DEF S!Nothing, S!None, R!NoStore, R!STREAMING
<1>3. ASSUME Init PROVE Types
  BY <1>2, <1>3 DEF Types
<1>4. ASSUME Init PROVE RelayInv
  BY <1>2, <1>4 DEF RelayInv, S!Started
<1>5. ASSUME Init PROVE ProbeInv
  BY <1>5 DEF ProbeInv, R!None
<1>6. ASSUME Init PROVE RequestInv /\ ReadyInv
  BY <1>1, <1>2, <1>6 DEF RequestInv, ReadyInv, In
<1> QED
  BY <1>3, <1>4, <1>5, <1>6 DEF Inv

\* What the three kinds of step do to the viewer: a choice needs packets, packets
\* need the wire, and STREAMING needs the relay's message.
LEMMA ViewerChanges ==
  ASSUME Types, [Next]_vars
  PROVE  /\ ViewerTypes'
         /\ rSelected' = rSelected \/ (rSelected' = Relay /\ rReceived[Relay] > 0)
         /\ rRequested \subseteq rRequested'
         /\ rReceived'[Relay] > 0 => rReceived[Relay] > 0 \/ wire > 0
         /\ \A t \in R!Thread : rStoring'[t] = R!STREAMING =>
              rStoring[t] = R!STREAMING \/ In("stream_ready", toReceiver)
         /\ rState' = R!STREAMING =>
              rState = R!STREAMING \/ \E t \in R!Thread : rStoring[t] = R!STREAMING
         /\ rConn' = "ready" => rConn = "ready" \/ rState = R!STREAMING
<1>0. ViewerTypes
  BY DEF Types, ViewerTypes
<1>1. CASE ReceiverProbed
  <2>1. wire > 0 /\ R!ProbePacket(Relay)
    BY <1>1 DEF ReceiverProbed
  <2>2. /\ rReceived[Relay] < ProbePackets
        /\ rReceived' = [rReceived EXCEPT ![Relay] = @ + 1]
        /\ UNCHANGED <<rConn, rState, rStoring, rSelected, rRequested>>
    BY <2>1 DEF R!ProbePacket, R!stateVars
  <2>3. rReceived' \in [{Relay} -> 0..ProbePackets]
    BY <1>0, <2>2 DEF ViewerTypes
  <2> QED
    BY <1>0, <2>1, <2>2, <2>3 DEF ViewerTypes
<1>2. CASE Take(toReceiver, "stream_ready") /\ R!StreamReady(Relay)
  <2>1. In("stream_ready", toReceiver)
    BY <1>2, HeadIn DEF Take, Types
  <2>2. /\ R!SetState("ws", R!STREAMING)
        /\ UNCHANGED <<rConn, rReceived, rSelected, rRequested>>
    BY <1>2 DEF R!StreamReady, R!probeVars
  <2>3. "ws" \in R!Thread /\ R!STREAMING \in R!ReceiverState
    BY DEF R!Thread, R!ReceiverState, R!STREAMING
  <2>4. rStoring' \in [R!Thread -> R!ReceiverState \cup {R!NoStore}] /\ rState' = rState
    BY <1>0, <2>2, <2>3, ViewerSets
  <2> QED
    BY <1>0, <2>1, <2>2, <2>4 DEF ViewerTypes
<1>3. CASE ViewerOther \/ UNCHANGED R!vars
  BY <1>0, <1>3, ViewerStep DEF ViewerEffect
<1> QED
  BY <1>1, <1>2, <1>3, ViewerKinds

\* Every step keeps the invariant.
LEMMA Inductive ==
  ASSUME Inv, [Next]_vars
  PROVE  Inv'
<1> USE DEF Inv
<1>1. /\ RelayTypes' /\ RelayInv' /\ sAsked \subseteq sAsked'
      /\ sAsked' = sAsked \/ In("stream_request", toSender)
  BY AcceptStep
<1>2. /\ wire' \in 0..ProbePackets
      /\ wire' > 0 => wire > 0 \/ answered'
      /\ answered => answered'
  BY WireStep
<1>3. ViewerTypes'
  BY ViewerChanges
<1>4. Types'
  BY <1>1, <1>2, <1>3, ToSenderStep, ToReceiverStep DEF Types, RelayTypes, ViewerTypes
<1>5. ProbeInv'
  BY <1>2, ViewerChanges DEF ProbeInv
<1>6. RequestInv'
  <2>1. SUFFICES ASSUME In("stream_request", toSender') \/ sAsked' # {}
                 PROVE  rSelected' = Relay /\ Relay \in rRequested'
    BY DEF RequestInv, In
  <2>2. \/ In("stream_request", toSender) \/ sAsked # {}
        \/ R!RequestStream /\ rSelected = Relay
    BY <1>1, <2>1, ToSenderStep
  <2>3. CASE R!RequestStream /\ rSelected = Relay
    BY <2>3 DEF R!RequestStream
  <2>4. CASE In("stream_request", toSender) \/ sAsked # {}
    BY <2>4, ViewerChanges DEF RequestInv
  <2> QED
    BY <2>2, <2>3, <2>4
<1>7. ReadyInv'
  <2>1. SUFFICES ASSUME \/ In("stream_ready", toReceiver')
                        \/ \E t \in R!Thread : rStoring'[t] = R!STREAMING
                        \/ rState' = R!STREAMING
                        \/ rConn' = "ready"
                 PROVE  Viewer \in sAsked'
    BY DEF ReadyInv, In, R!Thread, R!STREAMING
  <2>2. \/ Viewer \in sAsked'
        \/ In("stream_ready", toReceiver)
        \/ \E t \in R!Thread : rStoring[t] = R!STREAMING
        \/ rState = R!STREAMING
        \/ rConn = "ready"
    BY <2>1, ToReceiverStep, ViewerChanges
  <2> QED
    BY <1>1, <2>2 DEF ReadyInv
<1> QED
  BY <1>1, <1>4, <1>5, <1>6, <1>7

-----------------------------------------------------------------------------
(* The results.                                                             *)

\* In every reachable state, the invariant holds.
THEOREM Invariant == Spec => []Inv
<1>1. Init => Inv
  BY Initially
<1>2. Inv /\ [Next]_vars => Inv'
  BY Inductive
<1> QED
  BY <1>1, <1>2, PTL DEF Spec

\* The viewer reaches STREAMING, and p2p_rtp_connect_thread returns success, only
\* after p2p_rtp_mux_signal_handler has accepted its STREAM_REQUEST.
THEOREM StreamingAgreed == Spec => []StreamingIsAgreed
<1>1. Inv => StreamingIsAgreed
  BY DEF Inv, ReadyInv, StreamingIsAgreed
<1> QED
  BY <1>1, Invariant, PTL

\* p2p_rtp_muxer_write_packet writes only to a viewer that has selected this relay
\* and sent it a STREAM_REQUEST.
THEOREM MediaWanted == Spec => []MediaIsWanted
<1>1. Inv => MediaIsWanted
  BY DEF Inv, RelayInv, RequestInv, MediaIsWanted
<1> QED
  BY <1>1, Invariant, PTL

\* A STREAM_REQUEST is accepted only from a viewer to which send_probe_packets has
\* sent a packet, although the relay does not check it.
THEOREM AcceptedProbed == Spec => []AcceptedWasProbed
<1>1. Inv => AcceptedWasProbed
  BY DEF Inv, ProbeInv, RequestInv, AcceptedWasProbed
<1> QED
  BY <1>1, Invariant, PTL

\* The relay's part of every session is a behaviour of P2PSender, so that what is
\* proved of P2PSender holds of it.
THEOREM SenderImplemented == Spec => S!Spec
<1>1. Init => S!Init
  BY DEF Init
<1>2. [Next]_vars => [S!Next]_(S!vars)
  BY SenderSteps
<1> QED
  BY <1>1, <1>2, PTL DEF Spec, S!Spec

\* The viewer's part of every session is a behaviour of P2PReceiver.
THEOREM ReceiverImplemented == Spec => R!Spec
<1>1. Init => R!Init
  BY DEF Init
<1>2. [Next]_vars => [R!Next]_(R!vars)
  BY ReceiverSteps
<1> QED
  BY <1>1, <1>2, PTL DEF Spec, R!Spec

-----------------------------------------------------------------------------
(***************************************************************************)
(* What was proved of each end by itself holds of it in a session: the     *)
(* theorems of the component's proof module are taken over, with the       *)
(* session's variables in the place of the component's.                    *)
(***************************************************************************)
SP == INSTANCE P2PSenderProofs WITH
        Receiver <- {Viewer}, main <- sMain, late <- sLate, current_state <- sState,
        mutex <- sMutex, step <- sStep, target <- sTarget, open <- sOpen, after <- sAfter,
        status <- sStatus, rtc <- sRtc, watched <- sWatched, track <- sTrack,
        probe <- sProbe, selected_node <- sSelected, asked <- sAsked, fed <- sFed

RP == INSTANCE P2PReceiverProofs WITH
        Sender <- {Relay}, conn <- rConn, late <- rLate, probeLate <- rProbeLate,
        current_state <- rState, storing <- rStoring, status <- rStatus, rtc <- rRtc,
        watched <- rWatched, fresh <- rFresh, expected <- rExpected,
        received <- rReceived, complete <- rComplete, flight <- rFlight,
        selected_node <- rSelected, probeSent <- rProbeSent, requested <- rRequested

\* The session's assumption implies those of its components.
LEMMA Assumed == SP!SenderAssumption /\ RP!ReceiverAssumption
BY DEF SP!SenderAssumption, RP!ReceiverAssumption, S!None, SP!None, S!Media, SP!Media,
       R!None, RP!None

\* The two instances of P2PSender are the same specification ...
LEMMA SameSender ==
  /\ S!Init => SP!Init
  /\ [S!Next]_(S!vars) => [SP!Next]_(SP!vars)
BY DEF S!Media, S!None, S!JOINING_ROOM, S!WAITING_FOR_RECEIVER, S!SIGNALING,
       S!DATACHANNEL_READY, S!PROBING, S!STREAMING, S!ERROR, S!Thread, S!stateVars,
       S!nodeVars, S!history, S!vars, S!InLoop, S!Nothing, S!Init, S!SetState,
       S!LockAndTest, S!Store, S!Unlock, S!MainLocks, S!Idle, S!RoomJoined,
       S!ErrorMessage, S!StatusOfFoundOrCreated, S!TracksMade, S!ConnectRequest,
       S!ConnectRequestFails, S!Offer, S!WatchConnection, S!Answer, S!ProbeRequest,
       S!SendProbePackets, S!StreamRequest, S!SelectNode, S!PcConnected, S!PcDown,
       S!JoinRoom, S!CheckState, S!WaitForReceiver, S!DeadlinePasses,
       S!SpuriousWakeup, S!WaitTimesOut, S!Woken, S!WriteHeader, S!WritePacket,
       S!FeedNode, S!WriteTrailer, S!Deinit, S!Retry, S!InSetState, S!MainThread,
       S!Handler, S!HandlerGoesOn, S!Next, SP!Media, SP!None, SP!JOINING_ROOM,
       SP!WAITING_FOR_RECEIVER, SP!SIGNALING, SP!DATACHANNEL_READY, SP!PROBING,
       SP!STREAMING, SP!ERROR, SP!Thread, SP!stateVars, SP!nodeVars, SP!history,
       SP!vars, SP!InLoop, SP!Nothing, SP!Init, SP!SetState, SP!LockAndTest,
       SP!Store, SP!Unlock, SP!MainLocks, SP!Idle, SP!RoomJoined, SP!ErrorMessage,
       SP!StatusOfFoundOrCreated, SP!TracksMade, SP!ConnectRequest,
       SP!ConnectRequestFails, SP!Offer, SP!WatchConnection, SP!Answer,
       SP!ProbeRequest, SP!SendProbePackets, SP!StreamRequest, SP!SelectNode,
       SP!PcConnected, SP!PcDown, SP!JoinRoom, SP!CheckState, SP!WaitForReceiver,
       SP!DeadlinePasses, SP!SpuriousWakeup, SP!WaitTimesOut, SP!Woken,
       SP!WriteHeader, SP!WritePacket, SP!FeedNode, SP!WriteTrailer, SP!Deinit,
       SP!Retry, SP!InSetState, SP!MainThread, SP!Handler, SP!HandlerGoesOn,
       SP!Next

\* ... and so are those of P2PReceiver.
LEMMA SameReceiver ==
  /\ R!Init => RP!Init
  /\ [R!Next]_(R!vars) => [RP!Next]_(RP!vars)
BY DEF R!None, R!JOINING_ROOM, R!WAITING_FOR_SENDER, R!SIGNALING, R!DATACHANNEL_READY,
       R!PROBING, R!PROBE_COMPLETED, R!REQUESTING_STREAM, R!STREAMING, R!ERROR,
       R!NoStore, R!Thread, R!stateVars, R!nodeVars, R!probeVars, R!timeVars, R!vars,
       R!Init, R!SetState, R!Store, R!WsIdle, R!RoomJoined, R!ErrorMessage,
       R!StatusOfFoundOrCreated, R!ConnectRequest, R!Offer, R!StreamReady,
       R!PcConnected, R!OnPcConnected, R!PcDown, R!ProbePacket, R!Connected, R!At,
       R!Fail, R!LoopEnds, R!InState, R!InitProbes, R!SendProbes, R!EnterProbing,
       R!ProbingEnds, R!ProbingFails, R!ProbingCompleted, R!BestNodes, R!Available,
       R!SelectBestNode, R!SelectionFails, R!RequestStream, R!RequestFails,
       R!WaitTimesOut, R!ProbePhaseTimesOut, R!ConnectThread, R!Messages, R!Callbacks,
       R!Next, RP!None, RP!JOINING_ROOM, RP!WAITING_FOR_SENDER, RP!SIGNALING,
       RP!DATACHANNEL_READY, RP!PROBING, RP!PROBE_COMPLETED, RP!REQUESTING_STREAM,
       RP!STREAMING, RP!ERROR, RP!NoStore, RP!Thread, RP!stateVars, RP!nodeVars,
       RP!probeVars, RP!timeVars, RP!vars, RP!Init, RP!SetState, RP!Store, RP!WsIdle,
       RP!RoomJoined, RP!ErrorMessage, RP!StatusOfFoundOrCreated, RP!ConnectRequest,
       RP!Offer, RP!StreamReady, RP!PcConnected, RP!OnPcConnected, RP!PcDown,
       RP!ProbePacket, RP!Connected, RP!At, RP!Fail, RP!LoopEnds, RP!InState,
       RP!InitProbes, RP!SendProbes, RP!EnterProbing, RP!ProbingEnds, RP!ProbingFails,
       RP!ProbingCompleted, RP!BestNodes, RP!Available, RP!SelectBestNode,
       RP!SelectionFails, RP!RequestStream, RP!RequestFails, RP!WaitTimesOut,
       RP!ProbePhaseTimesOut, RP!ConnectThread, RP!Messages, RP!Callbacks, RP!Next

(***************************************************************************)
(* The relay in a session: its types, and media only for a viewer that was *)
(* accepted.                                                               *)
(***************************************************************************)
THEOREM RelayKept ==
  Spec => [](S!TypeOK /\ S!MediaOnlyToAskers)
<1>1. S!Spec => SP!Spec
  BY SameSender, PTL DEF S!Spec, SP!Spec
<1>2. SP!Spec => [](SP!TypeOK /\ SP!MediaOnlyToAskers)
  BY Assumed, SP!TypeCorrect, SP!MediaToAskers, PTL
<1>3. SP!TypeOK => S!TypeOK
  BY DEF S!Media, S!None, S!JOINING_ROOM, S!WAITING_FOR_RECEIVER, S!SIGNALING,
         S!DATACHANNEL_READY, S!PROBING, S!STREAMING, S!ERROR, S!SenderState, S!Thread,
         S!InLoop, S!Started, S!Place, S!Rest, S!Nothing, S!TrackState, S!TypeOK,
         SP!Media, SP!None, SP!JOINING_ROOM, SP!WAITING_FOR_RECEIVER, SP!SIGNALING,
         SP!DATACHANNEL_READY, SP!PROBING, SP!STREAMING, SP!ERROR, SP!SenderState,
         SP!Thread, SP!InLoop, SP!Started, SP!Place, SP!Rest, SP!Nothing, SP!TrackState,
         SP!TypeOK
<1>4. SP!MediaOnlyToAskers => S!MediaOnlyToAskers
  BY DEF S!MediaOnlyToAskers, SP!MediaOnlyToAskers, S!Started, SP!Started
<1> QED
  BY <1>1, <1>2, <1>3, <1>4, SenderImplemented, PTL

\* In a session in which no failure leaves a freed track, a viewer that the relay
\* has selected has a live track for every stream.
THEOREM RelayTracksKept ==
  ASSUME "freed" \notin Failures
  PROVE  Spec => []S!SelectedTracksLive
<1>1. S!Spec => SP!Spec
  BY SameSender, PTL DEF S!Spec, SP!Spec
<1>2. SP!Spec => []SP!SelectedTracksLive
  BY Assumed, SP!TracksOfSelected
<1>3. SP!SelectedTracksLive => S!SelectedTracksLive
  BY DEF S!SelectedTracksLive, SP!SelectedTracksLive, S!None, SP!None
<1> QED
  BY <1>1, <1>2, <1>3, SenderImplemented, PTL

(***************************************************************************)
(* The viewer in a session: its types, a node whenever its state needs     *)
(* one, and no choice of a relay that it has not probed.                   *)
(***************************************************************************)
THEOREM ViewerKept ==
  Spec => [](R!TypeOK /\ R!RequestHasNode /\ R!SelectedWasProbed)
<1>1. R!Spec => RP!Spec
  BY SameReceiver, PTL DEF R!Spec, RP!Spec
<1>2. RP!Spec => [](RP!TypeOK /\ RP!RequestHasNode /\ RP!SelectedWasProbed)
  BY Assumed, RP!TypeCorrect, RP!NodeOfRequest, RP!ProbedBeforeSelected, PTL
<1>3. RP!TypeOK => R!TypeOK
  BY DEF R!None, R!JOINING_ROOM, R!WAITING_FOR_SENDER, R!SIGNALING, R!DATACHANNEL_READY,
         R!PROBING, R!PROBE_COMPLETED, R!REQUESTING_STREAM, R!STREAMING, R!ERROR,
         R!ReceiverState, R!NoStore, R!Thread, R!Place, R!TypeOK, RP!None,
         RP!JOINING_ROOM, RP!WAITING_FOR_SENDER, RP!SIGNALING, RP!DATACHANNEL_READY,
         RP!PROBING, RP!PROBE_COMPLETED, RP!REQUESTING_STREAM, RP!STREAMING, RP!ERROR,
         RP!ReceiverState, RP!NoStore, RP!Thread, RP!Place, RP!TypeOK
<1>4. RP!RequestHasNode /\ RP!SelectedWasProbed => R!RequestHasNode /\ R!SelectedWasProbed
  BY DEF R!RequestHasNode, RP!RequestHasNode, R!SelectedWasProbed, RP!SelectedWasProbed,
         R!REQUESTING_STREAM, RP!REQUESTING_STREAM, R!STREAMING, RP!STREAMING, R!None, RP!None
<1> QED
  BY <1>1, <1>2, <1>3, <1>4, ReceiverImplemented, PTL

\* What a step does to the history of the probe and to the count of events.
LEMMA CountStep ==
  ASSUME answered \in BOOLEAN, events \in 0..EventBound, [Next]_vars
  PROVE  answered' \in BOOLEAN /\ events' \in 0..EventBound
<1>1. answered' \in BOOLEAN
  BY DEF Next, SenderNext, ReceiverNext, ServerSends, SenderIsTold, SenderOffers,
         SenderAccepts, SenderRefuses, SenderProbes, SenderEnds, SenderConnected,
         SenderAlone, SenderDisturbed, ReceiverIsTold, ReceiverAnswers, ReceiverProbes,
         ReceiverAsks, ReceiverProbed, ReceiverConnected, ReceiverAlone, ReceiverDisturbed,
         network, vars
<1>2. events' = events \/ Event
  BY DEF Next, SenderNext, ReceiverNext, ServerSends, SenderIsTold, SenderOffers,
         SenderAccepts, SenderRefuses, SenderProbes, SenderEnds, SenderConnected,
         SenderAlone, SenderDisturbed, ReceiverIsTold, ReceiverAnswers, ReceiverProbes,
         ReceiverAsks, ReceiverProbed, ReceiverConnected, ReceiverAlone, ReceiverDisturbed,
         vars
<1> QED
  BY <1>1, <1>2 DEF Event

(***************************************************************************)
(* The types of a whole session: of both ends, of the queues between them  *)
(* and of the probe packets, of which no more are under way than one probe *)
(* has, however often it is repeated.                                      *)
(***************************************************************************)
THEOREM TypeCorrect == Spec => []TypeOK
<1> DEFINE Counts == answered \in BOOLEAN /\ events \in 0..EventBound
<1>1. Init => Counts
  <2>1. Init => answered \in BOOLEAN
    BY DEF Init
  <2>2. Init => events \in 0..EventBound
    BY DEF Init
  <2> QED
    BY <2>1, <2>2
<1>2. Counts /\ [Next]_vars => Counts'
  BY CountStep
<1>3. Spec => []Counts
  BY <1>1, <1>2, PTL DEF Spec
<1>4. S!TypeOK /\ R!TypeOK /\ Inv /\ Counts => TypeOK
  BY DEF Inv, Types, TypeOK
<1> QED
  BY <1>3, <1>4, Invariant, RelayKept, ViewerKept, PTL
-----------------------------------------------------------------------------
(***************************************************************************)
(* The refinement of StreamAgreement.  Only the relay moves `accepted` and *)
(* `fed`, one at a time; only the viewer moves the rest, except `probed`,  *)
(* and it chooses, asks and changes its state in steps of their own.       *)
(***************************************************************************)

\* The relay accepts, or it feeds a viewer that it has accepted, or neither.
LEMMA RelayMoves ==
  ASSUME RelayTypes, RelayInv, [S!Next]_(S!vars)
  PROVE  \/ UNCHANGED <<sAsked, sFed>>
         \/ Viewer \in sAsked' /\ sFed' = sFed
         \/ sAsked' = sAsked /\ Viewer \in sAsked /\ sFed' = sFed \cup {Viewer}
<1>1. CASE S!FeedNode
  <2>1. sSelected = Viewer /\ Viewer \in sAsked
    BY <1>1 DEF S!FeedNode, S!Started, RelayTypes, RelayInv
  <2> QED
    BY <1>1, <2>1 DEF S!FeedNode
<1>2. ASSUME NEW w \in Socket, S!StreamRequest(w, Viewer)
      PROVE  Viewer \in sAsked' /\ sFed' = sFed
  BY <1>2 DEF S!StreamRequest
<1>3. CASE UNCHANGED S!vars
  BY <1>3 DEF S!vars, S!history
<1>4. ASSUME NEW t \in S!Thread, S!InSetState(t)
      PROVE  UNCHANGED <<sAsked, sFed>>
  BY <1>4 DEF S!InSetState, S!LockAndTest, S!Store, S!Unlock, S!history
<1>5. ASSUME NEW w \in Socket,
             \/ S!RoomJoined(w) \/ S!ErrorMessage(w)
             \/ S!ConnectRequest(w, Viewer) \/ S!ConnectRequestFails(w, Viewer)
             \/ S!Answer(w, Viewer) \/ S!Offer(w, Viewer) \/ S!ProbeRequest(w, Viewer)
             \/ S!WatchConnection(w) \/ S!SendProbePackets(w) \/ S!SelectNode(w)
      PROVE  UNCHANGED <<sAsked, sFed>>
  BY <1>5 DEF S!RoomJoined, S!ErrorMessage, S!ConnectRequest, S!ConnectRequestFails,
              S!Answer, S!Offer, S!ProbeRequest, S!WatchConnection, S!SendProbePackets,
              S!SelectNode, S!history
<1>6. CASE S!PcConnected(Viewer) \/ S!PcDown(Viewer)
  BY <1>6 DEF S!PcConnected, S!PcDown, S!history
<1>7. CASE \/ S!JoinRoom \/ S!CheckState \/ S!WaitForReceiver \/ S!WaitTimesOut
           \/ S!Woken \/ S!WriteHeader \/ S!Deinit \/ S!Retry \/ S!DeadlinePasses
           \/ S!SpuriousWakeup \/ S!WritePacket \/ S!WriteTrailer
  BY <1>7 DEF S!JoinRoom, S!CheckState, S!WaitForReceiver, S!WaitTimesOut,
              S!Woken, S!WriteHeader, S!Deinit, S!Retry, S!DeadlinePasses,
              S!SpuriousWakeup, S!WritePacket, S!WriteTrailer, S!history
<1> QED
  BY <1>1, <1>2, <1>3, <1>4, <1>5, <1>6, <1>7
     DEF S!Next, S!Handler, S!HandlerGoesOn, S!MainThread

\* The viewer chooses a relay that has sent packets, or asks the one it has
\* chosen, or does neither; what it plays it changes in none of these steps.
LEMMA ViewerMoves ==
  ASSUME ViewerTypes, [R!Next]_(R!vars)
  PROVE  \/ UNCHANGED <<rSelected, rRequested>>
         \/ /\ rSelected' = Relay /\ rReceived[Relay] > 0
            /\ UNCHANGED <<rRequested, rState, rConn>>
         \/ /\ rSelected = Relay /\ rRequested' = rRequested \cup {Relay}
            /\ UNCHANGED <<rSelected, rState, rConn>>
<1>1. CASE R!SelectBestNode
  BY <1>1 DEF R!SelectBestNode, R!BestNodes, R!SetState
<1>2. CASE R!RequestStream
  BY <1>2 DEF R!RequestStream, R!stateVars, ViewerTypes
<1>3. CASE UNCHANGED R!vars
  BY <1>3 DEF R!vars
<1>4. ASSUME NEW t \in R!Thread, R!Store(t)
      PROVE  UNCHANGED <<rSelected, rRequested>>
  BY <1>4 DEF R!Store
<1>5. CASE R!Messages
  BY <1>5 DEF R!Messages, R!RoomJoined, R!ErrorMessage, R!ConnectRequest, R!Offer,
              R!StreamReady
<1>6. CASE R!Callbacks(Relay) \/ R!OnPcConnected(Relay)
  BY <1>6 DEF R!Callbacks, R!PcConnected, R!PcDown, R!ProbePacket, R!OnPcConnected
<1>7. CASE \/ R!LoopEnds \/ R!InitProbes \/ R!SendProbes \/ R!EnterProbing
           \/ R!ProbingEnds \/ R!ProbingFails \/ R!ProbingCompleted \/ R!SelectionFails
           \/ R!RequestFails \/ R!WaitTimesOut \/ R!ProbePhaseTimesOut
  BY <1>7 DEF R!LoopEnds, R!InitProbes, R!SendProbes, R!EnterProbing, R!ProbingEnds,
              R!ProbingFails, R!ProbingCompleted, R!SelectionFails, R!RequestFails,
              R!WaitTimesOut, R!ProbePhaseTimesOut
<1> QED
  BY <1>1, <1>2, <1>3, <1>4, <1>5, <1>6, <1>7 DEF R!Next, R!ConnectThread

\* A step of the session moves one end, and the history of the probe only when the
\* relay sends probe packets.
LEMMA OneMoves ==
  ASSUME [Next]_vars
  PROVE  \/ receiverVars' = receiverVars /\ UNCHANGED <<sAsked, sFed>>
         \/ receiverVars' = receiverVars /\ answered' = answered
         \/ senderVars' = senderVars /\ answered' = answered
<1>1. ASSUME NEW w \in Socket, SenderProbes(w)
      PROVE  receiverVars' = receiverVars /\ UNCHANGED <<sAsked, sFed>>
  BY <1>1 DEF SenderProbes, S!SendProbePackets, S!history
<1>2. ASSUME NEW w \in Socket,
             SenderIsTold(w) \/ SenderOffers(w) \/ SenderAccepts(w) \/ SenderRefuses(w)
      PROVE  receiverVars' = receiverVars /\ answered' = answered
  BY <1>2 DEF SenderIsTold, SenderOffers, SenderAccepts, SenderRefuses, network
<1>3. \/ SenderEnds \/ SenderConnected \/ SenderAlone \/ SenderDisturbed
      \/ ServerSends \/ UNCHANGED vars
      => receiverVars' = receiverVars /\ answered' = answered
  BY DEF SenderEnds, SenderConnected, SenderAlone, SenderDisturbed, ServerSends, vars,
         network
<1>4. ReceiverNext => senderVars' = senderVars /\ answered' = answered
  BY DEF ReceiverNext, ReceiverIsTold, ReceiverAnswers, ReceiverProbes, ReceiverAsks,
         ReceiverProbed, ReceiverConnected, ReceiverAlone, ReceiverDisturbed, network
<1> QED
  BY <1>1, <1>2, <1>3, <1>4 DEF Next, SenderNext

\* Every step of the session is one of the agreement's, or changes nothing of it.
LEMMA AgreementStep ==
  ASSUME Inv, Inv', answered \in BOOLEAN, answered' \in BOOLEAN, [Next]_vars
  PROVE  [Agreement!Next]_(Agreement!vars)
<1> USE DEF Agreement!vars, Agreement!given
<1>1. answered => answered'
  BY WireStep DEF Inv
<1>2. CASE receiverVars' = receiverVars /\ UNCHANGED <<sAsked, sFed>>
  <2>1. answered' = answered \/ answered' = TRUE
    BY <1>1
  <2> QED
    BY <1>2, <2>1 DEF receiverVars, Agreement!Next, Agreement!Probe
<1>3. CASE receiverVars' = receiverVars /\ answered' = answered
  <2>1. RelayTypes /\ RelayInv /\ [S!Next]_(S!vars)
    BY SenderSteps DEF Inv, Types, RelayTypes
  <2>2. UNCHANGED <<rSelected, rRequested, rState, rConn>>
    BY <1>3 DEF receiverVars
  <2>3. CASE UNCHANGED <<sAsked, sFed>>
    BY <1>3, <2>2, <2>3
  <2>4. CASE Viewer \in sAsked' /\ sFed' = sFed
    <3>1. Viewer \in sAsked \/ Relay \in rRequested
      BY <2>4, AcceptStep DEF Inv, RequestInv
    <3> QED
      BY <1>3, <2>2, <2>4, <3>1, AcceptStep DEF Inv, Agreement!Next, Agreement!Accept
  <2>5. CASE sAsked' = sAsked /\ Viewer \in sAsked /\ sFed' = sFed \cup {Viewer}
    BY <1>3, <2>2, <2>5 DEF Agreement!Next, Agreement!Feed
  <2> QED
    BY <2>1, <2>3, <2>4, <2>5, RelayMoves
<1>4. CASE senderVars' = senderVars /\ answered' = answered
  <2>1. ViewerTypes /\ [R!Next]_(R!vars)
    BY ReceiverSteps DEF Inv, Types, ViewerTypes
  <2>2. UNCHANGED <<sAsked, sFed>>
    BY <1>4 DEF senderVars
  <2>3. CASE UNCHANGED <<rSelected, rRequested>>
    <3>1. CASE rState' = R!STREAMING \/ rConn' = "ready"
      <4>1. Viewer \in sAsked
        BY <2>2, <3>1 DEF Inv, ReadyInv
      <4> QED
        BY <1>4, <2>2, <2>3, <3>1, <4>1 DEF Agreement!Next, Agreement!Play
    <3>2. CASE ~(rState' = R!STREAMING \/ rConn' = "ready")
      BY <1>4, <2>2, <2>3, <3>2 DEF Agreement!Next, Agreement!Stop
    <3> QED
      BY <3>1, <3>2
  <2>4. CASE /\ rSelected' = Relay /\ rReceived[Relay] > 0
             /\ UNCHANGED <<rRequested, rState, rConn>>
    <3>1. answered
      BY <2>4 DEF Inv, ProbeInv
    <3> QED
      BY <1>4, <2>2, <2>4, <3>1 DEF Agreement!Next, Agreement!Choose
  <2>5. CASE /\ rSelected = Relay /\ rRequested' = rRequested \cup {Relay}
             /\ UNCHANGED <<rSelected, rState, rConn>>
    BY <1>4, <2>2, <2>5 DEF Agreement!Next, Agreement!Ask
  <2> QED
    BY <2>1, <2>3, <2>4, <2>5, ViewerMoves
<1> QED
  BY <1>2, <1>3, <1>4, OneMoves

(***************************************************************************)
(* The two ends implement StreamAgreement, whatever the bounds: nothing is *)
(* chosen before a probe, asked before the choice, accepted before the     *)
(* request, fed or played before the acceptance, and nothing but playing   *)
(* is ever taken back.                                                     *)
(***************************************************************************)
THEOREM AgreementImplemented == Spec => ImplementsStreamAgreement
<1>1. Init => Agreement!Init
  BY DEF Init, S!Init, R!Init, Agreement!Init, R!JOINING_ROOM, R!STREAMING, R!None
<1>2. Inv /\ Inv' /\ TypeOK /\ TypeOK' /\ [Next]_vars
      => [Agreement!Next]_(Agreement!vars)
  BY AgreementStep DEF TypeOK
<1> QED
  BY <1>1, <1>2, Invariant, TypeCorrect, PTL
     DEF Spec, ImplementsStreamAgreement, Agreement!Spec
=============================================================================
