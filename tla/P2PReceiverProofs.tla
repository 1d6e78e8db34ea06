-------------------------- MODULE P2PReceiverProofs --------------------------
(***************************************************************************)
(* Proofs about P2PReceiver, for any number of senders and probe packets:  *)
(* although current_state is tested and stored without a lock, and can     *)
(* move backwards, a node is selected whenever the state says so, and it   *)
(* is one that was probed.                                                 *)
(***************************************************************************)
EXTENDS P2PReceiver, TLAPS

NeedsNode == {REQUESTING_STREAM, STREAMING}

\* A thread that is about to store a state that needs a node has one: since
\* selected_node is never cleared, the store may come as late as it likes.
StoreHasNode == \A t \in Thread : storing[t] \in NeedsNode => selected_node # None

\* Probe packets come only from nodes that were sent a probe request.
PacketsWereAskedFor ==
  \A s \in Sender : flight[s] > 0 \/ received[s] > 0 => s \in probeSent

Inv == TypeOK /\ StoreHasNode /\ RequestHasNode /\ PacketsWereAskedFor
         /\ SelectedWasProbed

USE ReceiverAssumption

-----------------------------------------------------------------------------
(* Types.                                                                   *)

\* SetState keeps the types of what it changes.
LEMMA SetStateType ==
  ASSUME TypeOK, NEW t \in Thread, NEW s \in ReceiverState, SetState(t, s)
  PROVE  /\ current_state' \in ReceiverState
         /\ storing' \in [Thread -> ReceiverState \cup {NoStore}]
BY DEF SetState, TypeOK

\* Fail keeps the types of what it changes.
LEMMA FailType ==
  ASSUME TypeOK, Fail
  PROVE  /\ current_state' \in ReceiverState
         /\ storing' \in [Thread -> ReceiverState \cup {NoStore}]
         /\ conn' \in Place
<1>1. "connect" \in Thread /\ ERROR \in ReceiverState
  BY DEF Thread, ReceiverState
<1> QED
  BY <1>1, SetStateType DEF Fail, Place

\* Finding or creating a node gives every node a status.
LEMMA StatusType ==
  ASSUME TypeOK, NEW s \in Sender
  PROVE  StatusOfFoundOrCreated(s)
           \in [Sender -> {"absent", "down", "connected", "selected"}]
BY DEF StatusOfFoundOrCreated, TypeOK

\* A late store keeps the types.
LEMMA StoreType ==
  ASSUME TypeOK, NEW t \in Thread, Store(t)
  PROVE  TypeOK'
<1>1. current_state' \in ReceiverState
  BY DEF Store, TypeOK
<1>2. probeLate' \in BOOLEAN
  BY DEF Store, TypeOK
<1>3. storing' \in [Thread -> ReceiverState \cup {NoStore}]
  BY DEF Store, TypeOK
<1> QED
  BY <1>1, <1>2, <1>3 DEF Store, TypeOK, nodeVars, probeVars

\* The message handlers keep the types.
LEMMA MessagesType ==
  ASSUME TypeOK, Messages
  PROVE  TypeOK'
<1>1. "ws" \in Thread /\ {WAITING_FOR_SENDER, ERROR, SIGNALING, STREAMING} \subseteq ReceiverState
  BY DEF Thread, ReceiverState
<1>2. ASSUME RoomJoined PROVE TypeOK'
  BY <1>1, <1>2, SetStateType DEF RoomJoined, TypeOK, timeVars, nodeVars, probeVars
<1>3. ASSUME ErrorMessage PROVE TypeOK'
  BY <1>1, <1>3, SetStateType DEF ErrorMessage, TypeOK, timeVars, nodeVars, probeVars
<1>4. ASSUME NEW s \in Sender, ConnectRequest(s) PROVE TypeOK'
  BY <1>1, <1>4, SetStateType, StatusType DEF ConnectRequest, TypeOK, timeVars, probeVars
<1>5. ASSUME NEW s \in Sender, Offer(s) PROVE TypeOK'
  <2>1. rtc' \in [Sender -> {"new", "described", "up", "down"}]
    BY <1>5 DEF Offer, TypeOK
  <2> QED
    BY <1>1, <1>5, <2>1, SetStateType, StatusType DEF Offer, TypeOK, timeVars, probeVars
<1>6. ASSUME NEW s \in Sender, StreamReady(s) PROVE TypeOK'
  BY <1>1, <1>6, SetStateType DEF StreamReady, TypeOK, timeVars, nodeVars, probeVars
<1> QED
  BY <1>2, <1>3, <1>4, <1>5, <1>6 DEF Messages

\* The connections' callbacks keep the types.
LEMMA CallbacksType ==
  ASSUME TypeOK, NEW s \in Sender, Callbacks(s) \/ OnPcConnected(s)
  PROVE  TypeOK'
<1>1. ASSUME PcConnected(s) PROVE TypeOK'
  BY <1>1 DEF PcConnected, TypeOK, timeVars, stateVars, probeVars
<1>2. ASSUME PcDown(s) PROVE TypeOK'
  BY <1>2 DEF PcDown, TypeOK, timeVars, stateVars, probeVars
<1>3. ASSUME ProbePacket(s) PROVE TypeOK'
  <2>1. flight' \in [Sender -> 0..ProbePackets] /\ received' \in [Sender -> 0..ProbePackets]
    BY <1>3 DEF ProbePacket, TypeOK
  <2>2. complete' \in [Sender -> BOOLEAN]
    BY <1>3 DEF ProbePacket, TypeOK
  <2> QED
    BY <1>3, <2>1, <2>2 DEF ProbePacket, TypeOK, timeVars, stateVars, nodeVars
<1>4. ASSUME OnPcConnected(s) PROVE TypeOK'
  <2>1. s \in Thread /\ DATACHANNEL_READY \in ReceiverState
    BY DEF Thread, ReceiverState
  <2>2. received' \in [Sender -> 0..ProbePackets]
    BY <1>4 DEF OnPcConnected, TypeOK
  <2>3. expected' \in [Sender -> BOOLEAN] /\ complete' \in [Sender -> BOOLEAN]
    BY <1>4 DEF OnPcConnected, TypeOK
  <2> QED
    BY <1>4, <2>1, <2>2, <2>3, SetStateType DEF OnPcConnected, TypeOK, timeVars
<1> QED
  BY <1>1, <1>2, <1>3, <1>4 DEF Callbacks

\* The connect thread and its timeouts keep the types.
LEMMA ConnectType ==
  ASSUME TypeOK, ConnectThread \/ RequestFails \/ WaitTimesOut \/ ProbePhaseTimesOut
  PROVE  TypeOK'
<1> USE DEF Place
<1>a. "connect" \in Thread /\ {PROBING, PROBE_COMPLETED, REQUESTING_STREAM} \subseteq ReceiverState
  BY DEF Thread, ReceiverState
<1>1. ASSUME LoopEnds PROVE TypeOK'
  BY <1>1 DEF LoopEnds, TypeOK, timeVars, stateVars, nodeVars, probeVars
<1>2. ASSUME InitProbes PROVE TypeOK'
  <2>1. received' \in [Sender -> 0..ProbePackets]
    BY <1>2 DEF InitProbes, TypeOK
  <2>2. expected' \in [Sender -> BOOLEAN] /\ complete' \in [Sender -> BOOLEAN]
    BY <1>2 DEF InitProbes, TypeOK
  <2> QED
    BY <1>2, <2>1, <2>2 DEF InitProbes, TypeOK, timeVars, stateVars, nodeVars
<1>3. ASSUME SendProbes PROVE TypeOK'
  <2>1. PICK sent \in SUBSET Connected :
          /\ flight' = [s \in Sender |-> IF s \in sent THEN ProbePackets ELSE flight[s]]
          /\ probeSent' = probeSent \cup sent
          /\ IF sent = {}
             THEN conn' = "stuck" /\ UNCHANGED stateVars
             ELSE conn' = "loop" /\ SetState("connect", PROBING)
    BY <1>3 DEF SendProbes
  <2>2. flight' \in [Sender -> 0..ProbePackets]
    BY <2>1 DEF TypeOK
  <2>3. expected' \in [Sender -> BOOLEAN]
    BY <1>3 DEF SendProbes, TypeOK
  <2>4. probeSent' \subseteq Sender
    BY <2>1 DEF TypeOK, Connected
  <2>5. /\ current_state' \in ReceiverState
        /\ storing' \in [Thread -> ReceiverState \cup {NoStore}]
        /\ conn' \in Place
    BY <1>a, <2>1, SetStateType DEF TypeOK, stateVars
  <2> QED
    BY <1>3, <2>2, <2>3, <2>4, <2>5 DEF SendProbes, TypeOK, timeVars, nodeVars
<1>4. ASSUME EnterProbing PROVE TypeOK'
  BY <1>4 DEF EnterProbing, TypeOK, timeVars, stateVars, nodeVars, probeVars
<1>5. ASSUME ProbingEnds PROVE TypeOK'
  <2>1. complete' \in [Sender -> BOOLEAN]
    BY <1>5 DEF ProbingEnds, TypeOK
  <2> QED
    BY <1>5, <2>1 DEF ProbingEnds, TypeOK, timeVars, stateVars, nodeVars
<1>6. ASSUME ProbingFails PROVE TypeOK'
  BY <1>6, FailType DEF ProbingFails, TypeOK, timeVars, nodeVars, probeVars
<1>7. ASSUME ProbingCompleted PROVE TypeOK'
  <2>1. /\ current_state' \in ReceiverState
        /\ storing' \in [Thread -> ReceiverState \cup {NoStore}]
    BY <1>a, <1>7, SetStateType DEF ProbingCompleted, TypeOK, stateVars
  <2> QED
    BY <1>7, <2>1 DEF ProbingCompleted, TypeOK, timeVars, nodeVars, probeVars
<1>8. ASSUME SelectBestNode PROVE TypeOK'
  <2>1. PICK best \in Sender : /\ selected_node' = best
                               /\ status' = [status EXCEPT ![best] = "selected"]
    BY <1>8 DEF SelectBestNode, BestNodes
  <2>2. status' \in [Sender -> {"absent", "down", "connected", "selected"}]
    BY <2>1 DEF TypeOK
  <2> QED
    BY <1>a, <1>8, <2>1, <2>2, SetStateType DEF SelectBestNode, TypeOK, timeVars, probeVars
<1>9. ASSUME SelectionFails PROVE TypeOK'
  BY <1>9, FailType DEF SelectionFails, TypeOK, timeVars, nodeVars, probeVars
<1>10. ASSUME RequestStream PROVE TypeOK'
  BY <1>10 DEF RequestStream, TypeOK, timeVars, stateVars, nodeVars, probeVars
<1>11. ASSUME RequestFails PROVE TypeOK'
  BY <1>11, FailType DEF RequestFails, TypeOK, timeVars, nodeVars, probeVars
<1>12. ASSUME WaitTimesOut PROVE TypeOK'
  <2>1. late' \in BOOLEAN
    BY <1>12 DEF WaitTimesOut
  <2> QED
    BY <1>12, <2>1 DEF WaitTimesOut, TypeOK, stateVars, nodeVars, probeVars
<1>13. ASSUME ProbePhaseTimesOut PROVE TypeOK'
  <2>1. probeLate' \in BOOLEAN
    BY <1>13 DEF ProbePhaseTimesOut
  <2> QED
    BY <1>13, <2>1 DEF ProbePhaseTimesOut, TypeOK, stateVars, nodeVars, probeVars
<1> QED
  BY <1>1, <1>2, <1>3, <1>4, <1>5, <1>6, <1>7, <1>8, <1>9, <1>10, <1>11, <1>12, <1>13
     DEF ConnectThread

-----------------------------------------------------------------------------
(* Every step keeps the types.                                              *)

LEMMA NextType ==
  ASSUME TypeOK, Next
  PROVE  TypeOK'
BY StoreType, MessagesType, CallbacksType, ConnectType DEF Next

-----------------------------------------------------------------------------
(* A state that needs a node.                                               *)

\* A call of p2p_set_receiver_state changes only what its thread will store.
LEMMA SetStateStores ==
  ASSUME TypeOK, NEW t \in Thread, NEW s, SetState(t, s)
  PROVE  /\ current_state' = current_state
         /\ \A u \in Thread : storing'[u] = storing[u] \/ storing'[u] \in {s, NoStore}
BY DEF SetState, TypeOK

\* ... so that only STREAMING and REQUESTING_STREAM ask for a node.
LEMMA SetStateKeepsNode ==
  ASSUME TypeOK, StoreHasNode, NEW t \in Thread, NEW s, SetState(t, s),
         selected_node # None => selected_node' # None,
         s \in NeedsNode => selected_node' # None
  PROVE  StoreHasNode' /\ current_state' = current_state
<1>1. NoStore \notin NeedsNode
  BY DEF NoStore, NeedsNode, REQUESTING_STREAM, STREAMING
<1> QED
  BY <1>1, SetStateStores DEF StoreHasNode, NeedsNode

\* What the state needs is kept by a step that keeps the state and the node,
\* and that does not report p2p_connect_ready.
LEMMA NodeKept ==
  ASSUME RequestHasNode, current_state' = current_state,
         selected_node # None => selected_node' # None,
         conn' = conn \/ conn' # "ready" \/ current_state = STREAMING
  PROVE  RequestHasNode'
BY DEF RequestHasNode

\* Storing a state: the thread that tested for it has seen to the node.
LEMMA StoreNode ==
  ASSUME Inv, NEW t \in Thread, Store(t)
  PROVE  StoreHasNode' /\ RequestHasNode'
<1>1. selected_node' = selected_node /\ conn' = conn /\ current_state' = storing[t]
  BY DEF Store
<1>2. \A u \in Thread : storing'[u] = storing[u] \/ storing'[u] = NoStore
  BY DEF Store, Inv, TypeOK
<1>3. NoStore \notin NeedsNode
  BY DEF NoStore, NeedsNode, REQUESTING_STREAM, STREAMING
<1>4. StoreHasNode'
  BY <1>1, <1>2, <1>3 DEF Inv, StoreHasNode, NeedsNode
<1>5. RequestHasNode'
  BY <1>1 DEF Inv, StoreHasNode, NeedsNode, RequestHasNode
<1> QED
  BY <1>4, <1>5

\* The handlers: STREAM_READY counts only from the selected node.
LEMMA MessagesNode ==
  ASSUME Inv, Messages
  PROVE  StoreHasNode' /\ RequestHasNode'
<1>1. conn' = conn /\ selected_node' = selected_node
  BY DEF Messages, RoomJoined, ErrorMessage, ConnectRequest, Offer, StreamReady
<1>2. PICK s \in {WAITING_FOR_SENDER, ERROR, SIGNALING, STREAMING} :
        SetState("ws", s) /\ (s = STREAMING => selected_node # None)
  <2>1. CASE RoomJoined
    BY <2>1 DEF RoomJoined, WAITING_FOR_SENDER, STREAMING
  <2>2. CASE ErrorMessage
    BY <2>2 DEF ErrorMessage, ERROR, STREAMING
  <2>3. CASE \E s \in Sender : ConnectRequest(s) \/ Offer(s)
    BY <2>3 DEF ConnectRequest, Offer, SIGNALING, STREAMING
  <2>4. CASE \E s \in Sender : StreamReady(s)
    BY <2>4 DEF StreamReady
  <2> QED
    BY <2>1, <2>2, <2>3, <2>4 DEF Messages
<1>3. "ws" \in Thread /\ (s \in NeedsNode => selected_node' # None)
  BY <1>1, <1>2 DEF Thread, NeedsNode, WAITING_FOR_SENDER, ERROR, SIGNALING, STREAMING,
                    REQUESTING_STREAM
<1>4. StoreHasNode' /\ current_state' = current_state
  BY <1>1, <1>2, <1>3, SetStateKeepsNode DEF Inv
<1> QED
  BY <1>1, <1>4, NodeKept DEF Inv

\* The callbacks ask for DATACHANNEL_READY at most.
LEMMA CallbacksNode ==
  ASSUME Inv, NEW s \in Sender, Callbacks(s) \/ OnPcConnected(s)
  PROVE  StoreHasNode' /\ RequestHasNode'
<1>1. conn' = conn /\ selected_node' = selected_node
  BY DEF Callbacks, PcConnected, PcDown, ProbePacket, OnPcConnected
<1>2. StoreHasNode' /\ current_state' = current_state
  <2>1. CASE Callbacks(s)
    BY <2>1 DEF Callbacks, PcConnected, PcDown, ProbePacket, stateVars, Inv, StoreHasNode
  <2>2. CASE OnPcConnected(s)
    <3>1. s \in Thread /\ DATACHANNEL_READY \notin NeedsNode
      BY DEF Thread, NeedsNode, DATACHANNEL_READY, REQUESTING_STREAM, STREAMING
    <3> QED
      BY <1>1, <2>2, <3>1, SetStateKeepsNode DEF OnPcConnected, Inv
  <2> QED
    BY <2>1, <2>2
<1> QED
  BY <1>1, <1>2, NodeKept DEF Inv

\* The connect thread asks for REQUESTING_STREAM when it has selected a node.
LEMMA ConnectNode ==
  ASSUME Inv, ConnectThread \/ RequestFails \/ WaitTimesOut \/ ProbePhaseTimesOut
  PROVE  StoreHasNode' /\ RequestHasNode'
<1>a. "connect" \in Thread /\ {PROBING, PROBE_COMPLETED, ERROR} \cap NeedsNode = {}
  BY DEF Thread, NeedsNode, PROBING, PROBE_COMPLETED, ERROR, REQUESTING_STREAM, STREAMING
<1>b. ASSUME NEW s \in {PROBING, PROBE_COMPLETED, ERROR}, SetState("connect", s),
             conn' # "ready", UNCHANGED selected_node
      PROVE  StoreHasNode' /\ RequestHasNode'
  BY <1>a, <1>b, SetStateKeepsNode, NodeKept DEF Inv
<1>c. ASSUME UNCHANGED stateVars, UNCHANGED selected_node, conn' = conn \/ conn' # "ready"
      PROVE  StoreHasNode' /\ RequestHasNode'
  BY <1>c, NodeKept DEF Inv, stateVars, StoreHasNode
<1>1. CASE LoopEnds
  <2>1. UNCHANGED stateVars /\ UNCHANGED selected_node
          /\ (conn' # "ready" \/ current_state = STREAMING)
    BY <1>1 DEF LoopEnds
  <2> QED
    BY <2>1, NodeKept DEF Inv, stateVars, StoreHasNode
<1>2. CASE InitProbes
  BY <1>2, <1>c DEF InitProbes
<1>3. CASE SendProbes
  <2>1. /\ UNCHANGED selected_node
        /\ conn' # "ready"
        /\ SetState("connect", PROBING) \/ UNCHANGED stateVars
    BY <1>3 DEF SendProbes
  <2> QED
    BY <2>1, <1>b, <1>c
<1>4. CASE EnterProbing
  BY <1>4, <1>c DEF EnterProbing
<1>5. CASE ProbingEnds
  BY <1>5, <1>c DEF ProbingEnds
<1>6. CASE ProbingFails \/ SelectionFails \/ RequestFails
  BY <1>6, <1>b DEF ProbingFails, SelectionFails, RequestFails, Fail
<1>7. CASE ProbingCompleted
  <2>1. /\ UNCHANGED selected_node
        /\ conn' # "ready"
        /\ SetState("connect", PROBE_COMPLETED) \/ UNCHANGED stateVars
    BY <1>7 DEF ProbingCompleted
  <2> QED
    BY <2>1, <1>b, <1>c
<1>8. CASE SelectBestNode
  <2>1. selected_node' # None /\ conn' = conn
    BY <1>8 DEF SelectBestNode, BestNodes
  <2>2. StoreHasNode' /\ current_state' = current_state
    BY <1>8, <1>a, <2>1, SetStateKeepsNode DEF SelectBestNode, Inv
  <2> QED
    BY <2>1, <2>2, NodeKept DEF Inv
<1>9. CASE RequestStream
  BY <1>9, <1>c DEF RequestStream
<1>10. CASE WaitTimesOut \/ ProbePhaseTimesOut
  BY <1>10, <1>c DEF WaitTimesOut, ProbePhaseTimesOut
<1> QED
  BY <1>1, <1>2, <1>3, <1>4, <1>5, <1>6, <1>7, <1>8, <1>9, <1>10 DEF ConnectThread

-----------------------------------------------------------------------------
(* Only nodes that were probed.                                             *)

\* A step that sends no probe and receives no packet keeps what is known of
\* the nodes it does not select.
LEMMA ProbesKept ==
  ASSUME Inv, probeSent \subseteq probeSent',
         \A s \in Sender : flight'[s] > 0 => flight[s] > 0 \/ s \in probeSent',
         \A s \in Sender : received'[s] > 0 => received[s] > 0 \/ s \in probeSent',
         selected_node' = selected_node \/ selected_node' \in probeSent,
         requested' \subseteq requested \cup {selected_node},
         requested' = requested \/ selected_node # None
  PROVE  PacketsWereAskedFor' /\ SelectedWasProbed'
BY DEF Inv, PacketsWereAskedFor, SelectedWasProbed

LEMMA NextProbed ==
  ASSUME Inv, Next
  PROVE  PacketsWereAskedFor' /\ SelectedWasProbed'
<1> USE DEF probeVars
<1>1. ASSUME NEW t \in Thread, Store(t)
      PROVE  PacketsWereAskedFor' /\ SelectedWasProbed'
  BY <1>1, ProbesKept DEF Store
<1>2. CASE Messages
  BY <1>2, ProbesKept
     DEF Messages, RoomJoined, ErrorMessage, ConnectRequest, Offer, StreamReady
<1>3. ASSUME NEW s \in Sender, PcConnected(s)
      PROVE  PacketsWereAskedFor' /\ SelectedWasProbed'
  BY <1>3, ProbesKept DEF PcConnected
<1>4. ASSUME NEW s \in Sender, PcDown(s)
      PROVE  PacketsWereAskedFor' /\ SelectedWasProbed'
  BY <1>4, ProbesKept DEF PcDown, Inv, TypeOK
<1>5. ASSUME NEW s \in Sender, ProbePacket(s)
      PROVE  PacketsWereAskedFor' /\ SelectedWasProbed'
  <2>1. s \in probeSent
    BY <1>5 DEF ProbePacket, Inv, PacketsWereAskedFor
  <2>2. /\ flight' = [flight EXCEPT ![s] = flight[s] - 1]
        /\ received' = [received EXCEPT ![s] = received[s] + 1]
        /\ UNCHANGED <<selected_node, probeSent, requested>>
    BY <1>5 DEF ProbePacket
  <2> QED
    BY <2>1, <2>2, ProbesKept DEF Inv, TypeOK
<1>6. ASSUME NEW s \in Sender, OnPcConnected(s)
      PROVE  PacketsWereAskedFor' /\ SelectedWasProbed'
  BY <1>6, ProbesKept DEF OnPcConnected, Inv, TypeOK
<1>7. CASE InitProbes
  BY <1>7, ProbesKept DEF InitProbes
<1>8. CASE SendProbes
  <2>1. PICK sent \in SUBSET Connected :
          /\ flight' = [s \in Sender |-> IF s \in sent THEN ProbePackets ELSE flight[s]]
          /\ probeSent' = probeSent \cup sent
    BY <1>8 DEF SendProbes
  <2>2. UNCHANGED <<received, selected_node, requested>>
    BY <1>8 DEF SendProbes
  <2> QED
    BY <2>1, <2>2, ProbesKept
<1>9. CASE SelectBestNode
  <2>1. PICK best \in Sender : selected_node' = best /\ received[best] > 0
    BY <1>9 DEF SelectBestNode, BestNodes
  <2>2. selected_node' \in probeSent
    BY <2>1 DEF Inv, PacketsWereAskedFor
  <2> QED
    BY <1>9, <2>2, ProbesKept DEF SelectBestNode
<1>10. CASE RequestStream
  BY <1>10, ProbesKept DEF RequestStream
<1>11. CASE LoopEnds \/ EnterProbing \/ ProbingEnds \/ ProbingCompleted
              \/ WaitTimesOut \/ ProbePhaseTimesOut
  BY <1>11, ProbesKept DEF LoopEnds, EnterProbing, ProbingEnds, ProbingCompleted,
                           WaitTimesOut, ProbePhaseTimesOut
<1>12. CASE ProbingFails \/ SelectionFails \/ RequestFails
  BY <1>12, ProbesKept DEF ProbingFails, SelectionFails, RequestFails
<1> QED
  BY <1>1, <1>2, <1>3, <1>4, <1>5, <1>6, <1>7, <1>8, <1>9, <1>10, <1>11, <1>12
     DEF Next, Callbacks, ConnectThread

-----------------------------------------------------------------------------
\* Inv is inductive.
THEOREM Inductive == Spec => []Inv
<1>1. Init => Inv
  <2> SUFFICES ASSUME Init PROVE Inv
    OBVIOUS
  <2>1. TypeOK
    <3>1. late \in BOOLEAN /\ probeLate \in BOOLEAN
      BY DEF Init
    <3>2. expected \in [Sender -> BOOLEAN] /\ complete \in [Sender -> BOOLEAN]
      BY DEF Init
    <3>3. received \in [Sender -> 0..ProbePackets] /\ flight \in [Sender -> 0..ProbePackets]
      BY DEF Init
    <3> QED
      BY <3>1, <3>2, <3>3 DEF Init, TypeOK, Place, ReceiverState
  <2>2. StoreHasNode /\ RequestHasNode
    BY DEF Init, StoreHasNode, RequestHasNode, NeedsNode, NoStore, JOINING_ROOM,
           REQUESTING_STREAM, STREAMING
  <2>3. PacketsWereAskedFor /\ SelectedWasProbed
    BY DEF Init, PacketsWereAskedFor, SelectedWasProbed
  <2> QED
    BY <2>1, <2>2, <2>3 DEF Inv
<1>2. Inv /\ [Next]_vars => Inv'
  <2> SUFFICES ASSUME Inv, [Next]_vars PROVE Inv'
    OBVIOUS
  <2>1. CASE Next
    <3>1. TypeOK'
      BY <2>1, NextType DEF Inv
    <3>2. StoreHasNode' /\ RequestHasNode'
      BY <2>1, StoreNode, MessagesNode, CallbacksNode, ConnectNode DEF Next
    <3> QED
      BY <2>1, <3>1, <3>2, NextProbed DEF Inv
  <2>2. CASE UNCHANGED vars
    BY <2>2 DEF vars, timeVars, stateVars, nodeVars, probeVars, Inv, TypeOK, StoreHasNode,
                RequestHasNode, PacketsWereAskedFor, SelectedWasProbed
  <2> QED
    BY <2>1, <2>2
<1> QED
  BY <1>1, <1>2, PTL DEF Spec

\* The shared state stays one of the enumeration's members, whatever the races
\* of p2p_set_receiver_state, and the probe counters stay in their bounds.
THEOREM TypeCorrect == Spec => []TypeOK
BY Inductive, PTL DEF Inv

\* Whenever the state is REQUESTING_STREAM or STREAMING, or the connect thread
\* has reported p2p_connect_ready, selected_node is set: no thread dereferences
\* a null selected_node, for any number of senders.
THEOREM NodeOfRequest == Spec => []RequestHasNode
BY Inductive, PTL DEF Inv

\* select_best_node and send_stream_request only ever take a node that was
\* sent a probe request.
THEOREM ProbedBeforeSelected == Spec => []SelectedWasProbed
BY Inductive, PTL DEF Inv
=============================================================================
