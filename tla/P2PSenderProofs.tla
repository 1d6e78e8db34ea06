--------------------------- MODULE P2PSenderProofs ---------------------------
(***************************************************************************)
(* Proofs about P2PSender, for any number of receivers, web sockets and    *)
(* streams: the invariants that its runs check, from an inductive          *)
(* invariant that says what a receiver has to have before it can be        *)
(* selected, along the whole way from connect request to packet; and what  *)
(* state_mutex would give if init's wait left it to its holder.            *)
(***************************************************************************)
EXTENDS P2PSender, TLAPS

\* Every stream of the muxer has its track at node r.
AllTracksMade(r) == \A i \in 1..Len(Streams) : track[r][Streams[i]] # "none"

\* The probe channel is made last, whatever failed before.
ProbeComesLast == \A r \in Receiver : probe[r] => AllTracksMade(r)

\* A handler that is about to select a node has accepted its request.
SelectionReady ==
  \A w \in Socket :
    after[w].do = "select" => probe[after[w].node] /\ after[w].node \in asked

SelectedReady == selected_node # None => probe[selected_node] /\ selected_node \in asked

WriterHasReceiver == main \in Started => selected_node # None

\* No failure has left a freed track at a node.
NoTrackFreed == \A r \in Receiver : \A m \in Media : track[r][m] # "freed"

Inv == TypeOK /\ ProbeComesLast /\ SelectionReady /\ SelectedReady
         /\ WriterHasReceiver /\ fed \subseteq asked

USE SenderAssumption

-----------------------------------------------------------------------------
(* Types.                                                                   *)

\* SetState keeps the types of what it changes.
LEMMA SetStateType ==
  ASSUME TypeOK, NEW t \in Thread, NEW s \in SenderState, SetState(t, s)
  PROVE  /\ current_state' \in SenderState
         /\ mutex' \in Thread \cup {None}
         /\ step' \in [Thread -> {"idle", "lock", "store", "unlock"}]
         /\ target' \in [Thread -> SenderState]
BY DEF SetState, TypeOK

\* Finding or creating a node gives every node a status.
LEMMA StatusType ==
  ASSUME TypeOK, NEW r \in Receiver
  PROVE  StatusOfFoundOrCreated(r)
           \in [Receiver -> {"absent", "down", "connected", "selected"}]
BY DEF StatusOfFoundOrCreated, TypeOK

\* TracksMade only makes tracks.
LEMMA TracksMadeType ==
  ASSUME TypeOK, NEW r \in Receiver, NEW n
  PROVE  TracksMade(r, n) \in [Media -> TrackState]
BY DEF TracksMade, TypeOK, TrackState

\* A handler's continuation is a record of the right type.
LEMMA AfterType ==
  ASSUME TypeOK, NEW w \in Socket, NEW r \in Receiver,
         NEW d \in {"watch", "probe", "select"}
  PROVE  [after EXCEPT ![w] = [do |-> d, node |-> r]] \in [Socket -> Rest \cup {Nothing}]
BY DEF TypeOK, Rest

\* A handler that finishes leaves nothing to do.
LEMMA DoneType ==
  ASSUME TypeOK, NEW w \in Socket
  PROVE  [after EXCEPT ![w] = Nothing] \in [Socket -> Rest \cup {Nothing}]
BY DEF TypeOK

\* What is left to do concerns a node.
LEMMA AfterNode ==
  ASSUME TypeOK, NEW w \in Socket, after[w].do \in {"watch", "probe", "select"}
  PROVE  after[w].node \in Receiver
<1>1. after[w] \in Rest \cup {Nothing}
  BY DEF TypeOK
<1>2. after[w] # Nothing
  BY DEF Nothing, None
<1> QED
  BY <1>1, <1>2 DEF Rest

\* The muxer's thread takes the mutex with the types kept.
LEMMA MainLocksType ==
  ASSUME TypeOK, MainLocks
  PROVE  /\ mutex' \in Thread \cup {None}
         /\ step' \in [Thread -> {"idle", "lock", "store", "unlock"}]
         /\ UNCHANGED <<current_state, target>>
<1>1. "main" \in Thread
  BY DEF Thread
<1> QED
  BY <1>1 DEF MainLocks, TypeOK

\* The steps of set_sender_state keep the types.
LEMMA SetStateStepType ==
  ASSUME TypeOK, NEW t \in Thread, InSetState(t)
  PROVE  TypeOK'
<1>1. ASSUME LockAndTest(t) PROVE TypeOK'
  BY <1>1 DEF LockAndTest, TypeOK, nodeVars, history
<1>2. ASSUME Store(t) PROVE TypeOK'
  <2>1. current_state' \in SenderState /\ main' \in Place
    BY <1>2 DEF Store, TypeOK, Place, InLoop
  <2> QED
    BY <1>2, <2>1 DEF Store, TypeOK, nodeVars, history
<1>3. ASSUME Unlock(t) PROVE TypeOK'
  <2>1. JOINING_ROOM \in SenderState
    BY DEF SenderState
  <2> QED
    BY <1>3, <2>1 DEF Unlock, TypeOK, nodeVars, history
<1> QED
  BY <1>1, <1>2, <1>3 DEF InSetState

\* The message handlers keep the types.
LEMMA HandlerType ==
  ASSUME TypeOK, NEW w \in Socket, Handler(w)
  PROVE  TypeOK'
<1> USE DEF Thread
<1>1. ASSUME RoomJoined(w) PROVE TypeOK'
  <2>1. WAITING_FOR_RECEIVER \in SenderState
    BY DEF SenderState
  <2> QED
    BY <1>1, <2>1, SetStateType DEF RoomJoined, TypeOK, nodeVars, history
<1>2. ASSUME ErrorMessage(w) PROVE TypeOK'
  <2>1. ERROR \in SenderState
    BY DEF SenderState
  <2> QED
    BY <1>2, <2>1, SetStateType DEF ErrorMessage, TypeOK, nodeVars, history
<1>3. ASSUME NEW r \in Receiver, ConnectRequest(w, r) PROVE TypeOK'
  <2>1. SIGNALING \in SenderState
    BY DEF SenderState
  <2>2. TracksMade(r, Len(Streams)) \in [Media -> TrackState]
    BY TracksMadeType
  <2>3. probe' \in [Receiver -> BOOLEAN]
    BY <1>3 DEF ConnectRequest, TypeOK
  <2>4. track' \in [Receiver -> [Media -> TrackState]]
    BY <1>3, <2>2 DEF ConnectRequest, TypeOK
  <2> QED
    BY <1>3, <2>1, <2>3, <2>4, SetStateType, StatusType DEF ConnectRequest, TypeOK, history
<1>4. ASSUME NEW r \in Receiver, ConnectRequestFails(w, r) PROVE TypeOK'
  <2>1. track' \in [Receiver -> [Media -> TrackState]]
    <3>1. CASE track' = [track EXCEPT ![r] = TracksMade(r, Len(Streams))]
      BY <3>1, TracksMadeType DEF TypeOK
    <3>2. CASE \E n \in 0..(Len(Streams) - 1), left \in Failures :
                 track' = [track EXCEPT ![r] =
                             [TracksMade(r, n) EXCEPT ![Streams[n + 1]] = left]]
      BY <3>2, TracksMadeType DEF TypeOK, TrackState
    <3> QED
      BY <1>4, <3>1, <3>2 DEF ConnectRequestFails
  <2> QED
    BY <1>4, <2>1, StatusType DEF ConnectRequestFails, TypeOK, stateVars, history
<1>5. ASSUME NEW r \in Receiver, Offer(w, r) PROVE TypeOK'
  <2>1. SIGNALING \in SenderState
    BY DEF SenderState
  <2>2. after' \in [Socket -> Rest \cup {Nothing}]
    BY <1>5, AfterType DEF Offer
  <2>3. rtc' \in [Receiver -> {"new", "described", "up", "down"}]
    BY <1>5 DEF Offer, TypeOK
  <2> QED
    BY <1>5, <2>1, <2>2, <2>3, SetStateType, StatusType DEF Offer, TypeOK, history
<1>6. ASSUME NEW r \in Receiver, Answer(w, r) PROVE TypeOK'
  BY <1>6 DEF Answer, TypeOK, stateVars, history
<1>7. ASSUME NEW r \in Receiver, ProbeRequest(w, r) PROVE TypeOK'
  <2>1. PROBING \in SenderState
    BY DEF SenderState
  <2>2. after' \in [Socket -> Rest \cup {Nothing}]
    BY <1>7, AfterType DEF ProbeRequest
  <2> QED
    BY <1>7, <2>1, <2>2, SetStateType DEF ProbeRequest, TypeOK, nodeVars, history
<1>8. ASSUME NEW r \in Receiver, StreamRequest(w, r) PROVE TypeOK'
  <2>1. STREAMING \in SenderState
    BY DEF SenderState
  <2>2. after' \in [Socket -> Rest \cup {Nothing}]
    BY <1>8, AfterType DEF StreamRequest
  <2> QED
    BY <1>8, <2>1, <2>2, SetStateType DEF StreamRequest, TypeOK, nodeVars
<1> QED
  BY <1>1, <1>2, <1>3, <1>4, <1>5, <1>6, <1>7, <1>8 DEF Handler

\* The rest of a handler, and the connection's callbacks, keep the types.
LEMMA CallbackType ==
  ASSUME TypeOK,
         \/ \E w \in Socket : HandlerGoesOn(w)
         \/ \E r \in Receiver : PcConnected(r) \/ PcDown(r)
  PROVE  TypeOK'
<1>1. ASSUME NEW w \in Socket, WatchConnection(w) PROVE TypeOK'
  <2>1. after[w].node \in Receiver /\ after' \in [Socket -> Rest \cup {Nothing}]
    BY <1>1, AfterNode, DoneType DEF WatchConnection
  <2> QED
    BY <1>1, <2>1 DEF WatchConnection, TypeOK, stateVars, history
<1>2. ASSUME NEW w \in Socket, SendProbePackets(w) PROVE TypeOK'
  <2>1. after[w].node \in Receiver /\ after' \in [Socket -> Rest \cup {Nothing}]
    BY <1>2, AfterNode, DoneType DEF SendProbePackets
  <2> QED
    BY <1>2, <2>1 DEF SendProbePackets, TypeOK, stateVars, nodeVars, history
<1>3. ASSUME NEW w \in Socket, SelectNode(w) PROVE TypeOK'
  <2>1. after[w].node \in Receiver /\ after' \in [Socket -> Rest \cup {Nothing}]
    BY <1>3, AfterNode, DoneType DEF SelectNode
  <2> QED
    BY <1>3, <2>1 DEF SelectNode, TypeOK, stateVars, history
<1>4. ASSUME NEW r \in Receiver, PcConnected(r) PROVE TypeOK'
  <2>1. DATACHANNEL_READY \in SenderState /\ r \in Thread
    BY DEF SenderState, Thread
  <2> QED
    BY <1>4, <2>1, SetStateType DEF PcConnected, TypeOK, history
<1>5. ASSUME NEW r \in Receiver, PcDown(r) PROVE TypeOK'
  BY <1>5 DEF PcDown, TypeOK, stateVars, history
<1> QED
  BY <1>1, <1>2, <1>3, <1>4, <1>5 DEF HandlerGoesOn

\* The muxer's thread, its deadline and its calls keep the types.
LEMMA MainType ==
  ASSUME TypeOK,
         MainThread \/ DeadlinePasses \/ SpuriousWakeup \/ WritePacket \/ WriteTrailer,
         WriterHasReceiver
  PROVE  TypeOK'
<1>1. ASSUME JoinRoom PROVE TypeOK'
  <2>1. "main" \in Thread /\ WAITING_FOR_RECEIVER \in SenderState
    BY DEF Thread, SenderState
  <2>2. late' \in BOOLEAN
    BY <1>1 DEF JoinRoom
  <2>3. main' \in Place /\ open' \in SUBSET Socket
    BY <1>1 DEF JoinRoom, TypeOK, Place, InLoop
  <2> QED
    BY <1>1, <2>1, <2>2, <2>3, SetStateType DEF JoinRoom, TypeOK, nodeVars, history
<1>2. ASSUME DeadlinePasses PROVE TypeOK'
  <2>1. late' \in BOOLEAN
    BY <1>2 DEF DeadlinePasses
  <2> QED
    BY <1>2, <2>1 DEF DeadlinePasses, TypeOK, stateVars, nodeVars, history
<1>3. ASSUME FeedNode PROVE TypeOK'
  <2>1. selected_node \in Receiver
    BY <1>3 DEF FeedNode, WriterHasReceiver, Started, TypeOK
  <2>2. main' \in Place
    BY <1>3 DEF FeedNode, Place, Started
  <2> QED
    BY <1>3, <2>1, <2>2 DEF FeedNode, TypeOK, stateVars, nodeVars
<1>4. ASSUME WaitForReceiver \/ Retry PROVE TypeOK'
  BY <1>4 DEF WaitForReceiver, Retry, TypeOK, nodeVars, history, Place, InLoop
<1>5. ASSUME CheckState \/ WaitTimesOut \/ Woken \/ WritePacket PROVE TypeOK'
  <2>1. main' \in Place
    BY <1>5 DEF CheckState, WaitTimesOut, Woken, WritePacket, Place, InLoop, Started
  <2>2. MainLocks /\ UNCHANGED <<late, open, after, nodeVars, selected_node, history>>
    BY <1>5 DEF CheckState, WaitTimesOut, Woken, WritePacket
  <2> QED
    BY <2>1, <2>2, MainLocksType DEF TypeOK, nodeVars, history
<1>6. ASSUME WriteHeader \/ Deinit \/ SpuriousWakeup \/ WriteTrailer PROVE TypeOK'
  <2>1. main' \in Place
    BY <1>6 DEF WriteHeader, Deinit, SpuriousWakeup, WriteTrailer, Place, InLoop, Started
  <2>2. UNCHANGED <<late, stateVars, open, after, nodeVars, selected_node, history>>
    BY <1>6 DEF WriteHeader, Deinit, SpuriousWakeup, WriteTrailer
  <2> QED
    BY <2>1, <2>2 DEF TypeOK, stateVars, nodeVars, history
<1> QED
  BY <1>1, <1>2, <1>3, <1>4, <1>5, <1>6 DEF MainThread

-----------------------------------------------------------------------------
(* The other parts of the invariant.                                        *)

\* TracksMade never takes a track away, and makes those of its streams.
LEMMA TracksMadeGrows ==
  ASSUME TypeOK, NEW r \in Receiver, NEW n
  PROVE  /\ \A m \in Media : track[r][m] # "none" => TracksMade(r, n)[m] # "none"
         /\ \A i \in 1..n : Streams[i] \in Media => TracksMade(r, n)[Streams[i]] # "none"
BY DEF TracksMade

\* Only a connect request makes tracks or probe channels.
LEMMA OtherStepsKeepTracks ==
  ASSUME [Next]_vars
  PROVE  \/ UNCHANGED <<track, probe>>
         \/ \E w \in Socket, r \in Receiver : ConnectRequest(w, r) \/ ConnectRequestFails(w, r)
<1>1. ASSUME NEW t \in Thread, InSetState(t) PROVE UNCHANGED <<track, probe>>
  BY <1>1 DEF InSetState, LockAndTest, Store, Unlock, nodeVars
<1>2. ASSUME NEW w \in Socket, Handler(w)
      PROVE  \/ UNCHANGED <<track, probe>>
             \/ \E r \in Receiver : ConnectRequest(w, r) \/ ConnectRequestFails(w, r)
  BY <1>2 DEF Handler, RoomJoined, ErrorMessage, Offer, Answer, ProbeRequest,
              StreamRequest, nodeVars
<1>3. ASSUME NEW w \in Socket, HandlerGoesOn(w) PROVE UNCHANGED <<track, probe>>
  BY <1>3 DEF HandlerGoesOn, WatchConnection, SendProbePackets, SelectNode, nodeVars
<1>4. ASSUME NEW r \in Receiver, PcConnected(r) \/ PcDown(r)
      PROVE  UNCHANGED <<track, probe>>
  BY <1>4 DEF PcConnected, PcDown
<1>5. ASSUME MainThread \/ DeadlinePasses \/ SpuriousWakeup \/ WritePacket \/ WriteTrailer
      PROVE  UNCHANGED <<track, probe>>
  BY <1>5 DEF MainThread, JoinRoom, CheckState, WaitForReceiver, WaitTimesOut, Woken,
              WriteHeader, FeedNode, Deinit, Retry, DeadlinePasses, SpuriousWakeup,
              WritePacket, WriteTrailer, nodeVars
<1>6. ASSUME UNCHANGED vars PROVE UNCHANGED <<track, probe>>
  BY <1>6 DEF vars, nodeVars
<1> QED
  BY <1>1, <1>2, <1>3, <1>4, <1>5, <1>6 DEF Next

\* Every step keeps the probe channel last.
LEMMA ProbeStep ==
  ASSUME Inv, [Next]_vars
  PROVE  ProbeComesLast' /\ (\A r \in Receiver : probe[r] => probe'[r])
<1>1. ASSUME NEW w \in Socket, NEW r \in Receiver, ConnectRequest(w, r)
      PROVE  ProbeComesLast' /\ (\A q \in Receiver : probe[q] => probe'[q])
  <2>1. \A i \in 1..Len(Streams) : TracksMade(r, Len(Streams))[Streams[i]] # "none"
    BY TracksMadeGrows DEF Inv
  <2> QED
    BY <1>1, <2>1 DEF ConnectRequest, Inv, TypeOK, ProbeComesLast, AllTracksMade
<1>2. ASSUME NEW w \in Socket, NEW r \in Receiver, ConnectRequestFails(w, r)
      PROVE  ProbeComesLast' /\ (\A q \in Receiver : probe[q] => probe'[q])
  <2>1. UNCHANGED probe /\ \A q \in Receiver \ {r} : track'[q] = track[q]
    BY <1>2 DEF ConnectRequestFails, Inv, TypeOK
  <2>2. ~probe[r]
    <3>1. SUFFICES ASSUME probe[r] PROVE FALSE
      OBVIOUS
    <3>2. PICK n \in 0..(Len(Streams) - 1) : TracksMade(r, n)[Streams[n + 1]] = "none"
      BY <1>2, <3>1 DEF ConnectRequestFails
    <3>3. n + 1 \in 1..Len(Streams) /\ Streams[n + 1] \in Media
      BY <3>2
    <3> QED
      BY <3>1, <3>2, <3>3, TracksMadeGrows DEF Inv, ProbeComesLast, AllTracksMade
  <2> QED
    BY <2>1, <2>2 DEF Inv, ProbeComesLast, AllTracksMade
<1>3. CASE UNCHANGED <<track, probe>>
  BY <1>3 DEF Inv, ProbeComesLast, AllTracksMade
<1> QED
  BY <1>1, <1>2, <1>3, OtherStepsKeepTracks

\* Every step keeps what the way to the selected node promises.
LEMMA SelectionStep ==
  ASSUME Inv, [Next]_vars
  PROVE  /\ SelectionReady' /\ SelectedReady' /\ WriterHasReceiver'
         /\ fed' \subseteq asked'
<1> DEFINE Goal == SelectionReady /\ SelectedReady /\ WriterHasReceiver /\ fed \subseteq asked
<1>0. \A r \in Receiver : probe[r] => probe'[r]
  BY ProbeStep
<1>1. ASSUME NEW w \in Socket, NEW r \in Receiver, StreamRequest(w, r) PROVE Goal'
  <2>1. SelectionReady'
    BY <1>1 DEF StreamRequest, Inv, TypeOK, SelectionReady, nodeVars
  <2> QED
    BY <1>1, <2>1 DEF StreamRequest, Inv, SelectedReady, WriterHasReceiver, nodeVars
<1>2. ASSUME NEW w \in Socket, SelectNode(w) PROVE Goal'
  <2>1. /\ after[w].node \in Receiver
        /\ probe[after[w].node] /\ after[w].node \in asked
    BY <1>2, AfterNode DEF SelectNode, Inv, SelectionReady
  <2>2. SelectionReady'
    BY <1>2 DEF SelectNode, Inv, TypeOK, SelectionReady, history, Nothing, None
  <2> QED
    BY <1>2, <2>1, <2>2
    DEF SelectNode, Inv, SelectedReady, WriterHasReceiver, history
<1>3. ASSUME NEW w \in Socket,
             WatchConnection(w) \/ SendProbePackets(w)
               \/ \E r \in Receiver : Offer(w, r) \/ ProbeRequest(w, r)
      PROVE  Goal'
  <2>1. UNCHANGED <<asked, fed, selected_node, main, probe>>
    BY <1>3 DEF WatchConnection, SendProbePackets, Offer, ProbeRequest, nodeVars, history
  <2>2. \A v \in Socket : after'[v].do = "select" => after'[v] = after[v]
    BY <1>3 DEF WatchConnection, SendProbePackets, Offer, ProbeRequest, Inv, TypeOK,
                Nothing, None
  <2> QED
    BY <2>1, <2>2 DEF Inv, SelectionReady, SelectedReady, WriterHasReceiver
<1>4. ASSUME FeedNode PROVE Goal'
  BY <1>4 DEF FeedNode, Inv, SelectionReady, SelectedReady, WriterHasReceiver, Started,
              nodeVars
<1>5. ASSUME UNCHANGED <<after, selected_node, asked, fed>>,
             main' \in Started =>
               main \in Started \/ selected_node # None
      PROVE  Goal'
  <2>1. SelectionReady'
    <3> SUFFICES ASSUME NEW w \in Socket, after[w].do = "select"
                 PROVE  probe'[after[w].node] /\ after[w].node \in asked
      BY <1>5 DEF SelectionReady
    <3>1. after[w].node \in Receiver
      BY AfterNode DEF Inv
    <3> QED
      BY <3>1, <1>0 DEF Inv, SelectionReady
  <2> QED
    BY <1>0, <1>5, <2>1 DEF Inv, TypeOK, SelectedReady, WriterHasReceiver
<1>6. \/ /\ UNCHANGED <<after, selected_node, asked, fed>>
         /\ main' \in Started =>
              main \in Started \/ selected_node # None
      \/ FeedNode
      \/ \E w \in Socket : \/ SelectNode(w) \/ WatchConnection(w) \/ SendProbePackets(w)
                            \/ \E r \in Receiver : Offer(w, r) \/ ProbeRequest(w, r)
                                                    \/ StreamRequest(w, r)
  <2>1. ASSUME NEW t \in Thread, InSetState(t)
        PROVE  /\ UNCHANGED <<after, selected_node, asked, fed>>
               /\ main' \in Started => main \in Started
    BY <2>1 DEF InSetState, LockAndTest, Store, Unlock, Started, history
  <2>2. ASSUME NEW w \in Socket, Handler(w)
        PROVE  \/ UNCHANGED <<after, selected_node, asked, fed, main>>
               \/ \E r \in Receiver : Offer(w, r) \/ ProbeRequest(w, r) \/ StreamRequest(w, r)
    BY <2>2 DEF Handler, RoomJoined, ErrorMessage, ConnectRequest, ConnectRequestFails,
                Answer, history
  <2>3. ASSUME NEW r \in Receiver, PcConnected(r) \/ PcDown(r)
        PROVE  UNCHANGED <<after, selected_node, asked, fed, main>>
    BY <2>3 DEF PcConnected, PcDown, history
  <2>4. ASSUME MainThread \/ DeadlinePasses \/ SpuriousWakeup \/ WritePacket \/ WriteTrailer,
               ~FeedNode
        PROVE  /\ UNCHANGED <<after, selected_node, asked, fed>>
               /\ main' \in Started => main \in Started \/ selected_node # None
    BY <2>4 DEF MainThread, JoinRoom, CheckState, WaitForReceiver, WaitTimesOut, Woken,
                WriteHeader, Deinit, Retry, DeadlinePasses, SpuriousWakeup, WritePacket,
                WriteTrailer, Started, history
  <2>5. ASSUME UNCHANGED vars PROVE UNCHANGED <<after, selected_node, asked, fed, main>>
    BY <2>5 DEF vars, history
  <2> QED
    BY <2>1, <2>2, <2>3, <2>4, <2>5 DEF Next, HandlerGoesOn
<1> QED
  BY <1>1, <1>2, <1>3, <1>4, <1>5, <1>6

\* A step that fails without leaving a freed track makes none.
LEMMA FreedStep ==
  ASSUME TypeOK, NoTrackFreed, [Next]_vars, "freed" \notin Failures
  PROVE  NoTrackFreed'
<1>1. ASSUME NEW r \in Receiver, NEW n, NEW m \in Media PROVE TracksMade(r, n)[m] # "freed"
  BY <1>1 DEF TracksMade, NoTrackFreed
<1>2. ASSUME NEW w \in Socket, NEW r \in Receiver, ConnectRequest(w, r)
      PROVE  NoTrackFreed'
  BY <1>1, <1>2 DEF ConnectRequest, TypeOK, NoTrackFreed
<1>3. ASSUME NEW w \in Socket, NEW r \in Receiver, ConnectRequestFails(w, r)
      PROVE  NoTrackFreed'
  <2>1. CASE track' = [track EXCEPT ![r] = TracksMade(r, Len(Streams))]
    BY <1>1, <2>1 DEF TypeOK, NoTrackFreed
  <2>2. ASSUME NEW n \in 0..(Len(Streams) - 1), NEW left \in Failures,
               track' = [track EXCEPT ![r] =
                           [TracksMade(r, n) EXCEPT ![Streams[n + 1]] = left]]
        PROVE  NoTrackFreed'
    <3>1. TracksMade(r, n) \in [Media -> TrackState]
      BY TracksMadeType
    <3> QED
      BY <1>1, <2>2, <3>1 DEF TypeOK, NoTrackFreed
  <2> QED
    BY <1>3, <2>1, <2>2 DEF ConnectRequestFails
<1>4. CASE UNCHANGED track
  BY <1>4 DEF NoTrackFreed
<1> QED
  BY <1>2, <1>3, <1>4, OtherStepsKeepTracks

-----------------------------------------------------------------------------
\* Inv holds from the start and every step keeps it.
THEOREM Inductive == Spec => []Inv
<1>1. Init => Inv
  <2>1. ASSUME Init PROVE TypeOK
    <3>1. JOINING_ROOM \in SenderState /\ "start" \in Place /\ late \in BOOLEAN
      BY <2>1 DEF SenderState, Place, Init
    <3> QED
      BY <2>1, <3>1 DEF Init, TypeOK, TrackState
  <2>2. ASSUME Init
        PROVE  ProbeComesLast /\ SelectionReady /\ SelectedReady /\ WriterHasReceiver
    BY <2>2 DEF Init, ProbeComesLast, SelectionReady, SelectedReady, WriterHasReceiver,
                Started, Nothing, None
  <2> QED
    BY <2>1, <2>2 DEF Init, Inv
<1>2. Inv /\ [Next]_vars => Inv'
  <2> SUFFICES ASSUME Inv, [Next]_vars PROVE Inv'
    OBVIOUS
  <2>1. TypeOK'
    <3>1. CASE Next
      BY <3>1, SetStateStepType, HandlerType, CallbackType, MainType DEF Next, Inv
    <3>2. CASE UNCHANGED vars
      BY <3>2 DEF vars, stateVars, nodeVars, history, TypeOK, Inv
    <3> QED
      BY <3>1, <3>2
  <2> QED
    BY <2>1, ProbeStep, SelectionStep DEF Inv
<1> QED
  BY <1>1, <1>2, PTL DEF Spec

\* The shared state of the muxer keeps its types, whatever the interleaving of
\* its threads and with the mutex released by a thread that does not hold it.
THEOREM TypeCorrect == Spec => []TypeOK
<1>1. Inv => TypeOK
  BY DEF Inv
<1> QED
  BY <1>1, Inductive, PTL

\* A selected receiver has a live track for every stream, after any number of
\* connect requests that failed half way, if no failure leaves a freed track
\* (p2p_rtp_mux_signal_handler makes the probe channel last and asks for it in
\* the stream request).
THEOREM TracksOfSelected ==
  ASSUME "freed" \notin Failures
  PROVE  Spec => []SelectedTracksLive
<1>1. Init => NoTrackFreed
  BY DEF Init, NoTrackFreed
<1>2. Inv /\ NoTrackFreed /\ [Next]_vars => NoTrackFreed'
  BY FreedStep DEF Inv
<1>3. Inv /\ NoTrackFreed => SelectedTracksLive
  <2> SUFFICES ASSUME Inv, NoTrackFreed, selected_node # None
               PROVE  /\ probe[selected_node]
                      /\ \A i \in 1..Len(Streams) : track[selected_node][Streams[i]] = "live"
    BY DEF SelectedTracksLive
  <2>1. selected_node \in Receiver /\ probe[selected_node] /\ AllTracksMade(selected_node)
    BY DEF Inv, TypeOK, SelectedReady, ProbeComesLast
  <2>2. ASSUME NEW i \in 1..Len(Streams) PROVE track[selected_node][Streams[i]] = "live"
    <3>1. Streams[i] \in Media
      OBVIOUS
    <3>2. track[selected_node][Streams[i]] \in TrackState
      BY <2>1, <3>1 DEF Inv, TypeOK
    <3> QED
      BY <2>1, <3>1, <3>2 DEF AllTracksMade, NoTrackFreed, TrackState
  <2> QED
    BY <2>1, <2>2
<1> QED
  BY <1>1, <1>2, <1>3, Inductive, PTL DEF Spec

\* write_packet sends media only to receivers whose stream request was accepted.
THEOREM MediaToAskers == Spec => []MediaOnlyToAskers
<1>1. Inv => MediaOnlyToAskers
  BY DEF Inv, SelectedReady, WriterHasReceiver, MediaOnlyToAskers
<1> QED
  BY <1>1, Inductive, PTL

-----------------------------------------------------------------------------
(* What the mutex would give.                                               *)

\* Whoever is inside has the mutex, and a state that is about to be stored is
\* still ahead of the present one.
Owned ==
  \A t \in Thread :
    /\ Inside(t) => mutex = t
    /\ step[t] = "store" => current_state < target[t]

\* Only Store changes the state.
LEMMA StateStep ==
  ASSUME [Next]_vars
  PROVE  UNCHANGED current_state \/ \E t \in Thread : Store(t)
<1>1. ASSUME NEW t \in Thread, LockAndTest(t) \/ Unlock(t) PROVE UNCHANGED current_state
  BY <1>1 DEF LockAndTest, Unlock
<1>2. ASSUME NEW w \in Socket, Handler(w) PROVE UNCHANGED current_state
  BY <1>2 DEF Handler, RoomJoined, ErrorMessage, ConnectRequest, ConnectRequestFails, Offer,
     Answer, ProbeRequest, StreamRequest, SetState, stateVars
<1>3. ASSUME NEW w \in Socket, HandlerGoesOn(w) PROVE UNCHANGED current_state
  BY <1>3 DEF HandlerGoesOn, WatchConnection, SendProbePackets, SelectNode, stateVars
<1>4. ASSUME NEW r \in Receiver, PcConnected(r) \/ PcDown(r) PROVE UNCHANGED current_state
  BY <1>4 DEF PcConnected, PcDown, SetState, stateVars
<1>5. ASSUME MainThread \/ DeadlinePasses \/ SpuriousWakeup \/ WritePacket \/ WriteTrailer
      PROVE  UNCHANGED current_state
  BY <1>5 DEF MainThread, JoinRoom, CheckState, WaitForReceiver, WaitTimesOut, Woken,
     WriteHeader, FeedNode, Deinit, Retry, DeadlinePasses, SpuriousWakeup, WritePacket,
     WriteTrailer, MainLocks, SetState, stateVars
<1>6. ASSUME UNCHANGED vars PROVE UNCHANGED current_state
  BY <1>6 DEF vars, stateVars
<1> QED
  BY <1>1, <1>2, <1>3, <1>4, <1>5, <1>6 DEF Next, InSetState

\* As long as the wait and a new start find the mutex free, every step keeps it
\* with whoever is inside.
LEMMA OwnedStep ==
  ASSUME TypeOK, Owned, [Next]_vars, [WaitForReceiver \/ Retry => mutex = None]_vars
  PROVE  Owned'
<1> USE DEF Owned, Inside
<1>0. "main" \in Thread /\ Socket \subseteq Thread /\ Receiver \subseteq Thread
      /\ None \notin Thread
  BY DEF Thread, None
<1>1. ASSUME NEW t \in Thread, NEW s, SetState(t, s) PROVE Owned'
  BY <1>1 DEF SetState, TypeOK
<1>2. ASSUME NEW t \in Thread, LockAndTest(t) PROVE Owned'
  BY <1>0, <1>2 DEF LockAndTest, TypeOK
<1>3. ASSUME NEW t \in Thread, Store(t) PROVE Owned'
  BY <1>3 DEF Store, TypeOK
<1>4. ASSUME NEW t \in Thread, Unlock(t) PROVE Owned'
  BY <1>4 DEF Unlock, TypeOK
<1>5. ASSUME MainLocks PROVE Owned'
  BY <1>0, <1>5 DEF MainLocks, TypeOK
<1>6. ASSUME UNCHANGED stateVars PROVE Owned'
  BY <1>6 DEF stateVars
<1>7. ASSUME mutex = None, UNCHANGED <<current_state, step, target>> PROVE Owned'
  BY <1>0, <1>7
<1>8. ASSUME NEW w \in Socket, Handler(w) PROVE Owned'
  BY <1>0, <1>1, <1>6, <1>8 DEF Handler, RoomJoined, ErrorMessage, ConnectRequest,
     ConnectRequestFails, Offer, Answer, ProbeRequest, StreamRequest
<1>9. ASSUME NEW w \in Socket, HandlerGoesOn(w) PROVE Owned'
  BY <1>6, <1>9 DEF HandlerGoesOn, WatchConnection, SendProbePackets, SelectNode
<1>10. ASSUME NEW r \in Receiver, PcConnected(r) \/ PcDown(r) PROVE Owned'
  BY <1>0, <1>1, <1>6, <1>10 DEF PcConnected, PcDown
<1>11. ASSUME WaitForReceiver \/ Retry PROVE Owned'
  <2>1. CASE mutex = None
    BY <1>7, <1>11, <2>1 DEF WaitForReceiver, Retry
  <2>2. CASE UNCHANGED vars
    BY <1>6, <2>2 DEF vars
  <2> QED
    BY <1>11, <2>1, <2>2
<1>12. ASSUME MainThread \/ DeadlinePasses \/ SpuriousWakeup \/ WritePacket \/ WriteTrailer
       PROVE  Owned'
  BY <1>0, <1>1, <1>5, <1>6, <1>11, <1>12 DEF MainThread, JoinRoom, CheckState,
     WaitTimesOut, Woken, WriteHeader, FeedNode, Deinit, DeadlinePasses, SpuriousWakeup,
     WritePacket, WriteTrailer
<1> QED
  BY <1>2, <1>3, <1>4, <1>6, <1>8, <1>9, <1>10, <1>12 DEF Next, InSetState, vars

\* Init's wait without the mutex, and its new start, are all that is wrong with
\* the synchronisation: as long as both happen while nobody is inside, the code
\* under state_mutex excludes itself on all threads, and set_sender_state only
\* moves the state forward.
THEOREM LockSuffices ==
  Spec /\ WaitSparesHolder =>
    /\ [](\A t, u \in Thread : Inside(t) /\ Inside(u) => t = u)
    /\ StateOnlyAdvances
<1> DEFINE Excludes == \A t, u \in Thread : Inside(t) /\ Inside(u) => t = u
<1>1. Init => Owned
  BY DEF Init, Owned, Inside
<1>2. TypeOK /\ Owned /\ [Next]_vars /\ [WaitForReceiver \/ Retry => mutex = None]_vars
        => Owned'
  BY OwnedStep
<1>3. Owned => Excludes
  BY DEF Owned
<1>4. TypeOK /\ Owned /\ [Next]_vars => [current_state' >= current_state]_vars
  <2> SUFFICES ASSUME TypeOK, Owned, [Next]_vars PROVE current_state' >= current_state
    OBVIOUS
  <2>1. current_state \in Int
    BY DEF TypeOK, SenderState, JOINING_ROOM, WAITING_FOR_RECEIVER, SIGNALING,
           DATACHANNEL_READY, PROBING, STREAMING, ERROR
  <2>2. ASSUME NEW t \in Thread, Store(t) PROVE current_state' >= current_state
    <3>1. target[t] \in Int
      BY DEF TypeOK, SenderState, JOINING_ROOM, WAITING_FOR_RECEIVER, SIGNALING,
             DATACHANNEL_READY, PROBING, STREAMING, ERROR
    <3> QED
      BY <2>1, <2>2, <3>1 DEF Store, Owned
  <2> QED
    BY <2>1, <2>2, StateStep
<1> HIDE DEF Excludes
<1>5. Spec /\ WaitSparesHolder => []Excludes /\ StateOnlyAdvances
  BY <1>1, <1>2, <1>3, <1>4, TypeCorrect, PTL DEF Spec, WaitSparesHolder, StateOnlyAdvances
<1> QED
  BY <1>5 DEF Excludes
=============================================================================
