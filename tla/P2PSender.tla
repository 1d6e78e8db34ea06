------------------------------ MODULE P2PSender ------------------------------
(***************************************************************************)
(* The relay side, p2pmuxer: how it joins the room, builds a connection to *)
(* each receiver that asks, answers probe and stream requests, and feeds   *)
(* the receiver that selected it.                                          *)
(*                                                                         *)
(* Three kinds of thread run its code: the muxer's own thread ("main"),    *)
(* one thread per web socket, which handles the signalling messages one    *)
(* after the other, and one per peer connection, which runs its callbacks  *)
(* (named by the receiver).  They share current_state, under state_mutex   *)
(* and state_cond, and the nodes and selected_node, under nothing.         *)
(*                                                                         *)
(* p2p_rtp_muxer_init waits on state_cond without holding state_mutex.     *)
(* What that does is undefined; with a default mutex the wait releases it, *)
(* whoever holds it, and unlock never checks the owner.                    *)
(***************************************************************************)
EXTENDS Integers, Sequences

CONSTANTS
  Receiver,       \* remote ids
  Socket,         \* web sockets that can be told apart: each init opens one more
  Streams,        \* the media of avctx->streams, in order
  Failures        \* what the failed making of a track may leave; {} if none fails

Media == {"video", "audio"}

\* A node or thread that is not there.  Receiver and Socket are model values.
None == "none"

ASSUME SenderAssumption ==
  /\ Streams \in Seq(Media) /\ Streams # << >>
  /\ Failures \subseteq {"none", "freed"}
  /\ None \notin Receiver \cup Socket
  /\ "main" \notin Receiver \cup Socket
  /\ Receiver \cap Socket = {}

\* enum SenderState, the members that some step sets or compares.
JOINING_ROOM         == 1
WAITING_FOR_RECEIVER == 2
SIGNALING            == 3
DATACHANNEL_READY    == 5
PROBING              == 6
STREAMING            == 9
ERROR                == 10
SenderState == {JOINING_ROOM, WAITING_FOR_RECEIVER, SIGNALING, DATACHANNEL_READY,
                PROBING, STREAMING, ERROR}

Thread == {"main"} \cup Socket \cup Receiver

VARIABLES
  main,           \* where the muxer's thread is
  late,           \* the deadline of init's wait has passed
  current_state,
  mutex,          \* the thread that holds state_mutex, or None
  step,           \* each thread's place in what it does under state_mutex
  target,         \* new_state of that call (JOINING_ROOM outside one)
  open,           \* the web sockets opened so far (none is ever closed)
  after,          \* what is left of a socket's handler after set_sender_state
  status,         \* node->status; "absent" before create_peer_connection
  rtc,            \* external: the peer connection itself
  watched,        \* nodes whose callbacks init_peer_connection registered
  track,          \* node->video_track and audio_track
  probe,          \* node->probe_track # NULL
  selected_node,
  asked,          \* history: nodes whose stream request was accepted
  fed             \* history: nodes that were sent media

stateVars == <<current_state, mutex, step, target>>
nodeVars  == <<status, rtc, watched, track, probe>>
history   == <<asked, fed>>
vars == <<main, late, stateVars, open, after, nodeVars, selected_node, history>>

\* Places in init's wait loop, and outside it.
InLoop == {"check", "unlocked", "waiting", "woken"}
\* ... and once the header is written.
Started == {"writing", "feeding", "ended", "closed"}
Place   == InLoop \cup Started \cup {"start", "inited", "failed", "torn"}

Rest == [do : {"watch", "probe", "select"}, node : Receiver]
Nothing == [do |-> None, node |-> None]

\* What node->video_track or audio_track is.  "freed": init_send_track_ex failed
\* after it had set the pointer, and its caller freed the track; if it fails
\* before, the pointer stays "none".
TrackState == {"none", "live", "freed"}

TypeOK ==
  /\ main \in Place
  /\ late \in BOOLEAN
  /\ current_state \in SenderState
  /\ mutex \in Thread \cup {None}
  /\ step \in [Thread -> {"idle", "lock", "store", "unlock"}]
  /\ target \in [Thread -> SenderState]
  /\ open \in SUBSET Socket
  /\ after \in [Socket -> Rest \cup {Nothing}]
  /\ status \in [Receiver -> {"absent", "down", "connected", "selected"}]
  /\ rtc \in [Receiver -> {"new", "described", "up", "down"}]
  /\ watched \in SUBSET Receiver
  /\ track \in [Receiver -> [Media -> TrackState]]
  /\ probe \in [Receiver -> BOOLEAN]
  /\ selected_node \in Receiver \cup {None}
  /\ asked \in SUBSET Receiver
  /\ fed \in SUBSET Receiver

Init ==
  /\ main = "start" /\ late = FALSE
  /\ current_state = JOINING_ROOM /\ mutex = None
  /\ step = [t \in Thread |-> "idle"]
  /\ target = [t \in Thread |-> JOINING_ROOM]
  /\ open = {} /\ after = [w \in Socket |-> Nothing]
  /\ status = [r \in Receiver |-> "absent"]
  /\ rtc = [r \in Receiver |-> "new"]
  /\ watched = {}
  /\ track = [r \in Receiver |-> [m \in Media |-> "none"]]
  /\ probe = [r \in Receiver |-> FALSE]
  /\ selected_node = None
  /\ asked = {} /\ fed = {}

-----------------------------------------------------------------------------
(* What is done under state_mutex: set_sender_state, whose test and store   *)
(* the mutex should keep together, and the muxer thread's looks at the      *)
(* state.  Unlock leaves the mutex free, whoever has it by then.            *)

\* Thread t calls set_sender_state(s).
SetState(t, s) ==
  /\ step[t] = "idle"
  /\ step' = [step EXCEPT ![t] = "lock"]
  /\ target' = [target EXCEPT ![t] = s]
  /\ UNCHANGED <<current_state, mutex>>

LockAndTest(t) ==
  /\ step[t] = "lock" /\ mutex = None
  /\ mutex' = t
  /\ step' = [step EXCEPT ![t] = IF current_state < target[t] THEN "store" ELSE "unlock"]
  /\ UNCHANGED <<main, late, current_state, target, open, after, nodeVars,
                 selected_node, history>>

\* Mutant: the state moves on by one instead of to new_state.
StoreNext(t) ==
  /\ step[t] = "store"
  /\ current_state' = current_state + 1
  /\ main' = IF main = "waiting" THEN "woken" ELSE main
  /\ step' = [step EXCEPT ![t] = "unlock"]
  /\ UNCHANGED <<late, mutex, target, open, after, nodeVars, selected_node, history>>

\* The store comes with a broadcast.
Store(t) ==
  /\ step[t] = "store"
  /\ current_state' = target[t]
  /\ main' = IF main = "waiting" THEN "woken" ELSE main
  /\ step' = [step EXCEPT ![t] = "unlock"]
  /\ UNCHANGED <<late, mutex, target, open, after, nodeVars, selected_node, history>>

Unlock(t) ==
  /\ step[t] = "unlock"
  /\ mutex' = None
  /\ step' = [step EXCEPT ![t] = "idle"]
  /\ target' = [target EXCEPT ![t] = JOINING_ROOM]
  /\ UNCHANGED <<main, late, current_state, open, after, nodeVars, selected_node, history>>

\* The muxer's thread takes the mutex, by pthread_mutex_lock or on its way out of
\* the wait, to look at the state; its unlock is still to come.
MainLocks ==
  /\ step["main"] = "idle" /\ mutex = None
  /\ mutex' = "main"
  /\ step' = [step EXCEPT !["main"] = "unlock"]
  /\ UNCHANGED <<current_state, target>>

-----------------------------------------------------------------------------
(* p2p_rtp_mux_signal_handler, on socket w, for a message from receiver r.  *)

Idle(w) == w \in open /\ step[w] = "idle" /\ after[w] = Nothing

RoomJoined(w) ==
  /\ Idle(w)
  /\ SetState(w, WAITING_FOR_RECEIVER)
  /\ UNCHANGED <<main, late, open, after, nodeVars, selected_node, history>>

\* P2P_MSG_ERROR, and every message whose type string is not known.
ErrorMessage(w) ==
  /\ Idle(w)
  /\ SetState(w, ERROR)
  /\ UNCHANGED <<main, late, open, after, nodeVars, selected_node, history>>

StatusOfFoundOrCreated(r) ==
  IF status[r] = "absent" THEN [status EXCEPT ![r] = "down"] ELSE status

\* The node's tracks once the first n streams have theirs.
TracksMade(r, n) ==
  [m \in Media |-> IF track[r][m] = "none" /\ \E i \in 1..n : Streams[i] = m
                   THEN "live" ELSE track[r][m]]

\* CONNECT_REQUEST: every track is there, the offer goes out.
ConnectRequest(w, r) ==
  /\ Idle(w)
  /\ status' = StatusOfFoundOrCreated(r)
  /\ track' = [track EXCEPT ![r] = TracksMade(r, Len(Streams))]
  /\ probe' = [probe EXCEPT ![r] = TRUE]
  /\ watched' = watched \cup {r}
  /\ SetState(w, SIGNALING)
  /\ UNCHANGED <<main, late, open, after, rtc, selected_node, history>>

\* Mutant: the probe channel is made first, before the media tracks.
ConnectRequestFailsAfterProbe(w, r) ==
  /\ Idle(w) /\ Failures # {}
  /\ status' = StatusOfFoundOrCreated(r)
  /\ probe' = [probe EXCEPT ![r] = TRUE]
  /\ \E n \in 0..(Len(Streams) - 1) :
       track' = [track EXCEPT ![r] = TracksMade(r, n)]
  /\ UNCHANGED <<main, late, stateVars, open, after, rtc, watched, selected_node, history>>

(***************************************************************************)
(* ... or a track cannot be made and the handler returns there: that of    *)
(* stream n + 1, or the probe channel, which comes last.  A media track    *)
(* whose callbacks cannot be set is freed after the node points to it.     *)
(***************************************************************************)
ConnectRequestFails(w, r) ==
  /\ Idle(w) /\ Failures # {}
  /\ status' = StatusOfFoundOrCreated(r)
  /\ \/ /\ ~probe[r]
        /\ track' = [track EXCEPT ![r] = TracksMade(r, Len(Streams))]
     \/ \E n \in 0..(Len(Streams) - 1), left \in Failures :
          /\ TracksMade(r, n)[Streams[n + 1]] = "none"
          /\ track' = [track EXCEPT ![r] =
                         [TracksMade(r, n) EXCEPT ![Streams[n + 1]] = left]]
  /\ UNCHANGED <<main, late, stateVars, open, after, rtc, watched, probe,
                 selected_node, history>>

\* OFFER: the callbacks are registered only after the state is set.
Offer(w, r) ==
  /\ Idle(w)
  /\ status' = StatusOfFoundOrCreated(r)
  /\ rtc' = [rtc EXCEPT ![r] = IF @ = "new" THEN "described" ELSE @]
  /\ SetState(w, SIGNALING)
  /\ after' = [after EXCEPT ![w] = [do |-> "watch", node |-> r]]
  /\ UNCHANGED <<main, late, open, watched, track, probe, selected_node, history>>

WatchConnection(w) ==
  /\ after[w].do = "watch" /\ step[w] = "idle"
  /\ watched' = watched \cup {after[w].node}
  /\ after' = [after EXCEPT ![w] = Nothing]
  /\ UNCHANGED <<main, late, stateVars, open, status, rtc, track, probe,
                 selected_node, history>>

\* ANSWER to the offer of ConnectRequest (and its CANDIDATEs).
Answer(w, r) ==
  /\ Idle(w)
  /\ r \in watched /\ rtc[r] = "new"
  /\ rtc' = [rtc EXCEPT ![r] = "described"]
  /\ UNCHANGED <<main, late, stateVars, open, after, status, watched, track, probe,
                 selected_node, history>>

ProbeRequest(w, r) ==
  /\ Idle(w)
  /\ status[r] # "absent"
  /\ SetState(w, PROBING)
  /\ after' = [after EXCEPT ![w] = [do |-> "probe", node |-> r]]
  /\ UNCHANGED <<main, late, open, nodeVars, selected_node, history>>

\* send_probe_packets, on the socket's thread; its packets are no state of
\* this side (P2PSession puts them on the wire).
SendProbePackets(w) ==
  /\ after[w].do = "probe" /\ step[w] = "idle"
  /\ after' = [after EXCEPT ![w] = Nothing]
  /\ UNCHANGED <<main, late, stateVars, open, nodeVars, selected_node, history>>

\* STREAM_REQUEST: past its checks STREAM_READY is sent and the state is set ...
StreamRequest(w, r) ==
  /\ Idle(w)
  /\ status[r] = "connected"
  /\ probe[r] /\ \E m \in Media : track[r][m] # "none"
  /\ asked' = asked \cup {r}
  /\ SetState(w, STREAMING)
  /\ after' = [after EXCEPT ![w] = [do |-> "select", node |-> r]]
  /\ UNCHANGED <<main, late, open, nodeVars, selected_node, fed>>

\* ... and only then the node is selected.
SelectNode(w) ==
  /\ after[w].do = "select" /\ step[w] = "idle"
  /\ selected_node' = after[w].node
  /\ status' = [status EXCEPT ![after[w].node] = "selected"]
  /\ after' = [after EXCEPT ![w] = Nothing]
  /\ UNCHANGED <<main, late, stateVars, open, rtc, watched, track, probe, history>>

\* Mutant: a connection that comes up is selected at once.
SelectsOnConnect(r) ==
  /\ r \in watched /\ step[r] = "idle"
  /\ rtc[r] \in {"described", "down"}
  /\ rtc' = [rtc EXCEPT ![r] = "up"]
  /\ status' = [status EXCEPT ![r] = "selected"]
  /\ selected_node' = r
  /\ SetState(r, STREAMING)
  /\ UNCHANGED <<main, late, open, after, watched, track, probe, history>>

(***************************************************************************)
(* on_pc_state_change_callback: the connection comes up, and               *)
(* on_pc_connected_callback runs; or it goes down, in one of the states    *)
(* that nothing tells apart.  Both overwrite the status Selected.          *)
(***************************************************************************)
PcConnected(r) ==
  /\ r \in watched /\ step[r] = "idle"
  /\ rtc[r] \in {"described", "down"}
  /\ rtc' = [rtc EXCEPT ![r] = "up"]
  /\ status' = [status EXCEPT ![r] = "connected"]
  /\ SetState(r, DATACHANNEL_READY)
  /\ UNCHANGED <<main, late, open, after, watched, track, probe, selected_node, history>>

PcDown(r) ==
  /\ r \in watched /\ step[r] = "idle"
  /\ rtc[r] \in {"described", "up"}
  /\ rtc' = [rtc EXCEPT ![r] = "down"]
  /\ status' = [status EXCEPT ![r] = "down"]
  /\ UNCHANGED <<main, late, stateVars, open, after, watched, track, probe,
                 selected_node, history>>

-----------------------------------------------------------------------------
(* The muxer's thread.                                                      *)

\* p2p_rtp_muxer_init up to its wait: a web socket is opened, the handler set
\* and the room joined.
JoinRoom ==
  /\ main = "start"
  /\ \E w \in Socket : (w \notin open \/ open = Socket) /\ open' = open \cup {w}
  /\ late' = FALSE
  /\ SetState("main", WAITING_FOR_RECEIVER)
  /\ main' = "check"
  /\ UNCHANGED <<after, nodeVars, selected_node, history>>

\* The loop's condition, get_state_thread_safe.
CheckState ==
  /\ main = "check" /\ MainLocks
  /\ main' = IF current_state = STREAMING THEN "inited" ELSE "unlocked"
  /\ UNCHANGED <<late, open, after, nodeVars, selected_node, history>>

\* pthread_cond_timedwait is entered without the mutex, and releases it.
WaitForReceiver ==
  /\ main = "unlocked" /\ step["main"] = "idle"
  /\ mutex' = None
  /\ main' = "waiting"
  /\ UNCHANGED <<late, current_state, step, target, open, after, nodeVars,
                 selected_node, history>>

DeadlinePasses ==
  /\ main \in InLoop /\ ~late
  /\ late' = TRUE
  /\ UNCHANGED <<main, stateVars, open, after, nodeVars, selected_node, history>>

SpuriousWakeup ==
  /\ main = "waiting" /\ ~late
  /\ main' = "woken"
  /\ UNCHANGED <<late, stateVars, open, after, nodeVars, selected_node, history>>

\* ETIMEDOUT: the wait takes the mutex, and init unlocks it and returns without
\* another look at the state.
WaitTimesOut ==
  /\ main = "waiting" /\ late /\ MainLocks
  /\ main' = "failed"
  /\ UNCHANGED <<late, open, after, nodeVars, selected_node, history>>

\* Mutant: the mutex taken by the wait is not given back.
WokenKeepsMutex ==
  /\ main = "woken" /\ mutex = None
  /\ main' = IF current_state = ERROR THEN "failed" ELSE "check"
  /\ mutex' = "main"
  /\ UNCHANGED <<late, current_state, step, target, open, after, nodeVars,
                 selected_node, history>>

\* The wait takes the mutex, init looks at the state and unlocks it.
Woken ==
  /\ main = "woken" /\ MainLocks
  /\ main' = IF current_state = ERROR THEN "failed" ELSE "check"
  /\ UNCHANGED <<late, open, after, nodeVars, selected_node, history>>

WriteHeader ==
  /\ main = "inited" /\ step["main"] = "idle"
  /\ main' = IF selected_node = None THEN "failed" ELSE "writing"
  /\ UNCHANGED <<late, stateVars, open, after, nodeVars, selected_node, history>>

\* A packet of some stream: unless the state is STREAMING the call fails ...
WritePacket ==
  /\ main = "writing" /\ MainLocks
  /\ main' = IF current_state = STREAMING THEN "feeding" ELSE "writing"
  /\ UNCHANGED <<late, open, after, nodeVars, selected_node, history>>

\* ... and after the unlock the packet goes to the node that is selected by then.
FeedNode ==
  /\ main = "feeding" /\ step["main"] = "idle"
  /\ main' = "writing"
  /\ fed' = fed \cup {selected_node}
  /\ UNCHANGED <<late, stateVars, open, after, nodeVars, selected_node, asked>>

WriteTrailer ==
  /\ main = "writing" /\ step["main"] = "idle"
  /\ main' = "ended"
  /\ UNCHANGED <<late, stateVars, open, after, nodeVars, selected_node, history>>

\* Mutant: the selected node is dropped too, while the state is kept.
DeinitForgetsNode ==
  /\ main \in {"failed", "ended"} /\ step["main"] = "idle"
  /\ main' = IF main = "failed" THEN "torn" ELSE "closed"
  /\ selected_node' = None
  /\ UNCHANGED <<late, stateVars, open, after, nodeVars, history>>

(***************************************************************************)
(* p2p_rtp_muxer_deinit destroys the mutex; p2p_close_resource does        *)
(* nothing, so sockets and connections live on.  After a failure the       *)
(* player writes the header again with its next packet, and init runs      *)
(* again on the same context.                                              *)
(***************************************************************************)
Deinit ==
  /\ main \in {"failed", "ended"} /\ step["main"] = "idle"
  /\ main' = IF main = "failed" THEN "torn" ELSE "closed"
  /\ UNCHANGED <<late, stateVars, open, after, nodeVars, selected_node, history>>

Retry ==
  /\ main = "torn"
  /\ main' = "start"
  /\ mutex' = None
  /\ UNCHANGED <<late, current_state, step, target, open, after, nodeVars,
                 selected_node, history>>

-----------------------------------------------------------------------------
InSetState(t) == LockAndTest(t) \/ Store(t) \/ Unlock(t)

MainThread ==
  \/ JoinRoom \/ CheckState \/ WaitForReceiver \/ WaitTimesOut \/ Woken
  \/ WriteHeader \/ FeedNode \/ Deinit \/ Retry

Handler(w) ==
  \/ RoomJoined(w) \/ ErrorMessage(w)
  \/ \E r \in Receiver :
       \/ ConnectRequest(w, r) \/ ConnectRequestFails(w, r) \/ Offer(w, r)
       \/ Answer(w, r) \/ ProbeRequest(w, r) \/ StreamRequest(w, r)

HandlerGoesOn(w) == WatchConnection(w) \/ SendProbePackets(w) \/ SelectNode(w)

Next ==
  \/ \E t \in Thread : InSetState(t)
  \/ \E w \in Socket : Handler(w) \/ HandlerGoesOn(w)
  \/ \E r \in Receiver : PcConnected(r) \/ PcDown(r)
  \/ MainThread \/ DeadlinePasses \/ SpuriousWakeup \/ WritePacket \/ WriteTrailer

Spec == Init /\ [][Next]_vars

(***************************************************************************)
(* Every thread that is inside the code goes on, time passes, and the      *)
(* player, whose packets keep coming, writes the header again after a      *)
(* failure.  Nothing is assumed of the messages or the connections.        *)
(***************************************************************************)
FairSpec ==
  /\ Spec
  /\ WF_vars(MainThread)
  /\ WF_vars(DeadlinePasses)
  /\ \A t \in Thread : WF_vars(InSetState(t))
  /\ \A w \in Socket : WF_vars(HandlerGoesOn(w))

-----------------------------------------------------------------------------
(***************************************************************************)
(* A selected receiver has a track for every stream of the muxer, although *)
(* the stream request only asks for one of them and an earlier connect     *)
(* request may have given up half way: the probe channel, which the        *)
(* request also asks for, is made after all of them.  It holds unless a    *)
(* failure leaves a freed track in the node ("freed" \in Failures), which  *)
(* every later connect request takes for one that is there.                *)
(***************************************************************************)
SelectedTracksLive ==
  selected_node # None =>
    /\ probe[selected_node]
    /\ \A i \in 1..Len(Streams) : track[selected_node][Streams[i]] = "live"

(***************************************************************************)
(* Media goes only to receivers whose stream request was accepted, and the *)
(* muxer writes packets only when there is one: neither a failed start     *)
(* that is tried again nor a connection that comes and goes sends media to *)
(* a receiver that did not ask.                                            *)
(***************************************************************************)
MediaOnlyToAskers ==
  /\ fed \subseteq asked
  /\ main \in Started => selected_node \in asked

(***************************************************************************)
(* p2p_rtp_muxer_init ends: once no other thread calls set_sender_state    *)
(* any more, the wait loop is left, by the state or by the deadline, and   *)
(* never hangs on the mutex.                                               *)
(***************************************************************************)
InitReturns ==
  <>[](\A t \in Thread \ {"main"} : step[t] = "idle") => []<>(main \notin InLoop)

(***************************************************************************)
(* The two ways in which init loses a receiver that has selected the muxer *)
(* (the broadcast missed before the wait; write_header running before      *)
(* selected_node is set) are repaired by the next attempt: once the state  *)
(* stays STREAMING and the callbacks are over, the muxer gets to write     *)
(* packets.                                                                *)
(***************************************************************************)
RetryReachesReceiver ==
  <>[](current_state = STREAMING /\ \A t \in Thread \ {"main"} : step[t] = "idle")
    => <>(main \in Started)

(***************************************************************************)
(* What a comment claims, and the code does not do.                        *)
(***************************************************************************)

\* "wait with a condition variable until a receiver connects and selects this
\* node": the wait is not given up in the state that it waits for.
StreamingIsNoticed ==
  [][main = "waiting" /\ main' = "failed" => current_state # STREAMING]_vars

\* "state change synchronisation mechanism", on state_mutex and state_cond: the
\* test and the store of set_sender_state are one, so that the state only moves
\* forward.  The wait takes the mutex from a thread between the two.
StateOnlyAdvances == [][current_state' >= current_state]_vars

-----------------------------------------------------------------------------
\* Thread t is between a lock and its unlock.
Inside(t) == step[t] \in {"store", "unlock"}

\* What StateOnlyAdvances lacks: init neither waits without the mutex nor runs
\* again while another thread is inside.
WaitSparesHolder == [][WaitForReceiver \/ Retry => mutex = None]_vars
=============================================================================
