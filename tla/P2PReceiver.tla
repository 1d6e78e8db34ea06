----------------------------- MODULE P2PReceiver -----------------------------
(***************************************************************************)
(* The viewer's side of a connection, in p2pdemuxer: the connect thread    *)
(* (p2p_pending_for_probing_node) that probes the connected senders,       *)
(* selects the best and asks it for the stream, while the web socket's     *)
(* thread handles signalling messages and each peer connection's thread    *)
(* (named by its sender) runs the connection's callbacks.                  *)
(*                                                                         *)
(* current_state is shared by all of them without a lock, and              *)
(* p2p_set_receiver_state tests it before it stores: `storing` holds what  *)
(* a thread has tested for and not yet stored.                             *)
(***************************************************************************)
EXTENDS Integers

CONSTANTS
  Sender,         \* remote ids
  ProbePackets    \* packets of one probe (10 in the code)

None == "none"

ASSUME ReceiverAssumption ==
  /\ ProbePackets \in Nat \ {0}
  /\ {None, "connect", "ws"} \cap Sender = {}

\* enum ReceiverState, the members that some step sets or compares.
JOINING_ROOM       == 1
WAITING_FOR_SENDER == 2
SIGNALING          == 3
DATACHANNEL_READY  == 5
PROBING            == 6
PROBE_COMPLETED    == 7
REQUESTING_STREAM  == 8
STREAMING          == 9
ERROR              == 10
ReceiverState == {JOINING_ROOM, WAITING_FOR_SENDER, SIGNALING, DATACHANNEL_READY,
                  PROBING, PROBE_COMPLETED, REQUESTING_STREAM, STREAMING, ERROR}
NoStore == 0

Thread == {"connect", "ws"} \cup Sender

VARIABLES
  conn,           \* where the connect thread is
  late,           \* wait_timeout has passed since it started
  probeLate,      \* the 30 s of the probing phase have passed
  current_state,
  storing,
  status,         \* node->status; "absent" before create_peer_connection
  rtc,            \* external: the peer connection itself
  watched,        \* nodes whose callbacks init_peer_connection registered
  fresh,          \* connections that are up and not yet initialised for probing
  expected,       \* network_quality.expected_packets > 0
  received,       \* network_quality.packets_received
  complete,       \* network_quality.phase = PROBING_COMPLETE
  flight,         \* external: probe packets that may still arrive
  selected_node,
  probeSent,      \* history: nodes that were sent a probe request
  requested       \* history: nodes that were sent a stream request

stateVars == <<current_state, storing>>
nodeVars  == <<status, rtc, watched, fresh>>
probeVars == <<expected, received, complete>>
timeVars  == <<late, probeLate>>
vars == <<conn, timeVars, stateVars, nodeVars, probeVars, flight, selected_node,
          probeSent, requested>>

Place == {"loop", "sendProbes", "stuck", "probing", "probed", "failing",
          "ready", "failed"}

TypeOK ==
  /\ conn \in Place
  /\ late \in BOOLEAN
  /\ probeLate \in BOOLEAN
  /\ current_state \in ReceiverState
  /\ storing \in [Thread -> ReceiverState \cup {NoStore}]
  /\ status \in [Sender -> {"absent", "down", "connected", "selected"}]
  /\ rtc \in [Sender -> {"new", "described", "up", "down"}]
  /\ watched \in SUBSET Sender
  /\ fresh \in SUBSET Sender
  /\ expected \in [Sender -> BOOLEAN]
  /\ received \in [Sender -> 0..ProbePackets]
  /\ complete \in [Sender -> BOOLEAN]
  /\ flight \in [Sender -> 0..ProbePackets]
  /\ selected_node \in Sender \cup {None}
  /\ probeSent \in SUBSET Sender
  /\ requested \in SUBSET Sender

Init ==
  /\ conn = "loop" /\ late = FALSE /\ probeLate = FALSE
  /\ current_state = JOINING_ROOM
  /\ storing = [t \in Thread |-> NoStore]
  /\ status = [s \in Sender |-> "absent"]
  /\ rtc = [s \in Sender |-> "new"]
  /\ watched = {} /\ fresh = {}
  /\ expected = [s \in Sender |-> FALSE]
  /\ received = [s \in Sender |-> 0]
  /\ complete = [s \in Sender |-> FALSE]
  /\ flight = [s \in Sender |-> 0]
  /\ selected_node = None
  /\ probeSent = {} /\ requested = {}

-----------------------------------------------------------------------------
(* p2p_set_receiver_state: thread t tests, and stores in a later step.      *)

\* Mutant: the state moves on by one instead of to new_state.
SetNextState(t, s) ==
  /\ storing[t] = NoStore
  /\ storing' = [storing EXCEPT ![t] = IF current_state < s THEN current_state + 1 ELSE NoStore]
  /\ UNCHANGED current_state
SetState(t, s) ==
  /\ storing[t] = NoStore
  /\ storing' = [storing EXCEPT ![t] = IF current_state < s THEN s ELSE NoStore]
  /\ UNCHANGED current_state

Store(t) ==
  /\ storing[t] # NoStore
  /\ current_state' = storing[t]
  /\ storing' = [storing EXCEPT ![t] = NoStore]
  \* state_enter_time, from which the probing phase counts its 30 s
  /\ probeLate' = IF storing[t] = PROBING THEN FALSE ELSE probeLate
  /\ UNCHANGED <<conn, late, nodeVars, probeVars, flight, selected_node, probeSent,
                 requested>>

-----------------------------------------------------------------------------
(* p2p_rtp_demux_signal_handler.                                            *)

WsIdle == storing["ws"] = NoStore

RoomJoined ==
  /\ WsIdle
  /\ SetState("ws", WAITING_FOR_SENDER)
  /\ UNCHANGED <<conn, timeVars, nodeVars, probeVars, flight, selected_node, probeSent,
                 requested>>

\* P2P_MSG_ERROR, and every message whose type string is not known.
ErrorMessage ==
  /\ WsIdle
  /\ SetState("ws", ERROR)
  /\ UNCHANGED <<conn, timeVars, nodeVars, probeVars, flight, selected_node, probeSent,
                 requested>>

StatusOfFoundOrCreated(s) ==
  IF status[s] = "absent" THEN [status EXCEPT ![s] = "down"] ELSE status

\* CONNECT_REQUEST whose target is the sender of the message.
ConnectRequest(s) ==
  /\ WsIdle
  /\ status' = StatusOfFoundOrCreated(s)
  /\ watched' = watched \cup {s}
  /\ SetState("ws", SIGNALING)
  /\ UNCHANGED <<conn, timeVars, rtc, fresh, probeVars, flight, selected_node, probeSent,
                 requested>>

\* OFFER, which is answered at once.
Offer(s) ==
  /\ WsIdle
  /\ status' = StatusOfFoundOrCreated(s)
  /\ rtc' = [rtc EXCEPT ![s] = IF @ = "new" THEN "described" ELSE @]
  /\ watched' = watched \cup {s}
  /\ SetState("ws", SIGNALING)
  /\ UNCHANGED <<conn, timeVars, fresh, probeVars, flight, selected_node, probeSent,
                 requested>>

\* Mutant: any known node's STREAM_READY counts.
StreamReadyFromAny(s) ==
  /\ WsIdle
  /\ status[s] # "absent"
  /\ SetState("ws", STREAMING)
  /\ UNCHANGED <<conn, timeVars, nodeVars, probeVars, flight, selected_node, probeSent,
                 requested>>

\* STREAM_READY counts if it comes from the selected node.
StreamReady(s) ==
  /\ WsIdle
  /\ s = selected_node
  /\ SetState("ws", STREAMING)
  /\ UNCHANGED <<conn, timeVars, nodeVars, probeVars, flight, selected_node, probeSent,
                 requested>>

-----------------------------------------------------------------------------
(* The connection's callbacks.                                              *)

\* on_pc_state_change_callback, RTC_CONNECTED: the status first ...
PcConnected(s) ==
  /\ s \in watched \ fresh /\ storing[s] = NoStore
  /\ rtc[s] \in {"described", "down"}
  /\ rtc' = [rtc EXCEPT ![s] = "up"]
  /\ status' = [status EXCEPT ![s] = "connected"]
  /\ fresh' = fresh \cup {s}
  /\ UNCHANGED <<conn, timeVars, stateVars, watched, probeVars, flight, selected_node,
                 probeSent, requested>>

\* Mutant: a node that comes up again has lost its selection.
OnPcConnectedStartsOver(s) ==
  /\ s \in fresh
  /\ fresh' = fresh \ {s}
  /\ expected' = [expected EXCEPT ![s] = FALSE]
  /\ received' = [received EXCEPT ![s] = 0]
  /\ complete' = [complete EXCEPT ![s] = FALSE]
  /\ selected_node' = IF selected_node = s THEN None ELSE selected_node
  /\ SetState(s, DATACHANNEL_READY)
  /\ UNCHANGED <<conn, timeVars, status, rtc, watched, flight, probeSent, requested>>

\* ... then on_pc_connected_callback: probe_data_init and the state.
OnPcConnected(s) ==
  /\ s \in fresh
  /\ fresh' = fresh \ {s}
  /\ expected' = [expected EXCEPT ![s] = FALSE]
  /\ received' = [received EXCEPT ![s] = 0]
  /\ complete' = [complete EXCEPT ![s] = FALSE]
  /\ SetState(s, DATACHANNEL_READY)
  /\ UNCHANGED <<conn, timeVars, status, rtc, watched, flight, selected_node, probeSent,
                 requested>>

\* Any of the states that are not RTC_CONNECTED: nothing tells them apart.
PcDown(s) ==
  /\ s \in watched \ fresh /\ storing[s] = NoStore
  /\ rtc[s] \in {"described", "up"}
  /\ rtc' = [rtc EXCEPT ![s] = "down"]
  /\ status' = [status EXCEPT ![s] = "down"]
  /\ UNCHANGED <<conn, timeVars, stateVars, watched, fresh, probeVars, flight, selected_node,
                 probeSent, requested>>

\* handle_probe_packet.  Packets of an earlier probe do not count beyond the
\* bound.
ProbePacket(s) ==
  /\ flight[s] > 0 /\ received[s] < ProbePackets
  /\ flight' = [flight EXCEPT ![s] = @ - 1]
  /\ received' = [received EXCEPT ![s] = @ + 1]
  /\ complete' = [complete EXCEPT ![s] = @ \/ (expected[s] /\ received'[s] >= ProbePackets)]
  /\ UNCHANGED <<conn, timeVars, stateVars, nodeVars, expected, selected_node, probeSent,
                 requested>>

-----------------------------------------------------------------------------
(* p2p_pending_for_probing_node, on the connect thread.                     *)

Connected == {s \in Sender : status[s] = "connected"}

\* The thread is at p, and its last p2p_set_receiver_state has returned.
At(p) == conn = p /\ storing["connect"] = NoStore

\* The error exits: the state is set to ERROR, then the function returns.
Fail == SetState("connect", ERROR) /\ conn' = "failing"

LoopEnds ==
  /\ \/ /\ At("loop")
        /\ \/ current_state = STREAMING /\ conn' = "ready"
           \/ current_state # STREAMING /\ (late \/ current_state = ERROR) /\ conn' = "failed"
     \/ At("failing") /\ conn' = "failed"
  /\ UNCHANGED <<timeVars, stateVars, nodeVars, probeVars, flight, selected_node, probeSent,
                 requested>>

InState(s) == At("loop") /\ ~late /\ current_state = s

\* DATACHANNEL_READY: every connected node's metrics are initialised (again).
InitProbes ==
  /\ InState(DATACHANNEL_READY)
  /\ Connected # {}
  /\ expected' = [s \in Sender |-> expected[s] /\ s \notin Connected]
  /\ received' = [s \in Sender |-> IF s \in Connected THEN 0 ELSE received[s]]
  /\ complete' = [s \in Sender |-> complete[s] /\ s \notin Connected]
  /\ conn' = "sendProbes"
  /\ UNCHANGED <<timeVars, stateVars, nodeVars, flight, selected_node, probeSent, requested>>

(***************************************************************************)
(* The nodes that are connected now are sent a probe request, each of      *)
(* which may fail.  If none was sent the thread sleeps in a loop that does *)
(* not send again.                                                         *)
(***************************************************************************)
SendProbes ==
  /\ At("sendProbes")
  /\ expected' = [s \in Sender |-> expected[s] \/ s \in Connected]
  /\ \E sent \in SUBSET Connected :
       /\ flight' = [s \in Sender |-> IF s \in sent THEN ProbePackets ELSE flight[s]]
       /\ probeSent' = probeSent \cup sent
       /\ IF sent = {}
          THEN conn' = "stuck" /\ UNCHANGED stateVars
          ELSE conn' = "loop" /\ SetState("connect", PROBING)
  /\ UNCHANGED <<timeVars, nodeVars, received, complete, selected_node, requested>>

\* PROBING: an inner loop that no longer looks at wait_timeout.
EnterProbing ==
  /\ InState(PROBING)
  /\ conn' = "probing"
  /\ UNCHANGED <<timeVars, stateVars, nodeVars, probeVars, flight, selected_node, probeSent,
                 requested>>

\* Mutant: the phase's timeout is not looked at.
ProbingEndsWithoutTimeout ==
  /\ At("probing")
  /\ \/ current_state # PROBING /\ conn' = "loop"
     \/ /\ current_state = PROBING
        /\ Connected # {} /\ \A s \in Connected : complete[s]
        /\ conn' = "probed"
  /\ UNCHANGED <<timeVars, stateVars, nodeVars, expected, received, complete, flight,
                 selected_node, probeSent, requested>>

\* The inner loop ends: another thread has set the state; the phase has timed
\* out, which completes every connected node; or all of them are complete.
ProbingEnds ==
  /\ At("probing")
  /\ \/ /\ current_state # PROBING
        /\ conn' = "loop"
        /\ UNCHANGED complete
     \/ /\ current_state = PROBING /\ probeLate
        /\ complete' = [s \in Sender |-> complete[s] \/ s \in Connected]
        /\ conn' = "probed"
     \/ /\ current_state = PROBING /\ ~probeLate
        /\ Connected # {} /\ \A s \in Connected : complete[s]
        /\ conn' = "probed"
        /\ UNCHANGED complete
  /\ UNCHANGED <<timeVars, stateVars, nodeVars, expected, received, flight, selected_node,
                 probeSent, requested>>

ProbingFails ==
  /\ At("probing")
  /\ current_state = PROBING /\ ~probeLate /\ Connected = {}
  /\ Fail
  /\ UNCHANGED <<timeVars, nodeVars, probeVars, flight, selected_node, probeSent, requested>>

ProbingCompleted ==
  /\ At("probed")
  /\ IF current_state = PROBING THEN SetState("connect", PROBE_COMPLETED)
                                ELSE UNCHANGED stateVars
  /\ conn' = "loop"
  /\ UNCHANGED <<timeVars, nodeVars, probeVars, flight, selected_node, probeSent, requested>>

\* Mutant: a score of 0 is good enough.
KnownNodes == {s \in Sender : status[s] # "absent"}

\* select_best_node: the scores are compared over all nodes, whatever their
\* status, and one that received a packet scores above 0.
BestNodes == {s \in Sender : received[s] > 0}

Available == {s \in Connected : complete[s]}

\* PROBE_COMPLETED: the best node is selected.
SelectBestNode ==
  /\ InState(PROBE_COMPLETED)
  /\ Available # {}
  /\ \E best \in BestNodes :
       /\ selected_node' = best
       /\ status' = [status EXCEPT ![best] = "selected"]
  /\ SetState("connect", REQUESTING_STREAM)
  /\ UNCHANGED <<conn, timeVars, rtc, watched, fresh, probeVars, flight, probeSent, requested>>

SelectionFails ==
  /\ InState(PROBE_COMPLETED)
  /\ Available = {} \/ BestNodes = {}
  /\ Fail
  /\ UNCHANGED <<timeVars, nodeVars, probeVars, flight, selected_node, probeSent, requested>>

\* REQUESTING_STREAM: the request is sent again on every round.
RequestStream ==
  /\ InState(REQUESTING_STREAM) /\ selected_node # None
  /\ requested' = requested \cup {selected_node}
  /\ UNCHANGED <<conn, timeVars, stateVars, nodeVars, probeVars, flight, selected_node,
                 probeSent>>

\* ... until one cannot be sent.
RequestFails ==
  /\ InState(REQUESTING_STREAM)
  /\ Fail
  /\ UNCHANGED <<timeVars, nodeVars, probeVars, flight, selected_node, probeSent, requested>>

WaitTimesOut ==
  /\ ~late
  /\ late' = TRUE
  /\ UNCHANGED <<conn, probeLate, stateVars, nodeVars, probeVars, flight, selected_node,
                 probeSent, requested>>

ProbePhaseTimesOut ==
  /\ conn = "probing" /\ ~probeLate
  /\ probeLate' = TRUE
  /\ UNCHANGED <<conn, late, stateVars, nodeVars, probeVars, flight, selected_node,
                 probeSent, requested>>

-----------------------------------------------------------------------------
ConnectThread ==
  \/ LoopEnds \/ InitProbes \/ SendProbes \/ EnterProbing \/ ProbingEnds \/ ProbingFails
  \/ ProbingCompleted \/ SelectBestNode \/ SelectionFails \/ RequestStream

Messages ==
  \/ RoomJoined \/ ErrorMessage
  \/ \E s \in Sender : ConnectRequest(s) \/ Offer(s) \/ StreamReady(s)

Callbacks(s) == PcConnected(s) \/ PcDown(s) \/ ProbePacket(s)

Next ==
  \/ \E t \in Thread : Store(t)
  \/ Messages
  \/ \E s \in Sender : Callbacks(s) \/ OnPcConnected(s)
  \/ ConnectThread \/ RequestFails \/ WaitTimesOut \/ ProbePhaseTimesOut

Spec == Init /\ [][Next]_vars

(***************************************************************************)
(* Threads that are inside the code go on and time passes.  Nothing is     *)
(* assumed of the messages, of the connections or of the probe packets.    *)
(***************************************************************************)
FairSpec ==
  /\ Spec
  /\ WF_vars(ConnectThread)
  /\ WF_vars(WaitTimesOut)
  /\ WF_vars(ProbePhaseTimesOut)
  /\ \A t \in Thread : WF_vars(Store(t))
  /\ \A s \in Sender : WF_vars(OnPcConnected(s))

-----------------------------------------------------------------------------
(***************************************************************************)
(* Whenever the shared state says that the stream is being requested or    *)
(* received, a node is selected, on every thread and although the state    *)
(* may have moved backwards in between: so the connect thread, which       *)
(* dereferences selected_node in these states, and the read thread, to     *)
(* which it reports p2p_connect_ready, always find one.                    *)
(***************************************************************************)
RequestHasNode ==
  current_state \in {REQUESTING_STREAM, STREAMING} \/ conn = "ready" =>
    selected_node # None

(***************************************************************************)
(* The selected node has answered a probe: only a node that was sent a     *)
(* probe request can be selected, asked for the stream and reported as     *)
(* ready, even when its metrics were wiped and the phase was cut short.    *)
(***************************************************************************)
SelectedWasProbed ==
  /\ selected_node # None => selected_node \in probeSent
  /\ requested \subseteq probeSent

(***************************************************************************)
(* p2p_pending_for_probing_node returns, unless it hangs in the loop that  *)
(* waits for probe requests: whatever the other threads do to the state,   *)
(* the inner probing loop ends by its own timeout and the outer loop by    *)
(* wait_timeout.                                                           *)
(***************************************************************************)
ConnectThreadReturns == <>(conn \in {"ready", "failed", "stuck"})
==============================================================================
