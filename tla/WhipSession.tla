------------------------------ MODULE WhipSession ------------------------------
(***************************************************************************)
(* A WHIP or WHEP session (webrtc.c): the peer connection, the tracks, and *)
(* the resource that a POST creates on an HTTP server and a DELETE removes.*)
(*                                                                         *)
(* "whip" is the muxer (webrtc_mux.c) in the hands of mux.c: a header that *)
(* fails is followed by deinit alone, one that succeeds by packets, the    *)
(* trailer and deinit.  "whep" is the demuxer (webrtc_demux.c), the CDN    *)
(* source of p2pdemuxer: a read_header that fails cleans up by itself, and *)
(* only one that succeeds is followed by packets and read_close.           *)
(*                                                                         *)
(* The server and the connection are outside the repository.  The server   *)
(* always names the resource it makes.  If it wants a bearer token, the    *)
(* caller has set the option.                                              *)
(***************************************************************************)
EXTENDS Naturals

VARIABLES
  role,           \* which of the two
  place,          \* how far the session is
  state,          \* the connection's state, as its callback has stored it
  pc,             \* ctx->peer_connection; "stale": deleted, but still named
  tracks,         \* contexts and track ids in ctx->tracks exist
  nb_tracks,      \* has it been set?
  inner,          \* whep: inner SDP demuxers, and their input, are open
  late,           \* connection_timeout has passed
  location,       \* ctx->resource_location is set
  resource,       \* external: the resource on the server
  wantsToken,     \* external: the server asks for the token in each request
  deletes,        \* history: DELETE requests sent
  excuse          \* history: a step failed after the POST was sent

connVars == <<state, pc, tracks, nb_tracks, inner, late>>
httpVars == <<location, resource, wantsToken, deletes>>
vars == <<role, place, connVars, httpVars, excuse>>

RtcState == {"new", "connecting", "connected", "disconnected", "failed", "closed"}

InWait == {"waiting", "polling"}
Place  == InWait \cup {"start", "tracks", "create", "post", "answer", "describe", "running",
                       "closing", "deinit", "gone", "dead"}

TypeOK ==
  /\ role \in {"whip", "whep"} /\ place \in Place
  /\ state \in RtcState
  /\ pc \in {"none", "live", "stale"}
  /\ tracks \in BOOLEAN /\ nb_tracks \in BOOLEAN /\ inner \in BOOLEAN /\ late \in BOOLEAN
  /\ location \in BOOLEAN
  /\ resource \in {"none", "made", "deleted"}
  /\ wantsToken \in BOOLEAN
  /\ deletes \in {0, 1} /\ excuse \in BOOLEAN

Init ==
  /\ role \in {"whip", "whep"} /\ place = "start"
  /\ state = "new" /\ pc = "none"
  /\ tracks = FALSE /\ nb_tracks = FALSE /\ inner = FALSE /\ late = FALSE
  /\ location = FALSE /\ resource = "none" /\ wantsToken \in BOOLEAN
  /\ deletes = 0 /\ excuse = FALSE

Goto(p) == place' = p /\ UNCHANGED role

\* A failure: whip_init and whip_write_header leave the rest to mux.c, which
\* calls deinit, and whep_read_header calls it itself.
Fails == Goto("deinit")

-----------------------------------------------------------------------------
(* whip_init, and the first half of whep_read_header.                       *)

\* webrtc_init_connection.  There may be no connection; if its callback cannot
\* be set, it is deleted and its handle kept.
InitConnection ==
  /\ place = "start"
  /\ \/ pc' = "live" /\ Goto("tracks")
     \/ pc' \in {"none", "stale"} /\ Fails
  /\ UNCHANGED <<state, tracks, nb_tracks, inner, late, httpVars, excuse>>

\* WHEP takes the negative number of a track that could not be added for a track.
Added == IF role = "whep" THEN tracks' \in BOOLEAN ELSE tracks' = TRUE

\* Mutant: the tracks are counted when all are made.
MakeTracksThenCount ==
  /\ place = "tracks"
  /\ \/ Added /\ nb_tracks' = (role = "whep") /\ Goto("create")
     \/ tracks' \in BOOLEAN /\ UNCHANGED nb_tracks /\ Fails
  /\ UNCHANGED <<state, pc, inner, late, httpVars, excuse>>

\* The tracks, of which some may have been made when one fails.  Only WHEP
\* counts them, and before any is made.
MakeTracks ==
  /\ place = "tracks"
  /\ \/ Added /\ nb_tracks' = (role = "whep") /\ Goto("create")
     \/ tracks' \in BOOLEAN /\ nb_tracks' = (role = "whep") /\ Fails
     \/ UNCHANGED <<tracks, nb_tracks>> /\ Fails
  /\ UNCHANGED <<state, pc, inner, late, httpVars, excuse>>

-----------------------------------------------------------------------------
(* webrtc_create_resource, in whip_write_header and in whep_read_header.    *)

\* Without a local description, fail: frees headers, which has no value yet;
\* the process may not survive it.
LocalDescription ==
  /\ place = "create"
  /\ Goto("post") \/ Fails \/ Goto("dead")
  /\ UNCHANGED <<connVars, httpVars, excuse>>

\* The server may refuse, or accept without its reply arriving.
Post ==
  /\ place = "post"
  /\ \/ resource' = "made" /\ Goto("answer") /\ UNCHANGED excuse
     \/ resource' \in {"none", "made"} /\ Fails /\ excuse' = TRUE
  /\ UNCHANGED <<connVars, location, wantsToken, deletes>>

Established == IF role = "whip" THEN "waiting" ELSE "describe"

\* The answer may be unusable; the location may not be stored, which nobody
\* notices; and the request may fail to close after that.
Answer ==
  /\ place = "answer"
  /\ location' \in BOOLEAN
  /\ \/ Goto(Established) /\ excuse' = (excuse \/ ~location')
     \/ Fails /\ excuse' = TRUE
  /\ UNCHANGED <<connVars, resource, wantsToken, deletes>>

-----------------------------------------------------------------------------
(* The connection, and what waits for it.                                   *)

\* webrtc_on_state_change: CONNECTED only after the answer; FAILED and CLOSED
\* are final.
StateChanges(s) ==
  /\ pc = "live" /\ place # "dead"
  /\ state \notin {"failed", "closed"} /\ s # "new"
  /\ s \in {"connected", "disconnected"} => resource # "none" /\ place # "answer"
  /\ state' = s
  /\ UNCHANGED <<role, place, pc, tracks, nb_tracks, inner, late, httpVars, excuse>>

TimePasses ==
  /\ place \in InWait /\ ~late
  /\ late' = TRUE
  /\ UNCHANGED <<role, place, state, pc, tracks, nb_tracks, inner, httpVars, excuse>>

\* whip_write_header's loop reads the state twice: as its condition, and in its
\* body, when it may have changed.
HeaderLooks ==
  /\ place = "waiting"
  /\ IF state = "connected" THEN Goto("running") ELSE Goto("polling")
  /\ UNCHANGED <<connVars, httpVars, excuse>>

\* Mutant: only the connection's end is waited for.
HeaderWaitsOn ==
  /\ place = "polling"
  /\ IF state \in {"failed", "closed"}
       THEN Fails /\ excuse' = TRUE ELSE Goto("waiting") /\ UNCHANGED excuse
  /\ UNCHANGED <<connVars, httpVars>>

HeaderWaits ==
  /\ place = "polling"
  /\ IF state \in {"failed", "closed"} \/ late
       THEN Fails /\ excuse' = TRUE ELSE Goto("waiting") /\ UNCHANGED excuse
  /\ UNCHANGED <<connVars, httpVars>>

\* The second half of whep_read_header: an inner demuxer per track, of which
\* some may be open when one fails.
DescribeTracks ==
  /\ place = "describe"
  /\ \/ tracks /\ inner' = TRUE /\ Goto("running") /\ UNCHANGED excuse
     \/ inner' \in {FALSE, tracks} /\ Fails /\ excuse' = TRUE
  /\ UNCHANGED <<state, pc, tracks, nb_tracks, late, httpVars>>

-----------------------------------------------------------------------------
(* The end.                                                                 *)

\* whip_write_trailer and whep_read_close, whatever the connection's state.
End ==
  /\ place = "running"
  /\ Goto("closing")
  /\ UNCHANGED <<connVars, httpVars, excuse>>

\* Mutant: the resource is left alone when the connection is already down.
CloseIfConnected ==
  /\ place = "closing" /\ Goto("deinit")
  /\ IF state = "connected" /\ ~wantsToken
       THEN deletes' = deletes + 1 /\ resource' = "deleted" ELSE UNCHANGED <<deletes, resource>>
  /\ location' = FALSE
  /\ UNCHANGED <<connVars, wantsToken, excuse>>

\* Mutant: a DELETE that failed is sent again.
DeleteAgain ==
  /\ place = "closing"
  /\ deletes' = deletes + 1
  /\ \/ Goto("deinit") /\ location' = FALSE /\ resource' = "deleted"
     \/ UNCHANGED <<role, place, location, resource>>
  /\ UNCHANGED <<connVars, wantsToken, excuse>>

\* webrtc_close_resource: the DELETE carries no token.  The location is
\* forgotten whether it succeeds or not.
Delete ==
  /\ place = "closing" /\ Goto("deinit")
  /\ \/ /\ deletes' = IF location THEN deletes + 1 ELSE deletes
        /\ resource' = IF location /\ ~wantsToken THEN "deleted" ELSE resource
        /\ UNCHANGED excuse
     \/ /\ location /\ deletes' \in {deletes, deletes + 1}
        /\ excuse' = TRUE
        /\ resource' \in (IF deletes' = deletes \/ wantsToken
                            THEN {resource} ELSE {resource, "deleted"})
  /\ location' = FALSE
  /\ UNCHANGED <<connVars, wantsToken>>

\* webrtc_deinit: the tracks that were counted, the connection that is named.
\* The inner demuxers' contexts are freed with the tracks, but nothing is closed.
Deinit ==
  /\ place = "deinit" /\ Goto("gone")
  /\ tracks' = (tracks /\ ~nb_tracks)
  /\ pc' = "none"
  /\ location' = FALSE
  /\ UNCHANGED <<state, nb_tracks, inner, late, resource, wantsToken, deletes, excuse>>

-----------------------------------------------------------------------------
Next ==
  \/ InitConnection \/ MakeTracks \/ LocalDescription \/ Post \/ Answer
  \/ TimePasses \/ HeaderLooks \/ HeaderWaits \/ DescribeTracks
  \/ End \/ Delete \/ Deinit
  \/ \E s \in RtcState : StateChanges(s)

Spec == Init /\ [][Next]_vars

\* The muxer's thread goes on while it waits, and time passes.  HTTP requests
\* have no deadline of their own.
FairSpec == Spec /\ WF_vars(HeaderLooks) /\ WF_vars(HeaderWaits) /\ WF_vars(TimePasses)

-----------------------------------------------------------------------------
(***************************************************************************)
(* A resource outlives its session on the server only if a step failed     *)
(* after the POST, or if the server wants the token that the DELETE does   *)
(* not carry.  (webrtc_deinit itself forgets the location without a        *)
(* DELETE, so every other way out must pass webrtc_close_resource.)        *)
(***************************************************************************)
OrphanHasACause == place = "gone" /\ resource = "made" => excuse \/ wantsToken

(***************************************************************************)
(* However far a WHEP source came, deinit finds the track ids and contexts *)
(* that it has made.  (WHIP never counts its tracks and leaves them all;   *)
(* and of the inner demuxers nothing is closed.)                           *)
(***************************************************************************)
SourceFreesTracks == place = "gone" /\ role = "whep" => ~tracks

(***************************************************************************)
(* whip_write_header's wait ends, whatever the connection does, also when  *)
(* it comes and goes between two looks.                                    *)
(***************************************************************************)
HeaderReturns == place \in InWait ~> place \notin InWait
=============================================================================
