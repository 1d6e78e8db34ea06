-------------------------- MODULE WhipSessionProofs --------------------------
(***************************************************************************)
(* Proofs about WhipSession: what every way through a WHIP or WHEP session *)
(* leaves on the server and in memory.  The inductive invariant follows    *)
(* the resource from before the POST to the end, and the tracks of a WHEP  *)
(* source together with their count.                                       *)
(***************************************************************************)
EXTENDS WhipSession, TLAPS

Before == {"start", "tracks", "create", "post"}
Active == InWait \cup {"describe", "running", "closing"}
Over   == {"deinit", "gone"}

\* Before the POST there is nothing on the server.
NothingYet == place \in Before => resource = "none" /\ ~location /\ deletes = 0

\* From its reply to the DELETE the resource exists, and is not being deleted.
Held == place \in Active \cup {"answer"} => resource = "made" /\ deletes = 0

\* A session whose location was not stored has met a failure.
Named == place \in Active => location \/ excuse

\* Whoever gets to deinit with the resource still there has met a failure or
\* cannot delete it.
Accounted == place \in Over /\ resource = "made" => excuse \/ wantsToken

\* webrtc_deinit is the last to know the location.
Forgotten == place = "gone" => ~location

\* The tracks that a WHEP source has made are counted, so deinit finds them.
Counted == role = "whep" /\ tracks => nb_tracks

\* A WHIP muxer never counts its tracks.
Uncounted == role = "whip" => ~nb_tracks

\* Tracks are made once.
MadeOnce == place \in {"start", "tracks"} => ~tracks

ResourceInv == NothingYet /\ Held /\ Named
OrphanInv == Accounted /\ Forgotten
TracksInv == Counted /\ SourceFreesTracks /\ Uncounted /\ MadeOnce

IInv == TypeOK /\ ResourceInv /\ OrphanInv /\ TracksInv

-----------------------------------------------------------------------------
\* Every step keeps the types.  That deletes stays below two needs Held: the
\* DELETE is sent from "closing" only, and leaves it.
LEMMA TypeStep ==
  ASSUME IInv, Next
  PROVE  TypeOK'
<1> USE DEF IInv, TypeOK, Place, InWait, RtcState, Goto, Fails, connVars, httpVars
<1>1. ASSUME InitConnection PROVE TypeOK'
  BY <1>1 DEF InitConnection
<1>2. ASSUME MakeTracks PROVE TypeOK'
  <2>1. tracks' \in BOOLEAN /\ nb_tracks' \in BOOLEAN
    BY <1>2 DEF MakeTracks, Added
  <2> QED
    BY <1>2, <2>1 DEF MakeTracks
<1>3. ASSUME LocalDescription PROVE TypeOK'
  BY <1>3 DEF LocalDescription
<1>4. ASSUME Post PROVE TypeOK'
  <2>1. excuse' \in BOOLEAN
    BY <1>4 DEF Post
  <2> QED
    BY <1>4, <2>1 DEF Post
<1>5. ASSUME Answer PROVE TypeOK'
  <2>1. excuse' \in BOOLEAN /\ location' \in BOOLEAN
    BY <1>5 DEF Answer
  <2> QED
    BY <1>5, <2>1 DEF Answer, Established
<1>6. ASSUME TimePasses PROVE TypeOK'
  BY <1>6 DEF TimePasses
<1>7. ASSUME HeaderWaits PROVE TypeOK'
  <2>1. excuse' \in BOOLEAN
    BY <1>7 DEF HeaderWaits
  <2> QED
    BY <1>7, <2>1 DEF HeaderWaits
<1>8. ASSUME DescribeTracks PROVE TypeOK'
  <2>1. excuse' \in BOOLEAN /\ inner' \in BOOLEAN
    BY <1>8 DEF DescribeTracks
  <2>2. place' \in Place /\ UNCHANGED <<role, state, pc, tracks, nb_tracks, late, httpVars>>
    BY <1>8 DEF DescribeTracks
  <2> QED
    BY <2>1, <2>2
<1>9. ASSUME End PROVE TypeOK'
  BY <1>9 DEF End
<1>10. ASSUME Delete PROVE TypeOK'
  <2>1. resource = "made" /\ deletes = 0
    BY <1>10 DEF Delete, ResourceInv, Held, Active
  <2>2. deletes' \in {0, 1}
    BY <1>10, <2>1 DEF Delete
  <2>3. resource' \in {"made", "deleted"}
    BY <1>10, <2>1 DEF Delete
  <2>4. excuse' \in BOOLEAN /\ location' \in BOOLEAN
    BY <1>10 DEF Delete
  <2> QED
    BY <1>10, <2>2, <2>3, <2>4 DEF Delete
<1>11. ASSUME Deinit PROVE TypeOK'
  BY <1>11 DEF Deinit
<1>12. ASSUME NEW s \in RtcState, StateChanges(s) PROVE TypeOK'
  BY <1>12 DEF StateChanges
<1>13. ASSUME HeaderLooks PROVE TypeOK'
  BY <1>13 DEF HeaderLooks
<1> QED
  BY <1>1, <1>2, <1>3, <1>4, <1>5, <1>6, <1>7, <1>8, <1>9, <1>10, <1>11, <1>12,
     <1>13 DEF Next

\* Every step keeps what is known of the resource.
LEMMA ResourceStep ==
  ASSUME IInv, Next
  PROVE  ResourceInv'
<1> USE DEF IInv, TypeOK, ResourceInv, NothingYet, Held, Named, Before, Active, InWait,
            Goto, Fails, connVars, httpVars
<1>1. ASSUME InitConnection PROVE ResourceInv'
  BY <1>1 DEF InitConnection
<1>2. ASSUME MakeTracks PROVE ResourceInv'
  BY <1>2 DEF MakeTracks
<1>3. ASSUME LocalDescription PROVE ResourceInv'
  BY <1>3 DEF LocalDescription
<1>4. ASSUME Post PROVE ResourceInv'
  BY <1>4 DEF Post
<1>5. ASSUME Answer PROVE ResourceInv'
  BY <1>5 DEF Answer, Established
<1>6. ASSUME TimePasses PROVE ResourceInv'
  BY <1>6 DEF TimePasses
<1>7. ASSUME HeaderWaits PROVE ResourceInv'
  BY <1>7 DEF HeaderWaits
<1>8. ASSUME DescribeTracks PROVE ResourceInv'
  BY <1>8 DEF DescribeTracks
<1>9. ASSUME End PROVE ResourceInv'
  BY <1>9 DEF End
<1>10. ASSUME Delete PROVE ResourceInv'
  BY <1>10 DEF Delete
<1>11. ASSUME Deinit PROVE ResourceInv'
  BY <1>11 DEF Deinit
<1>12. ASSUME NEW s \in RtcState, StateChanges(s) PROVE ResourceInv'
  BY <1>12 DEF StateChanges
<1>13. ASSUME HeaderLooks PROVE ResourceInv'
  BY <1>13 DEF HeaderLooks
<1> QED
  BY <1>1, <1>2, <1>3, <1>4, <1>5, <1>6, <1>7, <1>8, <1>9, <1>10, <1>11, <1>12,
     <1>13 DEF Next

\* Every step keeps the account of a resource that was left behind.
LEMMA OrphanStep ==
  ASSUME IInv, Next
  PROVE  OrphanInv'
<1> USE DEF IInv, TypeOK, ResourceInv, NothingYet, Held, Named, OrphanInv,
            Accounted, Forgotten, Before, Active, InWait, Over, Goto, Fails, connVars, httpVars
<1>1. ASSUME InitConnection PROVE OrphanInv'
  BY <1>1 DEF InitConnection
<1>2. ASSUME MakeTracks PROVE OrphanInv'
  BY <1>2 DEF MakeTracks
<1>3. ASSUME LocalDescription PROVE OrphanInv'
  BY <1>3 DEF LocalDescription
<1>4. ASSUME Post PROVE OrphanInv'
  BY <1>4 DEF Post
<1>5. ASSUME Answer PROVE OrphanInv'
  BY <1>5 DEF Answer, Established
<1>6. ASSUME TimePasses PROVE OrphanInv'
  BY <1>6 DEF TimePasses
<1>7. ASSUME HeaderWaits PROVE OrphanInv'
  BY <1>7 DEF HeaderWaits
<1>8. ASSUME DescribeTracks PROVE OrphanInv'
  BY <1>8 DEF DescribeTracks
<1>9. ASSUME End PROVE OrphanInv'
  BY <1>9 DEF End
<1>10. ASSUME Delete PROVE OrphanInv'
  BY <1>10 DEF Delete
<1>11. ASSUME Deinit PROVE OrphanInv'
  BY <1>11 DEF Deinit
<1>12. ASSUME NEW s \in RtcState, StateChanges(s) PROVE OrphanInv'
  BY <1>12 DEF StateChanges
<1>13. ASSUME HeaderLooks PROVE OrphanInv'
  BY <1>13 DEF HeaderLooks
<1> QED
  BY <1>1, <1>2, <1>3, <1>4, <1>5, <1>6, <1>7, <1>8, <1>9, <1>10, <1>11, <1>12,
     <1>13 DEF Next

\* Every step keeps the tracks of a source counted, and those of a sink uncounted.
LEMMA TracksStep ==
  ASSUME IInv, Next
  PROVE  TracksInv'
<1> USE DEF IInv, TypeOK, TracksInv, Counted, SourceFreesTracks, Uncounted, MadeOnce,
            Goto, Fails, connVars, httpVars
<1>1. ASSUME InitConnection PROVE TracksInv'
  BY <1>1 DEF InitConnection
<1>2. ASSUME MakeTracks PROVE TracksInv'
  <2>1. role' = role /\ place' \in {"create", "deinit"}
    BY <1>2 DEF MakeTracks
  <2>2. nb_tracks' = (role = "whep") \/ UNCHANGED <<tracks, nb_tracks>>
    BY <1>2 DEF MakeTracks
  <2>3. role = "whep" /\ tracks' => nb_tracks'
    BY <2>2
  <2>4. role = "whip" => ~nb_tracks'
    BY <2>2
  <2> QED
    BY <2>1, <2>3, <2>4
<1>3. ASSUME LocalDescription PROVE TracksInv'
  BY <1>3 DEF LocalDescription
<1>4. ASSUME Post PROVE TracksInv'
  BY <1>4 DEF Post
<1>5. ASSUME Answer PROVE TracksInv'
  BY <1>5 DEF Answer, Established
<1>6. ASSUME TimePasses PROVE TracksInv'
  BY <1>6 DEF TimePasses
<1>7. ASSUME HeaderWaits PROVE TracksInv'
  BY <1>7 DEF HeaderWaits
<1>8. ASSUME DescribeTracks PROVE TracksInv'
  BY <1>8 DEF DescribeTracks
<1>9. ASSUME End PROVE TracksInv'
  BY <1>9 DEF End
<1>10. ASSUME Delete PROVE TracksInv'
  BY <1>10 DEF Delete
<1>11. ASSUME Deinit PROVE TracksInv'
  BY <1>11 DEF Deinit
<1>12. ASSUME NEW s \in RtcState, StateChanges(s) PROVE TracksInv'
  BY <1>12 DEF StateChanges
<1>13. ASSUME HeaderLooks PROVE TracksInv'
  BY <1>13 DEF HeaderLooks
<1> QED
  BY <1>1, <1>2, <1>3, <1>4, <1>5, <1>6, <1>7, <1>8, <1>9, <1>10, <1>11, <1>12,
     <1>13 DEF Next

-----------------------------------------------------------------------------
\* IInv holds from the start and every step keeps it.
THEOREM Invariant == Spec => []IInv
<1>1. Init => IInv
  BY DEF Init, IInv, TypeOK, Place, RtcState, ResourceInv, NothingYet, Held, Named,
         OrphanInv, Accounted, Forgotten, TracksInv, Counted, SourceFreesTracks, Uncounted,
         MadeOnce, Active, InWait, Over
<1>2. IInv /\ [Next]_vars => IInv'
  <2>1. ASSUME IInv, Next PROVE IInv'
    BY <2>1, TypeStep, ResourceStep, OrphanStep, TracksStep DEF IInv
  <2>2. ASSUME IInv, UNCHANGED vars PROVE IInv'
    BY <2>2 DEF vars, connVars, httpVars, IInv, TypeOK, ResourceInv, NothingYet, Held,
                Named, OrphanInv, Accounted, Forgotten, TracksInv, Counted,
                SourceFreesTracks, Uncounted, MadeOnce
  <2> QED
    BY <2>1, <2>2
<1> QED
  BY <1>1, <1>2, PTL DEF Spec

\* The session's variables keep their types; in particular no session sends
\* more than one DELETE, however it fails.
THEOREM TypeCorrect == Spec => []TypeOK
<1>1. IInv => TypeOK
  BY DEF IInv
<1> QED
  BY <1>1, Invariant, PTL

\* A session that ends without a failure after its POST leaves no resource on
\* a server that does not ask for a token, although webrtc_deinit forgets the
\* location without deleting anything.
THEOREM OrphanExplained == Spec => []OrphanHasACause
<1>1. IInv => OrphanHasACause
  BY DEF IInv, OrphanInv, Accounted, Over, OrphanHasACause
<1> QED
  BY <1>1, Invariant, PTL

\* webrtc_deinit frees the ids and contexts of all tracks of a WHEP source, at
\* whatever step whep_read_header gave up.  This is memory only: what the inner
\* demuxers have opened stays open on every path.
THEOREM SourceFreed == Spec => []SourceFreesTracks
<1>1. IInv => SourceFreesTracks
  BY DEF IInv, TracksInv
<1> QED
  BY <1>1, Invariant, PTL

\* The muxer's tracks are another matter: no step of a WHIP session, deinit
\* included, ever frees a track that whip_init has made, because it never sets
\* the count that webrtc_deinit goes by.
THEOREM SinkKeepsTracks == Spec => [][role = "whip" /\ tracks => tracks']_vars
<1>1. ASSUME IInv, [Next]_vars, role = "whip", tracks PROVE tracks'
  <2>1. ~nb_tracks
    BY <1>1 DEF IInv, TracksInv, Uncounted
  <2>2. CASE MakeTracks
    BY <1>1, <2>2 DEF MakeTracks, IInv, TracksInv, MadeOnce
  <2>3. CASE Deinit
    BY <1>1, <2>1, <2>3 DEF Deinit
  <2>4. CASE ~MakeTracks /\ ~Deinit
    BY <1>1, <2>4 DEF Next, vars, connVars, httpVars, InitConnection, LocalDescription,
       Post, Answer, TimePasses, HeaderLooks, HeaderWaits, DescribeTracks, End, Delete, StateChanges
  <2> QED
    BY <2>2, <2>3, <2>4
<1> QED
  BY <1>1, Invariant, PTL DEF Spec
=============================================================================
