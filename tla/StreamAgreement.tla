--------------------------- MODULE StreamAgreement ---------------------------
(***************************************************************************)
(* What a relay and a viewer promise each other, whatever threads, state   *)
(* numbers and messages they get there by: the viewer chooses a relay that *)
(* has proved reachable, asks only the relay it has chosen, is accepted    *)
(* only if it has asked, and plays or is fed only if it was accepted.      *)
(* Nothing of this is taken back, except that the viewer may stop playing. *)
(***************************************************************************)

VARIABLES
  probed,         \* the relay has answered the viewer's probe
  chosen,         \* the viewer has chosen the relay
  asked,          \* the viewer has asked it for the stream
  accepted,       \* the relay has accepted
  fed,            \* the relay has sent media
  playing         \* the viewer counts on the stream

given == <<probed, chosen, asked, accepted, fed>>
vars == <<given, playing>>

Init ==
  /\ ~probed /\ ~chosen /\ ~asked /\ ~accepted /\ ~fed
  /\ ~playing

\* The relay's steps.
Probe  == probed' = TRUE /\ UNCHANGED <<chosen, asked, accepted, fed, playing>>
Accept == asked /\ accepted' = TRUE /\ UNCHANGED <<probed, chosen, asked, fed, playing>>
Feed   == accepted /\ fed' = TRUE /\ UNCHANGED <<probed, chosen, asked, accepted, playing>>

\* The viewer's steps.
Choose == probed /\ chosen' = TRUE /\ UNCHANGED <<probed, asked, accepted, fed, playing>>
Ask    == chosen /\ asked' = TRUE /\ UNCHANGED <<probed, chosen, accepted, fed, playing>>
Play   == accepted /\ playing' = TRUE /\ UNCHANGED given
Stop   == playing' = FALSE /\ UNCHANGED given

Next == Probe \/ Accept \/ Feed \/ Choose \/ Ask \/ Play \/ Stop

Spec == Init /\ [][Next]_vars
=============================================================================
