--------------------------- MODULE PlayableOutput ---------------------------
(***************************************************************************)
(* What the viewer's demuxer promises its decoder, whatever the number of  *)
(* sources behind it: the frames it returns form runs, each run starts at  *)
(* a keyframe of some source and continues with that source's frames       *)
(* without a hole.  Changing the source means starting a new run.          *)
(***************************************************************************)
CONSTANTS Source, \* where frames come from
          None    \* not a source

VARIABLES playing, \* the source whose run the decoder can continue, or None
          out,     \* what the last call returned: a frame or a code
          intact   \* no keyframe was lost inside the demuxer so far

Frame == [src : Source, kind : {"idr", "key", "delta", "audio"}]
Code  == [src : Source \cup {None}, kind : {"again", "error", "blank"}]

Init == playing = None /\ out \in Code /\ intact = TRUE

\* A frame is returned that the decoder can use.
Deliver(f) ==
  /\ f.kind = "delta" => playing = f.src \/ ~intact
  /\ out' = f
  /\ playing' = IF f.kind = "audio" THEN playing
                ELSE IF f.kind \in {"idr", "key"} \/ playing = f.src THEN f.src
                ELSE None
  /\ UNCHANGED intact

\* No frame is returned; frames may have been skipped, which ends the run.
Skip ==
  /\ playing' \in {playing, None}
  /\ out' \in Code \cup {out}
  /\ intact' \in {intact, FALSE}

Next == (\E f \in Frame : Deliver(f)) \/ Skip

Spec == Init /\ [][Next]_<<playing, out, intact>>
=============================================================================
