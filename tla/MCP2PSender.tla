----------------------------- MODULE MCP2PSender -----------------------------
(* Instances of P2PSender for TLC.                                          *)
EXTENDS P2PSender, TLC

\* A video and an audio stream, as ffplay's output makes them.
TwoStreams == <<"video", "audio">>
OneStream  == <<"video">>

\* Receivers are interchangeable.
ReceiverSymmetry == Permutations(Receiver)
=============================================================================
