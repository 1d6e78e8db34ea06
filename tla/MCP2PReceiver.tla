---------------------------- MODULE MCP2PReceiver ----------------------------
(* Instances of P2PReceiver for TLC.                                        *)
EXTENDS P2PReceiver, TLC

\* Senders are interchangeable.
SenderSymmetry == Permutations(Sender)
=============================================================================
