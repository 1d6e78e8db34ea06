----------------------------- MODULE OutputThreads -----------------------------
(***************************************************************************)
(* The player's output: ffplay.c copies, or encodes, what it plays into a  *)
(* muxer of audio and video (the relay's p2pmuxer), through mux.c.         *)
(*                                                                         *)
(* The read thread copies packets, without a lock (the calls on the        *)
(* output's mutex are commented out).  When the video's parameters change, *)
(* it opens an encoder; from then on the video thread encodes the frames   *)
(* it shows and writes them under the mutex, which nobody else takes while *)
(* it lives, and which is therefore no variable here.  The main thread     *)
(* closes the output after both have ended.                                *)
(*                                                                         *)
(* Modelled from a completed output_init_from_input on.  Stamps are counts *)
(* of one time base; a packet's duration is 1; its pts follows its dts.    *)
(* The muxer's own functions succeed or fail.  Two threads that take the   *)
(* same packet from the queue free it twice, which is not followed: taking *)
(* is one step, and what happens between two steps is open.                *)
(***************************************************************************)
EXTENDS Integers, Sequences

CONSTANTS
  MaxDts,         \* bound: the largest time stamp
  MaxCounted,     \* bound: streams that init_muxer has counted
  MaxQueue        \* bound: packets of a stream in the muxing queue

ASSUME OutputAssumption ==
  MaxDts \in Nat \ {0} /\ MaxCounted \in Nat \ {0} /\ MaxQueue \in Nat \ {0}

Stream == {"audio", "video"}
Thread == {"read", "video", "main"}
Dts    == -1..MaxDts

\* AV_NOPTS_VALUE, the smallest integer.
NoDts == -2

VARIABLES
  main,           \* how far do_exit is
  call,           \* each thread's place in the writing of a packet
  pkt,            \* the packet that it writes
  header_written,
  use_copy_video,
  video_enc_ctx,  \* the encoder is open
  last_dts,       \* OutputState's
  initialized,    \* FFFormatContext's
  nb_interleaved_streams,
  cur_dts,        \* FFStream's
  packet_buffer,  \* the muxing queue, by stream
  held,           \* the packet that a thread has taken from that queue
  open,           \* history: calls of the muxer's init minus calls of its deinit
  out,            \* history: the last stamp that the muxer was handed
  raced,          \* history: two threads were in avformat_write_header at once
  failed,         \* history: the muxer has refused a packet
  overlapped      \* history: two threads have been in the queue or at the muxer
                  \* at once since it was last left by all

outputVars == <<header_written, use_copy_video, video_enc_ctx, last_dts>>
muxerVars  == <<initialized, nb_interleaved_streams, open, raced>>
queueVars  == <<cur_dts, packet_buffer, held, out, failed, overlapped>>
vars == <<main, call, pkt, outputVars, muxerVars, queueVars>>

InHeader == {"start", "initing", "header", "mark"}
InWriter == {"queue", "drain", "write"}
Place    == InHeader \cup InWriter \cup {"idle", "check", "stamp"}
Packet   == [stream : Stream, dts : Dts \cup {NoDts}]
NoPacket == [stream |-> "video", dts |-> NoDts]

TypeOK ==
  /\ main \in {"playing", "flushing", "header", "trailer", "closed"}
  /\ call \in [Thread -> Place]
  /\ pkt \in [Thread -> Packet]
  /\ header_written \in BOOLEAN /\ use_copy_video \in BOOLEAN /\ video_enc_ctx \in BOOLEAN
  /\ last_dts \in [Stream -> Dts \cup {NoDts}]
  /\ initialized \in BOOLEAN /\ nb_interleaved_streams \in 0..MaxCounted
  /\ cur_dts \in [Stream -> Dts \cup {NoDts}]
  /\ packet_buffer \in [Stream -> Seq(Dts)]
  /\ held \in [Thread -> Packet]
  /\ open \in Int
  /\ out \in [Stream -> Dts \cup {NoDts}]
  /\ raced \in BOOLEAN /\ failed \in BOOLEAN /\ overlapped \in BOOLEAN

Init ==
  /\ main = "playing"
  /\ call = [t \in Thread |-> "idle"]
  /\ pkt = [t \in Thread |-> NoPacket]
  /\ header_written = FALSE /\ use_copy_video = TRUE /\ video_enc_ctx = FALSE
  /\ last_dts = [s \in Stream |-> NoDts]
  /\ initialized = FALSE /\ nb_interleaved_streams = 0
  /\ cur_dts = [s \in Stream |-> NoDts]
  /\ packet_buffer = [s \in Stream |-> << >>]
  /\ held = [t \in Thread |-> NoPacket]
  /\ open = 0
  /\ out = [s \in Stream |-> NoDts]
  /\ raced = FALSE /\ failed = FALSE /\ overlapped = FALSE

Goto(t, place) == call' = [call EXCEPT ![t] = place]

\* The packet is released.
Leave(t) == Goto(t, "idle") /\ pkt' = [pkt EXCEPT ![t] = NoPacket]

Room(s) == Len(packet_buffer[s]) < MaxQueue

-----------------------------------------------------------------------------
(* The read thread.                                                         *)

\* A stamp that does not exceed the last one is moved behind it.
Bumped(s, d) ==
  IF last_dts[s] # NoDts /\ d <= last_dts[s] THEN last_dts[s] + 1 ELSE d

\* Mutant: every stamp is moved.
CopyMoved(s, d) ==
  /\ main = "playing" /\ call["read"] = "idle"
  /\ Room(s) /\ (s = "video" => use_copy_video)
  /\ pkt' = [pkt EXCEPT !["read"] = [stream |-> s, dts |-> d + 1]]
  /\ Goto("read", "check")
  /\ UNCHANGED <<main, outputVars, muxerVars, queueVars>>

\* output_write_packet_copy, up to the header.
Copy(s, d) ==
  /\ main = "playing" /\ call["read"] = "idle"
  /\ Room(s) /\ (s = "video" => use_copy_video)
  /\ pkt' = [pkt EXCEPT !["read"] = [stream |-> s, dts |-> Bumped(s, d)]]
  /\ Goto("read", "check")
  /\ UNCHANGED <<main, outputVars, muxerVars, queueVars>>

\* output_prepare_video_encoder, when a packet carries new parameters.  If it
\* fails nothing changes and the packet is copied.  The video thread calls it
\* too, but sees the flag only after the encoder, and then does nothing.
PrepareVideoEncoder ==
  /\ main = "playing" /\ call["read"] = "idle"
  /\ ~video_enc_ctx
  /\ video_enc_ctx' = TRUE /\ use_copy_video' = FALSE
  /\ UNCHANGED <<main, call, pkt, header_written, last_dts, muxerVars, queueVars>>

-----------------------------------------------------------------------------
(* The video thread, and the main thread that flushes the encoder.          *)

\* output_encode_and_write_video has received a packet from the encoder.
Encode(t, d) ==
  /\ \/ t = "video" /\ main = "playing"
     \/ t = "main" /\ main = "flushing"
  /\ call[t] = "idle" /\ video_enc_ctx /\ Room("video")
  /\ pkt' = [pkt EXCEPT ![t] = [stream |-> "video", dts |-> d]]
  /\ Goto(t, "check")
  /\ UNCHANGED <<main, outputVars, muxerVars, queueVars>>

-----------------------------------------------------------------------------
(* output_write_header_if_needed and, in it, avformat_write_header.         *)

\* The packet is given up, or only a header was to be written.
GiveUp(t) ==
  /\ Leave(t)
  /\ main' = IF main = "header" THEN "trailer" ELSE main

CheckHeader(t) ==
  /\ call[t] = "check"
  /\ Goto(t, IF header_written THEN "stamp" ELSE "start")
  /\ raced' = (raced \/ (~header_written
                        /\ \E u \in Thread \ {t} : call[u] \in InHeader))
  /\ UNCHANGED <<main, pkt, outputVars, initialized, nb_interleaved_streams, open,
                 queueVars>>

Count(n) ==
  /\ nb_interleaved_streams + n <= MaxCounted
  /\ nb_interleaved_streams' = nb_interleaved_streams + n

\* already_initialized is read here; init_muxer counts the streams again, and
\* may fail on the way, before it calls the muxer's init.
StartHeader(t) ==
  /\ call[t] = "start"
  /\ \/ /\ initialized
        /\ Goto(t, "header") /\ UNCHANGED <<main, pkt, nb_interleaved_streams, open>>
     \/ /\ ~initialized /\ Count(2)
        /\ open' = open + 1 /\ Goto(t, "initing") /\ UNCHANGED <<main, pkt>>
     \/ /\ ~initialized /\ \E n \in 0..2 : Count(n)
        /\ GiveUp(t) /\ UNCHANGED open
  /\ UNCHANGED <<outputVars, initialized, raced, queueVars>>

\* Mutant: what a failed init has made is kept.
InitMuxerKeeps(t) ==
  /\ call[t] = "initing"
  /\ \/ initialized' = TRUE /\ Goto(t, "header") /\ UNCHANGED <<main, pkt>>
     \/ GiveUp(t) /\ UNCHANGED initialized
  /\ UNCHANGED <<outputVars, nb_interleaved_streams, open, raced, queueVars>>

InitMuxer(t) ==
  /\ call[t] = "initing"
  /\ \/ initialized' = TRUE /\ Goto(t, "header") /\ UNCHANGED <<main, pkt, open>>
     \/ open' = open - 1 /\ GiveUp(t) /\ UNCHANGED initialized
  /\ UNCHANGED <<outputVars, nb_interleaved_streams, raced, queueVars>>

DeinitMuxer == open' = (IF initialized THEN open - 1 ELSE open) /\ initialized' = FALSE

WriteHeader(t) ==
  /\ call[t] = "header"
  /\ \/ Goto(t, "mark") /\ UNCHANGED <<main, pkt, initialized, open>>
     \/ DeinitMuxer /\ GiveUp(t)
  /\ UNCHANGED <<outputVars, nb_interleaved_streams, raced, queueVars>>

\* The main thread goes on to the trailer.
MarkHeader(t) ==
  /\ call[t] = "mark"
  /\ header_written' = TRUE
  /\ IF main = "header" THEN GiveUp(t) ELSE Goto(t, "stamp") /\ UNCHANGED <<main, pkt>>
  /\ UNCHANGED <<use_copy_video, video_enc_ctx, last_dts, muxerVars, queueVars>>

-----------------------------------------------------------------------------
(* av_interleaved_write_frame.                                              *)

\* compute_muxer_pkt_fields refuses a stamp that is not above the stream's
\* last one, unless that is 0.
Refused(p) == cur_dts[p.stream] \notin {0, NoDts} /\ cur_dts[p.stream] >= p.dts

Others(t) == \E u \in Thread \ {t} : call[u] \in InWriter

Enter(t) == Goto(t, "queue") /\ overlapped' = (overlapped \/ Others(t))
Exit(t)  == overlapped' = (overlapped /\ Others(t))

\* Mutant: any stamp is taken.
StampAny(t) ==
  /\ call[t] = "stamp"
  /\ cur_dts' = [cur_dts EXCEPT ![pkt[t].stream] = pkt[t].dts]
  /\ Enter(t)
  /\ UNCHANGED <<main, pkt, outputVars, muxerVars, packet_buffer, held, out, failed>>

Stamp(t) ==
  /\ call[t] = "stamp"
  /\ \/ Refused(pkt[t]) /\ Leave(t) /\ UNCHANGED <<cur_dts, overlapped>>
     \/ /\ ~Refused(pkt[t])
        /\ cur_dts' = [cur_dts EXCEPT ![pkt[t].stream] = pkt[t].dts]
        /\ Enter(t) /\ UNCHANGED pkt
  /\ UNCHANGED <<main, outputVars, muxerVars, packet_buffer, held, out, failed>>

\* ff_interleave_add_packet moves the packet: the caller's is blank from here
\* on.  Two threads in the queue's list at once may lose one of their packets.
Queue(t) ==
  /\ call[t] = "queue"
  /\ \/ packet_buffer' =
          [packet_buffer EXCEPT ![pkt[t].stream] = Append(@, pkt[t].dts)]
     \/ /\ \E u \in Thread \ {t} : call[u] \in {"queue", "drain"}
        /\ UNCHANGED packet_buffer
  /\ pkt' = [pkt EXCEPT ![t].dts = NoDts]
  /\ Goto(t, "drain")
  /\ UNCHANGED <<main, outputVars, muxerVars, cur_dts, held, out, failed, overlapped>>

Waiting == {s \in Stream : packet_buffer[s] # << >>}

\* ff_interleave_packet_per_dts compares the streams that wait with
\* nb_interleaved_streams.
Complete == nb_interleaved_streams = 2 /\ Waiting = Stream

\* The trailer asks for everything.  max_interleave_delta may be exceeded, but
\* is looked at only if the numbers of streams agree.
MayFlush == Waiting # {} /\ (main = "trailer" \/ nb_interleaved_streams = 2)
MayKeep  == ~Complete /\ ~(main = "trailer" /\ Waiting # {})

\* The caller remembers the stamp that its packet has now.
Return(t) ==
  /\ Leave(t)
  /\ last_dts' = IF t = "read" /\ pkt[t].dts # NoDts
                   THEN [last_dts EXCEPT ![pkt[t].stream] = pkt[t].dts] ELSE last_dts
  /\ UNCHANGED <<main, header_written, use_copy_video, video_enc_ctx, muxerVars, cur_dts>>

\* One packet leaves the queue; which stream is first is left open.
Drain(t) ==
  /\ call[t] = "drain" /\ MayFlush
  /\ \E s \in Waiting :
       /\ packet_buffer' = [packet_buffer EXCEPT ![s] = Tail(@)]
       /\ held' = [held EXCEPT ![t] = [stream |-> s, dts |-> Head(packet_buffer[s])]]
  /\ Goto(t, "write")
  /\ UNCHANGED <<main, pkt, outputVars, muxerVars, cur_dts, out, failed, overlapped>>

\* The muxer is handed that packet, which is released.
HandOver(t) ==
  /\ call[t] = "write"
  /\ out' = [out EXCEPT ![held[t].stream] = held[t].dts]
  /\ held' = [held EXCEPT ![t] = NoPacket]

\* Mutant: one packet is handed over for each that comes in.
WriteOne(t) ==
  /\ HandOver(t)
  /\ failed' \in {failed, TRUE} /\ Leave(t) /\ Exit(t)
  /\ UNCHANGED <<main, outputVars, muxerVars, cur_dts, packet_buffer>>

\* interleaved_write_packet's loop goes on unless the muxer fails.
WritePacket(t) ==
  /\ HandOver(t)
  /\ \/ Goto(t, "drain") /\ UNCHANGED <<pkt, failed, overlapped>>
     \/ failed' = TRUE /\ Leave(t) /\ Exit(t)
  /\ UNCHANGED <<main, outputVars, muxerVars, cur_dts, packet_buffer>>

Drained(t) ==
  /\ call[t] = "drain" /\ MayKeep
  /\ Return(t) /\ Exit(t)
  /\ UNCHANGED <<packet_buffer, held, out, failed>>

-----------------------------------------------------------------------------
(* do_exit and output_flush_and_close.                                      *)

\* stream_close has waited for the two threads.
Quit ==
  /\ main = "playing" /\ call["read"] = "idle" /\ call["video"] = "idle"
  /\ main' = "flushing"
  /\ UNCHANGED <<call, pkt, outputVars, muxerVars, queueVars>>

FlushEnds ==
  /\ main = "flushing" /\ call["main"] = "idle"
  /\ \/ ~header_written /\ main' = "header" /\ Goto("main", "check")
     \/ header_written /\ main' = "trailer" /\ Goto("main", "drain")
  /\ UNCHANGED <<pkt, outputVars, muxerVars, queueVars>>

\* After a header that was written only now there is nothing to flush.
CloseOutput ==
  /\ main = "trailer" /\ call["main"] = "idle"
  /\ main' = "closed"
  /\ DeinitMuxer
  /\ UNCHANGED <<call, pkt, outputVars, nb_interleaved_streams, raced, queueVars>>

-----------------------------------------------------------------------------
Next ==
  \/ \E s \in Stream, d \in Dts : Copy(s, d)
  \/ PrepareVideoEncoder
  \/ \E t \in Thread :
       \/ \E d \in Dts : Encode(t, d)
       \/ CheckHeader(t) \/ StartHeader(t) \/ InitMuxer(t) \/ WriteHeader(t)
       \/ MarkHeader(t) \/ Stamp(t) \/ Queue(t) \/ Drain(t) \/ WritePacket(t)
       \/ Drained(t)
  \/ Quit \/ FlushEnds \/ CloseOutput

Spec == Init /\ [][Next]_vars

-----------------------------------------------------------------------------
(***************************************************************************)
(* A thread that has been alone in mux.c's queue since it was last left    *)
(* hands over a stamp above the stream's last one, if that was above 0,    *)
(* although the stream passes from the thread that copies to the thread    *)
(* that encodes, packets wait in between, and some are refused or lost.    *)
(* Two threads are there at once only if there is an encoder.  (From 0     *)
(* downwards mux.c's check lets go: it takes 0 for "none".)                *)
(***************************************************************************)
WritesIncrease ==
  \A t \in Thread : call[t] = "write" =>
    \/ overlapped /\ video_enc_ctx
    \/ out[held[t].stream] > 0 => held[t].dts > out[held[t].stream]

(***************************************************************************)
(* "This function will buffer the packets internally as needed to make     *)
(* sure the packets in the output file are properly interleaved, usually   *)
(* ordered by increasing dts" (avformat.h:2335): a stream's stamps never   *)
(* go back at the muxer, once they are above 0.  They do when the read     *)
(* thread, without the lock, and the video thread have each taken a packet *)
(* of that stream from the queue.                                          *)
(***************************************************************************)
OutputInOrder == [][\A s \in Stream : out[s] > 0 => out'[s] >= out[s]]_vars

(***************************************************************************)
(* The muxer is initialised once for each time that it is torn down, and   *)
(* stays so as long as the output takes its header for written.  This      *)
(* fails only if the header is written by two threads at once, which takes *)
(* an encoder: plain copying is safe without the lock.                     *)
(***************************************************************************)
Initialising == \E t \in Thread : call[t] = "initing"
Held == IF initialized \/ Initialising THEN 1 ELSE 0

MuxerIntact ==
  \/ raced /\ video_enc_ctx
  \/ open = Held /\ (header_written /\ main # "closed" => initialized)

(***************************************************************************)
(* If the streams were counted once and no packet failed, nothing waits    *)
(* that could go: whenever the threads are at rest, some stream has        *)
(* nothing in the queue.  (After a failed header nb_interleaved_streams is *)
(* too large for ever, and the queue is not emptied before the trailer.)   *)
(***************************************************************************)
NothingHeldBack ==
  nb_interleaved_streams = 2 /\ ~failed /\ (\A t \in Thread : call[t] = "idle") => Waiting # Stream
=============================================================================
