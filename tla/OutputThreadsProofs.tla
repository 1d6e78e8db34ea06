--------------------------- MODULE OutputThreadsProofs ---------------------------
(***************************************************************************)
(* Proofs about OutputThreads, for every bound: the type, what the output  *)
(* may rely on without its lock, what waits in the queue, the order of the *)
(* stamps, and that the last stamp is never tracked.                       *)
(***************************************************************************)
EXTENDS OutputThreads, TLAPS

USE OutputAssumption

Quiet(t) == call[t] = "idle"

\* Who may be in the middle of a packet, and with which.
Turns ==
  /\ \A t \in Thread : Quiet(t) => pkt[t] = NoPacket
  /\ ~Quiet("main") => main # "playing"
  /\ main # "playing" => Quiet("read") /\ Quiet("video")
  /\ ~Quiet("video") => video_enc_ctx
  /\ use_copy_video = ~video_enc_ctx
  /\ ~Quiet("read") /\ pkt["read"].stream = "video" => ~video_enc_ctx
  /\ pkt["video"].stream = "video" /\ pkt["main"].stream = "video"

\* A packet has its stamp until it is in the queue, where it leaves it; so the
\* last stamp is never known.
Stamped ==
  /\ last_dts = [s \in Stream |-> NoDts]
  /\ main = "header" => ~header_written
  /\ \A t \in Thread :
       /\ call[t] \in {"drain", "write"} => pkt[t].dts = NoDts
       /\ call[t] \in {"stamp", "queue"} => pkt[t].dts \in Dts
       /\ call[t] \in InHeader \cup {"check"} /\ main # "header" => pkt[t].dts \in Dts

\* Nothing is written before init_muxer has counted both streams.
Unattempted ==
  nb_interleaved_streams < 2 =>
    /\ ~initialized /\ ~header_written
    /\ \A s \in Stream : packet_buffer[s] = << >>
    /\ \A t \in Thread : call[t] \in {"idle", "check", "start"}

\* Without a race, the header is one thread's at a time.
Header ==
  /\ raced => video_enc_ctx
  /\ ~raced =>
       /\ \A t, u \in Thread : call[t] \in InHeader /\ call[u] \in InHeader => t = u
       /\ header_written => \A t \in Thread : call[t] \notin InHeader
       /\ \A t \in Thread : /\ call[t] \in {"header", "mark"} => initialized
                            /\ call[t] = "initing" => ~initialized
       /\ open = Held
       /\ header_written /\ main # "closed" => initialized

\* What waits complete is being drained.
Draining ==
  nb_interleaved_streams = 2 /\ ~failed /\ Waiting = Stream
    => \E t \in Thread : call[t] \in {"drain", "write"}

Increasing(q) == \A i, j \in 1..Len(q) : i < j /\ q[i] > 0 => q[j] > q[i]
Above(q, d)   == d > 0 => \A i \in 1..Len(q) : q[i] > d
UpTo(q, d)    == \A i \in 1..Len(q) : q[i] > 0 => q[i] <= d
Below(q, d)   == \A i \in 1..Len(q) : q[i] > 0 => q[i] < d

\* What of a stream has left the queue last: the stamp that the muxer was handed
\* and those that threads are about to hand it.
Gone(s) ==
  {out[s]} \cup {held[t].dts : t \in {u \in Thread : call[u] = "write" /\ held[u].stream = s}}

\* Positive stamps increase from there through the queue to cur_dts.
Ordered ==
  \A s \in Stream :
    /\ Increasing(packet_buffer[s])
    /\ UpTo(packet_buffer[s], cur_dts[s])
    /\ \A o \in Gone(s) : Above(packet_buffer[s], o) /\ (o > 0 => o <= cur_dts[s])

\* A stamp that is accepted and not in the queue yet is above all of them.
Accepted ==
  \A t \in Thread : call[t] = "queue" =>
    LET s == pkt[t].stream
    IN  /\ pkt[t].dts = cur_dts[s]
        /\ Below(packet_buffer[s], cur_dts[s])
        /\ \A o \in Gone(s) : o > 0 => o < cur_dts[s]

\* What a thread holds that has been alone is above what the muxer was handed.
Alone ==
  /\ overlapped => video_enc_ctx
  /\ ~overlapped =>
       /\ \A t, u \in Thread : call[t] \in InWriter /\ call[u] \in InWriter => t = u
       /\ \A t \in Thread : call[t] = "write" /\ out[held[t].stream] > 0
            => held[t].dts > out[held[t].stream]

IInv == /\ TypeOK /\ Turns /\ Stamped /\ Unattempted /\ Header /\ Draining
        /\ Ordered /\ Accepted /\ Alone

-----------------------------------------------------------------------------
(* Queues.                                                                  *)

\* An accepted stamp is above the positive ones.
LEMMA Raised ==
  ASSUME NEW q \in Seq(Dts), NEW c \in Int, NEW d \in Int, NEW o \in Int,
         c > 0 => c < d, UpTo(q, c), o > 0 => o <= c
  PROVE  UpTo(q, d) /\ Below(q, d) /\ (o > 0 => o < d)
<1>1. ASSUME NEW i \in 1..Len(q), q[i] > 0 PROVE q[i] < d
  BY <1>1 DEF UpTo, Dts
<1> QED
  BY <1>1 DEF UpTo, Below, Dts

\* It keeps the order when it is put at the end.
LEMMA Appended ==
  ASSUME NEW q \in Seq(Dts), NEW d \in Dts, NEW o \in Int,
         Increasing(q), Above(q, o), Below(q, d), o > 0 => o < d
  PROVE  LET r == Append(q, d)
         IN  r \in Seq(Dts) /\ Increasing(r) /\ Above(r, o) /\ UpTo(r, d)
<1> DEFINE r == Append(q, d)
<1>1. r \in Seq(Dts) /\ Len(r) = Len(q) + 1 /\ r[Len(q) + 1] = d
  OBVIOUS
<1>2. \A i \in 1..Len(q) : r[i] = q[i] /\ q[i] \in Int
  BY DEF Dts
<1>3. Increasing(r)
  BY <1>1, <1>2 DEF Increasing, Below, Dts
<1>4. \A i \in 1..Len(r) : i \in 1..Len(q) \/ i = Len(q) + 1
  BY <1>1
<1>5. Above(r, o)
  BY <1>1, <1>2, <1>4 DEF Above, Dts
<1>6. UpTo(r, d)
  BY <1>1, <1>2, <1>4 DEF UpTo, Below, Dts
<1> QED
  BY <1>1, <1>3, <1>5, <1>6

\* The first one is below the rest when it leaves.
LEMMA Removed ==
  ASSUME NEW q \in Seq(Dts), q # << >>, NEW c \in Int,
         Increasing(q), UpTo(q, c)
  PROVE  /\ Head(q) \in Dts /\ Tail(q) \in Seq(Dts)
         /\ Increasing(Tail(q)) /\ Above(Tail(q), Head(q))
         /\ UpTo(Tail(q), c) /\ (Head(q) > 0 => Head(q) <= c)
         /\ Below(q, c) => Below(Tail(q), c) /\ (Head(q) > 0 => Head(q) < c)
<1>1. Head(q) = q[1] /\ Head(q) \in Dts /\ Tail(q) \in Seq(Dts) /\ Len(Tail(q)) = Len(q) - 1
      /\ 1 \in 1..Len(q)
  OBVIOUS
<1>2. \A i \in 1..Len(Tail(q)) : Tail(q)[i] = q[i + 1] /\ i + 1 \in 1..Len(q) /\ q[i + 1] \in Int
  BY <1>1 DEF Dts
<1>3. Increasing(Tail(q))
  BY <1>1, <1>2 DEF Increasing
<1>4. Above(Tail(q), Head(q))
  BY <1>1, <1>2 DEF Increasing, Above
<1>5. UpTo(Tail(q), c) /\ (Head(q) > 0 => Head(q) <= c)
  BY <1>1, <1>2 DEF UpTo
<1>6. Below(q, c) => Below(Tail(q), c) /\ (Head(q) > 0 => Head(q) < c)
  BY <1>1, <1>2 DEF Below
<1> QED
  BY <1>1, <1>3, <1>4, <1>5, <1>6

\* What is below the queue stays so.
LEMMA TailAbove ==
  ASSUME NEW q \in Seq(Dts), q # << >>, NEW o \in Int, Above(q, o)
  PROVE  Above(Tail(q), o)
<1>1. \A i \in 1..Len(Tail(q)) : Tail(q)[i] = q[i + 1] /\ i + 1 \in 1..Len(q)
  OBVIOUS
<1> QED
  BY <1>1 DEF Above

\* A thread that writes nothing.
LEMMA RestType == NoPacket \in Packet /\ "idle" \in Place /\ InHeader \subseteq Place
BY DEF NoPacket, Packet, Place, Stream

\* The muxing queue of a stream, and the stamps around it.
LEMMA QueueType ==
  ASSUME TypeOK, NEW s \in Stream
  PROVE  /\ packet_buffer[s] \in Seq(Dts) /\ out[s] \in Int /\ cur_dts[s] \in Int
         /\ Gone(s) \subseteq Int
<1>1. packet_buffer[s] \in Seq(Dts) /\ out[s] \in Int /\ cur_dts[s] \in Int
  BY DEF TypeOK, Dts, NoDts
<1>2. \A t \in Thread : held[t].dts \in Int
  BY DEF TypeOK, Packet, Dts, NoDts
<1> QED
  BY <1>1, <1>2 DEF Gone

-----------------------------------------------------------------------------
(* Each part of the invariant.                                              *)

\* The type.
LEMMA TypeStep ==
  ASSUME IInv, [Next]_vars
  PROVE  TypeOK'
<1>1. ASSUME NEW s \in Stream, NEW d \in Dts, Copy(s, d) PROVE TypeOK'
  BY <1>1 DEF Copy, Bumped, Goto, outputVars, muxerVars, queueVars, IInv, TypeOK,
     Stamped, Place, Packet
<1>2. ASSUME PrepareVideoEncoder PROVE TypeOK'
  BY <1>2 DEF PrepareVideoEncoder, muxerVars, queueVars, IInv, TypeOK
<1>3. ASSUME NEW t \in Thread, NEW d \in Dts, Encode(t, d) PROVE TypeOK'
  BY <1>3 DEF Encode, Goto, outputVars, muxerVars, queueVars, IInv, TypeOK, Turns,
     Place, Packet
<1>4. ASSUME NEW t \in Thread, CheckHeader(t) PROVE TypeOK'
  BY <1>4 DEF CheckHeader, Goto, outputVars, queueVars, IInv, TypeOK, Place, InHeader
<1>5. ASSUME NEW t \in Thread, StartHeader(t) PROVE TypeOK'
  <2>1. main' \in {"playing", "flushing", "header", "trailer", "closed"}
        /\ call' \in [Thread -> Place] /\ pkt' \in [Thread -> Packet]
    BY <1>5, RestType DEF StartHeader, Goto, GiveUp, Leave, IInv, TypeOK, InHeader
  <2>2. open' \in Int /\ nb_interleaved_streams' \in 0..MaxCounted
    BY <1>5 DEF StartHeader, Count, IInv, TypeOK
  <2> QED
    BY <1>5, <2>1, <2>2 DEF StartHeader, outputVars, queueVars, IInv, TypeOK
<1>6. ASSUME NEW t \in Thread, InitMuxer(t) PROVE TypeOK'
  <2>1. main' \in {"playing", "flushing", "header", "trailer", "closed"}
        /\ call' \in [Thread -> Place] /\ pkt' \in [Thread -> Packet]
    BY <1>6, RestType DEF InitMuxer, Goto, GiveUp, Leave, IInv, TypeOK, InHeader
  <2>2. open' \in Int
    BY <1>6 DEF InitMuxer, IInv, TypeOK
  <2>3. initialized' \in BOOLEAN
    BY <1>6 DEF InitMuxer, IInv, TypeOK
  <2> QED
    BY <1>6, <2>1, <2>2, <2>3 DEF InitMuxer, outputVars, queueVars, IInv, TypeOK
<1>7. ASSUME NEW t \in Thread, WriteHeader(t) PROVE TypeOK'
  <2>1. main' \in {"playing", "flushing", "header", "trailer", "closed"}
        /\ call' \in [Thread -> Place] /\ pkt' \in [Thread -> Packet]
    BY <1>7, RestType DEF WriteHeader, Goto, GiveUp, Leave, IInv, TypeOK, InHeader
  <2>2. open' \in Int
    BY <1>7 DEF WriteHeader, DeinitMuxer, IInv, TypeOK
  <2>3. initialized' \in BOOLEAN
    BY <1>7 DEF WriteHeader, DeinitMuxer, IInv, TypeOK
  <2> QED
    BY <1>7, <2>1, <2>2, <2>3 DEF WriteHeader, outputVars, queueVars, IInv, TypeOK
<1>8. ASSUME NEW t \in Thread, MarkHeader(t) PROVE TypeOK'
  BY <1>8 DEF MarkHeader, Goto, GiveUp, Leave, muxerVars, queueVars, IInv, TypeOK,
     Turns, Thread, Place
<1>9. ASSUME NEW t \in Thread, Stamp(t) PROVE TypeOK'
  <2>1. call' \in [Thread -> Place] /\ pkt' \in [Thread -> Packet]
    BY <1>9, RestType DEF Stamp, Enter, Goto, Leave, IInv, TypeOK, Place, InWriter
  <2>2. cur_dts' \in [Stream -> Dts \cup {NoDts}]
    BY <1>9 DEF Stamp, IInv, TypeOK, Packet
  <2>3. overlapped' \in BOOLEAN
    BY <1>9 DEF Stamp, Enter, IInv, TypeOK
  <2> QED
    BY <1>9, <2>1, <2>2, <2>3 DEF Stamp, outputVars, muxerVars, IInv, TypeOK
<1>10. ASSUME NEW t \in Thread, Queue(t) PROVE TypeOK'
  <2>1. pkt[t].stream \in Stream /\ pkt[t].dts \in Dts
    BY <1>10 DEF Queue, IInv, TypeOK, Stamped, Packet
  <2>2. packet_buffer' \in [Stream -> Seq(Dts)]
    <3>1. Append(packet_buffer[pkt[t].stream], pkt[t].dts) \in Seq(Dts)
      BY <2>1 DEF IInv, TypeOK
    <3> QED
      BY <1>10, <2>1, <3>1 DEF Queue, IInv, TypeOK
  <2>3. call' \in [Thread -> Place] /\ pkt' \in [Thread -> Packet]
    BY <1>10 DEF Queue, Goto, IInv, TypeOK, Place, InWriter, Packet
  <2> QED
    BY <1>10, <2>2, <2>3 DEF Queue, outputVars, muxerVars, IInv, TypeOK
<1>11. ASSUME NEW t \in Thread, Drain(t) PROVE TypeOK'
  <2>1. PICK s \in Waiting :
          /\ packet_buffer' = [packet_buffer EXCEPT ![s] = Tail(@)]
          /\ held' = [held EXCEPT ![t] = [stream |-> s, dts |-> Head(packet_buffer[s])]]
    BY <1>11 DEF Drain
  <2>2. s \in Stream /\ packet_buffer[s] \in Seq(Dts) /\ packet_buffer[s] # << >>
    BY DEF Waiting, IInv, TypeOK
  <2>3. packet_buffer' \in [Stream -> Seq(Dts)] /\ held' \in [Thread -> Packet]
    BY <2>1, <2>2 DEF IInv, TypeOK, Packet
  <2>4. call' \in [Thread -> Place]
    BY <1>11 DEF Drain, Goto, IInv, TypeOK, Place, InWriter
  <2> QED
    BY <1>11, <2>3, <2>4 DEF Drain, outputVars, muxerVars, IInv, TypeOK
<1>12. ASSUME NEW t \in Thread, WritePacket(t) PROVE TypeOK'
  <2>1. call' \in [Thread -> Place] /\ pkt' \in [Thread -> Packet]
    BY <1>12, RestType DEF WritePacket, Goto, Leave, IInv, TypeOK, Place, InWriter
  <2>2. held' \in [Thread -> Packet] /\ out' \in [Stream -> Dts \cup {NoDts}]
    BY <1>12, RestType DEF WritePacket, HandOver, IInv, TypeOK, Packet
  <2>3. failed' \in BOOLEAN /\ overlapped' \in BOOLEAN
    BY <1>12 DEF WritePacket, Exit, IInv, TypeOK
  <2> QED
    BY <1>12, <2>1, <2>2, <2>3 DEF WritePacket, outputVars, muxerVars, IInv, TypeOK
<1>13. ASSUME NEW t \in Thread, Drained(t) PROVE TypeOK'
  <2>1. call' \in [Thread -> Place] /\ pkt' \in [Thread -> Packet]
    BY <1>13, RestType DEF Drained, Return, Goto, Leave, IInv, TypeOK
  <2>2. overlapped' \in BOOLEAN
    BY <1>13 DEF Drained, Exit, IInv, TypeOK
  <2>3. last_dts' = last_dts
    BY <1>13 DEF Drained, Return, IInv, Stamped
  <2> QED
    BY <1>13, <2>1, <2>2, <2>3 DEF Drained, Return, muxerVars, IInv, TypeOK
<1>14. ASSUME Quit PROVE TypeOK'
  BY <1>14 DEF Quit, outputVars, muxerVars, queueVars, IInv, TypeOK
<1>15. ASSUME FlushEnds PROVE TypeOK'
  BY <1>15 DEF FlushEnds, Goto, outputVars, muxerVars, queueVars, IInv, TypeOK, Place,
     InWriter
<1>16. ASSUME CloseOutput PROVE TypeOK'
  <2>1. open' \in Int
    BY <1>16 DEF CloseOutput, DeinitMuxer, IInv, TypeOK
  <2> QED
    BY <1>16, <2>1 DEF CloseOutput, DeinitMuxer, outputVars, queueVars, IInv, TypeOK
<1>17. CASE UNCHANGED vars
  BY <1>17 DEF vars, outputVars, muxerVars, queueVars, IInv, TypeOK
<1> QED
  BY <1>1, <1>2, <1>3, <1>4, <1>5, <1>6, <1>7, <1>8, <1>9, <1>10, <1>11, <1>12, <1>13,
     <1>14, <1>15, <1>16, <1>17 DEF Next

\* The threads' turns.
LEMMA TurnsStep ==
  ASSUME TypeOK, Turns, [Next]_vars
  PROVE  Turns'
<1>1. ASSUME NEW s \in Stream, NEW d \in Dts, Copy(s, d) PROVE Turns'
  BY <1>1 DEF Copy, Goto, outputVars, TypeOK, Turns, Quiet, Thread
<1>2. ASSUME PrepareVideoEncoder PROVE Turns'
  BY <1>2 DEF PrepareVideoEncoder, Turns, Quiet
<1>3. ASSUME NEW t \in Thread, NEW d \in Dts, Encode(t, d) PROVE Turns'
  BY <1>3 DEF Encode, Goto, outputVars, TypeOK, Turns, Quiet
<1>4. ASSUME NEW t \in Thread, CheckHeader(t) PROVE Turns'
  BY <1>4 DEF CheckHeader, Goto, outputVars, Turns, Quiet
<1>5. ASSUME NEW t \in Thread, StartHeader(t) PROVE Turns'
  BY <1>5 DEF StartHeader, Goto, GiveUp, Leave, outputVars, TypeOK, Turns, Quiet, Thread
<1>6. ASSUME NEW t \in Thread, InitMuxer(t) PROVE Turns'
  BY <1>6 DEF InitMuxer, Goto, GiveUp, Leave, outputVars, TypeOK, Turns, Quiet, Thread
<1>7. ASSUME NEW t \in Thread, WriteHeader(t) PROVE Turns'
  BY <1>7 DEF WriteHeader, Goto, GiveUp, Leave, outputVars, TypeOK, Turns, Quiet, Thread
<1>8. ASSUME NEW t \in Thread, MarkHeader(t) PROVE Turns'
  BY <1>8 DEF MarkHeader, Goto, GiveUp, Leave, TypeOK, Turns, Quiet, Thread
<1>9. ASSUME NEW t \in Thread, Stamp(t) PROVE Turns'
  BY <1>9 DEF Stamp, Enter, Goto, Leave, outputVars, TypeOK, Turns, Quiet, Thread
<1>10. ASSUME NEW t \in Thread, Queue(t) PROVE Turns'
  BY <1>10 DEF Queue, Goto, outputVars, Turns, Quiet
<1>11. ASSUME NEW t \in Thread, Drain(t) PROVE Turns'
  BY <1>11 DEF Drain, Goto, outputVars, TypeOK, Turns, Quiet, Thread
<1>12. ASSUME NEW t \in Thread, WritePacket(t) PROVE Turns'
  BY <1>12 DEF WritePacket, HandOver, Goto, Leave, outputVars, TypeOK, Turns, Quiet, Thread
<1>13. ASSUME NEW t \in Thread, Drained(t) PROVE Turns'
  BY <1>13 DEF Drained, Return, Goto, Leave, TypeOK, Turns, Quiet, Thread
<1>14. ASSUME Quit PROVE Turns'
  BY <1>14 DEF Quit, outputVars, Turns, Quiet
<1>15. ASSUME FlushEnds PROVE Turns'
  BY <1>15 DEF FlushEnds, Goto, outputVars, TypeOK, Turns, Quiet, Thread
<1>16. ASSUME CloseOutput PROVE Turns'
  BY <1>16 DEF CloseOutput, outputVars, Turns, Quiet
<1>17. CASE UNCHANGED vars
  BY <1>17 DEF vars, outputVars, Turns, Quiet
<1> QED
  BY <1>1, <1>2, <1>3, <1>4, <1>5, <1>6, <1>7, <1>8, <1>9, <1>10, <1>11, <1>12, <1>13,
     <1>14, <1>15, <1>16, <1>17 DEF Next

\* No stamp is remembered.
LEMMA StampedStep ==
  ASSUME TypeOK, Turns, Stamped, [Next]_vars
  PROVE  Stamped'
<1>1. ASSUME NEW s \in Stream, NEW d \in Dts, Copy(s, d) PROVE Stamped'
  BY <1>1 DEF Copy, Bumped, Goto, outputVars, TypeOK, Stamped
<1>2. ASSUME PrepareVideoEncoder PROVE Stamped'
  BY <1>2 DEF PrepareVideoEncoder, Stamped
<1>3. ASSUME NEW t \in Thread, NEW d \in Dts, Encode(t, d) PROVE Stamped'
  BY <1>3 DEF Encode, Goto, outputVars, TypeOK, Stamped
<1>4. ASSUME NEW t \in Thread, CheckHeader(t) PROVE Stamped'
  BY <1>4 DEF CheckHeader, Goto, outputVars, Stamped
<1>5. ASSUME NEW t \in Thread, StartHeader(t) PROVE Stamped'
  BY <1>5 DEF StartHeader, Goto, GiveUp, Leave, outputVars, TypeOK, Turns, Stamped,
     Quiet, Thread, InHeader
<1>6. ASSUME NEW t \in Thread, InitMuxer(t) PROVE Stamped'
  BY <1>6 DEF InitMuxer, Goto, GiveUp, Leave, outputVars, TypeOK, Turns, Stamped,
     Quiet, Thread, InHeader
<1>7. ASSUME NEW t \in Thread, WriteHeader(t) PROVE Stamped'
  BY <1>7 DEF WriteHeader, Goto, GiveUp, Leave, outputVars, TypeOK, Turns, Stamped,
     Quiet, Thread, InHeader
<1>8. ASSUME NEW t \in Thread, MarkHeader(t) PROVE Stamped'
  BY <1>8 DEF MarkHeader, Goto, GiveUp, Leave, TypeOK, Turns, Stamped, Quiet, Thread,
     InHeader
<1>9. ASSUME NEW t \in Thread, Stamp(t) PROVE Stamped'
  BY <1>9 DEF Stamp, Enter, Goto, Leave, outputVars, TypeOK, Turns, Stamped, Quiet, Thread
<1>10. ASSUME NEW t \in Thread, Queue(t) PROVE Stamped'
  BY <1>10 DEF Queue, Goto, outputVars, TypeOK, Stamped, InHeader
<1>11. ASSUME NEW t \in Thread, Drain(t) PROVE Stamped'
  BY <1>11 DEF Drain, Goto, outputVars, TypeOK, Stamped, InHeader
<1>12. ASSUME NEW t \in Thread, WritePacket(t) PROVE Stamped'
  <2>1. UNCHANGED <<main, last_dts, header_written>> /\ call[t] = "write"
        /\ \A u \in Thread \ {t} : call'[u] = call[u] /\ pkt'[u] = pkt[u]
    BY <1>12 DEF WritePacket, HandOver, Goto, Leave, outputVars, TypeOK
  <2>2. (call'[t] = "drain" /\ pkt'[t] = pkt[t]) \/ call'[t] = "idle"
    BY <1>12 DEF WritePacket, Goto, Leave, TypeOK
  <2> QED
    BY <2>1, <2>2 DEF Stamped, InHeader
<1>13. ASSUME NEW t \in Thread, Drained(t) PROVE Stamped'
  BY <1>13 DEF Drained, Return, Goto, Leave, TypeOK, Turns, Stamped, Quiet, Thread
<1>14. ASSUME Quit PROVE Stamped'
  BY <1>14 DEF Quit, outputVars, Stamped
<1>15. ASSUME FlushEnds PROVE Stamped'
  BY <1>15 DEF FlushEnds, Goto, outputVars, TypeOK, Turns, Stamped, Quiet, InHeader,
     NoPacket
<1>16. ASSUME CloseOutput PROVE Stamped'
  BY <1>16 DEF CloseOutput, outputVars, Stamped
<1>17. CASE UNCHANGED vars
  BY <1>17 DEF vars, outputVars, Stamped
<1> QED
  BY <1>1, <1>2, <1>3, <1>4, <1>5, <1>6, <1>7, <1>8, <1>9, <1>10, <1>11, <1>12, <1>13,
     <1>14, <1>15, <1>16, <1>17 DEF Next

\* Before the first init_muxer.
LEMMA UnattemptedStep ==
  ASSUME TypeOK, Unattempted, [Next]_vars
  PROVE  Unattempted'
<1>1. ASSUME NEW s \in Stream, NEW d \in Dts, Copy(s, d) PROVE Unattempted'
  BY <1>1 DEF Copy, Goto, outputVars, muxerVars, queueVars, Unattempted
<1>2. ASSUME PrepareVideoEncoder PROVE Unattempted'
  BY <1>2 DEF PrepareVideoEncoder, muxerVars, queueVars, Unattempted
<1>3. ASSUME NEW t \in Thread, NEW d \in Dts, Encode(t, d) PROVE Unattempted'
  BY <1>3 DEF Encode, Goto, outputVars, muxerVars, queueVars, Unattempted
<1>4. ASSUME NEW t \in Thread, CheckHeader(t) PROVE Unattempted'
  BY <1>4 DEF CheckHeader, Goto, outputVars, queueVars, Unattempted
<1>5. ASSUME NEW t \in Thread, StartHeader(t) PROVE Unattempted'
  BY <1>5 DEF StartHeader, Count, Goto, GiveUp, Leave, outputVars, queueVars, TypeOK,
     Unattempted
<1>6. ASSUME NEW t \in Thread, InitMuxer(t) PROVE Unattempted'
  BY <1>6 DEF InitMuxer, Unattempted
<1>7. ASSUME NEW t \in Thread, WriteHeader(t) PROVE Unattempted'
  BY <1>7 DEF WriteHeader, Unattempted
<1>8. ASSUME NEW t \in Thread, MarkHeader(t) PROVE Unattempted'
  BY <1>8 DEF MarkHeader, muxerVars, Unattempted
<1>9. ASSUME NEW t \in Thread, Stamp(t) PROVE Unattempted'
  BY <1>9 DEF Stamp, muxerVars, Unattempted
<1>10. ASSUME NEW t \in Thread, Queue(t) PROVE Unattempted'
  BY <1>10 DEF Queue, muxerVars, Unattempted
<1>11. ASSUME NEW t \in Thread, Drain(t) PROVE Unattempted'
  BY <1>11 DEF Drain, muxerVars, Unattempted
<1>12. ASSUME NEW t \in Thread, WritePacket(t) PROVE Unattempted'
  BY <1>12 DEF WritePacket, HandOver, muxerVars, Unattempted
<1>13. ASSUME NEW t \in Thread, Drained(t) PROVE Unattempted'
  BY <1>13 DEF Drained, Return, muxerVars, Unattempted
<1>14. ASSUME Quit PROVE Unattempted'
  BY <1>14 DEF Quit, outputVars, muxerVars, queueVars, Unattempted
<1>15. ASSUME FlushEnds PROVE Unattempted'
  BY <1>15 DEF FlushEnds, Goto, outputVars, muxerVars, queueVars, TypeOK, Unattempted
<1>16. ASSUME CloseOutput PROVE Unattempted'
  BY <1>16 DEF CloseOutput, DeinitMuxer, outputVars, queueVars, Unattempted
<1>17. CASE UNCHANGED vars
  BY <1>17 DEF vars, outputVars, muxerVars, queueVars, Unattempted
<1> QED
  BY <1>1, <1>2, <1>3, <1>4, <1>5, <1>6, <1>7, <1>8, <1>9, <1>10, <1>11, <1>12, <1>13,
     <1>14, <1>15, <1>16, <1>17 DEF Next

\* The header.
LEMMA HeaderStep ==
  ASSUME TypeOK, Turns, Header, [Next]_vars
  PROVE  Header'
<1>1. ASSUME NEW s \in Stream, NEW d \in Dts, Copy(s, d) PROVE Header'
  BY <1>1 DEF Copy, Goto, outputVars, muxerVars, Header, InHeader, Held, Initialising
<1>2. ASSUME PrepareVideoEncoder PROVE Header'
  BY <1>2 DEF PrepareVideoEncoder, muxerVars, Header, Held, Initialising
<1>3. ASSUME NEW t \in Thread, NEW d \in Dts, Encode(t, d) PROVE Header'
  BY <1>3 DEF Encode, Goto, outputVars, muxerVars, Header, InHeader, Held, Initialising
<1>4. ASSUME NEW t \in Thread, CheckHeader(t) PROVE Header'
  BY <1>4 DEF CheckHeader, Goto, outputVars, TypeOK, Turns, Header, Quiet, Thread,
     InHeader, Held, Initialising
<1>5. ASSUME NEW t \in Thread, StartHeader(t) PROVE Header'
  BY <1>5 DEF StartHeader, Goto, GiveUp, Leave, outputVars, TypeOK, Header, Thread,
     InHeader, Held, Initialising
<1>6. ASSUME NEW t \in Thread, InitMuxer(t) PROVE Header'
  BY <1>6 DEF InitMuxer, Goto, GiveUp, Leave, outputVars, TypeOK, Header, Thread,
     InHeader, Held, Initialising
<1>7. ASSUME NEW t \in Thread, WriteHeader(t) PROVE Header'
  BY <1>7 DEF WriteHeader, Goto, GiveUp, Leave, DeinitMuxer, outputVars, TypeOK,
     Header, Thread, InHeader, Held, Initialising
<1>8. ASSUME NEW t \in Thread, MarkHeader(t) PROVE Header'
  BY <1>8 DEF MarkHeader, Goto, GiveUp, Leave, muxerVars, TypeOK, Turns, Header,
     InHeader, Held
<1>9. ASSUME NEW t \in Thread, Stamp(t) PROVE Header'
  BY <1>9 DEF Stamp, Enter, Goto, Leave, outputVars, muxerVars, TypeOK, Header, InHeader,
     Held, Initialising
<1>10. ASSUME NEW t \in Thread, Queue(t) PROVE Header'
  BY <1>10 DEF Queue, Goto, outputVars, muxerVars, Header, InHeader, Held, Initialising
<1>11. ASSUME NEW t \in Thread, Drain(t) PROVE Header'
  BY <1>11 DEF Drain, Goto, outputVars, muxerVars, TypeOK, Header, InHeader, Held,
     Initialising
<1>12. ASSUME NEW t \in Thread, WritePacket(t) PROVE Header'
  BY <1>12 DEF WritePacket, HandOver, Goto, Leave, outputVars, muxerVars, TypeOK, Header,
     InHeader, Held, Initialising
<1>13. ASSUME NEW t \in Thread, Drained(t) PROVE Header'
  BY <1>13 DEF Drained, Return, Goto, Leave, muxerVars, Header, InHeader, Held,
     Initialising
<1>14. ASSUME Quit PROVE Header'
  BY <1>14 DEF Quit, outputVars, muxerVars, Header, Held, Initialising
<1>15. ASSUME FlushEnds PROVE Header'
  BY <1>15 DEF FlushEnds, Goto, outputVars, muxerVars, TypeOK, Header, InHeader, Held,
     Initialising
<1>16. ASSUME CloseOutput PROVE Header'
  BY <1>16 DEF CloseOutput, DeinitMuxer, outputVars, Turns, Header, Quiet, Thread,
     Held, Initialising
<1>17. CASE UNCHANGED vars
  BY <1>17 DEF vars, outputVars, muxerVars, Header, Held, Initialising
<1> QED
  BY <1>1, <1>2, <1>3, <1>4, <1>5, <1>6, <1>7, <1>8, <1>9, <1>10, <1>11, <1>12, <1>13,
     <1>14, <1>15, <1>16, <1>17 DEF Next

\* The queue is drained.
LEMMA DrainingStep ==
  ASSUME TypeOK, Unattempted, Draining, [Next]_vars
  PROVE  Draining'
<1>1. ASSUME NEW s \in Stream, NEW d \in Dts, Copy(s, d) PROVE Draining'
  BY <1>1 DEF Copy, Goto, muxerVars, queueVars, Draining, Waiting
<1>2. ASSUME PrepareVideoEncoder PROVE Draining'
  BY <1>2 DEF PrepareVideoEncoder, muxerVars, queueVars, Draining, Waiting
<1>3. ASSUME NEW t \in Thread, NEW d \in Dts, Encode(t, d) PROVE Draining'
  BY <1>3 DEF Encode, Goto, muxerVars, queueVars, Draining, Waiting
<1>4. ASSUME NEW t \in Thread, CheckHeader(t) PROVE Draining'
  BY <1>4 DEF CheckHeader, Goto, queueVars, Draining, Waiting
<1>5. ASSUME NEW t \in Thread, StartHeader(t) PROVE Draining'
  <2>1. CASE nb_interleaved_streams' = nb_interleaved_streams
    BY <1>5, <2>1 DEF StartHeader, Goto, GiveUp, Leave, queueVars, TypeOK, Draining, Waiting
  <2>2. CASE nb_interleaved_streams' # nb_interleaved_streams
    <3>1. nb_interleaved_streams' = 2 => nb_interleaved_streams < 2
      BY <1>5, <2>2 DEF StartHeader, Count, TypeOK
    <3>2. packet_buffer' = packet_buffer
      BY <1>5 DEF StartHeader, queueVars
    <3> QED
      BY <3>1, <3>2 DEF Unattempted, Draining, Waiting, Stream
  <2> QED
    BY <2>1, <2>2
<1>6. ASSUME NEW t \in Thread, InitMuxer(t) PROVE Draining'
  BY <1>6 DEF InitMuxer, Goto, GiveUp, Leave, queueVars, TypeOK, Draining, Waiting
<1>7. ASSUME NEW t \in Thread, WriteHeader(t) PROVE Draining'
  BY <1>7 DEF WriteHeader, Goto, GiveUp, Leave, queueVars, TypeOK, Draining, Waiting
<1>8. ASSUME NEW t \in Thread, MarkHeader(t) PROVE Draining'
  BY <1>8 DEF MarkHeader, Goto, GiveUp, Leave, muxerVars, queueVars, TypeOK, Draining,
     Waiting
<1>9. ASSUME NEW t \in Thread, Stamp(t) PROVE Draining'
  BY <1>9 DEF Stamp, Enter, Goto, Leave, muxerVars, TypeOK, Draining, Waiting
<1>10. ASSUME NEW t \in Thread, Queue(t) PROVE Draining'
  BY <1>10 DEF Queue, Goto, TypeOK, Draining
<1>11. ASSUME NEW t \in Thread, Drain(t) PROVE Draining'
  BY <1>11 DEF Drain, Goto, TypeOK, Draining
<1>12. ASSUME NEW t \in Thread, WritePacket(t) PROVE Draining'
  BY <1>12 DEF WritePacket, HandOver, Goto, muxerVars, TypeOK, Draining, Waiting
<1>13. ASSUME NEW t \in Thread, Drained(t) PROVE Draining'
  BY <1>13 DEF Drained, Return, muxerVars, MayKeep, Complete, Draining, Waiting
<1>14. ASSUME Quit PROVE Draining'
  BY <1>14 DEF Quit, muxerVars, queueVars, Draining, Waiting
<1>15. ASSUME FlushEnds PROVE Draining'
  BY <1>15 DEF FlushEnds, Goto, muxerVars, queueVars, TypeOK, Draining, Waiting
<1>16. ASSUME CloseOutput PROVE Draining'
  BY <1>16 DEF CloseOutput, queueVars, Draining, Waiting
<1>17. CASE UNCHANGED vars
  BY <1>17 DEF vars, muxerVars, queueVars, Draining, Waiting
<1> QED
  BY <1>1, <1>2, <1>3, <1>4, <1>5, <1>6, <1>7, <1>8, <1>9, <1>10, <1>11, <1>12, <1>13,
     <1>14, <1>15, <1>16, <1>17 DEF Next

\* All other steps leave the queue and what has left it alone.
LEMMA OtherSteps ==
  ASSUME TypeOK, Turns, [Next]_vars
  PROVE  \/ \E t \in Thread : Stamp(t) \/ Queue(t) \/ Drain(t) \/ WritePacket(t)
         \/ /\ UNCHANGED <<packet_buffer, cur_dts, held, out>>
            /\ \A u \in Thread : /\ call'[u] = "write" => call[u] = "write"
                                 /\ call'[u] = "queue" => call[u] = "queue" /\ pkt'[u] = pkt[u]
<1> DEFINE Same == UNCHANGED <<packet_buffer, cur_dts, held, out>>
           Stay == \A u \in Thread : /\ call'[u] = "write" => call[u] = "write"
                                     /\ call'[u] = "queue" => call[u] = "queue" /\ pkt'[u] = pkt[u]
<1>1. ASSUME NEW s \in Stream, NEW d \in Dts, Copy(s, d) PROVE Same /\ Stay
  BY <1>1 DEF Copy, Goto, queueVars, TypeOK
<1>2. ASSUME NEW t \in Thread, NEW d \in Dts, Encode(t, d) PROVE Same /\ Stay
  BY <1>2 DEF Encode, Goto, queueVars, TypeOK
<1>3. ASSUME NEW t \in Thread, CheckHeader(t) PROVE Same /\ Stay
  BY <1>3 DEF CheckHeader, Goto, queueVars, TypeOK
<1>4. ASSUME NEW t \in Thread, StartHeader(t) PROVE Same /\ Stay
  BY <1>4 DEF StartHeader, Goto, GiveUp, Leave, queueVars, TypeOK
<1>5. ASSUME NEW t \in Thread, InitMuxer(t) PROVE Same /\ Stay
  BY <1>5 DEF InitMuxer, Goto, GiveUp, Leave, queueVars, TypeOK
<1>6. ASSUME NEW t \in Thread, WriteHeader(t) PROVE Same /\ Stay
  BY <1>6 DEF WriteHeader, Goto, GiveUp, Leave, queueVars, TypeOK
<1>7. ASSUME NEW t \in Thread, MarkHeader(t) PROVE Same /\ Stay
  BY <1>7 DEF MarkHeader, Goto, GiveUp, Leave, queueVars, TypeOK
<1>8. ASSUME NEW t \in Thread, Drained(t) PROVE Same /\ Stay
  BY <1>8 DEF Drained, Return, Goto, Leave, TypeOK
<1>9. ASSUME PrepareVideoEncoder \/ Quit \/ CloseOutput \/ UNCHANGED vars PROVE Same /\ Stay
  BY <1>9 DEF PrepareVideoEncoder, Quit, CloseOutput, vars, queueVars
<1>10. ASSUME FlushEnds PROVE Same /\ Stay
  BY <1>10 DEF FlushEnds, Goto, queueVars, TypeOK
<1> QED
  BY <1>1, <1>2, <1>3, <1>4, <1>5, <1>6, <1>7, <1>8, <1>9, <1>10 DEF Next

\* What has left the queue is remembered only as long as it is the last.
LEMMA GoneKept ==
  ASSUME TypeOK, NEW s \in Stream, UNCHANGED <<held, out>>,
         \A u \in Thread : call'[u] = "write" => call[u] = "write"
  PROVE  Gone(s)' \subseteq Gone(s)
BY DEF Gone

LEMMA GoneWritten ==
  ASSUME TypeOK, NEW s \in Stream, NEW t \in Thread, WritePacket(t)
  PROVE  Gone(s)' \subseteq Gone(s)
<1>1. held[t].stream \in Stream
  BY DEF TypeOK, Packet
<1>2. out'[s] \in Gone(s)
  BY <1>1 DEF WritePacket, HandOver, Gone, TypeOK
<1>3. \A u \in Thread : call'[u] = "write" => call[u] = "write" /\ held'[u] = held[u]
  BY DEF WritePacket, HandOver, Goto, Leave, TypeOK
<1> QED
  BY <1>2, <1>3 DEF Gone

\* A packet that is taken joins it.
LEMMA GoneTaken ==
  ASSUME TypeOK, NEW t \in Thread, Drain(t)
  PROVE  \E s \in Stream :
           /\ packet_buffer[s] # << >> /\ cur_dts' = cur_dts /\ pkt' = pkt
           /\ \A u \in Stream \ {s} : packet_buffer'[u] = packet_buffer[u]
                                      /\ Gone(u)' \subseteq Gone(u)
           /\ packet_buffer'[s] = Tail(packet_buffer[s])
           /\ Gone(s)' \subseteq Gone(s) \cup {Head(packet_buffer[s])}
<1>1. PICK s \in Waiting :
        /\ packet_buffer' = [packet_buffer EXCEPT ![s] = Tail(@)]
        /\ held' = [held EXCEPT ![t] = [stream |-> s, dts |-> Head(packet_buffer[s])]]
  BY DEF Drain
<1>2. s \in Stream /\ packet_buffer[s] # << >>
  BY DEF Waiting
<1>3. out' = out /\ cur_dts' = cur_dts /\ pkt' = pkt
  BY DEF Drain
<1>4. \A u \in Thread \ {t} : call'[u] = call[u] /\ held'[u] = held[u]
  BY <1>1 DEF Drain, Goto, TypeOK
<1>5. held'[t] = [stream |-> s, dts |-> Head(packet_buffer[s])]
  BY <1>1 DEF TypeOK
<1>6. ASSUME NEW u \in Stream, u # s PROVE Gone(u)' \subseteq Gone(u)
  BY <1>3, <1>4, <1>5, <1>6 DEF Gone
<1>7. Gone(s)' \subseteq Gone(s) \cup {Head(packet_buffer[s])}
  BY <1>3, <1>4, <1>5 DEF Gone
<1>8. packet_buffer'[s] = Tail(packet_buffer[s])
      /\ \A u \in Stream \ {s} : packet_buffer'[u] = packet_buffer[u]
  BY <1>1, <1>2 DEF TypeOK
<1> QED
  BY <1>2, <1>3, <1>6, <1>7, <1>8

\* What mux.c does not refuse is above the positive stamps of its stream.
LEMMA NotRefused ==
  ASSUME TypeOK, Stamped, Ordered, NEW t \in Thread, call[t] = "stamp", ~Refused(pkt[t])
  PROVE  LET p == pkt[t]
         IN  /\ p.stream \in Stream /\ p.dts \in Int
             /\ UpTo(packet_buffer[p.stream], p.dts) /\ Below(packet_buffer[p.stream], p.dts)
             /\ \A o \in Gone(p.stream) : o > 0 => o < p.dts
<1> DEFINE s == pkt[t].stream
           q == packet_buffer[s]
           c == cur_dts[s]
           d == pkt[t].dts
<1>1. s \in Stream /\ d \in Int
  BY DEF TypeOK, Stamped, Packet, Dts
<1>2. q \in Seq(Dts) /\ c \in Int /\ Gone(s) \subseteq Int
  BY <1>1, QueueType
<1>3. c > 0 => c < d
  BY <1>1, <1>2 DEF Refused, NoDts
<1>4. UpTo(q, c) /\ \A o \in Gone(s) : o > 0 => o <= c
  BY <1>1 DEF Ordered
<1>5. out[s] \in Gone(s)
  BY DEF Gone
<1> HIDE DEF s, q, c, d
<1>6. UpTo(q, d) /\ Below(q, d) /\ \A o \in Gone(s) : o > 0 => o < d
  BY <1>1, <1>2, <1>3, <1>4, <1>5, Raised
<1> QED
  BY <1>1, <1>6 DEF s, q, c, d

\* The order of the stamps.
LEMMA OrderedStep ==
  ASSUME TypeOK, Turns, Stamped, Ordered, Accepted, [Next]_vars
  PROVE  Ordered'
<1>1. ASSUME UNCHANGED <<packet_buffer, cur_dts, held, out>>,
             \A u \in Thread : call'[u] = "write" => call[u] = "write"
      PROVE  Ordered'
  <2>1. \A s \in Stream : Gone(s)' \subseteq Gone(s)
    BY <1>1, GoneKept
  <2> QED
    BY <1>1, <2>1 DEF Ordered
<1>2. ASSUME NEW t \in Thread, Stamp(t) PROVE Ordered'
  <2>1. UNCHANGED <<packet_buffer, held, out>>
        /\ \A u \in Thread : call'[u] = "write" => call[u] = "write"
    BY <1>2 DEF Stamp, Enter, Goto, Leave, TypeOK
  <2>2. CASE Refused(pkt[t])
    BY <1>1, <1>2, <2>1, <2>2 DEF Stamp
  <2>3. CASE ~Refused(pkt[t])
    <3> DEFINE p == pkt[t]
    <3>1. /\ p.stream \in Stream /\ p.dts \in Int
          /\ UpTo(packet_buffer[p.stream], p.dts) /\ Below(packet_buffer[p.stream], p.dts)
          /\ \A o \in Gone(p.stream) : o > 0 => o < p.dts
      BY <1>2, <2>3, NotRefused DEF Stamp
    <3>2. cur_dts' = [cur_dts EXCEPT ![p.stream] = p.dts]
      BY <1>2, <2>3 DEF Stamp
    <3>3. ASSUME NEW s \in Stream
          PROVE  UpTo(packet_buffer[s], cur_dts'[s])
                 /\ \A o \in Gone(s) : o > 0 => o <= cur_dts'[s]
      <4>1. CASE s = p.stream
        <5>1. cur_dts'[s] = p.dts /\ Gone(s) \subseteq Int
          BY <3>2, <4>1, QueueType DEF TypeOK
        <5> QED
          BY <3>1, <4>1, <5>1
      <4>2. CASE s # p.stream
        BY <3>2, <4>2 DEF Ordered, TypeOK
      <4> QED
        BY <4>1, <4>2
    <3>4. \A s \in Stream : Gone(s)' \subseteq Gone(s)
      BY <2>1, GoneKept
    <3> QED
      BY <2>1, <3>3, <3>4 DEF Ordered
  <2> QED
    BY <2>2, <2>3
<1>3. ASSUME NEW t \in Thread, Queue(t) PROVE Ordered'
  <2> DEFINE p == pkt[t]
  <2>1. p.stream \in Stream /\ p.dts \in Dts
    BY <1>3 DEF Queue, TypeOK, Stamped, Packet
  <2>2. p.dts = cur_dts[p.stream] /\ Below(packet_buffer[p.stream], p.dts)
        /\ \A o \in Gone(p.stream) : o > 0 => o < p.dts
    BY <1>3 DEF Queue, Accepted
  <2> DEFINE r == Append(packet_buffer[p.stream], p.dts)
  <2>3. Increasing(r) /\ UpTo(r, cur_dts[p.stream]) /\ \A o \in Gone(p.stream) : Above(r, o)
    <3>1. ASSUME NEW o \in Gone(p.stream)
          PROVE  Increasing(r) /\ UpTo(r, cur_dts[p.stream]) /\ Above(r, o)
      BY <2>1, <2>2, QueueType, Appended DEF Ordered
    <3>2. out[p.stream] \in Gone(p.stream)
      BY DEF Gone
    <3> QED
      BY <3>1, <3>2
  <2> HIDE DEF r
  <2>4. ASSUME NEW s \in Stream
        PROVE  \/ packet_buffer'[s] = packet_buffer[s]
               \/ s = p.stream /\ packet_buffer'[s] = r
    <3>1. CASE packet_buffer' = packet_buffer
      BY <3>1
    <3>2. CASE packet_buffer' = [packet_buffer EXCEPT ![p.stream] = Append(@, p.dts)]
      BY <2>1, <3>2 DEF TypeOK, r
    <3> QED
      BY <1>3, <3>1, <3>2 DEF Queue
  <2>5. \A s \in Stream : Gone(s)' \subseteq Gone(s)
    <3>1. UNCHANGED <<held, out>> /\ \A u \in Thread : call'[u] = "write" => call[u] = "write"
      BY <1>3 DEF Queue, Goto, TypeOK
    <3> QED
      BY <3>1, GoneKept
  <2>6. cur_dts' = cur_dts
    BY <1>3 DEF Queue
  <2> QED
    BY <2>3, <2>4, <2>5, <2>6 DEF Ordered
<1>4. ASSUME NEW t \in Thread, Drain(t) PROVE Ordered'
  <2>1. PICK s \in Stream :
          /\ packet_buffer[s] # << >> /\ cur_dts' = cur_dts
          /\ \A u \in Stream \ {s} : packet_buffer'[u] = packet_buffer[u]
                                     /\ Gone(u)' \subseteq Gone(u)
          /\ packet_buffer'[s] = Tail(packet_buffer[s])
          /\ Gone(s)' \subseteq Gone(s) \cup {Head(packet_buffer[s])}
    BY <1>4, GoneTaken
  <2>2. /\ Increasing(Tail(packet_buffer[s])) /\ Above(Tail(packet_buffer[s]), Head(packet_buffer[s]))
        /\ UpTo(Tail(packet_buffer[s]), cur_dts[s])
        /\ Head(packet_buffer[s]) > 0 => Head(packet_buffer[s]) <= cur_dts[s]
    BY <2>1, QueueType, Removed DEF Ordered
  <2>3. ASSUME NEW o \in Gone(s)
        PROVE  Above(Tail(packet_buffer[s]), o) /\ (o > 0 => o <= cur_dts[s])
    BY <2>1, QueueType, TailAbove DEF Ordered
  <2> QED
    BY <2>1, <2>2, <2>3 DEF Ordered
<1>5. ASSUME NEW t \in Thread, WritePacket(t) PROVE Ordered'
  <2>1. \A s \in Stream : Gone(s)' \subseteq Gone(s)
    BY <1>5, GoneWritten
  <2> QED
    BY <1>5, <2>1 DEF WritePacket, Ordered
<1> QED
  BY <1>1, <1>2, <1>3, <1>4, <1>5, OtherSteps

\* No stream has packets of two threads.
LEMMA OneWriter ==
  ASSUME TypeOK, Turns, NEW t \in Thread, NEW u \in Thread, t # u,
         call[t] # "idle", call[u] # "idle"
  PROVE  pkt[t].stream # pkt[u].stream
BY DEF Turns, Quiet, Thread

\* The stamps on their way.
LEMMA AcceptedStep ==
  ASSUME TypeOK, Turns, Stamped, Ordered, Accepted, [Next]_vars
  PROVE  Accepted'
<1> USE DEF Accepted
<1>1. ASSUME UNCHANGED <<packet_buffer, cur_dts, held, out>>,
             \A u \in Thread : /\ call'[u] = "write" => call[u] = "write"
                               /\ call'[u] = "queue" => call[u] = "queue" /\ pkt'[u] = pkt[u]
      PROVE  Accepted'
  <2>1. \A s \in Stream : Gone(s)' \subseteq Gone(s)
    BY <1>1, GoneKept
  <2> QED
    BY <1>1, <2>1 DEF TypeOK, Packet
<1>2. ASSUME NEW t \in Thread, Stamp(t) PROVE Accepted'
  <2>1. UNCHANGED <<packet_buffer, held, out>>
        /\ \A u \in Thread : /\ call'[u] = "write" => call[u] = "write"
                             /\ u # t => call'[u] = call[u] /\ pkt'[u] = pkt[u]
    BY <1>2 DEF Stamp, Enter, Goto, Leave, TypeOK
  <2>2. CASE Refused(pkt[t])
    <3>1. cur_dts' = cur_dts /\ call'[t] # "queue"
      BY <1>2, <2>2 DEF Stamp, Goto, Leave, TypeOK
    <3> QED
      BY <1>1, <2>1, <3>1
  <2>3. CASE ~Refused(pkt[t])
    <3> DEFINE p == pkt[t]
    <3>1. /\ p.stream \in Stream /\ p.dts \in Int
          /\ UpTo(packet_buffer[p.stream], p.dts) /\ Below(packet_buffer[p.stream], p.dts)
          /\ \A o \in Gone(p.stream) : o > 0 => o < p.dts
      BY <1>2, <2>3, NotRefused DEF Stamp
    <3>2. cur_dts' = [cur_dts EXCEPT ![p.stream] = p.dts] /\ pkt' = pkt
      BY <1>2, <2>3 DEF Stamp
    <3>3. \A s \in Stream : Gone(s)' \subseteq Gone(s)
      BY <2>1, GoneKept
    <3>4. ASSUME NEW u \in Thread, call'[u] = "queue", u # t
          PROVE  call[u] = "queue" /\ pkt[u].stream \in Stream /\ pkt[u].stream # p.stream
      BY <1>2, <2>1, <3>4, OneWriter DEF Stamp, TypeOK, Packet
    <3>5. ASSUME NEW u \in Thread, call'[u] = "queue"
          PROVE  LET s == pkt[u].stream
                 IN  /\ s \in Stream /\ pkt[u].dts = cur_dts'[s]
                     /\ Below(packet_buffer[s], cur_dts'[s])
                     /\ \A o \in Gone(s) : o > 0 => o < cur_dts'[s]
      <4>1. CASE u = t
        <5>1. cur_dts'[p.stream] = p.dts
          BY <3>1, <3>2 DEF TypeOK
        <5> QED
          BY <3>1, <4>1, <5>1
      <4>2. CASE u # t
        <5>1. cur_dts'[pkt[u].stream] = cur_dts[pkt[u].stream]
          BY <3>2, <3>4, <3>5, <4>2 DEF TypeOK
        <5> QED
          BY <3>4, <3>5, <4>2, <5>1
      <4> QED
        BY <4>1, <4>2
    <3> QED
      BY <2>1, <3>2, <3>3, <3>5
  <2> QED
    BY <2>2, <2>3
<1>3. ASSUME NEW t \in Thread, Queue(t) PROVE Accepted'
  <2> DEFINE p == pkt[t]
  <2>1. ASSUME NEW u \in Thread, call'[u] = "queue"
        PROVE  u # t /\ call[u] = "queue" /\ pkt'[u] = pkt[u]
               /\ pkt[u].stream \in Stream /\ pkt[u].stream # p.stream
    BY <1>3, <2>1, OneWriter DEF Queue, Goto, TypeOK, Packet
  <2>2. ASSUME NEW s \in Stream, s # p.stream
        PROVE  packet_buffer'[s] = packet_buffer[s]
    BY <1>3, <2>2 DEF Queue, TypeOK
  <2>3. \A s \in Stream : Gone(s)' \subseteq Gone(s)
    <3>1. UNCHANGED <<held, out>> /\ \A u \in Thread : call'[u] = "write" => call[u] = "write"
      BY <1>3 DEF Queue, Goto, TypeOK
    <3> QED
      BY <3>1, GoneKept
  <2> QED
    BY <1>3, <2>1, <2>2, <2>3 DEF Queue
<1>4. ASSUME NEW t \in Thread, Drain(t) PROVE Accepted'
  <2>1. PICK s \in Stream :
          /\ packet_buffer[s] # << >> /\ cur_dts' = cur_dts /\ pkt' = pkt
          /\ \A u \in Stream \ {s} : packet_buffer'[u] = packet_buffer[u]
                                     /\ Gone(u)' \subseteq Gone(u)
          /\ packet_buffer'[s] = Tail(packet_buffer[s])
          /\ Gone(s)' \subseteq Gone(s) \cup {Head(packet_buffer[s])}
    BY <1>4, GoneTaken
  <2>2. Below(packet_buffer[s], cur_dts[s])
          => /\ Below(Tail(packet_buffer[s]), cur_dts[s])
             /\ Head(packet_buffer[s]) > 0 => Head(packet_buffer[s]) < cur_dts[s]
    BY <2>1, QueueType, Removed DEF Ordered
  <2>3. ASSUME NEW u \in Thread, call'[u] = "queue"
        PROVE  call[u] = "queue" /\ pkt[u].stream \in Stream
    BY <1>4, <2>3 DEF Drain, Goto, TypeOK, Packet
  <2> QED
    BY <2>1, <2>2, <2>3
<1>5. ASSUME NEW t \in Thread, WritePacket(t) PROVE Accepted'
  <2>1. \A s \in Stream : Gone(s)' \subseteq Gone(s)
    BY <1>5, GoneWritten
  <2>2. ASSUME NEW u \in Thread, call'[u] = "queue"
        PROVE  call[u] = "queue" /\ pkt'[u] = pkt[u] /\ pkt[u].stream \in Stream
    BY <1>5, <2>2 DEF WritePacket, HandOver, Leave, Goto, TypeOK, Packet
  <2> QED
    BY <1>5, <2>1, <2>2 DEF WritePacket
<1> QED
  BY <1>1, <1>2, <1>3, <1>4, <1>5, OtherSteps

\* Only the encoder's existence allows two threads behind the header.
LEMMA TwoWriters ==
  ASSUME TypeOK, Turns, NEW t \in Thread, NEW u \in Thread, t # u,
         call[t] # "idle", call[u] # "idle"
  PROVE  video_enc_ctx
BY DEF Turns, Quiet, Thread

\* A thread alone in the queue.
LEMMA AloneStep ==
  ASSUME TypeOK, Turns, Ordered, Alone, [Next]_vars
  PROVE  Alone'
<1> USE DEF Alone
<1>1. ASSUME UNCHANGED <<held, out, overlapped>>, video_enc_ctx => video_enc_ctx',
             \A u \in Thread : /\ call'[u] \in InWriter => call[u] \in InWriter
                               /\ call'[u] = "write" => call[u] = "write"
      PROVE  Alone'
  BY <1>1
<1>2. ASSUME NEW s \in Stream, NEW d \in Dts, Copy(s, d) PROVE Alone'
  BY <1>1, <1>2 DEF Copy, Goto, outputVars, queueVars, TypeOK, InWriter
<1>3. ASSUME NEW t \in Thread, NEW d \in Dts, Encode(t, d) PROVE Alone'
  BY <1>1, <1>3 DEF Encode, Goto, outputVars, queueVars, TypeOK, InWriter
<1>4. ASSUME NEW t \in Thread, CheckHeader(t) PROVE Alone'
  BY <1>1, <1>4 DEF CheckHeader, Goto, outputVars, queueVars, TypeOK, InWriter
<1>5. ASSUME NEW t \in Thread, StartHeader(t) PROVE Alone'
  BY <1>1, <1>5 DEF StartHeader, Goto, GiveUp, Leave, outputVars, queueVars, TypeOK, InWriter
<1>6. ASSUME NEW t \in Thread, InitMuxer(t) PROVE Alone'
  BY <1>1, <1>6 DEF InitMuxer, Goto, GiveUp, Leave, outputVars, queueVars, TypeOK, InWriter
<1>7. ASSUME NEW t \in Thread, WriteHeader(t) PROVE Alone'
  BY <1>1, <1>7 DEF WriteHeader, Goto, GiveUp, Leave, outputVars, queueVars, TypeOK, InWriter
<1>8. ASSUME NEW t \in Thread, MarkHeader(t) PROVE Alone'
  BY <1>1, <1>8 DEF MarkHeader, Goto, GiveUp, Leave, queueVars, TypeOK, InWriter
<1>9. ASSUME NEW t \in Thread, Stamp(t) PROVE Alone'
  <2>1. CASE Refused(pkt[t])
    BY <1>1, <1>9, <2>1 DEF Stamp, Goto, Leave, outputVars, TypeOK, InWriter
  <2>2. CASE ~Refused(pkt[t])
    <3>1. call[t] = "stamp" /\ call' = [call EXCEPT ![t] = "queue"]
          /\ overlapped' = (overlapped \/ Others(t))
          /\ UNCHANGED <<held, out, video_enc_ctx>>
      BY <1>9, <2>2 DEF Stamp, Enter, Goto, outputVars
    <3>2. Others(t) => video_enc_ctx
      BY <3>1, TwoWriters DEF Others, InWriter
    <3>3. \A u \in Thread \ {t} : call'[u] = call[u]
      BY <3>1 DEF TypeOK
    <3>4. call'[t] # "write"
      BY <3>1 DEF TypeOK
    <3> QED
      BY <3>1, <3>2, <3>3, <3>4 DEF Others
  <2> QED
    BY <2>1, <2>2
<1>10. ASSUME NEW t \in Thread, Queue(t) PROVE Alone'
  BY <1>1, <1>10 DEF Queue, Goto, outputVars, TypeOK, InWriter
<1>11. ASSUME NEW t \in Thread, Drain(t) PROVE Alone'
  <2>1. PICK s \in Waiting :
          held' = [held EXCEPT ![t] = [stream |-> s, dts |-> Head(packet_buffer[s])]]
    BY <1>11 DEF Drain
  <2>2. call[t] = "drain" /\ call' = [call EXCEPT ![t] = "write"]
        /\ UNCHANGED <<out, overlapped, video_enc_ctx>>
    BY <1>11 DEF Drain, Goto, outputVars
  <2>3. \A u \in Thread \ {t} : call'[u] = call[u] /\ held'[u] = held[u]
    BY <2>1, <2>2 DEF TypeOK
  <2>4. held'[t].stream = s /\ held'[t].dts = Head(packet_buffer[s])
    BY <2>1 DEF TypeOK
  <2>5. out[s] > 0 => Head(packet_buffer[s]) > out[s]
    <3>1. packet_buffer[s] \in Seq(Dts) /\ packet_buffer[s] # << >> /\ out[s] \in Int
          /\ Above(packet_buffer[s], out[s])
      BY QueueType DEF Waiting, Ordered, Gone
    <3> QED
      BY <3>1 DEF Above
  <2> QED
    BY <2>2, <2>3, <2>4, <2>5 DEF InWriter
<1>12. ASSUME NEW t \in Thread, WritePacket(t) PROVE Alone'
  <2>1. call[t] = "write" /\ call'[t] # "write" /\ video_enc_ctx' = video_enc_ctx
        /\ \A u \in Thread \ {t} : call'[u] = call[u] /\ held'[u] = held[u]
    BY <1>12 DEF WritePacket, HandOver, Goto, Leave, outputVars, TypeOK
  <2>2. \/ overlapped' = overlapped
        \/ overlapped' = (overlapped /\ Others(t)) /\ call'[t] = "idle"
    BY <1>12 DEF WritePacket, Exit, Goto, Leave, TypeOK
  <2>3. CASE overlapped' = overlapped
    BY <2>1, <2>3 DEF InWriter
  <2>4. CASE overlapped' = (overlapped /\ Others(t)) /\ call'[t] = "idle"
    BY <2>1, <2>4 DEF Others, InWriter
  <2> QED
    BY <2>2, <2>3, <2>4
<1>13. ASSUME NEW t \in Thread, Drained(t) PROVE Alone'
  <2>1. call[t] = "drain" /\ call'[t] = "idle" /\ UNCHANGED <<held, out, video_enc_ctx>>
        /\ overlapped' = (overlapped /\ Others(t))
        /\ \A u \in Thread \ {t} : call'[u] = call[u]
    BY <1>13 DEF Drained, Return, Exit, Goto, Leave, TypeOK
  <2> QED
    BY <2>1 DEF Others, InWriter
<1>14. ASSUME PrepareVideoEncoder \/ Quit \/ CloseOutput \/ UNCHANGED vars PROVE Alone'
  BY <1>1, <1>14 DEF PrepareVideoEncoder, Quit, CloseOutput, vars, outputVars, queueVars
<1>15. ASSUME FlushEnds PROVE Alone'
  <2>1. call["read"] = "idle" /\ call["video"] = "idle"
        /\ UNCHANGED <<held, out, overlapped, video_enc_ctx>>
        /\ call'["main"] # "write"
        /\ \A u \in Thread \ {"main"} : call'[u] = call[u]
    BY <1>15 DEF FlushEnds, Goto, outputVars, queueVars, Turns, Quiet, TypeOK
  <2> QED
    BY <2>1 DEF Thread, InWriter
<1> QED
  BY <1>2, <1>3, <1>4, <1>5, <1>6, <1>7, <1>8, <1>9, <1>10, <1>11, <1>12, <1>13, <1>14, <1>15
     DEF Next

-----------------------------------------------------------------------------
(* The theorems.                                                            *)

\* The invariant holds at the start.
LEMMA InitIInv == Init => IInv
<1> SUFFICES ASSUME Init PROVE IInv
  OBVIOUS
<1>1. TypeOK
  <2>1. call \in [Thread -> Place] /\ pkt \in [Thread -> Packet] /\ held \in [Thread -> Packet]
    BY RestType DEF Init
  <2>2. nb_interleaved_streams \in 0..MaxCounted /\ open \in Int
    BY DEF Init
  <2>3. packet_buffer \in [Stream -> Seq(Dts)]
    BY DEF Init
  <2> QED
    BY <2>1, <2>2, <2>3 DEF Init, TypeOK
<1>2. Turns /\ Stamped
  BY DEF Init, Turns, Stamped, Quiet, NoPacket, Thread, InHeader
<1>3. Unattempted
  BY DEF Init, Unattempted
<1>4. Header
  BY DEF Init, Header, Held, Initialising, InHeader
<1>5. Draining
  BY DEF Init, Draining
<1>6. Ordered /\ Accepted
  <2>1. \A s \in Stream : packet_buffer[s] = << >> /\ Gone(s) = {NoDts}
    BY DEF Init, Gone
  <2> QED
    BY <2>1 DEF Init, Ordered, Accepted, Increasing, Above, UpTo, NoDts
<1>7. Alone
  BY DEF Init, Alone, InWriter
<1> QED
  BY <1>1, <1>2, <1>3, <1>4, <1>5, <1>6, <1>7 DEF IInv

\* The inductive invariant holds throughout.
THEOREM Invariant == Spec => []IInv
<1>1. IInv /\ [Next]_vars => IInv'
  <2> SUFFICES ASSUME IInv, [Next]_vars PROVE IInv'
    OBVIOUS
  <2>1. TypeOK'
    BY TypeStep
  <2>2. Turns' /\ Stamped' /\ Unattempted'
    BY TurnsStep, StampedStep, UnattemptedStep DEF IInv
  <2>3. Header' /\ Draining'
    BY HeaderStep, DrainingStep DEF IInv
  <2>4. Ordered' /\ Accepted' /\ Alone'
    BY OrderedStep, AcceptedStep, AloneStep DEF IInv
  <2> QED
    BY <2>1, <2>2, <2>3, <2>4 DEF IInv
<1> QED
  BY <1>1, InitIInv, PTL DEF Spec

(***************************************************************************)
(* Type correctness, whatever the bounds: in particular the stamp that a   *)
(* copied packet gets is one of the input's, and what is put into mux.c's  *)
(* queue is stamped.                                                       *)
(***************************************************************************)
THEOREM TypeCorrect == Spec => []TypeOK
<1>1. IInv => TypeOK
  BY DEF IInv
<1> QED
  BY <1>1, Invariant, PTL

(***************************************************************************)
(* OutputState.last_dts is never set: output_write_packet_copy reads the   *)
(* stamp from a packet that av_interleaved_write_frame has blanked.  The   *)
(* correction of stamps that go back (ffplay.c:733) is dead code.          *)
(***************************************************************************)
THEOREM NeverTracked == Spec => [](last_dts = [s \in Stream |-> NoDts])
<1>1. IInv => last_dts = [s \in Stream |-> NoDts]
  BY DEF IInv, Stamped
<1> QED
  BY <1>1, Invariant, PTL

(***************************************************************************)
(* Without the lock the muxer is still initialised and torn down in pairs, *)
(* unless an encoder exists and both threads write the header at once.     *)
(***************************************************************************)
THEOREM MuxerKept == Spec => []MuxerIntact
<1>1. IInv => MuxerIntact
  BY DEF IInv, Header, MuxerIntact
<1> QED
  BY <1>1, Invariant, PTL

(***************************************************************************)
(* If the first header was accepted and no packet failed, mux.c's queue    *)
(* never holds packets of both streams when the threads are at rest.       *)
(***************************************************************************)
THEOREM QueueDrained == Spec => []NothingHeldBack
<1>1. IInv => NothingHeldBack
  BY DEF IInv, Draining, NothingHeldBack
<1> QED
  BY <1>1, Invariant, PTL

(***************************************************************************)
(* What a thread hands to the muxer is above the stream's last positive    *)
(* stamp there, across the change from copying to encoding and however     *)
(* long packets are queued, unless another thread has been in the queue    *)
(* since this one came; and for that there must be an encoder.             *)
(***************************************************************************)
THEOREM StampsInOrder == Spec => []WritesIncrease
<1>1. IInv => WritesIncrease
  BY DEF IInv, Alone, WritesIncrease
<1> QED
  BY <1>1, Invariant, PTL

(***************************************************************************)
(* As long as the player only copies, the output is in order: the missing  *)
(* lock is not missed before there is an encoder.                          *)
(***************************************************************************)
THEOREM CopiesInOrder ==
  Spec => [][video_enc_ctx \/ \A s \in Stream : out[s] > 0 => out'[s] >= out[s]]_vars
<1> DEFINE Rises == video_enc_ctx \/ \A s \in Stream : out[s] > 0 => out'[s] >= out[s]
<1>1. IInv /\ [Next]_vars => [Rises]_vars
  <2> SUFFICES ASSUME IInv, Next, ~video_enc_ctx, NEW s \in Stream, out[s] > 0
               PROVE  out'[s] >= out[s]
    BY DEF vars
  <2>1. out[s] \in Int
    BY QueueType DEF IInv
  <2>2. ASSUME NEW t \in Thread, WritePacket(t) PROVE out'[s] >= out[s]
    <3>1. held[t].stream \in Stream /\ held[t].dts \in Int
      BY DEF IInv, TypeOK, Packet, Dts, NoDts
    <3>2. out[held[t].stream] > 0 => held[t].dts > out[held[t].stream]
      BY <2>2 DEF WritePacket, HandOver, IInv, Alone
    <3>3. out' = [out EXCEPT ![held[t].stream] = held[t].dts]
      BY <2>2 DEF WritePacket, HandOver
    <3> QED
      BY <2>1, <3>1, <3>2, <3>3 DEF IInv, TypeOK
  <2>3. ASSUME NEW t \in Thread, Stamp(t) \/ Queue(t) \/ Drain(t) PROVE out' = out
    BY <2>3 DEF Stamp, Queue, Drain
  <2> QED
    BY <2>1, <2>2, <2>3, OtherSteps DEF IInv
<1> QED
  BY <1>1, Invariant, PTL DEF Spec

-----------------------------------------------------------------------------
(* After a header that failed.                                              *)

NothingSent == out = [s \in Stream |-> NoDts]

\* Packets are stamped, queued and handed out only behind the header.
BehindHeader ==
  /\ \A t \in Thread : call[t] \in InWriter \cup {"stamp"} => header_written
  /\ ~header_written => NothingSent

\* Too many streams, without a race, mean that a header has failed.
Stalled ==
  ~raced /\ nb_interleaved_streams > 2 /\ main \notin {"trailer", "closed"}
    => NothingSent /\ \A t \in Thread : call[t] # "write"

\* Only the header's last step lets a packet on.
LEMMA BehindHeaderStep ==
  ASSUME IInv, BehindHeader, [Next]_vars
  PROVE  BehindHeader'
<1> USE DEF IInv, TypeOK, BehindHeader, NothingSent, Goto, Leave, GiveUp, outputVars,
            queueVars, InWriter
<1>1. ASSUME NEW s \in Stream, NEW d \in Dts, Copy(s, d) PROVE BehindHeader'
  BY <1>1 DEF Copy
<1>2. ASSUME PrepareVideoEncoder PROVE BehindHeader'
  BY <1>2 DEF PrepareVideoEncoder
<1>3. ASSUME NEW t \in Thread, NEW d \in Dts, Encode(t, d) PROVE BehindHeader'
  BY <1>3 DEF Encode
<1>4. ASSUME NEW t \in Thread, CheckHeader(t) PROVE BehindHeader'
  BY <1>4 DEF CheckHeader
<1>5. ASSUME NEW t \in Thread, StartHeader(t) PROVE BehindHeader'
  BY <1>5 DEF StartHeader
<1>6. ASSUME NEW t \in Thread, InitMuxer(t) PROVE BehindHeader'
  BY <1>6 DEF InitMuxer
<1>7. ASSUME NEW t \in Thread, WriteHeader(t) PROVE BehindHeader'
  BY <1>7 DEF WriteHeader
<1>8. ASSUME NEW t \in Thread, MarkHeader(t) PROVE BehindHeader'
  BY <1>8 DEF MarkHeader
<1>9. ASSUME NEW t \in Thread, Stamp(t) PROVE BehindHeader'
  BY <1>9 DEF Stamp, Enter
<1>10. ASSUME NEW t \in Thread, Queue(t) PROVE BehindHeader'
  BY <1>10 DEF Queue
<1>11. ASSUME NEW t \in Thread, Drain(t) PROVE BehindHeader'
  BY <1>11 DEF Drain
<1>12. ASSUME NEW t \in Thread, WritePacket(t) PROVE BehindHeader'
  BY <1>12 DEF WritePacket, HandOver
<1>13. ASSUME NEW t \in Thread, Drained(t) PROVE BehindHeader'
  BY <1>13 DEF Drained, Return
<1>14. ASSUME Quit PROVE BehindHeader'
  BY <1>14 DEF Quit
<1>15. ASSUME FlushEnds PROVE BehindHeader'
  BY <1>15 DEF FlushEnds
<1>16. ASSUME CloseOutput PROVE BehindHeader'
  BY <1>16 DEF CloseOutput
<1>17. CASE UNCHANGED vars
  BY <1>17 DEF vars
<1> QED
  BY <1>1, <1>2, <1>3, <1>4, <1>5, <1>6, <1>7, <1>8, <1>9, <1>10, <1>11, <1>12, <1>13,
     <1>14, <1>15, <1>16, <1>17 DEF Next

\* Nothing is handed out in between: init_muxer runs again only while the header
\* is missing, and from then on ff_interleave_packet_per_dts waits for streams
\* that do not exist.
LEMMA StalledStep ==
  ASSUME IInv, BehindHeader, Stalled, [Next]_vars
  PROVE  Stalled'
<1> USE DEF Stalled, NothingSent
<1>1. ASSUME NEW t \in Thread, StartHeader(t) PROVE Stalled'
  <2>1. call[t] \in InHeader /\ UNCHANGED <<out, raced>>
    BY <1>1 DEF StartHeader, InHeader, muxerVars, queueVars
  <2>2. ~raced => NothingSent /\ \A u \in Thread : call[u] # "write"
    BY <2>1 DEF IInv, Header, BehindHeader, InWriter
  <2>3. \A u \in Thread : call'[u] = "write" => call[u] = "write"
    BY <1>1 DEF StartHeader, Goto, GiveUp, Leave, IInv, TypeOK
  <2> QED
    BY <2>1, <2>2, <2>3
<1>2. ASSUME NEW t \in Thread, Drain(t) PROVE Stalled'
  <2>1. /\ main' = main /\ nb_interleaved_streams' = nb_interleaved_streams
        /\ main = "trailer" \/ nb_interleaved_streams = 2
    BY <1>2 DEF Drain, MayFlush, muxerVars
  <2> QED
    BY <2>1
<1>3. ASSUME NEW t \in Thread, WritePacket(t) PROVE Stalled'
  <2>1. call[t] = "write" /\ UNCHANGED <<main, nb_interleaved_streams, raced>>
    BY <1>3 DEF WritePacket, HandOver, muxerVars
  <2> QED
    BY <2>1
<1>4. ASSUME UNCHANGED <<out, nb_interleaved_streams>>, raced => raced',
             \A t \in Thread : call'[t] = "write" => call[t] = "write",
             main \in {"trailer", "closed"} => main' \in {"trailer", "closed"}
      PROVE  Stalled'
  BY <1>4
<1>5. ASSUME NEW t \in Thread,
             \/ CheckHeader(t) \/ InitMuxer(t) \/ WriteHeader(t) \/ MarkHeader(t)
             \/ Stamp(t) \/ Queue(t) \/ Drained(t) \/ \E d \in Dts : Encode(t, d)
      PROVE  Stalled'
  <2>1. UNCHANGED <<out, nb_interleaved_streams>>
    BY <1>5 DEF CheckHeader, InitMuxer, WriteHeader, MarkHeader, Stamp, Queue, Drained,
                Return, Encode, muxerVars, queueVars
  <2>2. raced => raced'
    <3>1. CASE CheckHeader(t)
      BY <3>1 DEF CheckHeader
    <3>2. CASE ~CheckHeader(t)
      BY <1>5, <3>2 DEF InitMuxer, WriteHeader, MarkHeader, Stamp, Queue, Drained,
                        Return, Encode, muxerVars
    <3> QED
      BY <3>1, <3>2
  <2>3. main \in {"trailer", "closed"} => main' \in {"trailer", "closed"}
    BY <1>5 DEF CheckHeader, InitMuxer, WriteHeader, MarkHeader, Stamp, Queue, Drained,
                Return, Encode, GiveUp
  <2>4. ASSUME NEW u \in Thread, call'[u] = "write" PROVE call[u] = "write"
    BY <1>5, <2>4 DEF CheckHeader, InitMuxer, WriteHeader, MarkHeader, Stamp, Enter, Queue,
                Drained, Return, Encode, GiveUp, Goto, Leave, IInv, TypeOK
  <2> QED
    BY <1>4, <2>1, <2>2, <2>3, <2>4
<1>6. ASSUME \/ PrepareVideoEncoder \/ Quit \/ FlushEnds \/ CloseOutput
             \/ UNCHANGED vars \/ \E s \in Stream, d \in Dts : Copy(s, d)
      PROVE  Stalled'
  <2>1. UNCHANGED <<out, nb_interleaved_streams, raced>>
    BY <1>6 DEF PrepareVideoEncoder, Quit, FlushEnds, CloseOutput, Copy, vars,
                muxerVars, queueVars
  <2>2. main \in {"trailer", "closed"} => main' \in {"trailer", "closed"}
    BY <1>6 DEF PrepareVideoEncoder, Quit, FlushEnds, CloseOutput, Copy, vars
  <2>3. ASSUME NEW u \in Thread, call'[u] = "write" PROVE call[u] = "write"
    BY <1>6, <2>3 DEF PrepareVideoEncoder, Quit, FlushEnds, CloseOutput, Copy, vars,
                Goto, IInv, TypeOK
  <2> QED
    BY <1>4, <2>1, <2>2, <2>3
<1> QED
  BY <1>1, <1>2, <1>3, <1>5, <1>6 DEF Next

(***************************************************************************)
(* If the header failed once after init_muxer had counted a stream (a      *)
(* relay that no receiver has selected in time, for instance) and was      *)
(* written by one thread at a time, no packet of any stream reaches the    *)
(* muxer before the trailer, although the header is written in the end:    *)
(* init_muxer counts the streams again.                                    *)
(***************************************************************************)
THEOREM RetrySendsNothing == Spec => []Stalled
<1>1. Init => BehindHeader /\ Stalled
  BY DEF Init, BehindHeader, Stalled, NothingSent, InWriter
<1>2. IInv /\ BehindHeader /\ Stalled /\ [Next]_vars => BehindHeader' /\ Stalled'
  BY BehindHeaderStep, StalledStep
<1> QED
  BY <1>1, <1>2, Invariant, PTL DEF Spec
=============================================================================
