--------------------------- MODULE CollectorClient ---------------------------
(***************************************************************************)
(* A client of the alarm collector and the bytes it sends: the stream      *)
(* decoder (src/monitor/alarm_stream_decoder.cpp), the checks of a frame   *)
(* (alarm_protocol.cpp), and what a round of poll() does for the client    *)
(* (read_client, write_client and poll_once of                             *)
(* reliable_alarm_collector.cpp). ReliableAlarm exchanges whole frames;    *)
(* here they arrive in fragments of any size, and replies leave so.        *)
(*                                                                         *)
(* The k-th byte of the i-th frame is <<i, k>>. What a processed alarm     *)
(* does to the spool and the store is in ReliableAlarm.                    *)
(***************************************************************************)
EXTENDS Integers, Sequences, SequencesExt, FiniteSetsExt

CONSTANTS
    ALARM_HEADER_SIZE,              \* bytes of a header, 48 in the code
    MAX_FRAMES_PER_CLIENT_ROUND,    \* 8 in the code
    Streams                         \* what a peer may send: sequences of frames

(* A frame has its type, its number of payload bytes, and what is wrong    *)
(* with it: the header does not pass alarm_frame_size(), the checksum does *)
(* not agree, or the payload is no record. *)
Types == {"ALARM", "PING", "ACK", "PONG"}
Flaws == {"none", "header", "checksum", "payload"}
Frames == [type : Types, payload : Nat, flaw : Flaws]

ASSUME StreamAssumption ==
    /\ ALARM_HEADER_SIZE \in Nat \ {0} /\ MAX_FRAMES_PER_CLIENT_ROUND \in Nat \ {0}
    /\ \A s \in Streams : s \in Seq(Frames)
    /\ \A s \in Streams : \A i \in DOMAIN s : s[i].payload = 0 <=> s[i].type # "ALARM"

VARIABLES
    stream,   \* the frames the peer has for us
    client,   \* the Client, and both directions of its socket
    faults    \* a failure outside the stream ended the client

streamVars == <<stream, client, faults>>

FrameSize(i) == ALARM_HEADER_SIZE + stream[i].payload
FrameBytes(i) == [k \in 1..FrameSize(i) |-> <<i, k>>]

(* Variant: a buffer for one header more. *)
CLIENT_READ_CHUNK_Larger == ALARM_HEADER_SIZE * (MAX_FRAMES_PER_CLIENT_ROUND + 1)

CLIENT_READ_CHUNK == ALARM_HEADER_SIZE * MAX_FRAMES_PER_CLIENT_ROUND

(* accept_clients() of a peer that will send the bytes of its frames *)
StreamInit ==
    /\ stream \in Streams /\ faults = FALSE
    /\ client = [left |-> FlattenSeq([i \in DOMAIN stream |-> FrameBytes(i)]), eof |-> FALSE,
                 buffer |-> <<>>, expected |-> 0, failed |-> FALSE,
                 served |-> <<>>, writes |-> <<>>, offset |-> 0, replies |-> <<>>,
                 read_closed |-> FALSE, close |-> FALSE]

-----------------------------------------------------------------------------
(* alarm_frame_size() of a header: zero when it is refused, as one is that *)
(* does not start where a frame does *)
alarm_frame_size(b) ==
    LET i == b[1][1]
    IN  IF /\ SubSeq(b, 1, ALARM_HEADER_SIZE) = SubSeq(FrameBytes(i), 1, ALARM_HEADER_SIZE)
           /\ stream[i].flaw # "header"
          THEN FrameSize(i) ELSE 0

(* decode_alarm_frame() succeeds *)
Decodes(b) == b = FrameBytes(b[1][1]) /\ stream[b[1][1]].flaw # "checksum"

(* The decoder d moves as many bytes of its input into the buffer as are   *)
(* missing to a size. *)
Fill(d, size) ==
    LET take == Min({size - Len(d.buffer), Len(d.input)})
    IN  [d EXCEPT !.buffer = @ \o SubSeq(d.input, 1, take),
                  !.input = SubSeq(@, take + 1, Len(@))]

(* fail_protocol() *)
fail_protocol(d) == [d EXCEPT !.buffer = <<>>, !.expected = 0, !.failed = TRUE]

FrameDone(d) ==
    [d EXCEPT !.frames = Append(@, d.buffer[1][1]), !.buffer = <<>>, !.expected = 0]

(* The rest of a frame whose size is known. *)
Body(d) ==
    LET b == Fill(d, d.expected)
    IN  CASE Len(b.buffer) < b.expected -> b
          [] Len(b.buffer) = b.expected /\ ~Decodes(b.buffer) -> fail_protocol(b)
          [] OTHER -> FrameDone(b)

(* The header, and what follows it. *)
Header(d) ==
    LET h == Fill(d, ALARM_HEADER_SIZE)
        size == alarm_frame_size(h.buffer)
    IN  CASE Len(h.buffer) < ALARM_HEADER_SIZE -> h
          [] Len(h.buffer) = ALARM_HEADER_SIZE /\ size = 0 -> fail_protocol(h)
          [] OTHER -> Body([h EXCEPT !.expected = size])

(* feed(): frame after frame until the input is used up *)
RECURSIVE feed(_)
feed(d) ==
    IF d.input = <<>> \/ d.failed THEN d
      ELSE feed(IF d.expected = 0 THEN Header(d) ELSE Body(d))

-----------------------------------------------------------------------------
(* process_frame() answers the frame; a control frame that is an answer is *)
(* a protocol error *)
Answered(i) ==
    stream[i].type = "PING" \/ (stream[i].type = "ALARM" /\ stream[i].flaw # "payload")

(* process_frame() and queue_control() for the first n of the frames; the  *)
(* client is closed at the first that fails *)
Serve(c, frames, n) ==
    [c EXCEPT !.served = @ \o SubSeq(frames, 1, n), !.writes = @ \o SubSeq(frames, 1, n),
              !.close = n < Len(frames)]

(* The frames before the first that process_frame() refuses. *)
Answerable(frames) ==
    Max({n \in 0..Len(frames) : \A m \in 1..n : Answered(frames[m])})

(* recv() has returned n bytes to read_client(): what the decoder makes of *)
(* them *)
Decoded(c, n) ==
    feed([buffer |-> c.buffer, expected |-> c.expected, failed |-> c.failed,
          input |-> SubSeq(c.left, 1, n), frames |-> <<>>])

Keep(c, d, n) ==
    [c EXCEPT !.left = SubSeq(@, n + 1, Len(@)),
              !.buffer = d.buffer, !.expected = d.expected, !.failed = d.failed]

(* read_client() with n bytes *)
Received(c, n) ==
    LET d == Decoded(c, n)
    IN  IF d.failed \/ Len(d.frames) > MAX_FRAMES_PER_CLIENT_ROUND
          THEN [Keep(c, d, n) EXCEPT !.close = TRUE]
          ELSE Serve(Keep(c, d, n), d.frames, Answerable(d.frames))

(* read_client() at the end of the stream: finish() fails in a frame *)
finish(c) ==
    IF c.buffer = <<>> THEN [c EXCEPT !.read_closed = TRUE]
      ELSE [c EXCEPT !.buffer = <<>>, !.expected = 0, !.failed = TRUE, !.close = TRUE]

(* The outcomes of read_client() *)
Reads(c) ==
    IF c.eof THEN {finish(c)}
      ELSE {Received(c, n) : n \in 1..Min({CLIENT_READ_CHUNK, Len(c.left)})} \cup {c}

(* write_client(): one send() of some bytes of the first reply, whose size *)
(* is that of a header *)
Sent(c, n) ==
    IF c.offset + n < ALARM_HEADER_SIZE THEN [c EXCEPT !.offset = @ + n]
      ELSE [c EXCEPT !.offset = 0, !.writes = Tail(@), !.replies = Append(@, Head(c.writes))]

Writes(c) ==
    IF c.close \/ client.writes = <<>> THEN {c}
      ELSE {Sent(c, n) : n \in 1..(ALARM_HEADER_SIZE - c.offset)} \cup {c}

(* poll_once() for this client: reads when readable, writes when there     *)
(* were replies before the poll, reads once more on POLLHUP, and closes a  *)
(* client that has sent and received everything *)
Round ==
    /\ ~client.close
    /\ \E r \in IF client.read_closed THEN {client} ELSE Reads(client) :
       \E w \in Writes(r) :
       \E h \in IF w.close \/ w.read_closed \/ ~w.eof THEN {w} ELSE {w} \cup Reads(w) :
          client' = [h EXCEPT !.close = @ \/ (h.read_closed /\ h.writes = <<>>)]
    /\ UNCHANGED <<stream, faults>>

(* The client is closed for another reason: a socket error, the idle       *)
(* timeout, no memory, or an alarm that could not be stored or ingested    *)
(* after some frames of the same input were processed. *)
ClientFails ==
    /\ ~client.close /\ faults' = TRUE
    /\ \/ client' = [client EXCEPT !.close = TRUE]
       \/ /\ ~client.eof /\ ~client.read_closed
          /\ \E n \in 1..Min({CLIENT_READ_CHUNK, Len(client.left)}) :
             LET d == Decoded(client, n)
             IN  /\ ~d.failed /\ Len(d.frames) <= MAX_FRAMES_PER_CLIENT_ROUND
                 /\ \E k \in 0..(Answerable(d.frames) - 1) :
                       client' = Serve(Keep(client, d, n), d.frames, k)
    /\ UNCHANGED stream

(* The peer sends no more, in the middle of a frame or not. *)
PeerFin ==
    /\ ~client.eof /\ ~client.close
    /\ client' = [client EXCEPT !.eof = TRUE]
    /\ UNCHANGED <<stream, faults>>

StreamNext == Round \/ ClientFails \/ PeerFin

StreamSpec == StreamInit /\ [][StreamNext]_streamVars

-----------------------------------------------------------------------------
(* However the bytes are cut on their way, the collector sees the frames   *)
(* the peer sent: each once, in order, none that is damaged, and all that  *)
(* have arrived; each is answered once and in order. Only a flawed frame   *)
(* or a truncated one, an orderly end after the last reply, or a failure   *)
(* outside the stream closes the client: a burst of small frames does not, *)
(* although read_client() gives up above its number of frames per round.   *)
FramesServed ==
    LET here == {i \in DOMAIN stream : <<i, FrameSize(i)>> \notin Range(client.left)}
        flawed == {i \in DOMAIN stream : stream[i].flaw # "none" \/ ~Answered(i)}
        headed == {i \in DOMAIN stream : <<i, ALARM_HEADER_SIZE>> \notin Range(client.left)}
    IN  /\ \A m \in DOMAIN client.served : client.served[m] = m /\ m \in here \ flawed
        /\ client.replies \o client.writes = client.served
        /\ ~client.close => Len(client.served) = Cardinality(here)
        /\ client.close /\ ~faults =>
             \/ flawed \cap headed # {}
             \/ client.eof /\ client.left # <<>> /\ Head(client.left)[2] # 1
             \/ client.eof /\ client.replies = client.served /\ Len(client.served) = Cardinality(here)
=============================================================================
