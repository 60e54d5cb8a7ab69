------------------------------- MODULE Capture -------------------------------
(***************************************************************************)
(* A drive recorded and played back.                                       *)
(*                                                                         *)
(* tools/record.py writes what LiveSource reads from the ECU to a capture  *)
(* file; tools/replay.py's ReplaySource plays it to the daemon.  Here the  *)
(* connection is a stream of bytes (s300d/protocol.py, read_packet): the   *)
(* ECU's packets arrive cut anywhere and two at a time, a connection may   *)
(* fail between two bytes, and the next may have another channel list.     *)
(* The recorder may be killed, which leaves a part of the file and perhaps *)
(* half a line.  While the file plays, the daemon's control thread may     *)
(* release, resume and close the source and change its scaling.            *)
(*                                                                         *)
(* A byte of a datalog packet is known by its packet, its channel and its  *)
(* place, so that a value is right when it is made of the bytes of one     *)
(* packet and one channel.  An 0x31 reply has one unit per channel here,   *)
(* for three bytes; the other two replies of a handshake, the timeouts and *)
(* the backoff are in LiveSource.                                          *)
(***************************************************************************)
EXTENDS Naturals, Sequences, Functions

CONSTANTS Size,          \* the size of each channel's value, by channel
          Lists,         \* the channel lists the ECU may report
          HEADER_SIZE,
          Scalings,      \* the scaling_overrides the owner may save
          None,
          MaxConns, MaxPackets, MaxControls    \* bounds on the environment

ASSUME CaptureAssumption ==
  /\ HEADER_SIZE \in Nat \ {0} /\ Lists # {} /\ Scalings # {}
  /\ None \notin Scalings \cup Lists \cup [list : Lists, scaling : Scalings]
  /\ Size \in [DOMAIN Size -> Nat \ {0}]
  /\ \A l \in Lists : l \in Seq(DOMAIN Size) /\ IsInjective(l)
  /\ {MaxConns, MaxPackets, MaxControls} \subseteq Nat

VARIABLES
  phase,     \* "record" or "replay"
  \* the connection and LiveSource
  ecu,       \* the channel list of this connection
  asked,     \* the command whose reply is awaited: "ids" (0x31), "data" (0x35), or "none"
  wire,      \* the bytes in flight
  buf,       \* LiveSource._buf
  channel_list,
  young,     \* no frame of this connection has been kept yet
  \* record()
  file,      \* the lines of the capture file
  written_list,
  \* ReplaySource
  loop, released, closed, state, scaling_overrides, table,
  at,        \* where frames() is: "top", "rec", "due", "end", or "died"
  pos,       \* the line it is at
  \* bounds and history
  conns, sent, controls,
  live,      \* the frames the recorder got
  out,       \* the frames of this pass of the replay
  used       \* the scaling the last frame was decoded with

recorder == <<ecu, asked, wire, buf, channel_list, young, file, written_list, conns, sent, live>>
replayer == <<loop, released, closed, state, scaling_overrides, table, at, pos, controls, out, used>>
vars == <<phase, recorder, replayer>>

-----------------------------------------------------------------------------
(* Packets (s300d/protocol.py) and the offset table (s300d/channels.py). *)

HeaderByte(cmd, size, k) == [kind |-> "header", cmd |-> cmd, size |-> size, k |-> k]
IdUnit(c) == [kind |-> "id", c |-> c]
DataByte(n, l, c, k) == [kind |-> "data", n |-> n, list |-> l, c |-> c, k |-> k]

\* build_offset_table: where each channel's value begins.
Offset(l) ==
  LET pre[i \in 1..(Len(l) + 1)] == IF i = 1 THEN 0 ELSE pre[i - 1] + Size[l[i - 1]] IN pre
PacketSize(l) == Offset(l)[Len(l) + 1]

\* What the ECU puts in its n-th datalog packet.
Place(l, j) == CHOOSE i \in DOMAIN l : Offset(l)[i] < j /\ j <= Offset(l)[i + 1]
Data(n, l) ==
  [j \in 1..PacketSize(l) |-> DataByte(n, l, l[Place(l, j)], j - Offset(l)[Place(l, j)])]

Packet(cmd, payload) ==
  [k \in 1..HEADER_SIZE |-> HeaderByte(cmd, HEADER_SIZE + Len(payload), k)] \o payload
IdsPacket(l) == Packet("ids", [i \in DOMAIN l |-> IdUnit(l[i])])
DataPacket(n, l) == Packet("data", Data(n, l))

\* unpack_header: what the first bytes say.  Bytes that are not one header, in order, may
\* say anything, a bad protocol byte or size among it.
Bad == [cmd |-> "bad", size |-> 0]
Headers(b) ==
  IF b[1].kind = "header" /\ \A k \in 1..HEADER_SIZE : b[k] = [b[1] EXCEPT !.k = k]
  THEN {[cmd |-> b[1].cmd, size |-> b[1].size]}
  ELSE {Bad} \cup [cmd : {"ids", "data"}, size : HEADER_SIZE..(HEADER_SIZE + 3)]

\* parse_channel_ids
ParsedLists(payload) ==
  IF \A u \in Range(payload) : u.kind = "id"
  THEN {[i \in DOMAIN payload |-> payload[i].c]} ELSE Lists

\* decode_packet: unpack_from wants the table's size at least.
Decode(l, raw) ==
  [c \in Range(l) |-> LET i == CHOOSE i \in DOMAIN l : l[i] = c
                      IN  SubSeq(raw, Offset(l)[i] + 1, Offset(l)[i + 1])]
Decodes(l, raw) == Len(raw) >= PacketSize(l)

-----------------------------------------------------------------------------
Init ==
  /\ phase = "record" /\ ecu = None /\ asked = "none" /\ wire = <<>> /\ buf = <<>>
  /\ channel_list = None /\ young = TRUE /\ file = <<>> /\ written_list = None
  /\ loop \in BOOLEAN /\ released = FALSE /\ closed = FALSE /\ state = "DISCONNECTED"
  /\ scaling_overrides \in Scalings /\ table = None /\ at = "top" /\ pos = 0
  /\ conns = 0 /\ sent = 0 /\ controls = 0 /\ live = <<>> /\ out = <<>> /\ used = None

-----------------------------------------------------------------------------
(* Recording. *)

Recording == phase = "record" /\ UNCHANGED replayer
RecordOnly == Recording /\ phase' = phase

\* The ECU answers an 0x35 with a packet, or with nothing; a second packet may follow
\* unasked.  External.
Answers ==
  /\ sent' \in {sent, sent + 1, sent + 2} /\ sent' <= MaxPackets
  /\ wire' = CASE sent' = sent     -> wire
               [] sent' = sent + 1 -> wire \o DataPacket(sent', ecu)
               [] OTHER            -> wire \o DataPacket(sent + 1, ecu) \o DataPacket(sent', ecu)

\* Its channels change in the middle of a connection, and its packet size with them: other
\* channels of the same size cannot be told from those of the handshake.
EcuChanges ==
  /\ RecordOnly /\ asked = "data"
  /\ \E l \in Lists \ {ecu} :
       (l = channel_list \/ PacketSize(l) # PacketSize(channel_list)) /\ ecu' = l
  /\ UNCHANGED <<asked, wire, buf, channel_list, young, file, written_list, conns, sent, live>>

\* _connect and the first two exchanges of _handshake, up to the 0x31 reply, which a
\* late datalog packet may precede.
Connect ==
  /\ RecordOnly /\ asked = "none" /\ conns < MaxConns /\ conns' = conns + 1
  /\ \E l \in Lists :
       /\ ecu' = l
       /\ \/ wire' = IdsPacket(l) /\ sent' = sent
          \/ sent < MaxPackets /\ sent' = sent + 1 /\ wire' = DataPacket(sent', l) \o IdsPacket(l)
  /\ asked' = "ids" /\ young' = TRUE
  /\ UNCHANGED <<buf, channel_list, file, written_list, live>>

\* _fill still wants bytes: of a header, or of the packet it announces.
Filling ==
  Len(buf) >= HEADER_SIZE => \E h \in Headers(buf) : h # Bad /\ Len(buf) < h.size

\* recv(4096) returns what is there of the stream, cut anywhere.
Receive ==
  /\ RecordOnly /\ asked # "none" /\ Filling
  /\ \E n \in 1..Len(wire) :
       buf' = buf \o SubSeq(wire, 1, n) /\ wire' = SubSeq(wire, n + 1, Len(wire))
  /\ UNCHANGED <<ecu, asked, channel_list, young, file, written_list, conns, sent, live>>

\* Mutant: the buffer is not cleared.
Teardown_KeepsBuffer ==
  /\ asked' = "none" /\ ecu' = None /\ wire' = <<>> /\ buf' = buf

\* _teardown: the socket is closed, the buffer dropped.
Teardown == asked' = "none" /\ ecu' = None /\ wire' = <<>> /\ buf' = <<>>

\* recv times out, fails or returns nothing.
LinkFails ==
  /\ RecordOnly /\ asked # "none" /\ Filling /\ Teardown
  /\ UNCHANGED <<channel_list, young, file, written_list, conns, sent, live>>

\* del buf[:total_size]
Rest(h) == SubSeq(buf, h.size + 1, Len(buf))
Payload(h) == SubSeq(buf, HEADER_SIZE + 1, h.size)
Whole(h) == h # Bad /\ Len(buf) >= h.size

\* A ProtocolError of read_packet, of _recv_reply or of the size check.
ProtocolError ==
  /\ RecordOnly /\ asked # "none" /\ Len(buf) >= HEADER_SIZE
  /\ \E h \in Headers(buf) :
       \/ h = Bad
       \/ Whole(h) /\ h.cmd # asked
       \/ Whole(h) /\ asked = "data" /\ Len(Payload(h)) # PacketSize(channel_list)
  /\ Teardown
  /\ UNCHANGED <<channel_list, young, file, written_list, conns, sent, live>>

\* The end of _handshake, and the first 0x35 of _stream.
Handshake ==
  /\ RecordOnly /\ asked = "ids" /\ Len(buf) >= HEADER_SIZE
  /\ \E h \in Headers(buf) :
       /\ Whole(h) /\ h.cmd = "ids"
       /\ channel_list' \in ParsedLists(Payload(h)) /\ buf' = Rest(h)
  /\ asked' = "data" /\ Answers
  /\ UNCHANGED <<ecu, young, file, written_list, conns, live>>

\* Mutant: the channels are written once, at the head of the file.
Lines_FirstList(raw) ==
  (IF written_list = None THEN <<[type |-> "channels", list |-> channel_list]>> ELSE <<>>)
    \o <<[type |-> "packet", raw |-> raw]>>

\* record(): the lines written for a frame.
Lines(raw) ==
  (IF channel_list # written_list THEN <<[type |-> "channels", list |-> channel_list]>> ELSE <<>>)
    \o <<[type |-> "packet", raw |-> raw]>>

\* One turn of _stream: the frame of a packet goes to record(), unless it is one of the
\* first 10 ms (DISCARD_WINDOW), and the next 0x35 is sent.
Frame ==
  /\ RecordOnly /\ asked = "data" /\ Len(buf) >= HEADER_SIZE
  /\ \E h \in Headers(buf) :
       /\ Whole(h) /\ h.cmd = "data" /\ Len(Payload(h)) = PacketSize(channel_list)
       /\ buf' = Rest(h)
       /\ \/ /\ young' = FALSE /\ live' = Append(live, Decode(channel_list, Payload(h)))
             /\ file' = file \o Lines(Payload(h)) /\ written_list' = channel_list
          \/ young /\ UNCHANGED <<young, live, file, written_list>>
  /\ Answers
  /\ UNCHANGED <<ecu, asked, channel_list, conns>>

\* The recorder stops, its time being over, or is killed: what the file has is a part of
\* what was written, which may end in half a line.
Torn == [type |-> "torn"]
StopRecording ==
  /\ Recording /\ phase' = "replay"
  /\ \/ file' = file
     \/ \E n \in 0..(Len(file) - 1) :
          file' \in {SubSeq(file, 1, n), Append(SubSeq(file, 1, n), Torn)}
  /\ asked' = "none" /\ ecu' = None /\ wire' = <<>> /\ buf' = <<>> /\ young' = TRUE
  /\ channel_list' = None /\ written_list' = None /\ conns' = 0 /\ sent' = 0
  /\ UNCHANGED live

-----------------------------------------------------------------------------
(* ReplaySource.frames(), on the source thread. *)

Replaying == phase = "replay" /\ phase' = phase /\ UNCHANGED recorder
FramesUnchanged == UNCHANGED <<loop, released, closed, scaling_overrides, controls>>

\* while not self._closed
Pass ==
  /\ Replaying /\ at = "top"
  /\ IF closed THEN at' = "end" /\ state' = "DISCONNECTED" /\ UNCHANGED <<pos, out>>
               ELSE at' = "rec" /\ state' = "HANDSHAKE" /\ pos' = 1 /\ out' = <<>>
  /\ FramesUnchanged /\ UNCHANGED <<table, used>>

\* The end of the file.
PassEnds ==
  /\ Replaying /\ at = "rec" /\ pos > Len(file)
  /\ IF loop THEN at' = "top" /\ state' = state ELSE at' = "end" /\ state' = "DISCONNECTED"
  /\ FramesUnchanged /\ UNCHANGED <<pos, table, out, used>>

Reading == Replaying /\ at = "rec" /\ pos <= Len(file) /\ file[pos] # Torn

\* while self._released and not self._closed
Held ==
  /\ Reading /\ released /\ ~closed /\ state' = "DISCONNECTED"
  /\ FramesUnchanged /\ UNCHANGED <<at, pos, table, out, used>>

\* if self._closed: return
SeesClose ==
  /\ Reading /\ closed /\ at' = "end"
  /\ FramesUnchanged /\ UNCHANGED <<state, pos, table, out, used>>

\* Mutant: a table is not built again for the same channels.
NewTable_Kept(l) ==
  IF table # None /\ table.list = l THEN table ELSE [list |-> l, scaling |-> scaling_overrides]

NewTable(l) == [list |-> l, scaling |-> scaling_overrides]

ChannelsRecord ==
  /\ Reading /\ ~released /\ ~closed /\ file[pos].type = "channels"
  /\ table' = NewTable(file[pos].list) /\ state' = "STREAMING" /\ pos' = pos + 1
  /\ FramesUnchanged /\ UNCHANGED <<at, out, used>>

\* A packet: the thread sleeps until it is due.
PacketRecord ==
  /\ Reading /\ ~released /\ ~closed /\ file[pos].type = "packet" /\ table # None
  /\ at' = "due" /\ state' = "STREAMING"
  /\ FramesUnchanged /\ UNCHANGED <<pos, table, out, used>>

\* The frame is yielded, whatever was asked of the source during the sleep.
Due ==
  /\ Replaying /\ at = "due" /\ Decodes(table.list, file[pos].raw)
  /\ out' = Append(out, Decode(table.list, file[pos].raw)) /\ used' = table.scaling
  /\ at' = "rec" /\ pos' = pos + 1
  /\ FramesUnchanged /\ UNCHANGED <<state, table>>

\* Half a line (json.loads) ends the source thread, as would a packet with no channels
\* before it, or one too short for its table; the state stays.
Raises ==
  /\ Replaying /\ at' = "died"
  /\ \/ at = "rec" /\ pos <= Len(file) /\ file[pos] = Torn
     \/ at = "due" /\ ~Decodes(table.list, file[pos].raw)
     \/ at = "rec" /\ pos <= Len(file) /\ file[pos].type = "packet" /\ table = None
  /\ FramesUnchanged /\ UNCHANGED <<state, pos, table, out, used>>

-----------------------------------------------------------------------------
(* The control thread: the commands, Hub.stop, and Hub.reload. *)

Control ==
  /\ Replaying /\ controls < MaxControls /\ controls' = controls + 1
  /\ UNCHANGED <<loop, table, at, pos, out, used>>

Release ==
  /\ Control /\ released' = TRUE /\ state' = "DISCONNECTED"
  /\ UNCHANGED <<closed, scaling_overrides>>

Resume == Control /\ released' = FALSE /\ UNCHANGED <<closed, state, scaling_overrides>>

Close ==
  /\ Control /\ closed' = TRUE /\ state' = "DISCONNECTED"
  /\ UNCHANGED <<released, scaling_overrides>>

\* Other scaling: the source is released and resumed.
ReloadScaling ==
  /\ Control /\ \E s \in Scalings \ {scaling_overrides} : scaling_overrides' = s
  /\ released' = FALSE /\ state' = "DISCONNECTED" /\ UNCHANGED closed

-----------------------------------------------------------------------------
Source == Pass \/ PassEnds \/ ChannelsRecord \/ PacketRecord \/ Due

Next ==
  \/ EcuChanges \/ Connect \/ Receive \/ LinkFails \/ ProtocolError \/ Handshake \/ Frame \/ StopRecording
  \/ Source \/ Held \/ SeesClose \/ Raises
  \/ Release \/ Resume \/ Close \/ ReloadScaling

\* The source thread runs on, and a recording ends.
Spec == Init /\ [][Next]_vars /\ WF_vars(Source) /\ WF_vars(StopRecording)

-----------------------------------------------------------------------------
\* The values of the n-th packet, under one of the channel lists.
TrueValues(n) ==
  {[c \in Range(l) |-> [k \in 1..Size[c] |-> DataByte(n, l, c, k)]] : l \in Lists}

(* Every frame the recorder gets has its values right: each made of the    *)
(* bytes of its own channel and all of one packet, no packet twice or out  *)
(* of order, however the stream was cut and whichever connections failed   *)
(* (read_packet's buffer, _teardown).                                      *)
FramesWhole ==
  \A i \in DOMAIN live :
    \E n \in 1..MaxPackets :
      /\ live[i] \in TrueValues(n)
      /\ \A j \in 1..(i - 1) : \E m \in 1..(n - 1) : live[j] \in TrueValues(m)

(* A replay gives the daemon what the recorder saw: its frames are those,  *)
(* in their order and with the channels each was recorded under, up to     *)
(* where the file ends (record, ReplaySource.frames).                      *)
ReplayFaithful ==
  /\ FramesWhole
  /\ Len(out) <= Len(live) /\ \A i \in DOMAIN out : out[i] = live[i]

\* A capture keeps the promise of Drive: every step of the recording and of the replay is
\* one of its steps, or none.
Contract == INSTANCE Drive WITH
  FramesOf <- [n \in 1..MaxPackets |-> TrueValues(n)],
  recording <- phase = "record", frames <- live, watched <- out
ImplementsDrive == Contract!Spec

Playable == \E i \in DOMAIN file : file[i].type = "packet"
Damaged == \E i \in DOMAIN file : file[i] = Torn

(* A looping replay that is left alone ends up decoding with the scaling   *)
(* saved last: the table is built only at a channels record, so that a     *)
(* calibration change waits for the next pass (Hub.reload, frames).        *)
ScalingCatchesUp ==
  <>[](phase = "replay" /\ (loop /\ ~closed /\ ~released /\ Playable /\ ~Damaged
                              => used = scaling_overrides))
=============================================================================
