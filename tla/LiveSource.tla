----------------------------- MODULE LiveSource -----------------------------
(***************************************************************************)
(* The ECU connection of s300d/client.py: class LiveSource.                *)
(*                                                                         *)
(* Two threads share one LiveSource object.  The source thread             *)
(* (Hub._run) runs the frames() generator: connect, handshake, stream,     *)
(* tear down, back off, repeat.  The control thread (the asyncio loop)     *)
(* calls release(), resume(), close() and, for a changed scaling table,    *)
(* the release/resume bounce of Hub.reload.  No lock protects the object.  *)
(*                                                                         *)
(* A step is what one thread does between two points where CPython may     *)
(* run the other one: a call, a jump back, a blocking operation.  So the   *)
(* test and the assignment of _set_state are two steps (it logs in         *)
(* between), and so are the close() and the "_sock = None" of _teardown.   *)
(***************************************************************************)
EXTENDS Naturals

CONSTANTS Scalings,       \* the values scaling_overrides can take
          ChannelLists,   \* the channel lists the ECU can be set up with
          EcuModes,       \* "up", and what else the ECU can be: "keyOff", "gone"
          None            \* Python's None

State == {"DISCONNECTED", "CONNECTING", "HANDSHAKE", "STREAMING", "IGNITION_OFF", "ERROR"}

ASSUME LiveSourceAssumption ==
  /\ Scalings # {}
  /\ ChannelLists # {}
  /\ "up" \in EcuModes /\ EcuModes \subseteq {"up", "keyOff", "gone"}
  /\ None \notin State \cup [list : ChannelLists, scaling : Scalings]

\* The four read-only commands: 0x02, 0x30, 0x31 and 0x35.
Commands == {"DEVICE_INFO", "DATALOG_INFO", "CHANNEL_IDS", "PACKET"}

\* A decode table is known by the channel list and the scaling it is built from.
Tables == [list : ChannelLists, scaling : Scalings]

\* Delays in units of 0.5 s, the granularity of the schedule.
BACKOFF_INITIAL == 1
BACKOFF_CAP == 10
IGNITION_OFF_POLL == 20
Backoffs == {1, 2, 4, 8, BACKOFF_CAP, IGNITION_OFF_POLL}

VARIABLES
  \* attributes of the LiveSource object that both threads use
  state,          \* state
  sock,           \* _sock is not None
  released,       \* _released
  closed,         \* _closed
  scaling,        \* scaling_overrides
  \* attributes and locals of the source thread
  pc,             \* where the source thread is
  want,           \* the argument of a _set_state call that has passed its test
  cmd,            \* the command being sent or answered
  built,          \* _handshake's local table
  table,          \* table, with the channel_list stored beside it
  backoff,        \* _backoff
  lastTerminal,   \* _last_terminal
  fate,           \* why frames() is being left: "live" while it is not
  \* the control thread
  op,             \* the call it is executing, "none" between calls
  cpc,            \* where in that call it is
  \* the ECU
  link,           \* the RFCOMM channel of the current connection is up
  ecu,            \* "up", "keyOff" (ignition off) or "gone" (no answer, garbage)
  ecuList,        \* the channel list it is set up with
  \* history
  reached         \* what the current attempt achieved: "none", "ignOff", "ready"

srcVars == <<pc, want, cmd, built, table, backoff, lastTerminal, fate, reached>>
ctlVars == <<op, cpc>>
ecuVars == <<ecu, ecuList>>
vars == <<state, sock, released, closed, scaling, srcVars, ctlVars, link, ecuVars>>

SourcePcs == {"top", "nap", "connect", "assign", "send", "recv", "wait", "build", "store",
              "loop", "yield", "pace", "except", "finally", "drop", "clear", "after",
              "sleep", "done"}
ControlPcs == {"idle", "closing", "release", "check", "drop", "test", "write", "resume"}

Flags == sock \in BOOLEAN /\ released \in BOOLEAN /\ closed \in BOOLEAN /\ link \in BOOLEAN

TypeOK ==
  /\ Flags
  /\ state \in State
  /\ scaling \in Scalings
  /\ pc \in SourcePcs
  /\ want \in State \cup {None}
  /\ cmd \in Commands
  /\ built \in Tables \cup {None}
  /\ table \in Tables \cup {None}
  /\ backoff \in Backoffs \cup {None}
  /\ lastTerminal \in {"IGNITION_OFF", "ERROR", None}
  /\ fate \in {"live", "died", "stopped"}
  /\ op \in {"none", "release", "reload", "stop"}
  /\ cpc \in ControlPcs
  /\ ecu \in EcuModes
  /\ ecuList \in ChannelLists
  /\ reached \in {"none", "ignOff", "ready"}

Init ==
  /\ state = "DISCONNECTED"
  /\ sock = FALSE /\ released = FALSE /\ closed = FALSE /\ link = FALSE
  /\ scaling \in Scalings
  /\ pc = "top" /\ want = None /\ cmd = "DEVICE_INFO"
  /\ built = None /\ table = None /\ backoff = None /\ lastTerminal = None
  /\ fate = "live" /\ reached = "none"
  /\ op = "none" /\ cpc = "idle"
  /\ ecu \in EcuModes
  /\ ecuList \in ChannelLists

-----------------------------------------------------------------------------
(* Helpers of the source thread. *)

\* Mutant: the doubling has no cap.
next_backoff_NoCap(current, last) ==
  IF last = "IGNITION_OFF" THEN IGNITION_OFF_POLL
  ELSE IF current = None THEN BACKOFF_INITIAL ELSE 2 * current

\* min(current * 2, cap); a delay past the cap (after an ignition poll) comes back to it.
next_backoff(current, last) ==
  IF last = "IGNITION_OFF" THEN IGNITION_OFF_POLL
  ELSE IF current = None THEN BACKOFF_INITIAL
  ELSE IF 2 * current >= BACKOFF_CAP THEN BACKOFF_CAP ELSE 2 * current

\* The source thread is at p, with no _set_state half done.
At(p) == pc = p /\ want = None

Goto(p) == pc' = p /\ want' = None

\* Calls _set_state(new) on the way to p: the assignment is a step of its own.
SetStateThen(new, p) == pc' = p /\ want' = IF state = new THEN None ELSE new

SharedUnchanged == UNCHANGED <<state, sock, released, closed, scaling, ctlVars, link, ecuVars>>
LocalsUnchanged == UNCHANGED <<cmd, built, table, backoff, lastTerminal, fate, reached>>

\* The three commonest steps: on to p, on to sending c, out of frames() because of f.
Move(p) == Goto(p) /\ LocalsUnchanged /\ SharedUnchanged
Issue(c) == /\ Goto("send") /\ cmd' = c /\ SharedUnchanged
            /\ UNCHANGED <<built, table, backoff, lastTerminal, fate, reached>>
Leave(f, p) == /\ Goto(p) /\ fate' = f /\ SharedUnchanged
               /\ UNCHANGED <<cmd, built, table, backoff, lastTerminal, reached>>

\* Mutant: reaching STREAMING does not clear _last_terminal.
terminal_Kept(new) == IF new \in {"ERROR", "IGNITION_OFF"} THEN new ELSE lastTerminal

\* _last_terminal once the state is new.
terminal(new) == IF new \in {"ERROR", "IGNITION_OFF"} THEN new
                 ELSE IF new = "STREAMING" THEN None ELSE lastTerminal

\* The second half of _set_state, after the log line.
WriteState ==
  /\ want # None
  /\ state' = want /\ want' = None /\ lastTerminal' = terminal(want)
  /\ UNCHANGED <<sock, released, closed, scaling, pc, cmd, built, table, backoff, fate,
                 reached, ctlVars, link, ecuVars>>

-----------------------------------------------------------------------------
(* frames(): the outer loop. *)

\* Mutant: release() ends the generator like close().
Finish_OnRelease == At("top") /\ (closed \/ released) /\ Leave("stopped", "done")

Finish == At("top") /\ closed /\ Leave("stopped", "done")

\* Mutant: the released nap does not look at _closed.
Nap_IgnoresClose == At("top") /\ released /\ Move("nap")

Nap == At("top") /\ ~closed /\ released /\ Move("nap")

\* Mutant: the outer loop does not look at _released.
Attempt_IgnoresRelease ==
  /\ At("top") /\ ~closed
  /\ SetStateThen("CONNECTING", "connect") /\ reached' = "none" /\ SharedUnchanged
  /\ UNCHANGED <<cmd, built, table, backoff, lastTerminal, fate>>

\* Into _connect: set_state(CONNECTING), then the blocking connect().
Attempt ==
  /\ At("top") /\ ~closed /\ ~released
  /\ SetStateThen("CONNECTING", "connect") /\ reached' = "none" /\ SharedUnchanged
  /\ UNCHANGED <<cmd, built, table, backoff, lastTerminal, fate>>

\* The end of a sleep: released nap, back-off, or the pacing of the polls.
Wake == \/ (At("nap") \/ At("sleep")) /\ Move("top")
        \/ At("pace") /\ Move("loop")

\* The except clause: any link error is ERROR, unless it was the ignition.
LinkError ==
  /\ At("except")
  /\ IF state = "IGNITION_OFF" THEN Goto("finally") ELSE SetStateThen("ERROR", "finally")
  /\ LocalsUnchanged /\ SharedUnchanged

\* After the finally clause: leave frames(), go round again, or back off first.
AfterTeardown ==
  /\ At("after")
  /\ \/ fate # "live" /\ Move("done")
     \/ fate = "live" /\ (closed \/ released) /\ Move("top")
     \/ /\ fate = "live" /\ ~closed /\ ~released
        /\ Goto("sleep") /\ backoff' = next_backoff(backoff, lastTerminal) /\ SharedUnchanged
        /\ UNCHANGED <<cmd, built, table, lastTerminal, fate, reached>>

\* Mutant: the finally clause only resets the state.
Finally_NoClose == At("finally") /\ Move("clear")

\* _teardown(DISCONNECTED), as the source thread runs it.
Finally ==
  /\ At("finally")
  /\ IF sock THEN link' = FALSE /\ Goto("drop") ELSE UNCHANGED link /\ Goto("clear")
  /\ LocalsUnchanged /\ UNCHANGED <<state, sock, released, closed, scaling, ctlVars, ecuVars>>

DropSocket ==
  /\ At("drop") /\ sock' = FALSE /\ Goto("clear")
  /\ LocalsUnchanged /\ UNCHANGED <<state, released, closed, scaling, ctlVars, link, ecuVars>>

ClearState ==
  /\ At("clear")
  /\ SetStateThen("DISCONNECTED", "after") /\ cmd' = "DEVICE_INFO" /\ SharedUnchanged
  /\ UNCHANGED <<built, table, backoff, lastTerminal, fate, reached>>

-----------------------------------------------------------------------------
(* _connect and _handshake. *)

\* connect() returns; the socket is still only a local variable.
ConnectOk ==
  /\ At("connect") /\ ecu # "gone" /\ link' = TRUE /\ Goto("assign")
  /\ LocalsUnchanged /\ UNCHANGED <<state, sock, released, closed, scaling, ctlVars, ecuVars>>

ConnectFails == At("connect") /\ ecu # "up" /\ Move("except")

\* self._sock = sock, then set_state(HANDSHAKE) at the head of _handshake.
AssignSocket ==
  /\ At("assign") /\ sock' = TRUE /\ SetStateThen("HANDSHAKE", "send")
  /\ LocalsUnchanged /\ UNCHANGED <<state, released, closed, scaling, ctlVars, link, ecuVars>>

\* _sock was set to None under the source thread's feet: an AttributeError, which
\* frames() does not catch.
NoSocket == (At("send") \/ At("recv")) /\ ~sock /\ Leave("died", "finally")

Send == At("send") /\ sock /\ link /\ Move("recv")

\* _recv_reply has loaded self._sock.recv and blocks in it.
Receive == At("recv") /\ sock /\ Move("wait")

\* A dead or closed socket, the 2 s timeout, a bad header or an unexpected reply.
IOFails == (At("wait") \/ (At("send") /\ sock)) /\ (~link \/ ecu # "up") /\ Move("except")

\* A well-formed reply to cmd arrives.
Replied(c) == At("wait") /\ cmd = c /\ link /\ ecu # "gone"

DeviceInfoOn == Replied("DEVICE_INFO") /\ ecu = "up" /\ Issue("DATALOG_INFO")

DeviceInfoOff ==
  /\ Replied("DEVICE_INFO") /\ ecu = "keyOff"
  /\ SetStateThen("IGNITION_OFF", "except") /\ reached' = "ignOff" /\ SharedUnchanged
  /\ UNCHANGED <<cmd, built, table, backoff, lastTerminal, fate>>

DatalogInfo == Replied("DATALOG_INFO") /\ Issue("CHANNEL_IDS")

ChannelIds == Replied("CHANNEL_IDS") /\ Move("build")

\* Mutant: the channels of the first connection are kept for the later ones.
offset_table_Cached == [list |-> IF table = None THEN ecuList ELSE table.list,
                        scaling |-> scaling]

offset_table == [list |-> ecuList, scaling |-> scaling]

\* build_offset_table(channel_list, self.scaling_overrides): reads the scaling now,
\* the table is stored later.
BuildTable ==
  /\ At("build") /\ built' = offset_table /\ Goto("store") /\ SharedUnchanged
  /\ UNCHANGED <<cmd, table, backoff, lastTerminal, fate, reached>>

\* The reply was garbage: counts or sizes disagree, or a size code is invalid.
BuildFails == At("build") /\ ecu # "up" /\ Move("except")

\* The handshake is complete: store the table, reset the back-off, enter _stream.
StoreTable ==
  /\ At("store")
  /\ table' = built /\ built' = None /\ backoff' = None /\ reached' = "ready"
  /\ SetStateThen("STREAMING", "loop") /\ SharedUnchanged
  /\ UNCHANGED <<cmd, lastTerminal, fate>>

-----------------------------------------------------------------------------
(* _stream. *)

\* Mutant: the stream loop relies on the closed socket alone.
Streamable_IgnoresRelease == sock /\ ~closed

Streamable == sock /\ ~closed /\ ~released

PollAgain == At("loop") /\ Streamable /\ Issue("PACKET")

StreamEnds == At("loop") /\ ~Streamable /\ Move("finally")

\* A datalog packet: yielded to Hub._run, or discarded in the first 10 ms.
Packet == Replied("PACKET") /\ (Move("yield") \/ Move("pace"))

\* Hub._stop is set, or about to be seen set, by the consumer of the frames.
Stopping == closed \/ cpc = "closing"

\* The consumer asks for the next frame, or breaks: GeneratorExit at the yield.
FrameTaken == At("yield") /\ ~Stopping /\ Move("pace")
ConsumerStops == At("yield") /\ Stopping /\ Leave("stopped", "finally")

SourceStep ==
  \/ WriteState
  \/ Finish \/ Nap \/ Attempt \/ Wake \/ LinkError \/ AfterTeardown
  \/ Finally \/ DropSocket \/ ClearState
  \/ ConnectOk \/ ConnectFails \/ AssignSocket
  \/ NoSocket \/ Send \/ Receive \/ IOFails
  \/ DeviceInfoOn \/ DeviceInfoOff \/ DatalogInfo \/ ChannelIds
  \/ BuildTable \/ BuildFails \/ StoreTable
  \/ PollAgain \/ StreamEnds \/ Packet \/ FrameTaken \/ ConsumerStops

-----------------------------------------------------------------------------
(* The control thread: calls from the asyncio loop. *)

ControlIdle == op = "none" /\ ~closed

\* Steps of the control thread leave these alone, and all but one or two of the rest.
OthersUnchanged == UNCHANGED <<srcVars, ecuVars>>

\* release(), from the SELECT button or the settings page.
Release ==
  /\ ControlIdle /\ released' = TRUE /\ op' = "release" /\ cpc' = "check"
  /\ OthersUnchanged /\ UNCHANGED <<state, sock, closed, scaling, link>>

Resume ==
  /\ ControlIdle /\ released' = FALSE
  /\ OthersUnchanged /\ UNCHANGED <<state, sock, closed, scaling, ctlVars, link>>

\* Mutant: the new scaling is stored, and the source is not bounced.
Reload_NoBounce ==
  /\ ControlIdle /\ scaling' \in Scalings \ {scaling}
  /\ OthersUnchanged /\ UNCHANGED <<state, sock, released, closed, ctlVars, link>>

\* Hub.reload with changed scaling_overrides: set them, then release() and resume().
Reload ==
  /\ ControlIdle /\ scaling' \in Scalings \ {scaling} /\ op' = "reload" /\ cpc' = "release"
  /\ OthersUnchanged /\ UNCHANGED <<state, sock, released, closed, link>>

ReloadRelease ==
  /\ cpc = "release" /\ released' = TRUE /\ cpc' = "check"
  /\ OthersUnchanged /\ UNCHANGED <<state, sock, closed, scaling, op, link>>

ReloadResume ==
  /\ cpc = "resume" /\ released' = FALSE /\ op' = "none" /\ cpc' = "idle"
  /\ OthersUnchanged /\ UNCHANGED <<state, sock, closed, scaling, link>>

\* Hub.stop: _stop is set first, then source.close().
Stop ==
  /\ ControlIdle /\ op' = "stop" /\ cpc' = "closing"
  /\ OthersUnchanged /\ UNCHANGED <<state, sock, released, closed, scaling, link>>

Close ==
  /\ cpc = "closing" /\ closed' = TRUE /\ cpc' = "check"
  /\ OthersUnchanged /\ UNCHANGED <<state, sock, released, scaling, op, link>>

\* Mutant: the control thread forgets to close the socket it drops.
CtlTeardown_NoClose ==
  /\ cpc = "check" /\ cpc' = IF sock THEN "drop" ELSE "test"
  /\ OthersUnchanged /\ UNCHANGED <<state, sock, released, closed, scaling, op, link>>

\* _teardown(DISCONNECTED), as the control thread runs it.
CtlTeardown ==
  /\ cpc = "check"
  /\ IF sock THEN link' = FALSE /\ cpc' = "drop" ELSE UNCHANGED link /\ cpc' = "test"
  /\ OthersUnchanged /\ UNCHANGED <<state, sock, released, closed, scaling, op>>

CtlDropSocket ==
  /\ cpc = "drop" /\ sock' = FALSE /\ cpc' = "test"
  /\ OthersUnchanged /\ UNCHANGED <<state, released, closed, scaling, op, link>>

\* The return from _teardown: a reload goes on to resume(), the others are done.
Return == IF op = "reload" THEN cpc' = "resume" /\ UNCHANGED op ELSE cpc' = "idle" /\ op' = "none"

CtlTestState ==
  /\ cpc = "test"
  /\ IF state = "DISCONNECTED" THEN Return ELSE cpc' = "write" /\ UNCHANGED op
  /\ OthersUnchanged /\ UNCHANGED <<state, sock, released, closed, scaling, link>>

CtlWriteState ==
  /\ cpc = "write" /\ state' = "DISCONNECTED" /\ Return
  /\ OthersUnchanged /\ UNCHANGED <<sock, released, closed, scaling, link>>

ControlCall == Release \/ Resume \/ Reload \/ Stop
ControlStep == \/ ReloadRelease \/ ReloadResume \/ Close
               \/ CtlTeardown \/ CtlDropSocket \/ CtlTestState \/ CtlWriteState

-----------------------------------------------------------------------------
(* The ECU and the radio, external to the program. *)

ProgramUnchanged == UNCHANGED <<state, sock, released, closed, scaling, srcVars, ctlVars>>

EcuChanges == ecu' \in EcuModes \ {ecu} /\ ProgramUnchanged /\ UNCHANGED <<link, ecuList>>

\* The connection breaks while the ECU is not well.
LinkLost == link /\ ecu # "up" /\ link' = FALSE /\ ProgramUnchanged /\ UNCHANGED ecuVars

\* The owner picks other channels, between two connections.
Reconfigure ==
  /\ ~link /\ ecuList' \in ChannelLists \ {ecuList}
  /\ ProgramUnchanged /\ UNCHANGED <<link, ecu>>

Environment == EcuChanges \/ LinkLost \/ Reconfigure

Next == SourceStep \/ ControlStep \/ ControlCall \/ Environment

\* Neither thread is ever blocked for good: every socket operation has a 2 s
\* timeout and every sleep ends, and a call that has begun runs to its end.
Fairness == WF_vars(SourceStep) /\ WF_vars(ControlStep)

Spec == Init /\ [][Next]_vars
FairSpec == Spec /\ Fairness

-----------------------------------------------------------------------------
(* Safety. *)

\* The source thread is polling the ECU with 0x35.
Polling == cmd = "PACKET" /\ pc \in {"send", "recv", "wait"}

\* release() and close() stop the polling for good, whatever the source thread was
\* doing: once the call is past its teardown test, no 0x35 exchange goes on over a
\* live channel until resume().  (The handshake of an attempt already under way may
\* still run, and set the state that client.py:9 says release() holds at DISCONNECTED.)
NoPollAfterRelease ==
  (released \/ closed) /\ cpc # "check" => ~(Polling /\ link)

\* An established channel always belongs to somebody who will close it: the object's
\* _sock, or the local variable of _connect about to become it.  The two threads'
\* teardowns never drop a socket without closing it.
NoLeakedLink == link => sock \/ pc = "assign"

\* While the source thread sleeps between attempts, holds released, or has left
\* frames() - dying of an AttributeError included - the ECU is free and the state is
\* DISCONNECTED, which Hub.state_name needs to report a dead source as ERROR.
QuietWhenIdle ==
  pc \in {"sleep", "top", "nap", "done"} /\ want = None
    => ~link /\ ~sock /\ state = "DISCONNECTED"

\* Frames are decoded with the scaling saved last: when no reload is in progress,
\* nothing is polled over a live channel with a table built from older overrides.
ScalingFresh == Polling /\ link /\ op # "reload" => table.scaling = scaling

\* Frames are decoded with the channel list the ECU is set up with, because the
\* handshake runs on every connection.
ChannelListFresh == Polling /\ link => table.list = ecuList

\* The delay before a retry: the 10 s poll only after an attempt that found the
\* ignition off, 0.5 s after a session that streamed, else the doubling schedule.
RetryDelay ==
  pc = "sleep" =>
    /\ backoff = IGNITION_OFF_POLL => reached = "ignOff"
    /\ reached = "ready" => backoff = BACKOFF_INITIAL
    /\ reached = "none" => backoff <= BACKOFF_CAP

\* The link obeys the abstract contract of EcuLink: at most one acquisition after
\* release(), and only of an attempt begun before it.
Contract == INSTANCE EcuLink WITH
  wanted <- ~released /\ ~closed, trying <- pc = "connect", held <- link
ImplementsEcuLink == Contract!Spec

-----------------------------------------------------------------------------
(* Liveness, under FairSpec. *)

Dead == fate = "died"

\* release() frees the ECU in the end: if it is never resumed, the channel is given up
\* for good and the state stays DISCONNECTED.
ReleaseFreesEcu ==
  <>[](released /\ op = "none") => <>[](~link /\ state = "DISCONNECTED")

\* "reconnecting forever": when the ECU stays well and nobody interferes any more, the
\* source ends up polling for good with a complete handshake behind it, however it was
\* interrupted before - unless the thread has died (NeverRaises).
Undisturbed == ecu = "up" /\ op = "none" /\ ~released /\ ~closed
Recovers == <>[]Undisturbed => <>Dead \/ <>[](link /\ sock /\ reached = "ready")

\* close() ends the source thread.
CloseEndsThread == closed ~> pc = "done"

-----------------------------------------------------------------------------
(* What the documentation says and the code does not do. *)

\* client.py:78 "reconnecting forever" and client.py:119 "Never raises on link errors".
NeverRaises == ~Dead
=============================================================================
