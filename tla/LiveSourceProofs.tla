-------------------------- MODULE LiveSourceProofs --------------------------
(***************************************************************************)
(* Proofs about LiveSource, for every set of scalings, channel lists and   *)
(* ECU modes: type correctness, the safety invariants the TLC run checks,  *)
(* and the refinement of EcuLink.                                          *)
(*                                                                         *)
(* The inductive invariant is a conjunction of named parts, each proved    *)
(* invariant with the help of the ones before it.                          *)
(***************************************************************************)
EXTENDS LiveSource, TLAPS

\* What each call of the control thread has set by the time it reaches each of its steps.
Calls ==
  /\ cpc = "idle" <=> op = "none"
  /\ cpc \in {"release", "resume"} => op = "reload"
  /\ cpc = "closing" => op = "stop"
  /\ op \in {"release", "reload"} => ~closed
  /\ cpc \in {"check", "drop", "test", "write"} => released \/ closed
  /\ cpc = "resume" => released

\* Where in its loop the source thread cannot hold a socket.
Unheld == {"top", "nap", "connect", "assign", "clear", "after", "sleep", "done"}

\* Who holds the channel.  A control thread about to drop the socket has closed it, and
\* the source thread cannot have a new one before that call is over.
Holding ==
  /\ NoLeakedLink
  /\ pc \in Unheld => ~sock
  /\ pc = "drop" => ~link
  /\ cpc = "drop" => ~link /\ pc \notin {"connect", "assign"}

\* The state the source thread leaves behind a teardown.
Rest ==
  /\ pc \in {"top", "nap", "sleep", "done"} => want = None
  /\ pc \in {"top", "nap", "after", "sleep", "done"} =>
       want = "DISCONNECTED" \/ (want = None /\ state = "DISCONNECTED")

\* Only a stream sends 0x35, and no stream outlives a release or a close.
Polls ==
  /\ pc \in {"top", "nap", "connect", "assign", "after", "sleep", "done"} => cmd = "DEVICE_INFO"
  /\ NoPollAfterRelease

\* A stream, between the handshake and the teardown.
Streaming == pc \in {"loop", "yield", "pace"} \/ Polling

\* A reload has changed the scaling and not yet had its chance to close the channel.
Unclosed == op = "reload" /\ cpc \in {"release", "check"}

\* The table a stream decodes with, and the one about to be stored, are those of this
\* channel list and, unless a reload is about to close the channel, of this scaling.
Decoding ==
  /\ pc = "store" => built # None
  /\ pc = "store" /\ link => built.list = ecuList
  /\ pc = "store" /\ link /\ ~Unclosed => built.scaling = scaling
  /\ Streaming => table # None
  /\ Streaming /\ link => table.list = ecuList
  /\ Streaming /\ link /\ ~Unclosed => table.scaling = scaling

\* Where an attempt has not completed its handshake.
Handshaking == \/ pc \in {"connect", "assign", "build", "store"}
               \/ pc \in {"send", "recv", "wait"} /\ cmd # "PACKET"

\* What the back-off is computed from tells how the attempt that is ending went.
Outcome ==
  /\ RetryDelay
  /\ Handshaking => state # "STREAMING" /\ want # "STREAMING" /\ reached = "none"
  /\ Streaming => reached = "ready"
  /\ want = "STREAMING" => reached = "ready"
  /\ state = "IGNITION_OFF" \/ want = "IGNITION_OFF" => reached = "ignOff"
  /\ state = "ERROR" => lastTerminal = "ERROR"
  /\ reached = "ready" => pc \in {"top", "nap", "sleep", "done"} \/ backoff = None
  /\ reached = "ready" /\ lastTerminal = "IGNITION_OFF" => want = "STREAMING"
  /\ reached = "none" /\ fate = "live" /\ pc \in {"finally", "drop", "clear", "after"} =>
       want = "ERROR" \/ lastTerminal = "ERROR"

-----------------------------------------------------------------------------
(* Types. *)

\* The schedule never leaves its six delays.
LEMMA BackoffType ==
  ASSUME NEW c \in Backoffs \cup {None}, NEW l
  PROVE  next_backoff(c, l) \in Backoffs
BY DEF next_backoff, Backoffs, BACKOFF_INITIAL, BACKOFF_CAP, IGNITION_OFF_POLL

\* The flags stay Boolean (Zenon: SMT forgets that a flag is one).
LEMMA FlagStep ==
  ASSUME TypeOK, [Next]_vars
  PROVE  Flags'
<1> USE DEF At, Goto, Move, Issue, Leave, SetStateThen, SharedUnchanged, LocalsUnchanged,
            OthersUnchanged, ProgramUnchanged, srcVars, ctlVars, ecuVars, TypeOK, Flags
<1>1. CASE WriteState
  BY <1>1, Zenon DEF WriteState, terminal
<1>2. CASE Finish \/ Nap \/ Attempt \/ Wake \/ LinkError
  BY <1>2, Zenon DEF Finish, Nap, Attempt, Wake, LinkError
<1>3. CASE AfterTeardown
  BY <1>3, Zenon DEF AfterTeardown
<1>4. CASE Finally \/ DropSocket \/ ClearState
  BY <1>4, Zenon DEF Finally, DropSocket, ClearState
<1>5. CASE ConnectOk \/ ConnectFails \/ AssignSocket
  BY <1>5, Zenon DEF ConnectOk, ConnectFails, AssignSocket
<1>6. CASE NoSocket \/ Send \/ Receive \/ IOFails
  BY <1>6, Zenon DEF NoSocket, Send, Receive, IOFails
<1>7. CASE DeviceInfoOn \/ DeviceInfoOff \/ DatalogInfo \/ ChannelIds
  BY <1>7, Zenon DEF DeviceInfoOn, DeviceInfoOff, DatalogInfo, ChannelIds, Replied
<1>8. CASE BuildTable \/ BuildFails \/ StoreTable
  BY <1>8, Zenon DEF BuildTable, BuildFails, StoreTable, offset_table
<1>9. CASE PollAgain \/ StreamEnds \/ Packet \/ FrameTaken \/ ConsumerStops
  BY <1>9, Zenon DEF PollAgain, StreamEnds, Packet, FrameTaken, ConsumerStops, Replied
<1>10. CASE Release \/ Resume \/ Reload \/ Stop
  BY <1>10, Zenon DEF Release, Resume, Reload, Stop
<1>11. CASE ReloadRelease \/ ReloadResume \/ Close
  BY <1>11, Zenon DEF ReloadRelease, ReloadResume, Close
<1>12. CASE CtlTeardown \/ CtlDropSocket \/ CtlTestState \/ CtlWriteState
  BY <1>12, Zenon DEF CtlTeardown, CtlDropSocket, CtlTestState, CtlWriteState
<1>13. CASE EcuChanges \/ LinkLost \/ Reconfigure
  BY <1>13, Zenon DEF EcuChanges, LinkLost, Reconfigure
<1>14. CASE UNCHANGED vars
  BY <1>14, Zenon DEF vars
<1>15. QED
  BY <1>1, <1>2, <1>3, <1>4, <1>5, <1>6, <1>7, <1>8, <1>9, <1>10, <1>11, <1>12, <1>13, <1>14
     DEF Next, SourceStep, ControlStep, ControlCall, Environment

\* Every step keeps every variable in its type.
LEMMA TypeStep ==
  ASSUME TypeOK, Flags', [Next]_vars
  PROVE  TypeOK'
<1> USE DEF At, Goto, Move, Issue, Leave, SetStateThen, SharedUnchanged, LocalsUnchanged,
            OthersUnchanged, ProgramUnchanged, srcVars, ctlVars, ecuVars, TypeOK, SourcePcs,
            ControlPcs, State, Commands, Tables
<1>1. CASE WriteState
  BY <1>1 DEF WriteState, terminal
<1>2. CASE Finish \/ Nap \/ Attempt \/ Wake \/ LinkError
  BY <1>2 DEF Finish, Nap, Attempt, Wake, LinkError
<1>3. CASE AfterTeardown
  BY <1>3, BackoffType DEF AfterTeardown
<1>4. CASE Finally \/ DropSocket \/ ClearState
  BY <1>4 DEF Finally, DropSocket, ClearState
<1>5. CASE ConnectOk \/ ConnectFails \/ AssignSocket
  BY <1>5 DEF ConnectOk, ConnectFails, AssignSocket
<1>6. CASE NoSocket \/ Send \/ Receive \/ IOFails
  BY <1>6 DEF NoSocket, Send, Receive, IOFails
<1>7. CASE DeviceInfoOn \/ DeviceInfoOff \/ DatalogInfo \/ ChannelIds
  BY <1>7 DEF DeviceInfoOn, DeviceInfoOff, DatalogInfo, ChannelIds, Replied
<1>8. CASE BuildTable \/ BuildFails \/ StoreTable
  BY <1>8 DEF BuildTable, BuildFails, StoreTable, offset_table
<1>9. CASE PollAgain \/ StreamEnds \/ Packet \/ FrameTaken \/ ConsumerStops
  BY <1>9 DEF PollAgain, StreamEnds, Packet, FrameTaken, ConsumerStops, Replied
<1>10. CASE Release \/ Resume \/ Reload \/ Stop
  BY <1>10 DEF Release, Resume, Reload, Stop
<1>11. CASE ReloadRelease \/ ReloadResume \/ Close
  BY <1>11 DEF ReloadRelease, ReloadResume, Close
<1>12. CASE CtlTeardown \/ CtlDropSocket \/ CtlTestState \/ CtlWriteState
  BY <1>12 DEF CtlTeardown, CtlDropSocket, CtlTestState, CtlWriteState, Return
<1>13. CASE EcuChanges \/ LinkLost \/ Reconfigure
  BY <1>13 DEF EcuChanges, LinkLost, Reconfigure
<1>14. CASE UNCHANGED vars
  BY <1>14 DEF vars
<1>15. QED
  BY <1>1, <1>2, <1>3, <1>4, <1>5, <1>6, <1>7, <1>8, <1>9, <1>10, <1>11, <1>12, <1>13, <1>14
     DEF Next, SourceStep, ControlStep, ControlCall, Environment

\* Type correctness, for every value of the constants.
THEOREM TypeCorrect == Spec => []TypeOK
<1>1. Init => TypeOK
  BY LiveSourceAssumption DEF Init, TypeOK, Flags, State, SourcePcs, ControlPcs, Commands
<1>2. TypeOK /\ [Next]_vars => TypeOK'
  BY FlagStep, TypeStep
<1>3. QED
  BY <1>1, <1>2, PTL DEF Spec

-----------------------------------------------------------------------------
(* The parts of the inductive invariant. *)

\* The control thread keeps to the order of its calls.
LEMMA CallsStep ==
  ASSUME TypeOK, Calls, [Next]_vars
  PROVE  Calls'
<1> USE DEF At, Goto, Move, Issue, Leave, SetStateThen, SharedUnchanged, LocalsUnchanged,
            OthersUnchanged, ProgramUnchanged, srcVars, ctlVars, ecuVars, TypeOK, Calls,
            Flags
<1>1. CASE WriteState
  BY <1>1 DEF WriteState, terminal
<1>2. CASE Finish \/ Nap \/ Attempt \/ Wake \/ LinkError
  BY <1>2 DEF Finish, Nap, Attempt, Wake, LinkError
<1>3. CASE AfterTeardown
  BY <1>3 DEF AfterTeardown
<1>4. CASE Finally \/ DropSocket \/ ClearState
  BY <1>4 DEF Finally, DropSocket, ClearState
<1>5. CASE ConnectOk \/ ConnectFails \/ AssignSocket
  BY <1>5 DEF ConnectOk, ConnectFails, AssignSocket
<1>6. CASE NoSocket \/ Send \/ Receive \/ IOFails
  BY <1>6 DEF NoSocket, Send, Receive, IOFails
<1>7. CASE DeviceInfoOn \/ DeviceInfoOff \/ DatalogInfo \/ ChannelIds
  BY <1>7 DEF DeviceInfoOn, DeviceInfoOff, DatalogInfo, ChannelIds, Replied
<1>8. CASE BuildTable \/ BuildFails \/ StoreTable
  BY <1>8 DEF BuildTable, BuildFails, StoreTable, offset_table
<1>9. CASE PollAgain \/ StreamEnds \/ Packet \/ FrameTaken \/ ConsumerStops
  BY <1>9 DEF PollAgain, StreamEnds, Packet, FrameTaken, ConsumerStops, Replied, Streamable,
     Stopping
<1>10. CASE Release \/ Resume \/ Reload \/ Stop
  BY <1>10 DEF Release, Resume, Reload, Stop, ControlIdle
<1>11. CASE ReloadRelease \/ ReloadResume \/ Close
  BY <1>11 DEF ReloadRelease, ReloadResume, Close
<1>12. CASE CtlTeardown \/ CtlDropSocket \/ CtlTestState \/ CtlWriteState
  BY <1>12 DEF CtlTeardown, CtlDropSocket, CtlTestState, CtlWriteState, Return
<1>13. CASE EcuChanges \/ LinkLost \/ Reconfigure
  BY <1>13 DEF EcuChanges, LinkLost, Reconfigure
<1>14. CASE UNCHANGED vars
  BY <1>14 DEF vars
<1>15. QED
  BY <1>1, <1>2, <1>3, <1>4, <1>5, <1>6, <1>7, <1>8, <1>9, <1>10, <1>11, <1>12, <1>13, <1>14
     DEF Next, SourceStep, ControlStep, ControlCall, Environment

\* The two teardowns between them lose no open channel.
LEMMA HoldingStep ==
  ASSUME TypeOK, Calls, Holding, [Next]_vars
  PROVE  Holding'
<1> USE DEF At, Goto, Move, Issue, Leave, SetStateThen, SharedUnchanged, LocalsUnchanged,
            OthersUnchanged, ProgramUnchanged, srcVars, ctlVars, ecuVars, TypeOK, Calls,
            Holding, NoLeakedLink, Unheld
<1>1. CASE WriteState
  BY <1>1 DEF WriteState, terminal
<1>2. CASE Finish \/ Nap \/ Attempt \/ Wake \/ LinkError
  BY <1>2 DEF Finish, Nap, Attempt, Wake, LinkError
<1>3. CASE AfterTeardown
  BY <1>3 DEF AfterTeardown
<1>4. CASE Finally \/ DropSocket \/ ClearState
  BY <1>4 DEF Finally, DropSocket, ClearState
<1>5. CASE ConnectOk \/ ConnectFails \/ AssignSocket
  BY <1>5 DEF ConnectOk, ConnectFails, AssignSocket
<1>6. CASE NoSocket \/ Send \/ Receive \/ IOFails
  BY <1>6 DEF NoSocket, Send, Receive, IOFails
<1>7. CASE DeviceInfoOn \/ DeviceInfoOff \/ DatalogInfo \/ ChannelIds
  BY <1>7 DEF DeviceInfoOn, DeviceInfoOff, DatalogInfo, ChannelIds, Replied
<1>8. CASE BuildTable \/ BuildFails \/ StoreTable
  BY <1>8 DEF BuildTable, BuildFails, StoreTable, offset_table
<1>9. CASE PollAgain \/ StreamEnds \/ Packet \/ FrameTaken \/ ConsumerStops
  BY <1>9 DEF PollAgain, StreamEnds, Packet, FrameTaken, ConsumerStops, Replied, Streamable,
     Stopping
<1>10. CASE Release \/ Resume \/ Reload \/ Stop
  BY <1>10 DEF Release, Resume, Reload, Stop, ControlIdle
<1>11. CASE ReloadRelease \/ ReloadResume \/ Close
  BY <1>11 DEF ReloadRelease, ReloadResume, Close
<1>12. CASE CtlTeardown \/ CtlDropSocket \/ CtlTestState \/ CtlWriteState
  BY <1>12 DEF CtlTeardown, CtlDropSocket, CtlTestState, CtlWriteState, Return
<1>13. CASE EcuChanges \/ LinkLost \/ Reconfigure
  BY <1>13 DEF EcuChanges, LinkLost, Reconfigure
<1>14. CASE UNCHANGED vars
  BY <1>14 DEF vars
<1>15. QED
  BY <1>1, <1>2, <1>3, <1>4, <1>5, <1>6, <1>7, <1>8, <1>9, <1>10, <1>11, <1>12, <1>13, <1>14
     DEF Next, SourceStep, ControlStep, ControlCall, Environment

\* The source thread comes to rest DISCONNECTED.
LEMMA RestStep ==
  ASSUME TypeOK, Rest, [Next]_vars
  PROVE  Rest'
<1> USE DEF At, Goto, Move, Issue, Leave, SetStateThen, SharedUnchanged, LocalsUnchanged,
            OthersUnchanged, ProgramUnchanged, srcVars, ctlVars, ecuVars, TypeOK, Rest
<1>1. CASE WriteState
  BY <1>1 DEF WriteState, terminal
<1>2. CASE Finish \/ Nap \/ Attempt \/ Wake \/ LinkError
  BY <1>2 DEF Finish, Nap, Attempt, Wake, LinkError
<1>3. CASE AfterTeardown
  BY <1>3 DEF AfterTeardown
<1>4. CASE Finally \/ DropSocket \/ ClearState
  BY <1>4 DEF Finally, DropSocket, ClearState
<1>5. CASE ConnectOk \/ ConnectFails \/ AssignSocket
  BY <1>5 DEF ConnectOk, ConnectFails, AssignSocket
<1>6. CASE NoSocket \/ Send \/ Receive \/ IOFails
  BY <1>6 DEF NoSocket, Send, Receive, IOFails
<1>7. CASE DeviceInfoOn \/ DeviceInfoOff \/ DatalogInfo \/ ChannelIds
  BY <1>7 DEF DeviceInfoOn, DeviceInfoOff, DatalogInfo, ChannelIds, Replied
<1>8. CASE BuildTable \/ BuildFails \/ StoreTable
  BY <1>8 DEF BuildTable, BuildFails, StoreTable, offset_table
<1>9. CASE PollAgain \/ StreamEnds \/ Packet \/ FrameTaken \/ ConsumerStops
  BY <1>9 DEF PollAgain, StreamEnds, Packet, FrameTaken, ConsumerStops, Replied, Streamable,
     Stopping
<1>10. CASE Release \/ Resume \/ Reload \/ Stop
  BY <1>10 DEF Release, Resume, Reload, Stop, ControlIdle
<1>11. CASE ReloadRelease \/ ReloadResume \/ Close
  BY <1>11 DEF ReloadRelease, ReloadResume, Close
<1>12. CASE CtlTeardown \/ CtlDropSocket \/ CtlTestState \/ CtlWriteState
  BY <1>12 DEF CtlTeardown, CtlDropSocket, CtlTestState, CtlWriteState, Return
<1>13. CASE EcuChanges \/ LinkLost \/ Reconfigure
  BY <1>13 DEF EcuChanges, LinkLost, Reconfigure
<1>14. CASE UNCHANGED vars
  BY <1>14 DEF vars
<1>15. QED
  BY <1>1, <1>2, <1>3, <1>4, <1>5, <1>6, <1>7, <1>8, <1>9, <1>10, <1>11, <1>12, <1>13, <1>14
     DEF Next, SourceStep, ControlStep, ControlCall, Environment

\* No stream polls over a channel that release() or close() has had its chance to close.
LEMMA PollsStep ==
  ASSUME TypeOK, Calls, Holding, Polls, [Next]_vars
  PROVE  Polls'
<1> USE DEF At, Goto, Move, Issue, Leave, SetStateThen, SharedUnchanged, LocalsUnchanged,
            OthersUnchanged, ProgramUnchanged, srcVars, ctlVars, ecuVars, TypeOK, Calls,
            Holding, NoLeakedLink, Unheld, Polls, NoPollAfterRelease, Polling
<1>1. CASE WriteState
  BY <1>1 DEF WriteState, terminal
<1>2. CASE Finish \/ Nap \/ Attempt \/ Wake \/ LinkError
  BY <1>2 DEF Finish, Nap, Attempt, Wake, LinkError
<1>3. CASE AfterTeardown
  BY <1>3 DEF AfterTeardown
<1>4. CASE Finally \/ DropSocket \/ ClearState
  BY <1>4 DEF Finally, DropSocket, ClearState
<1>5. CASE ConnectOk \/ ConnectFails \/ AssignSocket
  BY <1>5 DEF ConnectOk, ConnectFails, AssignSocket
<1>6. CASE NoSocket \/ Send \/ Receive \/ IOFails
  BY <1>6 DEF NoSocket, Send, Receive, IOFails
<1>7. CASE DeviceInfoOn \/ DeviceInfoOff \/ DatalogInfo \/ ChannelIds
  BY <1>7 DEF DeviceInfoOn, DeviceInfoOff, DatalogInfo, ChannelIds, Replied
<1>8. CASE BuildTable \/ BuildFails \/ StoreTable
  BY <1>8 DEF BuildTable, BuildFails, StoreTable, offset_table
<1>9. CASE PollAgain \/ StreamEnds \/ Packet \/ FrameTaken \/ ConsumerStops
  BY <1>9 DEF PollAgain, StreamEnds, Packet, FrameTaken, ConsumerStops, Replied, Streamable,
     Stopping
<1>10. CASE Release \/ Resume \/ Reload \/ Stop
  BY <1>10 DEF Release, Resume, Reload, Stop, ControlIdle
<1>11. CASE ReloadRelease \/ ReloadResume \/ Close
  BY <1>11 DEF ReloadRelease, ReloadResume, Close
<1>12. CASE CtlTeardown \/ CtlDropSocket \/ CtlTestState \/ CtlWriteState
  BY <1>12 DEF CtlTeardown, CtlDropSocket, CtlTestState, CtlWriteState, Return
<1>13. CASE EcuChanges \/ LinkLost \/ Reconfigure
  BY <1>13 DEF EcuChanges, LinkLost, Reconfigure
<1>14. CASE UNCHANGED vars
  BY <1>14 DEF vars
<1>15. QED
  BY <1>1, <1>2, <1>3, <1>4, <1>5, <1>6, <1>7, <1>8, <1>9, <1>10, <1>11, <1>12, <1>13, <1>14
     DEF Next, SourceStep, ControlStep, ControlCall, Environment

\* A reload reaches every stream with an older table.
LEMMA DecodingStep ==
  ASSUME TypeOK, TypeOK', Calls, Holding, Polls, Decoding, [Next]_vars
  PROVE  Decoding'
<1> USE DEF At, Goto, Move, Issue, Leave, SetStateThen, SharedUnchanged, LocalsUnchanged,
            OthersUnchanged, ProgramUnchanged, srcVars, ctlVars, ecuVars, TypeOK, Holding,
            NoLeakedLink, Unheld, Polls, Decoding, Streaming, Polling, Unclosed, Tables
<1>1. CASE WriteState
  BY <1>1, LiveSourceAssumption DEF WriteState, terminal
<1>2. CASE Finish \/ Nap \/ Attempt \/ Wake \/ LinkError
  BY <1>2, LiveSourceAssumption DEF Finish, Nap, Attempt, Wake, LinkError
<1>3. CASE AfterTeardown
  BY <1>3, LiveSourceAssumption DEF AfterTeardown
<1>4. CASE Finally \/ DropSocket \/ ClearState
  BY <1>4, LiveSourceAssumption DEF Finally, DropSocket, ClearState
<1>5. CASE ConnectOk \/ ConnectFails \/ AssignSocket
  BY <1>5, LiveSourceAssumption DEF ConnectOk, ConnectFails, AssignSocket
<1>6. CASE NoSocket \/ Send \/ Receive \/ IOFails
  BY <1>6, LiveSourceAssumption DEF NoSocket, Send, Receive, IOFails
<1>7. CASE DeviceInfoOn \/ DeviceInfoOff \/ DatalogInfo \/ ChannelIds
  BY <1>7, LiveSourceAssumption DEF DeviceInfoOn, DeviceInfoOff, DatalogInfo, ChannelIds,
     Replied
<1>8. CASE BuildTable \/ BuildFails \/ StoreTable
  BY <1>8, LiveSourceAssumption DEF BuildTable, BuildFails, StoreTable, offset_table
<1>9. CASE PollAgain \/ StreamEnds \/ Packet \/ FrameTaken \/ ConsumerStops
  BY <1>9, LiveSourceAssumption DEF PollAgain, StreamEnds, Packet, FrameTaken, ConsumerStops,
     Replied, Streamable, Stopping
<1>10. CASE Release \/ Resume \/ Reload \/ Stop
  BY <1>10, LiveSourceAssumption DEF Release, Resume, Reload, Stop, ControlIdle
<1>11. CASE ReloadRelease \/ ReloadResume \/ Close
  BY <1>11, LiveSourceAssumption DEF ReloadRelease, ReloadResume, Close
<1>12. CASE CtlTeardown \/ CtlDropSocket \/ CtlTestState \/ CtlWriteState
  BY <1>12, LiveSourceAssumption DEF CtlTeardown, CtlDropSocket, CtlTestState, CtlWriteState,
     Return
<1>13. CASE EcuChanges \/ LinkLost \/ Reconfigure
  BY <1>13, LiveSourceAssumption DEF EcuChanges, LinkLost, Reconfigure
<1>14. CASE UNCHANGED vars
  BY <1>14 DEF vars
<1>15. QED
  BY <1>1, <1>2, <1>3, <1>4, <1>5, <1>6, <1>7, <1>8, <1>9, <1>10, <1>11, <1>12, <1>13, <1>14
     DEF Next, SourceStep, ControlStep, ControlCall, Environment

\* The record of how an attempt went survives its teardown.
LEMMA OutcomeStep ==
  ASSUME TypeOK, Rest, Polls, Outcome, [Next]_vars
  PROVE  Outcome'
<1> USE DEF At, Goto, Move, Issue, Leave, SetStateThen, SharedUnchanged, LocalsUnchanged,
            OthersUnchanged, ProgramUnchanged, srcVars, ctlVars, ecuVars, TypeOK, Rest,
            Polls, Outcome, RetryDelay, Handshaking, Streaming, Polling, State,
            BACKOFF_INITIAL, BACKOFF_CAP, IGNITION_OFF_POLL
<1>1. CASE WriteState
  BY <1>1, LiveSourceAssumption DEF WriteState, terminal
<1>2. CASE Finish \/ Nap \/ Attempt \/ Wake \/ LinkError
  BY <1>2, LiveSourceAssumption DEF Finish, Nap, Attempt, Wake, LinkError
<1>3. CASE AfterTeardown
  BY <1>3, LiveSourceAssumption DEF AfterTeardown, next_backoff, Backoffs
<1>4. CASE Finally \/ DropSocket \/ ClearState
  BY <1>4, LiveSourceAssumption DEF Finally, DropSocket, ClearState
<1>5. CASE ConnectOk \/ ConnectFails \/ AssignSocket
  BY <1>5, LiveSourceAssumption DEF ConnectOk, ConnectFails, AssignSocket
<1>6. CASE NoSocket \/ Send \/ Receive \/ IOFails
  BY <1>6, LiveSourceAssumption DEF NoSocket, Send, Receive, IOFails
<1>7. CASE DeviceInfoOn \/ DeviceInfoOff \/ DatalogInfo \/ ChannelIds
  BY <1>7, LiveSourceAssumption DEF DeviceInfoOn, DeviceInfoOff, DatalogInfo, ChannelIds,
     Replied
<1>8. CASE BuildTable \/ BuildFails \/ StoreTable
  BY <1>8, LiveSourceAssumption DEF BuildTable, BuildFails, StoreTable, offset_table
<1>9. CASE PollAgain \/ StreamEnds \/ Packet \/ FrameTaken \/ ConsumerStops
  BY <1>9, LiveSourceAssumption DEF PollAgain, StreamEnds, Packet, FrameTaken, ConsumerStops,
     Replied, Streamable, Stopping
<1>10. CASE Release \/ Resume \/ Reload \/ Stop
  BY <1>10, LiveSourceAssumption DEF Release, Resume, Reload, Stop, ControlIdle
<1>11. CASE ReloadRelease \/ ReloadResume \/ Close
  BY <1>11, LiveSourceAssumption DEF ReloadRelease, ReloadResume, Close
<1>12. CASE CtlTeardown \/ CtlDropSocket \/ CtlTestState \/ CtlWriteState
  BY <1>12, LiveSourceAssumption DEF CtlTeardown, CtlDropSocket, CtlTestState, CtlWriteState,
     Return
<1>13. CASE EcuChanges \/ LinkLost \/ Reconfigure
  BY <1>13, LiveSourceAssumption DEF EcuChanges, LinkLost, Reconfigure
<1>14. CASE UNCHANGED vars
  BY <1>14 DEF vars
<1>15. QED
  BY <1>1, <1>2, <1>3, <1>4, <1>5, <1>6, <1>7, <1>8, <1>9, <1>10, <1>11, <1>12, <1>13, <1>14
     DEF Next, SourceStep, ControlStep, ControlCall, Environment

-----------------------------------------------------------------------------
(* The theorems. *)

IInv == TypeOK /\ Calls /\ Holding /\ Rest /\ Polls /\ Decoding /\ Outcome

LEMMA InitIInv == Init => IInv
<1> SUFFICES ASSUME Init PROVE IInv
  OBVIOUS
<1>1. TypeOK
  BY LiveSourceAssumption DEF Init, TypeOK, Flags, State, SourcePcs, ControlPcs, Commands
<1>2. Calls /\ Holding /\ Rest
  BY DEF Init, Calls, Holding, NoLeakedLink, Unheld, Rest
<1>3. Polls /\ Decoding
  BY DEF Init, Polls, NoPollAfterRelease, Polling, Decoding, Streaming
<1>4. Outcome
  BY LiveSourceAssumption
     DEF Init, Outcome, RetryDelay, Handshaking, Streaming, Polling, State
<1>5. QED
  BY <1>1, <1>2, <1>3, <1>4 DEF IInv

LEMMA NextIInv == IInv /\ [Next]_vars => IInv'
<1> SUFFICES ASSUME IInv, [Next]_vars PROVE IInv'
  OBVIOUS
<1> USE DEF IInv
<1>1. TypeOK'
  BY FlagStep, TypeStep
<1>2. Calls' /\ Holding' /\ Rest'
  BY CallsStep, HoldingStep, RestStep
<1>3. Polls' /\ Decoding'
  BY <1>1, PollsStep, DecodingStep
<1>4. Outcome'
  BY OutcomeStep
<1>5. QED
  BY <1>1, <1>2, <1>3, <1>4

\* The inductive invariant holds in every reachable state.
THEOREM Inductive == Spec => []IInv
BY InitIInv, NextIInv, PTL DEF Spec

\* release() and close() stop the polling, whatever the source thread was doing.
THEOREM ReleaseStopsPolling == Spec => []NoPollAfterRelease
<1>1. IInv => NoPollAfterRelease
  BY DEF IInv, Polls
<1>2. QED
  BY <1>1, Inductive, PTL

\* Neither teardown drops a socket without closing it.
THEOREM NoLinkLeaks == Spec => []NoLeakedLink
<1>1. IInv => NoLeakedLink
  BY DEF IInv, Holding
<1>2. QED
  BY <1>1, Inductive, PTL

\* Asleep, released or dead, the source holds nothing and says DISCONNECTED.
THEOREM SourceRests == Spec => []QuietWhenIdle
<1>1. IInv => QuietWhenIdle
  BY LiveSourceAssumption DEF IInv, Holding, NoLeakedLink, Unheld, Rest, QuietWhenIdle, State
<1>2. QED
  BY <1>1, Inductive, PTL

\* Outside a reload, no stream decodes with superseded overrides.
THEOREM ScalingIsFresh == Spec => []ScalingFresh
<1>1. IInv => ScalingFresh
  BY DEF IInv, Decoding, Streaming, Unclosed, ScalingFresh
<1>2. QED
  BY <1>1, Inductive, PTL

\* No stream decodes with the channel list of another connection.
THEOREM ChannelListIsFresh == Spec => []ChannelListFresh
<1>1. IInv => ChannelListFresh
  BY DEF IInv, Decoding, Streaming, ChannelListFresh
<1>2. QED
  BY <1>1, Inductive, PTL

\* The delay before a retry fits the attempt that failed.
THEOREM RetriesOnSchedule == Spec => []RetryDelay
<1>1. IInv => RetryDelay
  BY DEF IInv, Outcome
<1>2. QED
  BY <1>1, Inductive, PTL

-----------------------------------------------------------------------------
(* Refinement. *)

\* Every step is a step of the abstract link, or leaves it alone.
LEMMA RefinementStep ==
  ASSUME IInv, [Next]_vars
  PROVE  [Contract!Next]_(Contract!vars)
<1> USE DEF At, Goto, Move, Issue, Leave, SetStateThen, SharedUnchanged, LocalsUnchanged,
            OthersUnchanged, ProgramUnchanged, srcVars, ctlVars, ecuVars, IInv, TypeOK, Flags,
            Calls, Holding, NoLeakedLink, Unheld, Contract!Next, Contract!vars, Contract!Begin,
            Contract!Acquire, Contract!GiveUp, Contract!Drop, Contract!Unwant, Contract!Want
<1>1. CASE WriteState
  BY <1>1 DEF WriteState, terminal
<1>2. CASE Finish \/ Nap \/ Attempt \/ Wake \/ LinkError
  BY <1>2 DEF Finish, Nap, Attempt, Wake, LinkError
<1>3. CASE AfterTeardown
  BY <1>3 DEF AfterTeardown
<1>4. CASE Finally \/ DropSocket \/ ClearState
  BY <1>4 DEF Finally, DropSocket, ClearState
<1>5. CASE ConnectOk \/ ConnectFails \/ AssignSocket
  BY <1>5 DEF ConnectOk, ConnectFails, AssignSocket
<1>6. CASE NoSocket \/ Send \/ Receive \/ IOFails
  BY <1>6 DEF NoSocket, Send, Receive, IOFails
<1>7. CASE DeviceInfoOn \/ DeviceInfoOff \/ DatalogInfo \/ ChannelIds
  BY <1>7 DEF DeviceInfoOn, DeviceInfoOff, DatalogInfo, ChannelIds, Replied
<1>8. CASE BuildTable \/ BuildFails \/ StoreTable
  BY <1>8 DEF BuildTable, BuildFails, StoreTable, offset_table
<1>9. CASE PollAgain \/ StreamEnds \/ Packet \/ FrameTaken \/ ConsumerStops
  BY <1>9 DEF PollAgain, StreamEnds, Packet, FrameTaken, ConsumerStops, Replied, Streamable,
     Stopping
<1>10. CASE Release \/ Resume \/ Reload \/ Stop
  BY <1>10 DEF Release, Resume, Reload, Stop, ControlIdle
<1>11. CASE ReloadRelease \/ ReloadResume \/ Close
  BY <1>11 DEF ReloadRelease, ReloadResume, Close
<1>12. CASE CtlTeardown \/ CtlDropSocket \/ CtlTestState \/ CtlWriteState
  BY <1>12 DEF CtlTeardown, CtlDropSocket, CtlTestState, CtlWriteState, Return
<1>13. CASE EcuChanges \/ LinkLost \/ Reconfigure
  BY <1>13 DEF EcuChanges, LinkLost, Reconfigure
<1>14. CASE UNCHANGED vars
  BY <1>14 DEF vars
<1>15. QED
  BY <1>1, <1>2, <1>3, <1>4, <1>5, <1>6, <1>7, <1>8, <1>9, <1>10, <1>11, <1>12, <1>13, <1>14
     DEF Next, SourceStep, ControlStep, ControlCall, Environment

\* LiveSource keeps the contract of EcuLink.
THEOREM Refinement == Spec => ImplementsEcuLink
<1>1. Init => Contract!Init
  BY DEF Init, Contract!Init
<1>2. IInv /\ [Next]_vars => [Contract!Next]_(Contract!vars)
  BY RefinementStep
<1>3. QED
  BY <1>1, <1>2, Inductive, PTL DEF Spec, ImplementsEcuLink, Contract!Spec
=============================================================================
