-------------------------------- MODULE UiLink --------------------------------
(***************************************************************************)
(* The WebSocket between the daemon and the cluster: ws_handler and        *)
(* broadcast_loop of s300d/server.py, DaemonClient of s300ui/wsclient.py,  *)
(* and what the cluster's main loop (s300ui/__main__.py) does with both:   *)
(* its buttons and the test of whether its message may still be shown.     *)
(*                                                                         *)
(* A message is the state of the source it carries.  The connection is on  *)
(* the loopback interface: it loses nothing before it ends.  What a        *)
(* connection the cluster has given up still holds is lost with it, and a  *)
(* leftover of one in the server is one of Others.  A client that is       *)
(* served hears of the broadcaster within two seconds.                     *)
(***************************************************************************)
EXTENDS Naturals, Sequences

CONSTANTS Cluster,     \* the cluster's connection, as a member of CLIENTS
          Others,      \* other clients, each slow or gone as it pleases
          Live0,       \* the states of a source that is not released
          Released,    \* DISCONNECTED
          None,        \* no message; among messages, the reply to a command
          MaxInbox,    \* messages a connection can hold
          MaxPresses   \* bound on the presses of buttons

States == Live0 \cup {Released}
Clients == Others \cup {Cluster}
Cmds == {"ack_alarms", "release_bt", "resume_bt"}
Commands == [id : 1..MaxPresses, cmd : Cmds]

ASSUME UiLinkAssumption ==
  /\ Cluster \notin Others /\ Live0 # {} /\ Released \notin Live0 /\ None \notin States
  /\ MaxInbox \in Nat \ {0} /\ MaxPresses \in Nat

VARIABLES
  \* the daemon
  hub,       \* .up; .state, what snapshot() says; .released, of the source
  clients,   \* CLIENTS
  round,     \* the clients broadcast_loop has yet to send its payload to
  payload,   \* the payload of this round
  \* the connection
  link,      \* "none", "up", "mute": dropped by the daemon without a word, "dead": closed
  inbox,     \* what is on its way to the cluster
  outbox,    \* the commands on their way to the daemon
  \* the cluster
  thread,    \* DaemonClient's thread: its .pc, and .pending, the commands it has taken
  queue,     \* _cmds
  screen,    \* .latest message; .connected; .fresh, received less than two seconds ago
  flag,      \* the main loop's released
  \* history
  pressed,   \* the number of presses
  done,      \* the presses whose commands the daemon has executed, in that order
  apart      \* the flag and the source have been set apart: see ToggleAgrees

daemonVars == <<hub, clients, round, payload>>
vars == <<daemonVars, link, inbox, outbox, thread, queue, screen, flag, pressed, done, apart>>

Blank == [latest |-> None, connected |-> FALSE, fresh |-> FALSE]

Init ==
  /\ hub = [up |-> FALSE, state |-> Released, released |-> FALSE]
  /\ clients = {} /\ round = {} /\ payload = Released
  /\ link = "none" /\ inbox = << >> /\ outbox = << >>
  /\ thread = [pc |-> "off", pending |-> << >>] /\ queue = << >>
  /\ screen = Blank /\ flag = FALSE
  /\ pressed = 0 /\ done = << >> /\ apart = FALSE

IsToggle(c) == c.cmd # "ack_alarms"
Toggles(s) == \E i \in DOMAIN s : IsToggle(s[i])

-----------------------------------------------------------------------------
(* The daemon: broadcast_loop. *)

ClusterUnchanged == UNCHANGED <<thread, queue, screen, flag, pressed>>
BroadcastOnly == ClusterUnchanged /\ UNCHANGED <<hub, link, outbox, done, apart>>

\* A round: one payload for the clients of this moment.
StartRound ==
  /\ hub.up /\ round = {} /\ clients # {}
  /\ round' = clients /\ payload' = hub.state
  /\ BroadcastOnly /\ UNCHANGED <<clients, inbox>>

\* Sent in time, or not: then the client is dropped.
SendOther(c) ==
  /\ c \in round \cap Others /\ round' = round \ {c}
  /\ clients' \in {clients, clients \ {c}}
  /\ BroadcastOnly /\ UNCHANGED <<inbox, payload>>

\* Mutant: a send always completes, whatever the client has yet to read.
SendCluster_NoTimeout ==
  /\ Cluster \in round /\ round' = round \ {Cluster}
  /\ inbox' = Append(inbox, payload)
  /\ BroadcastOnly /\ UNCHANGED <<clients, payload>>

\* The same for the cluster; a closed connection drops it as well.
SendCluster ==
  /\ Cluster \in round /\ round' = round \ {Cluster}
  /\ IF link = "up" /\ Len(inbox) < MaxInbox
       THEN inbox' = Append(inbox, payload) /\ UNCHANGED clients
       ELSE clients' = clients \ {Cluster} /\ UNCHANGED inbox
  /\ BroadcastOnly /\ UNCHANGED payload

\* _close_quietly, of a dropped cluster: closed, or given up after a second.
CloseQuietly ==
  /\ link = "up" /\ Cluster \notin clients /\ link' \in {"mute", "dead"}
  /\ ClusterUnchanged /\ UNCHANGED <<daemonVars, inbox, outbox, done, apart>>

Broadcast == StartRound \/ SendCluster \/ \E c \in Others : SendOther(c)

-----------------------------------------------------------------------------
(* The daemon: ws_handler, Hub.command, and the source behind it. *)

\* Other clients come and go.
OtherJoins(c) ==
  /\ hub.up /\ c \notin clients /\ clients' = clients \cup {c}
  /\ BroadcastOnly /\ UNCHANGED <<round, payload, inbox>>
OtherLeaves(c) ==
  /\ c \in clients /\ clients' = clients \ {c}
  /\ BroadcastOnly /\ UNCHANGED <<round, payload, inbox>>

\* Hub.command(cmd), as far as the source goes: an ack leaves it alone.
Commanded(cmd) ==
  CASE cmd = "release_bt" -> [hub EXCEPT !.released = TRUE, !.state = Released]
    [] cmd = "resume_bt"  -> [hub EXCEPT !.released = FALSE]
    [] OTHER              -> hub

\* ws_handler takes a command and replies; a reply there is no room for has to wait.
Execute ==
  /\ hub.up /\ link = "up" /\ outbox # << >>
  /\ hub' = Commanded(Head(outbox).cmd)
  /\ done' = Append(done, Head(outbox).id) /\ outbox' = Tail(outbox)
  /\ inbox' = IF Len(inbox) < MaxInbox THEN Append(inbox, None) ELSE inbox
  /\ ClusterUnchanged /\ UNCHANGED <<clients, round, payload, link, apart>>

DaemonOnly == ClusterUnchanged /\ UNCHANGED <<round, payload, inbox, outbox, done>>

\* The settings page's Release and Resume.
PhoneCommands(cmd) ==
  /\ hub.up /\ cmd # "ack_alarms" /\ hub' = Commanded(cmd) /\ apart' = TRUE
  /\ DaemonOnly /\ UNCHANGED <<clients, link>>

\* LiveSource goes from state to state.
SourceChanges ==
  /\ hub.up /\ ~hub.released /\ \E s \in States : hub' = [hub EXCEPT !.state = s]
  /\ DaemonOnly /\ UNCHANGED <<clients, link, apart>>

DaemonStarts ==
  /\ ~hub.up /\ hub' = [hub EXCEPT !.up = TRUE]
  /\ DaemonOnly /\ UNCHANGED <<clients, link, apart>>

\* It dies, and a new one will know of no release.
DaemonDies ==
  /\ hub.up /\ hub' = [up |-> FALSE, state |-> Released, released |-> FALSE]
  /\ clients' = {} /\ round' = {} /\ link' = IF link = "none" THEN "none" ELSE "dead"
  /\ apart' = TRUE
  /\ ClusterUnchanged /\ UNCHANGED <<payload, inbox, outbox, done>>

-----------------------------------------------------------------------------
(* The cluster: DaemonClient._loop. *)

ThreadOnly == UNCHANGED <<hub, payload, flag, pressed, done>>
Goto(p) == thread' = [thread EXCEPT !.pc = p]

\* The connection is left, and what was in it: from an exception to the sleep.
Leave ==
  /\ thread' = [pc |-> "sleep", pending |-> << >>]
  /\ screen' = [screen EXCEPT !.connected = FALSE]
  /\ link' = "none" /\ inbox' = << >> /\ outbox' = << >>
  /\ clients' = clients \ {Cluster} /\ round' = round \ {Cluster}
  /\ apart' = (apart \/ Toggles(thread.pending) \/ Toggles(outbox))

Connect ==
  /\ thread.pc = "connect" /\ hub.up
  /\ Goto("take") /\ screen' = [screen EXCEPT !.connected = TRUE]
  /\ link' = "up" /\ clients' = clients \cup {Cluster}
  /\ ThreadOnly /\ UNCHANGED <<round, inbox, outbox, queue, apart>>

ConnectFails ==
  /\ thread.pc = "connect" /\ ~hub.up /\ Goto("sleep")
  /\ ThreadOnly /\ UNCHANGED <<clients, round, link, inbox, outbox, queue, screen, apart>>

LinkUnchanged == UNCHANGED <<clients, round, link, apart>>

\* Mutant: the commands taken stay in the queue.
Take_KeepsQueue ==
  /\ thread.pc = "take" /\ thread' = [pc |-> "send", pending |-> queue]
  /\ ThreadOnly /\ LinkUnchanged /\ UNCHANGED <<inbox, outbox, queue, screen>>

\* pending, self._cmds = self._cmds, []
Take ==
  /\ thread.pc = "take" /\ thread' = [pc |-> "send", pending |-> queue] /\ queue' = << >>
  /\ ThreadOnly /\ LinkUnchanged /\ UNCHANGED <<inbox, outbox, screen>>

Send ==
  /\ thread.pc = "send" /\ thread.pending # << >> /\ link # "dead"
  /\ outbox' = Append(outbox, Head(thread.pending))
  /\ thread' = [thread EXCEPT !.pending = Tail(@)]
  /\ ThreadOnly /\ LinkUnchanged /\ UNCHANGED <<inbox, queue, screen>>

\* send_json on a closed connection: the rest of pending is gone.
SendFails ==
  /\ thread.pc = "send" /\ thread.pending # << >> /\ link = "dead"
  /\ Leave /\ ThreadOnly /\ UNCHANGED queue

\* Mutant: the queue is emptied after the sends and not before.
SendDone_ClearsQueue ==
  /\ thread.pc = "send" /\ thread.pending = << >> /\ Goto("recv") /\ queue' = << >>
  /\ ThreadOnly /\ LinkUnchanged /\ UNCHANGED <<inbox, outbox, screen>>

SendDone ==
  /\ thread.pc = "send" /\ thread.pending = << >> /\ Goto("recv")
  /\ ThreadOnly /\ LinkUnchanged /\ UNCHANGED <<inbox, outbox, queue, screen>>

\* What a message does to what the main loop sees; a reply has no "d".
Received(m) == IF m = None THEN screen ELSE [screen EXCEPT !.latest = m, !.fresh = TRUE]

\* Mutant: the thread reads on without a look at the commands.
Receive_ReadsOn ==
  /\ thread.pc = "recv" /\ inbox # << >> /\ Goto("recv")
  /\ screen' = Received(Head(inbox)) /\ inbox' = Tail(inbox)
  /\ ThreadOnly /\ LinkUnchanged /\ UNCHANGED <<outbox, queue>>

Receive ==
  /\ thread.pc = "recv" /\ inbox # << >> /\ Goto("take")
  /\ screen' = Received(Head(inbox)) /\ inbox' = Tail(inbox)
  /\ ThreadOnly /\ LinkUnchanged /\ UNCHANGED <<outbox, queue>>

\* Mutant: receive() has no timeout.
Disconnect_NoTimeout ==
  /\ thread.pc = "recv" /\ inbox = << >> /\ link = "dead"
  /\ Leave /\ ThreadOnly /\ UNCHANGED queue

\* The connection has been closed, or was silent for two seconds.
Disconnect ==
  /\ thread.pc = "recv" /\ inbox = << >> /\ link \in {"dead", "mute"}
  /\ Leave /\ ThreadOnly /\ UNCHANGED queue

Wake ==
  /\ thread.pc = "sleep" /\ Goto("connect")
  /\ ThreadOnly /\ LinkUnchanged /\ UNCHANGED <<inbox, outbox, queue, screen>>

ThreadStep == \/ Connect \/ ConnectFails \/ Take \/ Send \/ SendFails \/ SendDone
              \/ Receive \/ Disconnect \/ Wake

-----------------------------------------------------------------------------
(* The cluster: the main loop. *)

MainOnly == UNCHANGED <<daemonVars, link, inbox, outbox, done>>

Enqueue(cmd) == queue' = Append(queue, [id |-> pressed + 1, cmd |-> cmd]) /\ pressed' = pressed + 1

PressAck ==
  /\ thread.pc # "off" /\ pressed < MaxPresses /\ Enqueue("ack_alarms")
  /\ MainOnly /\ UNCHANGED <<thread, screen, flag, apart>>

PressSelect ==
  /\ thread.pc # "off" /\ pressed < MaxPresses
  /\ flag' = ~flag /\ Enqueue(IF flag' THEN "release_bt" ELSE "resume_bt")
  /\ MainOnly /\ UNCHANGED <<thread, screen, apart>>

\* Nothing has come in for two seconds.
AgesOut ==
  /\ screen.fresh /\ inbox = << >> /\ (link # "up" \/ Cluster \notin clients)
  /\ screen' = [screen EXCEPT !.fresh = FALSE]
  /\ MainOnly /\ UNCHANGED <<thread, queue, flag, pressed, apart>>

ClusterStarts ==
  /\ thread.pc = "off" /\ Goto("connect")
  /\ MainOnly /\ UNCHANGED <<queue, screen, flag, pressed, apart>>

\* systemd stops it, or the Home button: its flag and its queue are gone.
ClusterStops ==
  /\ thread.pc # "off" /\ thread' = [pc |-> "off", pending |-> << >>]
  /\ queue' = << >> /\ screen' = Blank /\ flag' = FALSE /\ apart' = TRUE
  /\ link' = "none" /\ inbox' = << >> /\ outbox' = << >>
  /\ clients' = clients \ {Cluster} /\ round' = round \ {Cluster}
  /\ UNCHANGED <<hub, payload, pressed, done>>

Next == \/ Broadcast \/ CloseQuietly \/ Execute
        \/ \E c \in Others : OtherJoins(c) \/ OtherLeaves(c)
        \/ \E cmd \in Cmds : PhoneCommands(cmd)
        \/ SourceChanges \/ DaemonStarts \/ DaemonDies
        \/ ThreadStep \/ PressAck \/ PressSelect \/ AgesOut \/ ClusterStarts \/ ClusterStops

Spec == Init /\ [][Next]_vars

\* The tasks of the daemon and the cluster's two threads all run on.
FairSpec == /\ Spec /\ WF_vars(Broadcast) /\ WF_vars(CloseQuietly) /\ WF_vars(Execute)
            /\ WF_vars(ThreadStep) /\ WF_vars(AgesOut)

-----------------------------------------------------------------------------
TypeOK ==
  /\ hub \in [up : BOOLEAN, state : States, released : BOOLEAN]
  /\ clients \subseteq Clients /\ round \subseteq Clients /\ payload \in States
  /\ link \in {"none", "up", "mute", "dead"}
  /\ inbox \in Seq(States \cup {None}) /\ Len(inbox) <= MaxInbox
  /\ outbox \in Seq(Commands) /\ queue \in Seq(Commands)
  /\ thread \in [pc : {"off", "connect", "take", "send", "recv", "sleep"}, pending : Seq(Commands)]
  /\ screen \in [latest : States \cup {None}, connected : BOOLEAN, fresh : BOOLEAN]
  /\ flag \in BOOLEAN /\ apart \in BOOLEAN
  /\ pressed \in 0..MaxPresses /\ done \in Seq(1..MaxPresses)

\* A press is executed at most once, and the presses in the order they were made, whatever
\* connections and daemons come and go between press and execution.
InOrderOnce == \A i, j \in DOMAIN done : i < j => done[i] < done[j]

\* SELECT and the source agree: with nothing under way the source is released if and only
\* if the cluster's flag says so - until the phone, a restart or the loss of a command with
\* its connection sets them apart, which nothing ever puts right.
Idle == queue = << >> /\ thread.pending = << >> /\ outbox = << >>
ToggleAgrees == ~apart /\ Idle /\ hub.up => flag = hub.released

\* The message is shown as live.
Live_Connected == screen.latest # None
Live == screen.connected /\ screen.latest # None /\ screen.fresh

\* Whatever slow clients, drops, silent connections and restarts there were: with daemon
\* and cluster up, the cluster shows the state the source is in, again and again.
ScreenRecovers ==
  \A s \in States :
    <>[](hub.up /\ hub.state = s /\ thread.pc # "off") => []<>(Live /\ screen.latest = s)

\* A daemon that is gone is shown to be gone.
NoDaemonShown == <>[](~hub.up) => <>[](~Live)

\* No command waits for ever in the cluster or in a connection.
CommandsLeave == <>[](hub.up /\ thread.pc # "off") => <>[]Idle
=============================================================================
