---------------------------- MODULE UiLinkProofs ----------------------------
(***************************************************************************)
(* What is proved of UiLink, for any clients, states, room in a connection *)
(* and number of presses.                                                  *)
(*                                                                         *)
(* A command is in one of three places between button and daemon: the      *)
(* queue, the commands the thread has taken, and the connection.  The      *)
(* inductive invariant says of all three, and of what has been executed,   *)
(* that they hold the presses in their order (Flow), and that the flag of  *)
(* the cluster is what the last toggle among them asks for or, when there  *)
(* is none, what the source is (Agreed).                                   *)
(***************************************************************************)
EXTENDS UiLink, TLAPS

\* Pending commands are those of a thread that sends.
Sending == thread.pending # << >> => thread.pc = "send"

Ordered(s) == \A i, j \in DOMAIN s : i < j => s[i].id < s[j].id
Before(s, t) == \A i \in DOMAIN s : \A j \in DOMAIN t : s[i].id < t[j].id
Made(s) == \A i \in DOMAIN s : s[i].id <= pressed
Executed(s) == \A i \in DOMAIN done : \A j \in DOMAIN s : done[i] < s[j].id

\* The presses are in their order wherever they are.
Flow ==
  /\ InOrderOnce /\ \A i \in DOMAIN done : done[i] <= pressed
  /\ Executed(outbox) /\ Executed(thread.pending) /\ Executed(queue)
  /\ Ordered(outbox) /\ Ordered(thread.pending) /\ Ordered(queue)
  /\ Before(outbox, thread.pending) /\ Before(outbox, queue) /\ Before(thread.pending, queue)
  /\ Made(outbox) /\ Made(thread.pending) /\ Made(queue)

\* The last toggle of s asks for v.
Asks(s, v) ==
  \E i \in DOMAIN s : /\ IsToggle(s[i]) /\ (s[i].cmd = "release_bt") = v
                      /\ \A j \in DOMAIN s : j > i => ~IsToggle(s[j])

\* The flag is what the last toggle on its way asks for, or what the source is.
Agreed ==
  \/ apart
  \/ Asks(queue, flag)
  \/ ~Toggles(queue) /\ Asks(thread.pending, flag)
  \/ ~Toggles(queue) /\ ~Toggles(thread.pending) /\ Asks(outbox, flag)
  \/ ~Toggles(queue) /\ ~Toggles(thread.pending) /\ ~Toggles(outbox) /\ hub.released = flag

-----------------------------------------------------------------------------
(* Sequences that lose their first element or get a last one. *)

LEMMA TailIs ==
  ASSUME NEW S, NEW s \in Seq(S), s # << >>
  PROVE  /\ Tail(s) \in Seq(S) /\ Len(Tail(s)) = Len(s) - 1
         /\ Head(s) = s[1] /\ 1 \in DOMAIN s /\ Head(s) \in S
         /\ \A i \in DOMAIN Tail(s) : i \in Nat /\ i + 1 \in DOMAIN s /\ i + 1 > 1 /\ Tail(s)[i] = s[i + 1]
         /\ \A i \in DOMAIN s : i # 1 => i - 1 \in DOMAIN Tail(s) /\ Tail(s)[i - 1] = s[i]
  OBVIOUS

LEMMA AppendIs ==
  ASSUME NEW S, NEW s \in Seq(S), NEW e \in S
  PROVE  /\ Append(s, e) \in Seq(S) /\ Len(Append(s, e)) = Len(s) + 1
         /\ Len(s) + 1 \in DOMAIN Append(s, e) /\ Append(s, e)[Len(s) + 1] = e
         /\ \A i \in DOMAIN s : i \in DOMAIN Append(s, e) /\ Append(s, e)[i] = s[i] /\ i < Len(s) + 1
         /\ \A i \in DOMAIN Append(s, e) : i \in DOMAIN s \/ i = Len(s) + 1
  OBVIOUS

LEMMA DomainsAreNat == \A S : \A s \in Seq(S) : DOMAIN s \subseteq Nat
  OBVIOUS

LEMMA ElementsAre == \A S : \A s \in Seq(S) : \A i \in DOMAIN s : s[i] \in S
  OBVIOUS

LEMMA CommandIds == \A c \in Commands : c.id \in 1..MaxPresses /\ c.cmd \in Cmds
  BY DEF Commands

\* What Head asks for passes to whoever takes it, the rest asks for as before.
LEMMA AsksTail ==
  ASSUME NEW s \in Seq(Commands), s # << >>, NEW v
  PROVE  /\ Asks(s, v) /\ Toggles(Tail(s)) => Asks(Tail(s), v)
         /\ Asks(s, v) /\ ~Toggles(Tail(s)) =>
              IsToggle(Head(s)) /\ (Head(s).cmd = "release_bt") = v
         /\ Toggles(Tail(s)) => Toggles(s)
         /\ ~Toggles(s) => ~IsToggle(Head(s))
  <1>1. /\ Head(s) = s[1] /\ 1 \in DOMAIN s
        /\ \A i \in DOMAIN Tail(s) : i \in Nat /\ i + 1 \in DOMAIN s /\ i + 1 > 1 /\ Tail(s)[i] = s[i + 1]
        /\ \A i \in DOMAIN s : i # 1 => i - 1 \in DOMAIN Tail(s) /\ Tail(s)[i - 1] = s[i]
    BY TailIs
  <1>2. \A i \in DOMAIN s : i \in Nat
    BY DomainsAreNat
  <1>3. ASSUME Asks(s, v), Toggles(Tail(s)) PROVE Asks(Tail(s), v)
    <2>1. PICK i \in DOMAIN s : /\ IsToggle(s[i]) /\ (s[i].cmd = "release_bt") = v
                                /\ \A j \in DOMAIN s : j > i => ~IsToggle(s[j])
      BY <1>3 DEF Asks
    <2>2. i # 1
      BY <1>1, <1>3, <2>1 DEF Toggles
    <2>3. i - 1 \in DOMAIN Tail(s) /\ Tail(s)[i - 1] = s[i]
      BY <1>1, <2>2
    <2>4. \A j \in DOMAIN Tail(s) : j > i - 1 => ~IsToggle(Tail(s)[j])
      BY <1>1, <1>2, <2>1
    <2> QED
      BY <2>1, <2>3, <2>4 DEF Asks
  <1>4. ASSUME Asks(s, v), ~Toggles(Tail(s))
        PROVE  IsToggle(Head(s)) /\ (Head(s).cmd = "release_bt") = v
    <2>1. PICK i \in DOMAIN s : IsToggle(s[i]) /\ (s[i].cmd = "release_bt") = v
      BY <1>4 DEF Asks
    <2>2. i = 1
      BY <1>1, <1>4, <2>1 DEF Toggles
    <2> QED
      BY <1>1, <2>1, <2>2
  <1>5. Toggles(Tail(s)) => Toggles(s)
    BY <1>1 DEF Toggles
  <1>6. ~Toggles(s) => ~IsToggle(Head(s))
    BY <1>1 DEF Toggles
  <1> QED
    BY <1>3, <1>4, <1>5, <1>6

LEMMA AsksAppend ==
  ASSUME NEW s \in Seq(Commands), NEW e \in Commands, NEW v
  PROVE  /\ IsToggle(e) /\ (e.cmd = "release_bt") = v => Asks(Append(s, e), v)
         /\ ~IsToggle(e) /\ Asks(s, v) => Asks(Append(s, e), v)
         /\ ~IsToggle(e) /\ ~Toggles(s) => ~Toggles(Append(s, e))
  <1> DEFINE a == Append(s, e)
  <1>1. /\ Len(s) + 1 \in DOMAIN a /\ a[Len(s) + 1] = e
        /\ \A i \in DOMAIN s : i \in DOMAIN a /\ a[i] = s[i] /\ i < Len(s) + 1
        /\ \A i \in DOMAIN a : i \in DOMAIN s \/ i = Len(s) + 1
    BY AppendIs
  <1>2. Len(s) \in Nat /\ \A i \in DOMAIN s : i \in Nat
    BY DomainsAreNat
  <1> HIDE DEF a
  <1>3. \A j \in DOMAIN a : ~(j > Len(s) + 1)
    BY <1>1, <1>2
  <1>4. IsToggle(e) /\ (e.cmd = "release_bt") = v => Asks(a, v)
    BY <1>1, <1>3 DEF Asks
  <1>5. ~IsToggle(e) /\ Asks(s, v) => Asks(a, v)
    BY <1>1 DEF Asks
  <1>6. ~IsToggle(e) /\ ~Toggles(s) => ~Toggles(a)
    BY <1>1 DEF Toggles
  <1> QED
    BY <1>4, <1>5, <1>6 DEF a

LEMMA EmptyAsks == ~Toggles(<< >>) /\ \A v : ~Asks(<< >>, v)
  BY DEF Toggles, Asks

-----------------------------------------------------------------------------
LEMMA EmptyIs == (\A S : << >> \in Seq(S)) /\ Len(<< >>) = 0
  OBVIOUS

LEMMA TypeInit == Init => TypeOK /\ Sending
  <1> SUFFICES ASSUME Init PROVE TypeOK /\ Sending
    OBVIOUS
  <1>1. Len(inbox) <= MaxInbox /\ pressed \in 0..MaxPresses
    BY UiLinkAssumption, EmptyIs DEF Init
  <1>2. /\ inbox \in Seq(States \cup {None}) /\ outbox \in Seq(Commands)
        /\ queue \in Seq(Commands) /\ done \in Seq(1..MaxPresses) /\ thread.pending = << >>
        /\ thread \in [pc : {"off", "connect", "take", "send", "recv", "sleep"}, pending : Seq(Commands)]
    BY EmptyIs DEF Init
  <1>3. /\ hub \in [up : BOOLEAN, state : States, released : BOOLEAN] /\ payload \in States
        /\ screen \in [latest : States \cup {None}, connected : BOOLEAN, fresh : BOOLEAN]
    BY DEF Init, States, Blank
  <1> QED
    BY <1>1, <1>2, <1>3 DEF Init, TypeOK, Sending

LEMMA LeaveTypes ==
  ASSUME TypeOK, Leave, ThreadOnly, UNCHANGED queue
  PROVE  (TypeOK /\ Sending)'
  <1>1. apart' \in BOOLEAN
    BY DEF Leave, Toggles, TypeOK
  <1>2. /\ inbox' \in Seq(States \cup {None}) /\ Len(inbox') <= MaxInbox /\ outbox' \in Seq(Commands)
        /\ thread' \in [pc : {"off", "connect", "take", "send", "recv", "sleep"}, pending : Seq(Commands)]
        /\ thread'.pending = << >>
    BY UiLinkAssumption, EmptyIs DEF Leave
  <1> QED
    BY <1>1, <1>2 DEF TypeOK, Sending, Leave, ThreadOnly

LEMMA TypeStep == TypeOK /\ Sending /\ [Next]_vars => (TypeOK /\ Sending)'
  <1> SUFFICES ASSUME TypeOK, Sending, [Next]_vars PROVE (TypeOK /\ Sending)'
    OBVIOUS
  <1> USE UiLinkAssumption DEF TypeOK, Sending
  <1>1. CASE UNCHANGED vars
    BY <1>1 DEF vars, daemonVars
  <1>2. CASE StartRound
    BY <1>2 DEF StartRound, BroadcastOnly, ClusterUnchanged
  <1>3. CASE SendCluster
    <2>1. Append(inbox, payload) \in Seq(States \cup {None}) /\ Len(Append(inbox, payload)) = Len(inbox) + 1
      BY AppendIs
    <2>2. inbox' \in Seq(States \cup {None}) /\ Len(inbox') <= MaxInbox
      <3>1. CASE inbox' = inbox
        BY <3>1
      <3>2. CASE Len(inbox) < MaxInbox /\ inbox' = Append(inbox, payload)
        <4>1. Len(inbox) \in Nat
          OBVIOUS
        <4> QED
          BY <2>1, <3>2, <4>1
      <3> QED
        BY <1>3, <3>1, <3>2 DEF SendCluster
    <2> QED
      BY <1>3, <2>2 DEF SendCluster, BroadcastOnly, ClusterUnchanged
  <1>4. ASSUME NEW c \in Others, SendOther(c) \/ OtherJoins(c) \/ OtherLeaves(c)
        PROVE  (TypeOK /\ Sending)'
    BY <1>4 DEF SendOther, OtherJoins, OtherLeaves, BroadcastOnly, ClusterUnchanged, Clients
  <1>5. CASE CloseQuietly
    BY <1>5 DEF CloseQuietly, ClusterUnchanged, daemonVars
  <1>6. CASE Execute
    <2>1. Head(outbox) \in Commands /\ Tail(outbox) \in Seq(Commands)
      BY <1>6, TailIs DEF Execute
    <2>2. hub' \in [up : BOOLEAN, state : States, released : BOOLEAN]
      BY <1>6, <2>1 DEF Execute, Commanded, States
    <2>3. done' \in Seq(1..MaxPresses)
      BY <1>6, <2>1 DEF Execute, Commands
    <2>4. inbox' \in Seq(States \cup {None}) /\ Len(inbox') <= MaxInbox
      <3>1. /\ Append(inbox, None) \in Seq(States \cup {None})
            /\ Len(Append(inbox, None)) = Len(inbox) + 1
        BY AppendIs
      <3> QED
        BY <1>6, <3>1 DEF Execute
    <2> QED
      BY <1>6, <2>1, <2>2, <2>3, <2>4 DEF Execute, ClusterUnchanged
  <1>7. ASSUME NEW cmd \in Cmds, PhoneCommands(cmd) PROVE (TypeOK /\ Sending)'
    BY <1>7 DEF PhoneCommands, Commanded, DaemonOnly, ClusterUnchanged, States
  <1>8. CASE SourceChanges \/ DaemonStarts
    BY <1>8 DEF SourceChanges, DaemonStarts, DaemonOnly, ClusterUnchanged
  <1>9. CASE DaemonDies
    BY <1>9 DEF DaemonDies, ClusterUnchanged, States
  <1>10. CASE Connect
    BY <1>10 DEF Connect, Goto, ThreadOnly, Clients
  <1>11. CASE ConnectFails \/ Wake \/ SendDone
    BY <1>11 DEF ConnectFails, Wake, SendDone, Goto, ThreadOnly, LinkUnchanged
  <1>12. CASE Take
    BY <1>12 DEF Take, ThreadOnly, LinkUnchanged
  <1>13. CASE Send
    <2>1. Head(thread.pending) \in Commands /\ Tail(thread.pending) \in Seq(Commands)
      BY <1>13, TailIs DEF Send
    <2>2. Append(outbox, Head(thread.pending)) \in Seq(Commands)
      BY <2>1, AppendIs
    <2> QED
      BY <1>13, <2>1, <2>2 DEF Send, ThreadOnly, LinkUnchanged
  <1>14. CASE SendFails \/ Disconnect
    BY <1>14, LeaveTypes DEF SendFails, Disconnect
  <1>15. CASE Receive
    <2>1. /\ Head(inbox) \in States \cup {None} /\ Tail(inbox) \in Seq(States \cup {None})
          /\ Len(Tail(inbox)) <= MaxInbox
      BY <1>15, TailIs DEF Receive
    <2>2. screen' \in [latest : States \cup {None}, connected : BOOLEAN, fresh : BOOLEAN]
      BY <1>15, <2>1 DEF Receive, Received
    <2> QED
      BY <1>15, <2>1, <2>2 DEF Receive, Goto, ThreadOnly, LinkUnchanged
  <1>16. CASE PressAck \/ PressSelect
    <2>1. PICK cmd \in Cmds : Enqueue(cmd) /\ pressed < MaxPresses
      BY <1>16 DEF PressAck, PressSelect, Cmds
    <2>2. [id |-> pressed + 1, cmd |-> cmd] \in Commands
      BY <2>1 DEF Commands
    <2>3. queue' \in Seq(Commands) /\ pressed' \in 0..MaxPresses
      BY <2>1, <2>2, AppendIs DEF Enqueue
    <2>4. flag' \in BOOLEAN
      BY <1>16 DEF PressAck, PressSelect
    <2> QED
      BY <1>16, <2>3, <2>4 DEF PressAck, PressSelect, MainOnly, daemonVars
  <1>17. CASE AgesOut \/ ClusterStarts
    BY <1>17 DEF AgesOut, ClusterStarts, Goto, MainOnly, daemonVars
  <1>18. CASE ClusterStops
    <2>1. /\ inbox' \in Seq(States \cup {None}) /\ Len(inbox') <= MaxInbox
          /\ outbox' \in Seq(Commands) /\ queue' \in Seq(Commands) /\ thread'.pending = << >>
          /\ thread' \in [pc : {"off", "connect", "take", "send", "recv", "sleep"}, pending : Seq(Commands)]
      BY <1>18, EmptyIs DEF ClusterStops
    <2> QED
      BY <1>18, <2>1 DEF ClusterStops, Blank
  <1> QED
    BY <1>1, <1>2, <1>3, <1>4, <1>5, <1>6, <1>7, <1>8, <1>9, <1>10, <1>11, <1>12, <1>13, <1>14,
       <1>15, <1>16, <1>17, <1>18 DEF Next, Broadcast, ThreadStep

(* The attributes of the daemon, the thread and the screen keep their      *)
(* types, and a connection never holds more than there is room for.        *)
THEOREM TypeCorrect == Spec => [](TypeOK /\ Sending)
  BY TypeInit, TypeStep, PTL DEF Spec

-----------------------------------------------------------------------------
(* The order of the presses. *)

LEMMA EmptyFlow ==
  /\ Executed(<< >>) /\ Ordered(<< >>) /\ Made(<< >>)
  /\ \A s : Before(<< >>, s) /\ Before(s, << >>)
  BY DEF Executed, Ordered, Made, Before

LEMMA FlowInit == Init => Flow
  BY DEF Init, Flow, InOrderOnce, Executed, Ordered, Made, Before

\* Whatever leaves the commands where they are, or drops those in the connection.
LEMMA FlowKept ==
  ASSUME Flow, UNCHANGED <<done, pressed>>,
         queue' = queue \/ queue' = << >>,
         \/ UNCHANGED <<outbox, thread.pending>>
         \/ outbox' = << >> /\ thread'.pending = << >>
  PROVE  Flow'
  BY DEF Flow, InOrderOnce, Executed, Ordered, Made, Before

LEMMA FlowTake == TypeOK /\ Sending /\ Flow /\ Take => Flow'
  <1> SUFFICES ASSUME TypeOK, Sending, Flow, Take PROVE Flow'
    OBVIOUS
  <1>1. /\ thread'.pending = queue /\ queue' = << >>
        /\ UNCHANGED <<done, pressed, outbox>>
    BY DEF Take, ThreadOnly
  <1> QED
    BY <1>1 DEF Flow, InOrderOnce, Executed, Ordered, Made, Before

LEMMA FlowSend == TypeOK /\ Flow /\ Send => Flow'
  <1> SUFFICES ASSUME TypeOK, Flow, Send PROVE Flow'
    OBVIOUS
  <1> DEFINE p == thread.pending
             h == Head(thread.pending)
             a == Append(outbox, h)
             t == Tail(thread.pending)
  <1>1. p \in Seq(Commands) /\ p # << >> /\ outbox \in Seq(Commands) /\ h \in Commands
    BY TailIs DEF Send, TypeOK
  <1>2. /\ h = p[1] /\ 1 \in DOMAIN p
        /\ \A i \in DOMAIN t : i \in Nat /\ i + 1 \in DOMAIN p /\ i + 1 > 1 /\ t[i] = p[i + 1]
    BY <1>1, TailIs
  <1>3. /\ Len(outbox) + 1 \in DOMAIN a /\ a[Len(outbox) + 1] = h
        /\ \A i \in DOMAIN outbox : i \in DOMAIN a /\ a[i] = outbox[i] /\ i < Len(outbox) + 1
        /\ \A i \in DOMAIN a : i \in DOMAIN outbox \/ i = Len(outbox) + 1
    BY <1>1, AppendIs
  <1>4. /\ outbox' = a /\ thread'.pending = t /\ UNCHANGED <<queue, done, pressed>>
    BY DEF Send, ThreadOnly, TypeOK
  <1>5. Len(outbox) \in Nat /\ DOMAIN outbox \subseteq Nat /\ DOMAIN p \subseteq Nat
    BY <1>1, DomainsAreNat
  <1> HIDE DEF p, h, a, t
  <1>6. Executed(a) /\ Made(a) /\ Before(a, queue)
    BY <1>2, <1>3 DEF Flow, Executed, Made, Before, p
  <1>7. Executed(t) /\ Made(t) /\ Before(t, queue)
    BY <1>2 DEF Flow, Executed, Made, Before, p
  <1>8. Ordered(t)
    <2> SUFFICES ASSUME NEW i \in DOMAIN t, NEW j \in DOMAIN t, i < j PROVE t[i].id < t[j].id
      BY DEF Ordered
    <2>1. i + 1 \in DOMAIN p /\ j + 1 \in DOMAIN p /\ i + 1 < j + 1
      BY <1>2
    <2>2. p[i + 1].id < p[j + 1].id
      BY <2>1 DEF Flow, Ordered, p
    <2> QED
      BY <1>2, <2>2
  <1>9. Ordered(a)
    <2> SUFFICES ASSUME NEW i \in DOMAIN a, NEW j \in DOMAIN a, i < j PROVE a[i].id < a[j].id
      BY DEF Ordered
    <2>1. CASE j \in DOMAIN outbox
      <3>1. i \in DOMAIN outbox
        BY <1>3, <1>5, <2>1
      <3> QED
        BY <1>3, <2>1, <3>1 DEF Flow, Ordered
    <2>2. CASE j = Len(outbox) + 1
      <3>1. i \in DOMAIN outbox
        BY <1>3, <1>5, <2>2
      <3>2. outbox[i].id < p[1].id
        BY <1>2, <3>1 DEF Flow, Before, p
      <3> QED
        BY <1>2, <1>3, <2>2, <3>1, <3>2
    <2> QED
      BY <1>3, <2>1, <2>2
  <1>10. Before(a, t)
    <2> SUFFICES ASSUME NEW i \in DOMAIN a, NEW j \in DOMAIN t PROVE a[i].id < t[j].id
      BY DEF Before
    <2>1. CASE i \in DOMAIN outbox
      BY <1>2, <1>3, <2>1 DEF Flow, Before, p
    <2>2. CASE i = Len(outbox) + 1
      BY <1>2, <1>3, <2>2 DEF Flow, Ordered, p
    <2> QED
      BY <1>3, <2>1, <2>2
  <1> QED
    BY <1>4, <1>6, <1>7, <1>8, <1>9, <1>10 DEF Flow, InOrderOnce, Executed, Made

LEMMA FlowExecute == TypeOK /\ Flow /\ Execute => Flow'
  <1> SUFFICES ASSUME TypeOK, Flow, Execute PROVE Flow'
    OBVIOUS
  <1> DEFINE t == Tail(outbox)
             n == Head(outbox).id
             d == Append(done, n)
  <1>1. outbox \in Seq(Commands) /\ outbox # << >> /\ done \in Seq(1..MaxPresses)
    BY DEF Execute, TypeOK
  <1>2. /\ n = outbox[1].id /\ 1 \in DOMAIN outbox /\ n \in 1..MaxPresses
        /\ \A i \in DOMAIN t : i \in Nat /\ i + 1 \in DOMAIN outbox /\ i + 1 > 1 /\ t[i] = outbox[i + 1]
    <2>1. /\ Head(outbox) = outbox[1] /\ 1 \in DOMAIN outbox /\ Head(outbox) \in Commands
          /\ \A i \in DOMAIN t : i \in Nat /\ i + 1 \in DOMAIN outbox /\ i + 1 > 1 /\ t[i] = outbox[i + 1]
      BY <1>1, TailIs
    <2> QED
      BY <2>1, CommandIds
  <1>3. /\ d[Len(done) + 1] = n
        /\ \A i \in DOMAIN done : d[i] = done[i] /\ i < Len(done) + 1
        /\ \A i \in DOMAIN d : i \in DOMAIN done \/ i = Len(done) + 1
    BY <1>1, <1>2, AppendIs
  <1>4. outbox' = t /\ done' = d /\ UNCHANGED <<thread, queue, pressed>>
    BY DEF Execute, ClusterUnchanged
  <1>5. Len(done) \in Nat /\ DOMAIN done \subseteq Nat
    BY <1>1, DomainsAreNat
  <1> HIDE DEF t, n, d
  <1>6. \A i, j \in DOMAIN d : i < j => d[i] < d[j]
    <2> SUFFICES ASSUME NEW i \in DOMAIN d, NEW j \in DOMAIN d, i < j PROVE d[i] < d[j]
      OBVIOUS
    <2>1. i \in DOMAIN done
      BY <1>3, <1>5
    <2>2. CASE j \in DOMAIN done
      BY <1>3, <2>1, <2>2 DEF Flow, InOrderOnce
    <2>3. CASE j = Len(done) + 1
      <3>1. done[i] < outbox[1].id
        BY <1>2, <2>1 DEF Flow, Executed
      <3> QED
        BY <1>2, <1>3, <2>1, <2>3, <3>1
    <2> QED
      BY <1>3, <2>2, <2>3
  <1>7. \A i \in DOMAIN d : d[i] <= pressed
    BY <1>2, <1>3 DEF Flow, Made
  <1>8. /\ \A i \in DOMAIN d : \A j \in DOMAIN t : d[i] < t[j].id
        /\ \A i \in DOMAIN d : \A j \in DOMAIN thread.pending : d[i] < thread.pending[j].id
        /\ \A i \in DOMAIN d : \A j \in DOMAIN queue : d[i] < queue[j].id
    <2>1. \A j \in DOMAIN t : n < t[j].id
      BY <1>2 DEF Flow, Ordered
    <2>2. \A i \in DOMAIN done : \A j \in DOMAIN t : done[i] < t[j].id
      BY <1>2 DEF Flow, Executed
    <2>3. /\ \A j \in DOMAIN thread.pending : n < thread.pending[j].id
          /\ \A j \in DOMAIN queue : n < queue[j].id
      BY <1>2 DEF Flow, Before
    <2> QED
      BY <1>3, <2>1, <2>2, <2>3 DEF Flow, Executed
  <1>9. Ordered(t)
    <2> SUFFICES ASSUME NEW i \in DOMAIN t, NEW j \in DOMAIN t, i < j PROVE t[i].id < t[j].id
      BY DEF Ordered
    <2>1. i + 1 \in DOMAIN outbox /\ j + 1 \in DOMAIN outbox /\ i + 1 < j + 1
      BY <1>2
    <2> QED
      BY <1>2, <2>1 DEF Flow, Ordered
  <1>10. Made(t) /\ Before(t, thread.pending) /\ Before(t, queue)
    BY <1>2 DEF Flow, Made, Before
  <1> QED
    BY <1>4, <1>6, <1>7, <1>8, <1>9, <1>10 DEF Flow, InOrderOnce, Executed, Made, Ordered, Before

LEMMA FlowPress ==
  ASSUME TypeOK, Flow, NEW cmd \in Cmds, Enqueue(cmd), pressed < MaxPresses,
         UNCHANGED <<outbox, thread, done>>
  PROVE  Flow'
  <1> DEFINE e == [id |-> pressed + 1, cmd |-> cmd]
             q == Append(queue, e)
  <1>1. e \in Commands /\ e.id = pressed + 1 /\ pressed \in Nat
    BY UiLinkAssumption DEF TypeOK, Commands
  <1>2. /\ q[Len(queue) + 1] = e
        /\ \A i \in DOMAIN queue : q[i] = queue[i] /\ i < Len(queue) + 1
        /\ \A i \in DOMAIN q : i \in DOMAIN queue \/ i = Len(queue) + 1
    BY <1>1, AppendIs DEF TypeOK
  <1>3. queue' = q /\ pressed' = pressed + 1
    BY DEF Enqueue
  <1>4. Len(queue) \in Nat /\ DOMAIN queue \subseteq Nat
    BY DomainsAreNat DEF TypeOK
  <1>5. /\ \A i \in DOMAIN done : done[i] \in Nat
        /\ \A i \in DOMAIN outbox : outbox[i].id \in Nat
        /\ \A i \in DOMAIN thread.pending : thread.pending[i].id \in Nat
        /\ \A i \in DOMAIN queue : queue[i].id \in Nat
    <2>1. \A i \in DOMAIN done : done[i] \in 1..MaxPresses
      BY ElementsAre DEF TypeOK
    <2>2. /\ \A i \in DOMAIN outbox : outbox[i] \in Commands
          /\ \A i \in DOMAIN thread.pending : thread.pending[i] \in Commands
          /\ \A i \in DOMAIN queue : queue[i] \in Commands
      BY ElementsAre DEF TypeOK
    <2>3. 1..MaxPresses \subseteq Nat
      BY UiLinkAssumption
    <2> QED
      BY <2>1, <2>2, <2>3, CommandIds
  <1> HIDE DEF e, q
  <1>6. /\ \A i \in DOMAIN done : done[i] < e.id
        /\ \A i \in DOMAIN outbox : outbox[i].id < e.id
        /\ \A i \in DOMAIN thread.pending : thread.pending[i].id < e.id
        /\ \A i \in DOMAIN queue : queue[i].id < e.id
    BY <1>1, <1>5 DEF Flow, Made
  <1>7. Executed(q) /\ Before(outbox, q) /\ Before(thread.pending, q)
    BY <1>2, <1>6 DEF Flow, Executed, Before
  <1>8. Ordered(q)
    <2> SUFFICES ASSUME NEW i \in DOMAIN q, NEW j \in DOMAIN q, i < j PROVE q[i].id < q[j].id
      BY DEF Ordered
    <2>1. i \in DOMAIN queue
      BY <1>2, <1>4
    <2> QED
      BY <1>2, <1>6, <2>1 DEF Flow, Ordered
  <1>9. /\ \A i \in DOMAIN done : done[i] <= pressed + 1
        /\ \A i \in DOMAIN outbox : outbox[i].id <= pressed + 1
        /\ \A i \in DOMAIN thread.pending : thread.pending[i].id <= pressed + 1
        /\ \A i \in DOMAIN q : q[i].id <= pressed + 1
    BY <1>1, <1>2, <1>5, <1>6
  <1> QED
    BY <1>3, <1>7, <1>8, <1>9 DEF Flow, InOrderOnce, Executed, Made, Ordered, Before

\* The commands of a step that does not move them.
LEMMA CommandsStay ==
  ASSUME TypeOK, [Next]_vars
  PROVE  \/ Execute \/ Take \/ Send \/ PressAck \/ PressSelect
         \/ SendFails \/ Disconnect \/ ClusterStops
         \/ UNCHANGED <<done, pressed, queue, outbox, thread.pending, flag>>
  BY DEF TypeOK, Next, vars, daemonVars, StartRound, SendCluster, SendOther, OtherJoins, OtherLeaves,
         BroadcastOnly, ClusterUnchanged, CloseQuietly, PhoneCommands, SourceChanges, DaemonStarts,
         DaemonOnly, DaemonDies, Broadcast, ThreadStep, Connect, ConnectFails, SendDone, Receive, Wake,
         Goto, ThreadOnly, LinkUnchanged, AgesOut, ClusterStarts, MainOnly

LEMMA FlowStep == TypeOK /\ Sending /\ Flow /\ [Next]_vars => Flow'
  <1> SUFFICES ASSUME TypeOK, Sending, Flow, [Next]_vars PROVE Flow'
    OBVIOUS
  <1>1. CASE Execute
    BY <1>1, FlowExecute
  <1>2. CASE Take
    BY <1>2, FlowTake
  <1>3. CASE Send
    BY <1>3, FlowSend
  <1>4. CASE PressAck \/ PressSelect
    <2>1. PICK cmd \in Cmds : Enqueue(cmd)
      BY <1>4 DEF PressAck, PressSelect, Cmds
    <2>2. pressed < MaxPresses /\ UNCHANGED <<outbox, thread, done>>
      BY <1>4 DEF PressAck, PressSelect, MainOnly
    <2> QED
      BY <2>1, <2>2, FlowPress
  <1>5. CASE SendFails \/ Disconnect
    <2>1. /\ UNCHANGED <<done, pressed, queue>> /\ outbox' = << >> /\ thread'.pending = << >>
      BY <1>5 DEF SendFails, Disconnect, Leave, ThreadOnly
    <2> QED
      BY <2>1, FlowKept
  <1>6. CASE ClusterStops
    <2>1. /\ UNCHANGED <<done, pressed>> /\ queue' = << >> /\ outbox' = << >> /\ thread'.pending = << >>
      BY <1>6 DEF ClusterStops
    <2> QED
      BY <2>1, FlowKept
  <1>7. CASE UNCHANGED <<done, pressed, queue, outbox, thread.pending, flag>>
    BY <1>7, FlowKept
  <1> QED
    BY <1>1, <1>2, <1>3, <1>4, <1>5, <1>6, <1>7, CommandsStay

(* A press is executed at most once and the presses in their order, over   *)
(* any connections and daemons: the three places a command can be in pass  *)
(* it on in order, and each loses whole runs of commands or nothing.       *)
THEOREM PressesInOrder == Spec => []InOrderOnce
  <1>1. Flow => InOrderOnce
    BY DEF Flow
  <1> QED
    BY <1>1, TypeInit, TypeStep, FlowInit, FlowStep, PTL DEF Spec

-----------------------------------------------------------------------------
(* The flag and the source. *)

LEMMA AgreedInit == Init => Agreed
  <1> SUFFICES ASSUME Init PROVE Agreed
    OBVIOUS
  <1>1. ~Toggles(queue) /\ ~Toggles(thread.pending) /\ ~Toggles(outbox)
    BY DEF Init, Toggles
  <1>2. hub.released = flag
    BY DEF Init
  <1> QED
    BY <1>1, <1>2 DEF Agreed

LEMMA AsksToggles == \A s, v : Asks(s, v) => Toggles(s)
  BY DEF Asks, Toggles

LEMMA AgreedTake == TypeOK /\ Sending /\ Agreed /\ Take => Agreed'
  <1> SUFFICES ASSUME TypeOK, Sending, Agreed, Take PROVE Agreed'
    OBVIOUS
  <1>1. /\ thread.pending = << >> /\ thread'.pending = queue /\ queue' = << >>
        /\ UNCHANGED <<outbox, hub, flag, apart>>
    BY DEF Take, Sending, ThreadOnly, LinkUnchanged
  <1> QED
    BY <1>1, EmptyAsks DEF Agreed, Toggles, Asks

LEMMA AgreedSend == TypeOK /\ Agreed /\ Send => Agreed'
  <1> SUFFICES ASSUME TypeOK, Agreed, Send PROVE Agreed'
    OBVIOUS
  <1> DEFINE p == thread.pending
             h == Head(thread.pending)
             t == Tail(thread.pending)
             a == Append(outbox, h)
  <1>1. p \in Seq(Commands) /\ p # << >> /\ outbox \in Seq(Commands) /\ h \in Commands
    BY TailIs DEF Send, TypeOK
  <1>2. /\ Asks(p, flag) /\ Toggles(t) => Asks(t, flag)
        /\ Asks(p, flag) /\ ~Toggles(t) => IsToggle(h) /\ (h.cmd = "release_bt") = flag
        /\ Toggles(t) => Toggles(p)
        /\ ~Toggles(p) => ~IsToggle(h)
    BY <1>1, AsksTail
  <1>3. /\ IsToggle(h) /\ (h.cmd = "release_bt") = flag => Asks(a, flag)
        /\ ~IsToggle(h) /\ Asks(outbox, flag) => Asks(a, flag)
        /\ ~IsToggle(h) /\ ~Toggles(outbox) => ~Toggles(a)
    BY <1>1, AsksAppend
  <1>4. outbox' = a /\ thread'.pending = t /\ UNCHANGED <<queue, hub, flag, apart>>
    BY DEF Send, ThreadOnly, LinkUnchanged, TypeOK
  <1> HIDE DEF p, h, t, a
  <1>5. /\ Toggles(queue)' = Toggles(queue) /\ Asks(queue, flag)' = Asks(queue, flag)
        /\ Toggles(thread.pending)' = Toggles(t) /\ Asks(thread.pending, flag)' = Asks(t, flag)
        /\ Toggles(outbox)' = Toggles(a) /\ Asks(outbox, flag)' = Asks(a, flag)
    BY <1>4 DEF Toggles, Asks
  <1>6. /\ Toggles(thread.pending) = Toggles(p) /\ Asks(thread.pending, flag) = Asks(p, flag)
    BY DEF p
  <1>7. CASE apart \/ Asks(queue, flag)
    BY <1>4, <1>5, <1>7 DEF Agreed
  <1>8. CASE ~Toggles(queue) /\ Asks(p, flag)
    <2>1. CASE Toggles(t)
      BY <1>2, <1>5, <1>8, <2>1 DEF Agreed
    <2>2. CASE ~Toggles(t)
      <3>1. Asks(a, flag)
        BY <1>2, <1>3, <1>8, <2>2
      <3> QED
        BY <1>5, <1>8, <2>2, <3>1 DEF Agreed
    <2> QED
      BY <2>1, <2>2
  <1>9. CASE ~Toggles(queue) /\ ~Toggles(p)
    <2>1. ~IsToggle(h) /\ ~Toggles(t)
      BY <1>2, <1>9
    <2>2. Asks(outbox, flag) => Asks(a, flag)
      BY <1>3, <2>1
    <2>3. ~Toggles(outbox) => ~Toggles(a)
      BY <1>3, <2>1
    <2>4. CASE Asks(outbox, flag)
      BY <1>5, <1>9, <2>1, <2>2, <2>4 DEF Agreed
    <2>5. CASE ~Toggles(outbox) /\ hub.released = flag
      BY <1>4, <1>5, <1>9, <2>1, <2>3, <2>5 DEF Agreed
    <2>6. CASE apart \/ Asks(queue, flag) \/ Asks(p, flag)
      BY <1>7, <1>8, <1>9, <2>6
    <2> QED
      BY <1>6, <2>4, <2>5, <2>6 DEF Agreed
  <1> QED
    BY <1>6, <1>7, <1>8, <1>9 DEF Agreed

LEMMA AgreedExecute == TypeOK /\ Agreed /\ Execute => Agreed'
  <1> SUFFICES ASSUME TypeOK, Agreed, Execute PROVE Agreed'
    OBVIOUS
  <1> DEFINE h == Head(outbox)
             t == Tail(outbox)
  <1>1. outbox \in Seq(Commands) /\ outbox # << >> /\ h \in Commands
    BY TailIs DEF Execute, TypeOK
  <1>2. /\ Asks(outbox, flag) /\ Toggles(t) => Asks(t, flag)
        /\ Asks(outbox, flag) /\ ~Toggles(t) => IsToggle(h) /\ (h.cmd = "release_bt") = flag
        /\ Toggles(t) => Toggles(outbox)
        /\ ~Toggles(outbox) => ~IsToggle(h)
    BY <1>1, AsksTail
  <1>3. /\ outbox' = t /\ hub' = Commanded(h.cmd) /\ UNCHANGED <<queue, thread, flag, apart>>
    BY DEF Execute, ClusterUnchanged
  <1>4. /\ IsToggle(h) /\ (h.cmd = "release_bt") = flag => hub'.released = flag
        /\ ~IsToggle(h) => hub' = hub
    BY <1>1, <1>3, CommandIds DEF Commanded, IsToggle, Cmds, TypeOK
  <1> HIDE DEF h, t
  <1>5. /\ Toggles(queue)' = Toggles(queue) /\ Asks(queue, flag)' = Asks(queue, flag)
        /\ Toggles(thread.pending)' = Toggles(thread.pending)
        /\ Asks(thread.pending, flag)' = Asks(thread.pending, flag)
        /\ Toggles(outbox)' = Toggles(t) /\ Asks(outbox, flag)' = Asks(t, flag)
    BY <1>3 DEF Toggles, Asks
  <1>6. CASE apart \/ Asks(queue, flag) \/ (~Toggles(queue) /\ Asks(thread.pending, flag))
    BY <1>3, <1>5, <1>6 DEF Agreed
  <1>7. CASE ~Toggles(queue) /\ ~Toggles(thread.pending) /\ Asks(outbox, flag)
    <2>1. CASE Toggles(t)
      BY <1>2, <1>5, <1>7, <2>1 DEF Agreed
    <2>2. CASE ~Toggles(t)
      <3>1. hub'.released = flag
        BY <1>2, <1>4, <1>7, <2>2
      <3> QED
        BY <1>3, <1>5, <1>7, <2>2, <3>1 DEF Agreed
    <2> QED
      BY <2>1, <2>2
  <1>8. CASE /\ ~Toggles(queue) /\ ~Toggles(thread.pending) /\ ~Toggles(outbox)
             /\ hub.released = flag
    <2>1. ~Toggles(t) /\ hub' = hub
      BY <1>2, <1>4, <1>8
    <2> QED
      BY <1>3, <1>5, <1>8, <2>1 DEF Agreed
  <1>9. \/ apart \/ Asks(queue, flag) \/ (~Toggles(queue) /\ Asks(thread.pending, flag))
        \/ ~Toggles(queue) /\ ~Toggles(thread.pending) /\ Asks(outbox, flag)
        \/ ~Toggles(queue) /\ ~Toggles(thread.pending) /\ ~Toggles(outbox) /\ hub.released = flag
    BY DEF Agreed
  <1> QED
    BY <1>6, <1>7, <1>8, <1>9

LEMMA AgreedPress == TypeOK /\ Agreed /\ (PressAck \/ PressSelect) => Agreed'
  <1> SUFFICES ASSUME TypeOK, Agreed, PressAck \/ PressSelect PROVE Agreed'
    OBVIOUS
  <1>1. PICK cmd \in Cmds : /\ Enqueue(cmd) /\ pressed < MaxPresses
                            /\ \/ cmd = "ack_alarms" /\ flag' = flag
                               \/ cmd # "ack_alarms" /\ (cmd = "release_bt") = flag'
    BY DEF PressAck, PressSelect, Cmds, TypeOK
  <1> DEFINE e == [id |-> pressed + 1, cmd |-> cmd]
             q == Append(queue, e)
  <1>2. e \in Commands /\ queue \in Seq(Commands) /\ e.cmd = cmd
    BY <1>1, UiLinkAssumption DEF TypeOK, Commands
  <1>3. /\ IsToggle(e) /\ (e.cmd = "release_bt") = flag' => Asks(q, flag')
        /\ ~IsToggle(e) /\ Asks(queue, flag') => Asks(q, flag')
        /\ ~IsToggle(e) /\ ~Toggles(queue) => ~Toggles(q)
    BY <1>2, AsksAppend
  <1>4. queue' = q /\ UNCHANGED <<outbox, thread, hub, apart>>
    BY <1>1 DEF Enqueue, PressAck, PressSelect, MainOnly, daemonVars
  <1> HIDE DEF e, q
  <1>5. /\ Toggles(queue)' = Toggles(q) /\ Asks(queue, flag)' = Asks(q, flag')
        /\ Toggles(thread.pending)' = Toggles(thread.pending)
        /\ Asks(thread.pending, flag)' = Asks(thread.pending, flag')
        /\ Toggles(outbox)' = Toggles(outbox) /\ Asks(outbox, flag)' = Asks(outbox, flag')
    BY <1>4 DEF Toggles, Asks
  <1>6. CASE cmd = "ack_alarms" /\ flag' = flag
    <2>1. ~IsToggle(e)
      BY <1>2, <1>6 DEF IsToggle
    <2> QED
      BY <1>3, <1>4, <1>5, <1>6, <2>1 DEF Agreed
  <1>7. CASE cmd # "ack_alarms" /\ (cmd = "release_bt") = flag'
    <2>1. IsToggle(e)
      BY <1>2, <1>7 DEF IsToggle
    <2> QED
      BY <1>2, <1>3, <1>5, <1>7, <2>1 DEF Agreed
  <1> QED
    BY <1>1, <1>6, <1>7

LEMMA AgreedLeave == Agreed /\ Leave /\ ThreadOnly /\ UNCHANGED queue => Agreed'
  <1> SUFFICES ASSUME Agreed, Leave, ThreadOnly, UNCHANGED queue PROVE Agreed'
    OBVIOUS
  <1>1. /\ outbox' = << >> /\ thread'.pending = << >> /\ UNCHANGED <<queue, hub, flag>>
        /\ apart' = (apart \/ Toggles(thread.pending) \/ Toggles(outbox))
    BY DEF Leave, ThreadOnly
  <1>2. /\ Toggles(queue)' = Toggles(queue) /\ Asks(queue, flag)' = Asks(queue, flag)
        /\ ~Toggles(thread.pending)' /\ ~Toggles(outbox)'
    BY <1>1 DEF Toggles, Asks
  <1> QED
    BY <1>1, <1>2, AsksToggles DEF Agreed

\* The daemon and the phone either leave the source's flag alone or set the two apart.
LEMMA SourceStays ==
  ASSUME TypeOK, [Next]_vars
  PROVE  \/ Execute \/ Take \/ Send \/ PressAck \/ PressSelect
         \/ SendFails \/ Disconnect
         \/ apart' = TRUE
         \/ UNCHANGED <<hub.released, apart, queue, outbox, thread.pending, flag>>
  BY DEF TypeOK, Next, vars, daemonVars, StartRound, SendCluster, SendOther, OtherJoins, OtherLeaves,
         BroadcastOnly, ClusterUnchanged, CloseQuietly, PhoneCommands, SourceChanges, DaemonStarts,
         DaemonOnly, DaemonDies, Broadcast, ThreadStep, Connect, ConnectFails, SendDone, Receive, Wake,
         Goto, ThreadOnly, LinkUnchanged, AgesOut, ClusterStarts, ClusterStops, MainOnly

LEMMA AgreedStep == TypeOK /\ Sending /\ Agreed /\ [Next]_vars => Agreed'
  <1> SUFFICES ASSUME TypeOK, Sending, Agreed, [Next]_vars PROVE Agreed'
    OBVIOUS
  <1>1. CASE Execute \/ Take \/ Send \/ PressAck \/ PressSelect
    BY <1>1, AgreedExecute, AgreedTake, AgreedSend, AgreedPress
  <1>2. CASE SendFails \/ Disconnect
    BY <1>2, AgreedLeave DEF SendFails, Disconnect
  <1>3. CASE apart' = TRUE
    BY <1>3 DEF Agreed
  <1>4. CASE UNCHANGED <<hub.released, apart, queue, outbox, thread.pending, flag>>
    BY <1>4 DEF Agreed, Toggles, Asks
  <1> QED
    BY <1>1, <1>2, <1>3, <1>4, SourceStays

(* With nothing under way SELECT's flag and the source agree, until the    *)
(* phone, a restart or a lost command sets them apart: whichever place the *)
(* last toggle is in asks for what the flag says, and the next place gets  *)
(* it from there.                                                          *)
THEOREM FlagAgrees == Spec => []ToggleAgrees
  <1>1. Agreed => ToggleAgrees
    BY EmptyAsks DEF Agreed, ToggleAgrees, Idle
  <1> QED
    BY <1>1, TypeInit, TypeStep, AgreedInit, AgreedStep, PTL DEF Spec
=============================================================================
