# PSPiDash in TLA+

A verification project for PSPiDash, the gauge cluster that reads a Hondata S300
ECU over Bluetooth and draws it on a PSPi 6 handheld. It models the parts where
threads, processes, the radio, the ignition key, the power supply and people meet,
checks them with TLC on small instances, and proves the safety properties with TLAPS for
every value of the constants.

    tlc  -config LiveSource_safety.cfg MCLiveSource.tla
    tlapm LiveSourceProofs.tla

`PROJECT.json` lists the runs, what each definition models (file and lines), the
mutants every property is tried on, the hazards of the code and the theorems.

## 1. The system

Two processes and an ECU:

    ECU <--RFCOMM--> s300d: source thread --Hub--> asyncio thread <--WebSocket--> s300ui
                                             |                                     |
                                             +--- settings page (phone) --> config.yaml

| component | state it keeps | operations | what makes it hard |
|---|---|---|---|
| **LiveSource** `s300d/client.py` | connection state, socket, released/closed flags, decode table, back-off | `frames()` in the source thread; `release`, `resume`, `close` from the asyncio thread | two threads, no lock, blocking socket calls, retries, ECU off or gone |
| **AlarmEngine** `s300d/alarms.py` | per rule: level, latch, debounce counters, history, `crit_since` | `update` per frame, `ack` | long legal sequences; the order of branches; gates |
| **Hub** `s300d/server.py` | engine, its channel list, published alarms and gauges | `ingest` (source thread); `reload`, `command`, `snapshot` (asyncio) | test and use of the engine outside the lock |
| **Settings service** `s300d/settings.py` | `config.yaml`; a form per phone | `put_config` (patch, checks, atomic save, reload), reads, commands; the page's script | crashes and power cuts; failure between two steps; two phones with old forms |
| **Cluster main loop** `s300ui/__main__.py` | configuration, its mtime, the SELECT flag | polling every 2 s, buttons, drawing | a check and a read that are not one step; FAT mtimes |
| Broadcast server, `ws_handler` `s300d/server.py` | set of clients | broadcast at 30 Hz, commands | slow clients, clients leaving during a send |
| DaemonClient `s300ui/wsclient.py` | latest message, pending commands | reconnecting loop | lost and late commands, stale messages |
| Framing `s300d/protocol.py` | receive buffer | `read_packet` | partial and coalesced reads; what is left of a dead connection |
| Channel decoding `s300d/channels.py` | none | offset table, decode, scaling | offsets of the wrong channel list |
| Recorder `tools/record.py` | the list written last | `record` | a list that changes between connections; being killed |
| ReplaySource `tools/replay.py` | same interface as LiveSource | `frames`, `release`, `resume`, `close` | a second implementation of one contract |
| Layout and rendering `s300ui/layout.py`, `render.py` | none | the colours of tiles, needles and bands | three readings of one rule beside the engine's |
| Home button `deploy/cluster_toggle.py` | time of the last press | debounce, toggle | presses queued while it blocks; kills between two calls |
| synth, tools' config loader, deployment | - | pure or I/O | - |

The components interact through calls (Hub to its source, settings page to Hub),
shared attributes (`LiveSource._sock`, `Hub.engine`), two files (`config.yaml`, a
capture), WebSocket messages and, for the Home button, systemd.

What makes each component correct: a release really frees the ECU and nothing is
polled after it; the source reconnects for ever; no frame is decoded with a stale
table; an alarm shows only after its debounce, always shows then, and a critical
stays until it is acknowledged; the file is never torn, never contradicts itself,
and everybody ends up with what it says; a save changes what its owner meant to
change; a press of a button acts once; a drive played back is the drive recorded.

## 2. The modules

| module | stands for |
|---|---|
| `EcuLink` | the abstract contract of the RFCOMM channel: wanted, being tried, held |
| `LiveSource` | `client.py`, both threads, with `Hub.reload`'s bounce and `Hub.stop` as callers |
| `MCLiveSource` | LiveSource for TLC, and the symmetry of its runs |
| `LiveSourceProofs` | its theorems, and that it implements `EcuLink` |
| `AlarmEngine` | one rule of `alarms.py`, all kinds of rule |
| `Display` | what the cluster makes of the same rule and readings: the colour of tile and needle, the bands of the gauge; extends `AlarmEngine` |
| `MCAlarmEngine` | AlarmEngine and Display for TLC: scaled-down rules of `config.yaml` |
| `AlarmEngineProofs` | the theorems about both |
| `Hub` | `server.py`'s class Hub, both threads, with a one-sample engine |
| `HubProofs` | its theorems |
| `Settings` | `config.yaml`: `put_config`, `save_atomic`, daemon start and stop, the cluster's polling, the power supply |
| `SettingsProofs` | its theorems |
| `UiLink` | the WebSocket: `broadcast_loop`, `ws_handler`, `DaemonClient`, the cluster's buttons and its staleness test |
| `UiLinkProofs` | its theorems |
| `Capture` | a drive from the bytes of the connection to the frames of a replay: `protocol.py`, the offset table of `channels.py`, `record.py`, `replay.py` |
| `Drive` | the abstract promise of a capture: frames recorded one after the other, then shown from the first on |
| `MCCapture` | Capture for TLC: three channel lists, two of them with packets of one size |
| `CaptureProofs` | its theorems, and that it implements `Drive` |
| `Page` | the settings page on several phones, `apply_patch` and its checks, what daemon and cluster make of a field, what a starting daemon takes from the file |
| `MCPage` | Page for TLC: two files and what may be typed |
| `PageProofs` | its theorems |
| `Toggle` | the Home button: `main` and `toggle` of `cluster_toggle.py`, with gamepad, clock and systemd |
| `ToggleProofs` | its theorems |

### How the models correspond to the code

**Atomicity.** CPython switches threads at a call, at the head of a loop, and where
the interpreter lock is dropped in a blocking operation; an action is what one
thread does between two such points. Hence `_set_state` is two steps (a log call
lies between its test and its assignment: `SetStateThen`/`WriteState` and
`CtlTestState`/`CtlWriteState`), `_teardown` is three (`Finally`, `DropSocket`,
`ClearState`), and the construction of an engine and its assignment are two
(`BuildEngine`, `AssignEngine`). Where several switch points lie within one
action, no shared attribute is touched between them. The steps `update()` takes
inside one frame are one action of `Hub`: for its one rule they commute with what
an `ack()` does in between, except that `ack()` drops the latch and clears the
level in two steps, and those are kept apart (`Ack`, `AckClear`).

**LiveSource.** `pc` is where `frames()`, `_handshake` and `_stream` are; the
attributes have their own names (`sock` says whether `_sock` is set). `cmd` is the
command being exchanged. `link` is the channel as the ECU sees it: closing a
socket ends it, although the kernel may keep the descriptor for the two seconds a
`recv` in another thread takes to time out. A decode table is the pair of the
channel list and the scaling it is built from, which is all the freshness
properties ask of it. Delays count half seconds. The environment turns the
ignition, takes the ECU away, breaks the link (only of an ECU that is not well)
and reconfigures the channel list between connections. `reached` is a history
variable.

**AlarmEngine and Display.** One rule, chosen in `Init`. Times are ages, so runs have no
last instant; ages and counters stop at the limit they are compared with. `trail` (the
reading of each of the last `samples` samples and what became of it) and `hitFor` (for how long every sample has been
a critical hit) are history variables. The four alternatives of `Judge` are the
`if`/`elif` branches in their order. A channel the ECU lacks is missing for the
life of an engine, so missing values are not among the inputs. A message carries the
readings of a frame with the alarms after it, so the tile shows the last reading of
`trail` while the banner shows `level`. The two need not agree: the engine counts
samples, keeps a level until the clear band and a critical until its ack, and the tile
does none of this (a coolant back from 106 to 102 °C with warn 105 and clear 100 is
still an alarm, on a tile that is not coloured). `ShownAlike` says where they do:
once the tile has kept its colour for the samples of the rule, the alarm has its
level, or is above it with a reason. Gates (`rpm_min`) are the engine's alone: the
battery tile turns red with the engine off, where the engine raises nothing, so a
sample behind a gate says nothing of the tile. The gauge's bands are clipped to its
range; on the line between two bands no more is said of the needle.

**Hub.** `ing` and `asy` are the two threads with their locals. `shown` is what
`snapshot` reads. `cause` is history: what, since the critical tripped, may take
it off the screen. The engine is the one of `AlarmEngine` for a rule with
`samples = 1`: a frame is beyond critical or in the clear band.

**Settings.** A save is the steps of `save_atomic` and then the reload; any step may
fail, the daemon may be killed at each, and the power cut. What the kernel has not
written back may be lost in a cut, and a file renamed without an fsync may come back
without its data. A configuration stands for what `Hub.reload` or the cluster apply;
what is in it, and `mac` and `poll_hz`, which only a starting daemon reads, are in
`Page`. `missed` is history: a save the cluster cannot notice by its mtime.

**UiLink.** `hub` is what the clients see of the daemon, `link` with `inbox` and
`outbox` the cluster's connection, `thread` where `DaemonClient._loop` is, `screen`
what the main loop reads of it, `flag` the `released` of the main loop. A message is
the state it carries; the reply to a command is `None`, as it leaves the screen
alone. A slow cluster is a full `inbox`: the send runs into its timeout and the
client is dropped, and closed or, if that takes longer than a second, left without
a word (`mute`). Times are not counted: a client that is being served hears of the
broadcaster within the two seconds of its timeouts (a round takes half a second
for each slow client until that one is dropped, so this holds for up to three at
once), and a sleep takes any time. `apart` is history: a command from the phone, a
restart of either end, or a toggle lost with its connection.

**Capture.** The connection is a sequence of bytes, each known by the packet,
channel and place it belongs to, so that a frame is right when its values are made
of one packet's bytes, in their places. `buf` is `_buf`; `Filling` is where `_fill`
waits, and a connection may be cut there at any byte. What the first bytes of a
buffer say when they are no header is anything (`Headers`), among it a size and a
command that pass the checks. The ECU may send a datalog packet nobody asked for
or change its channels while connected, which ends in a `ProtocolError`: packets
carry no channels, and all the code can see of such a change is another packet size.
Channels that change under it into others of the same size are decoded with the
wrong offsets until the next handshake; the model assumes that the ECU does not do
this within a connection (`EcuChanges`), only between two. A packet nobody asked for is not lost: every later frame of the connection is one poll
older than its request. `StopRecording` leaves what the recorder's buffered writes
may leave. In the terms of `Drive`, `live` are the frames and `out` those watched. The
second half is `ReplaySource`: `at` is where `frames()` is. A replay
of a file without records, looped, spins without ever leaving its thread.

**Page.** `page[p]` is what one phone shows: the file it was loaded from, the form as
edited, and the patch while the request is out. `Shown`, `Optional` and `NewScaling`
are the script's `loadAll` and `save`, which send the whole form and leave blank fields
out, or not; `Merged` and `Accepted` are `apply_patch`. One request per phone is out at
a time, and the steps of the save are those of `Settings`. `Meaning` is what daemon and
cluster make of a field and `ShownValue` what the page makes of it: they differ of a
rule without `enabled`, of a tile that is no sensor's and of a colour that is not
written `#rrggbb`. One rule, one tile and one colour stand for all.

**Toggle.** `pc` is where `main` and `toggle` are; `since` is `now - last`. Each
press in the kernel's queue carries how long ago, when it was made, a press had
been acted on, and whether it had to wait for `toggle()`. `units` are the UIs
systemd runs; a killed service leaves a job that may still be carried out.

## 3. What the runs check

| run | question | states | answer |
|---|---|---|---|
| `LiveSource_safety` | under every interleaving, is the link freed, owned, fresh, retried on schedule, and does it implement `EcuLink`? | 777,807 (with symmetry) | yes |
| `LiveSource_liveness` | does a release free the ECU, does the source come back, does it end? | 281,792 | yes |
| `AlarmEngine` | debounce, latch, hysteresis, nothing missed, every alarm ends; do a steady tile and needle show the alarm's level? | 11,189 | yes |
| `Hub` | does the engine fit the frame, does a race lose a latch, does what is published come right? | 73,772 | yes |
| `Settings` | is the file whole, do daemon and cluster follow it? | 6,644 | yes |
| `UiLink` | is each press executed once and in order, does SELECT agree with the source, does the screen come right again? | 425,559 | yes |
| `Capture` | is each frame of a replay a frame the ECU sent, whole and in order; is the whole a `Drive`; does it pick up a new scaling? | 287,798 | yes |
| `Page` | does a save change only what was edited; is a second, untouched save accepted, and without effect? | 328,327 (with symmetry) | yes, the first with three exceptions |
| `Toggle` | is a bounce ignored, does a toggle end with one UI? | 42,508 | yes, unless it waited for one |
| `LiveSource_raises` | does `frames()` never raise on link errors? | - | no |
| `Hub_reload` | does a reload take effect on the next frame? | - | no |
| `Page_applied` | does the daemon use what the page says is applied? | - | no |

The last three state what a comment or a document says; the findings of
`PROJECT.json` quote the line and the code that does otherwise:

* **A release can kill the source thread.** `_stream` tests `_sock` and `_send`
  uses it; the other thread's teardown in between makes it `None`, and the
  AttributeError passes the `except` of `frames()`. The display then says ERROR
  until the daemon is restarted. `Recovers` is stated with this exception, so that
  it shows that there is no other way to stop for good.
* **A reload can be lost**, if it falls into the construction of an engine, or end
  the source thread, if it falls between the test and the use of one.
* **MAC, channel and poll rate are saved and not applied**: the source is built
  when the daemon starts, and the page says "Saved & applied" of them as of all.

The properties that hold are as strong as the code allows, and their exceptions
say where it does less than one might expect:

* A release that meets a connection attempt does not hold DISCONNECTED: the
  attempt goes on, may connect, and drops the link at the head of the stream loop.
  `EcuLink` is the promise that is left: at most the attempt already under way.
* "IGN OFF" is not seen for longer than a moment, as the `finally` clause resets
  the state before the wait (`QuietWhenIdle` asks for just that).
* `sustained_s` counts the time behind a gate (`Sustained` is about rules without).
* The cluster can miss a save made while it starts, or within the two second
  tick of the FAT clock of the one before (`missed`).
* A save takes back what another phone has saved since its page was loaded, drops
  overrides the page cannot show (those with an offset, or of a type without a
  field), and writes what the page shows where that is something else: a rule
  without `enabled`, which is in force (`alarms.py:121`, `render.py:63`), is shown
  unchecked (`settings.py:301`), so that any save disables the alarm; an unknown tile
  becomes the first of the menu, and a colour that is not written `#rrggbb` black.
  `SavesOnlyEdits` names the three cases; `SavedAgain` says that after one accepted
  save nothing of this is left to happen.
* A press made while `toggle()` waits for systemctl is timed when it is read, and a
  bounce is acted on if that took longer than the debounce: `BounceOnlyWhileBusy` says
  nothing of presses that waited (`waited`). A service killed between its two calls, or a lightdm that does
  not start, leaves no UI until the next press (`broken`).
* A new scaling bounces a replay and is not decoded with until its next `channels`
  record (`ScalingCatchesUp` is of looped ones).

Two more. Any save drops the latched criticals, acknowledged or not, as the reload
replaces the engine: `LatchHasCause` counts a reload as a cause, although the page says
without reservation "Critical alarms latch until Ack" (`settings.py:274`), which holds
of the engine (`LatchedUntilAck`) and not over a save. And once the phone or a restart
has set the SELECT flag apart from the source nothing puts it right, so that every other
press does nothing (`ToggleAgrees` is about all other cases).

Some of these exceptions are the very case of a hazard that `PROJECT.json` lists: `missed`
of a save the mtime does not show, `apart` of the SELECT flag, `waited` of the queued
bounce, `broken` of the killed toggle. There the code does go wrong, and the property
bounds the damage to that case; it does not show the case harmless.

### Bounds

* *Scalings, channel lists, configurations*: two of each. The properties compare
  one with another, so two tell fresh from stale. One channel list suffices where
  a run does not ask about it. Symmetry is used only in the safety run.
* *ECU*: up, key off, gone; the liveness run leaves out key off, which only adds
  another failure of the same attempt.
* *Rules*: six, one of each kind in `config.yaml` with `samples` from 1 to 3; the
  readings 0 to 4 lie on both sides of every threshold and on it; frames are 1 or 3
  apart, so that a window of 2 and a `sustained_s` of 3 are met exactly and missed.
  One rule has its critical below its clear threshold, which the page accepts. The
  gauge's range, 1 to 4, leaves a reading outside and every band of one rule inside.
* *Time* (`MaxTime = 2`): three ticks, so that two saves may share one, and a third
  be seen. It bounds nothing else; saves, cuts and restarts are unlimited.
* *Presses* (`MaxPresses = 2`): two commands can be in any two of the four places
  between button and daemon, and be a release and its resume. *Messages in the
  connection* (`MaxInbox = 1`): one fills it, so that the slow-client path is taken;
  `MaxInbox = 2` (989,003 states) passes as well, but takes over two minutes.
  *Clients*: the cluster and one other, which stands for any that are slow or leave
  in the middle of a round.
* *Capture* (`MaxConns = 3`, `MaxPackets = 3`, `MaxControls = 2`, a header of two
  bytes): two connections with other lists and a third that goes back to the first;
  one packet early, one asked for and one on top; a release and a resume, or a
  change of scaling before or after either. Two of the three lists have packets of
  one size, with the same channels elsewhere, and the third is shorter; a header of two bytes and
  values of one and two can be cut in every way that longer ones can.
* *Phones, files, edits* (`MaxEdits = 2`): two phones with an edit each, or one with
  two in either order; the file shipped and one edited by hand, between them both
  directions of a rule, every kind of override and every field that can be absent or
  shown as something else. The thresholds typed lie on both sides of each other.
* *Toggle* (a debounce of 3 ticks, a rescan and a `RestartSec` of 4, `MaxPresses = 4`,
  `MaxKills = 2`, `MaxUnplugs = 2`): the delays keep their order; four presses can be
  one acted on, one that waits, one ignored and one acted on again, with a kill or
  an unplugged gamepad between any of them.

Every property has been tried on a mutant of the code it is about (`mutants` in
`PROJECT.json`, the definitions marked "Mutant" in the modules) and fails on it.

### Fairness

* LiveSource: weak fairness of each thread. Every socket operation has a two second
  timeout, every sleep ends, and a call once begun runs on. The ECU is not assumed
  fair: `Recovers` asks only of behaviours where it stays well.
* AlarmEngine: none. That an alarm ends needs no fairness: it ends at the first sample
  back, or at the ack after it (`Ends` is an invariant).
* Hub: both threads run on; frames keep coming while the link streams.
* Settings: a save runs to its end, the cluster keeps polling, and systemd
  (`Restart=always`) starts the daemon again. No fairness for the user.
* UiLink: the tasks of the asyncio loop (broadcast, close, handler) and the two
  threads of the cluster each run on, as every await has a timeout. None for the
  buttons, the phone, restarts or other clients: the properties ask only of
  behaviours where daemon and cluster stay up.
* Capture: the replay's thread runs on, its sleeps being finite, and a recording
  ends. None for the ECU, the link or the control thread.
* Page: none, its properties are safety.
* Toggle: the service runs on, `systemctl` returns (systemd kills what does not stop
  in time), time passes, and systemd restarts the service. None for presses.

## 4. What is proved

TLAPS checks these for every set of constants that satisfies the named assumption
of each module (`LiveSourceAssumption`: there is at least one scaling and channel
list; `AlarmAssumption`: rules have the fields and ranges of `RuleType`;
`HubAssumption` and `SettingsAssumption`: non-empty sets, and `None` and `Torn` are
not members of them; `UiLinkAssumption`: there is room for a message;
`ScaleAssumption`: a gauge has a range; `PageAssumption`: the shape of a file;
`RangeAssumption`: `None` is no value of a field, boxes and menus are typed into as
such, numbers are naturals, and the first file has its rule's numbers and no `poll_hz`
out of range, though `enabled`, tile, colour and `poll_hz` may be absent;
`ToggleAssumption`: the debounce is shorter than systemd's restart delay;
`CaptureAssumption`: a header and every channel have at least a byte, no channel is
twice in a list, and `None` is no list, no scaling and no table).

**LiveSource.** `IInv` adds to the types: what each call has set by the time it
reaches each step (`Calls`), where the source thread cannot hold a socket and that
a control thread about to drop one has closed it (`Holding`), what a teardown
leaves (`Rest`), who polls (`Polls`), what the tables were built from, unless a
reload has yet to close the channel (`Decoding`), and how an attempt's outcome
appears in the state and in `_last_terminal` (`Outcome`). The invariants by
themselves are not inductive: `NoLeakedLink`, for one, needs to know that the
control thread cannot be about to drop a socket while the source thread assigns a
new one. The parts are proved one after the other, each using those before it.
From it: `ReleaseStopsPolling`, `NoLinkLeaks`, `SourceRests`, `ScalingIsFresh`,
`ChannelListIsFresh`, `RetriesOnSchedule`, and `Refinement`: every step is a step
of `EcuLink` or a stutter.

**AlarmEngine.** `IInv` says that the counters never count a sample that was not a
hit, in terms of the trail (`Counted`). From it `LatchHolds`, `RisesAreDebounced`
and `EndsAreHysteretic`, for every rule. `NoAlarmMissed` needs the converse, that a
counter smaller than its limit is explained by a recent sample that broke the run
or by a clear (`Exact`), and the deadband: without one a clear may follow a hit.
`AlarmsEnd` is as strong: after a sample in the clear band there is no level but an
unacknowledged critical, and the value is still there for its ack to see (`EInv`).
`Sustained` rests on the clock of the engine never being ahead of that of the
history (`NotEarlier`), which two ages that grow to one limit preserve.
`AlarmTileAndNeedle` needs, of the trail, that what an ungated sample is said to have
done follows from its reading (`TInv`), and then `NotMissed` for a coloured tile and
`Ends` for one that is not; the needle is a matter of arithmetic, for any range.

**Hub.** `IInv` says for which list the engine is at each step of `ingest`
(`Lists`) and, as long as nothing has happened that may end it, that a latch on the
screen or about to be put there is the engine's (`Causes`). From it
`EngineIsForTheList` and `LatchNeedsACause`.

**Settings.** `IInv` says what is in the temporary file, in the file and on the
card (`Whole`) and where file and Hub stand at each step of a save (`Saving`). From
it `SavesAreAtomic`, `HubFollowsFile`, `FailedSavesChangeNothing` and
`ClusterCatchesUp`.

**UiLink.** A command is in one of three places: the queue, the thread's `pending`,
the connection. `Flow` says that each holds presses in their order, that those of
one come before those of the next, and that all come after what has been executed;
every step passes commands on or drops them. From it `InOrderOnce`. `Agreed` says
that the flag is what the last toggle under way asks for, looked for from the
button's end, or else what the source is; from it `ToggleAgrees`. Taking the queue
needs `Sending`: what was taken before has all been sent.

**Page.** `SavesOnlyEdits` is a fact of one step, field by field, once every page and
the file have the shape of a configuration (`Shape`); the patch is compared with the
file of the save and not of the load. `SavedAgain` needs that no patch leaves `enabled`
blank and no file has a `poll_hz` out of range (`Sound`); a saved file then shows every
field as what it means, so that a second save merges the values that are there.

**Toggle.** `IInv` says that a living service knows its last press or that it is long
ago, that a dead one waits longer than the debounce, and that a queued press waited
for `toggle()` or was made just now, so that reading it late does not matter. From
it `BounceOnlyWhileBusy`. `TogglesEndOnOne` is the safety half of `SettlesOnOne`: at
each step of `toggle()` the units are what its local says (`Switching`), so that one
that ends has left the UI asked for alone.

**Capture.** `FieldsTile` first: the offsets cut a packet into its channels' values,
none too short and none overlapping, for any list and sizes; `Offset` is a recursive
function, and the lemmas about it go by well-founded induction over sets of
positions. The invariant `Inv` has two parts. While a drive is recorded, LiveSource's
buffer and the bytes in flight, one after the other, are the packets after the last
one read (`Stream`: where each starts, of which list it is, and that `_stream` can tell
it from one of its own list, by its size). So the first bytes of the buffer are a
header whenever `_stream` looks at them, whatever `Headers` would allow of others, and
what is left of an old connection is nothing. Of the file it says how many frames the
lines up to each have given and under which list (`FileOf`, with the functions `count`
and `under`), that the recorder stands at its end (`Records`), and that the replay
stands at its line with just these frames and a table of just this list (`Plays`). A
file that loses its end keeps its part of both. From it `FramesAreWhole`,
`ReplayIsFaithful`, `ReplayDiesOnHalfALine` and `CaptureImplementsDrive`.

Type correctness is proved of the first five and, as a part of `Inv`, of Capture, of
the alarm engine and the Hub without a run that checks it too. Every invariant, every action property and
both refinements that a passing run checks are also theorems. Only model-checked are
the liveness properties: they need fairness and ENABLED, which this prover does not
handle. Of two of them the safety half is proved: `ClusterCatchesUp` is that of
`SavesReachCluster`, `TogglesEndOnOne` that of `SettlesOnOne`.

## 5. Not modelled

Conversions of gauge values to units (arithmetic on one frame), formatting, placing
and drawing, the shift light's stages, the danger screen, menus and joysticks of the cluster, HTTP and
WebSocket plumbing, the generator of test captures, the tools' YAML parser and
argument parsing, and the deployment scripts: they are pure, or I/O. `window_s` can
be set in the file only and is never checked. Of the page, units, tile style and
`show_rpm`, and values of a wrong kind that only a hand-edited file can have (a null
`show_rpm`, a fraction where `apply_patch` takes an `int`): a save converts those too.
A file without `shift_light` is shown with blanks and refused until they are filled in.

## 6. Plan

The order was: the connection first, as it holds the hardest interleavings; then
the alarm rule, the promise to the driver; the Hub, where the two meet the
settings; the file; the WebSocket; then the people: a drive and its replay, the
page on two phones, the Home button. What is left, in order:

1. **Contracts** of the file and of the WebSocket, as `EcuLink` and `Drive` are of the
   connection and of a capture: a register that is written whole or not at all, and a
   queue that may lose its end and never changes its order.
2. **Composition**: Hub with two rules. Its engine is not a refinement of
   `AlarmEngine`: an ack is one step there, and two in the Hub, where the other thread
   may see the latch dropped and the level not yet cleared. A refinement would have to
   split it in `AlarmEngine` as well.
3. **The cluster's pages**: the danger screen, the state label and the tile that is
   shown, as functions of message and staleness.
