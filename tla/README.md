# A TLA+ model of the ESP8266 MQTT firmware

The repository is the firmware of small WiFi devices (lights, buttons, sensors)
that talk to a home automation over MQTT. It is C++ for the Arduino core of the
ESP8266: one thread, `setup()` once and `loop()` for ever, callbacks from the
MQTT client, a few interrupts. This directory holds TLA+ modules of its core
logic, the TLC configurations that check them on small instances, and TLAPS
proofs of the properties that matter most. Paths below are relative to the
repository; `main.cpp` is `src/main.cpp` there, and so on.

`PROJECT.json` lists the components, the runs, the source lines behind every
definition, the findings, the hazards and the theorems.

## 1. The system

| component | state it keeps | operations | who it talks to |
|---|---|---|---|
| light (`cap_light`) | on/off, current, target, start and saved colour, fade timers, animation, auto-off timer, an "outdated" flag per report | `receive` (12 topics), `toggle`, `loop` (fade, animation, auto off), `publish` | outputs via `set_color`, broker via `network.publish`, button via `toggle` |
| capability configuration (`main.cpp`: `loadPheripherals`, `bake`) | `mqtt.cap`, `active_p`, `active_intervall_p`, `periodic_slot` | load, reload, capability topic, periodic update | EEPROM, every component, broker |
| connection keeping (`main.cpp`: `reconnect`, `relationship_timeout`) | `timer_connected_start`, `timer_connected_stop` | the retry loop, the choice between retrying and the portal | WiFi, MQTT client, portal |
| portal and EEPROM (`WiFiManager`) | deadline, stored configuration with checksum | open, poll, save, time out | a person, EEPROM |
| MQTT facade and mesh (`connection_relay`) | kind of connection, a queue of 99 messages (`MAX_MSG_QUEUE`), time of the last answer | connect, publish, subscribe, enqueue, dequeue, acknowledge | broker, other devices |
| button (`cap_button`) | interrupt flag, debounce, press and check timers, press counter, one waiting report, the predicted level of a switch | interrupt, `loop`, `publish` | light, portal, broker |
| GPIO (`cap_GPIO`) | per output: state, brightness, dimmer, pulse timer; per input: hold count; a report flag each | `receive` (10 topics), `loop`, `publish` | broker |
| pulse counter (`cap_counter`) | count, debounce timer, report flag | interrupt-free polling, `publish`, `subscribe`, `receive` of its own retained report | broker |
| trace log (`logging`) | a ring buffer, head, tail, length of the message | `addChar`, `loop` (take one message) | everybody, broker |
| OTA (`main.cpp` callback; `mqtt_ota` in mesh builds) | URL and version; bytes received, sequence | start, chunk, end | web server, broker |
| discovery (each component, `main.cpp`) | one flag per component | announce once | broker |
| sensors, serial bridges | a reading each | periodic update | hardware |

How they interact: `loop()` first polls the network, calls `reconnect()` while
there is no connection (it returns only with one), then runs the `loop()` of
every component, then, unless one asked for uninterrupted execution, at most
one `publish()` and one periodic update.

What makes this hard although there is one thread:

* **Re-entrancy.** `connection_relay::publish` calls `client.loop()` twice, and
  that delivers commands. A command may therefore be handled in the middle of a
  publish, of a periodic update, of a subscription or of a destructor.
* **Shared records with two meanings.** `mqtt.cap` is the configuration and,
  after `parse()` struck out what it consumed, the list of what is left over.
* **Indirect handles that outlive objects**, and a table pointer that outlives
  the table's contents.
* **Time.** Millisecond counters wrap at 2^32, seconds are cut to 16 bits.
* **Failure.** The connection may break between and inside all of this, also
  without the socket noticing; power may fail; a watchdog may bite.

What makes each component right:

* light: what the broker retains is the state of the lamp once nothing is left
  to publish; off is dark; a level survives off and on; animation and light do
  not overlap; everything settles.
* configuration: what is stored runs and is reported; every component gets its
  updates; what is reported as unsatisfied is unsatisfied.
* connection: the device retries as long as its last connection earns it and
  not much longer; it never hangs; it gets back when it can.
* mesh: what a node took over from its children is kept until its parent has
  it, is not doubled without a repetition, and leaves in the end.
* button: no bounce counts as a press; a released button leaves no topic ON; the
  prediction of a switch is never the wrong way round.
* GPIO: what is not marked is at the broker; an OFF pin is dark; fades and
  pulses end, and the reports they hold back get out.
* counter: the count survives restarts and broken links; the retained count
  never goes back.
* log: what is sent is what was logged, in its order, and only its oldest part
  may be missing, visibly.

## 2. The modules

| module | models | state and actions |
|---|---|---|
| `Light` | `cap_light.cpp`, `connection_relay::publish` | `lamp` is the members of class `light` with the outdated flags as the set `dirty`; `told` is what the broker retains; `call` is the publish in progress; `link` the connection. `Command` is `receive()`, between rounds of the loop or inside a publish; `Toggle` the button; `DimStep`, `DimEnd`, `AnimationStep`, `AutoOff` are `loop()`; `PublishStart`, `PublishReturn` the chain of `publish...()`; `Break`, `Reconnect` the network. |
| `DimLamp` | nothing in the code: what the Readme promises of a dimmable lamp | `on`, `level`, `shown`, `fading` |
| `LightProofs` | theorems about `Light` | |
| `Peripherals` | `loadPheripherals`, `bake`, the topics `capability` and `reload`, the periodic update, the reports of `reconnect` | `stored` is the EEPROM, `caps` is `mqtt.cap`, `active` the loaded components, `slots`, `counter`, `pointer` the table of updates, `phase` where `reconnect`/`loop` are, `told` the broker. `Load` is one call of `loadPheripherals` with the complete slot distribution. |
| `PeripheralsProofs` | theorems about `Peripherals` | |
| `Connection` | `reconnect`, `relationship_timeout`, portal | `start`, `stop` are the two timers, `now` is `millis()`; `mode` tells `loop`, the loop of `reconnect` and the three portals apart; `since`, `span`, `age` are histories that no guard reads. |
| `ConnectionProofs` | theorems about `Connection` | |
| `TraceLog` | `logging.cpp` | `log` is `buffer`, `head` and `tail`; `count` is `msg_c`; `sent` what `loop()` returned last. `AddChar` is one call with the two characters it may add itself; the operators `Stored`, `Moved`, `Overrun` are its three parts in their order. `Loop` reads one string as `strlen` finds it. |
| `TextQueue` | nothing in the code: what the comments on head and tail promise | `pending`, `sent` |
| `TraceLogProofs` | theorems about `TraceLog` | |
| `Gpio` | `cap_GPIO.cpp` and its class `dimmer` | `out[p]` is `m_state`, `m_brightness`, the dimmer, the pulse timer and the two flags of a pin; `in[p]` a held input; `told` the broker. `Receive` is a command in the main loop, `Loop` one pass over all pins, `Publish` sends one report, `ReceiveInside` is a command that `client.loop()` delivers before it returns, `PublishReturn` clears the mark, `PublishFails` and `ReturnFails` break off before and after the commands, `PublishLost` is a report on a half-open link. `missed` is a history: reports whose output was changed inside them, or that such a link lost. |
| `GpioProofs` | theorems about `Gpio` | |
| `Button` | `cap_button.cpp` | `flag` is what the interrupt sets, `button` the members, `phase` tells the two halves of `loop()`, the portal that `loop()` opens and the one that `reconnect()` or a setup command opens apart. `Loop` and `PortalPass` consume the flag, `Check` looks at the pin, `Publish`, `PublishBreaks` and `PublishLost` send the one waiting report; `Press`, `Release`, `Bounce` and `Tick` are the world. |
| `ButtonProofs` | theorems about `Button` | |
| `Counter` | `cap_counter.cpp`, and the broker with its retained message | `value`, `outdated`, `level`, `last`, `stable` are the members; `up`, `down`, `link` the connection; `subscribed`, `retained` the broker (external). `Loop`, `Receive`, `Publish`, `PublishFails`, `Reconnect`, `Restart` are the unit, `Broker`, `Break`, `Notice`, `Pin`, `Tick` its environment. |
| `CounterProofs` | theorems about `Counter` | |
| `Mesh` | the uplink of a mesh node and its parent, in `connection_relay.cpp` | `outBuf` is the queue; `wait` the loop that looks for the ACK, split at every byte it reads; `silent` is `espLastcomm`; `upward`, `downward` the two directions of the TCP connection. `Pass` is `receive_loop()` up to the wait, `Acked`, `Skip`, `GiveUp` its three outcomes; `OnData` a message of a child; `Connect`, `Greet`, `Serve`, `Broadcast` both ends of the connection. |
| `MeshProofs` | theorems about `Mesh` | |
| `MC...` | the instances TLC checks | |

Abstractions, and why they are harmless for the properties:

* `Light`: three colour channels are one level, since every command treats them
  alike; the brightness table is the identity on levels except that the top
  level stands for everything from 99 on; a fade is any number of intermediate
  levels between its ends, then the target. A publish is split where the code
  polls the socket. JSON is represented by what it asks for.
* `Peripherals`: a configuration is the set of its entries. The order of
  components is the order of the `bake` calls. `round(ii*interval)` is exact
  integer rounding. A call through a handle without an object resets the device.
  When a command destroys the object whose update is running, the model allows
  both outcomes, survival and reset. A write of the EEPROM that power cuts
  off is one action, `TornWrite`: the stored configuration is garbage, the
  checksum notices at the next boot, and the defaults are written.
* `Connection`: a round of the loop takes from one second to `MaxRound`
  seconds and ends in a connection, in none, or in one that is lost before the
  round ends. A loss between the last check of a round and the head of the loop
  (two reads of the same socket in a row) is counted as a loss in `loop()`.
  The factor of `relationship_timeout` is 1; the mesh, which uses 0.8, is not in
  the default build.
* `TraceLog`: the prefix and the colours of a line are characters like others.
  `loop()` is called between lines (`Hasty = FALSE`), as the main loop does,
  except for the very line that was moved to the front; see section 5.
* `Gpio`: no times: a fade takes any levels between its ends and stops at any
  step, a pulse ends at any pass, a hold grows by any amount up to `Longest`.
* `Button`: time in units of some 400 ms; each timer is kept up to the largest
  value anything compares it with, and the time of a hold then goes round by
  `Round`, after which its 8 bit report is the same again. Histories: `late`, a
  check that was missed; `cut`, a release that was overwritten before it was
  sent or lost on a half-open link; `wrapped`, what a hold too long for 8 bits
  left ON.
* `Counter`: time in units of half the debounce time; a message is its number.
  Histories: `total`, the pulses there were; `excused` and `blind`, what had to
  get lost.
* `Mesh`: a message is its number; pings, loop checks and routing messages are
  one value, reports of the node itself another. An elapsed time is one of
  three classes. `trouble` bounds broken links, late answers and silences.
  Histories: `got`, `dropped`, `doubt`, `again`, `twice`, `crowded`, `overtaken`.

Operators marked "Slip" above a definition are the same operator with a
plausible mistake in it. No specification uses them; they document which
mistake each property would catch (list `mutants` in `PROJECT.json`).

## 3. What is checked

| run | instance | result |
|---|---|---|
| `light_dimm` | three levels, a PWM light and a colour light, the commands Home Assistant sends after discovery, in words and as JSON, one command nested in each publish, half-open connections, boot by power and by watchdog | `OffIsDark`; `Light` implements `DimLamp` (`IsDimLamp`, a refinement); `OnlyRepeatsLose` |
| `light_all` | two levels, pixel strip, all hard, faded, JSON and animation commands, a button with the BL option, connection losses | `TypeOK`, `StateReported`, `AnimationReported`, `OnlyButtonOverlaps`, `EventuallySettled` |
| `light_race` | one nested command | `StateReported` is violated (finding) |
| `light_hard` | hard and faded switching mixed | `OffIsDark` is violated (finding) |
| `peripherals` | components with 3, 2, 1 and 0 updates, a misspelt entry, configurations that grow, shrink, exchange and overflow a table of 6, torn writes | `TypeOK`, `SlotsDealt`, `RunsWhatIsStored`, `ReportsWhatIsStored`, `EverySlotServed` |
| `connection` | windows of 2 to 3 s, clocks that wrap at 14 s and 9 s | `TypeOK`, `GivesUpLateWhileYoung`, `GivesUpSoonWhileYoung`, `TryingEnds`, `PortalsClose`, `StaysConnected` |
| `connection_wrap` | as `connection` | `GivesUpLate` is violated (finding) |
| `trace_log` | a ring of 8 cells, messages of up to 3 characters, two different characters | `TypeOK`, `TraceLog` implements `TextQueue` (`IsTextQueue`), `OverrunMarkedInRing`, `Drained` |
| `gpio` | two outputs, one faded and set to a level, one pulsed, one input, two levels, a pulse nested in the reports of both, a half-open link for the pulsed output and the input | `TypeOK`, `StateReported`, `StateIsLight`, `InputReported`, `EventuallySettled` |
| `button` | push button and switch, each with and without ghost avoidance; one hold topic; the portal after two presses; a counter and a report of five values | `TypeOK`, `BouncesIgnored`, `HoldsEnd`, `SwitchPredicted` |
| `counter` | a new counter and one with a count behind it, two pulses with their bounces, two restarts or broken links | `TypeOK`, `CountKept`, `NeverBack`, `Reported` |
| `mesh` | three slots, two messages of children, two in a receive buffer, two troubles | `TypeOK`, `Kept`, `OnceInOrder`, `Drained` |

Bounds. Three levels give a fade a start, a middle and an end; two suffice
where only on, off and the animations matter. One nested command is enough for
a lost update; both polls of a publish may deliver it. The table of six slots
is one short of what the largest configuration needs, since the code counts at
most `MAX_CAPS - 1`; the others leave stale entries of every kind above the
counter. The clocks of `connection` wrap after a few windows, so that each of
start, stop and deadline wraps before, between and after the others; the
constants keep the two relations the real ones have (`ClockAssumption`): windows
are far below the 16 bit clock, and 2^32 ms is not near a multiple of 2^16 s.
`Cap` bounds the histories above everything they are compared with.

In the ring of eight, lines of every length from empty to the split occur at
every position, so that a wrap moves a line of one character or none, and the
writer meets the reader before, at and behind the wrap (`SizeAssumption` keeps
the relation of the real constants: the ring holds more than two of the zones in
which a line is moved). Three pins make two reports wait while a third is sent.
Two levels give a fade its two ends; `HalfOpen` names one output and the input,
which have one and two messages to lose. A button counter of five values wraps
after the portal's limit of two, as 256 does after 20; a report of five values
has one between the topics and the releases, as 4 to 9 are, and holds of two to
five times a long push are released with each of the topics, with that value,
and with the report of a shorter hold. Four edges and two faults let a pulse
meet the answer before, in and after every connection. Three slots are one more
than the two messages every reconnection adds: the queue is full, overtakes and
empties; two troubles allow a late answer and a broken link behind it.

Fairness. `loop()` runs for ever and calls everything in it, so the end of a
fade, the start and the return of a publish, the periodic update and the
reconnection are weakly fair. In `Connection`, time passes, a round ends and a
portal polls its deadline. `TraceLog`: the main loop asks for the next string.
`Gpio`: passes are weakly fair; the report of this component and the end of a
fade or of a pulse are strongly fair, since a fade takes the turn of the report
only until it ends, and every step brings it nearer. `Counter`: messages arrive
while the connection holds, and it is made again. `Mesh`: the wait ends, the
parent serves its clients, and `receive_loop()` is strongly fair, for the main
loop comes back to it however much the node publishes in between. `Button` has
no liveness property and no fairness. Nothing is assumed of the network, of
people, of commands or of power: the liveness properties say for themselves
when these must be quiet (`Undisturbed`, `Quiet`, `Powered`, `StaysConnected`,
the premises of `Drained`) or a bound ends them (`MaxFaults`, `MaxTrouble`).
`light_dimm` and the violation runs check safety only.

## 4. What is proved

For every value of the constants that satisfies the named assumptions.

* `LightProofs!TypeCorrect`: `Spec => []TypeOK`, by one lemma per helper.
* `LightProofs!OffStaysDark`, `LightProofs!LightIsDimLamp` and
  `LightProofs!LevelsSurvive`: under fades, levels and the JSON commands, an
  unlit lamp that does not fade is dark, and `Light` implements
  `DimLamp`, and a level changes only when it is set or a JSON switch is repeated.
  The inductive invariant (`FadeInv`) adds that there is no animation
  and no auto off, that a fade of a light that is off goes to dark, and that a
  light that does not fade shows its target. `ReceiveFade` reduces the twenty
  odd branches of `receive()` to the six things they can do.
* `LightProofs!StateIsReported`: the state report is right under every command,
  button and connection failure, if no command is handled inside a publish, a
  broken connection is noticed, and the device was powered up. Each of the three
  premises is needed: `light_race` drops the first; a half-open connection takes
  the message and loses it; a watchdog boot marks nothing as outdated. The
  invariant follows the publish of the state in progress.
* `LightProofs!AnimationIsReported`: the same for the three animation topics,
  after either kind of reset, provided the broker retained no animation from an
  earlier life. Their report is three messages under one mark. The invariant
  (`AnimInv`) keeps the mark for as long as they take, and has those sent so far
  right (`SentBy`) unless one was lost; a report is counted as failed if any of
  the three was, which is what lets the mark go only when all three are right.
  `StepMarks` is shared with the state report: outside a publish, every step
  marks what it changes of the two.
* `LightProofs!OverlapIsTheButtons`: an action property, for every command, also
  inside a publish. It needs no invariant but the types: every branch of
  `receive()` leaves the lamp off or the animation off, or neither as it was
  (`ReceiveApart`).
* `PeripheralsProofs!RunsStored`, `!ReportsStored`: with the strengthening that
  `mqtt.cap` is the stored configuration between the two reports of a
  reconnection (`ReloadedWhileJoining`). The slot table plays no part in it.
* `PeripheralsProofs!TypeCorrect`, `!SlotsAreDealt`: the slot table, for every
  order of components, every number of updates and every size. The loops of
  `loadPheripherals` are `Rounds`, a recursive function of the step and the
  number of the round; `RoundsFollow` shows that there is such a function, and
  `RoundsKeep` that what each round keeps holds after all of them, so that no
  induction over an operator is needed. With it: `bake` counts to the total of
  the updates or to the last entry of the table (`BakedFills`); every placement
  takes one free slot and leaves all others alone (`PlaceCounts`), wherever
  rounding starts the search; hence dealing a component takes as many as it
  has updates (`DealOneCounts`), and a configuration that fits is dealt
  completely (`DealtCounts`). Type correctness rests on `RunsWhatIsStored`: a
  connected device never copies a torn EEPROM into `mqtt.cap`.
* `ConnectionProofs!TypeCorrect`, `!NotTooEarly`, `!NotTooLate`: when the device
  gives up, until the first clock wraps. The invariant ties the histories to the
  timers. The interesting case is a connection lost inside its round: it leaves
  `stop` behind `start`, the unsigned difference then looks like a long
  connection (`ElapsedBackward`), and the device uses the full window. That this
  is harmless rests on 2^32 ms modulo 2^16 s being 35127 s, more than the 5675 s
  of connection that earn the full window; it is an assumption of the proof
  (`ClockAssumption`), and the code's constants satisfy it.

* `GpioProofs!TypeCorrect`, `!StateIsReported`, `!InputIsReported`,
  `!LightFollowsState`: for every set of pins and every list of commands, nested
  ones included. The invariant (`GpioInv`) adds what the report in progress has
  already told (`CallTelling`): while `call` is out, the broker has the value
  the pin has now, unless a command inside or a half-open link has put the
  report into `missed`; so its mark may be cleared. For the lamp
  (`LightInv`), a pin that is off has the target 0, so that its fade ends dark.
* `ButtonProofs!TypeCorrect`, `!SwitchIsPredicted`: the counter and the reports
  keep their width, where the report of a release is the offset plus a quotient
  of two times, wrapped (`DivType`, `ModBelow`), and the time itself goes round
  (`HeldOnType`). `SwitchPredicted` is inductive together with the
  types: a contact of a switch with ghost avoidance flips the prediction exactly
  when it equals the pin, and only then.
* `ButtonProofs!BouncesAreIgnored`: a bounce is no press, for every choice of
  times. `BounceInv` follows the clock (`Polled`): while the loop is in time, the
  timer of the debounce and the timer of the check differ by at most the
  interval the check waits, so a contact within the debounce time finds the
  button still active.
* `ButtonProofs!AllHoldsEnd`: no hold topic stays ON behind a release, but for a
  release that was overwritten or lost, or whose report wrapped. The
  invariant (`HoldInv`) says which topics may be open at all: a topic is open
  (told ON, or about to be, and not to be ended) only while the press goes on or
  its release waits to be looked at, and only once the press has lasted as long
  as the hold; `OnEndsNothing` and `ReleaseEnds` say what a report does to them.
* `CounterProofs!TypeCorrect`: the counts on their way are at most the pulses
  there were; these are bounded by the edges of the pin and the restarts
  (`Spare`: a pulse takes the level to low, only an edge or a restart takes it
  back).
* `CounterProofs!CountIsKept`, `!CountNeverGoesBack`: for every number of pulses,
  restarts and broken links, and queues of any length. `CountKept` speaks of
  empty queues, so the invariant (`KeptInv`) says what may be in them. While
  nothing had to be excused and the link is up (`Connected`): the unit's question
  is the first message, and until it is read the broker holds the total; every
  answer, and every report that will be echoed, tells the total; a unit with
  something to report knows the total, and one that does not know it will be
  answered; reports on their way do not go back, and the last one is the total
  unless a further one will follow. Without a link there is only this: if the
  broker holds the total, the unit has nothing wrong to report.
* `TraceLogProofs!TypeCorrect`: for every size of the ring that holds more than
  two zones of waste, `head` and `tail` stay inside the buffer, no character is
  written to its last cell, and hence `strlen` ends inside it
  (`LengthBounded`). `MovedType` is the argument for the line that is moved.
* `TraceLogProofs!TraceIsQueue`: `TraceLog` implements `TextQueue` for every size,
  waste and limit of a message, where `loop()` waits for the end of a moved line
  (`~Hasty`). `Text` is the text of a part of the buffer; it is joined and split
  (`TextSplits`), moved with its cells (`TextMoves`) and grows by one cell
  (`TextGrows`). `Valid` is the invariant: the reader stands behind an end of
  string, at the front, or where the writer left it. One lemma per part of
  `addChar` says what becomes of the text: it grows (`PlainText`), keeps its end
  where the ring wraps (`WrapText`), gives up three cells and gets two marks
  (`OverrunKeeps`), or is pushed on by the moved line (`MovePushesOn`).
  `StepText` joins them. A message that is split adds four characters, and a mark
  of the first may be lost to the next: while the writer pushes the reader
  (`Adjacent`), what is given up first is the mark itself, never text in front
  of which a mark stays (`ShowsMarked`); half a mark (`Torn`) can only be left by
  an end of string, and the character after it gives it up (`ShowsTorn`). Texts
  are joined with `++` in this part, an operator of which the provers see only
  the laws (`Laws`). `LoopText` is the other half: a string is the text up to its
  end.
* `TraceLogProofs!LossIsSeen`: for every size, a loss of more than it takes to
  move a line is marked, unless the reader is behind the ring (with no condition
  on `loop()`). An overrun costs at most one character net and is marked; a move
  costs less than `Waste` (`StepLength`); and four characters move a line once at
  most, because after a move the end of the ring is more than three cells away
  (`SplitLength`).
* `MeshProofs!TypeCorrect`, `!KeptAlways`, `!OnceInOrderAlways`: for every number
  of slots, messages and troubles. `KeptInv` adds what an answer means
  (`Answered`): while the connection is not `risky`, a node that does not wait
  has no ACK on its way, and a waiting one has its message on its way up, or the
  message handled and the ACK on its way down; so an ACK that comes frees a slot
  whose message the parent has. `OnceInv` adds that a message on its way is new
  to the parent unless it was sent `again`, and that those in the queue are
  later than those before it unless it was `crowded`.

Only model-checked: all liveness properties (`EverySlotServed`, `Drained`,
`EventuallySettled` and the like: they need fairness and ENABLED), and
everything after the first wrap in `Connection`.

## 5. Findings and known limits

Findings, each with a run that shows it:

1. A command delivered inside the publish of the state is acted on but never
   reported (`cap_light.cpp:643`; `light_race`).
2. A hard OFF during a fade turns the lamp dark for one step; then the fade
   goes on to its target behind the reported OFF (`cap_light.cpp:327`;
   `light_hard`).
3. A connection of 18.2 hours earns as little retrying as none at all
   (`main.cpp:30`; `connection_wrap`).

Limits met while modelling. The models contain them where they say so, and the
properties are worded around them; no run is spent on them.

* Configuration: after a reload to fewer updates one update goes to a stale
  handle (`main.cpp:1002`, 717); `EverySlotServed` shows that it is one. The
  second connection without a reload in between reports satisfied entries as
  "Unsatisfied config" (`main.cpp:336`). The Readme disagrees with constants of
  the code (45 s for 65 s until the portal opens, 3600 s for 300 s until it
  closes, 1 s per 20 s for 1 s per 5 s); the model keeps them as constants.
* Trace log: the reader's index is counted modulo `LOGGING_BUFFER_SIZE`, the
  writer's modulo one less; a reader in the last cell is never met, and an
  overrun there passes unmarked (`OverrunMarkedInRing` excludes it). A line that
  was moved to the front has no end of string behind it until its next
  character: a `loop()` in between would send text twice. With `Hasty = TRUE`
  TLC finds this; the callers of `addChar` do not call `loop()` inside a line.
* Light: a JSON OFF to a lamp that is off saves the darkness it went to, and the
  next ON lights nothing (`cap_light.cpp:400`, which lacks the test of the state
  in line 357); a JSON ON to a lamp that is on fades back to an older level.
  `OnlyRepeatsLose` names these two (`JsonRepeat`), and shows that they are the
  only ways to lose a level. A JSON command without "state", or with a colour that lacks a channel,
  dereferences a null pointer (`cap_light.cpp:384` to 390); Home Assistant always
  sends both, and the model has no such message. `light_all` nests no command in
  a publish, so the race of finding 1 is left to `light_race`.
* GPIO: a dimmed ON during a fade-out is reported but not obeyed
  (`cap_GPIO.cpp:674`); level 0 and ON at brightness 0 report ON and stay dark
  (392); a brightness during a fade-out relights a pin that is reported OFF
  (637), which `StateIsLight` excludes; a hold that reaches 2 before its report
  never reports its ON (491); a command inside the pin's own report is lost
  (513, the same race as finding 1), and so is a report on a half-open link, whose mark is cleared
  because `network.publish()` only asks whether the socket seems connected
  (`connection_relay.cpp:337`); both are excluded as `missed`, until that part of
  the pin is reported again. A step time of 0 lets a fade divide by zero and show
  a level of its own (605); the step time is not modelled.
* Button: a second press overwrites an unsent release, a half-open link loses
  one, and the topics of its hold stay ON (`cut`); a press that comes between the
  two halves of `loop()` is measured from the press before it; the report of a release does not fit in 8
  bits after 246 s (`cap_button.cpp:209`): it is sent as an ON until 249 s, as a
  release of a negative time until 255 s, then as one of a shorter hold, and hold
  topics stay ON (`wrapped`); the press counter is not reset when the portal closes,
  which therefore opens again at once; a comment says "more than 10" presses
  where the code counts 20 (`cap_button.cpp:176`); without ghost avoidance two
  changes in one pass turn the prediction of a switch round (322), so
  `SwitchPredicted` speaks of ghost avoidance only.
* Counter: pulses that the broker was not told of before a connection broke are
  overwritten by its answer, and an answer inside `publish()` has its mark
  cleared (`cap_counter.cpp:169`): `excused` and `blind`. The properties say what
  holds but for these; they would not show either.
* Mesh: a child has its ACK before its message is queued, so a full queue or a
  lost uplink drops it (`dropped`); the ACK is any byte 4, so a late one, or one
  in a message that comes down, confirms a message that may be lost (`doubt`);
  what is published downwards during a wait is discarded; the lowest slot goes
  first, so messages overtake each other (`crowded`); a missing welcome counts
  as a connection all the same. `Kept` and `OnceInOrder` show that nothing else
  is lost, doubled or overtaken. While children keep sending, a message in a
  higher slot may wait for ever; `Drained` holds because `MaxMsg` ends them.

## 6. Not modelled, and what is left

Most of the repository's lines are vendored: `old_lib/Esp8266IR` and the other
directories of libraries are third-party code, the pulse tables of remote
controls above all, and no logic of this firmware. Modelling them would say
nothing about it, so the lines behind these modules are a small share of all
lines and a larger one of the firmware's own.

* OTA is one call of a library followed by a restart; its chunks over MQTT
  (`mqtt_ota`) are compiled only with `WITH_MESH`, which no environment of
  `platformio.ini` defines. The uplink of the mesh is modelled all the same, for
  its protocol; the verdict of the loop check and the blacklist are not.
* Discovery formats messages; its only state is a flag that is set once.
* Sensors read hardware; their share in the cycle of updates is in
  `Peripherals`. Serial bridges speak the byte protocols of other devices.
* Outputs of the light are writes to a pin or a bus.
* The web pages of the portal, the choice of an access point and the text of
  messages have no state that a property here could be about.
* Destructors publish, and so does `undiscover()` in `loadPheripherals`
  (`main.cpp:546`); a command that is handled there, in the middle of a load,
  finds partly destroyed tables, and is not modelled; nor are the dependencies between components
  (`ensure_dep`) and a fourth output for the light, which `reg_provider` would
  write beyond its table. A retained message on `s/reload` would keep the device
  disconnecting for ever; the model has no such message.
* The portal of a button held during `init()`, and one that a setup command
  opens inside the button's own publish, whose return would clear the mark of a
  press made in it.

What would come next, in this order:

1. `loadPheripherals` split where it polls, with the reload nested in it,
   `ensure_dep` and the table of `reg_provider`.
2. The sensors that decide anything on their own (PIR with its fading counter,
   the energy meter with its totals), once `Peripherals` serves them by name.
