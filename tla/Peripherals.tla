---------------------------- MODULE Peripherals ----------------------------
(***************************************************************************)
(* The capability configuration of the firmware (src/src/main.cpp): which  *)
(* components run, how their periodic updates share one cycle, how a new   *)
(* configuration arrives over MQTT, and what the broker is told about it.  *)
(*                                                                         *)
(* A configuration is the set of its comma separated entries.  A handle    *)
(* (capability** in the code) is named by its component; it leads to an    *)
(* object exactly when the component is in active, else to NULL.           *)
(***************************************************************************)
EXTENDS Naturals, Sequences, SequencesExt, FiniteSetsExt

CONSTANTS
    Order,     \* the known components, in the order loadPheripherals bakes them
    Updates,   \* count_intervall_update() of each component
    Typos,     \* entries no component answers to
    MaxSlots,  \* MAX_CAPS
    Payloads,  \* the configurations somebody may send
    Retained,  \* the one retained by the broker on s/capability, if any
    None

Components == ToSet(Order)

ASSUME OrderAssumption == Order \in Seq(Components) /\ IsInjective(Order)
ASSUME UpdatesAssumption == Updates \in [Components -> Nat]
ASSUME NamesAssumption == Components \cap Typos = {} /\ None \notin Components \cup Typos
ASSUME SlotsAssumption == MaxSlots \in Nat \ {0}
ASSUME PayloadsAssumption ==
    /\ Payloads \subseteq SUBSET (Components \cup Typos)
    /\ Retained \subseteq Payloads
    /\ Cardinality(Retained) <= 1

VARIABLES
    stored,   \* the configuration in the EEPROM, or Torn: the checksum fails
    programmed, \* mqtt.nw_ssid and mqtt.nw_pw are not the defaults
    caps,     \* mqtt.cap: parse() strikes out the entries it consumes
    active,   \* active_p: the loaded components (always in the order of Order)
    slots,    \* active_intervall_p
    counter,  \* active_intervall_counter: the slots in use
    pointer,  \* periodic_slot
    phase,    \* where reconnect() and loop() are
    told,     \* what the broker retains of r/capability and r/error
    served    \* the last periodic update: <<component, user_slot>>

vars == <<stored, programmed, caps, active, slots, counter, pointer, phase,
          told, served>>

Config == SUBSET (Components \cup Typos)
Torn == {None}
Index == 0..(MaxSlots - 1)
Handles == Components \cup {None}

-----------------------------------------------------------------------------
(* loadPheripherals().                                                     *)

\* What the n rounds of a for loop leave behind, one after the other:
\* step[i] maps what was there before the round i to what is there then.
Rounds(step, base, n) ==
    LET after[i \in 0..n] == IF i = 0 THEN base ELSE step[i][after[i - 1]]
    IN  after

Result(step, base, n) == Rounds(step, base, n)[n]

Lower(a, b) == IF a < b THEN a ELSE b

\* the components in the order in which they are baked, and later dealt
Bakings == DOMAIN Order

\* the entries a configuration wants for a component, and for all of them
Wanted(set, c) == IF c \in set THEN Updates[c] ELSE 0
Totals(set) == Rounds([j \in Bakings |-> [sum \in Nat |-> sum + Wanted(set, Order[j])]],
                      0, Len(Order))
Total(set) == Totals(set)[Len(Order)]

Tables == [Index -> Handles]
Filled == [table : Tables, next : Nat]

\* Slip: the counter of the entries is not capped.
BakedUncapped(table, set) ==
    LET Append1(c) == [i \in 1..Updates[c] |-> [to \in Filled |->
                           [table |-> [to.table EXCEPT ![to.next] = c], next |-> to.next + 1]]]
    IN  Result([j \in Bakings |-> [to \in Filled |->
                    Result(Append1(Order[j]), to, Wanted(set, Order[j]))]],
               [table |-> table, next |-> 0], Len(Order))

\* bake() appends an entry; at the end of the table the last entry is
\* overwritten and no longer counted
Appended(to, c) == [table |-> [to.table EXCEPT ![to.next] = c],
                    next |-> Lower(to.next + 1, MaxSlots - 1)]

\* one entry for every update
Bake(to, c, n) == Result([i \in 1..n |-> [so \in Filled |-> Appended(so, c)]], to, n)

Baked(table, set) ==
    Result([j \in Bakings |-> [to \in Filled |-> Bake(to, Order[j], Wanted(set, Order[j]))]],
           [table |-> table, next |-> 0], Len(Order))

FreeFrom(table, first, n) == {i \in first..(n - 1) : table[i] = None}

\* round(ii * interval)
Rounded(ii, n, updates) == (2 * ii * n + updates) \div (2 * updates)

\* Slip: the second search, from the beginning of the table, is missing.
PlaceAhead(table, c, first, n) ==
    LET ahead == FreeFrom(table, first, n)
    IN  IF ahead # {} THEN [table EXCEPT ![Min(ahead)] = c] ELSE table

\* the first free slot from the wanted position, else the first free one
Place(table, c, first, n) ==
    LET ahead == FreeFrom(table, first, n)
        any == FreeFrom(table, 0, n)
    IN  IF ahead # {} THEN [table EXCEPT ![Min(ahead)] = c]
        ELSE IF any # {} THEN [table EXCEPT ![Min(any)] = c]
        ELSE table

\* The updates of one component are spread over the cycle of n slots.
DealOne(table, c, n) ==
    LET free == FreeFrom(table, 0, n)
        start == IF free = {} THEN n ELSE Min(free)
    IN  Result([i \in 1..Updates[c] |-> [t \in Tables |->
                    Place(t, c, start + Rounded(i - 1, n, Updates[c]), n)]],
               table, Updates[c])

\* The n slots in use are cleared and dealt anew; the rest of the table keeps
\* its old entries.
Dealt(table, set, n) ==
    Result([j \in Bakings |-> [t \in Tables |->
                IF Order[j] \in set THEN DealOne(t, Order[j], n) ELSE t]],
           [i \in Index |-> IF i < n THEN None ELSE table[i]], Len(Order))

\* periodic_slot is not touched
Load(config, table) ==
    LET baked == Baked(table, config)
    IN  /\ active' = config \cap Components
        /\ caps' = config \ Components
        /\ counter' = baked.next
        /\ slots' = Dealt(baked.table, config, baked.next)

-----------------------------------------------------------------------------
(* setup(), after power up, a watchdog bite or ESP.reset().                *)

NoSlots == [i \in Index |-> None]

Init ==
    /\ stored \in Payloads
    /\ programmed = TRUE
    /\ caps = {}
    /\ active = {}
    /\ slots = NoSlots
    /\ counter = 0
    /\ pointer = 0
    /\ phase = "reset"
    /\ told = [cap |-> {}, error |-> {}]
    /\ served = None

\* An EEPROM whose checksum fails is overwritten with the defaults: no
\* component, and no network.
Setup ==
    /\ phase = "reset"
    /\ \/ stored # Torn /\ UNCHANGED <<stored, programmed>>
       \/ stored = Torn /\ stored' = {} /\ programmed' = FALSE
    /\ Load(stored', NoSlots)
    /\ pointer' = 0
    /\ served' = None
    /\ phase' = "offline"
    /\ UNCHANGED told

Reset ==
    /\ phase # "reset"
    /\ phase' = "reset"
    /\ UNCHANGED <<stored, programmed, caps, active, slots, counter, pointer, told,
                   served>>

\* Power fails while a command or the portal writes the EEPROM.
TornWrite ==
    /\ phase # "reset"
    /\ \E payload \in Payloads : phase = "offline" \/ payload # stored
    /\ stored' = Torn
    /\ phase' = "reset"
    /\ UNCHANGED <<programmed, caps, active, slots, counter, pointer, told, served>>

-----------------------------------------------------------------------------
(* reconnect().                                                            *)

\* connectServer() succeeded: what is left in mqtt.cap is reported as
\* unsatisfied, then mqtt.cap is restored for the report in Join.
Connect ==
    /\ phase = "offline"
    /\ programmed
    /\ told' = [told EXCEPT !.error = caps]
    /\ caps' = stored
    /\ phase' = "joining"
    /\ UNCHANGED <<stored, programmed, active, slots, counter, pointer, served>>

\* The same, but the connection is gone before the report gets out.
ConnectLost ==
    /\ phase = "offline"
    /\ programmed
    /\ caps' = stored
    /\ UNCHANGED <<stored, programmed, active, slots, counter, pointer, phase, told,
                   served>>

\* The end of reconnect(): the configuration is reported.
Join ==
    /\ phase = "joining"
    /\ told' = [told EXCEPT !.cap = caps]
    /\ phase' = "online"
    /\ UNCHANGED <<stored, programmed, caps, active, slots, counter, pointer, served>>

Break ==
    /\ phase \in {"joining", "online"}
    /\ phase' = "offline"
    /\ UNCHANGED <<stored, programmed, caps, active, slots, counter, pointer, told,
                   served>>

\* The configuration portal: it times out, or somebody saves and the device
\* restarts.
Portal ==
    /\ phase = "offline"
    /\ caps' = stored
    /\ \/ UNCHANGED <<stored, programmed, phase>>
       \/ stored' \in Payloads /\ programmed' = TRUE /\ phase' = "reset"
    /\ UNCHANGED <<active, slots, counter, pointer, told, served>>

-----------------------------------------------------------------------------
(* callback(): the topics s/capability and s/reload.  Both end with        *)
(* network.disconnectServer().                                             *)

\* Slip: the new configuration is loaded but not written to the EEPROM.
CapabilityUnstored(payload) ==
    IF payload = stored
    THEN caps' = stored /\ UNCHANGED <<stored, active, slots, counter, phase>>
    ELSE /\ Load(payload, slots)
         /\ phase' = "offline"
         /\ UNCHANGED stored

\* Slip: the connection is kept, so nothing is subscribed or reported anew.
CapabilityConnected(payload) ==
    IF payload = stored
    THEN caps' = stored /\ UNCHANGED <<stored, active, slots, counter, phase>>
    ELSE /\ stored' = payload
         /\ Load(payload, slots)
         /\ UNCHANGED phase

Capability(payload) ==
    IF payload = stored
    THEN caps' = stored /\ UNCHANGED <<stored, active, slots, counter, phase>>
    ELSE /\ stored' = payload
         /\ Load(payload, slots)
         /\ phase' = "offline"

Reload ==
    /\ Load(stored, slots)
    /\ phase' = "offline"
    /\ UNCHANGED stored

Receive ==
    /\ phase \in {"joining", "online"}
    /\ Reload \/ \E payload \in Payloads : Capability(payload)
    /\ UNCHANGED <<programmed, pointer, told, served>>

\* The broker repeats its retained message after every subscribe.
ReceiveRetained ==
    /\ phase = "joining"
    /\ \E payload \in Retained : Capability(payload)
    /\ UNCHANGED <<programmed, pointer, told, served>>

-----------------------------------------------------------------------------
(* loop(): the periodic update of one slot.                                *)

Handle == slots[pointer]
UserSlot == Cardinality({i \in 0..(pointer - 1) : slots[i] = Handle})
Loaded == Handle \in active

\* Slip: the pointer turns back one slot short of the end.
TickShort ==
    /\ phase = "online"
    /\ counter > 0
    /\ Loaded
    /\ served' = <<Handle, UserSlot>>
    /\ pointer' = (pointer + 1) % Max({counter - 1, 1})
    /\ UNCHANGED <<stored, programmed, caps, active, slots, counter, phase, told>>

Tick ==
    /\ phase = "online"
    /\ counter > 0
    /\ Loaded
    /\ served' = <<Handle, UserSlot>>
    /\ pointer' = (pointer + 1) % counter
    /\ UNCHANGED <<stored, programmed, caps, active, slots, counter, phase, told>>

\* A handle without an object: the call through NULL resets the device.
TickNull ==
    /\ phase = "online"
    /\ counter > 0
    /\ ~Loaded
    /\ phase' = "reset"
    /\ UNCHANGED <<stored, programmed, caps, active, slots, counter, pointer, told,
                   served>>

\* intervall_update() publishes, and publish() delivers a command: the running
\* object is destroyed under its feet.  It may survive that; the pointer then
\* moves by the new counter, and a counter of 0 is a division by zero.
TickReceive ==
    /\ phase = "online"
    /\ counter > 0
    /\ Loaded
    /\ served' = <<Handle, UserSlot>>
    /\ \/ /\ Reload \/ \E payload \in Payloads : Capability(payload)
          /\ counter' > 0
          /\ pointer' = (pointer + 1) % counter'
       \/ /\ stored' \in {stored} \cup Payloads
          /\ phase' = "reset"
          /\ UNCHANGED <<caps, active, slots, counter, pointer>>
    /\ UNCHANGED <<programmed, told>>

Next ==
    \/ Setup
    \/ Reset
    \/ TornWrite
    \/ Connect
    \/ ConnectLost
    \/ Join
    \/ Break
    \/ Portal
    \/ Receive
    \/ ReceiveRetained
    \/ Tick
    \/ TickNull
    \/ TickReceive

Spec == Init /\ [][Next]_vars

\* setup() and loop() always run; reconnect() tries until it succeeds.
Fairness ==
    /\ WF_vars(Setup)
    /\ WF_vars(Connect)
    /\ WF_vars(Join)
    /\ WF_vars(Tick)
    /\ WF_vars(TickNull)

FairSpec == Spec /\ Fairness

-----------------------------------------------------------------------------
(* Properties.                                                             *)

\* Every variable keeps its type; the pointer never leaves the table, however
\* configurations grow and shrink under it.
TypeOK ==
    /\ stored \in Config \cup {Torn}
    /\ programmed \in BOOLEAN
    /\ caps \in Config
    /\ active \subseteq Components
    /\ slots \in Tables
    /\ counter \in Index
    /\ pointer \in Index
    /\ phase \in {"reset", "offline", "joining", "online"}
    /\ told \in [cap : Config, error : Config]
    /\ served \in (Components \X Nat) \cup {None}

\* the configurations whose updates the table can hold
Fitting == {set \in SUBSET Components : Total(set) < MaxSlots}

\* The redistribution in loadPheripherals loses nothing: whatever was in the
\* table before, every loaded component owns exactly as many slots of the
\* cycle as it asked for (as long as the table can hold them all).
SlotsDealt ==
    phase # "reset" /\ active \in Fitting =>
        /\ counter = Total(active)
        /\ \A c \in active :
              Cardinality({i \in 0..(counter - 1) : slots[i] = c}) = Updates[c]

\* A running device has a valid EEPROM and runs what it says, through commands,
\* the portal, resets at any moment and power failures inside a write.
RunsWhatIsStored ==
    phase # "reset" => stored \in Config /\ active = stored \cap Components

\* While connected, the broker's retained copy of the configuration is the
\* stored one: a change always ends in a new report.
ReportsWhatIsStored == phase = "online" => told.cap = stored

\* Nobody interferes any more: no commands but the retained one, no
\* connection losses, no resets but those the code causes itself.
Quiet == <>[][Setup \/ Connect \/ Join \/ ReceiveRetained
                 \/ Tick \/ TickNull]_vars

\* Then every slot of every configured component is served again and again, if
\* the table has room for the configuration and one spare entry, even if a
\* shrinking reload left the pointer on a stale slot.
EverySlotServed ==
    Quiet => \A c \in Components : \A s \in 0..(Updates[c] - 1) :
                []<>(\/ c \notin stored
                     \/ stored \cap Components \notin Fitting
                     \/ served = <<c, s>>)
=============================================================================
