------------------------- MODULE PeripheralsProofs -------------------------
(* The configuration of a device, for every set of components and payloads: *)
(* what runs is what is stored, and a connected device has reported it; and *)
(* the slots of the periodic updates: what the loops of loadPheripherals    *)
(* leave in the table, whatever they found there.                           *)
EXTENDS Peripherals, FiniteSetTheorems, WellFoundedInduction, TLAPS

\* The part of the type invariant the argument needs.
ConfigType ==
    /\ stored \in Config \cup {Torn}
    /\ caps \in Config
    /\ told \in [cap : Config, error : Config]

\* Between the report of the unsatisfied entries and the report of the
\* configuration, mqtt.cap is the stored configuration.
ReloadedWhileJoining == phase = "joining" => caps = stored

ConfigInv ==
    /\ ConfigType
    /\ RunsWhatIsStored
    /\ ReloadedWhileJoining
    /\ ReportsWhatIsStored

\* Loading runs the known entries and leaves the unknown ones.
LEMMA LoadRuns ==
    ASSUME NEW config \in Config, Load(config, slots)
    PROVE  active' = config \cap Components /\ caps' \in Config
BY DEF Load, Config

\* The two topics: an unchanged configuration only restores mqtt.cap, a
\* changed one is stored, loaded, and ends the connection.
LEMMA CommandSteps ==
    ASSUME ConfigInv,
           phase \in {"joining", "online"},
           Reload \/ \E payload \in Payloads : Capability(payload),
           UNCHANGED told
    PROVE  ConfigInv'
<1>1. CASE Reload
  <2>1. active' = stored \cap Components /\ caps' \in Config
    BY <1>1, LoadRuns DEF Reload, ConfigInv, ConfigType, RunsWhatIsStored
  <2> QED BY <1>1, <2>1 DEF Reload, ConfigInv, ConfigType, RunsWhatIsStored,
              ReloadedWhileJoining, ReportsWhatIsStored
<1>2. ASSUME NEW payload \in Payloads, Capability(payload)
      PROVE  ConfigInv'
  <2>1. payload \in Config
    BY PayloadsAssumption DEF Config
  <2>2. CASE payload = stored
    BY <1>2, <2>2 DEF Capability, ConfigInv, ConfigType, RunsWhatIsStored,
       ReloadedWhileJoining, ReportsWhatIsStored
  <2>3. CASE payload # stored
    <3>1. active' = payload \cap Components /\ caps' \in Config
      BY <1>2, <2>1, <2>3, LoadRuns DEF Capability
    <3> QED BY <1>2, <2>1, <2>3, <3>1 DEF Capability, ConfigInv, ConfigType,
                RunsWhatIsStored, ReloadedWhileJoining, ReportsWhatIsStored
  <2> QED BY <2>2, <2>3
<1> QED BY <1>1, <1>2

\* ConfigInv is inductive.
LEMMA ConfigInit == Init => ConfigInv
BY PayloadsAssumption DEF Init, ConfigInv, ConfigType, Config, RunsWhatIsStored,
   ReloadedWhileJoining, ReportsWhatIsStored

LEMMA ConfigStep == ConfigInv /\ [Next]_vars => ConfigInv'
<1> SUFFICES ASSUME ConfigInv, [Next]_vars PROVE ConfigInv'
  OBVIOUS
<1> USE DEF ConfigInv, ConfigType, RunsWhatIsStored, ReloadedWhileJoining,
            ReportsWhatIsStored
<1>1. CASE Setup
  <2>1. stored' \in Config
    BY <1>1 DEF Setup, Config
  <2>2. active' = stored' \cap Components /\ caps' \in Config
    BY <1>1, <2>1 DEF Setup, Load, Config
  <2> QED BY <1>1, <2>1, <2>2 DEF Setup
<1>2. CASE Reset
  BY <1>2 DEF Reset
<1>3. CASE Connect
  BY <1>3 DEF Connect
<1>4. CASE ConnectLost
  BY <1>4 DEF ConnectLost
<1>5. CASE Join
  BY <1>5 DEF Join
<1>6. CASE Break
  BY <1>6 DEF Break
<1>7. CASE Portal
  BY <1>7, PayloadsAssumption DEF Portal, Config
<1>8. CASE Receive
  BY <1>8, CommandSteps DEF Receive
<1>9. CASE ReceiveRetained
  BY <1>9, CommandSteps, PayloadsAssumption DEF ReceiveRetained
<1>10. CASE Tick
  BY <1>10 DEF Tick
<1>11. CASE TickNull
  BY <1>11 DEF TickNull
<1>12. CASE TickReceive
  <2>1. CASE Reload \/ \E payload \in Payloads : Capability(payload)
    BY <1>12, <2>1, CommandSteps DEF TickReceive
  <2>2. CASE /\ stored' \in {stored} \cup Payloads
             /\ phase' = "reset"
             /\ UNCHANGED <<caps, active, slots, counter, pointer>>
    BY <1>12, <2>2, PayloadsAssumption DEF TickReceive, Config
  <2> QED BY <1>12, <2>1, <2>2 DEF TickReceive
<1>13. CASE TornWrite
  BY <1>13 DEF TornWrite
<1>14. CASE UNCHANGED vars
  BY <1>14 DEF vars
<1> QED BY <1>1, <1>2, <1>3, <1>4, <1>5, <1>6, <1>7, <1>8, <1>9, <1>10,
           <1>11, <1>12, <1>13, <1>14 DEF Next

\* The loaded components are those the EEPROM names, whenever power fails,
\* the portal saves or a command arrives, also inside a publish.
THEOREM RunsStored == Spec => []RunsWhatIsStored
<1>1. ConfigInv => RunsWhatIsStored
  BY DEF ConfigInv
<1> QED BY <1>1, ConfigInit, ConfigStep, PTL DEF Spec

\* A connected device has reported the configuration it runs: every change
\* goes through a new connection and a new report.
THEOREM ReportsStored == Spec => []ReportsWhatIsStored
<1>1. ConfigInv => ReportsWhatIsStored
  BY DEF ConfigInv
<1> QED BY <1>1, ConfigInit, ConfigStep, PTL DEF Spec

-----------------------------------------------------------------------------
(* The rounds of the loops.                                                *)

\* A set of numbers that is not empty has a least one, and Min is it.
LEMMA MinIsLeast ==
    ASSUME NEW S \in SUBSET Nat, S # {}
    PROVE  Min(S) \in S /\ \A y \in S : Min(S) <= y
<1>1. PICK x \in S : \A y \in S : ~(<<y, x>> \in OpToRel(<, Nat))
  BY NatLessThanWellFounded, WFMin
<1>2. ASSUME NEW y \in S PROVE x <= y
  <2>1. <<y, x>> \in Nat \X Nat /\ ~(y < x)
    BY <1>1 DEF OpToRel
  <2> QED BY <2>1
<1> QED BY <1>2 DEF Min

\* There are such rounds, and each follows from the one before.
LEMMA RoundsFollow ==
    ASSUME NEW step, NEW base, NEW n \in Nat
    PROVE  /\ Rounds(step, base, n)[0] = base
           /\ \A i \in 1..n :
                 Rounds(step, base, n)[i] = step[i][Rounds(step, base, n)[i - 1]]
<1> DEFINE Are(g, k) == g = [i \in 0..k |-> IF i = 0 THEN base ELSE step[i][g[i - 1]]]
           Short == {k \in Nat : ~\E g : Are(g, k)}
<1>1. Short = {}
  <2> SUFFICES ASSUME Short # {} PROVE FALSE
    OBVIOUS
  <2> DEFINE m == Min(Short)
  <2>1. m \in Nat /\ ~(\E g : Are(g, m)) /\ \A k \in Short : m <= k
    BY MinIsLeast
  <2> HIDE DEF m
  <2>2. m # 0
    <3> DEFINE g == [i \in 0..0 |-> base]
    <3>1. Are(g, 0)
      OBVIOUS
    <3> QED BY <2>1, <3>1
  <2>3. PICK g : Are(g, m - 1)
    <3>1. m - 1 \in Nat /\ m - 1 \notin Short
      BY <2>1, <2>2
    <3> QED BY <3>1
  <2> DEFINE h == [i \in 0..m |-> IF i = m THEN step[m][g[m - 1]] ELSE g[i]]
  <2>4. Are(h, m)
    <3>1. ASSUME NEW i \in 0..m PROVE h[i] = IF i = 0 THEN base ELSE step[i][h[i - 1]]
      <4>1. CASE i = 0
        <5>1. h[i] = g[0] /\ 0 \in 0..(m - 1)
          BY <2>1, <2>2, <4>1
        <5>2. g[0] = base
          BY <2>3, <5>1
        <5> QED BY <4>1, <5>1, <5>2
      <4>2. CASE i = m
        <5>1. h[i] = step[m][g[m - 1]] /\ m - 1 \in 0..m /\ m - 1 # m
          BY <2>1, <2>2, <4>2
        <5>2. h[m - 1] = g[m - 1]
          BY <5>1
        <5> QED BY <2>2, <4>2, <5>1, <5>2
      <4>3. CASE i # 0 /\ i # m
        <5>1. /\ i \in 0..(m - 1) /\ i - 1 \in 0..m /\ i - 1 # m
          BY <2>1, <4>3
        <5>2. h[i] = g[i] /\ h[i - 1] = g[i - 1]
          BY <4>3, <5>1
        <5>3. g[i] = step[i][g[i - 1]]
          BY <2>3, <4>3, <5>1
        <5> QED BY <4>3, <5>2, <5>3
      <4> QED BY <4>1, <4>2, <4>3
    <3> QED BY <3>1
  <2> QED BY <2>1, <2>4
<1>2. PICK g : Are(g, n)
  BY <1>1
<1>3. Are(Rounds(step, base, n), n)
  BY <1>2 DEF Rounds
<1>4. ASSUME NEW i \in 1..n PROVE i \in 0..n /\ i # 0
  OBVIOUS
<1> HIDE DEF Short
<1>5. \A r : Are(r, n) => r[0] = base /\ \A i \in 1..n : r[i] = step[i][r[i - 1]]
  BY <1>4
<1> QED BY <1>3, <1>5

\* What every round keeps holds after each: Inv[i] is the set of what there may
\* be after the round i.
LEMMA RoundsKeep ==
    ASSUME NEW step, NEW base, NEW n \in Nat, NEW Inv,
           base \in Inv[0],
           \A i \in 1..n : \A was \in Inv[i - 1] : step[i][was] \in Inv[i]
    PROVE  \A i \in 0..n : Rounds(step, base, n)[i] \in Inv[i]
<1> DEFINE after == Rounds(step, base, n)
           Lost == {i \in 0..n : after[i] \notin Inv[i]}
<1>1. after[0] = base /\ \A i \in 1..n : after[i] = step[i][after[i - 1]]
  BY RoundsFollow
<1> HIDE DEF after
<1>2. SUFFICES ASSUME Lost # {} PROVE FALSE
  BY DEF after
<1> DEFINE m == Min(Lost)
<1>3. m \in Lost /\ \A i \in Lost : m <= i
  <2>1. Lost \in SUBSET Nat
    OBVIOUS
  <2> QED BY <1>2, <2>1, MinIsLeast
<1> HIDE DEF m
<1>4. m \in 1..n
  BY <1>1, <1>3
<1>5. m - 1 \in 0..n /\ m - 1 \notin Lost
  BY <1>3, <1>4
<1>6. after[m] \in Inv[m]
  BY <1>1, <1>4, <1>5
<1> QED BY <1>3, <1>6

-----------------------------------------------------------------------------
(* The entries baked: as many as were asked for, or as the table holds.    *)

\* The order as a list without repetitions of all the components.
LEMMA OrderIs ==
    /\ Len(Order) \in Nat
    /\ Bakings = 1..Len(Order)
    /\ \A j \in Bakings : Order[j] \in Components
    /\ \A j, k \in Bakings : Order[j] = Order[k] => j = k
    /\ \A c \in Components : \E j \in Bakings : c = Order[j]
BY OrderAssumption DEF Bakings, IsInjective, Components, ToSet

\* What is wanted is a number.
LEMMA WantedIs ==
    ASSUME NEW set, NEW c \in Components
    PROVE  Wanted(set, c) \in Nat
BY UpdatesAssumption DEF Wanted

\* The totals add up, and only grow.
LEMMA TotalsAdd ==
    ASSUME NEW set
    PROVE  /\ \A j \in 0..Len(Order) : Totals(set)[j] \in 0..Total(set)
           /\ Totals(set)[0] = 0
           /\ \A j \in Bakings :
                 Totals(set)[j] = Totals(set)[j - 1] + Wanted(set, Order[j])
<1> DEFINE step == [j \in Bakings |-> [sum \in Nat |-> sum + Wanted(set, Order[j])]]
           L == Len(Order)
<1>1. Totals(set) = Rounds(step, 0, L)
  BY DEF Totals
<1>2. \A j \in 1..L : \A sum \in Nat : step[j][sum] = sum + Wanted(set, Order[j])
  BY OrderIs
<1>3. \A j \in 1..L : Wanted(set, Order[j]) \in Nat
  BY OrderIs, WantedIs
<1> HIDE DEF step
<1>4. \A j \in 0..L : Totals(set)[j] \in Nat
  <2> DEFINE Inv == [j \in 0..L |-> Nat]
  <2>1. \A j \in 1..L : \A sum \in Inv[j - 1] : step[j][sum] \in Inv[j]
    <3>1. \A j \in 1..L : j - 1 \in 0..L /\ j \in 0..L
      BY OrderIs
    <3>2. ASSUME NEW j \in 1..L, NEW sum \in Nat PROVE step[j][sum] \in Nat
      <4>1. Wanted(set, Order[j]) \in Nat
        BY <1>3
      <4>2. step[j][sum] = sum + Wanted(set, Order[j])
        BY <1>2
      <4> QED BY <4>1, <4>2
    <3> QED BY <3>1, <3>2
  <2>2. 0 \in Inv[0]
    BY OrderIs
  <2>3. \A j \in 0..L : Rounds(step, 0, L)[j] \in Inv[j]
    <3> HIDE DEF Inv
    <3> QED BY <2>1, <2>2, OrderIs, RoundsKeep
  <2> QED BY <1>1, <2>3
<1>5. /\ Totals(set)[0] = 0
      /\ \A j \in 1..L : Totals(set)[j] = step[j][Totals(set)[j - 1]]
  BY <1>1, OrderIs, RoundsFollow
<1>6. \A j \in 1..L : Totals(set)[j] = Totals(set)[j - 1] + Wanted(set, Order[j])
  <2>1. \A j \in 1..L : j - 1 \in 0..L
    BY OrderIs
  <2> QED BY <1>2, <1>4, <1>5, <2>1
<1>7. ASSUME NEW k \in 0..L PROVE Totals(set)[k] <= Totals(set)[L]
  <2> DEFINE low == Totals(set)[k]
             Inv == [j \in 0..L |-> IF j < k THEN Nat ELSE {sum \in Nat : low <= sum}]
  <2>1. low \in Nat
    BY <1>4
  <2>2. ASSUME NEW j \in 1..L, Totals(set)[j - 1] \in Inv[j - 1]
        PROVE  Totals(set)[j] \in Inv[j]
    <3>1. j - 1 \in 0..L /\ j \in 0..L
      OBVIOUS
    <3>2. /\ Totals(set)[j] \in Nat /\ Totals(set)[j - 1] \in Nat
          /\ Totals(set)[j - 1] <= Totals(set)[j]
      BY <1>3, <1>4, <1>6, <3>1
    <3>3. CASE j <= k
      <4>1. j = k \/ j < k
        BY <3>1, <3>3
      <4> QED BY <2>1, <3>1, <3>2, <4>1
    <3>4. CASE ~(j <= k)
      <4>1. ~(j < k) /\ ~(j - 1 < k)
        BY <3>4
      <4>2. low <= Totals(set)[j - 1]
        BY <2>2, <3>1, <4>1
      <4>3. low <= Totals(set)[j]
        BY <2>1, <3>2, <4>2
      <4> QED BY <3>1, <3>2, <4>1, <4>3
    <3> QED BY <3>3, <3>4
  <2>3. Totals(set)[0] \in Inv[0]
    <3>1. k = 0 => low = 0
      BY <1>5
    <3> QED BY <1>5, <3>1
  <2> DEFINE Off == {j \in 0..L : Totals(set)[j] \notin Inv[j]}
  <2>4. Off = {}
    <3> SUFFICES ASSUME Off # {} PROVE FALSE
      OBVIOUS
    <3> HIDE DEF Inv
    <3>1. Off \in SUBSET Nat
      OBVIOUS
    <3> DEFINE m == Min(Off)
    <3>2. m \in Off /\ \A i \in Off : m <= i
      BY <3>1, MinIsLeast
    <3> HIDE DEF m
    <3>3. m \in 1..L
      BY <2>3, <3>2
    <3>4. m - 1 \in 0..L /\ m - 1 \notin Off
      BY <3>2, <3>3
    <3> QED BY <2>2, <3>2, <3>3, <3>4
  <2>5. L \in 0..L /\ ~(L < k)
    BY OrderIs
  <2>6. Totals(set)[L] \in Inv[L]
    BY <2>4, <2>5
  <2> QED BY <2>5, <2>6
<1> QED BY <1>4, <1>5, <1>6, <1>7, OrderIs DEF Total

\* Only the known components count.
LEMMA TotalOfKnown ==
    ASSUME NEW set
    PROVE  Totals(set \cap Components) = Totals(set)
<1>1. \A j \in Bakings : Wanted(set \cap Components, Order[j]) = Wanted(set, Order[j])
  BY OrderIs DEF Wanted
<1> QED BY <1>1 DEF Totals

\* the table with its counter, as bake() keeps them
Filling == {to \in Filled : to.next \in Index}

\* An append stays in the table, and counts up to its last entry.
LEMMA AppendedFills ==
    ASSUME NEW to \in Filling, NEW c \in Components
    PROVE  /\ Appended(to, c) \in Filling
           /\ Appended(to, c).next = Lower(to.next + 1, MaxSlots - 1)
<1>1. to.next \in Index /\ to.table \in Tables /\ c \in Handles
  BY DEF Filling, Filled, Handles
<1>2. [to.table EXCEPT ![to.next] = c] \in Tables
  BY <1>1 DEF Tables
<1>3. Lower(to.next + 1, MaxSlots - 1) \in Index
  BY <1>1, SlotsAssumption DEF Lower, Index
<1>4. Lower(to.next + 1, MaxSlots - 1) \in Nat
  BY <1>3 DEF Index
<1> QED BY <1>2, <1>3, <1>4 DEF Appended, Filling, Filled

\* So do all the appends of one component.
LEMMA BakeFills ==
    ASSUME NEW to \in Filling, NEW c \in Components, NEW n \in Nat
    PROVE  /\ Bake(to, c, n) \in Filling
           /\ Bake(to, c, n).next = Lower(to.next + n, MaxSlots - 1)
<1> DEFINE step == [i \in 1..n |-> [so \in Filled |-> Appended(so, c)]]
           Inv == [i \in 0..n |->
                      {so \in Filling : so.next = Lower(to.next + i, MaxSlots - 1)}]
<1>1. to \in Inv[0]
  BY SlotsAssumption DEF Filling, Filled, Lower, Index
<1>2. ASSUME NEW i \in 1..n, NEW so \in Inv[i - 1] PROVE step[i][so] \in Inv[i]
  <2>1. i - 1 \in 0..n /\ i \in 0..n
    OBVIOUS
  <2>2. so \in Filling /\ so \in Filled /\ so.next = Lower(to.next + (i - 1), MaxSlots - 1)
    BY <1>2, <2>1 DEF Filling
  <2>3. step[i][so] = Appended(so, c)
    BY <2>2
  <2>4. Lower(so.next + 1, MaxSlots - 1) = Lower(to.next + i, MaxSlots - 1)
    <3>1. to.next \in Nat /\ MaxSlots - 1 \in Nat
      BY SlotsAssumption DEF Filling, Filled
    <3> QED BY <2>2, <3>1 DEF Lower
  <2> QED BY <2>1, <2>2, <2>3, <2>4, AppendedFills
<1>3. \A i \in 0..n : Rounds(step, to, n)[i] \in Inv[i]
  <2> HIDE DEF step, Inv
  <2> QED BY <1>1, <1>2, RoundsKeep
<1>4. Bake(to, c, n) \in Inv[n]
  BY <1>3 DEF Bake, Result
<1> QED BY <1>4

\* And all the components together: the counter is their total, as far as the
\* table goes.
LEMMA BakedFills ==
    ASSUME NEW table \in Tables, NEW set
    PROVE  /\ Baked(table, set) \in Filling
           /\ Baked(table, set).next = Lower(Total(set), MaxSlots - 1)
<1> DEFINE L == Len(Order)
           step == [j \in Bakings |-> [to \in Filled |->
                       Bake(to, Order[j], Wanted(set, Order[j]))]]
           base == [table |-> table, next |-> 0]
           Inv == [j \in 0..L |->
                      {to \in Filling : to.next = Lower(Totals(set)[j], MaxSlots - 1)}]
<1>1. base \in Inv[0]
  <2>1. 0 \in Index /\ Lower(0, MaxSlots - 1) = 0 /\ 0 \in 0..L
    BY SlotsAssumption, OrderIs DEF Index, Lower
  <2> QED BY <2>1, TotalsAdd DEF Filling, Filled
<1>2. ASSUME NEW j \in 1..L, NEW to \in Inv[j - 1] PROVE step[j][to] \in Inv[j]
  <2>1. j - 1 \in 0..L /\ j \in 0..L /\ j \in Bakings /\ Order[j] \in Components
    BY OrderIs
  <2>2. /\ to \in Filling /\ to \in Filled
        /\ to.next = Lower(Totals(set)[j - 1], MaxSlots - 1)
    BY <1>2, <2>1 DEF Filling
  <2> DEFINE w == Wanted(set, Order[j])
  <2>3. step[j][to] = Bake(to, Order[j], w)
    BY <2>1, <2>2
  <2>4. w \in Nat
    BY <2>1, WantedIs
  <2> HIDE DEF w
  <2>5. Lower(to.next + w, MaxSlots - 1) = Lower(Totals(set)[j], MaxSlots - 1)
    <3>1. /\ Totals(set)[j - 1] \in Nat /\ MaxSlots - 1 \in Nat
          /\ Totals(set)[j] = Totals(set)[j - 1] + w
      BY <2>1, TotalsAdd, SlotsAssumption DEF w
    <3> QED BY <2>2, <2>4, <3>1 DEF Lower
  <2> QED BY <2>1, <2>2, <2>3, <2>4, <2>5, BakeFills
<1>3. \A j \in 0..L : Rounds(step, base, L)[j] \in Inv[j]
  <2> HIDE DEF step, Inv, base
  <2> QED BY <1>1, <1>2, OrderIs, RoundsKeep
<1>4. L \in 0..L
  BY OrderIs
<1>5. Baked(table, set) \in Inv[L]
  BY <1>3, <1>4 DEF Baked, Result
<1> QED BY <1>4, <1>5 DEF Total

-----------------------------------------------------------------------------
(* The slots dealt.                                                        *)

\* the slots of the cycle that hold h, a component or None
Owned(table, h, n) == {i \in 0..(n - 1) : table[i] = h}
Count(table, h, n) == Cardinality(Owned(table, h, n))

\* The slots of a cycle can be counted.
LEMMA CountIs ==
    ASSUME NEW table, NEW h, NEW n \in Nat
    PROVE  /\ IsFiniteSet(Owned(table, h, n))
           /\ Count(table, h, n) \in Nat
           /\ Count(table, h, n) = 0 <=> Owned(table, h, n) = {}
<1>1. IsFiniteSet(0..(n - 1))
  BY FS_Interval
<1>2. Owned(table, h, n) \in SUBSET (0..(n - 1))
  BY DEF Owned
<1>3. IsFiniteSet(Owned(table, h, n))
  BY <1>1, <1>2, FS_Subset
<1> QED BY <1>3, FS_CardinalityType, FS_EmptySet DEF Count

\* As long as a slot is free, a component gets one of them.
LEMMA PlaceTakesOne ==
    ASSUME NEW table \in Tables, NEW c \in Components, NEW first \in Nat,
           NEW n \in 0..MaxSlots, Owned(table, None, n) # {}
    PROVE  \E slot \in Owned(table, None, n) :
               Place(table, c, first, n) = [table EXCEPT ![slot] = c]
<1> DEFINE ahead == FreeFrom(table, first, n)
           any == FreeFrom(table, 0, n)
<1>1. any = Owned(table, None, n) /\ ahead \subseteq any /\ any \in SUBSET Nat
  BY DEF FreeFrom, Owned
<1>2. CASE ahead # {}
  BY <1>1, <1>2, MinIsLeast DEF Place
<1>3. CASE ahead = {}
  BY <1>1, <1>3, MinIsLeast DEF Place
<1> QED BY <1>2, <1>3

\* Then it has one slot more, there is one free slot less, and the others keep
\* theirs.
LEMMA PlaceCounts ==
    ASSUME NEW table \in Tables, NEW c \in Components, NEW first \in Nat,
           NEW n \in 0..MaxSlots, Count(table, None, n) > 0
    PROVE  LET placed == Place(table, c, first, n)
           IN  /\ placed \in Tables
               /\ Count(placed, None, n) = Count(table, None, n) - 1
               /\ Count(placed, c, n) = Count(table, c, n) + 1
               /\ \A d \in Components \ {c} : Count(placed, d, n) = Count(table, d, n)
<1>1. n \in Nat /\ c \in Handles /\ c # None
  BY SlotsAssumption, NamesAssumption DEF Handles
<1>2. Owned(table, None, n) # {}
  BY <1>1, CountIs
<1>3. PICK slot \in Owned(table, None, n) :
          Place(table, c, first, n) = [table EXCEPT ![slot] = c]
  BY <1>2, PlaceTakesOne
<1> DEFINE placed == [table EXCEPT ![slot] = c]
<1>4. slot \in 0..(n - 1) /\ table[slot] = None
  BY DEF Owned
<1>5. \A i \in 0..(n - 1) : i \in Index /\ placed[i] = IF i = slot THEN c ELSE table[i]
  BY <1>4, SlotsAssumption DEF Index, Tables
<1>6. placed \in Tables
  BY <1>1 DEF Tables
<1> HIDE DEF placed
<1>7. Count(placed, None, n) = Count(table, None, n) - 1
  <2>1. Owned(placed, None, n) = Owned(table, None, n) \ {slot}
    BY <1>1, <1>4, <1>5 DEF Owned
  <2>2. IsFiniteSet(Owned(table, None, n)) /\ slot \in Owned(table, None, n)
    BY <1>1, CountIs
  <2>3. Cardinality(Owned(table, None, n) \ {slot}) = Cardinality(Owned(table, None, n)) - 1
    BY <2>2, FS_RemoveElement
  <2> QED BY <2>1, <2>3 DEF Count
<1>8. Count(placed, c, n) = Count(table, c, n) + 1
  <2>1. Owned(placed, c, n) = Owned(table, c, n) \cup {slot} /\ slot \notin Owned(table, c, n)
    BY <1>1, <1>4, <1>5 DEF Owned
  <2> QED BY <1>1, <2>1, CountIs, FS_AddElement DEF Count
<1>9. ASSUME NEW d \in Components \ {c} PROVE Count(placed, d, n) = Count(table, d, n)
  <2>1. d # None
    BY NamesAssumption
  <2>2. Owned(placed, d, n) = Owned(table, d, n)
    BY <1>4, <1>5, <2>1 DEF Owned
  <2> QED BY <2>2 DEF Count
<1> QED BY <1>3, <1>6, <1>7, <1>8, <1>9 DEF placed

\* The wanted position is a number.
LEMMA RoundedIs ==
    ASSUME NEW ii \in Nat, NEW n \in Nat, NEW updates \in Nat \ {0}
    PROVE  Rounded(ii, n, updates) \in Nat
<1>1. \A a, b \in Nat : a * b \in Nat
  OBVIOUS
<1>2. 2 * ii * n \in Nat /\ 2 * updates \in Nat \ {0}
  BY <1>1
<1>3. \A a \in Nat : \A b \in Nat \ {0} : a \div b \in Nat
  OBVIOUS
<1>4. 2 * ii * n + updates \in Nat
  BY <1>2
<1> QED BY <1>2, <1>3, <1>4 DEF Rounded

\* the first free slot, or the end
LEMMA StartIs ==
    ASSUME NEW table, NEW n \in Nat
    PROVE  (IF FreeFrom(table, 0, n) = {} THEN n ELSE Min(FreeFrom(table, 0, n))) \in Nat
<1>1. FreeFrom(table, 0, n) \in SUBSET Nat
  BY DEF FreeFrom
<1> QED BY <1>1, MinIsLeast

\* Each update of a component gets a slot, if there are enough of them.
LEMMA DealOneCounts ==
    ASSUME NEW table \in Tables, NEW c \in Components, NEW n \in 0..MaxSlots,
           Updates[c] <= Count(table, None, n)
    PROVE  LET dealt == DealOne(table, c, n)
           IN  /\ dealt \in Tables
               /\ Count(dealt, None, n) = Count(table, None, n) - Updates[c]
               /\ Count(dealt, c, n) = Count(table, c, n) + Updates[c]
               /\ \A d \in Components \ {c} : Count(dealt, d, n) = Count(table, d, n)
<1> DEFINE start == IF FreeFrom(table, 0, n) = {} THEN n ELSE Min(FreeFrom(table, 0, n))
           first(i) == start + Rounded(i - 1, n, Updates[c])
           step == [i \in 1..Updates[c] |-> [t \in Tables |-> Place(t, c, first(i), n)]]
           Inv == [i \in 0..Updates[c] |->
                     {t \in Tables :
                        /\ Count(t, None, n) = Count(table, None, n) - i
                        /\ Count(t, c, n) = Count(table, c, n) + i
                        /\ \A d \in Components \ {c} : Count(t, d, n) = Count(table, d, n)}]
<1>1. n \in Nat /\ Updates[c] \in Nat
  BY SlotsAssumption, UpdatesAssumption
<1>2. table \in Inv[0]
  BY <1>1, CountIs
<1>3. ASSUME NEW i \in 1..Updates[c] PROVE first(i) \in Nat
  <2>1. i - 1 \in Nat /\ Updates[c] \in Nat \ {0}
    BY <1>1
  <2>2. Rounded(i - 1, n, Updates[c]) \in Nat
    BY <1>1, <2>1, RoundedIs
  <2>3. start \in Nat
    BY <1>1, StartIs
  <2> HIDE DEF start
  <2> QED BY <2>2, <2>3
<1> HIDE DEF first
<1>4. ASSUME NEW i \in 1..Updates[c], NEW t \in Inv[i - 1] PROVE step[i][t] \in Inv[i]
  <2>1. i - 1 \in 0..Updates[c] /\ i \in 0..Updates[c] /\ i \in Nat
    BY <1>1
  <2>2. /\ t \in Tables
        /\ Count(t, None, n) = Count(table, None, n) - (i - 1)
        /\ Count(t, c, n) = Count(table, c, n) + (i - 1)
        /\ \A d \in Components \ {c} : Count(t, d, n) = Count(table, d, n)
    BY <1>4, <2>1
  <2> DEFINE placed == Place(t, c, first(i), n)
  <2>3. step[i][t] = placed
    BY <2>2
  <2>4. Count(table, None, n) \in Nat /\ Count(table, c, n) \in Nat
    BY <1>1, CountIs
  <2>5. Count(t, None, n) > 0
    BY <1>1, <2>2, <2>4
  <2>6. /\ placed \in Tables
        /\ Count(placed, None, n) = Count(t, None, n) - 1
        /\ Count(placed, c, n) = Count(t, c, n) + 1
        /\ \A d \in Components \ {c} : Count(placed, d, n) = Count(t, d, n)
    BY <1>3, <2>2, <2>5, PlaceCounts
  <2> HIDE DEF placed, step
  <2>7. placed \in Inv[i]
    BY <2>1, <2>2, <2>4, <2>6
  <2> QED BY <2>3, <2>7
<1>5. \A i \in 0..Updates[c] : Rounds(step, table, Updates[c])[i] \in Inv[i]
  <2> HIDE DEF step, Inv
  <2> QED BY <1>1, <1>2, <1>4, RoundsKeep
<1>6. Updates[c] \in 0..Updates[c]
  BY <1>1
<1>7. DealOne(table, c, n) = Rounds(step, table, Updates[c])[Updates[c]]
  BY DEF DealOne, Result, first
<1>8. DealOne(table, c, n) \in Inv[Updates[c]]
  <2> HIDE DEF step, Inv
  <2> QED BY <1>5, <1>6, <1>7
<1> QED BY <1>6, <1>8

\* Dealing keeps the table a table, with enough free slots or without.
LEMMA DealOneTyped ==
    ASSUME NEW table \in Tables, NEW c \in Components, NEW n
    PROVE  DealOne(table, c, n) \in Tables
<1> DEFINE start == IF FreeFrom(table, 0, n) = {} THEN n ELSE Min(FreeFrom(table, 0, n))
           first(i) == start + Rounded(i - 1, n, Updates[c])
           step == [i \in 1..Updates[c] |-> [t \in Tables |-> Place(t, c, first(i), n)]]
           Inv == [i \in 0..Updates[c] |-> Tables]
<1> HIDE DEF first
<1>1. Updates[c] \in Nat
  BY UpdatesAssumption
<1>2. ASSUME NEW i \in 1..Updates[c], NEW t \in Inv[i - 1] PROVE step[i][t] \in Inv[i]
  <2>1. i - 1 \in 0..Updates[c] /\ i \in 0..Updates[c]
    BY <1>1
  <2>2. t \in Tables /\ c \in Handles
    BY <1>2, <2>1 DEF Handles
  <2>3. \A slot : [t EXCEPT ![slot] = c] \in Tables
    BY <2>2 DEF Tables
  <2>4. Place(t, c, first(i), n) \in Tables
    BY <2>2, <2>3 DEF Place
  <2> QED BY <2>1, <2>2, <2>4
<1>3. table \in Inv[0]
  BY <1>1
<1>4. \A i \in 0..Updates[c] : Rounds(step, table, Updates[c])[i] \in Inv[i]
  <2> HIDE DEF step, Inv
  <2> QED BY <1>1, <1>2, <1>3, RoundsKeep
<1>5. DealOne(table, c, n) = Rounds(step, table, Updates[c])[Updates[c]]
  BY DEF DealOne, Result, first
<1>6. DealOne(table, c, n) \in Inv[Updates[c]] /\ Updates[c] \in 0..Updates[c]
  <2> HIDE DEF step, Inv
  <2> QED BY <1>1, <1>4, <1>5
<1> QED BY <1>6

\* The same, for all components.
LEMMA DealtTyped ==
    ASSUME NEW table \in Tables, NEW set, NEW n \in Nat
    PROVE  Dealt(table, set, n) \in Tables
<1> DEFINE L == Len(Order)
           step == [j \in Bakings |-> [t \in Tables |->
                       IF Order[j] \in set THEN DealOne(t, Order[j], n) ELSE t]]
           base == [i \in Index |-> IF i < n THEN None ELSE table[i]]
           Inv == [j \in 0..L |-> Tables]
<1>1. base \in Inv[0]
  BY OrderIs DEF Tables, Handles
<1>2. ASSUME NEW j \in 1..L, NEW t \in Inv[j - 1] PROVE step[j][t] \in Inv[j]
  <2>1. j - 1 \in 0..L /\ j \in 0..L /\ j \in Bakings /\ Order[j] \in Components
    BY OrderIs
  <2>2. t \in Tables
    BY <1>2, <2>1
  <2> QED BY <2>1, <2>2, DealOneTyped
<1>3. \A j \in 0..L : Rounds(step, base, L)[j] \in Inv[j]
  <2> HIDE DEF step, Inv, base
  <2> QED BY <1>1, <1>2, OrderIs, RoundsKeep
<1>4. L \in 0..L
  BY OrderIs
<1>5. Dealt(table, set, n) \in Inv[L]
  BY <1>3, <1>4 DEF Dealt, Result
<1> QED BY <1>4, <1>5

\* Every component of a configuration that fits gets all it asked for.
LEMMA DealtCounts ==
    ASSUME NEW table \in Tables, NEW set, Total(set) < MaxSlots
    PROVE  \A c \in set \cap Components :
               Count(Dealt(table, set, Total(set)), c, Total(set)) = Updates[c]
<1> DEFINE L == Len(Order)
           n == Total(set)
           step == [j \in Bakings |-> [t \in Tables |->
                       IF Order[j] \in set THEN DealOne(t, Order[j], n) ELSE t]]
           base == [i \in Index |-> IF i < n THEN None ELSE table[i]]
           Inv == [j \in 0..L |->
                     {t \in Tables :
                        /\ Count(t, None, n) = n - Totals(set)[j]
                        /\ \A k \in Bakings :
                              Count(t, Order[k], n) =
                                  IF k <= j THEN Wanted(set, Order[k]) ELSE 0}]
<1>1. L \in 0..L /\ 0 \in 0..L /\ n \in Nat /\ n \in 0..MaxSlots /\ n < MaxSlots
  <2>1. L \in 0..L /\ 0 \in 0..L
    BY OrderIs
  <2>2. Totals(set)[L] \in 0..n /\ Totals(set)[0] \in 0..n /\ Totals(set)[0] = 0
    BY <2>1, TotalsAdd
  <2>3. n \in Nat
    BY <2>1, TotalsAdd DEF Total
  <2> QED BY <2>1, <2>3, SlotsAssumption
<1> HIDE DEF n
<1>2. base \in Inv[0]
  <2>1. base \in Tables
    BY OrderIs DEF Tables, Handles
  <2>2. \A i \in 0..(n - 1) : base[i] = None
    BY <1>1, SlotsAssumption DEF Index
  <2>3. Owned(base, None, n) = 0..(n - 1)
    BY <2>2 DEF Owned
  <2>4. Cardinality(0..(n - 1)) = n
    BY <1>1, FS_Interval
  <2>5. ASSUME NEW k \in Bakings
        PROVE  Count(base, Order[k], n) = 0 /\ ~(k <= 0)
    <3>1. Order[k] # None /\ ~(k <= 0)
      BY OrderIs, NamesAssumption
    <3>2. Owned(base, Order[k], n) = {}
      BY <2>2, <3>1 DEF Owned
    <3> QED BY <1>1, <3>1, <3>2, CountIs
  <2> HIDE DEF base
  <2>6. Count(base, None, n) = n - Totals(set)[0]
    BY <1>1, <2>3, <2>4, TotalsAdd DEF Count
  <2> QED BY <1>1, <2>1, <2>5, <2>6
<1>3. ASSUME NEW j \in 1..L, NEW t \in Inv[j - 1] PROVE step[j][t] \in Inv[j]
  <2>1. j - 1 \in 0..L /\ j \in 0..L /\ j \in Bakings /\ Order[j] \in Components
    BY OrderIs
  <2>2. /\ t \in Tables
        /\ Count(t, None, n) = n - Totals(set)[j - 1]
        /\ \A k \in Bakings :
              Count(t, Order[k], n) = IF k <= j - 1 THEN Wanted(set, Order[k]) ELSE 0
    BY <1>3, <2>1
  <2> DEFINE w == Wanted(set, Order[j])
             dealt == IF Order[j] \in set THEN DealOne(t, Order[j], n) ELSE t
  <2>3. step[j][t] = dealt
    BY <2>1, <2>2
  <2>4. /\ w \in Nat
        /\ Totals(set)[j] = Totals(set)[j - 1] + w
        /\ Totals(set)[j - 1] \in 0..n /\ Totals(set)[j] \in 0..n
    BY <2>1, WantedIs, TotalsAdd DEF n
  <2>5. /\ dealt \in Tables
        /\ Count(dealt, None, n) = Count(t, None, n) - w
        /\ Count(dealt, Order[j], n) = Count(t, Order[j], n) + w
        /\ \A d \in Components \ {Order[j]} : Count(dealt, d, n) = Count(t, d, n)
    <3>1. CASE Order[j] \in set
      <4>1. w = Updates[Order[j]]
        BY <3>1 DEF Wanted
      <4>2. Updates[Order[j]] <= Count(t, None, n)
        BY <1>1, <2>2, <2>4, <4>1
      <4>3. dealt = DealOne(t, Order[j], n)
        BY <3>1
      <4> HIDE DEF w, dealt
      <4> QED BY <1>1, <2>1, <2>2, <4>1, <4>2, <4>3, DealOneCounts
    <3>2. CASE Order[j] \notin set
      <4>1. w = 0 /\ dealt = t
        BY <3>2 DEF Wanted
      <4>2. Count(t, None, n) \in Nat /\ Count(t, Order[j], n) \in Nat
        BY <1>1, CountIs
      <4> HIDE DEF w, dealt
      <4> QED BY <2>2, <4>1, <4>2
    <3> QED BY <3>1, <3>2
  <2>6. Count(dealt, None, n) = n - Totals(set)[j]
    <3> HIDE DEF w, dealt
    <3> QED BY <1>1, <2>2, <2>4, <2>5
  <2>7. ASSUME NEW k \in Bakings
        PROVE  Count(dealt, Order[k], n) = IF k <= j THEN Wanted(set, Order[k]) ELSE 0
    <3>1. k \in 1..L /\ Order[k] \in Components
      BY OrderIs
    <3>2. CASE k = j
      <4>1. Count(t, Order[j], n) = 0
        BY <2>1, <2>2, <3>1, <3>2
      <4>2. Count(dealt, Order[j], n) = w
        <5> HIDE DEF w, dealt
        <5> QED BY <2>4, <2>5, <4>1
      <4> QED BY <3>1, <3>2, <4>2
    <3>3. CASE k # j
      <4>1. Order[k] \in Components \ {Order[j]}
        BY <2>1, <3>1, <3>3, OrderIs
      <4>2. Count(dealt, Order[k], n) = Count(t, Order[k], n)
        <5> HIDE DEF w, dealt
        <5> QED BY <2>5, <4>1
      <4>3. k <= j - 1 <=> k <= j
        BY <3>1, <3>3
      <4> QED BY <2>2, <4>2, <4>3
    <3> QED BY <3>2, <3>3
  <2> HIDE DEF dealt, step
  <2>8. dealt \in Inv[j]
    BY <2>1, <2>5, <2>6, <2>7
  <2> QED BY <2>3, <2>8
<1>4. \A j \in 0..L : Rounds(step, base, L)[j] \in Inv[j]
  <2> HIDE DEF step, Inv, base
  <2> QED BY <1>2, <1>3, OrderIs, RoundsKeep
<1>5. Dealt(table, set, n) = Rounds(step, base, L)[L]
  BY DEF Dealt, Result
<1>6. Dealt(table, set, n) \in Inv[L]
  <2> HIDE DEF step, Inv, base
  <2> QED BY <1>1, <1>4, <1>5
<1>7. ASSUME NEW c \in set \cap Components
      PROVE  Count(Dealt(table, set, n), c, n) = Updates[c]
  <2>1. PICK k \in Bakings : c = Order[k]
    BY OrderIs
  <2>2. k <= L
    BY OrderIs
  <2>3. Count(Dealt(table, set, n), Order[k], n) = Wanted(set, Order[k])
    BY <1>1, <1>6, <2>2
  <2> QED BY <2>1, <2>3 DEF Wanted
<1> QED BY <1>7 DEF n

\* What loading a configuration leaves, whatever was in the table before.
LEMMA LoadDeals ==
    ASSUME NEW config \in Config, NEW table \in Tables, Load(config, table)
    PROVE  /\ active' \subseteq Components
           /\ caps' \in Config
           /\ slots' \in Tables
           /\ counter' \in Index
           /\ active' \in Fitting =>
                 /\ counter' = Total(active')
                 /\ \A c \in active' :
                       Cardinality({i \in 0..(counter' - 1) : slots'[i] = c}) = Updates[c]
<1> DEFINE baked == Baked(table, config)
<1>1. /\ active' = config \cap Components /\ caps' = config \ Components
      /\ counter' = baked.next /\ slots' = Dealt(baked.table, config, baked.next)
  BY DEF Load
<1>2. baked \in Filling /\ baked.next = Lower(Total(config), MaxSlots - 1)
  BY BakedFills
<1> HIDE DEF baked
<1>3. baked.table \in Tables /\ baked.next \in Index /\ baked.next \in Nat
  BY <1>2 DEF Filling, Filled
<1>4. slots' \in Tables
  BY <1>1, <1>3, DealtTyped
<1>5. ASSUME active' \in Fitting
      PROVE  /\ counter' = Total(active')
             /\ \A c \in active' :
                   Cardinality({i \in 0..(counter' - 1) : slots'[i] = c}) = Updates[c]
  <2>1. Total(active') = Total(config)
    BY <1>1, TotalOfKnown DEF Total
  <2>2. Total(config) < MaxSlots
    BY <1>5, <2>1 DEF Fitting
  <2>3. Total(config) \in Nat
    <3>1. Len(Order) \in 0..Len(Order)
      BY OrderIs
    <3> QED BY <3>1, TotalsAdd DEF Total
  <2>4. counter' = Total(config)
    BY <1>1, <1>2, <2>2, <2>3, SlotsAssumption DEF Lower
  <2>5. \A c \in active' : Count(slots', c, counter') = Updates[c]
    BY <1>1, <1>3, <2>2, <2>4, DealtCounts
  <2> QED BY <2>1, <2>4, <2>5 DEF Count, Owned
<1> QED BY <1>1, <1>3, <1>4, <1>5 DEF Config

-----------------------------------------------------------------------------
(* The type invariant and the slots, along every step.                     *)

\* After a command the table is typed and dealt, whether it was loaded anew
\* or left alone.
LEMMA CommandDeals ==
    ASSUME TypeOK, SlotsDealt, stored \in Config, phase # "reset",
           Reload \/ \E payload \in Payloads : Capability(payload)
    PROVE  /\ stored' \in Config /\ caps' \in Config
           /\ active' \subseteq Components
           /\ slots' \in Tables
           /\ counter' \in Index
           /\ phase' \in {phase, "offline"}
           /\ SlotsDealt'
<1>1. slots \in Tables
  BY DEF TypeOK
<1>2. CASE Reload
  BY <1>1, <1>2, LoadDeals DEF Reload, SlotsDealt
<1>3. ASSUME NEW payload \in Payloads, Capability(payload)
      PROVE  /\ stored' \in Config /\ caps' \in Config
             /\ active' \subseteq Components
             /\ slots' \in Tables
             /\ counter' \in Index
             /\ phase' \in {phase, "offline"}
             /\ SlotsDealt'
  <2>1. payload \in Config
    BY PayloadsAssumption DEF Config
  <2>2. CASE payload = stored
    BY <1>3, <2>2 DEF Capability, TypeOK, SlotsDealt
  <2>3. CASE payload # stored
    BY <1>1, <1>3, <2>1, <2>3, LoadDeals DEF Capability, SlotsDealt
  <2> QED BY <2>2, <2>3
<1> QED BY <1>2, <1>3

\* Within the slots in use, the next one is in the table.
LEMMA PointerTurns ==
    ASSUME NEW p \in Index, NEW n \in Index, n > 0
    PROVE  (p + 1) % n \in Index
<1>1. \A a \in Nat : \A b \in Nat \ {0} : a % b \in 0..(b - 1)
  OBVIOUS
<1>2. p + 1 \in Nat /\ n \in Nat \ {0} /\ n - 1 <= MaxSlots - 1
  BY SlotsAssumption DEF Index
<1>3. (p + 1) % n \in 0..(n - 1)
  BY <1>1, <1>2
<1> QED BY <1>2, <1>3, SlotsAssumption DEF Index

\* What is served is a loaded component and the number of one of its slots.
LEMMA ServedIs ==
    ASSUME TypeOK, Loaded
    PROVE  <<Handle, UserSlot>> \in Components \X Nat
<1>1. pointer \in Nat /\ Handle \in Components
  BY DEF TypeOK, Loaded, Index
<1>2. UserSlot = Count(slots, Handle, pointer)
  BY DEF UserSlot, Count, Owned
<1> QED BY <1>1, <1>2, CountIs

LEMMA SlotsInit == Init => TypeOK /\ SlotsDealt
<1> SUFFICES ASSUME Init PROVE TypeOK /\ SlotsDealt
  OBVIOUS
<1>1. stored \in Config /\ {} \in Config
  BY PayloadsAssumption DEF Init, Config
<1>2. 0 \in Index /\ slots \in Tables
  BY SlotsAssumption DEF Init, Index, NoSlots, Tables, Handles
<1> QED BY <1>1, <1>2 DEF Init, TypeOK, SlotsDealt

LEMMA SlotsStep == ConfigInv /\ TypeOK /\ SlotsDealt /\ [Next]_vars => TypeOK' /\ SlotsDealt'
<1> SUFFICES ASSUME ConfigInv, TypeOK, SlotsDealt, [Next]_vars
             PROVE  TypeOK' /\ SlotsDealt'
  OBVIOUS
<1>1. phase # "reset" => stored \in Config
  BY DEF ConfigInv, RunsWhatIsStored
<1>2. CASE Setup
  <2>1. stored' \in Config /\ programmed' \in BOOLEAN
    BY <1>2 DEF Setup, TypeOK, Config
  <2>2. NoSlots \in Tables /\ 0 \in Index
    BY SlotsAssumption DEF NoSlots, Tables, Handles, Index
  <2>3. Load(stored', NoSlots)
    BY <1>2 DEF Setup
  <2>4. /\ active' \subseteq Components /\ caps' \in Config
        /\ slots' \in Tables /\ counter' \in Index
        /\ SlotsDealt'
    BY <2>1, <2>2, <2>3, LoadDeals DEF SlotsDealt
  <2> QED BY <1>2, <2>1, <2>2, <2>4 DEF Setup, TypeOK
<1>3. CASE Reset
  BY <1>3 DEF Reset, TypeOK, SlotsDealt
<1>4. CASE TornWrite
  BY <1>4 DEF TornWrite, TypeOK, SlotsDealt
<1>5. CASE Connect
  BY <1>1, <1>5 DEF Connect, TypeOK, SlotsDealt
<1>6. CASE ConnectLost
  BY <1>1, <1>6 DEF ConnectLost, TypeOK, SlotsDealt
<1>7. CASE Join
  BY <1>7 DEF Join, TypeOK, SlotsDealt
<1>8. CASE Break
  BY <1>8 DEF Break, TypeOK, SlotsDealt
<1>9. CASE Portal
  <2>1. \A payload \in Payloads : payload \in Config
    BY PayloadsAssumption DEF Config
  <2> QED BY <1>1, <1>9, <2>1 DEF Portal, TypeOK, SlotsDealt
<1>10. CASE Receive
  BY <1>1, <1>10, CommandDeals DEF Receive, TypeOK
<1>11. CASE ReceiveRetained
  <2>1. Reload \/ \E payload \in Payloads : Capability(payload)
    BY <1>11, PayloadsAssumption DEF ReceiveRetained
  <2> QED BY <1>1, <1>11, <2>1, CommandDeals DEF ReceiveRetained, TypeOK
<1>12. CASE Tick
  <2>1. <<Handle, UserSlot>> \in Components \X Nat
    BY <1>12, ServedIs DEF Tick
  <2>2. (pointer + 1) % counter \in Index
    BY <1>12, PointerTurns DEF Tick, TypeOK
  <2> QED BY <1>12, <2>1, <2>2 DEF Tick, TypeOK, SlotsDealt
<1>13. CASE TickNull
  BY <1>13 DEF TickNull, TypeOK, SlotsDealt
<1>14. CASE TickReceive
  <2>1. <<Handle, UserSlot>> \in Components \X Nat
    BY <1>14, ServedIs DEF TickReceive
  <2>2. CASE /\ Reload \/ \E payload \in Payloads : Capability(payload)
             /\ counter' > 0
             /\ pointer' = (pointer + 1) % counter'
    <3>1. /\ stored' \in Config /\ caps' \in Config /\ active' \subseteq Components
          /\ slots' \in Tables /\ counter' \in Index /\ phase' \in {phase, "offline"}
          /\ SlotsDealt'
      BY <1>1, <1>14, <2>2, CommandDeals DEF TickReceive
    <3>2. pointer' \in Index
      BY <2>2, <3>1, PointerTurns DEF TypeOK
    <3> QED BY <1>14, <2>1, <3>1, <3>2 DEF TickReceive, TypeOK
  <2>3. CASE /\ stored' \in {stored} \cup Payloads
             /\ phase' = "reset"
             /\ UNCHANGED <<caps, active, slots, counter, pointer>>
    <3>1. stored' \in Config \cup {Torn}
      BY <2>3, PayloadsAssumption DEF TypeOK, Config
    <3> QED BY <1>14, <2>1, <2>3, <3>1 DEF TickReceive, TypeOK, SlotsDealt
  <2> QED BY <1>14, <2>2, <2>3 DEF TickReceive
<1>15. CASE UNCHANGED vars
  BY <1>15 DEF vars, TypeOK, SlotsDealt
<1> QED BY <1>2, <1>3, <1>4, <1>5, <1>6, <1>7, <1>8, <1>9, <1>10, <1>11, <1>12,
           <1>13, <1>14, <1>15 DEF Next

LEMMA SlotsAlways == Spec => [](TypeOK /\ SlotsDealt)
<1>1. Init => ConfigInv /\ TypeOK /\ SlotsDealt
  BY ConfigInit, SlotsInit
<1>2. ConfigInv /\ TypeOK /\ SlotsDealt /\ [Next]_vars
          => ConfigInv' /\ TypeOK' /\ SlotsDealt'
  BY ConfigStep, SlotsStep
<1> QED BY <1>1, <1>2, PTL DEF Spec

\* The table, its counter and the pointer keep their bounds, for every set of
\* components and whatever number of updates they ask for: also where a
\* configuration overflows the table, and where a reload inside a periodic
\* update moves the pointer by a counter other than the one it was read under.
THEOREM TypeCorrect == Spec => []TypeOK
BY SlotsAlways, PTL

\* The redistribution in loadPheripherals gives every component of a
\* configuration that fits exactly the slots it asked for, whatever the table
\* held before and wherever rounding put the wanted positions.
THEOREM SlotsAreDealt == Spec => []SlotsDealt
BY SlotsAlways, PTL
=============================================================================
