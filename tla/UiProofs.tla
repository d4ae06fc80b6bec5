------------------------------- MODULE UiProofs -------------------------------
(***************************************************************************)
(* Proofs about Ui: what the event loop does to the machine, and when, and *)
(* what the matrix and the status panel then show, for every program,      *)
(* every user and all periods and delays; and that the keys reach the      *)
(* program as Keypad has it.                                               *)
(***************************************************************************)
EXTENDS Ui, FootprintProofs

-----------------------------------------------------------------------------
(* The loop and the machine.                                               *)

(* A step that only concerns the loop.                                     *)
Aside ==
    RateLimit \/ Leave \/ UpdateDisplay \/ UpdateStatus \/ Wait \/ Tick \/ Interrupt
    \/ \E p, s, q \in BOOLEAN : OtherKey(p, s, q)

LEMMA AsideOfVm == Aside => UNCHANGED vars
  BY DEF Aside, RateLimit, Leave, UpdateDisplay, UpdateStatus, Wait, Tick, Interrupt,
         OtherKey, vars

(* Every step of the loop is a step of the machine, or none.               *)
LEMMA VmStep == [UiNext]_uivars => [Next]_vars
  <1> SUFFICES ASSUME [UiNext]_uivars PROVE [Next]_vars
    OBVIOUS
  <1>1. CASE UNCHANGED uivars
    BY <1>1 DEF uivars, vars
  <1>2. CASE Aside
    BY <1>2, AsideOfVm
  <1>3. ASSUME NEW k \in Keys, PressKey(k) PROVE Next
    BY <1>3 DEF PressKey, Next
  <1>4. ASSUME NEW d \in PageMoves, PageKey(d) PROVE Next
    BY <1>4 DEF PageKey, Next
  <1>5. CASE ReleaseKey
    BY <1>5 DEF ReleaseKey, Next
  <1>6. ASSUME NEW sync \in Syncs, Execute(sync) PROVE Next
    BY <1>6 DEF Execute, Next
  <1> QED BY <1>1, <1>2, <1>3, <1>4, <1>5, <1>6 DEF UiNext, Loop, Aside

(* Ui is built out of the actions of Vm, so the theorems about Vm hold of  *)
(* the running program.                                                    *)
LEMMA RunsVm == UiSpec => Spec
  <1>1. UiInit => Init
    BY DEF UiInit
  <1> QED BY <1>1, VmStep, PTL DEF UiSpec, Spec

(* In particular, its memory stays nibbles.                                *)
LEMMA MachineTypes == UiSpec => []TypeOK
  BY RunsVm, TypeCorrect, PTL

-----------------------------------------------------------------------------
(* Time.                                                                   *)

LEMMA PeriodType ==
    ASSUME TypeOK
    PROVE  /\ Period(vm) \in Nat
           /\ Period(vm) <= Horizon["cycle"]
           /\ Period(vm) \in {CLOCK_PERIODS_USEC[c] : c \in Nibble}
  <1>1. vm.mem[CLOCK] \in Nibble
    <2>1. vm.mem \in [Byte -> Nibble] /\ CLOCK \in Byte
      BY DEF TypeOK, VmState, CLOCK, Byte
    <2> QED BY <2>1
  <1> QED BY <1>1, TimingAssumption, HorizonAssumption DEF Period

(* Neither the keys nor the page moves change the Clock register.          *)
LEMMA PeriodKept ==
    ASSUME TypeOK,
           \/ \E k \in Keys : PressKey(k)
           \/ \E d \in PageMoves : PageKey(d)
           \/ ReleaseKey
           \/ Aside
    PROVE  Period(vm)' = Period(vm)
  <1>1. ASSUME (\E k \in Keys : KeyPress(k)) \/ KeyRelease \/ (\E d \in PageMoves : MovePage(d))
        PROVE  vm'.mem[CLOCK] = vm.mem[CLOCK]
    <2>1. Touches(vm, vm', {KEY_STATUS, KEY_REG, PAGE})
      BY <1>1, KeyEffects
    <2>2. CLOCK \in Byte \ {KEY_STATUS, KEY_REG, PAGE}
      BY DEF CLOCK, KEY_STATUS, KEY_REG, PAGE, Byte
    <2> QED BY <2>1, <2>2 DEF Touches
  <1>2. vm'.mem[CLOCK] = vm.mem[CLOCK]
    BY <1>1, AsideOfVm DEF PressKey, PageKey, ReleaseKey, vars
  <1> QED BY <1>2 DEF Period

LEMMA RemainingType ==
    ASSUME NEW p \in Nat, NEW e \in Nat
    PROVE  Remaining(p, e) \in Nat /\ e + Remaining(p, e) >= p
  BY DEF Remaining

LEMMA StampType ==
    ASSUME age \in [Stamps -> Nat], \A t \in Stamps : age[t] <= Horizon[t], NEW now
    PROVE  /\ Stamp(now) \in [Stamps -> Nat]
           /\ \A t \in Stamps : Stamp(now)[t] <= Horizon[t]
           /\ \A t \in Stamps : Stamp(now)[t] = IF t \in now THEN 0 ELSE age[t]
  BY TimingAssumption DEF Stamp

(* Ages and sleeps are times.  A cycle that is about to be executed is due *)
(* after what is left of the sleep; if a signal has cut the sleep short,   *)
(* it is due after the longest sleep there is.  And a paused machine is    *)
(* never on its way to a cycle.                                            *)
TimesOK ==
    /\ sleep \in Nat
    /\ age \in [Stamps -> Nat] /\ \A t \in Stamps : age[t] <= Horizon[t]
Soon == phase = "execute" => age["cycle"] + MAX_UI_SLEEP_USEC >= Period(vm)
Due  == phase = "execute" /\ ~Interrupts => age["cycle"] + sleep >= Period(vm)
Awake == phase \in {"wait", "execute"} => ~paused

OnTime == TimesOK /\ Soon /\ Due /\ Awake

LEMMA OnTimeInit == UiInit => OnTime
  BY TimingAssumption DEF UiInit, OnTime, TimesOK, Soon, Due, Awake, Stamps

LEMMA GainAndLoss ==
    ASSUME NEW a \in Nat, NEW b \in Nat, NEW x \in Nat, NEW y \in Nat, NEW p \in Nat,
           b = a + 1 \/ b >= p, y + 1 = x, a + x >= p
    PROVE  b + y >= p
  OBVIOUS

(* A tick: what a sleep loses an age gains, up to the horizon, where every *)
(* period is over.                                                         *)
LEMMA TickOnTime ==
    ASSUME TypeOK, OnTime, Tick
    PROVE  OnTime'
  <1>1. /\ sleep' \in Nat
        /\ sleep > 0 => sleep' + 1 = sleep
        /\ sleep = 0 => sleep' = 0
    BY DEF Tick, OnTime, TimesOK
  <1>2. /\ age' \in [Stamps -> Nat] /\ \A t \in Stamps : age'[t] <= Horizon[t]
        /\ \A t \in Stamps : age'[t] = IF age[t] < Horizon[t] THEN age[t] + 1 ELSE age[t]
    BY TimingAssumption DEF Tick, OnTime, TimesOK
  <1>3. /\ age'["cycle"] \in Nat /\ age["cycle"] \in Nat
        /\ \/ age'["cycle"] = age["cycle"] + 1
           \/ age'["cycle"] = age["cycle"] /\ age["cycle"] >= Period(vm)
    <2>1. "cycle" \in Stamps
      BY DEF Stamps
    <2>2. Horizon["cycle"] \in Nat
      BY <2>1, TimingAssumption
    <2> QED BY <1>2, <2>1, <2>2, PeriodType DEF OnTime, TimesOK
  <1>4. UNCHANGED <<phase, paused, vm>> /\ Period(vm)' = Period(vm)
    BY DEF Tick, Period
  <1>5. Soon' /\ Due'
    <2>1. MAX_UI_SLEEP_USEC \in Nat /\ Period(vm) \in Nat /\ sleep \in Nat
      BY PeriodType, TimingAssumption DEF OnTime, TimesOK
    <2>2. Soon'
      BY <1>3, <1>4, <2>1 DEF OnTime, Soon
    <2>3. CASE sleep = 0
      BY <1>1, <1>3, <1>4, <2>1, <2>2, <2>3 DEF OnTime, Due
    <2>4. CASE sleep > 0
      <3>1. age["cycle"] + sleep >= Period(vm) => age'["cycle"] + sleep' >= Period(vm)
        BY <1>1, <1>3, <2>1, <2>4, GainAndLoss
      <3> QED BY <1>4, <2>2, <3>1 DEF OnTime, Due
    <2> QED BY <2>1, <2>2, <2>3, <2>4
  <1> QED BY <1>1, <1>2, <1>4, <1>5 DEF OnTime, TimesOK, Awake

(* The decision to sleep until the next cycle.                             *)
LEMMA WaitOnTime ==
    ASSUME TypeOK, OnTime, Wait
    PROVE  OnTime'
  <1> DEFINE cycle_delay == Remaining(Period(vm), age["cycle"])
  <1>1. age["cycle"] \in Nat
    BY DEF OnTime, TimesOK, Stamps
  <1>2. cycle_delay \in Nat /\ age["cycle"] + cycle_delay >= Period(vm)
    BY <1>1, PeriodType, RemainingType
  <1>3. UNCHANGED <<age, paused>> /\ Period(vm)' = Period(vm) /\ ~paused
    BY DEF Wait, Enters, Period, OnTime, Awake
  <1>4. CASE cycle_delay <= MAX_UI_SLEEP_USEC
    <2>1. sleep' = cycle_delay
      BY <1>4 DEF Wait
    <2> HIDE DEF cycle_delay
    <2> QED BY <1>1, <1>2, <1>3, <1>4, <2>1, PeriodType, TimingAssumption
            DEF OnTime, TimesOK, Soon, Due, Awake
  <1>5. CASE ~(cycle_delay <= MAX_UI_SLEEP_USEC)
    <2>1. sleep' = 0 /\ phase' = "loop"
      BY <1>5 DEF Wait, Enters
    <2> QED BY <1>3, <2>1 DEF OnTime, TimesOK, Soon, Due, Awake
  <1> QED BY <1>4, <1>5

(* Every step keeps the times in order.                                    *)
LEMMA OnTimeStep ==
    ASSUME TypeOK, OnTime, [UiNext]_uivars
    PROVE  OnTime'
  <1>1. CASE UNCHANGED uivars
    BY <1>1 DEF uivars, OnTime, TimesOK, Soon, Due, Awake, Period
  <1>2. CASE Tick
    BY <1>2, TickOnTime
  <1>3. CASE Wait
    BY <1>3, WaitOnTime
  <1>4. CASE Interrupt
    BY <1>4 DEF Interrupt, OnTime, TimesOK, Soon, Due, Awake, Period
  <1>5. CASE RateLimit
    <2>1. UI_UPDATE_PERIOD_USEC \in Nat /\ age["start"] \in Nat
      BY TimingAssumption DEF OnTime, TimesOK, Stamps
    <2>2. sleep' \in Nat
      BY <1>5, <2>1, RemainingType DEF RateLimit
    <2> QED BY <1>5, <2>2 DEF RateLimit, Enters, OnTime, TimesOK, Soon, Due, Awake
  <1>6. ASSUME phase' \notin {"execute"}, UNCHANGED sleep,
               age' = age \/ \E now : age' = Stamp(now),
               phase' = "wait" => ~paused'
        PROVE  OnTime'
    <2>1. age' \in [Stamps -> Nat] /\ \A t \in Stamps : age'[t] <= Horizon[t]
      BY <1>6, StampType DEF OnTime, TimesOK
    <2> QED BY <1>6, <2>1 DEF OnTime, TimesOK, Soon, Due, Awake
  <1>7. CASE Leave
    BY <1>6, <1>7 DEF Leave, Enters
  <1>8. ASSUME NEW k \in Keys, PressKey(k) PROVE OnTime'
    BY <1>6, <1>8 DEF PressKey, Enters
  <1>9. ASSUME NEW d \in PageMoves, PageKey(d) PROVE OnTime'
    BY <1>6, <1>9 DEF PageKey, Enters
  <1>10. ASSUME NEW p, NEW s, NEW q, OtherKey(p, s, q) PROVE OnTime'
    BY <1>6, <1>10 DEF OtherKey, Enters
  <1>11. CASE ReleaseKey
    BY <1>6, <1>11 DEF ReleaseKey, Enters, AfterKeys, AfterUpdate
  <1>12. CASE UpdateDisplay
    BY <1>6, <1>12 DEF UpdateDisplay, Enters
  <1>13. CASE UpdateStatus
    BY <1>6, <1>13 DEF UpdateStatus, Enters, AfterUpdate
  <1>14. ASSUME NEW sync \in Syncs, Execute(sync) PROVE OnTime'
    BY <1>6, <1>14 DEF Execute, Enters
  <1> QED BY <1>1, <1>2, <1>3, <1>4, <1>5, <1>7, <1>8, <1>9, <1>10, <1>11, <1>12, <1>13, <1>14
          DEF UiNext, Loop

LEMMA AlwaysOnTime == UiSpec => []OnTime
  <1>1. TypeOK /\ OnTime /\ [UiNext]_uivars => OnTime'
    BY OnTimeStep
  <1> QED BY <1>1, OnTimeInit, MachineTypes, PTL DEF UiSpec

(* A sleep that a signal cuts short brings the cycle forward by no more    *)
(* than the longest sleep of the loop, for every setting of the Clock      *)
(* register and however many signals there are.                            *)
THEOREM CyclesAlmostOnTime == UiSpec => AlmostOnTime
  <1>1. OnTime => [\A sync \in Syncs :
                      Execute(sync) => age["cycle"] + MAX_UI_SLEEP_USEC >= Period(vm)]_uivars
    BY DEF OnTime, Soon, Execute, Enters
  <1> QED BY <1>1, AlwaysOnTime, PTL DEF AlmostOnTime

-----------------------------------------------------------------------------
(* The pace.                                                               *)

LEMMA Modes ==
    /\ Ended => Mode = "ended"
    /\ ~Ended /\ paused => Mode = "paused"
    /\ ~Ended /\ ~paused /\ single_step => Mode = "stepping"
    /\ ~Ended /\ ~paused /\ ~single_step => Mode = "running"
  BY DEF Mode

LEMMA NextModes ==
    /\ Ended' => Mode' = "ended"
    /\ ~Ended' /\ paused' => Mode' = "paused"
    /\ ~Ended' /\ ~paused' /\ single_step' => Mode' = "stepping"
    /\ ~Ended' /\ ~paused' /\ ~single_step' => Mode' = "running"
  BY DEF Mode

LEMMA PaceInit == UiInit /\ TypeOK => Pace!Init
  <1> SUFFICES ASSUME UiInit, TypeOK PROVE Pace!Init
    OBVIOUS
  <1>1. Mode \in {"paused", "running"}
    BY Modes DEF UiInit, Ended
  <1>2. age["cycle"] = 0
    BY DEF UiInit, Stamps
  <1> QED BY <1>1, <1>2, PeriodType DEF Pace!Init

(* Each step of the loop is a step of Pacer, or none.                      *)
LEMMA PaceStep ==
    ASSUME ~Interrupts, TypeOK, TypeOK', OnTime, [UiNext]_uivars
    PROVE  [Pace!Next]_Pace!vars
  <1>0. "cycle" \in Stamps /\ age["cycle"] \in Nat
    BY DEF OnTime, TimesOK, Stamps
  <1>1. ASSUME UNCHANGED <<paused, single_step>>, ~Ended, ~Ended',
               Period(vm)' = Period(vm), age'["cycle"] = age["cycle"]
        PROVE  UNCHANGED Pace!vars
    <2>1. Mode' = Mode
      BY <1>1, Modes, NextModes
    <2> QED BY <1>1, <2>1 DEF Pace!vars
  <1>2. CASE UNCHANGED uivars
    BY <1>2 DEF uivars, Pace!vars, Mode, Ended, Period
  <1>3. CASE Tick
    <2>1. Mode' = Mode /\ Period(vm)' = Period(vm)
      BY <1>3 DEF Tick, Mode, Ended, Period
    <2>2. age'["cycle"] = IF age["cycle"] < Horizon["cycle"] THEN age["cycle"] + 1
                          ELSE age["cycle"]
      BY <1>0, <1>3 DEF Tick
    <2> QED BY <2>1, <2>2 DEF Pace!Next, Pace!Tick
  <1>4. CASE RateLimit \/ UpdateDisplay \/ UpdateStatus \/ Wait
    <2>1. UNCHANGED <<paused, single_step>> /\ ~Ended /\ ~Ended'
      BY <1>4 DEF RateLimit, UpdateDisplay, UpdateStatus, Wait, Enters, AfterUpdate, Ended
    <2>2. age'["cycle"] = age["cycle"]
      BY <1>0, <1>4 DEF RateLimit, UpdateDisplay, UpdateStatus, Wait, Stamp
    <2>3. Period(vm)' = Period(vm)
      BY <1>4, PeriodKept DEF Aside
    <2> QED BY <1>1, <2>1, <2>2, <2>3
  <1>5. CASE \/ \E k \in Keys : PressKey(k)
             \/ \E d \in PageMoves : PageKey(d)
             \/ ReleaseKey
    <2>1. UNCHANGED <<paused, single_step>> /\ ~Ended /\ ~Ended'
      BY <1>5 DEF PressKey, PageKey, ReleaseKey, Enters, AfterKeys, AfterUpdate, Ended
    <2>2. age'["cycle"] = age["cycle"]
      BY <1>0, <1>5 DEF PressKey, PageKey, ReleaseKey, Stamp
    <2>3. Period(vm)' = Period(vm)
      BY <1>5, PeriodKept
    <2> QED BY <1>1, <2>1, <2>2, <2>3
  <1>6. CASE Interrupt
    BY <1>6 DEF Interrupt
  <1>7. CASE Leave
    <2>1. Mode # "ended" /\ Mode' = "ended"
      <3>1. ~Ended /\ Ended'
        BY <1>7 DEF Leave, Enters, Ended
      <3> QED BY <3>1, Modes, NextModes
    <2>2. Period(vm)' = Period(vm) /\ age' = age
      BY <1>7 DEF Leave, Period
    <2> QED BY <2>1, <2>2 DEF Pace!Next, Pace!Ask
  <1>8. ASSUME NEW p \in BOOLEAN, NEW s \in BOOLEAN, NEW q \in BOOLEAN, OtherKey(p, s, q)
        PROVE  [Pace!Next]_Pace!vars
    <2>1. ~Ended /\ ~Ended' /\ age' = age /\ Period(vm)' = Period(vm)
      BY <1>8 DEF OtherKey, Enters, Ended, Period
    <2>2. CASE UNCHANGED <<paused, single_step>>
      BY <1>1, <2>1, <2>2
    <2>3. CASE ~paused'
      <3>1. Mode # "ended" /\ Mode' \in {"stepping", "running"}
        BY <2>1, <2>3, Modes, NextModes
      <3> QED BY <2>1, <3>1 DEF Pace!Next, Pace!Ask
    <2> QED BY <1>8, <2>2, <2>3 DEF OtherKey
  <1>9. ASSUME NEW sync \in Syncs, Execute(sync)
        PROVE  Pace!Next
    <2>1. phase = "execute" /\ sleep = 0 /\ ~paused /\ ~Ended
      BY <1>9 DEF Execute, Enters, OnTime, Awake, Ended
    <2>2. age["cycle"] >= Period(vm)
      BY <1>0, <2>1, PeriodType DEF OnTime, Due
    <2>3. age'["cycle"] = 0
      BY <1>0, <1>9 DEF Execute, Stamp
    <2>4. Period(vm)' \in {CLOCK_PERIODS_USEC[c] : c \in Nibble}
      <3>1. vm'.mem[CLOCK] \in Nibble
        <4>1. vm'.mem \in [Byte -> Nibble] /\ CLOCK \in Byte
          BY DEF TypeOK, VmState, CLOCK, Byte
        <4> QED BY <4>1
      <3> QED BY <3>1 DEF Period
    <2>5. /\ Mode \in {"running", "stepping"}
          /\ Mode' \in {IF Mode = "stepping" THEN "paused" ELSE "running", "ended"}
      <3>1. (paused' <=> single_step) /\ single_step' = single_step
        BY <1>9, <2>1 DEF Execute
      <3> QED BY <2>1, <3>1, Modes, NextModes
    <2> QED BY <2>2, <2>3, <2>4, <2>5 DEF Pace!Next, Pace!Cycle
  <1> QED BY <1>2, <1>3, <1>4, <1>5, <1>6, <1>7, <1>8, <1>9 DEF UiNext, Loop

(* As long as no signal cuts a sleep short, no cycle starts before a full  *)
(* period since the last one has passed, a step is one cycle and a paused  *)
(* machine stands still, for every setting of the Clock register and       *)
(* however the keys fall between the phases of the loop.                   *)
THEOREM PaceKept ==
    ASSUME ~Interrupts
    PROVE  UiSpec => KeepsPace
  <1>1. TypeOK /\ TypeOK' /\ OnTime /\ [UiNext]_uivars => [Pace!Next]_Pace!vars
    BY PaceStep
  <1> QED BY <1>1, PaceInit, MachineTypes, AlwaysOnTime, PTL DEF UiSpec, KeepsPace, Pace!Spec

-----------------------------------------------------------------------------
(* The keys.                                                               *)

(* The flags, bit by bit.                                                  *)
LEMMA FlagOf ==
    ASSUME NEW n
    PROVE  /\ KeyFlags(n) \subseteq {"just", "last", "any"}
           /\ ("just" \in KeyFlags(n) <=> Bit(n, JUST_PRESS) = 1)
           /\ ("last" \in KeyFlags(n) <=> Bit(n, LAST_PRESS) = 1)
           /\ ("any" \in KeyFlags(n) <=> Bit(n, ANY_PRESS) = 1)
  <1> DEFINE F == {"just", "last", "any"}
             pos(f) == CASE f = "just" -> JUST_PRESS
                         [] f = "last" -> LAST_PRESS
                         [] f = "any"  -> ANY_PRESS
  <1>1. KeyFlags(n) = {f \in F : Bit(n, pos(f)) = 1}
    BY DEF KeyFlags
  <1>2. pos("just") = JUST_PRESS /\ pos("last") = LAST_PRESS /\ pos("any") = ANY_PRESS
    OBVIOUS
  <1> HIDE DEF pos
  <1>3. \A f : f \in KeyFlags(n) <=> (f \in F /\ Bit(n, pos(f)) = 1)
    BY <1>1
  <1> QED BY <1>2, <1>3

(* Two sets of flags with the same flags are the same.                     *)
LEMMA FlagSets ==
    ASSUME NEW A, NEW B, A \subseteq {"just", "last", "any"}, B \subseteq {"just", "last", "any"},
           ("just" \in A <=> "just" \in B), ("last" \in A <=> "last" \in B),
           ("any" \in A <=> "any" \in B)
    PROVE  A = B
  <1>1. \A f : f \in A <=> f \in B
    OBVIOUS
  <1> QED BY <1>1

(* What a read, the release and a press make of them.                      *)
LEMMA FlagChanges ==
    ASSUME NEW n \in Nibble
    PROVE  /\ KeyFlags(WithoutBit(n, JUST_PRESS)) = KeyFlags(n) \ {"just"}
           /\ KeyFlags(WithoutBit(WithoutBit(n, LAST_PRESS), ANY_PRESS))
                = KeyFlags(n) \ {"last", "any"}
           /\ KeyFlags(7) = {"just", "last", "any"}
           /\ KeyFlags(0) = {}
  <1>1. /\ Bit(7, JUST_PRESS) = 1 /\ Bit(7, LAST_PRESS) = 1 /\ Bit(7, ANY_PRESS) = 1
        /\ Bit(0, JUST_PRESS) = 0 /\ Bit(0, LAST_PRESS) = 0 /\ Bit(0, ANY_PRESS) = 0
    BY DEF Bit, Weight, JUST_PRESS, LAST_PRESS, ANY_PRESS
  <1>2. LET m == WithoutBit(n, JUST_PRESS) IN
          /\ Bit(m, JUST_PRESS) = 0
          /\ Bit(m, LAST_PRESS) = Bit(n, LAST_PRESS) /\ Bit(m, ANY_PRESS) = Bit(n, ANY_PRESS)
    BY DEF WithoutBit, Bit, Weight, Nibble, JUST_PRESS, LAST_PRESS, ANY_PRESS
  <1>3. LET m == WithoutBit(WithoutBit(n, LAST_PRESS), ANY_PRESS) IN
          /\ Bit(m, LAST_PRESS) = 0 /\ Bit(m, ANY_PRESS) = 0
          /\ Bit(m, JUST_PRESS) = Bit(n, JUST_PRESS)
    BY DEF WithoutBit, Bit, Weight, Nibble, JUST_PRESS, LAST_PRESS, ANY_PRESS
  <1>4. KeyFlags(WithoutBit(n, JUST_PRESS)) = KeyFlags(n) \ {"just"}
    <2> DEFINE m == WithoutBit(n, JUST_PRESS)
               A == KeyFlags(m)
               B == KeyFlags(n) \ {"just"}
    <2>1. /\ ("just" \in A <=> "just" \in B) /\ ("last" \in A <=> "last" \in B)
          /\ ("any" \in A <=> "any" \in B)
          /\ A \subseteq {"just", "last", "any"} /\ B \subseteq {"just", "last", "any"}
      <3>1. /\ Bit(m, JUST_PRESS) = 0
            /\ Bit(m, LAST_PRESS) = Bit(n, LAST_PRESS) /\ Bit(m, ANY_PRESS) = Bit(n, ANY_PRESS)
        BY <1>2
      <3> HIDE DEF m
      <3> QED BY <3>1, FlagOf
    <2> QED BY <2>1, FlagSets
  <1>5. KeyFlags(WithoutBit(WithoutBit(n, LAST_PRESS), ANY_PRESS)) = KeyFlags(n) \ {"last", "any"}
    <2> DEFINE m == WithoutBit(WithoutBit(n, LAST_PRESS), ANY_PRESS)
               A == KeyFlags(m)
               B == KeyFlags(n) \ {"last", "any"}
    <2>1. /\ ("just" \in A <=> "just" \in B) /\ ("last" \in A <=> "last" \in B)
          /\ ("any" \in A <=> "any" \in B)
          /\ A \subseteq {"just", "last", "any"} /\ B \subseteq {"just", "last", "any"}
      <3>1. /\ Bit(m, LAST_PRESS) = 0 /\ Bit(m, ANY_PRESS) = 0
            /\ Bit(m, JUST_PRESS) = Bit(n, JUST_PRESS)
        BY <1>3
      <3> HIDE DEF m
      <3> QED BY <3>1, FlagOf
    <2> QED BY <2>1, FlagSets
  <1>6. KeyFlags(7) = {"just", "last", "any"}
    BY <1>1, FlagOf
  <1>7. KeyFlags(0) = {}
    <2>1. \A f \in {"just", "last", "any"} : f \notin KeyFlags(0)
      BY <1>1, FlagOf
    <2> QED BY <2>1, FlagOf
  <1> QED BY <1>4, <1>5, <1>6, <1>7

(* The two words, and where they are not.                                  *)
LEMMA KeyWords ==
    ASSUME NEW a \in {KEY_STATUS, KEY_REG}
    PROVE  /\ a \in Byte /\ a \notin Nibble /\ a \notin Ordinary /\ a # R0
           /\ a \notin {RD_FLAGS, IN_, IN_B} /\ a # PAGE /\ a # RANDOM
           /\ a \in PAGE..RANDOM
           /\ \A n \in Nibble : a \notin Exchanged(n)
           /\ \A f \in Depth : f < MAX_STACK_DEPTH => a \notin FrameWords(f)
           /\ KEY_STATUS # KEY_REG
  BY DEF KEY_STATUS, KEY_REG, PAGE, RANDOM, Byte, Nibble, Ordinary, RD_FLAGS, IN_, IN_B, OUT_B,
     R0, Exchanged, ALT, FrameWords, FrameAddr, STACK, Depth, MAX_STACK_DEPTH

(* MOV R0,[NN] is executed for the instructions that ask for it.           *)
LEMMA ReadExecuted ==
    ASSUME NEW sync, Cycle(sync), Narrow(13)
    PROVE  vm' = op_mov_from(Fetched(sync), get_addr_pointer(Instr))
  <1>1. /\ \A k : Narrow(k) => k = 13
        /\ \A k : ~Wide(k)
    BY DEF Narrow, Wide
  <1>2. /\ ~Add(sync) /\ ~Adc(sync) /\ ~Sub(sync) /\ ~Sbb(sync) /\ ~Or(sync) /\ ~And(sync)
        /\ ~Xor(sync) /\ ~Jr(sync) /\ ~Cp(sync) /\ ~Inc(sync) /\ ~Dec(sync) /\ ~Dsz(sync)
        /\ ~Exr(sync) /\ ~BitTest(sync) /\ ~Bset(sync) /\ ~Bclr(sync) /\ ~Btg(sync)
        /\ ~Rrc(sync) /\ ~Ret(sync) /\ ~SkipIf(sync)
    <2>1. /\ ~Narrow(1) /\ ~Narrow(2) /\ ~Narrow(3) /\ ~Narrow(4) /\ ~Narrow(5) /\ ~Narrow(6)
          /\ ~Narrow(7) /\ ~Narrow(15)
      BY <1>1
    <2>2. /\ ~Add(sync) /\ ~Adc(sync) /\ ~Sub(sync) /\ ~Sbb(sync) /\ ~Jr(sync)
      BY <1>1, <2>1 DEF Add, Adc, Sub, Sbb, Jr
    <2>3. ~Or(sync) /\ ~And(sync) /\ ~Xor(sync)
      BY <1>1, <2>1, Zenon DEF Or, And, Xor
    <2>4. /\ ~Cp(sync) /\ ~Inc(sync) /\ ~Dec(sync) /\ ~Dsz(sync) /\ ~Exr(sync)
          /\ ~BitTest(sync) /\ ~Bset(sync) /\ ~Bclr(sync) /\ ~Btg(sync)
          /\ ~Rrc(sync) /\ ~Ret(sync) /\ ~SkipIf(sync)
      BY <1>1 DEF Cp, Inc, Dec, Dsz, Exr, BitTest, Bset, Bclr, Btg, Rrc, Ret, SkipIf
    <2> QED BY <2>2, <2>3, <2>4
  <1>3. ~AssertFails(sync)
    BY DEF Narrow, CanFetch, AssertFails
  <1>4. Mov(sync)
    BY <1>2, <1>3 DEF Cycle
  <1> QED BY <1>1, <1>4 DEF Mov, Becomes

(* What a cycle makes of the two words.                                    *)
LEMMA CycleKeys ==
    ASSUME TypeOK, NEW sync \in Syncs, Cycle(sync)
    PROVE  LET f == vm.mem[KEY_STATUS]  c == vm.mem[KEY_REG]
               g == vm'.mem[KEY_STATUS] d == vm'.mem[KEY_REG] IN
           \/ ~ReadsDirectly(KEY_STATUS) /\ g = f /\ d = c
           \/ StoresTo(KEY_STATUS) /\ d = c
           \/ StoresTo(KEY_REG) /\ g = f
           \/ ReadsDirectly(KEY_STATUS) /\ g = WithoutBit(f, JUST_PRESS) /\ d = c
  <1> DEFINE K == {KEY_STATUS, KEY_REG}
             Kept == \A a \in K : vm'.mem[a] = vm.mem[a]
             v == Fetched(sync)
  <1>0. vm \in VmState /\ \A a \in K : a \in Byte
    BY KeyWords DEF TypeOK
  <1>1. CASE AssertFails(sync)
    <2>1. Kept BY <1>1, AssertEffect, KeyWords
    <2>2. ~ReadsDirectly(KEY_STATUS)
      BY <1>1 DEF AssertFails, ReadsDirectly, Narrow, CanFetch
    <2> QED BY <2>1, <2>2
  <1>2. CASE ~AssertFails(sync)
    <2>0. vm.pc \in Addr BY <1>2, CycleGuard
    <2>1. /\ v \in VmState /\ v.sp = vm.sp /\ \A a \in K : v.mem[a] = vm.mem[a]
      BY <1>0, <2>0, FetchedEffect, KeyWords DEF Touches
    <2>2. Effects(v)
      BY <2>0, CycleEffects
    <2>3. Instr.nibble3 \in Nibble
      BY <2>0, InstrType DEF TypeOK, Word
    <2>4. CASE ReadsDirectly(KEY_STATUS)
      <3> DEFINE w == Store(v, R0, v.mem[KEY_STATUS])
      <3>1. vm' = op_mov_from(v, KEY_STATUS)
        BY <2>4, ReadExecuted DEF ReadsDirectly
      <3> HIDE DEF v
      <3>2. v.mem[KEY_STATUS] \in Nibble /\ R0 \in Byte
        BY <2>1, MemType, KeyWords, Addresses
      <3>3. w \in VmState /\ Touches(v, w, {R0})
        BY <2>1, <3>2, StoreType, TouchStore
      <3>4. \A a \in K : w.mem[a] = vm.mem[a]
        BY <2>1, <3>3, KeyWords DEF Touches
      <3>5. vm' = ClearBit(w, KEY_STATUS, JUST_PRESS)
        BY <3>1 DEF op_mov_from, sfr_read, is_sfr_address, KEY_STATUS, RD_FLAGS, RANDOM, PAGE
      <3> HIDE DEF w
      <3>6. vm' = Store(w, KEY_STATUS, WithoutBit(vm.mem[KEY_STATUS], JUST_PRESS))
        BY <3>4, <3>5 DEF ClearBit
      <3>7. WithoutBit(vm.mem[KEY_STATUS], JUST_PRESS) \in Nibble
        BY <2>1, <3>2, OneBit, Addresses
      <3>8. vm'.mem = [w.mem EXCEPT ![KEY_STATUS] = WithoutBit(vm.mem[KEY_STATUS], JUST_PRESS)]
        BY <3>3, <3>6, <3>7, StoreMem, KeyWords
      <3>9. w.mem \in [Byte -> Nibble] BY <3>3, FieldTypes
      <3> QED BY <2>4, <3>4, <3>8, <3>9, KeyWords
    <2> HIDE DEF v
    <2>5. ASSUME NEW D, Touches(v, vm', D), \A a \in K : a \notin D
          PROVE  Kept
      <3>1. ASSUME NEW a \in K PROVE vm'.mem[a] = vm.mem[a]
        <4>1. a \in Byte /\ a \notin D /\ v.mem[a] = vm.mem[a]
          BY <1>0, <2>1, <2>5
        <4> QED BY <2>5, <4>1 DEF Touches
      <3> QED BY <3>1
    <2>6. ASSUME Touches(v, vm', Ordinary) PROVE Kept
      BY <2>5, <2>6, KeyWords
    <2>7. ASSUME NEW a \in Byte, StoresTo(a), Touches(v, vm', {a})
          PROVE  \/ Kept
                 \/ StoresTo(KEY_STATUS) /\ vm'.mem[KEY_REG] = vm.mem[KEY_REG]
                 \/ StoresTo(KEY_REG) /\ vm'.mem[KEY_STATUS] = vm.mem[KEY_STATUS]
      <3>1. CASE \A b \in K : b # a
        <4>1. \A b \in K : b \notin {a}
          BY <3>1
        <4> QED BY <2>5, <2>7, <4>1
      <3>2. ASSUME NEW b \in K, b # a PROVE vm'.mem[b] = vm.mem[b]
        <4>1. b \in Byte \ {a} /\ v.mem[b] = vm.mem[b]
          BY <1>0, <2>1, <3>2
        <4> QED BY <2>7, <4>1 DEF Touches
      <3>3. KEY_STATUS # KEY_REG
        BY KeyWords
      <3> QED BY <2>7, <3>1, <3>2, <3>3
    <2>8. ASSUME NEW a \in PAGE..RANDOM, ReadsDirectly(a), Touches(v, vm', {R0, a}),
                 vm' = sfr_read(v, a), ~ReadsDirectly(KEY_STATUS)
          PROVE  Kept
      <3>1. a # KEY_STATUS BY <2>8
      <3>2. CASE a = KEY_REG
        <4>1. vm' = Store(v, R0, v.mem[KEY_REG])
          BY <2>8, <3>2 DEF sfr_read, KEY_REG, KEY_STATUS, RD_FLAGS, RANDOM
        <4>2. v.mem[KEY_REG] \in Nibble /\ R0 \in Byte
          BY <2>1, MemType, KeyWords, Addresses
        <4>3. Touches(v, vm', {R0})
          BY <2>1, <4>1, <4>2, TouchStore
        <4> QED BY <2>5, <4>3, KeyWords
      <3>3. CASE a # KEY_REG
        BY <2>5, <2>8, <3>1, <3>3, KeyWords
      <3> QED BY <3>2, <3>3
    <2>9. ASSUME Touches(v, vm', Exchanged(Instr.nibble3)) PROVE Kept
      BY <2>3, <2>5, <2>9, KeyWords
    <2>10. ASSUME Calls(v, vm') PROVE Kept
      <3>1. v.sp \in Depth /\ v.sp < MAX_STACK_DEPTH
        BY <2>1, <2>10, FieldTypes DEF Calls
      <3>2. \A a \in K : a \in Byte \ (FrameWords(v.sp) \cup Nibble)
        BY <1>0, <3>1, KeyWords
      <3> QED BY <2>1, <2>10, <3>2 DEF Calls
    <2>11. ASSUME Overflows(v, vm') \/ Returns(v, vm') \/ Underflows(v, vm') PROVE Kept
      <3>1. \A a \in K : a \in Byte \ Nibble
        BY <1>0, KeyWords
      <3> QED BY <2>1, <2>11, <3>1 DEF Overflows, Returns, Underflows
    <2>12. CASE ~ReadsDirectly(KEY_STATUS)
      <3>1. \/ Kept
            \/ StoresTo(KEY_STATUS) /\ vm'.mem[KEY_REG] = vm.mem[KEY_REG]
            \/ StoresTo(KEY_REG) /\ vm'.mem[KEY_STATUS] = vm.mem[KEY_STATUS]
        <4> HIDE DEF Kept
        <4> QED BY <2>2, <2>6, <2>7, <2>8, <2>9, <2>10, <2>11, <2>12 DEF Effects
      <3> QED BY <2>12, <3>1
    <2> QED BY <2>4, <2>12
  <1> QED BY <1>1, <1>2

(* What an instruction does to the keys is decided by its first nibble and *)
(* one address.                                                            *)
LEMMA AccessDecided ==
    /\ ReadsDirectly(KEY_STATUS) => KeyAccess = "read"
    /\ StoresTo(KEY_STATUS) => KeyAccess = "write"
    /\ StoresTo(KEY_REG) => KeyAccess = "code"
    /\ ~ReadsDirectly(KEY_STATUS) /\ ~StoresTo(KEY_STATUS) /\ ~StoresTo(KEY_REG)
         => KeyAccess = "none"
    /\ KeyAccess \in Pad!Accesses
  <1> DEFINE direct == get_addr_pointer(Instr)
             indirect == get_addr_indirect(Sampled(FALSE), Instr)
  <1>0. /\ \A a : ReadsDirectly(a) <=> (Narrow(13) /\ direct = a)
        /\ \A a : StoresTo(a) <=> ((Narrow(12) /\ direct = a) \/ (Narrow(10) /\ indirect = a))
    BY Zenon DEF ReadsDirectly, StoresTo
  <1> HIDE DEF direct, indirect
  <1>1. ~(ReadsDirectly(KEY_STATUS) /\ (StoresTo(KEY_STATUS) \/ StoresTo(KEY_REG)))
    BY <1>0 DEF Narrow
  <1>2. ~(StoresTo(KEY_STATUS) /\ StoresTo(KEY_REG))
    BY <1>0, KeyWords DEF Narrow
  <1> QED BY <1>1, <1>2 DEF KeyAccess, Pad!Accesses

(* The registers as an indirect store finds them, after the port has been  *)
(* sampled.                                                                *)
Register(v, r) == IF r = IN_ /\ Bit(v.mem[WR_FLAGS], IN_OUT_POS) # 1 THEN 15 ELSE v.mem[r]

LEMMA RegisterSampled ==
    ASSUME NEW v \in VmState, NEW i \in Word
    PROVE  get_addr_indirect(vm_update_in_reg(vm_update_user_sync(v, FALSE)), i)
             = 16 * Register(v, i.nibble2) + Register(v, i.nibble3)
  <1> DEFINE w == vm_update_in_reg(v)
  <1>1. vm_update_user_sync(v, FALSE) = v
    BY DEF vm_update_user_sync
  <1>2. i.nibble2 \in Nibble /\ i.nibble3 \in Nibble
    BY DEF Word
  <1>3. ASSUME NEW r \in Nibble PROVE w.mem[r] = Register(v, r)
    <2>1. /\ r \in Byte /\ IN_ \in Byte /\ IN_B \in Byte /\ IN_B # r /\ 15 \in Nibble
          /\ v.mem \in [Byte -> Nibble]
      BY DEF Nibble, Byte, IN_, IN_B, VmState
    <2>2. CASE Bit(v.mem[WR_FLAGS], IN_OUT_POS) = 1
      <3>1. w = Store(v, IN_B, 15)
        BY <2>2 DEF vm_update_in_reg
      <3>2. w.mem = [v.mem EXCEPT ![IN_B] = 15]
        BY <2>1, <3>1, StoreMem
      <3> QED BY <2>1, <2>2, <3>2 DEF Register
    <2>3. CASE Bit(v.mem[WR_FLAGS], IN_OUT_POS) # 1
      <3>1. w = Store(v, IN_, 15)
        BY <2>3 DEF vm_update_in_reg
      <3>2. w.mem = [v.mem EXCEPT ![IN_] = 15]
        BY <2>1, <3>1, StoreMem
      <3> QED BY <2>1, <2>3, <3>2 DEF Register
    <2> QED BY <2>2, <2>3
  <1> HIDE DEF w
  <1>4. w.mem[i.nibble2] = Register(v, i.nibble2) /\ w.mem[i.nibble3] = Register(v, i.nibble3)
    BY <1>2, <1>3
  <1> QED BY <1>1, <1>4 DEF get_addr_indirect, w

(* A key changes no register, and not what is executed next.               *)
LEMMA AccessKept ==
    ASSUME TypeOK, TypeOK', UNCHANGED prg, vm'.pc = vm.pc, vm'.exit = vm.exit,
           \A r \in Nibble \cup {WR_FLAGS} : vm'.mem[r] = vm.mem[r]
    PROVE  KeyAccess' = KeyAccess
  <1>1. Instr' = Instr /\ (CanFetch' <=> CanFetch)
    BY DEF Instr, instructions, CanFetch, Running
  <1>2. \A k : Narrow(k)' <=> Narrow(k)
    BY <1>1 DEF Narrow
  <1>3. ASSUME CanFetch
        PROVE  get_addr_indirect(Sampled(FALSE), Instr)' = get_addr_indirect(Sampled(FALSE), Instr)
    <2>1. Instr \in Word /\ vm \in VmState /\ vm' \in VmState
      BY <1>3, InstrType DEF TypeOK, CanFetch
    <2>2. Instr.nibble2 \in Nibble /\ Instr.nibble3 \in Nibble
      BY <2>1 DEF Word
    <2>3. /\ Register(vm', Instr.nibble2) = Register(vm, Instr.nibble2)
          /\ Register(vm', Instr.nibble3) = Register(vm, Instr.nibble3)
      BY <2>2 DEF Register
    <2>4. get_addr_indirect(vm_update_in_reg(vm_update_user_sync(vm', FALSE)), Instr)
            = get_addr_indirect(vm_update_in_reg(vm_update_user_sync(vm, FALSE)), Instr)
      BY <2>1, <2>3, RegisterSampled
    <2> QED BY <1>1, <2>4 DEF Sampled
  <1>4. \A a : (ReadsDirectly(a)' <=> ReadsDirectly(a)) /\ (StoresTo(a)' <=> StoresTo(a))
    BY <1>1, <1>2, <1>3 DEF ReadsDirectly, StoresTo, Narrow
  <1> QED BY <1>4 DEF KeyAccess

(* A press, and a release.                                                 *)
LEMMA PressEffect ==
    ASSUME TypeOK, NEW k \in Keys, KeyPress(k)
    PROVE  /\ vm'.mem[KEY_STATUS] = 7 /\ vm'.mem[KEY_REG] = k
           /\ vm'.pc = vm.pc /\ vm'.exit = vm.exit /\ prg' = prg
           /\ \A r \in Nibble \cup {WR_FLAGS} : vm'.mem[r] = vm.mem[r]
  <1> DEFINE w == Store(vm, KEY_STATUS, 7)
  <1>1. vm \in VmState /\ k \in Nibble /\ 7 \in Nibble
    BY EnvironmentAssumption DEF TypeOK, Nibble
  <1>2. w \in VmState /\ w.mem = [vm.mem EXCEPT ![KEY_STATUS] = 7]
        /\ w.pc = vm.pc /\ w.exit = vm.exit
    <2>1. KEY_STATUS \in Byte
      BY Addresses
    <2> QED BY <1>1, <2>1, StoreType, StoreMem, StoreFields
  <1>3. vm' = Store(w, KEY_REG, k) /\ prg' = prg
    BY DEF KeyPress, Becomes
  <1> HIDE DEF w
  <1>4. vm'.mem = [w.mem EXCEPT ![KEY_REG] = k] /\ vm'.pc = w.pc /\ vm'.exit = w.exit
    BY <1>1, <1>2, <1>3, StoreMem, StoreFields, KeyWords
  <1>5. /\ vm.mem \in [Byte -> Nibble]
        /\ \A r \in Nibble \cup {WR_FLAGS} : r \in Byte /\ r # KEY_STATUS /\ r # KEY_REG
        /\ KEY_STATUS \in Byte /\ KEY_REG \in Byte /\ KEY_STATUS # KEY_REG
    BY <1>1, FieldTypes, KeyWords DEF Nibble, Byte, WR_FLAGS, KEY_STATUS, KEY_REG
  <1>6. vm'.mem = [[vm.mem EXCEPT ![KEY_STATUS] = 7] EXCEPT ![KEY_REG] = k]
    BY <1>2, <1>4
  <1>7. vm'.mem[KEY_STATUS] = 7 /\ vm'.mem[KEY_REG] = k
    BY <1>5, <1>6
  <1>8. \A r \in Nibble \cup {WR_FLAGS} : vm'.mem[r] = vm.mem[r]
    BY <1>5, <1>6
  <1> QED BY <1>2, <1>3, <1>4, <1>7, <1>8

LEMMA ReleaseEffect ==
    ASSUME TypeOK, KeyRelease
    PROVE  /\ vm'.mem[KEY_STATUS]
                = WithoutBit(WithoutBit(vm.mem[KEY_STATUS], LAST_PRESS), ANY_PRESS)
           /\ vm'.mem[KEY_REG] = vm.mem[KEY_REG]
           /\ vm'.pc = vm.pc /\ vm'.exit = vm.exit /\ prg' = prg
           /\ \A r \in Nibble \cup {WR_FLAGS} : vm'.mem[r] = vm.mem[r]
  <1> DEFINE n == WithoutBit(vm.mem[KEY_STATUS], LAST_PRESS)
             w == Store(vm, KEY_STATUS, n)
  <1>1. vm \in VmState /\ vm.mem \in [Byte -> Nibble] /\ n \in Nibble
    BY MemType, KeyWords, OneBit, Addresses, FieldTypes DEF TypeOK
  <1>2. w = ClearBit(vm, KEY_STATUS, LAST_PRESS)
    BY DEF ClearBit
  <1> HIDE DEF n
  <1>3. w \in VmState /\ w.mem = [vm.mem EXCEPT ![KEY_STATUS] = n]
        /\ w.pc = vm.pc /\ w.exit = vm.exit
    <2>1. KEY_STATUS \in Byte
      BY Addresses
    <2> QED BY <1>1, <2>1, StoreType, StoreMem, StoreFields
  <1>4. vm' = ClearBit(w, KEY_STATUS, ANY_PRESS) /\ prg' = prg
    BY <1>2 DEF KeyRelease, Becomes
  <1> HIDE DEF w
  <1>5. w.mem[KEY_STATUS] = n
    BY <1>1, <1>3, KeyWords
  <1>6. vm' = Store(w, KEY_STATUS, WithoutBit(n, ANY_PRESS)) /\ WithoutBit(n, ANY_PRESS) \in Nibble
    BY <1>1, <1>4, <1>5, OneBit, Addresses DEF ClearBit
  <1>7. /\ vm'.mem = [w.mem EXCEPT ![KEY_STATUS] = WithoutBit(n, ANY_PRESS)]
        /\ vm'.pc = w.pc /\ vm'.exit = w.exit
    BY <1>3, <1>6, StoreMem, StoreFields, KeyWords
  <1>8. /\ \A r \in Nibble \cup {WR_FLAGS, KEY_REG} : r \in Byte /\ r # KEY_STATUS
        /\ KEY_STATUS \in Byte
    BY DEF Nibble, Byte, WR_FLAGS, KEY_STATUS, KEY_REG
  <1>9. vm'.mem = [[vm.mem EXCEPT ![KEY_STATUS] = n] EXCEPT ![KEY_STATUS] = WithoutBit(n, ANY_PRESS)]
    BY <1>3, <1>7
  <1>10. vm'.mem[KEY_STATUS] = WithoutBit(n, ANY_PRESS)
    BY <1>1, <1>8, <1>9
  <1>11. \A r \in Nibble \cup {WR_FLAGS, KEY_REG} : vm'.mem[r] = vm.mem[r]
    BY <1>1, <1>8, <1>9
  <1> QED BY <1>3, <1>4, <1>7, <1>10, <1>11 DEF n

LEMMA PageEffect ==
    ASSUME TypeOK, NEW d \in PageMoves, MovePage(d)
    PROVE  /\ vm'.pc = vm.pc /\ vm'.exit = vm.exit /\ prg' = prg
           /\ \A r \in Nibble \cup {WR_FLAGS, KEY_STATUS, KEY_REG} : vm'.mem[r] = vm.mem[r]
  <1> DEFINE p == (vm.mem[PAGE] + d) % 16
  <1>1. vm \in VmState /\ vm.mem \in [Byte -> Nibble] /\ PAGE \in Byte
    BY FieldTypes, Addresses DEF TypeOK
  <1>2. p \in Nibble
    <2>1. vm.mem[PAGE] + d \in Int
      BY <1>1, EnvironmentAssumption DEF Nibble
    <2> QED BY <2>1, Masks
  <1>3. vm' = Store(vm, PAGE, p) /\ prg' = prg
    BY DEF MovePage, Becomes
  <1> HIDE DEF p
  <1>4. vm'.mem = [vm.mem EXCEPT ![PAGE] = p] /\ vm'.pc = vm.pc /\ vm'.exit = vm.exit
    BY <1>1, <1>2, <1>3, StoreMem, StoreFields
  <1>5. \A r \in Nibble \cup {WR_FLAGS, KEY_STATUS, KEY_REG} : r \in Byte /\ r # PAGE
    BY DEF Nibble, Byte, WR_FLAGS, KEY_STATUS, KEY_REG, PAGE
  <1> QED BY <1>1, <1>3, <1>4, <1>5

LEMMA KeysInit == UiInit => Pad!Init
  <1> SUFFICES ASSUME UiInit PROVE Pad!Init
    OBVIOUS
  <1>1. vm.mem[KEY_STATUS] = 0 /\ vm.mem[KEY_REG] = 0
    <2>1. PICK seed \in RandomSeeds : vm = vm_init(seed)
      BY DEF UiInit, Init
    <2>2. KEY_STATUS \in Byte /\ KEY_REG \in Byte
      BY Addresses
    <2> QED BY <2>1, <2>2 DEF vm_init, KEY_STATUS, KEY_REG, SER_CTRL, AUTO_OFF, DIMMER, RANDOM
  <1>2. KeyFlags(vm.mem[KEY_STATUS]) = {}
    <2>1. 0 \in Nibble BY DEF Nibble
    <2> QED BY <1>1, <2>1, FlagChanges
  <1>3. age["key"] = 0
    BY DEF UiInit, Stamps
  <1> QED BY <1>1, <1>2, <1>3, AccessDecided DEF Pad!Init

(* Every step of the loop is one of Keypad's, or does not concern the keys. *)
LEMMA KeysStep ==
    ASSUME TypeOK, TypeOK', OnTime, [UiNext]_uivars
    PROVE  [Pad!Next]_Pad!vars
  <1>0. /\ vm.mem[KEY_STATUS] \in Nibble /\ vm'.mem[KEY_REG] \in Nibble
        /\ age["key"] \in Nat
    <2>1. vm \in VmState /\ vm' \in VmState BY DEF TypeOK
    <2> QED BY <2>1, MemType, Addresses DEF OnTime, TimesOK, Stamps
  <1>1. ASSUME UNCHANGED vars PROVE UNCHANGED <<KeyFlags(vm.mem[KEY_STATUS]), vm.mem[KEY_REG], KeyAccess>>
    <2>1. /\ prg' = prg /\ vm'.mem = vm.mem /\ vm'.pc = vm.pc /\ vm'.exit = vm.exit
      BY <1>1 DEF vars
    <2>2. KeyAccess' = KeyAccess
      BY <2>1, AccessKept
    <2> QED BY <2>1, <2>2 DEF KeyFlags
  <1>2. ASSUME UNCHANGED vars, age'["key"] = age["key"]
        PROVE  UNCHANGED Pad!vars
    BY <1>1, <1>2 DEF Pad!vars
  <1>3. CASE UNCHANGED uivars
    BY <1>2, <1>3 DEF uivars, vars
  <1>4. CASE Aside /\ ~Tick
    <2>1. age'["key"] = age["key"]
      BY <1>0, <1>4 DEF Aside, RateLimit, Leave, UpdateDisplay, UpdateStatus, Wait, Interrupt,
                  OtherKey, Stamp, Stamps
    <2> QED BY <1>2, <1>4, <2>1, AsideOfVm
  <1>5. CASE Tick
    <2>1. UNCHANGED vars
      BY <1>5 DEF Tick, vars
    <2>2. age'["key"] = IF age["key"] < Horizon["key"] THEN age["key"] + 1 ELSE age["key"]
      BY <1>5 DEF Tick, Stamps
    <2> QED BY <1>1, <2>1, <2>2 DEF Pad!Next, Pad!Tick
  <1>6. ASSUME NEW k \in Keys, PressKey(k) PROVE Pad!Next
    <2>1. KeyPress(k) /\ age'["key"] = 0
      BY <1>6 DEF PressKey, Stamp, Stamps
    <2>2. vm'.mem[KEY_STATUS] = 7 /\ vm'.mem[KEY_REG] = k /\ KeyAccess' = KeyAccess
      BY <2>1, PressEffect, AccessKept
    <2>3. KeyFlags(vm.mem[KEY_STATUS])' = {"just", "last", "any"}
      <3>1. KeyFlags(vm'.mem[KEY_STATUS]) = {"just", "last", "any"}
        BY <1>0, <2>2, FlagChanges
      <3> QED BY <3>1 DEF KeyFlags
    <2> QED BY <2>1, <2>2, <2>3 DEF Pad!Next, Pad!Press, Pad!Flags
  <1>7. ASSUME NEW d \in PageMoves, PageKey(d) PROVE UNCHANGED Pad!vars
    <2>1. MovePage(d) /\ age' = age
      BY <1>7 DEF PageKey
    <2>2. /\ vm'.mem[KEY_STATUS] = vm.mem[KEY_STATUS] /\ vm'.mem[KEY_REG] = vm.mem[KEY_REG]
          /\ KeyAccess' = KeyAccess
      BY <2>1, PageEffect, AccessKept
    <2> QED BY <2>1, <2>2 DEF Pad!vars, KeyFlags
  <1>8. CASE ReleaseKey
    <2>1. age' = age BY <1>8 DEF ReleaseKey
    <2>2. CASE ~ReleaseDue
      BY <1>2, <1>8, <2>1, <2>2 DEF ReleaseKey
    <2>3. CASE ReleaseDue
      <3>1. KeyRelease
        BY <1>8, <2>3 DEF ReleaseKey
      <3>2. /\ vm'.mem[KEY_STATUS]
                = WithoutBit(WithoutBit(vm.mem[KEY_STATUS], LAST_PRESS), ANY_PRESS)
            /\ vm'.mem[KEY_REG] = vm.mem[KEY_REG] /\ KeyAccess' = KeyAccess
        BY <3>1, ReleaseEffect, AccessKept
      <3>3. KeyFlags(vm.mem[KEY_STATUS])' = KeyFlags(vm.mem[KEY_STATUS]) \ {"last", "any"}
        <4>1. KeyFlags(vm'.mem[KEY_STATUS]) = KeyFlags(vm.mem[KEY_STATUS]) \ {"last", "any"}
          BY <1>0, <3>2, FlagChanges
        <4> QED BY <4>1 DEF KeyFlags
      <3>4. "last" \in KeyFlags(vm.mem[KEY_STATUS]) /\ age["key"] >= KEY_UP_DELAY_USEC
        BY <2>3, FlagOf DEF ReleaseDue
      <3> QED BY <2>1, <3>2, <3>3, <3>4 DEF Pad!Next, Pad!Release
    <2> QED BY <2>2, <2>3
  <1>9. ASSUME NEW sync \in Syncs, Execute(sync) PROVE Pad!Next
    <2>1. Cycle(sync) /\ age'["key"] = age["key"]
      BY <1>9 DEF Execute, Stamp, Stamps
    <2>2. KeyAccess' \in Pad!Accesses
      BY DEF KeyAccess, Pad!Accesses
    <2> DEFINE F == KeyFlags(vm.mem[KEY_STATUS])
    <2>3. /\ vm'.mem[KEY_STATUS] = vm.mem[KEY_STATUS] => F' = F
          /\ vm'.mem[KEY_STATUS] = WithoutBit(vm.mem[KEY_STATUS], JUST_PRESS) => F' = F \ {"just"}
          /\ F' \in SUBSET {"just", "last", "any"}
      <3>1. F' = KeyFlags(vm'.mem[KEY_STATUS])
        BY DEF KeyFlags
      <3> QED BY <1>0, <3>1, FlagOf, FlagChanges
    <2>4. \/ /\ ~ReadsDirectly(KEY_STATUS) /\ F' = F /\ vm'.mem[KEY_REG] = vm.mem[KEY_REG]
          \/ /\ StoresTo(KEY_STATUS) /\ vm'.mem[KEY_REG] = vm.mem[KEY_REG]
          \/ /\ StoresTo(KEY_REG) /\ F' = F
          \/ /\ ReadsDirectly(KEY_STATUS) /\ F' = F \ {"just"}
             /\ vm'.mem[KEY_REG] = vm.mem[KEY_REG]
      BY <2>1, <2>3, CycleKeys
    <2> HIDE DEF F
    <2>5. \/ /\ KeyAccess = "none" /\ F' = F /\ vm'.mem[KEY_REG] = vm.mem[KEY_REG]
          \/ /\ KeyAccess = "write" /\ vm'.mem[KEY_REG] = vm.mem[KEY_REG]
          \/ /\ KeyAccess = "code" /\ F' = F
          \/ /\ KeyAccess = "read" /\ F' = F \ {"just"}
             /\ vm'.mem[KEY_REG] = vm.mem[KEY_REG]
      BY <2>4, AccessDecided
    <2> QED BY <1>0, <2>1, <2>2, <2>3, <2>5
            DEF F, Pad!Next, Pad!Executes, Pad!Other, Pad!ReadFlags, Pad!WriteFlags,
                Pad!WriteCode, Pad!Flags
  <1> QED BY <1>3, <1>4, <1>5, <1>6, <1>7, <1>8, <1>9 DEF UiNext, Loop, Aside

(* A press shows in KEY_STATUS until the program has read it, comes up no  *)
(* earlier than the delay after the last press, and nothing but the keys   *)
(* and the program's own loads and stores touches the two words: for every *)
(* program, every user and however the keys fall between the phases of the *)
(* loop.                                                                   *)
THEOREM KeysKept == UiSpec => KeepsKeys
  <1>1. TypeOK /\ TypeOK' /\ OnTime /\ [UiNext]_uivars => [Pad!Next]_Pad!vars
    BY KeysStep
  <1> QED BY <1>1, KeysInit, MachineTypes, AlwaysOnTime, PTL DEF UiSpec, KeepsKeys, Pad!Spec

-----------------------------------------------------------------------------
(* What is to be seen has the right type.                                  *)

LEMMA PageType ==
    ASSUME NEW v \in VmState, NEW p \in Nibble
    PROVE  PageOf(v, p) \in [Nibble -> Nibble]
  <1>1. \A i \in Nibble : 16 * p + i \in Byte
    BY DEF Nibble, Byte
  <1> QED BY <1>1 DEF PageOf, VmState

LEMMA ViewType ==
    ASSUME NEW v \in VmState
    PROVE  /\ View(v).pages[1] \in [Nibble -> Nibble]
           /\ View(v).pages[2] \in [Nibble -> Nibble]
           /\ View(v).dimmer \in Nibble
           /\ View(v) = [pages |-> <<View(v).pages[1], View(v).pages[2]>>, dimmer |-> View(v).dimmer]
  <1>1. PAGE \in Byte /\ DIMMER \in Byte
    BY DEF PAGE, DIMMER, Byte
  <1>2. v.mem[PAGE] \in Nibble /\ v.mem[DIMMER] \in Nibble
    BY <1>1 DEF VmState
  <1>3. (v.mem[PAGE] + 1) % 16 \in Nibble
    <2>1. v.mem[PAGE] + 1 \in Int
      BY <1>2 DEF Nibble
    <2> QED BY <2>1, Masks
  <1> QED BY <1>2, <1>3, PageType DEF View

(* The matrix is drawn as it ought to be, but for the second page beside   *)
(* page 15.                                                                *)
LEMMA DrawingsAre ==
    ASSUME NEW v \in VmState, NEW s \in Drawings(v)
    PROVE  /\ s = [pages |-> <<s.pages[1], s.pages[2]>>, dimmer |-> s.dimmer]
           /\ s.pages[1] = View(v).pages[1] /\ s.dimmer = View(v).dimmer
           /\ s.pages[2] \in [Nibble -> Byte]
           /\ v.mem[PAGE] # 15 => s = View(v)
  <1>0. \A f \in [Nibble -> Nibble] : f \in [Nibble -> Byte]
    BY DEF Nibble, Byte
  <1>1. CASE v.mem[PAGE] < 15
    BY <1>0, <1>1, ViewType DEF Drawings
  <1>2. CASE ~(v.mem[PAGE] < 15)
    <2>1. v.mem[PAGE] = 15
      <3>1. PAGE \in Byte
        BY DEF PAGE, Byte
      <3>2. v.mem[PAGE] \in Nibble
        BY <3>1 DEF VmState
      <3> QED BY <1>2, <3>2 DEF Nibble
    <2>2. PICK p \in PastMemory : s = [View(v) EXCEPT !.pages[2] = p]
      BY <1>2 DEF Drawings
    <2>3. s = [pages |-> <<View(v).pages[1], p>>, dimmer |-> View(v).dimmer]
      BY <2>2 DEF View
    <2> QED BY <2>1, <2>3, LoopAssumption
  <1> QED BY <1>1, <1>2

-----------------------------------------------------------------------------
(* The matrix.                                                             *)

(* What is remembered of the active page and the brightness is what was    *)
(* drawn.                                                                  *)
DrawnOK ==
    /\ \A i \in {1, 2} : last.pages[i] \in [Nibble -> Nibble]
    /\ last.dimmer \in Nibble /\ last.matrix_off \in BOOLEAN
    /\ screen.pages[1] = last.pages[1] /\ screen.dimmer = last.dimmer
    /\ screen.pages[2] \in [Nibble -> Byte]

LEMMA DrawnInit == UiInit => DrawnOK
  <1>1. Dark \in [Nibble -> Nibble] /\ Dark \in [Nibble -> Byte] /\ 0 \in Nibble
    BY DEF Dark, Nibble, Byte
  <1> QED BY <1>1 DEF UiInit, DrawnOK

(* Only an update of the display touches what is remembered and drawn.     *)
LEMMA DrawnElsewhere ==
    ASSUME [UiNext]_uivars, ~UpdateDisplay
    PROVE  UNCHANGED <<last, screen>>
  BY DEF UiNext, Loop, RateLimit, Leave, PressKey, PageKey, OtherKey, ReleaseKey, UpdateStatus,
         Wait, Execute, Tick, Interrupt, uivars

(* An update draws, or finds that there is nothing to draw, or is early.   *)
LEMMA UpdateEffect ==
    ASSUME OnTime, UpdateDisplay
    PROVE  \/ UNCHANGED <<last, screen>> /\ (~DisplayDue \/ last = Remembered(vm))
           \/ last' = Remembered(vm) /\ screen' \in Drawings(vm)
  <1>1. age["display"] \in Nat /\ DISPLAY_UPDATE_USEC \in Nat
    BY TimingAssumption DEF OnTime, TimesOK, Stamps
  <1> QED BY <1>1 DEF UpdateDisplay, Unchanged, DisplayDue

LEMMA DrawnStep ==
    ASSUME TypeOK, OnTime, DrawnOK, [UiNext]_uivars
    PROVE  DrawnOK'
  <1>1. CASE UNCHANGED <<last, screen>>
    BY <1>1 DEF DrawnOK
  <1>2. CASE last' = Remembered(vm) /\ screen' \in Drawings(vm)
    <2>1. vm \in VmState
      BY DEF TypeOK
    <2>2. /\ last'.pages = View(vm).pages /\ last'.dimmer = View(vm).dimmer
          /\ last'.matrix_off \in BOOLEAN
      BY <1>2 DEF Remembered, View
    <2> QED BY <1>2, <2>1, <2>2, ViewType, DrawingsAre DEF DrawnOK
  <1> QED BY <1>1, <1>2, DrawnElsewhere, UpdateEffect

LEMMA AlwaysDrawn == UiSpec => []DrawnOK
  <1>1. TypeOK /\ OnTime /\ DrawnOK /\ [UiNext]_uivars => DrawnOK'
    BY DrawnStep
  <1> QED BY <1>1, DrawnInit, MachineTypes, AlwaysOnTime, PTL DEF UiSpec

(* An update of the display that is not too early leaves the active page   *)
(* on the screen, and the one after it unless bytes from behind the memory *)
(* are still drawn there: no program, key or page move can make the change *)
(* detection mistake a change.                                             *)
THEOREM ChangesAlwaysDrawn == UiSpec => ChangesDrawn
  <1> DEFINE Right ==
        (DisplayDue /\ phase' = "status") =>
          /\ screen'.pages[1] = View(vm).pages[1] /\ screen'.dimmer = View(vm).dimmer
          /\ (vm.mem[PAGE] # 15 /\ InStepWith(last)) => screen' = View(vm)
  <1>1. ASSUME TypeOK, OnTime, DrawnOK, [UiNext]_uivars PROVE [Right]_uivars
    <2> SUFFICES ASSUME DisplayDue, phase' = "status"
                 PROVE  /\ screen'.pages[1] = View(vm).pages[1]
                        /\ screen'.dimmer = View(vm).dimmer
                        /\ (vm.mem[PAGE] # 15 /\ InStepWith(last)) => screen' = View(vm)
      OBVIOUS
    <2>1. UpdateDisplay
      BY <1>1 DEF DisplayDue, UiNext, Loop, RateLimit, Leave, PressKey, PageKey, OtherKey,
                  ReleaseKey, UpdateStatus, Wait, Execute, Tick, Interrupt, Enters, uivars
    <2>2. vm \in VmState
      BY <1>1 DEF TypeOK
    <2>3. CASE screen' = screen /\ last = Remembered(vm)
      <3>1. last.pages = View(vm).pages /\ last.dimmer = View(vm).dimmer
        BY <2>3 DEF Remembered, View
      <3>2. InStepWith(last) => screen = View(vm)
        BY <2>2, <3>1, ViewType DEF InStepWith, View
      <3> QED BY <1>1, <2>3, <3>1, <3>2 DEF DrawnOK
    <2>4. CASE screen' \in Drawings(vm)
      BY <2>2, <2>4, DrawingsAre
    <2> QED BY <1>1, <2>1, <2>3, <2>4, UpdateEffect
  <1> QED BY <1>1, MachineTypes, AlwaysOnTime, AlwaysDrawn, PTL DEF UiSpec, ChangesDrawn

-----------------------------------------------------------------------------
(* The status panel.                                                       *)

LEMMA RowsRange ==
    ASSUME NEW c \in Counter
    PROVE  Rows(c) \subseteq Addr /\ Rows(c) \subseteq Nat /\ (c \in Addr => c \in Rows(c))
  <1>1. c \in Int /\ 0 <= c /\ c <= 65535
    BY CounterRange
  <1>2. PROGRAM_MEMORY_SIZE = 4096 /\ DISASSEMBLE_CONTEXT_SIZE = 5
    BY DEF PROGRAM_MEMORY_SIZE, DISASSEMBLE_CONTEXT_SIZE
  <1>3. \A r : r \in Rows(c) => r \in Int /\ 0 <= r /\ r <= 4095
    BY <1>1, <1>2 DEF Rows
  <1>4. c <= 4095 => c \in Rows(c)
    BY <1>1, <1>2 DEF Rows
  <1> QED BY <1>1, <1>3, <1>4, AddrRange

(* What the panel shows of a machine has the type of the panel.            *)
LEMMA ShownType ==
    ASSUME NEW v \in VmState
    PROVE  Shown(v) \in PanelRecord
  <1>1. 0 \in Nibble
    BY DEF Nibble
  <1>2. /\ ShownRegisters \subseteq Byte
        /\ {OUT, OUT_B, IN_, IN_B} \subseteq Byte
    BY DEF ShownRegisters, Byte, PAGE, CLOCK, SYNC, KEY_STATUS, KEY_REG, WR_FLAGS, RD_FLAGS, DIMMER,
           OUT, OUT_B, IN_, IN_B
  <1>3. /\ v.pc \in Counter /\ v.sp \in Depth /\ v.flags \in Flags
        /\ v.mem \in [Byte -> Nibble]
    BY DEF VmState
  <1>4. Rows(v.pc) \subseteq Nat
    BY <1>3, RowsRange
  <1> QED BY <1>1, <1>2, <1>3, <1>4, PageType DEF Shown, PanelRecord

(* Only an update of the panel touches it: it then shows the machine.      *)
LEMMA PanelElsewhere ==
    ASSUME [UiNext]_uivars
    PROVE  \/ panel' = panel
           \/ panel' = Shown(vm) /\ UpdateStatus
  BY DEF UiNext, Loop, RateLimit, Leave, PressKey, PageKey, OtherKey, ReleaseKey, UpdateDisplay,
         UpdateStatus, Wait, Execute, Tick, Interrupt, uivars

PanelOK == panel = NoPanel \/ panel \in PanelRecord

(* The panel disassembles words of program memory only, whatever the       *)
(* program does to its counter, and the current instruction is among them. *)
THEOREM RowsAlwaysInMemory == UiSpec => []RowsInMemory
  <1>1. UiInit => RowsInMemory
    BY DEF UiInit, RowsInMemory
  <1>2. ASSUME TypeOK, RowsInMemory, [UiNext]_uivars PROVE RowsInMemory'
    <2>1. CASE panel' = panel
      BY <1>2, <2>1 DEF RowsInMemory
    <2>2. CASE panel' = Shown(vm)
      <3>1. vm.pc \in Counter
        BY <1>2 DEF TypeOK, VmState
      <3>2. panel'.rows = Rows(vm.pc) /\ panel'.pc = vm.pc
        BY <2>2 DEF Shown
      <3> QED BY <3>1, <3>2, RowsRange DEF RowsInMemory
    <2> QED BY <1>2, <2>1, <2>2, PanelElsewhere
  <1> QED BY <1>1, <1>2, MachineTypes, PTL DEF UiSpec

(* Every variable of the loop keeps its type: no age passes its horizon,   *)
(* no sleep is negative, and no more than the second page of the screen    *)
(* shows bytes that are not nibbles.                                       *)
LEMMA ControlStep ==
    ASSUME [UiNext]_uivars,
           phase \in {"loop", "keys", "release", "display", "status", "wait", "execute", "ended"},
           {paused, single_step, quit, vm_dirty} \subseteq BOOLEAN
    PROVE  /\ phase' \in {"loop", "keys", "release", "display", "status", "wait", "execute", "ended"}
           /\ {paused', single_step', quit', vm_dirty'} \subseteq BOOLEAN
  BY DEF UiNext, Loop, RateLimit, Leave, PressKey, PageKey, OtherKey, ReleaseKey, UpdateDisplay,
         UpdateStatus, Wait, Execute, Tick, Interrupt, uivars, Enters, AfterKeys, AfterUpdate

THEOREM UiTypeCorrect == UiSpec => []UiTypeOK
  <1> DEFINE Control ==
        /\ phase \in {"loop", "keys", "release", "display", "status", "wait", "execute", "ended"}
        /\ {paused, single_step, quit, vm_dirty} \subseteq BOOLEAN
  <1>1. UiInit => Control /\ PanelOK
    BY LoopAssumption DEF UiInit, PanelOK
  <1>2. ASSUME TypeOK, Control, PanelOK, [UiNext]_uivars PROVE Control' /\ PanelOK'
    <2>1. Control'
      BY <1>2, ControlStep
    <2>2. PanelOK'
      <3>1. vm \in VmState
        BY <1>2 DEF TypeOK
      <3> QED BY <1>2, <3>1, PanelElsewhere, ShownType DEF PanelOK
    <2> QED BY <2>1, <2>2
  <1>3. TypeOK /\ OnTime /\ DrawnOK /\ Control /\ PanelOK => UiTypeOK
    <2> SUFFICES ASSUME TypeOK, OnTime, DrawnOK, Control, PanelOK PROVE UiTypeOK
      OBVIOUS
    <2>1. screen.pages[1] \in [Nibble -> Nibble] /\ screen.dimmer \in Nibble
      BY DEF DrawnOK
    <2> QED BY <2>1 DEF UiTypeOK, OnTime, TimesOK, DrawnOK, PanelOK
  <1> QED BY <1>1, <1>2, <1>3, MachineTypes, AlwaysOnTime, AlwaysDrawn, PTL DEF UiSpec

(* The artificial release shows in two bits of KEY_STATUS only.            *)
LEMMA BitsGone ==
    ASSUME NEW n \in Nibble
    PROVE  WithoutBit(WithoutBit(WithoutBit(WithoutBit(n, LAST_PRESS), ANY_PRESS), LAST_PRESS), ANY_PRESS)
             = WithoutBit(WithoutBit(n, LAST_PRESS), ANY_PRESS)
  BY DEF WithoutBit, Bit, Weight, Nibble, LAST_PRESS, ANY_PRESS

LEMMA ButForReleaseOf ==
    ASSUME NEW p \in PanelRecord
    PROVE  ButForRelease(p)
             = [pc |-> p.pc, sp |-> p.sp, flags |-> p.flags, registers |-> p.registers,
                special |-> [p.special EXCEPT ![KEY_STATUS] =
                                WithoutBit(WithoutBit(p.special[KEY_STATUS], LAST_PRESS), ANY_PRESS)],
                out |-> p.out, in_ |-> p.in_, rows |-> p.rows]
  BY DEF ButForRelease, PanelRecord

LEMMA ReleaseHidden ==
    ASSUME TypeOK, KeyRelease
    PROVE  ButForRelease(Shown(vm')) = ButForRelease(Shown(vm))
  <1> DEFINE n == vm.mem[KEY_STATUS]
             low(x) == WithoutBit(WithoutBit(x, LAST_PRESS), ANY_PRESS)
  <1>1. vm \in VmState /\ vm.mem \in [Byte -> Nibble] /\ KEY_STATUS \in Byte
    BY DEF TypeOK, VmState, KEY_STATUS, Byte
  <1>2. vm' = [vm EXCEPT !.mem = [@ EXCEPT ![KEY_STATUS] = low(n)]]
    <2>1. ClearBit(vm, KEY_STATUS, LAST_PRESS)
            = [vm EXCEPT !.mem = [@ EXCEPT ![KEY_STATUS] = WithoutBit(n, LAST_PRESS)]]
      BY DEF ClearBit, Store
    <2> QED BY <1>1, <2>1 DEF KeyRelease, Becomes, ClearBit, Store, VmState
  <1> HIDE DEF low
  <1>3. /\ vm'.pc = vm.pc /\ vm'.sp = vm.sp /\ vm'.flags = vm.flags
        /\ \A a \in Byte : vm'.mem[a] = IF a = KEY_STATUS THEN low(n) ELSE vm.mem[a]
    BY <1>1, <1>2 DEF VmState
  <1>4. PageOf(vm', 0) = PageOf(vm, 0)
    <2>1. \A i \in Nibble : 16 * 0 + i \in Byte /\ 16 * 0 + i # KEY_STATUS
      BY DEF Nibble, Byte, KEY_STATUS
    <2> QED BY <1>3, <2>1 DEF PageOf
  <1>5. /\ ShownRegisters \subseteq Byte /\ KEY_STATUS \in ShownRegisters
        /\ {OUT, OUT_B, IN_, IN_B, WR_FLAGS} \subseteq Byte \ {KEY_STATUS}
    BY DEF ShownRegisters, Byte, PAGE, CLOCK, SYNC, KEY_STATUS, KEY_REG, WR_FLAGS, RD_FLAGS, DIMMER,
           OUT, OUT_B, IN_, IN_B
  <1>6. low(low(n)) = low(n)
    <2>1. n \in Nibble
      BY <1>1
    <2> QED BY <2>1, BitsGone DEF low
  <1>7. [[a \in ShownRegisters |-> vm'.mem[a]] EXCEPT ![KEY_STATUS] = low(@)]
          = [[a \in ShownRegisters |-> vm.mem[a]] EXCEPT ![KEY_STATUS] = low(@)]
    BY <1>3, <1>5, <1>6
  <1>8. /\ \A a \in {OUT, OUT_B, IN_, IN_B, WR_FLAGS} : vm'.mem[a] = vm.mem[a]
    BY <1>3, <1>5
  <1>9. /\ Shown(vm').special = [a \in ShownRegisters |-> vm'.mem[a]]
        /\ Shown(vm).special = [a \in ShownRegisters |-> vm.mem[a]]
    BY DEF Shown
  <1>10. /\ Shown(vm').pc = Shown(vm).pc /\ Shown(vm').sp = Shown(vm).sp
         /\ Shown(vm').flags = Shown(vm).flags /\ Shown(vm').rows = Shown(vm).rows
         /\ Shown(vm').registers = Shown(vm).registers
    BY <1>3, <1>4 DEF Shown
  <1>11. Shown(vm').out = Shown(vm).out /\ Shown(vm').in_ = Shown(vm).in_
    BY <1>8 DEF Shown
  <1>12. Shown(vm) \in PanelRecord /\ Shown(vm') \in PanelRecord
    <2>1. vm' \in VmState
      BY KeyTypes DEF TypeOK
    <2> QED BY <1>1, <2>1, ShownType
  <1> QED BY <1>7, <1>9, <1>10, <1>11, <1>12, ButForReleaseOf DEF low

(* While the machine is paused and nothing is marked as changed, the panel *)
(* is current but for the flags of a key that came up, whatever keys were  *)
(* pressed and released since: the rate limit of the panel, which applies  *)
(* to a running machine only, cannot leave an old picture behind.          *)
THEOREM PanelAlwaysCurrent == UiSpec => []PanelCurrent
  <1>1. UiInit => PanelCurrent
    BY DEF UiInit, PanelCurrent
  <1>2. ASSUME TypeOK, PanelCurrent, [UiNext]_uivars PROVE PanelCurrent'
    <2> SUFFICES ASSUME paused', ~vm_dirty', ~Ended'
                 PROVE  panel' # NoPanel /\ ButForRelease(panel') = ButForRelease(Shown(vm'))
      BY DEF PanelCurrent
    <2>1. CASE UNCHANGED <<vm, panel, vm_dirty>> /\ paused /\ ~Ended
      BY <1>2, <2>1 DEF PanelCurrent
    <2>2. CASE UNCHANGED uivars
      BY <2>1, <2>2 DEF uivars, Ended
    <2>3. CASE Aside /\ ~UpdateStatus
      <3>0. ASSUME NEW p \in BOOLEAN, NEW s \in BOOLEAN, NEW q \in BOOLEAN, OtherKey(p, s, q)
            PROVE  UNCHANGED <<vm, panel, vm_dirty>> /\ paused
        <4>1. p = paused \/ p = FALSE
          BY <3>0 DEF OtherKey
        <4> QED BY <3>0, <4>1 DEF OtherKey
      <3>1. UNCHANGED <<vm, panel, vm_dirty>> /\ paused
        BY <2>3, <3>0 DEF Aside, RateLimit, Leave, UpdateDisplay, Wait, Tick, Interrupt
      <3>2. ~Ended
        BY <2>3 DEF Aside, RateLimit, Leave, UpdateDisplay, Wait, Tick, Interrupt, OtherKey,
                    Enters, Ended
      <3> QED BY <2>1, <3>1, <3>2
    <2>4. CASE UpdateStatus
      <3>1. panel' = Shown(vm) /\ vm' = vm
        BY <2>4 DEF UpdateStatus
      <3>2. Shown(vm) # NoPanel
        BY <1>2, ShownType, PanelAssumption DEF TypeOK
      <3> QED BY <3>1, <3>2
    <2>5. CASE ReleaseKey
      <3>1. UNCHANGED <<panel, vm_dirty, paused>> /\ ~Ended /\ (KeyRelease \/ vm' = vm)
        BY <2>5 DEF ReleaseKey, Enters, Ended, vars
      <3> QED BY <1>2, <3>1, ReleaseHidden DEF PanelCurrent
    <2>6. CASE (\E k \in Keys : PressKey(k)) \/ (\E d \in PageMoves : PageKey(d))
               \/ (\E sync \in Syncs : Execute(sync))
      BY <2>6 DEF PressKey, PageKey, Execute
    <2> QED BY <1>2, <2>2, <2>3, <2>4, <2>5, <2>6 DEF UiNext, Loop, Aside
  <1> QED BY <1>1, <1>2, MachineTypes, PTL DEF UiSpec
=============================================================================
