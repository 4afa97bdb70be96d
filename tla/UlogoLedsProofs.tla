-------------------------- MODULE UlogoLedsProofs ---------------------------
(***************************************************************************)
(* For any number of writers, any patterns and any size of the table: the  *)
(* timer function never reads a step outside the table, a pattern that is  *)
(* loaded is never left without someone to run it, and a value that a      *)
(* write met by no other has applied stays on all of the LEDs.             *)
(***************************************************************************)
EXTENDS UlogoLeds, TLAPS

(* Why InTable holds: cur_step leaves the table only between the store of
   the incremented value and the comparison, and the comparison sees either
   that value, which is not below any length, or a writer's zero.          *)
Position ==
  /\ cb # "wrap" => curStep < MaxSteps
  /\ cb = "wrap" => curStep < MaxSteps \/ curStep = next
  /\ at < MaxSteps

IInv == TypeOK /\ Position /\ PatternAlive

(* The LEDs are numbered, and there is one. *)
LEMMA LedFacts ==
  /\ NumIdx \in Nat \ {0}
  /\ \A k \in 0 .. NumIdx - 1 : LedIdx[k + 1] \in Nat /\ LedIdx[k + 1] \in Leds
<1>1. NumIdx \in Nat \ {0}
  BY UlogoAssumption DEF NumIdx
<1>2. ASSUME NEW k \in 0 .. NumIdx - 1
      PROVE  LedIdx[k + 1] \in Nat /\ LedIdx[k + 1] \in Leds
  <2>1. k + 1 \in DOMAIN LedIdx
    BY <1>1, UlogoAssumption DEF NumIdx
  <2> QED
    BY <2>1, UlogoAssumption DEF Leds
<1> QED
  BY <1>1, <1>2

(* The triggers a group drives exist. *)
LEMMA DrivenType ==
  ASSUME TypeOK, NEW k \in 0 .. NumIdx - 1, NEW lev
  PROVE  Driven(k, lev) \in SUBSET (0 .. ExternalMax - 1)
<1>1. LedIdx[k + 1] \in Nat /\ ExternalMax \in Nat
  BY LedFacts, UlogoAssumption
<1>2. leds \subseteq 0 .. ExternalMax - 1
  BY DEF TypeOK
<1>3. CASE LedIdx[k + 1] >= ExternalMax
  BY <1>2, <1>3 DEF Driven
<1>4. CASE ~(LedIdx[k + 1] >= ExternalMax)
  <2>1. LedIdx[k + 1] \in 0 .. ExternalMax - 1
    BY <1>1, <1>4
  <2>2. \/ Driven(k, lev) = leds \cup {LedIdx[k + 1]}
        \/ Driven(k, lev) = leds \ {LedIdx[k + 1]}
    BY <1>4 DEF Driven
  <2> QED
    BY <1>2, <2>1, <2>2
<1> QED
  BY <1>3, <1>4

LEMMA TimerInv ==
  ASSUME IInv, Timer
  PROVE  IInv'
<1> USE UlogoAssumption DEF IInv, Alive, tableVars, loopVars, histVars
<1>1. CASE TimerFire
  BY <1>1 DEF TimerFire, TypeOK, Position, PatternAlive
<1>2. CASE TimerCheck
  BY <1>2 DEF TimerCheck, TypeOK, Position, PatternAlive
<1>3. CASE TimerPoint
  BY <1>3 DEF TimerPoint, TypeOK, Position, PatternAlive
<1>4. CASE TimerPlay
  <2>1. leds' \in SUBSET (0 .. ExternalMax - 1)
    BY <1>4, DrivenType DEF TimerPlay, TypeOK
  <2>2. lit' \in 0 .. NumIdx - 1
    BY <1>4, LedFacts DEF TimerPlay, TypeOK, Last
  <2>3. cb' \in {"play", "rearm"}
    BY <1>4 DEF TimerPlay
  <2> QED
    BY <1>4, <2>1, <2>2, <2>3 DEF TimerPlay, TypeOK, Position, PatternAlive
<1>5. CASE TimerRearm
  BY <1>5 DEF TimerRearm, TypeOK, Position, PatternAlive
<1>6. CASE TimerLoad
  BY <1>6 DEF TimerLoad, TypeOK, Position, PatternAlive
<1>7. CASE TimerStore
  BY <1>7 DEF TimerStore, TypeOK, Position, PatternAlive
<1>8. CASE TimerWrap
  BY <1>8 DEF TimerWrap, TypeOK, Position, PatternAlive
<1> QED
  BY <1>1, <1>2, <1>3, <1>4, <1>5, <1>6, <1>7, <1>8 DEF Timer

LEMMA StoreInv ==
  ASSUME IInv, NEW p \in Proc, DelTimerSync(p) \/ StoreStep(p)
  PROVE  IInv'
<1> USE UlogoAssumption DEF IInv, Goto, PcValues, tableVars, timerVars, loopVars, histVars
<1>1. CASE DelTimerSync(p)
  <2>1. TypeOK' /\ Position'
    BY <1>1 DEF DelTimerSync, TypeOK, Position
  <2>2. pc'[p] \in Deciding
    BY <1>1 DEF DelTimerSync, TypeOK, Deciding
  <2> QED
    BY <2>1, <2>2 DEF PatternAlive
<1>2. CASE Copy(p)
  <2>1. raw' \in Seq(Levels)
    BY <1>2 DEF Copy
  <2>2. TypeOK' /\ Position'
    BY <1>2, <2>1 DEF Copy, TypeOK, Position
  <2>3. pc'[p] \in Deciding
    BY <1>2 DEF Copy, TypeOK, Deciding
  <2> QED
    BY <2>2, <2>3 DEF PatternAlive
<1>3. CASE Parse(p)
  <2>1. n[p] \in Table /\ n[p] + 1 \in 1 .. Len(raw) /\ n[p] + 1 \in 0 .. MaxSteps
    BY <1>3 DEF Parse, More, TypeOK, Table
  <2>2. raw[n[p] + 1] \in Levels
    BY <2>1 DEF TypeOK
  <2>3. steps' \in [Table -> Levels]
    BY <1>3, <2>1, <2>2 DEF Parse, TypeOK
  <2>4. n' \in [Proc -> 0 .. MaxSteps]
    BY <1>3, <2>1 DEF Parse, TypeOK
  <2>5. TypeOK' /\ Position'
    BY <1>3, <2>3, <2>4 DEF Parse, TypeOK, Position
  <2>6. pc'[p] \in Deciding
    BY <1>3 DEF Parse, Deciding
  <2> QED
    BY <2>5, <2>6 DEF PatternAlive
<1>4. CASE Parsed(p) \/ Count(p)
  <2>1. TypeOK' /\ Position'
    <3>1. n' \in [Proc -> 0 .. MaxSteps] /\ numSteps' \in 0 .. MaxSteps
      BY <1>4 DEF Parsed, Count, TypeOK
    <3>2. pc' \in [Proc -> PcValues]
      BY <1>4 DEF Parsed, Count, TypeOK
    <3>3. UNCHANGED <<life, raw, steps, curStep, timerVars, loopVars, leds, histVars>>
      BY <1>4 DEF Parsed, Count
    <3> QED
      BY <3>1, <3>2, <3>3 DEF TypeOK, Position
  <2>2. pc'[p] \in Deciding
    BY <1>4 DEF Parsed, Count, TypeOK, Deciding
  <2> QED
    BY <2>1, <2>2 DEF PatternAlive
<1>5. CASE Rewind(p)
  <2>1. TypeOK' /\ Position'
    BY <1>5 DEF Rewind, TypeOK, Position
  <2>2. pc'[p] \in Deciding
    BY <1>5 DEF Rewind, TypeOK, Deciding
  <2> QED
    BY <2>1, <2>2 DEF PatternAlive
<1>6. CASE Test(p)
  <2>1. TypeOK' /\ Position'
    BY <1>6 DEF Test, TypeOK, Position
  <2>2. numSteps' > 0 => pc'[p] \in Deciding
    BY <1>6 DEF Test, TypeOK, Deciding
  <2> QED
    BY <2>1, <2>2 DEF PatternAlive
<1>7. CASE Arm(p)
  <2>1. TypeOK' /\ Position'
    BY <1>7 DEF Arm, TypeOK, Position
  <2>2. armed'
    BY <1>7 DEF Arm
  <2> QED
    BY <2>1, <2>2 DEF PatternAlive
<1>8. CASE Zero(p)
  <2>1. level' \in [Proc -> Levels] /\ pc' \in [Proc -> PcValues]
    BY <1>8 DEF Zero, TypeOK
  <2>2. TypeOK' /\ Position'
    BY <1>8, <2>1 DEF Zero, TypeOK, Position
  <2>3. ~(numSteps' > 0)
    BY <1>8 DEF Zero
  <2> QED
    BY <2>2, <2>3 DEF PatternAlive
<1>9. CASE Drive(p)
  <2>1. i[p] \in 0 .. NumIdx - 1 /\ level[p] \in Levels
    BY DEF TypeOK
  <2>2. leds' \in SUBSET (0 .. ExternalMax - 1)
    BY <1>9, <2>1, DrivenType DEF Drive
  <2>3. i' \in [Proc -> 0 .. NumIdx - 1]
    <3>1. NumIdx \in Nat \ {0} /\ i \in [Proc -> 0 .. NumIdx - 1]
      BY LedFacts DEF TypeOK
    <3>2. PICK k \in 0 .. NumIdx - 1 : i' = [i EXCEPT ![p] = k]
      <4>1. CASE Last(i[p])
        BY <1>9, <4>1, <3>1 DEF Drive
      <4>2. CASE ~Last(i[p])
        <5>1. i[p] + 1 \in 0 .. NumIdx - 1
          BY <2>1, <3>1, <4>2 DEF Last
        <5> QED
          BY <1>9, <4>2, <5>1 DEF Drive
      <4> QED
        BY <4>1, <4>2
    <3> QED
      BY <3>1, <3>2
  <2>4. /\ pc' \in [Proc -> PcValues] /\ level' \in [Proc -> Levels]
        /\ want' \in SUBSET Levels
    BY <1>9, <2>1 DEF Drive, Levels, TypeOK
  <2>5. TypeOK' /\ Position'
    BY <1>9, <2>2, <2>3, <2>4 DEF Drive, TypeOK, Position
  <2>6. \A q \in Proc : pc[q] \in Deciding => pc'[q] \in Deciding
    BY <1>9 DEF Drive, TypeOK, Deciding
  <2> QED
    BY <1>9, <2>5, <2>6 DEF Drive, PatternAlive
<1> QED
  BY <1>1, <1>2, <1>3, <1>4, <1>5, <1>6, <1>7, <1>8, <1>9 DEF StoreStep

(* A process that enters a store function decides nothing yet. *)
LEMMA EnterInv ==
  ASSUME TypeOK, NEW p \in Proc, NEW to \in {"pattern", "value", "bright"}, Enter(p, to)
  PROVE  /\ pc' \in [Proc -> PcValues]
         /\ overlap' \in BOOLEAN
         /\ want' \in SUBSET Levels
         /\ \A q \in Proc : pc[q] \in Deciding => pc'[q] \in Deciding
<1>1. pc' = [pc EXCEPT ![p] = to] /\ pc[p] = "idle"
  BY DEF Enter, Goto
<1>2. overlap' \in BOOLEAN /\ want' \in SUBSET Levels
  BY DEF Enter
<1> QED
  BY <1>1, <1>2 DEF TypeOK, PcValues, Deciding

LEMMA LifeInv ==
  ASSUME IInv,
         \/ \E w \in Writers : WritePattern(w) \/ WriteValue(w)
         \/ \E w \in Writers, on \in BOOLEAN : SetBrightness(w, on)
         \/ RegisterClassdev \/ Driver \/ Remove \/ RemoveDelTimer
  PROVE  IInv'
<1> USE UlogoAssumption DEF IInv, tableVars, timerVars, loopVars, histVars
<1>1. ASSUME NEW w \in Writers, WritePattern(w) \/ WriteValue(w)
      PROVE  IInv'
  <2>1. w \in Proc
    BY DEF Proc
  <2>2. Enter(w, "pattern") \/ Enter(w, "value")
    BY <1>1 DEF WritePattern, WriteValue
  <2>3. /\ pc' \in [Proc -> PcValues]
        /\ overlap' \in BOOLEAN
        /\ want' \in SUBSET Levels
        /\ \A q \in Proc : pc[q] \in Deciding => pc'[q] \in Deciding
    BY <2>1, <2>2, EnterInv
  <2>4. UNCHANGED <<life, tableVars, timerVars, n, loopVars, leds>>
    BY <1>1 DEF WritePattern, WriteValue
  <2> QED
    BY <2>3, <2>4 DEF TypeOK, Position, PatternAlive
<1>2. ASSUME NEW w \in Writers, NEW on \in BOOLEAN, SetBrightness(w, on)
      PROVE  IInv'
  <2>1. w \in Proc /\ Enter(w, "bright")
    BY <1>2 DEF Proc, SetBrightness
  <2>2. /\ pc' \in [Proc -> PcValues]
        /\ overlap' \in BOOLEAN
        /\ want' \in SUBSET Levels
        /\ \A q \in Proc : pc[q] \in Deciding => pc'[q] \in Deciding
    BY <2>1, EnterInv
  <2>3. level' \in [Proc -> Levels]
    BY <1>2 DEF SetBrightness, Levels, TypeOK
  <2>4. UNCHANGED <<life, tableVars, timerVars, n, i, leds>>
    BY <1>2 DEF SetBrightness
  <2> QED
    BY <2>2, <2>3, <2>4 DEF TypeOK, Position, PatternAlive
<1>3. CASE StartDefault \/ UnregisterDark
  <2>1. Enter(Probe, "pattern") \/ Enter(Probe, "bright")
    BY <1>3 DEF StartDefault, UnregisterDark
  <2>2. /\ pc' \in [Proc -> PcValues]
        /\ overlap' \in BOOLEAN
        /\ want' \in SUBSET Levels
        /\ \A q \in Proc : pc[q] \in Deciding => pc'[q] \in Deciding
    BY <2>1, EnterInv DEF Proc
  <2>3. /\ UNCHANGED <<tableVars, timerVars, n, loopVars, leds>>
        /\ life' \in Lives /\ ((life \in Stopped) <=> (life' \in Stopped))
    BY <1>3 DEF StartDefault, UnregisterDark, Live, Lives, Stopped
  <2> QED
    BY <2>2, <2>3 DEF TypeOK, Position, PatternAlive
<1>4. CASE RemoveDelTimer
  BY <1>4 DEF RemoveDelTimer, Live, Lives, Stopped, TypeOK, Position, PatternAlive
<1>5. CASE RegisterClassdev \/ SetupTimer \/ ListAdd \/ Remove \/ UnregisterAttributes \/ Release
  BY <1>5 DEF RegisterClassdev, SetupTimer, ListAdd, Remove, UnregisterAttributes, Release,
              Live, Lives, Stopped, TypeOK, Position, PatternAlive
<1> QED
  BY <1>1, <1>2, <1>3, <1>4, <1>5 DEF Driver

LEMMA InitInv == Init => IInv
<1>1. ASSUME Init
      PROVE  TypeOK
  <2>1. raw \in Seq(Levels) /\ steps \in [Table -> Levels]
    BY <1>1 DEF Init, Levels
  <2>2. /\ pc \in [Proc -> PcValues]
        /\ n \in [Proc -> 0 .. MaxSteps]
        /\ level \in [Proc -> Levels]
        /\ i \in [Proc -> 0 .. NumIdx - 1]
    BY <1>1, UlogoAssumption, LedFacts DEF Init, PcValues, Levels
  <2>3. 0 \in 0 .. MaxSteps /\ 0 \in 0 .. NumIdx - 1
    BY UlogoAssumption, LedFacts
  <2> QED
    BY <1>1, <2>1, <2>2, <2>3 DEF Init, TypeOK, Lives
<1>2. Init => Position /\ PatternAlive
  BY UlogoAssumption DEF Init, Position, PatternAlive
<1> QED
  BY <1>1, <1>2 DEF IInv

LEMMA StepInv == IInv /\ [Next]_vars => IInv'
<1>1. ASSUME IInv, Next
      PROVE  IInv'
  BY <1>1, TimerInv, StoreInv, LifeInv DEF Next
<1>2. ASSUME IInv, UNCHANGED vars
      PROVE  IInv'
  BY <1>2 DEF vars, IInv, TypeOK, Position, PatternAlive
<1> QED
  BY <1>1, <1>2

(* The inductive invariant. *)
THEOREM UlogoInvariant == Spec => []IInv
  BY InitInv, StepInv, PTL DEF Spec

(* The types of the group's state: in particular no length beyond the table. *)
THEOREM UlogoTypeCorrect == Spec => []TypeOK
<1>1. IInv => TypeOK
  BY DEF IInv
<1> QED
  BY <1>1, UlogoInvariant, PTL

(* The timer function reads inside the table. *)
THEOREM UlogoInTable == Spec => []InTable
<1>1. IInv => InTable
  BY DEF IInv, Position, InTable
<1> QED
  BY <1>1, UlogoInvariant, PTL

(* A loaded pattern has its timer, or someone who is about to decide. *)
THEOREM UlogoPatternAlive == Spec => []PatternAlive
<1>1. IInv => PatternAlive
  BY DEF IInv
<1> QED
  BY <1>1, UlogoInvariant, PTL

-----------------------------------------------------------------------------
(* The thread that probes and removes is in a store function only while it
   starts the default pattern, and in the loop that switches the LEDs off.  *)
ProbeInv ==
  pc[Probe] # "idle" =>
    life = "starting" \/ (life = "dark" /\ pc[Probe] = "bright")

LEMMA ProbeStep == TypeOK /\ ProbeInv /\ [Next]_vars => ProbeInv'
<1> SUFFICES ASSUME TypeOK, ProbeInv, [Next]_vars
             PROVE  ProbeInv'
  OBVIOUS
<1> USE UlogoAssumption DEF ProbeInv, Proc, tableVars, timerVars, loopVars, histVars
<1>1. CASE Timer
  BY <1>1 DEF Timer, TimerFire, TimerCheck, TimerPoint, TimerPlay, TimerRearm, TimerLoad,
              TimerStore, TimerWrap
<1>2. ASSUME NEW w \in Writers, WritePattern(w) \/ WriteValue(w)
      PROVE  ProbeInv'
  BY <1>2 DEF WritePattern, WriteValue, Enter, Goto, TypeOK
<1>3. ASSUME NEW w \in Writers, NEW on \in BOOLEAN, SetBrightness(w, on)
      PROVE  ProbeInv'
  BY <1>3 DEF SetBrightness, Enter, Goto, TypeOK
<1>4. ASSUME NEW p \in Proc, DelTimerSync(p) \/ StoreStep(p)
      PROVE  ProbeInv'
  <2>1. life' = life /\ pc[p] # "idle"
    BY <1>4 DEF DelTimerSync, StoreStep, Copy, Parse, Parsed, Count, Rewind, Test, Arm, Zero,
                Drive, Goto
  <2>2. \A q \in Proc : q # p => pc'[q] = pc[q]
    BY <1>4 DEF DelTimerSync, StoreStep, Copy, Parse, Parsed, Count, Rewind, Test, Arm, Zero,
                Drive, Goto, TypeOK
  <2>3. pc[p] = "bright" => pc'[p] \in {"bright", "idle"}
    BY <1>4 DEF DelTimerSync, StoreStep, Copy, Parse, Parsed, Count, Rewind, Test, Arm, Zero,
                Drive, Goto, TypeOK
  <2> QED
    BY <2>1, <2>2, <2>3
<1>5. CASE RegisterClassdev \/ SetupTimer \/ StartDefault \/ ListAdd
  BY <1>5 DEF RegisterClassdev, SetupTimer, StartDefault, ListAdd, Live
<1>6. CASE UnregisterDark
  BY <1>6 DEF UnregisterDark, Live, Enter, Goto, TypeOK
<1>7. CASE Remove \/ RemoveDelTimer \/ UnregisterAttributes \/ Release
  BY <1>7 DEF Remove, RemoveDelTimer, UnregisterAttributes, Release, Live
<1>8. CASE UNCHANGED vars
  BY <1>8 DEF vars
<1> QED
  BY <1>1, <1>2, <1>3, <1>4, <1>5, <1>6, <1>7, <1>8 DEF Next, Driver

(* One step: a timer that runs when remove has stopped it ran before, or was
   armed by a writer.                                                       *)
LEMMA ReviveStep ==
  ASSUME ProbeInv, Next, life' \in Stopped, Running'
  PROVE  (life \in Stopped /\ Running) \/ \E w \in Writers : pc[w] = "arm"
<1> USE DEF Stopped, Running, tableVars, timerVars, loopVars, histVars
<1>1. CASE Timer
  BY <1>1 DEF Timer, TimerFire, TimerCheck, TimerPoint, TimerPlay, TimerRearm, TimerLoad,
              TimerStore, TimerWrap
<1>2. ASSUME NEW w \in Writers, WritePattern(w) \/ WriteValue(w)
      PROVE  life \in Stopped /\ Running
  BY <1>2 DEF WritePattern, WriteValue
<1>3. ASSUME NEW w \in Writers, NEW on \in BOOLEAN, SetBrightness(w, on)
      PROVE  life \in Stopped /\ Running
  BY <1>3 DEF SetBrightness
<1>4. ASSUME NEW p \in Proc, DelTimerSync(p) \/ StoreStep(p)
      PROVE  (life \in Stopped /\ Running) \/ \E w \in Writers : pc[w] = "arm"
  <2>1. CASE Arm(p)
    BY <2>1 DEF Arm, Goto, Proc, ProbeInv
  <2>2. CASE ~Arm(p)
    BY <1>4, <2>2 DEF DelTimerSync, StoreStep, Copy, Parse, Parsed, Count, Rewind, Test, Zero,
                      Drive
  <2> QED
    BY <2>1, <2>2
<1>5. CASE RegisterClassdev \/ SetupTimer \/ StartDefault \/ ListAdd \/ Remove
  BY <1>5 DEF RegisterClassdev, SetupTimer, StartDefault, ListAdd, Remove, Live
<1>6. CASE RemoveDelTimer
  BY <1>6 DEF RemoveDelTimer
<1>7. CASE UnregisterDark \/ UnregisterAttributes \/ Release
  BY <1>7 DEF UnregisterDark, UnregisterAttributes, Release, Live
<1> QED
  BY <1>1, <1>2, <1>3, <1>4, <1>5, <1>6, <1>7 DEF Next, Driver

(* Behind the del_timer_sync of remove only a store starts the timer. *)
THEOREM UlogoOnlyStoresRevive == Spec => OnlyStoresRevive
<1>1. Init => ProbeInv
  BY DEF Init, ProbeInv, Proc
<1>2. IInv => TypeOK
  BY DEF IInv
<1>3. ProbeInv /\ [Next]_vars =>
        [life' \in Stopped /\ Running' =>
          \/ life \in Stopped /\ Running
          \/ \E w \in Writers : pc[w] = "arm"]_vars
  BY ReviveStep
<1> QED
  BY <1>1, <1>2, <1>3, UlogoInvariant, ProbeStep, PTL DEF Spec, OnlyStoresRevive

-----------------------------------------------------------------------------
(***************************************************************************)
(* A value stays on the LEDs.  A write that began alone is alone until     *)
(* another one begins: what it has stopped nobody starts again, so its     *)
(* loop is the only one, the LEDs behind it are as it has set them, and    *)
(* once it is through neither the timer function nor another write drives  *)
(* the LEDs.                                                               *)
(***************************************************************************)
Alone ==
  ~overlap => \A p, q \in Proc : pc[p] # "idle" /\ pc[q] # "idle" => p = q

(* The k-th LED shows the level, if there is a trigger for it. *)
Right(k, lev) ==
  LedIdx[k + 1] < ExternalMax => (LedIdx[k + 1] \in leds <=> LedIdx[k + 1] \in lev)

LoopsBegin == \A p \in Proc : pc[p] \notin {"bright", "apply"} => i[p] = 0

Silenced ==
  ~overlap =>
    \A p \in Proc :
      /\ pc[p] \in {"zero", "apply"} => ~armed /\ cb = "idle"
      /\ pc[p] = "apply" => \A k \in 0 .. NumIdx - 1 : k < i[p] => Right(k, level[p])

Held ==
  want # {} =>
    /\ Quiet /\ ~armed /\ cb = "idle"
    /\ \A v \in want : Shown(v)

ConstInv == LoopsBegin /\ Alone /\ Silenced /\ Held

(* One round of the loop sets its LED right and leaves the others as they
   are: also when led_idx names an LED twice.                              *)
LEMMA DrivenRight ==
  ASSUME NEW k \in 0 .. NumIdx - 1, NEW lev, leds' = Driven(k, lev)
  PROVE  /\ Right(k, lev)'
         /\ \A j \in 0 .. NumIdx - 1 : Right(j, lev) => Right(j, lev)'
<1>1. /\ LedIdx[k + 1] \in Nat /\ ExternalMax \in Nat
      /\ \A j \in 0 .. NumIdx - 1 : LedIdx[j + 1] \in Nat
  BY LedFacts, UlogoAssumption
<1>2. CASE LedIdx[k + 1] >= ExternalMax
  <2>1. leds' = leds
    BY <1>2 DEF Driven
  <2> QED
    BY <1>1, <1>2, <2>1 DEF Right
<1>3. CASE LedIdx[k + 1] < ExternalMax
  <2>1. leds' = IF LedIdx[k + 1] \in lev THEN leds \cup {LedIdx[k + 1]}
                                       ELSE leds \ {LedIdx[k + 1]}
    BY <1>1, <1>3 DEF Driven
  <2>2. Right(k, lev)'
    BY <2>1 DEF Right
  <2>3. ASSUME NEW j \in 0 .. NumIdx - 1, Right(j, lev)
        PROVE  Right(j, lev)'
    BY <2>1, <2>3 DEF Right
  <2> QED
    BY <2>2, <2>3
<1> QED
  BY <1>1, <1>2, <1>3

(* After all rounds the level is shown. *)
LEMMA RightShows ==
  ASSUME NEW lev, \A k \in 0 .. NumIdx - 1 : Right(k, lev)'
  PROVE  Shown(lev)'
<1> SUFFICES ASSUME NEW idx \in Leds, idx < ExternalMax
             PROVE  idx \in leds' <=> idx \in lev
  BY DEF Shown
<1>1. PICK k \in DOMAIN LedIdx : idx = LedIdx[k]
  BY DEF Leds
<1>2. k \in 1 .. NumIdx
  BY UlogoAssumption DEF NumIdx
<1>3. NumIdx \in Nat
  BY LedFacts
<1>4. k - 1 \in 0 .. NumIdx - 1 /\ (k - 1) + 1 = k
  BY <1>2, <1>3
<1>5. Right(k - 1, lev)'
  BY <1>4
<1> QED
  BY <1>1, <1>4, <1>5 DEF Right

(* A write that begins wants nothing on the LEDs yet; when its begin is no
   overlap it is the only one.                                             *)
LEMMA EnterConst ==
  ASSUME TypeOK, ConstInv, NEW p \in Proc, NEW to \in {"pattern", "value", "bright"},
         Enter(p, to), i' = i
  PROVE  ConstInv'
<1>1. pc' = [pc EXCEPT ![p] = to] /\ want' = {}
  BY DEF Enter, Goto
<1>2. ~overlap' => \A q \in Proc : pc[q] = "idle"
  BY DEF Enter
<1>3. \A q \in Proc : pc'[q] = IF q = p THEN to ELSE pc[q]
  BY <1>1 DEF TypeOK
<1>4. LoopsBegin'
  BY <1>3 DEF ConstInv, LoopsBegin, Enter, Goto
<1>5. Alone'
  BY <1>2, <1>3 DEF Alone
<1>6. Silenced'
  BY <1>2, <1>3 DEF Silenced
<1>7. Held'
  BY <1>1 DEF Held
<1> QED
  BY <1>4, <1>5, <1>6, <1>7 DEF ConstInv

(* What is stopped stays stopped: the timer function does not run then. *)
LEMMA TimerConst ==
  ASSUME ConstInv, Timer
  PROVE  ConstInv'
<1>1. UNCHANGED <<pc, level, i, overlap, want>>
  BY DEF Timer, TimerFire, TimerCheck, TimerPoint, TimerPlay, TimerRearm, TimerLoad,
         TimerStore, TimerWrap, tableVars, loopVars, histVars
<1>2. armed \/ cb # "idle"
  BY DEF Timer, TimerFire, TimerCheck, TimerPoint, TimerPlay, TimerRearm, TimerLoad,
         TimerStore, TimerWrap
<1>3. LoopsBegin' /\ Alone'
  BY <1>1 DEF ConstInv, LoopsBegin, Alone
<1>4. Silenced'
  BY <1>1, <1>2 DEF ConstInv, Silenced
<1>5. Held'
  BY <1>1, <1>2 DEF ConstInv, Held
<1> QED
  BY <1>3, <1>4, <1>5 DEF ConstInv

(* The rounds of a loop that is alone. *)
LEMMA DriveConst ==
  ASSUME TypeOK, ConstInv, NEW p \in Proc, Drive(p), ~overlap
  PROVE  Silenced' /\ Held'
<1> USE DEF timerVars
<1>1. PICK k \in 0 .. NumIdx - 1 : k = i[p]
  BY DEF TypeOK
<1>2. PICK lev \in Levels : lev = level[p]
  BY DEF TypeOK
<1>3. leds' = Driven(k, lev)
  BY <1>1, <1>2 DEF Drive
<1>4. UNCHANGED <<armed, cb, overlap>> /\ want = {}
  BY DEF Drive, ConstInv, Held, Quiet
<1>5. pc[p] # "idle" /\ \A q \in Proc : q # p => pc[q] = "idle" /\ pc'[q] = "idle"
  BY DEF Drive, ConstInv, Alone, TypeOK
<1>6. CASE pc[p] = "bright"
  <2>1. want' = {} /\ pc'[p] \in {"bright", "idle"}
    BY <1>4, <1>6 DEF Drive, TypeOK
  <2> QED
    BY <1>5, <2>1 DEF Silenced, Held
<1>7. CASE pc[p] = "apply"
  <2>1. ~armed /\ cb = "idle"
    BY <1>7 DEF ConstInv, Silenced
  <2>2. \A j \in 0 .. NumIdx - 1 : j < k => Right(j, lev)
    BY <1>1, <1>2, <1>7 DEF ConstInv, Silenced
  <2>3. /\ Right(k, lev)'
        /\ \A j \in 0 .. NumIdx - 1 : Right(j, lev) => Right(j, lev)'
    BY <1>3, DrivenRight
  <2>4. \A j \in 0 .. NumIdx - 1 : j < k + 1 => Right(j, lev)'
    <3> SUFFICES ASSUME NEW j \in 0 .. NumIdx - 1, j < k + 1
                 PROVE  Right(j, lev)'
      OBVIOUS
    <3>1. CASE j = k
      BY <2>3, <3>1
    <3>2. CASE j < k
      BY <2>2, <2>3, <3>2
    <3> QED
      BY <3>1, <3>2, LedFacts
  <2>5. CASE ~Last(k)
    <3>1. i'[p] = k + 1 /\ level'[p] = lev /\ want' = {}
      BY <1>1, <1>2, <1>4, <2>5 DEF Drive, TypeOK
    <3>2. Silenced'
      BY <1>4, <1>5, <2>1, <2>4, <3>1 DEF Silenced
    <3> QED
      BY <3>1, <3>2 DEF Held
  <2>6. CASE Last(k)
    <3>1. pc'[p] = "idle" /\ want' = {lev}
      BY <1>1, <1>2, <1>7, <2>6 DEF Drive, TypeOK
    <3>2. Silenced' /\ Quiet'
      BY <1>5, <3>1 DEF Silenced, Quiet
    <3>3. \A j \in 0 .. NumIdx - 1 : Right(j, lev)'
      BY <2>4, <2>6 DEF Last
    <3>4. Shown(lev)'
      BY <3>3, RightShows
    <3> QED
      BY <1>4, <2>1, <3>1, <3>2, <3>4 DEF Held
  <2> QED
    BY <2>5, <2>6
<1> QED
  BY <1>6, <1>7 DEF Drive

(* A step of a write under way. *)
LEMMA MoveConst ==
  ASSUME TypeOK, ConstInv, NEW p \in Proc, DelTimerSync(p) \/ StoreStep(p)
  PROVE  ConstInv'
<1> USE DEF DelTimerSync, StoreStep, Copy, Parse, Parsed, Count, Rewind, Test, Arm, Zero,
            Goto, tableVars, timerVars, loopVars, histVars
<1>1. pc[p] # "idle" /\ overlap' = overlap
  BY DEF Drive
<1>2. \A q \in Proc : q # p => pc'[q] = pc[q] /\ i'[q] = i[q] /\ level'[q] = level[q]
  BY DEF Drive, TypeOK
<1>3. LoopsBegin'
  <2>1. CASE Drive(p)
    BY <1>2, <2>1 DEF ConstInv, LoopsBegin, Drive, TypeOK
  <2>2. CASE ~Drive(p)
    <3>1. i' = i /\ pc[p] \notin {"bright", "apply"}
      BY <2>2
    <3> QED
      BY <1>2, <3>1 DEF ConstInv, LoopsBegin
  <2> QED
    BY <2>1, <2>2
<1>4. Alone'
  BY <1>1, <1>2 DEF ConstInv, Alone
<1>5. want = {}
  BY <1>1 DEF ConstInv, Held, Quiet
<1>6. CASE overlap
  <2>1. Silenced' /\ want' = {}
    BY <1>1, <1>5, <1>6 DEF Silenced, Drive
  <2> QED
    BY <1>3, <1>4, <2>1 DEF ConstInv, Held
<1>7. CASE ~overlap
  <2>1. \A q \in Proc : q # p => pc'[q] = "idle"
    BY <1>1, <1>2, <1>7 DEF ConstInv, Alone
  <2>2. CASE Drive(p)
    BY <1>3, <1>4, <1>7, <2>2, DriveConst DEF ConstInv
  <2>3. CASE ~Drive(p)
    <3>1. want' = {} /\ leds' = leds
      BY <1>5, <2>3
    <3>2. Silenced'
      <4>1. CASE DelTimerSync(p)
        <5>1. ~armed' /\ cb' = "idle" /\ pc'[p] \in {"copy", "zero"}
          BY <4>1 DEF TypeOK
        <5> QED
          BY <2>1, <5>1 DEF Silenced
      <4>2. CASE Zero(p)
        <5>1. ~armed' /\ cb' = "idle"
          BY <1>7, <4>2 DEF ConstInv, Silenced
        <5>2. i'[p] = 0
          BY <4>2 DEF ConstInv, LoopsBegin
        <5>3. \A k \in 0 .. NumIdx - 1 : ~(k < 0)
          BY LedFacts
        <5> QED
          BY <2>1, <5>1, <5>2, <5>3 DEF Silenced
      <4>3. CASE ~DelTimerSync(p) /\ ~Zero(p)
        <5>1. pc'[p] \notin {"zero", "apply"}
          BY <2>3, <4>3 DEF TypeOK
        <5> QED
          BY <2>1, <5>1 DEF Silenced
      <4> QED
        BY <4>1, <4>2, <4>3
    <3> QED
      BY <1>3, <1>4, <3>1, <3>2 DEF ConstInv, Held
  <2> QED
    BY <2>2, <2>3
<1> QED
  BY <1>6, <1>7

LEMMA ConstStep == TypeOK /\ ConstInv /\ [Next]_vars => ConstInv'
<1> SUFFICES ASSUME TypeOK, ConstInv, [Next]_vars
             PROVE  ConstInv'
  OBVIOUS
<1>1. CASE Timer
  BY <1>1, TimerConst
<1>2. ASSUME NEW w \in Writers, WritePattern(w) \/ WriteValue(w)
      PROVE  ConstInv'
  <2>1. w \in Proc /\ (Enter(w, "pattern") \/ Enter(w, "value")) /\ i' = i
    BY <1>2 DEF WritePattern, WriteValue, Proc, loopVars
  <2> QED
    BY <2>1, EnterConst
<1>3. ASSUME NEW w \in Writers, NEW on \in BOOLEAN, SetBrightness(w, on)
      PROVE  ConstInv'
  <2>1. w \in Proc /\ Enter(w, "bright") /\ i' = i
    BY <1>3 DEF SetBrightness, Proc
  <2> QED
    BY <2>1, EnterConst
<1>4. CASE StartDefault \/ UnregisterDark
  <2>1. Probe \in Proc /\ (Enter(Probe, "pattern") \/ Enter(Probe, "bright")) /\ i' = i
    BY <1>4 DEF StartDefault, UnregisterDark, Proc, loopVars
  <2> QED
    BY <2>1, EnterConst
<1>5. ASSUME NEW p \in Proc, DelTimerSync(p) \/ StoreStep(p)
      PROVE  ConstInv'
  BY <1>5, MoveConst
<1>6. CASE \/ RegisterClassdev \/ SetupTimer \/ ListAdd \/ Remove \/ RemoveDelTimer
           \/ UnregisterAttributes \/ Release \/ UNCHANGED vars
  <2>1. UNCHANGED <<cb, pc, level, i, leds, overlap, want>> /\ (~armed => ~armed')
    BY <1>6 DEF RegisterClassdev, SetupTimer, ListAdd, Remove, RemoveDelTimer,
                UnregisterAttributes, Release, timerVars, loopVars, histVars, vars
  <2>2. LoopsBegin' /\ Alone'
    BY <2>1 DEF ConstInv, LoopsBegin, Alone
  <2>3. Silenced'
    BY <2>1 DEF ConstInv, Silenced, Right
  <2>4. Held'
    BY <2>1 DEF ConstInv, Held, Quiet, Shown
  <2> QED
    BY <2>2, <2>3, <2>4 DEF ConstInv
<1> QED
  BY <1>1, <1>2, <1>3, <1>4, <1>5, <1>6 DEF Next, Driver

(* What a write of constant or binary that met no other write of any kind has
   set stays on all LEDs of the group.                                       *)
THEOREM UlogoConstantStays == Spec => []ConstantStays
<1>1. Init => ConstInv
  BY LedFacts DEF Init, ConstInv, LoopsBegin, Alone, Silenced, Held
<1>2. IInv => TypeOK
  BY DEF IInv
<1>3. ConstInv => ConstantStays
  BY DEF ConstInv, Held, ConstantStays
<1> QED
  BY <1>1, <1>2, <1>3, UlogoInvariant, ConstStep, PTL DEF Spec

=============================================================================
