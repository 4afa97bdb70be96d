----------------------------- MODULE UlogoLeds ------------------------------
(***************************************************************************)
(* One LED group of leds-ulogo.c with the triggers of ledtrig-external.c:  *)
(* a table of blink steps, its length and the position in it, shared       *)
(* without a lock by the timer function, by the writers of the attributes  *)
(* pattern, constant, binary and brightness, and by the thread that probes *)
(* and removes; and the life of the group from led_classdev_register to    *)
(* the release of its memory.  The triggers are driven one by one, by      *)
(* loops that may meet.                                                    *)
(*                                                                         *)
(* Writers have the attribute open on files of their own, so nothing keeps *)
(* two of them out of the store functions at the same time.  What is in a  *)
(* written buffer is chosen where the code first depends on it.            *)
(***************************************************************************)
EXTENDS Naturals, Sequences

CONSTANTS
  Writers,       \* processes that write attributes
  MaxSteps,      \* ULOGO_MAX_STEPS
  LedIdx,        \* the group's led_idx, num_idx of them
  ExternalMax,   \* LEDTRIG_EXTERNAL_MAX
  Patterns,      \* the patterns that are written: sequences of levels
  Values         \* the integers written to constant and binary, as levels

Probe == "probe"                \* the thread that probes, and removes
Proc == Writers \cup {Probe}
Leds == {LedIdx[k] : k \in DOMAIN LedIdx}
Levels == SUBSET Leds           \* LEVEL is a bit mask over led_idx

ASSUME UlogoAssumption ==
  /\ MaxSteps \in Nat \ {0}
  /\ LedIdx \in Seq(Nat) /\ Len(LedIdx) > 0
  /\ ExternalMax \in Nat
  /\ Patterns \subseteq Seq(Levels)
  /\ Values \subseteq Levels
  /\ Probe \notin Writers

Table == 0 .. MaxSteps - 1
NumIdx == Len(LedIdx)

VARIABLES
  life,      \* where the group is between probe and the release of its memory
  raw,       \* pattern_raw, as the levels in it
  steps,     \* steps[].level
  numSteps,  \* num_steps
  curStep,   \* cur_step
  armed,     \* is the timer pending
  cb,        \* where the timer function is
  at, lit,   \* ... the step it points to, and how many LEDs it has driven
  next,      \* ... its register between load and store of cur_step
  pc,        \* where each process is in a store function
  n,         \* ... the steps it has parsed
  level, i,  \* ... the level it drives, and how many LEDs it has driven
  leds,      \* external triggers that are on
  overlap,   \* history: did the last write begin while another was under way
  want       \* history: {v} once value v was applied by a write that met no
             \* other, {} when a write begins

tableVars == <<raw, steps, numSteps, curStep>>
timerVars == <<armed, cb, at, lit, next>>
loopVars == <<level, i>>
histVars == <<overlap, want>>
vars == <<life, raw, steps, numSteps, curStep, armed, cb, at, lit, next, pc, n,
          level, i, leds, overlap, want>>

Lives == {"absent", "named", "ready", "starting", "bound", "removing",
          "quiet", "dark", "draining", "freed"}
PcValues == {"idle", "pattern", "copy", "parse", "count", "rewind", "test",
             "arm", "value", "zero", "apply", "bright"}

TypeOK ==
  /\ life \in Lives
  /\ raw \in Seq(Levels)
  /\ steps \in [Table -> Levels]
  /\ numSteps \in 0 .. MaxSteps
  /\ curStep \in 0 .. MaxSteps
  /\ armed \in BOOLEAN
  /\ cb \in {"idle", "check", "point", "play", "rearm", "load", "store", "wrap"}
  /\ at \in 0 .. MaxSteps
  /\ lit \in 0 .. NumIdx - 1
  /\ next \in 0 .. MaxSteps
  /\ pc \in [Proc -> PcValues]
  /\ n \in [Proc -> 0 .. MaxSteps]
  /\ level \in [Proc -> Levels]
  /\ i \in [Proc -> 0 .. NumIdx - 1]
  /\ leds \in SUBSET (0 .. ExternalMax - 1)
  /\ overlap \in BOOLEAN
  /\ want \in SUBSET Levels

Init ==
  /\ life = "absent"
  /\ raw = <<>>
  /\ steps = [k \in Table |-> {}]
  /\ numSteps = 0
  /\ curStep = 0
  /\ armed = FALSE
  /\ cb = "idle"
  /\ at = 0 /\ lit = 0
  /\ next = 0
  /\ pc = [p \in Proc |-> "idle"]
  /\ n = [p \in Proc |-> 0]
  /\ level = [p \in Proc |-> {}] /\ i = [p \in Proc |-> 0]
  /\ leds = {}
  /\ overlap = FALSE
  /\ want = {}

Alive == life # "freed"

(* One round of a loop over led_idx, a call of ledtrig_external: it refuses
   an index beyond its triggers.                                           *)
Driven(k, lev) ==
  LET idx == LedIdx[k + 1] IN
  IF idx >= ExternalMax THEN leds
  ELSE IF idx \in lev THEN leds \cup {idx}
  ELSE leds \ {idx}

Last(k) == k + 1 = NumIdx

(* The definitions whose names end in _<Slip> are mutated forms of the one
   that follows them: slips the properties below are there to catch.       *)
-----------------------------------------------------------------------------
(***************************************************************************)
(* The timer function.  It is never entered again while it runs; cur_step  *)
(* is read, stored and compared in steps of their own.                     *)
(***************************************************************************)
TimerFire ==
  /\ Alive /\ armed /\ cb = "idle"
  /\ armed' = FALSE
  /\ cb' = "check"
  /\ UNCHANGED <<life, tableVars, at, lit, next, pc, n, loopVars, leds, histVars>>

TimerCheck ==
  /\ Alive /\ cb = "check"
  /\ cb' = IF numSteps = 0 THEN "idle" ELSE "point"
  /\ UNCHANGED <<life, tableVars, armed, at, lit, next, pc, n, loopVars, leds,
                 histVars>>

(* The step is chosen once; its level is read again for each LED. *)
TimerPoint ==
  /\ Alive /\ cb = "point"
  /\ at' = curStep
  /\ cb' = "play"
  /\ UNCHANGED <<life, tableVars, armed, lit, next, pc, n, loopVars, leds, histVars>>

TimerPlay ==
  /\ Alive /\ cb = "play"
  /\ leds' = Driven(lit, steps[at])
  /\ lit' = IF Last(lit) THEN 0 ELSE lit + 1
  /\ cb' = IF Last(lit) THEN "rearm" ELSE "play"
  /\ UNCHANGED <<life, tableVars, armed, at, next, pc, n, loopVars, histVars>>

TimerRearm_OneShot ==
  /\ Alive /\ cb = "rearm"
  /\ at' = 0
  /\ cb' = "load"
  /\ UNCHANGED <<life, tableVars, armed, lit, next, pc, n, loopVars, leds, histVars>>

TimerRearm ==
  /\ Alive /\ cb = "rearm"
  /\ armed' = TRUE
  /\ at' = 0
  /\ cb' = "load"
  /\ UNCHANGED <<life, tableVars, lit, next, pc, n, loopVars, leds, histVars>>

TimerLoad ==
  /\ Alive /\ cb = "load"
  /\ next' = curStep + 1
  /\ cb' = "store"
  /\ UNCHANGED <<life, tableVars, armed, at, lit, pc, n, loopVars, leds, histVars>>

TimerStore ==
  /\ Alive /\ cb = "store"
  /\ curStep' = next
  /\ cb' = "wrap"
  /\ UNCHANGED <<life, raw, steps, numSteps, armed, at, lit, next, pc, n, loopVars,
                 leds, histVars>>

TimerWrap_OffByOne ==
  /\ Alive /\ cb = "wrap"
  /\ curStep' = IF next > numSteps THEN 0 ELSE curStep
  /\ cb' = "idle"
  /\ next' = 0
  /\ UNCHANGED <<life, raw, steps, numSteps, armed, at, lit, pc, n, loopVars, leds,
                 histVars>>

TimerWrap_Early ==
  /\ Alive /\ cb = "wrap"
  /\ curStep' = IF next + 1 >= numSteps THEN 0 ELSE curStep
  /\ cb' = "idle"
  /\ next' = 0
  /\ UNCHANGED <<life, raw, steps, numSteps, armed, at, lit, pc, n, loopVars, leds,
                 histVars>>

TimerWrap ==
  /\ Alive /\ cb = "wrap"
  /\ curStep' = IF next >= numSteps THEN 0 ELSE curStep
  /\ cb' = "idle"
  /\ next' = 0
  /\ UNCHANGED <<life, raw, steps, numSteps, armed, at, lit, pc, n, loopVars, leds,
                 histVars>>

-----------------------------------------------------------------------------
(***************************************************************************)
(* The store functions.                                                    *)
(***************************************************************************)
Goto(p, from, to) == pc[p] = from /\ pc' = [pc EXCEPT ![p] = to]

HasAttributes ==
  life \in {"named", "ready", "starting", "bound", "removing", "quiet", "dark"}

(* The entry to a store function, history included. *)
Enter(p, to) ==
  /\ Goto(p, "idle", to)
  /\ overlap' = \E q \in Proc : pc[q] # "idle"
  /\ want' = {}

WritePattern(w) ==
  /\ HasAttributes
  /\ Enter(w, "pattern")
  /\ UNCHANGED <<life, tableVars, timerVars, n, loopVars, leds>>

(* constant and binary differ only in where they keep the raw bytes. *)
WriteValue(w) ==
  /\ HasAttributes
  /\ Enter(w, "value")
  /\ UNCHANGED <<life, tableVars, timerVars, n, loopVars, leds>>

(* The class attribute brightness: ctrl_led_set_brightness, which leaves the
   pattern running.                                                        *)
SetBrightness(w, on) ==
  /\ HasAttributes
  /\ Enter(w, "bright")
  /\ level' = [level EXCEPT ![w] = IF on THEN Leds ELSE {}]
  /\ UNCHANGED <<life, tableVars, timerVars, n, i, leds>>

(* The loop over led_idx, of ctrl_led_set_brightness and, once an integer is
   parsed, of ulogo_capture_and_apply: one LED, and out behind the last.   *)
Drive(p) ==
  /\ pc[p] \in {"bright", "apply"}
  /\ leds' = Driven(i[p], level[p])
  /\ \/ /\ ~Last(i[p])
        /\ i' = [i EXCEPT ![p] = i[p] + 1]
        /\ UNCHANGED <<pc, level, want>>
     \/ /\ Last(i[p])
        /\ i' = [i EXCEPT ![p] = 0]
        /\ level' = [level EXCEPT ![p] = {}]
        /\ pc' = [pc EXCEPT ![p] = "idle"]
        /\ want' = IF pc[p] = "apply" /\ ~overlap THEN {level[p]} ELSE want
  /\ UNCHANGED <<life, tableVars, timerVars, n, overlap>>

(* del_timer_sync polls until the timer function is not running, and, on a
   zeroed timer, until setup_timer has given it a base.                    *)
DelTimerSync_NoSync(p) ==
  /\ life # "named"
  /\ \/ Goto(p, "pattern", "copy")
     \/ Goto(p, "value", "zero")
  /\ armed' = FALSE
  /\ UNCHANGED <<life, tableVars, cb, at, lit, next, n, loopVars, leds, histVars>>

DelTimerSync(p) ==
  /\ life # "named" /\ cb = "idle"
  /\ \/ Goto(p, "pattern", "copy")
     \/ Goto(p, "value", "zero")
  /\ armed' = FALSE
  /\ UNCHANGED <<life, tableVars, cb, at, lit, next, n, loopVars, leds, histVars>>

(* strlcpy into the group's one pattern_raw. *)
Copy(p) ==
  /\ Goto(p, "copy", "parse")
  /\ raw' \in Patterns
  /\ UNCHANGED <<life, steps, numSteps, curStep, timerVars, n, loopVars, leds,
                 histVars>>

(* ulogo_parse_pattern: the table is overwritten in place, a step at a time,
   up to its size, from whatever is in pattern_raw by then.                *)
More_NoCap(k) == k < Len(raw)

More(k) == k < MaxSteps /\ k < Len(raw)

Parse(p) ==
  /\ pc[p] = "parse" /\ More(n[p])
  /\ steps' = [steps EXCEPT ![n[p]] = raw[n[p] + 1]]
  /\ n' = [n EXCEPT ![p] = n[p] + 1]
  /\ UNCHANGED <<life, raw, numSteps, curStep, timerVars, pc, loopVars, leds,
                 histVars>>

Parsed(p) ==
  /\ ~More(n[p])
  /\ Goto(p, "parse", "count")
  /\ UNCHANGED <<life, tableVars, timerVars, n, loopVars, leds, histVars>>

Count(p) ==
  /\ Goto(p, "count", "rewind")
  /\ numSteps' = n[p]
  /\ n' = [n EXCEPT ![p] = 0]
  /\ UNCHANGED <<life, raw, steps, curStep, timerVars, loopVars, leds, histVars>>

Rewind(p) ==
  /\ Goto(p, "rewind", "test")
  /\ curStep' = 0
  /\ UNCHANGED <<life, raw, steps, numSteps, timerVars, n, loopVars, leds, histVars>>

Test(p) ==
  /\ Goto(p, "test", IF numSteps > 0 THEN "arm" ELSE "idle")
  /\ UNCHANGED <<life, tableVars, timerVars, n, loopVars, leds, histVars>>

Arm(p) ==
  /\ Goto(p, "arm", "idle")
  /\ armed' = TRUE
  /\ UNCHANGED <<life, tableVars, cb, at, lit, next, n, loopVars, leds, histVars>>

(* A plain integer is applied to the triggers, anything else is not. *)
Zero(p) ==
  /\ numSteps' = 0
  /\ \/ Goto(p, "zero", "idle") /\ UNCHANGED level
     \/ \E v \in Values :
          Goto(p, "zero", "apply") /\ level' = [level EXCEPT ![p] = v]
  /\ UNCHANGED <<life, raw, steps, curStep, timerVars, n, i, leds, histVars>>

StoreStep(p) ==
  \/ Copy(p) \/ Parse(p) \/ Parsed(p) \/ Count(p) \/ Rewind(p) \/ Test(p)
  \/ Arm(p) \/ Zero(p) \/ Drive(p)

-----------------------------------------------------------------------------
(***************************************************************************)
(* Probe of the group; and remove, or the unwinding when another group of  *)
(* the same node fails.                                                    *)
(***************************************************************************)
Live(from, to) == life = from /\ life' = to

RegisterClassdev ==
  /\ Live("absent", "named")
  /\ UNCHANGED <<tableVars, timerVars, pc, n, loopVars, leds, histVars>>

SetupTimer ==
  /\ Live("named", "ready")
  /\ UNCHANGED <<tableVars, timerVars, pc, n, loopVars, leds, histVars>>

StartDefault ==
  /\ Live("ready", "starting")
  /\ Enter(Probe, "pattern")
  /\ UNCHANGED <<tableVars, timerVars, n, loopVars, leds>>

(* list_add_tail: with no default pattern, or once it is started. *)
ListAdd ==
  /\ pc[Probe] = "idle"
  /\ Live("ready", "bound") \/ Live("starting", "bound")
  /\ UNCHANGED <<tableVars, timerVars, pc, n, loopVars, leds, histVars>>

Remove ==
  /\ Live("bound", "removing")
  /\ UNCHANGED <<tableVars, timerVars, pc, n, loopVars, leds, histVars>>

RemoveDelTimer_NoSync ==
  /\ Live("removing", "quiet")
  /\ armed' = FALSE
  /\ UNCHANGED <<tableVars, cb, at, lit, next, pc, n, loopVars, leds, histVars>>

RemoveDelTimer ==
  /\ cb = "idle"
  /\ Live("removing", "quiet")
  /\ armed' = FALSE
  /\ UNCHANGED <<tableVars, cb, at, lit, next, pc, n, loopVars, leds, histVars>>

(* led_classdev_unregister: the LEDs go off, one by one, then the attributes
   go and wait for the writers inside, and the memory goes when remove
   returns.                                                                *)
UnregisterDark ==
  /\ Live("quiet", "dark")
  /\ Enter(Probe, "bright")
  /\ UNCHANGED <<tableVars, timerVars, n, loopVars, leds>>

UnregisterAttributes ==
  /\ pc[Probe] = "idle"
  /\ Live("dark", "draining")
  /\ UNCHANGED <<tableVars, timerVars, pc, n, loopVars, leds, histVars>>

Release ==
  /\ \A p \in Proc : pc[p] = "idle"
  /\ Live("draining", "freed")
  /\ UNCHANGED <<tableVars, timerVars, pc, n, loopVars, leds, histVars>>

-----------------------------------------------------------------------------
Timer ==
  \/ TimerFire \/ TimerCheck \/ TimerPoint \/ TimerPlay \/ TimerRearm
  \/ TimerLoad \/ TimerStore \/ TimerWrap

Driver ==
  \/ SetupTimer \/ StartDefault \/ ListAdd
  \/ UnregisterDark \/ UnregisterAttributes \/ Release

Next ==
  \/ Timer
  \/ \E w \in Writers : WritePattern(w) \/ WriteValue(w)
  \/ \E w \in Writers, on \in BOOLEAN : SetBrightness(w, on)
  \/ \E p \in Proc : DelTimerSync(p) \/ StoreStep(p)
  \/ RegisterClassdev
  \/ Driver
  \/ Remove
  \/ RemoveDelTimer

(* A pending timer expires and its function runs to its end.  Nothing else
   is needed: no process has to write, or to leave the driver.             *)
Fairness == WF_vars(Timer)

Spec == Init /\ [][Next]_vars /\ Fairness

-----------------------------------------------------------------------------
(* The timer function points to a step inside the table, however its position
   and the length are changed under it by several writers.                 *)
InTable == cb = "play" => at < MaxSteps

(* A pattern that is loaded is kept running: until remove stops it, its
   timer is pending, its function is going to restart it, or someone is
   between stopping it and deciding anew.                                  *)
Stopped == {"quiet", "dark", "draining", "freed"}
Deciding == {"copy", "parse", "count", "rewind", "test", "arm", "zero"}

PatternAlive ==
  numSteps > 0 /\ life \notin Stopped =>
    \/ armed
    \/ cb \in {"check", "point", "play", "rearm"}
    \/ \E p \in Proc : pc[p] \in Deciding

(* Once remove has stopped the timer nothing but a store that finds the
   attributes still there starts it again: neither the timer function, which
   restarts itself, nor the default pattern.                               *)
Running == armed \/ cb # "idle"
OnlyStoresRevive ==
  [][life' \in Stopped /\ Running' =>
       \/ life \in Stopped /\ Running
       \/ \E w \in Writers : pc[w] = "arm"]_vars

Quiet == \A p \in Proc : pc[p] = "idle"

(* The group's LEDs show a level: as far as there are triggers for them. *)
Shown(lev) ==
  \A idx \in Leds : idx < ExternalMax => (idx \in leds <=> idx \in lev)

(* A value written to constant or binary stays on the LEDs, on all of them: no
   step of the pattern it stopped comes after it, on any LED, when no other
   write of any kind (remove's switching off included) was under way when it
   began or began since.                                                   *)
ConstantStays ==
  Quiet => \A v \in want : Shown(v)

(* Every step of a pattern that is left alone is shown again and again, on
   all LEDs at once.                                                       *)
EveryStepShows ==
  \A k \in Table :
    <>[](life = "bound" /\ Quiet /\ k < numSteps)
      => []<>(cb = "rearm" /\ at = k /\ Shown(steps[k]))

=============================================================================
