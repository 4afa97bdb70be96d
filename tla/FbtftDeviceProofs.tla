-------------------------- MODULE FbtftDeviceProofs ---------------------------
(***************************************************************************)
(* Theorems about the life of the frame buffer device, for any screen, any *)
(* levels of brightness, any device trees and any number of operations     *)
(* that meet on the bus.                                                   *)
(***************************************************************************)
EXTENDS FbtftDevice, TLAPS

-----------------------------------------------------------------------------
(***************************************************************************)
(* The life of the device: what the driver holds at each point of probe    *)
(* and remove, and who may be in it.                                       *)
(***************************************************************************)
Alone == {"out", "alloc", "fill", "setup", "register", "init", "show"}
Sending == {"init", "show", "on", "unlit"}

LiveInv ==
  /\ op \in [Actors -> Operations]
  /\ core \in Phases /\ live \subseteq Resources
  /\ core \in {"out", "alloc"} => live = {}
  /\ core \in {"fill", "setup", "register"} => live = {"info", "vmem"}
  /\ core \notin {"out", "alloc"} => {"info", "vmem"} \subseteq live
  /\ core \in Alone \cup {"announce"} => {"framebuffer", "work"} \cap live = {}
  /\ core \in Alone => "backlight" \notin live
  /\ core = "leave" => "backlight" \notin live
  /\ core = "release" => live \subseteq {"info", "vmem", "work"}

ActorsInv ==
  /\ op["core"] # "idle" => core \in Sending
  /\ op["core"] \in {"init", "show"} => core \in {"init", "show"}
  /\ op["core"] = "contrast" => core \in {"on", "unlit"}
  /\ op["brightness"] # "idle" => core \notin Alone \cup {"release"}
  /\ op["blank"] # "idle" => core \notin Alone \cup {"announce"}
  /\ op["work"] # "idle" => "work" \in live

LifeInv == LiveInv /\ ActorsInv

(* A step on the bus ends the operation of its actor, or no operation. *)
LEMMA BusStepOp ==
  ASSUME NEW a \in Actors, op \in [Actors -> Operations], BusStep(a)
  PROVE  op' = op \/ op' = [op EXCEPT ![a] = "idle"]
  BY DEF BusStep, Load, Send, Sent, High, SendData, Streamed, End, Transfer, GoOn, EndCommand

(* Who starts an operation is the only one whose operation changes. *)
LEMMA LifeStep == LifeInv /\ [Next]_vars => LifeInv'
<1> SUFFICES ASSUME LifeInv, [Next]_vars PROVE LifeInv'
  OBVIOUS
<1> USE DEF LifeInv, LiveInv, ActorsInv, Actors, Operations, Phases, Resources, Alone, Sending,
            Idle, Start, busVars, actorVars, coreVars, clientVars
<1>1. CASE Probe
  BY <1>1 DEF Probe
<1>2. CASE Alloc \/ Fill \/ Setup
  BY <1>2 DEF Alloc, Fill, Setup, Quit
<1>3. CASE Register
  BY <1>3 DEF Register
<1>4. CASE Show
  BY <1>4 DEF Show
<1>5. CASE RegisterBacklight \/ RegisterFramebuffer \/ Bound
  BY <1>5 DEF RegisterBacklight, RegisterFramebuffer, Bound
<1>6. CASE Light
  BY <1>6 DEF Light, SendIfLit, SendBrightness
<1>7. CASE Remove \/ Unlit \/ Leave
  BY <1>7 DEF Remove, Unlit, Leave
<1>8. CASE Unlight
  BY <1>8 DEF Unlight, SendIfLit, SendBrightness
<1>9. CASE Release
  BY <1>9 DEF Release, Quit, Forget
<1>10. ASSUME NEW a \in Actors, BusStep(a), UNCHANGED <<coreVars, clientVars>> PROVE LifeInv'
  BY <1>10, BusStepOp
<1>11. ASSUME NEW b \in Levels, SetBrightness(b) PROVE LifeInv'
  BY <1>11 DEF SetBrightness, SendBrightness
<1>12. ASSUME NEW b \in BOOLEAN, Blank(b) PROVE LifeInv'
  BY <1>12 DEF Blank
<1>13. CASE Flush
  BY <1>13 DEF Flush
<1>14. CASE UNCHANGED vars
  BY <1>14 DEF vars
<1>15. QED
  BY <1>1, <1>2, <1>3, <1>4, <1>5, <1>6, <1>7, <1>8, <1>9, <1>10, <1>11, <1>12, <1>13, <1>14
  DEF Next, Core

(* Where probe and remove are determines what the driver holds and who may
   be in it, in every reachable state.                                      *)
THEOREM FbtftLife == Spec => []LifeInv
<1>1. Init => LifeInv
  BY DEF Init, BusInit, LifeInv, LiveInv, ActorsInv, Actors, Operations, Phases, Alone
<1>2. QED
  BY <1>1, LifeStep, PTL DEF Spec

(* For any tree and any clients: nobody is in the driver when its memory is
   freed, and the panel is initialised by a thread that is alone.           *)
THEOREM FbtftOwnedMemory == Spec => []OwnedMemory
<1>1. LifeInv => OwnedMemory
  BY DEF LifeInv, LiveInv, ActorsInv, OwnedMemory, Idle, Actors, Alone, Sending
<1>2. QED
  BY <1>1, FbtftLife, PTL

(* For any tree: nothing is lost but by the two ways out that are named. *)
THEOREM FbtftLeaksHaveCauses == Spec => LeaksHaveCauses
<1> DEFINE A == leaked' # {} => \/ leaked' = leaked
                                \/ core = "fill" /\ leaked' = {"info"}
                                \/ core = "setup" /\ board.buswidth = 0
<1>1. ASSUME LifeInv, Next PROVE A
  <2> USE <1>1 DEF LifeInv, LiveInv, coreVars
  <2>1. CASE Probe
    BY <2>1 DEF Probe
  <2>2. CASE Alloc \/ Fill \/ Setup
    BY <2>2 DEF Alloc, Fill, Setup, Quit
  <2>3. CASE Release
    BY <2>3 DEF Release, Quit
  <2>4. CASE ~(Probe \/ Alloc \/ Fill \/ Setup \/ Release)
    BY <2>4 DEF Next, Core, Register, Show, RegisterBacklight, RegisterFramebuffer, Light, Bound,
                Remove, Unlight, Unlit, Leave, SetBrightness, Blank, Flush
  <2>5. QED
    BY <2>1, <2>2, <2>3, <2>4
<1>2. LifeInv /\ [Next]_vars => [A]_vars
  BY <1>1
<1>3. QED
  BY <1>2, FbtftLife, PTL DEF Spec, LeaksHaveCauses

-----------------------------------------------------------------------------
(***************************************************************************)
(* Types.                                                                  *)
(***************************************************************************)
(* The commands of each operation. *)
CommandsOf(o) ==
  CASE o = "init"     -> {"lock", "sleepOn", "cols", "rows", "power", "contrast", "mode"}
    [] o = "show"     -> {"remap", "cols", "rows", "ram"}
    [] o = "flush"    -> {"cols", "rows", "ram"}
    [] o = "contrast" -> {"contrast"}
    [] o = "blank"    -> Sleeping
    [] OTHER          -> {"none"}

(* Where an actor is in its operation, and that the buffer holds a command
   as soon as anybody has loaded one.                                       *)
StageInv ==
  /\ \A a \in Actors : cmd[a] \in CommandsOf(op[a])
  /\ \A a \in Actors : Idle(a) => at[a] = "load"
  /\ \A a \in Actors : at[a] # "load" => buf # "none"

TypeInv == TypeOK /\ StageInv

(* What follows a command of an operation is one of its commands. *)
LEMMA FollowingType ==
  ASSUME NEW o \in Operations \ {"idle"}, NEW c \in CommandsOf(o)
  PROVE  /\ c \in Commands
         /\ Following(o, c) = "none" \/ Following(o, c) \in CommandsOf(o)
  BY DEF Following, Operations, CommandsOf, Commands, Sleeping, WithData

(* Who idles keeps the type of its command. *)
LEMMA EndType ==
  ASSUME TypeInv, NEW a \in Actors, NEW here \in Stages, NEW ok \in BOOLEAN,
         EndCommand(a, here, ok)
  PROVE  /\ op' \in [Actors -> Operations] /\ cmd' \in [Actors -> Commands \cup {"none"}]
         /\ at' \in [Actors -> Stages] /\ level' \in [Actors -> Levels]
         /\ area' \in SUBSET Bands /\ alone' \in BOOLEAN
         /\ trusted' \in SUBSET (Bands \cup Registers)
         /\ \A x \in Actors : cmd'[x] \in CommandsOf(op'[x])
         /\ \A x \in Actors : op'[x] = "idle" => at'[x] = "load"
         /\ \A x \in Actors : at'[x] # "load" => at[x] # "load"
<1> DEFINE c == Following(op[a], cmd[a])
<1> USE DEF TypeInv, TypeOK, BusTypeOK, StageInv
<1>1. op[a] \in Operations \ {"idle"} /\ cmd[a] \in CommandsOf(op[a])
  BY DEF EndCommand, Idle
<1>2. c = "none" \/ (c \in Commands /\ c \in CommandsOf(op[a]))
  BY <1>1, FollowingType
<1>3. /\ op' = IF c = "none" THEN [op EXCEPT ![a] = "idle"] ELSE op
      /\ cmd' = [cmd EXCEPT ![a] = c] /\ at' = [at EXCEPT ![a] = "load"]
  BY DEF EndCommand
<1>4. op' \in [Actors -> Operations] /\ cmd' \in [Actors -> Commands \cup {"none"}]
  BY <1>2, <1>3 DEF Operations
<1>5. at' \in [Actors -> Stages]
  BY <1>3 DEF Stages
<1>6. \A x \in Actors : cmd'[x] \in CommandsOf(op'[x])
  BY <1>2, <1>3 DEF CommandsOf
<1>7. /\ \A x \in Actors : op'[x] = "idle" => at'[x] = "load"
      /\ \A x \in Actors : at'[x] # "load" => at[x] # "load"
  BY <1>3 DEF Idle
<1>8. level' \in [Actors -> Levels] /\ area' \in SUBSET Bands /\ alone' \in BOOLEAN
  BY LevelAssumption DEF EndCommand
<1>9. Settles(op[a], Area(a)) \in SUBSET (Bands \cup Registers)
  BY DEF Settles, Area, Registers
<1>10. trusted' \in SUBSET (Bands \cup Registers)
  BY <1>9 DEF EndCommand
<1>11. QED
  BY <1>4, <1>5, <1>6, <1>7, <1>8, <1>10

(* What a byte does to the panel keeps the types of the panel. *)
LEMMA PanelType ==
  ASSUME TypeInv, NEW a \in Actors,
         Confused \/ (TakesCommand /\ buf # "none") \/ (TakesData(a) /\ UNCHANGED buf)
  PROVE  /\ cur' \in Commands \cup {"unknown"} /\ cols' \in BOOLEAN /\ rows' \in SUBSET Bands
         /\ contrast' \in Levels \cup {-1} /\ asleep' \in {"yes", "no", "unknown"}
         /\ right' \in SUBSET Bands
<1> USE DEF TypeInv, TypeOK, BusTypeOK
<1>1. CASE Confused
  BY <1>1 DEF Confused
<1>2. CASE TakesCommand /\ buf # "none"
  BY <1>2 DEF TakesCommand
<1>3. CASE TakesData(a)
  BY <1>3 DEF TakesData, Area
<1>4. QED
  BY <1>1, <1>2, <1>3

(* Going on within a command keeps the types of the actors. *)
LEMMA GoOnType ==
  ASSUME TypeInv, NEW a \in Actors, NEW here \in Stages, NEW there \in Stages, NEW ok \in BOOLEAN,
         GoOn(a, here, there, ok), buf' # "none" \/ (UNCHANGED buf /\ here # "load")
  PROVE  /\ op' \in [Actors -> Operations] /\ cmd' \in [Actors -> Commands \cup {"none"}]
         /\ at' \in [Actors -> Stages] /\ level' \in [Actors -> Levels]
         /\ area' \in SUBSET Bands /\ alone' \in BOOLEAN
         /\ trusted' \in SUBSET (Bands \cup Registers)
         /\ StageInv'
  BY DEF TypeInv, TypeOK, BusTypeOK, StageInv, GoOn, Idle

(* A step on the bus keeps the types. *)
LEMMA BusStepType ==
  ASSUME TypeInv, NEW a \in Actors, BusStep(a), UNCHANGED <<coreVars, clientVars>>
  PROVE  TypeInv'
<1> DEFINE Lines == /\ buf' \in Commands \cup {"none"} /\ dc' \in {0, 1}
                    /\ bus' \in Actors \cup {"free"} /\ steady' \in BOOLEAN
           Panel == /\ cur' \in Commands \cup {"unknown"} /\ cols' \in BOOLEAN /\ rows' \in SUBSET Bands
                    /\ contrast' \in Levels \cup {-1} /\ asleep' \in {"yes", "no", "unknown"}
                    /\ right' \in SUBSET Bands
           Moves == /\ op' \in [Actors -> Operations] /\ cmd' \in [Actors -> Commands \cup {"none"}]
                    /\ at' \in [Actors -> Stages] /\ level' \in [Actors -> Levels]
                    /\ area' \in SUBSET Bands /\ alone' \in BOOLEAN
                    /\ trusted' \in SUBSET (Bands \cup Registers)
                    /\ StageInv'
<1>1. SUFFICES Lines /\ Panel /\ Moves
  BY DEF TypeInv, TypeOK, BusTypeOK, coreVars, clientVars
<1> USE DEF TypeInv, TypeOK, BusTypeOK, panelVars
<1>2. CASE Load(a)
  <2>1. cmd[a] \in Commands
    BY <1>2, FollowingType DEF Load, GoOn, StageInv, Idle
  <2>2. Commands \cap {"none"} = {}
    BY DEF Commands, Sleeping, WithData
  <2>3. Moves
    BY <1>2, <2>1, <2>2, GoOnType DEF Load, Stages
  <2>4. Lines /\ Panel
    BY <1>2, <2>1 DEF Load, SetDC, Disturb
  <2>5. QED
    BY <2>3, <2>4
<1>3. CASE Send(a) \/ SendData(a)
  <2>1. Moves
    BY <1>3, GoOnType DEF Send, SendData, Transfer, Stages
  <2>2. Lines /\ Panel
    BY <1>3 DEF Send, SendData, Transfer
  <2>3. QED
    BY <2>1, <2>2
<1>4. CASE High(a)
  <2>1. Moves
    BY <1>4, GoOnType DEF High, Stages
  <2>2. Lines /\ Panel
    BY <1>4 DEF High, SetDC, Disturb
  <2>3. QED
    BY <2>1, <2>2
<1>5. CASE Sent(a)
  <2>1. PICK ok \in BOOLEAN :
          /\ IF ok /\ steady /\ dc = 0 THEN TakesCommand ELSE Confused
          /\ IF cmd[a] \in WithData THEN GoOn(a, "sending", "high", ok)
                                    ELSE EndCommand(a, "sending", ok)
    BY <1>5 DEF Sent
  <2>2. at[a] = "sending" /\ UNCHANGED buf /\ Lines
    BY <1>5, <2>1 DEF Sent, EndTransfer, GoOn, EndCommand
  <2>3. buf # "none"
    BY <2>2 DEF StageInv
  <2>4. Panel
    BY <2>1, <2>3, PanelType
  <2>5. Moves
    BY <2>1, <2>2, GoOnType, EndType DEF Stages, StageInv, Idle
  <2>6. QED
    BY <2>2, <2>4, <2>5
<1>6. CASE Streamed(a)
  <2>1. PICK ok \in BOOLEAN :
          /\ IF ok /\ steady /\ dc = 1 /\ cur = cmd[a] THEN TakesData(a) ELSE Confused
          /\ IF cmd[a] = "ram" THEN GoOn(a, "streaming", "end", ok)
                               ELSE EndCommand(a, "streaming", ok)
    BY <1>6 DEF Streamed
  <2>2. at[a] = "streaming" /\ UNCHANGED buf /\ Lines
    BY <1>6, <2>1 DEF Streamed, EndTransfer, GoOn, EndCommand
  <2>3. Panel
    BY <2>1, <2>2, PanelType
  <2>4. Moves
    BY <2>1, <2>2, GoOnType, EndType DEF Stages, StageInv, Idle
  <2>5. QED
    BY <2>2, <2>3, <2>4
<1>7. CASE End(a)
  <2>1. Moves
    BY <1>7, EndType DEF End, Stages, StageInv, Idle
  <2>2. Lines /\ Panel
    BY <1>7 DEF End, SetDC, Disturb
  <2>3. QED
    BY <2>1, <2>2
<1>8. QED
  BY <1>2, <1>3, <1>4, <1>5, <1>6, <1>7 DEF BusStep

(* The beginning of an operation keeps the types of the actors. *)
LEMMA StartType ==
  ASSUME TypeInv, NEW a \in Actors, NEW o \in Operations \ {"idle"}, NEW c \in CommandsOf(o),
         NEW S \in SUBSET Bands, Start(a, o, c, S), UNCHANGED buf
  PROVE  /\ op' \in [Actors -> Operations] /\ cmd' \in [Actors -> Commands \cup {"none"}]
         /\ at' \in [Actors -> Stages] /\ alone' \in BOOLEAN
         /\ trusted' \in SUBSET (Bands \cup Registers)
         /\ StageInv'
<1>1. c \in Commands
  BY FollowingType
<1>2. QED
  BY <1>1 DEF TypeInv, TypeOK, BusTypeOK, StageInv, Start, Idle

(* The actors of the driver and their operations. *)
LEMMA Names ==
  /\ {"core", "work", "brightness", "blank"} \subseteq Actors
  /\ {"init", "show", "flush", "contrast", "blank"} \subseteq Operations \ {"idle"}
  /\ "lock" \in CommandsOf("init") /\ {"remap", "cols"} \subseteq CommandsOf("show")
  /\ "cols" \in CommandsOf("flush") /\ "contrast" \in CommandsOf("contrast")
  /\ {"sleepOn", "sleepOff"} \subseteq CommandsOf("blank")
  BY DEF Actors, Operations, CommandsOf, Sleeping

(* Sending the brightness keeps the types of the bus. *)
LEMMA SendType ==
  ASSUME TypeInv, NEW a \in Actors, SendBrightness(a), brightness' \in Levels
  PROVE  BusTypeOK' /\ StageInv'
<1>1. Start(a, "contrast", "contrast", {}) /\ UNCHANGED <<area, lineVars, panelVars>>
  BY DEF SendBrightness
<1>2. level' \in [Actors -> Levels]
  BY DEF SendBrightness, TypeInv, TypeOK, BusTypeOK
<1>3. UNCHANGED buf
  BY <1>1 DEF lineVars
<1>4. /\ op' \in [Actors -> Operations] /\ cmd' \in [Actors -> Commands \cup {"none"}]
      /\ at' \in [Actors -> Stages] /\ alone' \in BOOLEAN
      /\ trusted' \in SUBSET (Bands \cup Registers)
      /\ StageInv'
  BY <1>1, <1>3, StartType, Names
<1>5. QED
  BY <1>1, <1>2, <1>4 DEF TypeInv, TypeOK, BusTypeOK, lineVars, panelVars

(* So does any beginning that leaves lines and panel alone. *)
LEMMA StartBusType ==
  ASSUME TypeInv, NEW a \in Actors, NEW o \in Operations \ {"idle"}, NEW c \in CommandsOf(o),
         NEW S \in SUBSET Bands, Start(a, o, c, S), area' \in SUBSET Bands,
         UNCHANGED <<level, lineVars, panelVars>>
  PROVE  BusTypeOK' /\ StageInv'
<1>1. UNCHANGED buf
  BY DEF lineVars
<1>2. /\ op' \in [Actors -> Operations] /\ cmd' \in [Actors -> Commands \cup {"none"}]
      /\ at' \in [Actors -> Stages] /\ alone' \in BOOLEAN
      /\ trusted' \in SUBSET (Bands \cup Registers)
      /\ StageInv'
  BY <1>1, StartType
<1>3. QED
  BY <1>2 DEF TypeInv, TypeOK, BusTypeOK, lineVars, panelVars

(* So does doing nothing. *)
LEMMA BusIdleType == TypeInv /\ UNCHANGED busVars => BusTypeOK' /\ StageInv'
  BY DEF TypeInv, TypeOK, BusTypeOK, StageInv, Idle, busVars, actorVars, lineVars, panelVars

(* Every step keeps the types. *)
LEMMA TypeStep == LifeInv /\ TypeInv /\ [Next]_vars => TypeInv'
<1> SUFFICES ASSUME LifeInv, TypeInv, [Next]_vars PROVE TypeInv'
  OBVIOUS
<1> DEFINE Bus == BusTypeOK' /\ StageInv'
           Rest == /\ leaked' \in SUBSET Resources /\ board' \in Boards
                   /\ brightness' \in Levels /\ dark' \in BOOLEAN
<1>1. core' \in Phases /\ live' \in SUBSET Resources
  BY LifeStep DEF LifeInv, LiveInv
<1>2. InitialBrightness \in Levels
  BY LevelAssumption DEF InitialBrightness, InitContrast
<1>3. SUFFICES Bus /\ Rest
  BY <1>1 DEF TypeInv, TypeOK
<1>4. TypeOK /\ live \in SUBSET Resources
  BY DEF TypeInv, TypeOK
<1> USE <1>4 DEF coreVars, clientVars
<1>5. CASE Probe
  BY <1>5, BusIdleType DEF Probe, TypeOK
<1>6. CASE Alloc \/ Fill \/ Setup
  BY <1>6, BusIdleType DEF Alloc, Fill, Setup, Quit, TypeOK
<1>7. CASE Register
  <2>1. Rest
    BY <1>7 DEF Register, TypeOK
  <2>2. PICK ok \in BOOLEAN :
          /\ RequestGpios(ok)
          /\ \/ Start("core", "init", "lock", {}) /\ Confused
             \/ UNCHANGED <<op, cmd, at, panelVars, alone, trusted>>
    BY <1>7 DEF Register
  <2>3. UNCHANGED <<level, area, buf, bus, steady>>
    BY <1>7 DEF Register
  <2>4. dc' \in {0, 1}
    BY <2>2 DEF RequestGpios, TypeOK, BusTypeOK
  <2>5. CASE Start("core", "init", "lock", {}) /\ Confused
    <3>1. /\ op' \in [Actors -> Operations] /\ cmd' \in [Actors -> Commands \cup {"none"}]
          /\ at' \in [Actors -> Stages] /\ alone' \in BOOLEAN
          /\ trusted' \in SUBSET (Bands \cup Registers)
          /\ StageInv'
      BY <2>3, <2>5, StartType, Names
    <3>2. Bus
      BY <2>3, <2>4, <2>5, <3>1 DEF Confused, TypeOK, BusTypeOK
    <3>3. QED
      BY <2>1, <3>2
  <2>6. CASE UNCHANGED <<op, cmd, at, panelVars, alone, trusted>>
    BY <2>1, <2>3, <2>4, <2>6 DEF TypeInv, TypeOK, BusTypeOK, StageInv, Idle, panelVars
  <2>7. QED
    BY <2>2, <2>5, <2>6
<1>8. CASE Show
  <2>1. PICK c \in {"remap", "cols"} : Start("core", "show", c, Bands)
    BY <1>8 DEF Show
  <2>2. UNCHANGED <<level, area, lineVars, panelVars>>
    BY <1>8 DEF Show
  <2>3. area' \in SUBSET Bands
    BY <2>2 DEF TypeOK, BusTypeOK
  <2>4. Bus
    BY <2>1, <2>2, <2>3, StartBusType, Names
  <2>5. QED
    BY <1>8, <2>4 DEF Show, TypeOK
<1>9. CASE RegisterBacklight \/ RegisterFramebuffer \/ Bound \/ Remove \/ Unlit \/ Leave
  BY <1>9, <1>2, BusIdleType
  DEF RegisterBacklight, RegisterFramebuffer, Bound, Remove, Unlit, Leave, TypeOK
<1>10. CASE Light \/ Unlight
  <2>1. Rest /\ SendIfLit
    BY <1>10 DEF Light, Unlight, TypeOK
  <2>2. Bus
    BY <2>1, SendType, BusIdleType, Names DEF SendIfLit
  <2>3. QED
    BY <2>1, <2>2
<1>11. CASE Release
  <2>1. Rest
    BY <1>11, <1>2 DEF Release, Quit, Forget, TypeOK
  <2>2. \A a \in Actors : Idle(a)
    BY <1>11 DEF Release, LifeInv, ActorsInv, Actors, Alone, Sending, Idle
  <2>3. \A a \in Actors : at[a] = "load"
    BY <2>2 DEF TypeInv, StageInv
  <2>4. Forget
    BY <1>11 DEF Release
  <2>5. Bus
    BY <2>2, <2>3, <2>4 DEF Forget, Confused, TypeInv, TypeOK, BusTypeOK, StageInv, Idle, actorVars
  <2>6. QED
    BY <2>1, <2>5
<1>12. ASSUME NEW a \in Actors, BusStep(a), UNCHANGED <<coreVars, clientVars>> PROVE Bus /\ Rest
  BY <1>12, BusStepType DEF TypeInv, TypeOK
<1>13. ASSUME NEW b \in Levels, SetBrightness(b) PROVE Bus /\ Rest
  BY <1>13, SendType, Names DEF SetBrightness, TypeOK
<1>14. ASSUME NEW b \in BOOLEAN, Blank(b) PROVE Bus /\ Rest
  <2>1. PICK c \in {"sleepOn", "sleepOff"} : Start("blank", "blank", c, {})
    BY <1>14 DEF Blank
  <2>2. UNCHANGED <<level, area, lineVars, panelVars>>
    BY <1>14 DEF Blank
  <2>3. area' \in SUBSET Bands
    BY <2>2 DEF TypeOK, BusTypeOK
  <2>4. Bus
    BY <2>1, <2>2, <2>3, StartBusType, Names
  <2>5. QED
    BY <1>14, <2>4 DEF Blank, TypeOK
<1>15. CASE Flush
  <2>1. PICK S \in SUBSET Bands : area' = S /\ Start("work", "flush", "cols", S)
    BY <1>15 DEF Flush
  <2>2. UNCHANGED <<level, lineVars, panelVars>>
    BY <1>15 DEF Flush
  <2>3. Bus
    BY <2>1, <2>2, StartBusType, Names
  <2>4. QED
    BY <1>15, <2>3 DEF Flush, TypeOK
<1>16. CASE UNCHANGED vars
  BY <1>16, BusIdleType DEF vars, TypeOK
<1>17. QED
  BY <1>5, <1>6, <1>7, <1>8, <1>9, <1>10, <1>11, <1>12, <1>13, <1>14, <1>15, <1>16 DEF Next, Core

(* Types, in every reachable state: in particular the panel never takes a
   byte from a buffer that nobody has filled.                               *)
THEOREM FbtftTypeCorrect == Spec => []TypeOK
<1>1. Init => TypeInv
  BY LevelAssumption
  DEF Init, BusInit, TypeInv, TypeOK, BusTypeOK, StageInv, Idle, Actors, Operations, Stages, CommandsOf,
      Phases, Registers
<1>2. TypeInv => TypeOK
  BY DEF TypeInv
<1>3. QED
  BY <1>1, <1>2, FbtftLife, TypeStep, PTL DEF Spec

-----------------------------------------------------------------------------
(***************************************************************************)
(* What the panel shows.                                                   *)
(***************************************************************************)
(* How far an operation that meets no other and no failure has come. *)
InOrder(a) ==
  /\ at[a] \in {"send", "sending"} => buf = cmd[a] /\ dc = 0
  /\ at[a] \in {"sending", "streaming"} => steady
  /\ at[a] \in {"high", "data", "streaming"} => cur = cmd[a] /\ cmd[a] \in WithData
  /\ at[a] \in {"data", "streaming"} => dc = 1
  /\ at[a] = "end" => cmd[a] = "ram" /\ Area(a) \subseteq right
  /\ op[a] \in {"show", "flush"} /\ cmd[a] \in {"rows", "ram"} => cols
  /\ op[a] \in {"show", "flush"} /\ cmd[a] = "ram" => rows = Area(a)
  /\ op[a] = "init" => core = "init"
  /\ op[a] = "init" /\ cmd[a] \in {"cols", "rows", "power", "contrast", "mode"} => asleep = "yes"
  /\ op[a] = "init" /\ cmd[a] = "mode" => contrast = InitContrast
  /\ op[a] = "contrast" => level[a] = brightness
  /\ op[a] = "blank" => cmd[a] = IF dark THEN "sleepOn" ELSE "sleepOff"

OneAtATime ==
  /\ trusted # {} => alone
  /\ alone => \A a, b \in Actors : ~Idle(a) /\ ~Idle(b) => a = b
  /\ alone => \A a \in Actors : ~Idle(a) => InOrder(a)

(* What nobody may change behind the back of an operation. *)
Reserved ==
  /\ \A a \in Actors : op[a] # "contrast" => level[a] = InitContrast
  /\ \A a \in Actors : ~Idle(a) => trusted \cap Touches(op[a], Area(a)) = {}
  /\ core \in Alone \cup {"announce"} => dark = TRUE
  /\ core \in {"init", "show"} /\ "contrast" \in trusted => contrast = InitContrast

PanelInv == OneAtATime /\ Reserved /\ PanelFollows

(* What going on or ending means for who is busy and what is trusted. *)
LEMMA BusFrame ==
  ASSUME TypeInv, PanelInv, NEW a \in Actors, BusStep(a), UNCHANGED <<coreVars, clientVars>>
  PROVE  /\ ~Idle(a) /\ (op'[a] = op[a] \/ op'[a] = "idle")
         /\ \A x \in Actors \ {a} : op'[x] = op[x] /\ cmd'[x] = cmd[x] /\ at'[x] = at[x] /\ level'[x] = level[x]
         /\ level'[a] = IF op'[a] = "idle" THEN InitContrast ELSE level[a]
         /\ \A x \in Actors : op'[x] # "idle" => Area(x)' = Area(x)
         /\ alone' => alone
         /\ \/ trusted' = {}
            \/ trusted' = trusted /\ alone'
            \/ op'[a] = "idle" /\ alone' /\ trusted' = trusted \cup Settles(op[a], Area(a))
<1> USE DEF TypeInv, TypeOK, BusTypeOK, PanelInv, OneAtATime, Idle, Area
<1>1. ASSUME NEW here \in Stages, NEW there \in Stages, NEW ok \in BOOLEAN, GoOn(a, here, there, ok)
      PROVE  /\ ~Idle(a) /\ UNCHANGED <<op, cmd, level, area>>
             /\ at' = [at EXCEPT ![a] = there]
             /\ alone' => alone
             /\ trusted' = {} \/ (trusted' = trusted /\ alone')
  BY <1>1 DEF GoOn
<1>2. ASSUME NEW here \in Stages, NEW ok \in BOOLEAN, EndCommand(a, here, ok)
      PROVE  /\ ~Idle(a) /\ (op' = op \/ op' = [op EXCEPT ![a] = "idle"])
             /\ \A x \in Actors \ {a} : op'[x] = op[x] /\ cmd'[x] = cmd[x] /\ at'[x] = at[x] /\ level'[x] = level[x]
             /\ level'[a] = IF op'[a] = "idle" THEN InitContrast ELSE level[a]
             /\ area' = area \/ (a = "work" /\ op'[a] = "idle")
             /\ alone' => alone
             /\ \/ trusted' = {}
                \/ trusted' = trusted /\ alone'
                \/ op'[a] = "idle" /\ alone' /\ trusted' = trusted \cup Settles(op[a], Area(a))
  <2>1. CASE Following(op[a], cmd[a]) = "none"
    <3>1. op' = [op EXCEPT ![a] = "idle"] /\ level' = [level EXCEPT ![a] = InitContrast]
      BY <1>2, <2>1 DEF EndCommand
    <3>2. /\ \A x \in Actors \ {a} : op'[x] = op[x] /\ cmd'[x] = cmd[x] /\ at'[x] = at[x] /\ level'[x] = level[x]
          /\ op'[a] = "idle" /\ level'[a] = InitContrast
      BY <1>2, <3>1 DEF EndCommand
    <3>3. trusted' = {} \/ (trusted' = trusted \cup Settles(op[a], Area(a)) /\ alone')
      <4>1. trusted' = IF ~ok THEN {}
                       ELSE IF alone THEN trusted \cup Settles(op[a], Area(a))
                       ELSE trusted
        BY <1>2, <2>1 DEF EndCommand
      <4>2. alone' = (alone /\ ok)
        BY <1>2 DEF EndCommand
      <4>3. CASE ok /\ alone
        BY <4>1, <4>2, <4>3
      <4>4. CASE ~alone
        BY <4>1, <4>4
      <4>5. CASE ~ok
        BY <4>1, <4>5
      <4>6. QED
        BY <4>3, <4>4, <4>5
    <3>4. QED
      BY <1>2, <3>1, <3>2, <3>3 DEF EndCommand
  <2>2. CASE Following(op[a], cmd[a]) # "none"
    <3>1. UNCHANGED <<op, level, area>> /\ op[a] # "idle"
      BY <1>2, <2>2 DEF EndCommand
    <3>2. trusted' = {} \/ (trusted' = trusted /\ alone')
      BY <1>2, <2>2 DEF EndCommand
    <3>3. QED
      BY <1>2, <3>1, <3>2 DEF EndCommand
  <2>3. QED
    BY <2>1, <2>2
<1>3. CASE Load(a) \/ Send(a) \/ High(a) \/ SendData(a)
  BY <1>3, <1>1 DEF Load, Send, High, SendData, Transfer, Stages
<1>4. CASE Sent(a)
  BY <1>4, <1>1, <1>2 DEF Sent, Stages
<1>5. CASE Streamed(a)
  BY <1>5, <1>1, <1>2 DEF Streamed, Stages
<1>6. CASE End(a)
  BY <1>6, <1>2 DEF End, Stages
<1>7. QED
  BY <1>3, <1>4, <1>5, <1>6 DEF BusStep

(* A step on the bus after which its operation is still alone found the panel
   as the operation left it, and leaves it so.                              *)
LEMMA BusInOrder ==
  ASSUME LifeInv, TypeInv, PanelInv, NEW a \in Actors, BusStep(a), UNCHANGED <<coreVars, clientVars>>,
         alone', op'[a] # "idle"
  PROVE  InOrder(a)'
<1>1. alone /\ ~Idle(a) /\ op'[a] = op[a] /\ Area(a)' = Area(a) /\ level'[a] = level[a]
  BY BusFrame
<1>2. InOrder(a)
  BY <1>1 DEF PanelInv, OneAtATime
<1>3. cmd[a] \in CommandsOf(op[a])
  BY DEF TypeInv, StageInv
<1>4. op[a] \in {"init", "show", "flush", "contrast", "blank"}
  BY <1>1 DEF TypeInv, TypeOK, BusTypeOK, Operations, Idle
<1> USE <1>1, <1>2, <1>3, <1>4
    DEF TypeInv, TypeOK, BusTypeOK, InOrder, coreVars, clientVars, panelVars
<1>5. CASE Load(a)
  BY <1>5 DEF Load, GoOn, SetDC, Disturb
<1>6. CASE Send(a)
  BY <1>6 DEF Send, Transfer, GoOn
<1>7. CASE High(a)
  BY <1>7 DEF High, GoOn, SetDC, Disturb
<1>8. CASE SendData(a)
  BY <1>8 DEF SendData, Transfer, GoOn
<1>9. CASE Sent(a)
  <2>1. PICK ok \in BOOLEAN :
          /\ IF ok /\ steady /\ dc = 0 THEN TakesCommand ELSE Confused
          /\ IF cmd[a] \in WithData THEN GoOn(a, "sending", "high", ok)
                                    ELSE EndCommand(a, "sending", ok)
    BY <1>9 DEF Sent
  <2>2. ok /\ at[a] = "sending"
    BY <2>1 DEF GoOn, EndCommand
  <2>3. TakesCommand /\ buf = cmd[a]
    BY <2>1, <2>2
  <2>4. CASE cmd[a] \in WithData
    <3>1. GoOn(a, "sending", "high", ok)
      BY <2>1, <2>4
    <3>2. cmd[a] \notin Sleeping
      BY <2>4 DEF WithData, Sleeping
    <3>3. QED
      BY <2>3, <2>4, <3>1, <3>2 DEF GoOn, TakesCommand, Sleeping
  <2>5. CASE cmd[a] \notin WithData
    <3>1. EndCommand(a, "sending", ok)
      BY <2>1, <2>5
    <3>2. at'[a] = "load" /\ cmd'[a] = Following(op[a], cmd[a]) /\ cmd'[a] # "none"
      BY <3>1 DEF EndCommand, Idle
    <3>3. op[a] = "init" /\ cmd[a] = "sleepOn"
      BY <2>5, <3>2 DEF CommandsOf, WithData, Sleeping, Following
    <3>4. cmd'[a] = "cols"
      BY <3>2, <3>3 DEF Following
    <3>5. QED
      BY <2>3, <3>2, <3>3, <3>4 DEF TakesCommand
  <2>6. QED
    BY <2>4, <2>5
<1>10. CASE Streamed(a)
  <2>1. PICK ok \in BOOLEAN :
          /\ IF ok /\ steady /\ dc = 1 /\ cur = cmd[a] THEN TakesData(a) ELSE Confused
          /\ IF cmd[a] = "ram" THEN GoOn(a, "streaming", "end", ok)
                               ELSE EndCommand(a, "streaming", ok)
    BY <1>10 DEF Streamed
  <2>2. ok /\ at[a] = "streaming"
    BY <2>1 DEF GoOn, EndCommand
  <2>3. TakesData(a)
    BY <2>1, <2>2
  <2>4. CASE cmd[a] = "ram"
    <3>1. GoOn(a, "streaming", "end", ok) /\ op[a] \in {"show", "flush"}
      BY <2>1, <2>4 DEF CommandsOf, Sleeping
    <3>2. Area(a) \subseteq right' /\ UNCHANGED <<cols, rows>>
      BY <2>3, <2>4, <3>1 DEF TakesData
    <3>3. QED
      BY <2>3, <2>4, <3>1, <3>2 DEF GoOn, TakesData
  <2>5. CASE cmd[a] # "ram"
    <3>1. EndCommand(a, "streaming", ok)
      BY <2>1, <2>5
    <3>2. at'[a] = "load" /\ cmd'[a] = Following(op[a], cmd[a]) /\ cmd'[a] # "none"
      BY <3>1 DEF EndCommand, Idle
    <3>3. UNCHANGED asleep /\ brightness' = brightness /\ dark' = dark /\ core' = core
      BY <2>3 DEF TakesData
    <3>4. CASE op[a] = "init"
      <4>1. cmd[a] \in {"lock", "cols", "rows", "power", "contrast"}
        BY <2>2, <3>4 DEF CommandsOf, WithData
      <4>2. level[a] = InitContrast
        BY <3>4 DEF PanelInv, Reserved
      <4>3. cmd'[a] \in {"sleepOn", "rows", "power", "contrast", "mode"}
        BY <3>2, <3>4, <4>1 DEF Following
      <4>4. cmd'[a] = "mode" => cmd[a] = "contrast"
        BY <3>2, <3>4, <4>1 DEF Following
      <4>5. cmd[a] = "lock" => cmd'[a] = "sleepOn"
        BY <3>2, <3>4 DEF Following
      <4>6. QED
        BY <2>3, <3>2, <3>3, <3>4, <4>1, <4>2, <4>3, <4>4, <4>5 DEF TakesData
    <3>5. CASE op[a] \in {"show", "flush"}
      <4>1. cmd[a] \in {"remap", "cols", "rows"}
        BY <2>5, <3>5 DEF CommandsOf
      <4>2. /\ cmd[a] = "remap" => cmd'[a] = "cols"
            /\ cmd[a] = "cols" => cmd'[a] = "rows"
            /\ cmd[a] = "rows" => cmd'[a] = "ram"
        BY <3>2, <3>5 DEF Following
      <4>3. QED
        BY <2>3, <3>2, <3>3, <3>5, <4>1, <4>2 DEF TakesData
    <3>6. CASE op[a] \in {"contrast", "blank"}
      BY <3>2, <3>6 DEF CommandsOf, Sleeping, Following
    <3>7. QED
      BY <3>4, <3>5, <3>6
  <2>6. QED
    BY <2>4, <2>5
<1>11. CASE End(a)
  BY <1>11 DEF End, EndCommand, Following, Idle
<1>12. QED
  BY <1>5, <1>6, <1>7, <1>8, <1>9, <1>10, <1>11 DEF BusStep

(* An operation that stays alone changes nothing of the panel but what it
   touches.                                                                 *)
LEMMA BusTouches ==
  ASSUME LifeInv, TypeInv, PanelInv, NEW a \in Actors, BusStep(a), UNCHANGED <<coreVars, clientVars>>,
         alone'
  PROVE  /\ "contrast" \notin Touches(op[a], Area(a)) => contrast' = contrast
         /\ "sleep" \notin Touches(op[a], Area(a)) => asleep' = asleep
         /\ right \subseteq right'
<1>1. alone /\ ~Idle(a) /\ InOrder(a)
  BY BusFrame DEF PanelInv, OneAtATime
<1>2. cmd[a] \in CommandsOf(op[a])
  BY DEF TypeInv, StageInv
<1>3. op[a] \in {"init", "show", "flush", "contrast", "blank"}
  BY <1>1 DEF TypeInv, TypeOK, BusTypeOK, Operations, Idle
<1>4. /\ cmd[a] = "contrast" => op[a] \in {"init", "contrast"}
      /\ cmd[a] \in Sleeping => op[a] \in {"init", "blank"}
      /\ cmd[a] = "ram" => op[a] \in {"show", "flush"}
  BY <1>2, <1>3 DEF CommandsOf, Sleeping
<1>5. /\ op[a] \in {"init", "contrast"} => "contrast" \in Touches(op[a], Area(a))
      /\ op[a] \in {"init", "blank"} => "sleep" \in Touches(op[a], Area(a))
  BY DEF Touches, Settles, Registers
<1> USE <1>1, <1>4, <1>5
<1>6. CASE Load(a) \/ Send(a) \/ High(a) \/ SendData(a) \/ End(a)
  BY <1>6 DEF Load, Send, High, SendData, Transfer, End, SetDC, panelVars
<1>7. CASE Sent(a)
  <2>1. PICK ok \in BOOLEAN :
          /\ IF ok /\ steady /\ dc = 0 THEN TakesCommand ELSE Confused
          /\ IF cmd[a] \in WithData THEN GoOn(a, "sending", "high", ok)
                                    ELSE EndCommand(a, "sending", ok)
    BY <1>7 DEF Sent
  <2>2. ok /\ at[a] = "sending"
    BY <2>1 DEF GoOn, EndCommand
  <2>3. TakesCommand /\ buf = cmd[a]
    BY <2>1, <2>2 DEF InOrder
  <2>4. QED
    BY <2>3 DEF TakesCommand, Sleeping
<1>8. CASE Streamed(a)
  <2>1. PICK ok \in BOOLEAN :
          /\ IF ok /\ steady /\ dc = 1 /\ cur = cmd[a] THEN TakesData(a) ELSE Confused
          /\ IF cmd[a] = "ram" THEN GoOn(a, "streaming", "end", ok)
                               ELSE EndCommand(a, "streaming", ok)
    BY <1>8 DEF Streamed
  <2>2. ok /\ at[a] = "streaming"
    BY <2>1 DEF GoOn, EndCommand
  <2>3. TakesData(a)
    BY <2>1, <2>2 DEF InOrder
  <2>4. QED
    BY <2>3 DEF TakesData, InOrder
<1>9. QED
  BY <1>6, <1>7, <1>8 DEF BusStep

(* The last step of an operation that was alone to its end leaves right what
   the operation is for.                                                    *)
LEMMA BusSettles ==
  ASSUME LifeInv, TypeInv, PanelInv, NEW a \in Actors, BusStep(a), UNCHANGED <<coreVars, clientVars>>,
         alone', op'[a] = "idle"
  PROVE  /\ "contrast" \in Settles(op[a], Area(a)) =>
              contrast' = IF op[a] = "init" THEN InitContrast ELSE brightness
         /\ "sleep" \in Settles(op[a], Area(a)) => asleep' = IF dark THEN "yes" ELSE "no"
         /\ \A b \in Bands \cap Settles(op[a], Area(a)) : b \in right'
         /\ op[a] = "init" => core = "init"
<1>1. alone /\ ~Idle(a) /\ InOrder(a)
  BY BusFrame DEF PanelInv, OneAtATime
<1>2. cmd[a] \in CommandsOf(op[a])
  BY DEF TypeInv, StageInv
<1>3. op[a] \in {"init", "show", "flush", "contrast", "blank"} /\ op[a] # "idle"
  BY <1>1 DEF TypeInv, TypeOK, BusTypeOK, Operations, Idle
<1>4. /\ op[a] = "init" => core = "init" /\ dark = TRUE
  BY <1>1 DEF InOrder, PanelInv, Reserved, Alone
<1>5. /\ op[a] = "init" => Settles(op[a], Area(a)) = Registers
      /\ op[a] \in {"show", "flush"} => Settles(op[a], Area(a)) = Area(a) /\ Area(a) \subseteq Bands
      /\ op[a] = "contrast" => Settles(op[a], Area(a)) = {"contrast"}
      /\ op[a] = "blank" => Settles(op[a], Area(a)) = {"sleep"}
  BY DEF Settles, Area, TypeInv, TypeOK, BusTypeOK
<1>6. Bands \cap {"contrast", "sleep"} = {}
  BY BandAssumption DEF Registers
<1> USE <1>1, <1>3, <1>4, <1>5, <1>6 DEF Registers
<1>7. CASE Load(a) \/ Send(a) \/ High(a) \/ SendData(a)
  BY <1>7 DEF Load, Send, High, SendData, Transfer, GoOn
<1>8. CASE Sent(a)
  <2>1. PICK ok \in BOOLEAN :
          /\ IF ok /\ steady /\ dc = 0 THEN TakesCommand ELSE Confused
          /\ IF cmd[a] \in WithData THEN GoOn(a, "sending", "high", ok)
                                    ELSE EndCommand(a, "sending", ok)
    BY <1>8 DEF Sent
  <2>2. ok /\ at[a] = "sending"
    BY <2>1 DEF GoOn, EndCommand
  <2>3. TakesCommand /\ buf = cmd[a]
    BY <2>1, <2>2 DEF InOrder
  <2>4. cmd[a] \notin WithData /\ EndCommand(a, "sending", ok)
    BY <2>1 DEF GoOn
  <2>5. Following(op[a], cmd[a]) = "none"
    BY <2>4 DEF EndCommand
  <2>6. (op[a] = "init" /\ cmd[a] = "mode") \/ (op[a] = "blank" /\ cmd[a] \in Sleeping)
    BY <1>2, <2>4, <2>5 DEF CommandsOf, WithData, Sleeping, Following
  <2>7. CASE op[a] = "init" /\ cmd[a] = "mode"
    <3>1. asleep = "yes" /\ contrast = InitContrast
      BY <2>7 DEF InOrder
    <3>2. QED
      BY <2>3, <2>7, <3>1 DEF TakesCommand
  <2>8. CASE op[a] = "blank" /\ cmd[a] \in Sleeping
    <3>1. cmd[a] = IF dark THEN "sleepOn" ELSE "sleepOff"
      BY <2>8 DEF InOrder
    <3>2. QED
      BY <2>3, <2>8, <3>1 DEF TakesCommand
  <2>9. QED
    BY <2>6, <2>7, <2>8
<1>9. CASE Streamed(a)
  <2>1. PICK ok \in BOOLEAN :
          /\ IF ok /\ steady /\ dc = 1 /\ cur = cmd[a] THEN TakesData(a) ELSE Confused
          /\ IF cmd[a] = "ram" THEN GoOn(a, "streaming", "end", ok)
                               ELSE EndCommand(a, "streaming", ok)
    BY <1>9 DEF Streamed
  <2>2. ok /\ at[a] = "streaming"
    BY <2>1 DEF GoOn, EndCommand
  <2>3. TakesData(a) /\ cmd[a] \in WithData
    BY <2>1, <2>2 DEF InOrder
  <2>4. cmd[a] # "ram" /\ EndCommand(a, "streaming", ok)
    BY <2>1 DEF GoOn
  <2>5. Following(op[a], cmd[a]) = "none"
    BY <2>4 DEF EndCommand
  <2>6. cmd[a] = "contrast" /\ op[a] # "init"
    BY <2>3, <2>4, <2>5 DEF WithData, Following
  <2>7. op[a] = "contrast"
    BY <1>2, <2>6 DEF CommandsOf, Sleeping
  <2>8. level[a] = brightness
    BY <2>7 DEF InOrder
  <2>9. QED
    BY <2>3, <2>6, <2>7, <2>8 DEF TakesData
<1>10. CASE End(a)
  <2>1. at[a] = "end" /\ UNCHANGED panelVars
    BY <1>10 DEF End, EndCommand, SetDC
  <2>2. cmd[a] = "ram" /\ Area(a) \subseteq right
    BY <2>1 DEF InOrder
  <2>3. op[a] \in {"show", "flush"}
    BY <1>2, <2>2 DEF CommandsOf, Sleeping
  <2>4. QED
    BY <2>1, <2>2, <2>3 DEF panelVars
<1>11. QED
  BY <1>7, <1>8, <1>9, <1>10 DEF BusStep

(* A step on the bus keeps the invariant. *)
LEMMA PanelBusStep ==
  ASSUME LifeInv, TypeInv, PanelInv, NEW a \in Actors, BusStep(a), UNCHANGED <<coreVars, clientVars>>
  PROVE  PanelInv'
<1>1. UNCHANGED <<core, live, brightness, dark>>
  BY DEF coreVars, clientVars
<1>2. /\ ~Idle(a) /\ (op'[a] = op[a] \/ op'[a] = "idle")
      /\ \A x \in Actors \ {a} : op'[x] = op[x] /\ cmd'[x] = cmd[x] /\ at'[x] = at[x] /\ level'[x] = level[x]
      /\ level'[a] = IF op'[a] = "idle" THEN InitContrast ELSE level[a]
      /\ \A x \in Actors : op'[x] # "idle" => Area(x)' = Area(x)
      /\ alone' => alone
  BY BusFrame
<1>3. \/ trusted' = {}
      \/ trusted' = trusted /\ alone'
      \/ op'[a] = "idle" /\ alone' /\ trusted' = trusted \cup Settles(op[a], Area(a))
  BY BusFrame
<1>4. alone => \A x \in Actors \ {a} : op[x] = "idle"
  BY <1>2 DEF PanelInv, OneAtATime, Idle
<1>5. OneAtATime'
  <2>1. alone' => \A x \in Actors \ {a} : op'[x] = "idle"
    BY <1>2, <1>4
  <2>2. trusted' # {} => alone'
    BY <1>3
  <2>3. alone' /\ op'[a] # "idle" => InOrder(a)'
    BY BusInOrder
  <2>4. QED
    BY <2>1, <2>2, <2>3 DEF OneAtATime, Idle
<1>6. trusted \cap Touches(op[a], Area(a)) = {}
  BY <1>2 DEF PanelInv, Reserved
<1>7. /\ "contrast" \in trusted' => IF "contrast" \in trusted
                                  THEN contrast' = contrast
                                  ELSE contrast' = IF op[a] = "init" THEN InitContrast ELSE brightness
      /\ "sleep" \in trusted' => IF "sleep" \in trusted
                               THEN asleep' = asleep
                               ELSE asleep' = IF dark THEN "yes" ELSE "no"
      /\ \A b \in Bands : b \in trusted' => b \in right' \/ (b \in trusted /\ right \subseteq right')
  <2>1. CASE trusted' = {}
    BY <2>1
  <2>2. CASE trusted' = trusted /\ alone'
    BY <1>6, <2>2, BusTouches
  <2>3. CASE op'[a] = "idle" /\ alone' /\ trusted' = trusted \cup Settles(op[a], Area(a))
    BY <1>6, <2>3, BusTouches, BusSettles
  <2>4. QED
    BY <1>3, <2>1, <2>2, <2>3
<1>8. "contrast" \in trusted' /\ "contrast" \notin trusted /\ op[a] = "init" => core = "init"
  BY <1>3, BusSettles
<1>9. Reserved'
  <2>1. \A x \in Actors : op'[x] # "contrast" => level'[x] = InitContrast
    BY <1>2 DEF PanelInv, Reserved
  <2>2. \A x \in Actors : op'[x] # "idle" => (trusted \cap Touches(op[x], Area(x)) = {} /\ op'[x] = op[x] /\ Area(x)' = Area(x))
    BY <1>2 DEF PanelInv, Reserved, Idle
  <2>3. \A x \in Actors : op'[x] # "idle" => trusted' \cap Touches(op'[x], Area(x)') = {}
    <3>1. CASE trusted' = {}
      BY <3>1
    <3>2. CASE trusted' = trusted
      BY <2>2, <3>2
    <3>3. CASE op'[a] = "idle" /\ alone'
      BY <1>2, <1>4, <3>3
    <3>4. QED
      BY <1>3, <3>1, <3>2, <3>3
  <2>4. core \in {"init", "show"} /\ "contrast" \in trusted' => contrast' = InitContrast
    <3>1. core \in {"init", "show"} /\ op[a] = "contrast" => FALSE
      <4>1. SUFFICES ASSUME core \in {"init", "show"}, op[a] = "contrast" PROVE FALSE
        OBVIOUS
      <4>2. a # "brightness" /\ a # "blank" /\ a # "work"
        BY <4>1 DEF LifeInv, LiveInv, ActorsInv, Alone
      <4>3. a = "core"
        BY <4>2 DEF Actors
      <4>4. QED
        BY <4>1, <4>3 DEF LifeInv, ActorsInv
    <3>2. "contrast" \in trusted' /\ "contrast" \notin trusted => op[a] \in {"init", "contrast"}
      <4>1. "contrast" \notin Bands /\ Area(a) \subseteq Bands
        BY BandAssumption DEF Registers, Area, TypeInv, TypeOK, BusTypeOK
      <4>2. "contrast" \in Settles(op[a], Area(a)) => op[a] \in {"init", "contrast"}
        BY <4>1 DEF Settles
      <4>3. QED
        BY <1>3, <4>2
    <3>3. QED
      BY <1>7, <1>8, <3>1, <3>2 DEF PanelInv, Reserved
  <2>5. core \in Alone \cup {"announce"} => dark = TRUE
    BY DEF PanelInv, Reserved
  <2>6. QED
    BY <1>1, <2>1, <2>3, <2>4, <2>5 DEF Reserved, Idle
<1>10. PanelFollows'
  <2>1. "contrast" \in trusted' /\ "backlight" \in live => contrast' = brightness
    <3>1. core = "init" => "backlight" \notin live
      BY DEF LifeInv, LiveInv, Alone
    <3>2. QED
      BY <1>7, <1>8, <3>1 DEF PanelInv, PanelFollows
  <2>2. "sleep" \in trusted' => asleep' = IF dark THEN "yes" ELSE "no"
    BY <1>7 DEF PanelInv, PanelFollows
  <2>3. \A b \in Bands : b \in trusted' => b \in right'
    BY <1>7 DEF PanelInv, PanelFollows
  <2>4. QED
    BY <1>1, <2>1, <2>2, <2>3 DEF PanelFollows
<1>11. QED
  BY <1>5, <1>9, <1>10 DEF PanelInv

(* The beginning of an operation that has the panel to itself, or has not. *)
LEMMA PanelStart ==
  ASSUME LifeInv, TypeInv, PanelInv,
         NEW a \in Actors, NEW o \in Operations \ {"idle"}, NEW c, NEW S \in SUBSET Bands,
         Start(a, o, c, S), UNCHANGED <<lineVars, panelVars>>, level' \in [Actors -> Levels],
         \A x \in Actors \ {a} : level'[x] = level[x] /\ Area(x)' = Area(x),
         level'[a] = IF o = "contrast" THEN brightness' ELSE level[a],
         o \in {"show", "flush"} => Area(a)' = S /\ c \in {"remap", "cols"},
         o # "init",
         o = "blank" => c = IF dark' THEN "sleepOn" ELSE "sleepOff"
  PROVE  /\ OneAtATime'
         /\ \A x \in Actors : op'[x] # "contrast" => level'[x] = InitContrast
         /\ \A x \in Actors : op'[x] # "idle" => trusted' \cap Touches(op[x], Area(x))' = {}
         /\ trusted' \subseteq trusted /\ trusted' \cap Touches(o, S) = {}
<1> USE DEF Idle
<1>1. /\ op[a] = "idle" /\ op' = [op EXCEPT ![a] = o] /\ cmd' = [cmd EXCEPT ![a] = c] /\ at' = at
      /\ alone' = (\A b \in Actors : op[b] = "idle")
      /\ trusted' = IF alone' THEN trusted \ Touches(o, S) ELSE {}
  BY DEF Start
<1>2. op \in [Actors -> Operations] /\ cmd \in [Actors -> Commands \cup {"none"}]
  BY DEF TypeInv, TypeOK, BusTypeOK
<1>3. op'[a] = o /\ cmd'[a] = c /\ at'[a] = "load" /\ \A x \in Actors \ {a} : op'[x] = op[x]
  BY <1>1, <1>2 DEF TypeInv, StageInv
<1>4. alone' => \A x \in Actors \ {a} : op'[x] = "idle"
  BY <1>1, <1>3
<1>5. InOrder(a)'
  BY <1>3 DEF InOrder, PanelInv, Reserved
<1>6. OneAtATime'
  BY <1>1, <1>4, <1>5 DEF OneAtATime
<1>7. \A x \in Actors : op'[x] # "contrast" => level'[x] = InitContrast
  BY <1>1, <1>3 DEF PanelInv, Reserved
<1>8. trusted' \subseteq trusted /\ trusted' \cap Touches(o, S) = {}
  BY <1>1
<1>9. trusted' \cap Touches(op'[a], Area(a)') = {}
  BY <1>3, <1>8 DEF Touches, Settles
<1>10. \A x \in Actors : op'[x] # "idle" => trusted' \cap Touches(op'[x], Area(x)') = {}
  BY <1>1, <1>4, <1>9
<1>11. QED
  BY <1>6, <1>7, <1>8, <1>10
(* Nothing of the invariant is lost when core goes on without a transfer. *)
LEMMA PanelQuiet ==
  ASSUME LifeInv, PanelInv, core # "init", core' \notin {"init", "show"},
         core' \in Alone \cup {"announce"} => core \in Alone \cup {"announce"},
         UNCHANGED <<actorVars, buf, bus, steady, panelVars, alone, trusted, dark>>,
         dc' = dc \/ core = "register",
         core = "show" => Idle("core") /\ brightness' = InitContrast,
         core # "show" => brightness' = brightness /\ ("backlight" \in live' => "backlight" \in live)
  PROVE  PanelInv'
<1> USE DEF actorVars, panelVars, Idle
<1>1. core \in {"show", "register"} => \A a \in Actors : op[a] = "idle"
  BY DEF LifeInv, LiveInv, ActorsInv, Alone, Sending, Actors
<1>2. ASSUME NEW a \in Actors, InOrder(a), op[a] # "idle" PROVE InOrder(a)'
  <2>1. dc' = dc /\ brightness' = brightness /\ Area(a)' = Area(a)
    BY <1>1, <1>2 DEF Area
  <2>2. QED
    BY <1>2, <2>1 DEF InOrder
<1>3. OneAtATime'
  BY <1>2 DEF PanelInv, OneAtATime
<1>4. Reserved'
  <2>1. \A a \in Actors : Area(a)' = Area(a)
    BY DEF Area
  <2>2. QED
    BY <2>1 DEF PanelInv, Reserved
<1>5. PanelFollows'
  BY DEF PanelInv, Reserved, PanelFollows
<1>6. QED
  BY <1>3, <1>4, <1>5 DEF PanelInv

(* Nor when the brightness is sent. *)
LEMMA PanelSend ==
  ASSUME LifeInv, TypeInv, PanelInv, NEW a \in Actors, SendBrightness(a), brightness' \in Levels,
         core' \notin Alone \cup {"announce"} \/ (core' = core /\ core \notin {"init", "show"}), dark' = dark
  PROVE  PanelInv'
<1>1. Start(a, "contrast", "contrast", {}) /\ UNCHANGED <<area, lineVars, panelVars>>
  BY DEF SendBrightness
<1>2. level \in [Actors -> Levels] /\ level' = [level EXCEPT ![a] = brightness']
  BY DEF SendBrightness, TypeInv, TypeOK, BusTypeOK
<1>3. /\ level' \in [Actors -> Levels] /\ level'[a] = brightness'
      /\ \A x \in Actors \ {a} : level'[x] = level[x] /\ Area(x)' = Area(x)
  BY <1>1, <1>2 DEF Area
<1>4. /\ OneAtATime'
      /\ \A x \in Actors : op'[x] # "contrast" => level'[x] = InitContrast
      /\ \A x \in Actors : op'[x] # "idle" => trusted' \cap Touches(op[x], Area(x))' = {}
      /\ trusted' \subseteq trusted /\ trusted' \cap Touches("contrast", {}) = {}
  BY <1>1, <1>3, PanelStart, Names
<1>5. "contrast" \notin trusted'
  BY <1>4 DEF Touches, Settles
<1>6. Reserved'
  BY <1>4, <1>5 DEF Reserved, PanelInv, Idle
<1>7. PanelFollows'
  BY <1>1, <1>4, <1>5 DEF PanelFollows, PanelInv, panelVars
<1>8. QED
  BY <1>4, <1>6, <1>7 DEF PanelInv

LEMMA PanelStep == LifeInv /\ TypeInv /\ PanelInv /\ [Next]_vars => PanelInv'
<1> SUFFICES ASSUME LifeInv, TypeInv, PanelInv, [Next]_vars PROVE PanelInv'
  OBVIOUS
<1>1. CASE Probe \/ Alloc \/ Fill \/ Setup
  BY <1>1, PanelQuiet
  DEF Probe, Alloc, Fill, Setup, Quit, Alone, busVars, lineVars, clientVars
<1>2. CASE RegisterBacklight
  BY <1>2, PanelQuiet DEF RegisterBacklight, InitialBrightness, InitContrast, Alone, busVars, lineVars
<1>3. CASE RegisterFramebuffer \/ Bound \/ Remove \/ Unlit \/ Leave
  BY <1>3, PanelQuiet
  DEF RegisterFramebuffer, Bound, Remove, Unlit, Leave, Alone, busVars, lineVars, clientVars
<1>4. CASE Light \/ Unlight
  <2>1. core' \in {"on", "unlit"} /\ core \in {"light", "unlight"} /\ UNCHANGED <<live, clientVars>> /\ SendIfLit
    BY <1>4 DEF Light, Unlight
  <2>2. core' \notin Alone \cup {"announce"} /\ core \notin {"init", "show", "register"}
    BY <2>1 DEF Alone
  <2>3. CASE SendBrightness("core")
    BY <2>1, <2>2, <2>3, PanelSend, Names DEF clientVars, TypeInv, TypeOK
  <2>4. CASE UNCHANGED busVars
    BY <2>1, <2>2, <2>4, PanelQuiet DEF clientVars, busVars, lineVars
  <2>5. QED
    BY <2>1, <2>3, <2>4 DEF SendIfLit
<1>5. CASE Register
  <2>1. core = "register" /\ UNCHANGED <<level, area, buf, bus, steady, clientVars>>
    BY <1>5 DEF Register
  <2>2. CASE core' = "unlight" /\ UNCHANGED <<op, cmd, at, panelVars, alone, trusted>>
    BY <2>1, <2>2, <1>5, PanelQuiet DEF Register, Alone, actorVars, clientVars
  <2>3. CASE core' = "init" /\ Start("core", "init", "lock", {}) /\ Confused
    <3>1. \A a \in Actors : op[a] = "idle"
      BY <2>1 DEF LifeInv, LiveInv, ActorsInv, Alone, Sending, Actors
    <3>2. /\ op' = [op EXCEPT !["core"] = "init"] /\ cmd' = [cmd EXCEPT !["core"] = "lock"] /\ at' = at
          /\ alone' /\ trusted' = trusted \ Touches("init", {})
      BY <2>3, <3>1 DEF Start
    <3>3. op \in [Actors -> Operations] /\ cmd \in [Actors -> Commands \cup {"none"}]
          /\ "core" \in Actors /\ trusted \subseteq Bands \cup Registers
      BY Names DEF TypeInv, TypeOK, BusTypeOK
    <3>4. trusted' = {}
      BY <3>2, <3>3 DEF Touches
    <3>5. op'["core"] = "init" /\ cmd'["core"] = "lock" /\ at'["core"] = "load"
          /\ \A x \in Actors \ {"core"} : op'[x] = "idle"
      BY <3>1, <3>2, <3>3 DEF TypeInv, StageInv, Idle
    <3>6. InOrder("core")'
      BY <2>3, <3>5 DEF InOrder
    <3>7. OneAtATime'
      BY <3>2, <3>5, <3>6 DEF OneAtATime, Idle
    <3>8. Reserved'
      <4>1. dark = TRUE /\ dark' = dark
        BY <2>1 DEF PanelInv, Reserved, Alone, clientVars
      <4>2. \A a \in Actors : level'[a] = InitContrast
        BY <2>1, <3>1 DEF PanelInv, Reserved
      <4>3. QED
        BY <3>4, <4>1, <4>2 DEF Reserved
    <3>9. PanelFollows'
      BY <3>4 DEF PanelFollows
    <3>10. QED
      BY <3>7, <3>8, <3>9 DEF PanelInv
  <2>4. QED
    BY <1>5, <2>2, <2>3 DEF Register
<1>6. CASE Show
  <2>1. PICK c \in {"remap", "cols"} : Start("core", "show", c, Bands)
    BY <1>6 DEF Show
  <2>2. core = "init" /\ core' = "show" /\ UNCHANGED <<level, area, lineVars, panelVars, live, clientVars>>
    BY <1>6 DEF Show
  <2>3. level \in [Actors -> Levels]
    BY DEF TypeInv, TypeOK, BusTypeOK
  <2>4. /\ Area("core")' = Bands /\ Bands \in SUBSET Bands
        /\ \A x \in Actors : Area(x)' = Area(x)
    BY <2>2 DEF Area
  <2>5. /\ OneAtATime'
        /\ \A x \in Actors : op'[x] # "contrast" => level'[x] = InitContrast
        /\ \A x \in Actors : op'[x] # "idle" => trusted' \cap Touches(op[x], Area(x))' = {}
        /\ trusted' \subseteq trusted
    BY <2>1, <2>2, <2>3, <2>4, PanelStart, Names
  <2>6. Reserved'
    BY <2>2, <2>5 DEF Reserved, PanelInv, panelVars, clientVars, Idle, Alone
  <2>7. PanelFollows'
    BY <2>2, <2>5 DEF PanelFollows, PanelInv, panelVars, clientVars
  <2>8. QED
    BY <2>5, <2>6, <2>7 DEF PanelInv
<1>7. CASE Release
  <2>1. core = "release" /\ core' = "out" /\ Forget /\ op["blank"] = "idle" /\ op["work"] = "idle"
    BY <1>7 DEF Release, Quit, Idle
  <2>2. \A a \in Actors : op[a] = "idle"
    BY <2>1 DEF LifeInv, ActorsInv, Sending, Actors
  <2>3. /\ UNCHANGED <<op, level, area>> /\ alone' = FALSE /\ trusted' = {} /\ dark' = TRUE
    BY <2>1 DEF Forget, actorVars
  <2>4. Reserved'
    BY <2>1, <2>2, <2>3 DEF Reserved, PanelInv, Idle
  <2>5. QED
    BY <2>3, <2>4 DEF PanelInv, OneAtATime, PanelFollows
<1>8. ASSUME NEW a \in Actors, BusStep(a), UNCHANGED <<coreVars, clientVars>> PROVE PanelInv'
  BY <1>8, PanelBusStep
<1>9. ASSUME NEW b \in Levels, SetBrightness(b) PROVE PanelInv'
  <2>1. core \notin {"init", "show"}
    BY <1>9 DEF SetBrightness, LifeInv, LiveInv, Alone
  <2>2. QED
    BY <1>9, <2>1, PanelSend, Names DEF SetBrightness, coreVars
<1>10. ASSUME NEW b \in BOOLEAN, Blank(b) PROVE PanelInv'
  <2>1. core \notin Alone \cup {"announce"}
    BY <1>10 DEF Blank, LifeInv, LiveInv
  <2>2. /\ Start("blank", "blank", IF b THEN "sleepOn" ELSE "sleepOff", {}) /\ dark' = b
        /\ UNCHANGED <<level, area, lineVars, panelVars, core, live, brightness>>
    BY <1>10 DEF Blank, coreVars
  <2>3. level \in [Actors -> Levels] /\ \A x \in Actors : Area(x)' = Area(x)
    BY <2>2 DEF TypeInv, TypeOK, BusTypeOK, Area
  <2>4. /\ OneAtATime'
        /\ \A x \in Actors : op'[x] # "contrast" => level'[x] = InitContrast
        /\ \A x \in Actors : op'[x] # "idle" => trusted' \cap Touches(op[x], Area(x))' = {}
        /\ trusted' \subseteq trusted /\ trusted' \cap Touches("blank", {}) = {}
    BY <2>2, <2>3, PanelStart, Names
  <2>5. "sleep" \notin trusted'
    BY <2>4 DEF Touches, Settles
  <2>6. Reserved'
    BY <2>1, <2>2, <2>4 DEF Reserved, PanelInv, Idle, Alone
  <2>7. PanelFollows'
    BY <2>2, <2>4, <2>5 DEF PanelFollows, PanelInv, panelVars
  <2>8. QED
    BY <2>4, <2>6, <2>7 DEF PanelInv
<1>11. CASE Flush
  <2>1. PICK S \in SUBSET Bands : area' = S /\ Start("work", "flush", "cols", S)
    BY <1>11 DEF Flush
  <2>2. UNCHANGED <<level, lineVars, panelVars, core, live, brightness, dark>>
    BY <1>11 DEF Flush, coreVars, clientVars
  <2>3. /\ level \in [Actors -> Levels] /\ Area("work")' = S
        /\ \A x \in Actors \ {"work"} : Area(x)' = Area(x)
    BY <2>1, <2>2 DEF TypeInv, TypeOK, BusTypeOK, Area
  <2>4. /\ OneAtATime'
        /\ \A x \in Actors : op'[x] # "contrast" => level'[x] = InitContrast
        /\ \A x \in Actors : op'[x] # "idle" => trusted' \cap Touches(op[x], Area(x))' = {}
        /\ trusted' \subseteq trusted
    BY <2>1, <2>2, <2>3, PanelStart, Names
  <2>5. Reserved'
    BY <2>2, <2>4 DEF Reserved, PanelInv, panelVars, Idle
  <2>6. PanelFollows'
    BY <2>2, <2>4 DEF PanelFollows, PanelInv, panelVars
  <2>7. QED
    BY <2>4, <2>5, <2>6 DEF PanelInv
<1>12. CASE UNCHANGED vars
  <2>1. \A a \in Actors : InOrder(a)' = InOrder(a) /\ Area(a)' = Area(a)
    BY <1>12 DEF vars, busVars, actorVars, lineVars, panelVars, coreVars, clientVars, InOrder, Area
  <2>2. QED
    BY <1>12, <2>1 DEF vars, busVars, actorVars, lineVars, panelVars, coreVars, clientVars,
                       PanelInv, OneAtATime, Reserved, PanelFollows, Idle
<1>13. QED
  BY <1>1, <1>2, <1>3, <1>4, <1>5, <1>6, <1>7, <1>8, <1>9, <1>10, <1>11, <1>12 DEF Next, Core

(* PanelFollows: what an operation that was alone has put right stays right
   until another touches it, whatever interleavings and failed transfers came
   before.                                                                  *)
THEOREM FbtftPanelFollows == Spec => []PanelFollows
<1>1. Init => PanelInv
  BY DEF Init, BusInit, PanelInv, OneAtATime, Reserved, PanelFollows, Idle, Alone
<1>2. PanelInv => PanelFollows
  BY DEF PanelInv
<1>3. Init => TypeInv
  BY LevelAssumption
  DEF Init, BusInit, TypeInv, TypeOK, BusTypeOK, StageInv, Idle, Actors, Operations, Stages, CommandsOf,
      Phases, Registers
<1>4. QED
  BY <1>1, <1>2, <1>3, FbtftLife, TypeStep, PanelStep, PTL DEF Spec
=============================================================================
