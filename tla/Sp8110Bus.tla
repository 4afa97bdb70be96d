------------------------------- MODULE Sp8110Bus -------------------------------
(***************************************************************************)
(* Register access of the sp8110 panel: fb_sp8110.c, the register write of *)
(* fbtft-bus.c and the transfer of fbtft-io.c.                             *)
(*                                                                         *)
(* A command is a byte in par->buf that is sent with the DC line low, and  *)
(* data sent with the line high.  Buffer, line and bus belong to whoever   *)
(* comes: the thread that probes and removes, the deferred work, a write   *)
(* to the brightness, a request to blank.  No lock keeps them apart.       *)
(*                                                                         *)
(* The panel is known as far as what it was sent leaves no doubt.  A byte  *)
(* that it may take for something else makes all of it unknown.            *)
(***************************************************************************)
EXTENDS Integers, FiniteSets

CONSTANTS
  Bands,    \* parts of the screen the work updates
  Levels,   \* values of the brightness that are written: a bound
  MaxBusy   \* operations in progress at a time: a bound

InitContrast == 10      \* sent by init_display
ASSUME LevelAssumption == Levels \subseteq 0..15 /\ InitContrast \in Levels

Actors == {"core", "work", "brightness", "blank"}

(* Commands.  "lock", "power" and "remap" stand for all those that only the
   initialisation sends and no property here is about; "cols" stands for the
   two of an address window whose data are always the same, columns and
   start line.                                                              *)
Sleeping == {"sleepOn", "sleepOff"}
WithData == {"lock", "cols", "rows", "power", "contrast", "remap", "ram"}
Commands == Sleeping \cup WithData \cup {"mode"}

Operations == {"idle", "init", "show", "flush", "contrast", "blank"}

(* The command that follows c in operation o; "none" behind the last one. *)
Following(o, c) ==
  CASE c = "lock"     -> "sleepOn"
    [] c = "sleepOn"  -> IF o = "init" THEN "cols" ELSE "none"
    [] c = "remap"    -> "cols"
    [] c = "cols"     -> "rows"
    [] c = "rows"     -> IF o = "init" THEN "power" ELSE "ram"
    [] c = "power"    -> "contrast"
    [] c = "contrast" -> IF o = "init" THEN "mode" ELSE "none"
    [] OTHER          -> "none"

VARIABLES
  op,        \* what each actor is doing
  cmd,       \* the command it is at
  at,        \* where it is in that command
  level,     \* the brightness it read
  area,      \* the bands the work updates
  buf, dc,   \* par->buf[0] and the DC line
  bus,       \* who has a transfer on the bus
  steady,    \* have buffer and line been left alone since it began
  cur,       \* the command the panel has taken
  cols, rows,   \* its window: are columns and start line as they should be, and the bands
  contrast,  \* its master contrast, -1 if unknown
  asleep,    \* is the display off
  right,     \* the bands that show what was sent
  alone,     \* has the operation in progress met no other, and no failure
  trusted    \* what is known since an operation that was alone

actorVars == <<op, cmd, at, level, area>>
lineVars  == <<buf, dc, bus, steady>>
panelVars == <<cur, cols, rows, contrast, asleep, right>>
busVars   == <<actorVars, lineVars, panelVars, alone, trusted>>

Stages == {"load", "send", "sending", "high", "data", "streaming", "end"}
Registers == {"contrast", "sleep"}
ASSUME BandAssumption == Bands \cap Registers = {}

BusTypeOK ==
  /\ op \in [Actors -> Operations]
  /\ cmd \in [Actors -> Commands \cup {"none"}]
  /\ at \in [Actors -> Stages]
  /\ level \in [Actors -> Levels]
  /\ area \in SUBSET Bands
  /\ buf \in Commands \cup {"none"} /\ dc \in {0, 1}
  /\ bus \in Actors \cup {"free"} /\ steady \in BOOLEAN
  /\ cur \in Commands \cup {"unknown"}
  /\ cols \in BOOLEAN /\ rows \in SUBSET Bands
  /\ contrast \in Levels \cup {-1}
  /\ asleep \in {"yes", "no", "unknown"}
  /\ right \in SUBSET Bands
  /\ alone \in BOOLEAN
  /\ trusted \in SUBSET (Bands \cup Registers)

(* A panel without power, a line as the request of the gpio leaves it. *)
BusInit ==
  /\ op = [a \in Actors |-> "idle"] /\ cmd = [a \in Actors |-> "none"]
  /\ at = [a \in Actors |-> "load"] /\ level = [a \in Actors |-> InitContrast]
  /\ area = {}
  /\ buf = "none" /\ dc = 1 /\ bus = "free" /\ steady = TRUE
  /\ cur = "unknown" /\ cols = FALSE /\ rows = {}
  /\ contrast = -1 /\ asleep = "unknown" /\ right = {}
  /\ alone = FALSE /\ trusted = {}

Idle(a) == op[a] = "idle"
Area(a) == IF a = "work" THEN area ELSE Bands

(* What an operation puts right when nothing comes between, and what it may
   change on the way.                                                       *)
Settles(o, bands) ==
  CASE o = "init"              -> Registers
    [] o \in {"show", "flush"} -> bands
    [] o = "contrast"          -> {"contrast"}
    [] OTHER                   -> {"sleep"}
Touches(o, bands) == IF o = "init" THEN Registers \cup Bands ELSE Settles(o, bands)

-----------------------------------------------------------------------------
(* The definitions whose names end in _<Slip> are mutated forms of the one
   that follows them: slips the properties are there to catch.             *)

(* Actor a, which is idle, begins operation o with command c. *)
Start(a, o, c, bands) ==
  LET onItsOwn == \A b \in Actors : op[b] = "idle"
  IN  /\ Idle(a) /\ Cardinality({b \in Actors : ~Idle(b)}) < MaxBusy
      /\ op' = [op EXCEPT ![a] = o]
      /\ cmd' = [cmd EXCEPT ![a] = c]
      /\ alone' = onItsOwn
      /\ trusted' = IF onItsOwn THEN trusted \ Touches(o, bands) ELSE {}
      /\ UNCHANGED at

(* Actor a, at stage "here" of its command, is through with it, or goes on
   to stage "there"; ok if no transfer failed.                              *)
GoOn(a, here, there, ok) ==
  /\ ~Idle(a) /\ at[a] = here
  /\ at' = [at EXCEPT ![a] = there]
  /\ alone' = (alone /\ ok)
  /\ trusted' = IF ok THEN trusted ELSE {}
  /\ UNCHANGED <<op, cmd, level, area>>

EndCommand(a, here, ok) ==
  LET c == Following(op[a], cmd[a])
      done == c = "none"
  IN  /\ ~Idle(a) /\ at[a] = here
      /\ at' = [at EXCEPT ![a] = "load"]
      /\ cmd' = [cmd EXCEPT ![a] = c]
      /\ op' = IF done THEN [op EXCEPT ![a] = "idle"] ELSE op
      /\ level' = IF done THEN [level EXCEPT ![a] = InitContrast] ELSE level
      /\ area' = IF done /\ a = "work" THEN {} ELSE area
      /\ alone' = (alone /\ ok)
      /\ trusted' = IF ~ok THEN {}
                    ELSE IF done /\ alone THEN trusted \cup Settles(op[a], Area(a))
                    ELSE trusted

(* fbtft_write_reg8_bus8: the byte goes into the buffer and the line goes
   low.  What another actor may do between the two it may do before or after
   them with the same effect ...                                            *)
SetDC(v) == dc' = v /\ UNCHANGED <<bus, panelVars>>
Disturb(v, b) ==
  steady' = (steady /\ v = dc /\ (b = buf \/ \E x \in Actors : at[x] = "streaming"))

Load_NotDriven(a) ==
  /\ GoOn(a, "load", "send", TRUE)
  /\ buf' = cmd[a] /\ SetDC(dc) /\ Disturb(dc, buf')

Load(a) ==
  /\ GoOn(a, "load", "send", TRUE)
  /\ buf' = cmd[a] /\ SetDC(0) /\ Disturb(0, buf')

(* ... and fbtft_write_spi waits for the bus and for the transfer. *)
Transfer(a, here, there) ==
  /\ bus = "free" /\ bus' = a
  /\ GoOn(a, here, there, TRUE)
  /\ steady' = TRUE
  /\ UNCHANGED <<buf, dc, panelVars>>

Send(a) == Transfer(a, "send", "sending")

(* The panel loses track. *)
Confused ==
  /\ cur' = "unknown" /\ cols' = FALSE /\ rows' = {}
  /\ contrast' = -1 /\ asleep' = "unknown" /\ right' = {}

TakesCommand ==
  /\ cur' = buf
  /\ asleep' = CASE buf = "sleepOn"  -> "yes"
                 [] buf = "sleepOff" -> "no"
                 [] OTHER            -> asleep
  /\ UNCHANGED <<cols, rows, contrast, right>>

EndTransfer == bus' = "free" /\ steady' = TRUE /\ UNCHANGED <<buf, dc>>

(* A command whose transfer fails is logged, and its data are sent all the
   same: fbtft_write_reg8_bus8 returns nothing.                             *)
Sent(a) ==
  /\ EndTransfer
  /\ \E ok \in BOOLEAN :
       /\ IF ok /\ steady /\ dc = 0 THEN TakesCommand ELSE Confused
       /\ IF cmd[a] \in WithData THEN GoOn(a, "sending", "high", ok)
                                ELSE EndCommand(a, "sending", ok)

(* local_write_buf_dc *)
High(a) ==
  /\ GoOn(a, "high", "data", TRUE)
  /\ SetDC(1) /\ Disturb(1, buf) /\ UNCHANGED buf

SendData(a) == Transfer(a, "data", "streaming")

(* set_addr_win sets the window, whose columns are others than those that
   init_display sends; write_vmem sends pixels; the byte of 0xC7 is the
   master contrast.                                                         *)
TakesData(a) ==
  LET c == cmd[a]
  IN  /\ cols' = IF c = "cols" THEN op[a] # "init" ELSE cols
      /\ rows' = IF c = "rows" THEN Area(a) ELSE rows
      /\ contrast' = IF c = "contrast" THEN level[a] ELSE contrast
      /\ right' = IF c # "ram" THEN right
                  ELSE IF cols /\ rows = Area(a) THEN right \cup Area(a)
                  ELSE {}
      /\ UNCHANGED <<cur, asleep>>

Streamed(a) ==
  /\ EndTransfer
  /\ \E ok \in BOOLEAN :
       /\ IF ok /\ steady /\ dc = 1 /\ cur = cmd[a] THEN TakesData(a) ELSE Confused
       /\ IF cmd[a] = "ram" THEN GoOn(a, "streaming", "end", ok)
                            ELSE EndCommand(a, "streaming", ok)

(* write_vmem leaves the line low. *)
End(a) ==
  /\ EndCommand(a, "end", TRUE)
  /\ SetDC(0) /\ Disturb(0, buf) /\ UNCHANGED buf

BusStep(a) ==
  \/ Load(a) \/ Send(a) \/ Sent(a)
  \/ High(a) \/ SendData(a) \/ Streamed(a) \/ End(a)
=============================================================================
