------------------------------ MODULE FbDeferred ------------------------------
(***************************************************************************)
(* Deferred updates of the frame buffer, fbtft-core.c: clients write into  *)
(* the memory, mark the lines they touched and schedule a delayed work;    *)
(* the work takes the marks, copies those lines and sends them to the      *)
(* panel.  Clients that map the memory mark nothing: the kernel lists the  *)
(* pages they fault on and hands the list to the work.                     *)
(*                                                                         *)
(* The pixels are left out.  A line is "stale" while the panel will not    *)
(* show what the memory holds.                                             *)
(***************************************************************************)
EXTENDS Integers

CONSTANTS
  Yres,         \* lines of the display
  LineLength,   \* bytes of a line
  PageSize,     \* bytes of a page
  UintMax,      \* the largest "unsigned"
  Drawers,      \* processes that draw: fillrect, copyarea, imageblit
  Writers,      \* processes that call fbtft_fb_write
  Heights       \* heights of the areas drawn: a bound

ASSUME SizeAssumption ==
  /\ Yres \in Nat \ {0} /\ LineLength \in Nat \ {0} /\ PageSize \in Nat \ {0}
ASSUME HeightAssumption == Heights \subseteq Nat
ASSUME UintAssumption ==
  UintMax \in Nat /\ Yres < UintMax /\ \A h \in Heights : Yres + h < UintMax
ASSUME ClientAssumption == Drawers \cap Writers = {}

Lines == 0..(Yres - 1)
Clients == Drawers \cup Writers

(* Pages the memory lies on, and the lines a page has bytes of. *)
Pages == {p \in 0..(Yres * LineLength) : p * PageSize < Yres * LineLength}
LinesOf(p) ==
  {y \in Lines : /\ y * LineLength < (p + 1) * PageSize
                 /\ p * PageSize < (y + 1) * LineLength}

VARIABLES
  stale,      \* the lines the panel lags on
  lost,       \* those of them no promise is made for: see Lose
  start, end, \* par->dirty_lines_start and par->dirty_lines_end
  queued,     \* is info->deferred_work pending
  work,       \* where the work is
  from, to,   \* lines being sent
  next,       \* the next line to copy
  pc, area,   \* where each client is, and the area it writes
  listed,     \* the pages on the list of the deferred io
  writable    \* those that can be written without a fault

lineVars   == <<stale, lost>>
markVars   == <<start, end>>
workVars   == <<work, from, to, next>>
clientVars == <<pc, area>>
pageVars   == <<listed, writable>>
vars == <<lineVars, markVars, queued, workVars, clientVars, pageVars>>

Areas == Lines \X Heights
WholeScreen == <<-1, 0>>      \* what fbtft_fb_write passes to fbtft_mkdirty

TypeOK ==
  /\ stale \in SUBSET Lines
  /\ lost \in SUBSET stale
  /\ start \in Lines
  /\ end \in 0..UintMax
  /\ queued \in BOOLEAN
  /\ work \in {"idle", "started", "flush"}
  /\ from \in Lines /\ to \in Lines /\ next \in 0..Yres
  /\ pc \in [Clients -> {"idle", "store", "mark", "schedule"}]
  /\ area \in [Clients -> Areas \cup {WholeScreen}]
  /\ listed \in SUBSET Pages
  /\ writable \in SUBSET listed

(* fbtft_register_framebuffer has shown the whole memory; the marks are what
   the allocation left them.                                               *)
Init ==
  /\ stale = {} /\ lost = {}
  /\ start = 0 /\ end = 0
  /\ queued = FALSE
  /\ work = "idle" /\ from = 0 /\ to = 0 /\ next = 0
  /\ pc = [c \in Clients |-> "idle"]
  /\ area = [c \in Clients |-> WholeScreen]
  /\ listed = {} /\ writable = {}

-----------------------------------------------------------------------------
(***************************************************************************)
(* Clients.  A drawing operation clips to the screen what it stores, not   *)
(* what it marks; fb_sys_write stores anywhere.                            *)
(***************************************************************************)
AreaLines(a) ==
  IF a = WholeScreen THEN Lines ELSE {y \in Lines : a[1] <= y /\ y < a[1] + a[2]}

Move(c, here, there) == pc[c] = here /\ pc' = [pc EXCEPT ![c] = there]

Begin(c) ==
  /\ Move(c, "idle", "store")
  /\ \/ c \in Drawers /\ \E a \in Areas : area' = [area EXCEPT ![c] = a]
     \/ c \in Writers /\ UNCHANGED area
  /\ UNCHANGED <<lineVars, markVars, queued, workVars, pageVars>>

(* A line is lost while the last that was done to it was to be sent in
   vain, or to be stored by fbtft_fb_write as the last line of the display,
   which that function fails to mark (see UpdatesAll).                     *)
Draw(y) == stale' = stale \cup {y} /\ lost' = lost \ {y}
Lose(ys) == stale' = stale \cup ys /\ lost' = lost \cup ys

Store(c) ==
  /\ pc[c] = "store"
  /\ \E y \in AreaLines(area[c]) :
       IF c \in Writers /\ y = Yres - 1 THEN Lose({y}) ELSE Draw(y)
  /\ UNCHANGED <<markVars, queued, workVars, clientVars, pageVars>>

Stored(c) ==
  /\ Move(c, "store", "mark")
  /\ UNCHANGED <<lineVars, markVars, queued, workVars, area, pageVars>>

(* The definitions whose names end in _<Slip> are mutated forms of the one
   that follows them: slips the properties below are there to catch.

   The comparisons of fbtft_mkdirty are unsigned.                          *)
Unsigned(n) == IF n < 0 THEN n + UintMax + 1 ELSE n

MarkedArea(a) == IF a[1] = -1 THEN <<0, Yres - 1>> ELSE a

(* fbtft_mkdirty, under dirty_lock. *)
Mark(c) ==
  LET a == MarkedArea(area[c])
      last == Unsigned(a[1] + a[2] - 1)
  IN  /\ Move(c, "mark", "schedule")
      /\ start' = IF a[1] < start THEN a[1] ELSE start
      /\ end' = IF last > end THEN last ELSE end
      /\ area' = [area EXCEPT ![c] = WholeScreen]
      /\ UNCHANGED <<lineVars, queued, workVars, pageVars>>

Schedule_OnlyWhenIdle(c) ==
  /\ Move(c, "schedule", "idle")
  /\ queued' = (queued \/ work = "idle")
  /\ UNCHANGED <<lineVars, markVars, workVars, area, pageVars>>

(* ... and schedule_delayed_work. *)
Schedule(c) ==
  /\ Move(c, "schedule", "idle")
  /\ queued' = TRUE
  /\ UNCHANGED <<lineVars, markVars, workVars, area, pageVars>>

(* A first write to a mapped page since the last flush: the page is listed
   and the work scheduled, under a mutex the work holds while it runs.     *)
Fault(p) ==
  /\ p \notin listed
  /\ work # "flush"
  /\ listed' = listed \cup {p}
  /\ writable' = writable \cup {p}
  /\ queued' = TRUE
  /\ UNCHANGED <<lineVars, markVars, workVars, clientVars>>

StoreMapped(p) ==
  /\ p \in writable
  /\ \E y \in LinesOf(p) : Draw(y)
  /\ UNCHANGED <<markVars, queued, workVars, clientVars, pageVars>>

-----------------------------------------------------------------------------
(***************************************************************************)
(* The work: fbtft_deferred_io, fbtft_update_display and write_vmem.       *)
(***************************************************************************)
StartWork ==
  /\ queued /\ work = "idle"
  /\ queued' = FALSE
  /\ work' = "started"
  /\ UNCHANGED <<lineVars, markVars, from, to, next, clientVars, pageVars>>

(* y_low and y_high of a page. *)
PageLow(p) == (p * PageSize) \div LineLength
PageHigh_FirstByte(p) == PageLow(p)
PageHigh(p) ==
  LET y == (p * PageSize + PageSize - 1) \div LineLength
  IN  IF y > Yres - 1 THEN Yres - 1 ELSE y

(* The range the work finds, marks and pages together. *)
Least(x, S) == x \in S /\ \A z \in S : x <= z
Greatest(x, S) == x \in S /\ \A z \in S : z <= x
DirtyRange(lo, hi) ==
  /\ Least(lo, {start} \cup {PageLow(p) : p \in listed})
  /\ Greatest(hi, {end} \cup {PageHigh(p) : p \in listed})

(* The sanity checks of fbtft_update_display. *)
Sane_LowOnly(lo, hi) == lo <= hi /\ lo <= Yres - 1
Sane(lo, hi) == lo <= hi /\ lo <= Yres - 1 /\ hi <= Yres - 1

(* Mapped pages are write-protected and the marks taken and cleared, before
   the first line is copied.                                               *)
TakeDirty ==
  /\ work = "started"
  /\ \E lo, hi \in 0..UintMax :
       /\ DirtyRange(lo, hi)
       /\ from' = IF Sane(lo, hi) THEN lo ELSE 0
       /\ to' = IF Sane(lo, hi) THEN hi ELSE Yres - 1
  /\ start' = Yres - 1 /\ end' = 0
  /\ next' = from'
  /\ writable' = {}
  /\ work' = "flush"
  /\ UNCHANGED <<lineVars, queued, clientVars, listed>>

CopyLine ==
  /\ work = "flush" /\ next <= to
  /\ stale' = stale \ {next} /\ lost' = lost \ {next}
  /\ next' = next + 1
  /\ UNCHANGED <<markVars, queued, work, from, to, clientVars, pageVars>>

SendLines_MarksCleared ==
  /\ work = "flush" /\ next > to
  /\ start' = Yres - 1 /\ end' = 0
  /\ work' = "idle" /\ from' = 0 /\ to' = 0 /\ next' = 0
  /\ listed' = {}
  /\ UNCHANGED <<lineVars, queued, clientVars, writable>>

(* A transfer that fails is reported to the log and to nobody else. *)
SendLines ==
  /\ work = "flush" /\ next > to
  /\ Lose({}) \/ Lose((from..to) \ stale)
  /\ work' = "idle" /\ from' = 0 /\ to' = 0 /\ next' = 0
  /\ listed' = {}
  /\ UNCHANGED <<markVars, queued, clientVars, writable>>

-----------------------------------------------------------------------------
Client(c) == Begin(c) \/ Store(c) \/ Stored(c) \/ Mark(c) \/ Schedule(c)
Work == StartWork \/ TakeDirty \/ CopyLine \/ SendLines

Next ==
  \/ \E c \in Clients : Client(c)
  \/ \E p \in Pages : Fault(p) \/ StoreMapped(p)
  \/ Work

(* The work runs; who is in the driver leaves it.  Nobody has to draw. *)
Fairness ==
  /\ WF_vars(Work)
  /\ \A c \in Clients : WF_vars(Stored(c)) /\ WF_vars(Mark(c) \/ Schedule(c))

Spec == Init /\ [][Next]_vars /\ Fairness

-----------------------------------------------------------------------------
(* The lines Mark is going to mark. *)
ToMark(a) == IF a = WholeScreen THEN 0..(Yres - 2) ELSE AreaLines(a)

(* A flush will reach the line: it is marked, on a listed page, about to be
   marked by the client that stores it, or not copied yet.                 *)
Reached(y) ==
  \/ start <= y /\ y <= end
  \/ work # "flush" /\ \E p \in listed : y \in LinesOf(p)
  \/ \E c \in Clients : pc[c] \in {"store", "mark"} /\ y \in ToMark(area[c])
  \/ work = "flush" /\ next <= y /\ y <= to

(* No line is forgotten: whatever clients, page faults and the work do to
   the marks at the same time, a stale line is never left out of them all. *)
NoLostLine == \A y \in stale \ lost : Reached(y)

(* ... and for a line that has its marks the work is pending, or running
   and not past it, or about to be scheduled by a client.                  *)
FlushComing ==
  \A y \in stale \ lost :
    \/ queued \/ work = "started"
    \/ work = "flush" /\ next <= y /\ y <= to
    \/ \E c \in Clients : pc[c] # "idle"

(* The promise: every stale line is shown in the end, however often it is
   drawn again, unless it is lost.                                         *)
S == INSTANCE Screen WITH stale <- stale \ lost
ShowsMemory == S!Spec

(* What fbtft_fb_write says of itself: it marks all lines. *)
UpdatesAll ==
  [][\A c \in Writers :
       pc[c] = "mark" /\ pc'[c] = "schedule" => Lines \subseteq start'..end']_vars
=============================================================================
