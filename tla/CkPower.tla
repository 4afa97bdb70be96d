------------------------------ MODULE CkPower -------------------------------
(***************************************************************************)
(* cloudkey-power.c: three GPIO lines tell whether the board has external  *)
(* power.  An edge on a line raises an interrupt, which schedules a        *)
(* delayed work, which has the power supply core tell user space, which    *)
(* reads the property, line by line.  Around it the life of the driver:    *)
(* probe with its failures, remove, and the release of what devm holds.    *)
(***************************************************************************)
EXTENDS Naturals, Sequences

Lines == {"poe", "usb", "qc"}
Order == <<"poe", "usb", "qc">>     \* in which probe requests the interrupts

VARIABLES
  wired,      \* lines the board has: qc is optional
  level,      \* what each line reads
  life,       \* where probe or remove is
  step,       \* lines whose interrupt probe has asked for
  requested,  \* lines whose interrupt is requested
  raised,     \* lines whose interrupt waits for its handler
  timer,      \* is the delayed work waiting for its 50 ms
  work,       \* is the work queued, is it running
  changed,    \* the core's changed_work is queued
  uevent,     \* user space has a notification to read
  reader,     \* the line ck_powersource_is_online reads next
  reported,   \* what user space read last
  unseen,     \* history: an edge without an interrupt since that read began
  late,       \* history: the work was scheduled with nobody left to cancel it
  fault       \* history: the work, or its timer, met a driver that was gone

probeVars == <<life, step, requested>>
workVars == <<timer, work>>
readVars == <<uevent, reader, reported>>
vars == <<wired, level, life, step, requested, raised, timer, work,
          changed, uevent, reader, reported, unseen, late, fault>>

Lives == {"absent", "requesting", "bound", "unwinding", "cancelled",
          "unregistered", "quiet", "freed"}

TypeOK ==
  /\ wired \in {Lines, Lines \ {"qc"}}
  /\ level \in [Lines -> BOOLEAN]
  /\ life \in Lives
  /\ step \in 0 .. Len(Order)
  /\ requested \subseteq wired
  /\ raised \subseteq requested
  /\ timer \in BOOLEAN
  /\ work \subseteq {"queued", "running"}
  /\ changed \in BOOLEAN
  /\ uevent \in BOOLEAN
  /\ reader \in {"idle", "usb", "qc"}
  /\ reported \in BOOLEAN
  /\ unseen \in BOOLEAN
  /\ late \in BOOLEAN
  /\ fault \in BOOLEAN

Init ==
  /\ wired \in {Lines, Lines \ {"qc"}}
  /\ level \in [Lines -> BOOLEAN]
  /\ life = "absent" /\ step = 0
  /\ requested = {} /\ raised = {}
  /\ timer = FALSE /\ work = {}
  /\ changed = FALSE
  /\ uevent = FALSE /\ reader = "idle" /\ reported = FALSE
  /\ unseen = FALSE /\ late = FALSE /\ fault = FALSE

(* ck_powersource_is_online, were it to read all lines at once. *)
OnlineAt(lv) == lv["poe"] \/ (lv["usb"] /\ ("qc" \in wired => lv["qc"]))

(* The definitions whose names end in _<Slip> are mutated forms of the one
   that follows them: slips the properties below are there to catch.       *)
-----------------------------------------------------------------------------
(***************************************************************************)
(* The lines, the interrupt, the delayed work and the core behind it.      *)
(***************************************************************************)
Edge(l) ==
  /\ level' = [level EXCEPT ![l] = ~@]
  /\ IF l \in requested
     THEN raised' = raised \cup {l} /\ UNCHANGED unseen
     ELSE unseen' = TRUE /\ UNCHANGED raised
  /\ UNCHANGED <<wired, probeVars, workVars, changed, readVars, late, fault>>

(* schedule_delayed_work leaves a work alone that is waiting or queued. *)
Scheduled_IfIdle == timer \/ work = {}

Scheduled == timer \/ "queued" \notin work

Irq(l) ==
  /\ l \in raised
  /\ raised' = raised \ {l}
  /\ timer' = Scheduled
  /\ late' = (late \/ life \in {"unwinding", "cancelled", "unregistered"})
  /\ UNCHANGED <<wired, level, probeVars, work, changed, readVars, unseen, fault>>

TimerExpires ==
  /\ timer
  /\ timer' = FALSE
  /\ work' = work \cup {"queued"}
  /\ fault' = (fault \/ life = "freed")
  /\ UNCHANGED <<wired, level, probeVars, raised, changed, readVars, unseen, late>>

(* power_supply_changed on the supply, which has to be registered. *)
WorkRuns ==
  /\ work = {"queued"}
  /\ work' = {"running"}
  /\ changed' = TRUE
  /\ fault' = (fault \/ life \in {"unregistered", "quiet", "freed"})
  /\ UNCHANGED <<wired, level, probeVars, raised, timer, readVars, unseen, late>>

(* ck_powersource_log_regulators, and the return. *)
WorkEnds ==
  /\ "running" \in work
  /\ work' = work \ {"running"}
  /\ fault' = (fault \/ life = "freed")
  /\ UNCHANGED <<wired, level, probeVars, raised, timer, changed, readVars, unseen, late>>

Registered == life \in {"requesting", "bound", "unwinding", "cancelled"}

(* External: changed_work sends the event. *)
Notify ==
  /\ changed /\ Registered
  /\ changed' = FALSE
  /\ uevent' = TRUE
  /\ UNCHANGED <<wired, level, probeVars, raised, workVars, reader, reported,
                 unseen, late, fault>>

-----------------------------------------------------------------------------
(***************************************************************************)
(* User space gets an event and reads the property.                        *)
(***************************************************************************)
Reads(next) ==
  /\ reader' = next
  /\ UNCHANGED <<wired, level, probeVars, raised, workVars, changed, late, fault>>

Answered(online) == reported' = online /\ Reads("idle")

ReadPoe ==
  /\ Registered /\ uevent /\ reader = "idle"
  /\ uevent' = FALSE
  /\ unseen' = FALSE
  /\ IF level["poe"] THEN Answered(TRUE) ELSE Reads("usb") /\ UNCHANGED reported

ReadUsb ==
  /\ reader = "usb"
  /\ UNCHANGED <<uevent, unseen>>
  /\ \/ ~level["usb"] /\ Answered(FALSE)
     \/ level["usb"] /\ "qc" \notin wired /\ Answered(TRUE)
     \/ level["usb"] /\ "qc" \in wired /\ Reads("qc") /\ UNCHANGED reported

ReadQc ==
  /\ reader = "qc"
  /\ UNCHANGED <<uevent, unseen>>
  /\ Answered(level["qc"])

-----------------------------------------------------------------------------
(***************************************************************************)
(* Probe, remove, and the release of what devm holds.                      *)
(***************************************************************************)
Live(from, to) == life = from /\ life' = to

(* Everything up to the registration of the supply, which tells user space
   for the first time.  A failure before that leaves nothing behind.       *)
Register ==
  /\ Live("absent", "requesting")
  /\ changed' = TRUE
  /\ UNCHANGED <<wired, level, step, requested, raised, workVars, readVars, unseen, late, fault>>

(* ck_powersource_request_irq on the next line.  A line that is not there,
   or has no interrupt, is passed over.  The request gives 0 for a handler
   in interrupt context; for one in another interrupt's thread it gives 1
   (IRQC_IS_NESTED), which probe takes for a failure.                      *)
Request_NoNullCheck ==
  /\ step < Len(Order)
  /\ step' = step + 1
  /\ LET l == Order[step + 1] IN
     \/ /\ Live("requesting", "requesting")
        /\ requested' \in {requested, requested \cup {l}}
     \/ /\ l \in wired
        /\ Live("requesting", "unwinding")
        /\ requested' \in {requested, requested \cup {l}}
  /\ UNCHANGED <<wired, level, raised, workVars, changed, readVars, unseen, late, fault>>

Request ==
  /\ step < Len(Order)
  /\ step' = step + 1
  /\ LET l == Order[step + 1] IN
     \/ /\ l \in wired
        /\ Live("requesting", "requesting")
        /\ requested' = requested \cup {l}
     \/ /\ Live("requesting", "requesting")
        /\ UNCHANGED requested
     \/ /\ l \in wired
        /\ Live("requesting", "unwinding")
        /\ requested' \in {requested, requested \cup {l}}
  /\ UNCHANGED <<wired, level, raised, workVars, changed, readVars, unseen, late, fault>>

Bind ==
  /\ step = Len(Order)
  /\ Live("requesting", "bound")
  /\ UNCHANGED <<wired, level, step, requested, raised, workVars, changed, readVars,
                 unseen, late, fault>>

(* cancel_delayed_work_sync takes the timer and the queue, and waits. *)
Cancel_NoSync ==
  /\ Live("bound", "cancelled")
  /\ timer' = FALSE
  /\ work' = work \ {"queued"}
  /\ UNCHANGED <<wired, level, step, requested, raised, changed, readVars, unseen, late, fault>>

Cancel ==
  /\ "running" \notin work
  /\ Live("bound", "cancelled")
  /\ timer' = FALSE
  /\ work' = {}
  /\ UNCHANGED <<wired, level, step, requested, raised, changed, readVars, unseen, late, fault>>

(* power_supply_unregister, which waits for changed_work and for readers:
   after the cancellation in remove, without one in the failing probe.     *)
Unregister ==
  /\ reader = "idle"
  /\ \/ Live("cancelled", "unregistered") /\ UNCHANGED late
     \/ Live("unwinding", "unregistered") /\ late' = (late \/ timer \/ work # {})
  /\ changed' = FALSE
  /\ uevent' = FALSE
  /\ UNCHANGED <<wired, level, step, requested, raised, workVars, reader, reported,
                 unseen, fault>>

(* devm: the interrupts first, then the memory. *)
FreeIrqs ==
  /\ Live("unregistered", "quiet")
  /\ requested' = {}
  /\ raised' = {}
  /\ UNCHANGED <<wired, level, step, workVars, changed, readVars, unseen, late, fault>>

Free ==
  /\ Live("quiet", "freed")
  /\ UNCHANGED <<wired, level, step, requested, raised, workVars, changed, readVars,
                 unseen, late, fault>>

-----------------------------------------------------------------------------
Kernel ==
  \/ \E l \in Lines : Irq(l)
  \/ TimerExpires \/ WorkRuns \/ WorkEnds
  \/ Notify
  \/ ReadPoe \/ ReadUsb \/ ReadQc

Next ==
  \/ \E l \in wired : Edge(l)
  \/ Kernel
  \/ Register \/ Request \/ Bind
  \/ Cancel \/ Unregister \/ FreeIrqs \/ Free

(* Handlers, works and the listener in user space go on while they have
   something to do.                                                        *)
Spec == Init /\ [][Next]_vars /\ WF_vars(Kernel)

-----------------------------------------------------------------------------
Online == OnlineAt(level)

(* What makes user space read again. *)
Coming ==
  raised # {} \/ timer \/ "queued" \in work \/ changed \/ uevent

(* What user space knows is what the lines say, or it is reading, or is
   going to, however edges fall between the reads of the lines and while
   the work waits, is queued or runs: unless an edge came on a line before
   its interrupt was requested, or on one without an interrupt, and user
   space has not begun to read since.                                      *)
NewsOnItsWay ==
  life = "bound" /\ ~unseen /\ reported # Online => Coming \/ reader # "idle"

(* Once the lines have settled, user space knows what they say. *)
ReportsInTheEnd ==
  \A lv \in [Lines -> BOOLEAN] :
    <>[](life = "bound" /\ ~unseen /\ level = lv) => <>[](reported = OnlineAt(lv))

(* The delayed work does not outlive the supply, nor its timer the memory,
   unless it was scheduled behind the cancellation in remove, or before a
   probe that failed and cancels nothing.                                  *)
NoLateWork == fault => late
=============================================================================
