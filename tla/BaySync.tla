------------------------------ MODULE BaySync -------------------------------
(***************************************************************************)
(* Bay presence: the script ui-hdd-pwrctl-sync.sh, which copies what disks *)
(* are attached into the flags of ui_hdd_pwrctl_fake.c and has uhwd        *)
(* restarted, run at boot by a unit and on every plug or unplug by a udev  *)
(* rule (both written by 04-apply-drive-fixes.sh), against the events.     *)
(***************************************************************************)
EXTENDS Naturals, FiniteSets

CONSTANTS
  Disks,       \* disks that may be attached
  NumSlots,    \* num_slots of the module
  MaxEvents    \* hot-plug events after boot: a bound

ASSUME BaySyncAssumption ==
  /\ IsFiniteSet(Disks)
  /\ NumSlots \in 1 .. 8
  /\ MaxEvents \in Nat

Slots == 1 .. NumSlots

VARIABLES
  disks,     \* disks that are attached
  events,    \* events so far
  runs,      \* runs of the script that udev has started and that wait for the lock
  boot,      \* the run of the boot unit: "waiting", "running" or "done"
  present,   \* slot-<n>/present, a set of slots
  pc,        \* where the run that has the lock is
  todo,      \* the block devices it has still to look at
  usbDisks,  \* those it has found
  slot,      \* n
  changed,   \* changed
  unit,      \* the unit ui-hdd-pwrctl-sync-uhwd-restart
  uhwd,      \* the service uhwd
  hasRead,   \* has its process read the flags
  seen,      \* and what it saw
  dropped,   \* history: a run was refused after the holder had looked
  missed     \* history: a run ended with uhwd stale, and could not have it restarted

envVars == <<disks, events>>
runVars == <<todo, usbDisks, slot, changed>>
uhwdVars == <<unit, uhwd, hasRead, seen>>
vars == <<disks, events, runs, boot, present, pc, todo, usbDisks, slot, changed,
          unit, uhwd, hasRead, seen, dropped, missed>>

(* The module is loaded with every slot present; udev replays an event for
   each disk that is attached at boot.                                     *)
Init ==
  /\ disks \in SUBSET Disks
  /\ events = 0
  /\ runs = Cardinality(disks)
  /\ boot = "waiting"
  /\ present = Slots
  /\ pc = "free"
  /\ todo = {} /\ usbDisks = {} /\ slot = 1 /\ changed = FALSE
  /\ unit = "none"
  /\ uhwd = "off" /\ hasRead = FALSE /\ seen = {}
  /\ dropped = FALSE
  /\ missed = FALSE

(* The definitions whose names end in _<Slip> are mutated forms of the one
   that follows them: slips the properties below are there to catch.       *)
-----------------------------------------------------------------------------
(* A disk comes or goes, and udev's RUN starts the script. *)
HotPlug(d) ==
  /\ events < MaxEvents
  /\ events' = events + 1
  /\ disks' = IF d \in disks THEN disks \ {d} ELSE disks \cup {d}
  /\ runs' = runs + 1
  /\ UNCHANGED <<boot, present, pc, runVars, uhwdVars, dropped, missed>>

-----------------------------------------------------------------------------
(***************************************************************************)
(* A run of the script.                                                    *)
(***************************************************************************)
Goto(from, to) == pc = from /\ pc' = to

(* flock -n: taken, or the run is over. *)
LockTaken ==
  /\ Goto("free", "glob")
  /\ UNCHANGED dropped

LockRefused ==
  /\ pc # "free"
  /\ dropped' = (dropped \/ pc # "glob")
  /\ UNCHANGED pc

StartRun ==
  /\ runs > 0
  /\ runs' = runs - 1
  /\ LockTaken \/ LockRefused
  /\ UNCHANGED <<envVars, boot, present, runVars, uhwdVars, missed>>

StartBootRun ==
  /\ boot = "waiting"
  /\ \/ LockTaken /\ boot' = "running"
     \/ LockRefused /\ boot' = "done"
  /\ UNCHANGED <<envVars, runs, present, runVars, uhwdVars, missed>>

(* for dev in /sys/block/sd*: the names are fixed when the loop starts. *)
Glob ==
  /\ Goto("glob", "examine")
  /\ todo' = disks
  /\ usbDisks' = {}
  /\ dropped' = FALSE
  /\ UNCHANGED <<envVars, runs, boot, present, slot, changed, uhwdVars, missed>>

(* One name.  A disk that has gone is skipped; when it goes after the test
   for it, udevadm fails, and set -e with pipefail ends the listing there. *)
Examine(d) ==
  /\ pc = "examine" /\ d \in todo
  /\ IF d \in disks
     THEN todo' = todo \ {d} /\ usbDisks' = usbDisks \cup {d}
     ELSE todo' \in {todo \ {d}, {}} /\ UNCHANGED usbDisks
  /\ UNCHANGED <<envVars, runs, boot, present, pc, slot, changed, uhwdVars, dropped, missed>>

ListDone ==
  /\ todo = {}
  /\ Goto("examine", "slots")
  /\ slot' = 1
  /\ changed' = FALSE
  /\ UNCHANGED <<envVars, runs, boot, present, todo, usbDisks, uhwdVars, dropped, missed>>

(* One slot: the flag is written where it differs. *)
SyncSlot_OnlySets ==
  /\ pc = "slots" /\ slot <= NumSlots
  /\ LET want == slot <= Cardinality(usbDisks) IN
     /\ present' = IF want THEN present \cup {slot} ELSE present
     /\ changed' = (changed \/ want # (slot \in present))
  /\ slot' = slot + 1
  /\ UNCHANGED <<envVars, runs, boot, pc, todo, usbDisks, uhwdVars, dropped, missed>>

SyncSlot_LastChange ==
  /\ pc = "slots" /\ slot <= NumSlots
  /\ LET want == slot <= Cardinality(usbDisks) IN
     /\ present' = IF want THEN present \cup {slot} ELSE present \ {slot}
     /\ changed' = (want # (slot \in present))
  /\ slot' = slot + 1
  /\ UNCHANGED <<envVars, runs, boot, pc, todo, usbDisks, uhwdVars, dropped, missed>>

SyncSlot ==
  /\ pc = "slots" /\ slot <= NumSlots
  /\ LET want == slot <= Cardinality(usbDisks) IN
     /\ present' = IF want THEN present \cup {slot} ELSE present \ {slot}
     /\ changed' = (changed \/ want # (slot \in present))
  /\ slot' = slot + 1
  /\ UNCHANGED <<envVars, runs, boot, pc, todo, usbDisks, uhwdVars, dropped, missed>>

SlotsDone ==
  /\ slot > NumSlots
  /\ Goto("slots", "restart")
  /\ UNCHANGED <<envVars, runs, boot, present, runVars, uhwdVars, dropped, missed>>

(* The end of the script, which releases the lock: a restart when a flag
   changed and uhwd is active.  systemd-run refuses a unit that is loaded. *)
RestartOrExit ==
  /\ Goto("restart", "free")
  /\ boot' = IF boot = "running" THEN "done" ELSE boot
  /\ unit' = IF changed /\ uhwd = "active" /\ unit = "none" THEN "asked" ELSE unit
  /\ missed' = (missed \/ /\ hasRead /\ seen # present
                          /\ uhwd # "active" \/ unit = "restarting")
  /\ UNCHANGED <<envVars, runs, present, runVars, uhwd, hasRead, seen, dropped>>

-----------------------------------------------------------------------------
(***************************************************************************)
(* External: systemd and uhwd.  uhwd starts after the boot unit; its       *)
(* process reads the flags once, before or after systemd calls it active.  *)
(***************************************************************************)
UhwdStarts ==
  /\ \/ uhwd = "off" /\ boot = "done"
     \/ uhwd = "stopping"
  /\ uhwd' = "activating"
  /\ hasRead' = FALSE
  /\ missed' = FALSE
  /\ UNCHANGED <<envVars, runs, boot, present, pc, runVars, unit, seen, dropped>>

UhwdReads ==
  /\ uhwd \in {"activating", "active"} /\ ~hasRead
  /\ hasRead' = TRUE
  /\ seen' = present
  /\ UNCHANGED <<envVars, runs, boot, present, pc, runVars, unit, uhwd, dropped, missed>>

UhwdActive ==
  /\ uhwd = "activating"
  /\ uhwd' = "active"
  /\ UNCHANGED <<envVars, runs, boot, present, pc, runVars, unit, hasRead, seen, dropped, missed>>

(* systemctl restart uhwd: the stop job, and the unit's end when uhwd is
   active again.                                                           *)
UnitStops ==
  /\ unit = "asked" /\ uhwd = "active"
  /\ unit' = "restarting"
  /\ uhwd' = "stopping"
  /\ UNCHANGED <<envVars, runs, boot, present, pc, runVars, hasRead, seen, dropped, missed>>

UnitEnds ==
  /\ unit = "restarting" /\ uhwd = "active"
  /\ unit' = "none"
  /\ UNCHANGED <<envVars, runs, boot, present, pc, runVars, uhwd, hasRead, seen, dropped, missed>>

-----------------------------------------------------------------------------
Script ==
  \/ StartRun \/ StartBootRun
  \/ Glob \/ ListDone \/ SyncSlot \/ SlotsDone \/ RestartOrExit
  \/ \E d \in Disks : Examine(d)

Uhwd == UhwdStarts \/ UhwdReads \/ UhwdActive \/ UnitStops \/ UnitEnds

Next == (\E d \in Disks : HotPlug(d)) \/ Script \/ Uhwd

Spec == Init /\ [][Next]_vars

-----------------------------------------------------------------------------
(* No run of the script is under way or waits. *)
Quiet == runs = 0 /\ boot = "done" /\ pc = "free"

BaysMatch == present = {n \in Slots : n <= Cardinality(disks)}

(* Disks that come and go while the script reads and writes do no lasting
   harm: when it is quiet the flags count the disks, unless a run was turned
   away at the lock after the holder had listed the disks, and no run has
   listed them since.                                                      *)
MatchUnlessDropped == Quiet /\ ~dropped => BaysMatch

(* Once uhwd is up it knows the flags: a run that changes one has uhwd
   restarted, unless it ends while uhwd has read the flags and is not active,
   or while the unit of the last restart is still loaded.                  *)
SeenUnlessMissed ==
  Quiet /\ ~missed /\ unit = "none" /\ uhwd = "active" /\ hasRead
    => seen = present

=============================================================================
