--------------------------- MODULE BaySyncProofs ----------------------------
(***************************************************************************)
(* For any number of disks, slots and hot-plug events: the flags come to   *)
(* count the disks unless a run was turned away, and uhwd comes to know    *)
(* them unless a restart was not possible.                                 *)
(***************************************************************************)
EXTENDS BaySync, FiniteSetTheorems, TLAPS

(* The types the argument needs. *)
TypeOK ==
  /\ disks \subseteq Disks
  /\ runs \in Nat
  /\ boot \in {"waiting", "running", "done"}
  /\ present \subseteq Slots
  /\ pc \in {"free", "glob", "examine", "slots", "restart"}
  /\ todo \subseteq Disks
  /\ usbDisks \subseteq Disks
  /\ slot \in 1 .. NumSlots + 1
  /\ unit \in {"none", "asked", "restarting"}

(* With no run waiting and none turned away, the holder of the lock sees
   every disk that is there: no disk has come or gone since it listed them,
   or a run for it would be waiting.                                       *)
Current ==
  runs = 0 /\ boot # "waiting" /\ ~dropped =>
    /\ pc = "examine" => usbDisks \cup todo = disks
    /\ pc = "slots" =>
         /\ usbDisks = disks
         /\ \A i \in 1 .. slot - 1 : i \in present <=> i <= Cardinality(disks)
    /\ pc \in {"restart", "free"} => BaysMatch

(* When uhwd has read other flags than there are, someone is about to have
   it restarted: the run that changed one, the unit it asked for, or the
   stop job.                                                               *)
Told ==
  ~missed /\ hasRead /\ seen # present =>
    \/ pc \in {"slots", "restart"} /\ changed
    \/ unit = "asked"
    \/ unit = "restarting" /\ uhwd = "stopping"

(***************************************************************************)
(* Types.                                                                  *)
(***************************************************************************)
LEMMA TypeInit == Init => TypeOK
<1> SUFFICES ASSUME Init
             PROVE  TypeOK
  OBVIOUS
<1>1. Cardinality(disks) \in Nat
  BY BaySyncAssumption, FS_Subset, FS_CardinalityType DEF Init
<1>2. 1 \in 1 .. NumSlots + 1
  BY BaySyncAssumption
<1> QED
  BY <1>1, <1>2 DEF Init, TypeOK

LEMMA TypeStep == TypeOK /\ [Next]_vars => TypeOK'
<1> SUFFICES ASSUME TypeOK, [Next]_vars
             PROVE  TypeOK'
  OBVIOUS
<1> USE BaySyncAssumption DEF TypeOK, Goto, envVars, runVars, uhwdVars, Slots
<1>1. ASSUME NEW d \in Disks, HotPlug(d)
      PROVE  TypeOK'
  BY <1>1 DEF HotPlug
<1>2. CASE StartRun
  BY <1>2 DEF StartRun, LockTaken, LockRefused
<1>3. CASE StartBootRun
  BY <1>3 DEF StartBootRun, LockTaken, LockRefused
<1>4. CASE Glob
  BY <1>4 DEF Glob
<1>5. ASSUME NEW d \in Disks, Examine(d)
      PROVE  TypeOK'
  BY <1>5 DEF Examine
<1>6. CASE ListDone
  BY <1>6 DEF ListDone
<1>7. CASE SyncSlot
  BY <1>7 DEF SyncSlot
<1>8. CASE SlotsDone
  BY <1>8 DEF SlotsDone
<1>9. CASE RestartOrExit
  BY <1>9 DEF RestartOrExit
<1>10. CASE Uhwd
  BY <1>10 DEF Uhwd, UhwdStarts, UhwdReads, UhwdActive, UnitStops, UnitEnds
<1>11. CASE UNCHANGED vars
  BY <1>11 DEF vars
<1> QED
  BY <1>1, <1>2, <1>3, <1>4, <1>5, <1>6, <1>7, <1>8, <1>9, <1>10, <1>11 DEF Next, Script

-----------------------------------------------------------------------------
(***************************************************************************)
(* The flags and the disks.                                                *)
(***************************************************************************)
(* A run that comes for the lock: it gets it and will list the disks, the
   holder has still to list them, or the run counts as dropped.            *)
LEMMA StartCurrent ==
  ASSUME LockTaken \/ LockRefused, UNCHANGED <<disks, present, todo, usbDisks, slot>>
  PROVE  dropped' \/ pc' = "glob"
  BY DEF LockTaken, LockRefused, Goto

(* One slot: the slots below the next one are as they should be. *)
LEMMA SlotCurrent ==
  ASSUME TypeOK, Current, SyncSlot
  PROVE  Current'
<1> USE DEF Current
<1> SUFFICES ASSUME runs = 0, boot # "waiting", ~dropped
             PROVE  /\ usbDisks' = disks'
                    /\ \A i \in 1 .. slot' - 1 : i \in present' <=> i <= Cardinality(disks')
  BY DEF SyncSlot
<1> DEFINE count == Cardinality(disks)
<1>1. usbDisks = disks /\ \A i \in 1 .. slot - 1 : i \in present <=> i <= count
  BY DEF SyncSlot
<1>2. UNCHANGED <<disks, usbDisks>> /\ slot' = slot + 1
  BY DEF SyncSlot, envVars
<1>3. present' = IF slot <= count THEN present \cup {slot} ELSE present \ {slot}
  BY <1>1 DEF SyncSlot
<1>4. slot \in Nat
  BY BaySyncAssumption DEF TypeOK
<1>5. Cardinality(disks') = count
  BY <1>2
<1> HIDE DEF count
<1>6. ASSUME NEW i \in 1 .. slot' - 1
      PROVE  i \in present' <=> i <= count
  <2>1. i = slot \/ i \in 1 .. slot - 1
    BY <1>2, <1>4
  <2> QED
    BY <1>1, <1>3, <1>4, <2>1
<1> QED
  BY <1>1, <1>2, <1>5, <1>6

(* The end of the loop: every slot has been looked at. *)
LEMMA SlotsDoneCurrent ==
  ASSUME TypeOK, Current, SlotsDone
  PROVE  Current'
<1> SUFFICES ASSUME runs = 0, boot # "waiting", ~dropped
             PROVE  BaysMatch'
  BY DEF SlotsDone, Goto, Current
<1>1. /\ \A i \in 1 .. slot - 1 : i \in present <=> i <= Cardinality(disks)
      /\ UNCHANGED <<disks, present>>
  BY DEF SlotsDone, Goto, Current, envVars
<1>2. slot = NumSlots + 1
  BY BaySyncAssumption DEF SlotsDone, TypeOK
<1>3. \A i \in Slots : i \in present <=> i <= Cardinality(disks)
  BY <1>1, <1>2, BaySyncAssumption DEF Slots
<1>4. present = {i \in Slots : i <= Cardinality(disks)}
  BY <1>3 DEF TypeOK
<1> QED
  BY <1>1, <1>4 DEF BaysMatch

LEMMA CurrentStep == TypeOK /\ Current /\ [Next]_vars => Current'
<1> SUFFICES ASSUME TypeOK, Current, [Next]_vars
             PROVE  Current'
  OBVIOUS
<1> USE DEF envVars, runVars, Goto
<1>1. ASSUME NEW d \in Disks, HotPlug(d)
      PROVE  Current'
  BY <1>1 DEF HotPlug, Current, TypeOK
<1>2. CASE StartRun \/ StartBootRun
  BY <1>2, StartCurrent DEF StartRun, StartBootRun, Current
<1>3. CASE Glob
  BY <1>3 DEF Glob, Current
<1>4. ASSUME NEW d \in Disks, Examine(d)
      PROVE  Current'
  <2>1. UNCHANGED <<disks, runs, boot, pc, dropped>> /\ pc = "examine"
    BY <1>4 DEF Examine
  <2>2. ASSUME runs = 0, boot # "waiting", ~dropped
        PROVE  usbDisks' \cup todo' = disks
    <3>1. usbDisks \cup todo = disks /\ d \in todo
      BY <1>4, <2>1, <2>2 DEF Examine, Current
    <3>2. todo' = todo \ {d} /\ usbDisks' = usbDisks \cup {d}
      BY <1>4, <3>1 DEF Examine
    <3> QED
      BY <3>1, <3>2
  <2> QED
    BY <2>1, <2>2 DEF Current
<1>5. CASE ListDone
  <2>1. UNCHANGED <<disks, runs, boot, usbDisks, dropped>> /\ todo = {}
    BY <1>5 DEF ListDone
  <2>2. pc = "examine" /\ pc' = "slots" /\ slot' = 1
    BY <1>5 DEF ListDone
  <2>3. 1 .. slot' - 1 = {}
    BY <2>2
  <2> QED
    BY <2>1, <2>2, <2>3 DEF Current
<1>6. CASE SyncSlot
  BY <1>6, SlotCurrent
<1>7. CASE SlotsDone
  BY <1>7, SlotsDoneCurrent
<1>8. CASE RestartOrExit
  <2>1. UNCHANGED <<disks, runs, present, dropped>> /\ pc = "restart" /\ pc' = "free"
    BY <1>8 DEF RestartOrExit
  <2>2. boot' # "waiting" => boot # "waiting"
    BY <1>8 DEF RestartOrExit
  <2>3. BaysMatch => BaysMatch'
    BY <2>1 DEF BaysMatch
  <2> QED
    BY <2>1, <2>2, <2>3 DEF Current
<1>9. CASE Uhwd \/ UNCHANGED vars
  <2>1. UNCHANGED <<disks, runs, boot, present, pc, todo, usbDisks, slot, dropped>>
    BY <1>9 DEF Uhwd, UhwdStarts, UhwdReads, UhwdActive, UnitStops, UnitEnds, vars
  <2>2. BaysMatch => BaysMatch'
    BY <2>1 DEF BaysMatch
  <2> QED
    BY <2>1, <2>2 DEF Current
<1> QED
  BY <1>1, <1>2, <1>3, <1>4, <1>5, <1>6, <1>7, <1>8, <1>9 DEF Next, Script

(* When it is quiet the flags count the disks, unless a run was refused and
   no other has listed the disks since.                                    *)
THEOREM BayMatchUnlessDropped == Spec => []MatchUnlessDropped
<1>1. Init => Current
  BY DEF Init, Current
<1>2. Current => MatchUnlessDropped
  BY DEF Current, MatchUnlessDropped, Quiet
<1> QED
  BY <1>1, <1>2, TypeInit, TypeStep, CurrentStep, PTL DEF Spec

-----------------------------------------------------------------------------
(***************************************************************************)
(* The flags and uhwd.                                                     *)
(***************************************************************************)
LEMMA ToldStep == TypeOK /\ Told /\ [Next]_vars => Told'
<1> SUFFICES ASSUME TypeOK, Told, [Next]_vars
             PROVE  Told'
  OBVIOUS
<1> USE DEF Told, runVars, uhwdVars, Goto
<1>1. ASSUME NEW d \in Disks, HotPlug(d)
      PROVE  Told'
  BY <1>1 DEF HotPlug
<1>2. CASE StartRun \/ StartBootRun
  <2>1. UNCHANGED <<present, changed, unit, uhwd, hasRead, seen, missed>>
    BY <1>2 DEF StartRun, StartBootRun
  <2>2. pc' = pc \/ pc = "free"
    BY <1>2 DEF StartRun, StartBootRun, LockTaken, LockRefused
  <2> QED
    BY <2>1, <2>2
<1>3. CASE Glob \/ ListDone \/ SlotsDone
  BY <1>3 DEF Glob, ListDone, SlotsDone
<1>4. ASSUME NEW d \in Disks, Examine(d)
      PROVE  Told'
  BY <1>4 DEF Examine
<1>5. CASE SyncSlot
  <2>1. UNCHANGED <<pc, unit, uhwd, hasRead, seen, missed>> /\ pc = "slots"
    BY <1>5 DEF SyncSlot
  <2>2. present' # present => changed'
    BY <1>5 DEF SyncSlot
  <2>3. changed => changed'
    BY <1>5 DEF SyncSlot
  <2> QED
    BY <2>1, <2>2, <2>3
<1>6. CASE RestartOrExit
  <2> SUFFICES ASSUME ~missed', hasRead, seen # present
               PROVE  unit' = "asked"
    BY <1>6 DEF RestartOrExit
  <2>1. ~missed /\ uhwd = "active" /\ unit # "restarting"
    BY <1>6 DEF RestartOrExit
  <2>2. changed \/ unit = "asked"
    BY <2>1
  <2>3. CASE unit = "none"
    BY <1>6, <2>1, <2>2, <2>3 DEF RestartOrExit
  <2>4. CASE unit = "asked"
    BY <1>6, <2>4 DEF RestartOrExit
  <2> QED
    BY <2>1, <2>3, <2>4 DEF TypeOK
<1>7. CASE UhwdStarts
  BY <1>7 DEF UhwdStarts
<1>8. CASE UhwdReads \/ UhwdActive \/ UnitStops \/ UnitEnds
  BY <1>8 DEF UhwdReads, UhwdActive, UnitStops, UnitEnds
<1>9. CASE UNCHANGED vars
  BY <1>9 DEF vars
<1> QED
  BY <1>1, <1>2, <1>3, <1>4, <1>5, <1>6, <1>7, <1>8, <1>9 DEF Next, Script, Uhwd

(* Once it is quiet and uhwd is up, it has read the flags there are, unless
   a run could not have it restarted.                                      *)
THEOREM BaySeenUnlessMissed == Spec => []SeenUnlessMissed
<1>1. Init => Told
  BY DEF Init, Told
<1>2. Told => SeenUnlessMissed
  BY DEF Told, SeenUnlessMissed, Quiet
<1> QED
  BY <1>1, <1>2, TypeInit, TypeStep, ToldStep, PTL DEF Spec
=============================================================================
