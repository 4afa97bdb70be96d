--------------------------- MODULE HciSmdDevProofs ---------------------------
(***************************************************************************)
(* Theorems about the life of hs.hdev, for any number of devices, any      *)
(* amount of queued work and any environment.  The invariant ties the      *)
(* device to the place of the semaphore's holder (DevAtPc): that is what   *)
(* makes one holder's half-done teardown harmless to the next.  From it    *)
(* follow the types and the ownership of devices; the faults, what leads   *)
(* to them and with it the refinement of HciCore need CausesInv, below.    *)
(***************************************************************************)
EXTENDS HciSmdDev, TLAPS

(* What the holder of the semaphore may rely on at each of its steps. *)
DevAtPc ==
  /\ pc \in {"unregister", "free_device", "init", "open_event", "open_data", "drop"}
       => Live(hdev)
  /\ pc \in {"forget", "forget_dropped"} => Freed(hdev)
  /\ pc \in {"close_event", "close_data", "stop_timer", "alloc"} => hdev = NULL
  /\ hdev # NULL => devst[hdev] # "unused"

IInv == TypeOK /\ DevAtPc /\ OwnedDevice /\ NoDanglingHdev

(***************************************************************************)
(* The types, in two parts: Boolean flags are the business of one prover,  *)
(* numbers and functions of the other.                                     *)
(***************************************************************************)
TypeFlags ==
  /\ tsched \in BOOLEAN /\ tfun \in BOOLEAN /\ tarmed \in BOOLEAN
  /\ restart_in_progress \in BOOLEAN

TypeData ==
  /\ env \in SUBSET EnvChoices
  /\ fault \in Faults \cup {"none"}
  /\ hdev \in Dev \cup {NULL}
  /\ devst \in [Dev -> {"unused", "alloc", "registered", "freed"}]
  /\ ev \in {"closed", "waiting", "up"}
  /\ dat \in {"closed", "waiting", "up"}
  /\ irq \in {"none", "open", "close", "data", "data_state"}
  /\ irqdev \in Dev \cup {NULL}
  /\ tsk \in {"idle", "recv", "arm", "out"}
  /\ tdata \in Dev \cup {NULL}
  /\ opens \in Nat
  /\ restarts \in Nat
  /\ pc \in PcValues
  /\ who \in {"none", "open", "restart", "enable", "disable"}

LEMMA TypeParts == TypeOK <=> TypeFlags /\ TypeData
  BY DEF TypeOK, TypeFlags, TypeData

(* The flags only ever take Boolean values. *)
LEMMA FlagsStep == TypeFlags /\ [Next]_vars => TypeFlags'
<1> SUFFICES ASSUME TypeFlags, [Next]_vars PROVE TypeFlags'
  OBVIOUS
<1> USE DEF TypeFlags, devVars, smdVars, irqVars, taskVars, timeVars, workVars,
            semVars, cfgVars, Fault
<1>1. CASE RemoteOpens
  BY <1>1 DEF RemoteOpens
<1>2. CASE RemoteCloses
  BY <1>2 DEF RemoteCloses
<1>3. CASE RemoteMovesData \/ RemoteSends
  BY <1>3 DEF RemoteMovesData, RemoteSends
<1>4. CASE NotifyRuns
  BY <1>4 DEF NotifyRuns
<1>5. CASE TaskletRuns \/ TaskletArm
  BY <1>5 DEF TaskletRuns, TaskletArm
<1>6. CASE TaskletRecv
  BY <1>6 DEF TaskletRecv
<1>7. CASE TaskletOut
  BY <1>7 DEF TaskletOut
<1>8. CASE TimerFires
  BY <1>8 DEF TimerFires
<1>9. CASE StartRestart \/ Settle
  BY <1>9 DEF StartRestart, Settle
<1>10. CASE StartOpen
  BY <1>10 DEF StartOpen
<1>11. CASE Disable \/ Enable
  BY <1>11 DEF Disable, Enable
<1>12. CASE KillTasklet \/ TaskletKilled
  BY <1>12 DEF KillTasklet, TaskletKilled
<1>13. CASE Unregister
  BY <1>13 DEF Unregister
<1>14. CASE FreeDevice \/ Forget
  BY <1>14 DEF FreeDevice, Forget
<1>15. CASE CloseEvent \/ CloseData
  BY <1>15 DEF CloseEvent, CloseData
<1>16. CASE StopTimer
  BY <1>16 DEF StopTimer
<1>17. CASE AllocDev
  BY <1>17 DEF AllocDev
<1>18. CASE InitTimer
  BY <1>18 DEF InitTimer
<1>19. CASE OpenEvent
  BY <1>19 DEF OpenEvent
<1>20. CASE OpenData
  BY <1>20 DEF OpenData
<1>21. CASE RegisterDev
  BY <1>21 DEF RegisterDev
<1>22. CASE Drop \/ ForgetDropped
  BY <1>22 DEF Drop, ForgetDropped
<1>23. CASE UNCHANGED vars
  BY <1>23 DEF vars
<1>24. QED
  BY <1>1, <1>2, <1>3, <1>4, <1>5, <1>6, <1>7, <1>8, <1>9, <1>10,
     <1>11, <1>12, <1>13, <1>14, <1>15, <1>16, <1>17, <1>18, <1>19,
     <1>20, <1>21, <1>22, <1>23
     DEF Next, Interrupt, Tasklet, Work, Teardown, Register

(* The timer changes no more than its own flag and, by a fault, "fault". *)
LEMMA TimerLeavesData ==
  TimerFires =>
    /\ fault' \in {fault, "timer_without_function", "timer_on_freed_device"}
    /\ UNCHANGED <<env, hdev, devst, ev, dat, irq, irqdev, tsk, tdata, opens,
                   restarts, pc, who>>
  BY DEF TimerFires, Fault, devVars, smdVars, irqVars, taskVars, workVars,
         semVars, cfgVars, timeVars

(* The other variables keep their types; a work item is only taken when one
   is queued.                                                              *)
LEMMA DataStep == TypeData /\ [Next]_vars => TypeData'
<1> SUFFICES ASSUME TypeData, [Next]_vars PROVE TypeData'
  OBVIOUS
<1> USE DEF TypeData, PcValues, devVars, smdVars, irqVars, taskVars, timeVars,
            workVars, semVars, cfgVars, Goto, Fault, Faults, Notify
<1>1. CASE RemoteOpens
  BY <1>1 DEF RemoteOpens
<1>2. CASE RemoteCloses
  BY <1>2 DEF RemoteCloses
<1>3. CASE RemoteMovesData \/ RemoteSends
  BY <1>3 DEF RemoteMovesData, RemoteSends
<1>4. CASE NotifyRuns
  BY <1>4 DEF NotifyRuns
<1>5. CASE TaskletRuns \/ TaskletArm
  BY <1>5 DEF TaskletRuns, TaskletArm
<1>6. CASE TaskletRecv
  BY <1>6 DEF TaskletRecv
<1>7. CASE TaskletOut
  BY <1>7 DEF TaskletOut
<1>8. CASE TimerFires
  BY <1>8, TimerLeavesData
<1>9. CASE StartRestart \/ Settle
  BY <1>9 DEF StartRestart, Settle
<1>10. CASE StartOpen
  <2>1. pc' \in {"settle", "register"}
    BY <1>10 DEF StartOpen
  <2>2. opens' \in Nat /\ who' = "open"
    BY <1>10 DEF StartOpen
  <2>3. UNCHANGED <<env, fault, hdev, devst, ev, dat, irq, irqdev, tsk, tdata, restarts>>
    BY <1>10 DEF StartOpen
  <2>4. QED
    BY <2>1, <2>2, <2>3
<1>11. CASE Disable \/ Enable
  BY <1>11 DEF Disable, Enable
<1>12. CASE KillTasklet \/ TaskletKilled
  BY <1>12 DEF KillTasklet, TaskletKilled
<1>13. CASE Unregister
  BY <1>13 DEF Unregister
<1>14. CASE FreeDevice \/ Forget
  BY <1>14 DEF FreeDevice, Forget
<1>15. CASE CloseEvent \/ CloseData
  BY <1>15 DEF CloseEvent, CloseData
<1>16. CASE StopTimer
  BY <1>16 DEF StopTimer
<1>17. CASE AllocDev
  BY <1>17 DEF AllocDev
<1>18. CASE InitTimer
  BY <1>18 DEF InitTimer
<1>19. CASE OpenEvent
  BY <1>19 DEF OpenEvent
<1>20. CASE OpenData
  BY <1>20 DEF OpenData
<1>21. CASE RegisterDev
  BY <1>21 DEF RegisterDev
<1>22. CASE Drop \/ ForgetDropped
  BY <1>22 DEF Drop, ForgetDropped
<1>23. CASE UNCHANGED vars
  BY <1>23 DEF vars
<1>24. QED
  BY <1>1, <1>2, <1>3, <1>4, <1>5, <1>6, <1>7, <1>8, <1>9, <1>10,
     <1>11, <1>12, <1>13, <1>14, <1>15, <1>16, <1>17, <1>18, <1>19,
     <1>20, <1>21, <1>22, <1>23
     DEF Next, Interrupt, Tasklet, Work, Teardown, Register

-----------------------------------------------------------------------------
(***************************************************************************)
(* The device and the semaphore's holder.                                  *)
(***************************************************************************)
DevInv == DevAtPc /\ OwnedDevice /\ NoDanglingHdev

(* Interrupt handlers, the tasklet and the timer never move the device. *)
LEMMA OthersLeaveDevice ==
  Interrupt \/ Tasklet \/ TimerFires => UNCHANGED <<hdev, devst, pc>>
<1> USE DEF devVars, semVars, Fault
<1>1. Interrupt => UNCHANGED <<hdev, devst, pc>>
  BY DEF Interrupt, RemoteOpens, RemoteCloses, RemoteMovesData, RemoteSends, NotifyRuns
<1>2. Tasklet => UNCHANGED <<hdev, devst, pc>>
  BY DEF Tasklet, TaskletRuns, TaskletRecv, TaskletArm, TaskletOut
<1>3. TimerFires => UNCHANGED <<hdev, devst, pc>>
  BY DEF TimerFires
<1>4. QED
  BY <1>1, <1>2, <1>3

(* Each step of the holder keeps the device where the next step expects it. *)
LEMMA DevStep == TypeData /\ DevInv /\ [Next]_vars => DevInv'
<1> SUFFICES ASSUME TypeData, DevInv, [Next]_vars PROVE DevInv'
  OBVIOUS
<1> USE DevAssumption
    DEF TypeData, DevInv, DevAtPc, OwnedDevice, NoDanglingHdev, Live, Freed,
        devVars, semVars, Goto, Fault
<1>1. CASE Interrupt \/ Tasklet \/ TimerFires \/ UNCHANGED vars
  <2>1. UNCHANGED <<hdev, devst, pc>>
    BY <1>1, OthersLeaveDevice DEF vars
  <2>2. QED
    BY <2>1
<1>2. CASE StartRestart \/ StartOpen \/ Settle
  <2>1. UNCHANGED <<hdev, devst>> /\ pc' \in {"kill", "settle", "register"}
    BY <1>2 DEF StartRestart, StartOpen, Settle
  <2>2. ~Freed(hdev)
    BY <1>2 DEF StartRestart, StartOpen, Settle
  <2>3. QED
    BY <2>1, <2>2
<1>3. CASE Disable \/ Enable
  BY <1>3 DEF Disable, Enable
<1>4. CASE KillTasklet \/ TaskletKilled
  <2>1. /\ pc \in {"kill", "kill_wait"} /\ UNCHANGED <<hdev, devst>>
        /\ \/ pc' = "kill_wait"
           \/ hdev = NULL /\ pc' = "close_event"
           \/ hdev # NULL /\ pc' = "unregister"
    BY <1>4 DEF KillTasklet, TaskletKilled
  <2>2. hdev \in Dev => devst[hdev] \in {"unused", "alloc", "registered", "freed"}
    OBVIOUS
  <2>3. QED
    BY <2>1, <2>2
<1>5. CASE Unregister
  BY <1>5 DEF Unregister
<1>6. CASE FreeDevice
  BY <1>6 DEF FreeDevice
<1>7. CASE Forget
  BY <1>7 DEF Forget
<1>8. CASE CloseEvent \/ CloseData
  BY <1>8 DEF CloseEvent, CloseData
<1>9. CASE StopTimer
  BY <1>9 DEF StopTimer
<1>10. CASE AllocDev
  BY <1>10 DEF AllocDev
<1>11. CASE InitTimer
  BY <1>11 DEF InitTimer
<1>12. CASE OpenEvent \/ OpenData
  BY <1>12 DEF OpenEvent, OpenData
<1>13. CASE RegisterDev
  <2>1. CASE UNCHANGED <<hdev, devst, pc>>
    BY <2>1
  <2>2. CASE /\ hdev \in Dev
             /\ devst' = [devst EXCEPT ![hdev] = "registered"]
             /\ hdev' = hdev /\ pc = "register" /\ pc' = "free"
    BY <2>2
  <2>3. CASE /\ hdev \in Dev /\ UNCHANGED <<hdev, devst>>
             /\ pc = "register" /\ pc' = "drop"
    BY <2>3
  <2>4. QED
    BY <1>13, <2>1, <2>2, <2>3 DEF RegisterDev
<1>14. CASE Drop
  BY <1>14 DEF Drop
<1>15. CASE ForgetDropped
  BY <1>15 DEF ForgetDropped
<1>16. QED
  BY <1>1, <1>2, <1>3, <1>4, <1>5, <1>6, <1>7, <1>8, <1>9, <1>10, <1>11,
     <1>12, <1>13, <1>14, <1>15
     DEF Next, Work, Teardown, Register

(* The inductive invariant holds in every reachable state. *)
THEOREM DevInvariant == Spec => []IInv
<1>1. Init => IInv
  <2> SUFFICES ASSUME Init PROVE IInv
    OBVIOUS
  <2>1. TypeFlags
    BY DEF Init, TypeFlags
  <2>2. TypeData
    BY DEF Init, TypeData, PcValues
  <2>3. DevInv
    BY DEF Init, DevInv, DevAtPc, OwnedDevice, NoDanglingHdev, Freed
  <2>4. QED
    BY <2>1, <2>2, <2>3, TypeParts DEF IInv, DevInv
<1>2. IInv /\ [Next]_vars => IInv'
  <2> SUFFICES ASSUME IInv, [Next]_vars PROVE IInv'
    OBVIOUS
  <2>1. TypeFlags /\ TypeData /\ DevInv
    BY TypeParts DEF IInv, DevInv
  <2>2. TypeFlags' /\ TypeData' /\ DevInv'
    BY <2>1, FlagsStep, DataStep, DevStep
  <2>3. TypeOK'
    BY <2>2 DEF TypeOK, TypeFlags, TypeData
  <2>4. QED
    BY <2>2, <2>3 DEF IInv, DevInv
<1>3. QED
  BY <1>1, <1>2, PTL DEF Spec

(* Type correctness: in particular the counts of queued work never go
   below zero.                                                             *)
THEOREM DevTypeCorrect == Spec => []TypeOK
<1>1. IInv => TypeOK
  BY DEF IInv
<1>2. QED
  BY <1>1, DevInvariant, PTL

(* However restarts, opens, enables, disables and failures follow each
   other, no device leaks and no two are live at once.                     *)
THEOREM DevOwned == Spec => []OwnedDevice
<1>1. IInv => OwnedDevice
  BY DEF IInv
<1>2. QED
  BY <1>1, DevInvariant, PTL

(* hs.hdev never dangles once the semaphore is released. *)
THEOREM DevNoDangling == Spec => []NoDanglingHdev
<1>1. IInv => NoDanglingHdev
  BY DEF IInv
<1>2. QED
  BY <1>1, DevInvariant, PTL

-----------------------------------------------------------------------------
(***************************************************************************)
(* The driver's calls implement HciCore.  A device that is about to be     *)
(* freed is not registered: unregistered a step before, or never yet.      *)
(***************************************************************************)
NotOffered ==
  pc \in {"free_device", "init", "open_event", "open_data", "drop"}
    => devst[hdev] = "alloc"

LEMMA NotOfferedStep == IInv /\ NotOffered /\ [Next]_vars => NotOffered'
<1> SUFFICES ASSUME TypeData, DevInv, NotOffered, [Next]_vars PROVE NotOffered'
  BY TypeParts DEF IInv, DevInv
<1> USE DevAssumption DEF NotOffered, devVars, semVars, Goto, Fault
<1>1. CASE Interrupt \/ Tasklet \/ TimerFires \/ UNCHANGED vars
  <2>1. UNCHANGED <<hdev, devst, pc>>
    BY <1>1, OthersLeaveDevice DEF vars
  <2>2. QED
    BY <2>1
<1>2. CASE StartRestart \/ StartOpen \/ Settle \/ Disable
  BY <1>2 DEF StartRestart, StartOpen, Settle, Disable
<1>3. CASE Enable
  BY <1>3 DEF Enable
<1>4. CASE KillTasklet \/ TaskletKilled
  BY <1>4 DEF KillTasklet, TaskletKilled
<1>5. CASE Unregister
  BY <1>5 DEF Unregister, TypeData, DevInv, DevAtPc, Live
<1>6. CASE FreeDevice \/ Forget \/ CloseEvent \/ CloseData \/ StopTimer
  <2>1. pc' \in {"forget", "close_event", "close_data", "stop_timer", "alloc", "free"}
    BY <1>6 DEF FreeDevice, Forget, CloseEvent, CloseData, StopTimer
  <2>2. QED
    BY <2>1
<1>7. CASE AllocDev
  BY <1>7 DEF AllocDev, TypeData
<1>8. CASE InitTimer
  BY <1>8 DEF InitTimer
<1>9. CASE OpenEvent \/ OpenData
  BY <1>9 DEF OpenEvent, OpenData
<1>10. CASE RegisterDev
  <2>1. CASE fault' # fault
    BY <1>10, <2>1 DEF RegisterDev
  <2>2. CASE pc' = "free"
    BY <2>2
  <2>3. CASE pc = "register" /\ pc' = "drop" /\ UNCHANGED <<hdev, devst>>
             /\ hdev # NULL /\ devst[hdev] # "registered"
    BY <2>3 DEF TypeData, DevInv, DevAtPc, NoDanglingHdev, Freed
  <2>4. QED
    BY <1>10, <2>1, <2>2, <2>3 DEF RegisterDev
<1>11. CASE Drop \/ ForgetDropped
  BY <1>11 DEF Drop, ForgetDropped
<1>12. QED
  BY <1>1, <1>2, <1>3, <1>4, <1>5, <1>6, <1>7, <1>8, <1>9, <1>10, <1>11
     DEF Next, Work, Teardown, Register

(* Without a push but traffic none of the misuses happens. *)
LEMMA NeverMisused == FaultsHaveCauses => (PlainRestarts /\ fault \in Misuses) = FALSE
  BY DEF FaultsHaveCauses, PlainRestarts, Misuses

(* A step that leaves the devices alone is none of HciCore's. *)
LEMMA NoCall ==
  ASSUME FaultsHaveCauses, FaultsHaveCauses', UNCHANGED devst
  PROVE  UNCHANGED C!coreVars
<1>1. (PlainRestarts /\ fault \in Misuses) = FALSE
  BY NeverMisused
<1>2. (PlainRestarts /\ fault \in Misuses)' = FALSE
  BY DEF FaultsHaveCauses, PlainRestarts, Misuses
<1> QED
  BY <1>1, <1>2 DEF C!coreVars, DevicesIn

(* Each step that touches a device is the call of that name; every other
   one leaves the core alone.                                              *)
LEMMA CallStep ==
  ASSUME TypeData, DevInv, NotOffered, FaultsHaveCauses, FaultsHaveCauses',
         [Next]_vars
  PROVE  [C!Next]_C!coreVars
<1> DEFINE Allocated == DevicesIn({"alloc", "registered"})
           Offered == DevicesIn({"registered"})
           Gone == DevicesIn({"freed"})
<1>0. (PlainRestarts /\ fault \in Misuses)' = (PlainRestarts /\ fault \in Misuses)
  <2>1. (PlainRestarts /\ fault \in Misuses)' = FALSE
    BY DEF FaultsHaveCauses, PlainRestarts, Misuses
  <2> QED
    BY <2>1, NeverMisused
<1>1. devst \in [Dev -> {"unused", "alloc", "registered", "freed"}]
  BY DEF TypeData
<1>2. hdev # NULL => hdev \in Dev
  BY DEF TypeData
<1>3. CASE UNCHANGED devst
  BY <1>3, NoCall
<1>4. CASE Unregister /\ devst[hdev] = "registered"
  <2>1. /\ hdev \in Dev
        /\ devst' = [devst EXCEPT ![hdev] = "alloc"]
    BY <1>2, <1>4 DEF Unregister, DevInv, DevAtPc, Live, Fault, devVars, Faults
  <2>2. /\ Allocated' = Allocated \cup {hdev}
        /\ Offered' = Offered \ {hdev}
        /\ Gone' = Gone \ {hdev}
    BY <1>1, <2>1 DEF DevicesIn
  <2>3. hdev \in Allocated /\ hdev \in Offered /\ hdev \notin Gone
    BY <1>4, <2>1 DEF DevicesIn
  <2>4. C!Unregister(hdev)
    BY <1>0, <2>2, <2>3 DEF C!Unregister
  <2>5. QED
    BY <2>1, <2>4 DEF C!Next
<1>5. CASE FreeDevice \/ Drop
  <2>1. /\ hdev \in Dev /\ devst[hdev] = "alloc"
        /\ devst' = [devst EXCEPT ![hdev] = "freed"]
    BY <1>2, <1>5 DEF FreeDevice, Drop, Goto, NotOffered, DevInv, DevAtPc, Live
  <2>2. /\ Allocated' = Allocated \ {hdev}
        /\ Offered' = Offered \ {hdev}
        /\ Gone' = Gone \cup {hdev}
    BY <1>1, <2>1 DEF DevicesIn
  <2>3. hdev \in Allocated /\ hdev \notin Offered
    BY <2>1 DEF DevicesIn
  <2>4. C!Free(hdev)
    BY <1>0, <2>2, <2>3 DEF C!Free
  <2>5. QED
    BY <2>1, <2>4 DEF C!Next
<1>6. CASE AllocDev /\ devst' # devst
  <2>1. PICK d \in Dev : devst[d] = "unused" /\ devst' = [devst EXCEPT ![d] = "alloc"]
    BY <1>6 DEF AllocDev, devVars
  <2>2. /\ Allocated' = Allocated \cup {d}
        /\ Offered' = Offered \ {d}
        /\ Gone' = Gone \ {d}
    BY <1>1, <2>1 DEF DevicesIn
  <2>3. Allocated = {}
    BY <1>6, DevAssumption DEF AllocDev, DevInv, DevAtPc, OwnedDevice, DevicesIn
  <2>4. d \notin Offered /\ d \notin Gone
    BY <2>1 DEF DevicesIn
  <2>5. C!Alloc(d)
    BY <1>0, <2>2, <2>3, <2>4 DEF C!Alloc
  <2>6. QED
    BY <2>5 DEF C!Next
<1>7. CASE RegisterDev /\ devst' # devst
  <2>1. /\ pc = "register" /\ hdev \in Dev /\ devst[hdev] # "registered"
        /\ devst' = [devst EXCEPT ![hdev] = "registered"]
    BY <1>2, <1>7 DEF RegisterDev, Fault, devVars
  <2>2. devst[hdev] = "alloc"
    BY <1>1, <2>1, DevAssumption DEF DevInv, DevAtPc, NoDanglingHdev, Freed
  <2>3. /\ Allocated' = Allocated \cup {hdev}
        /\ Offered' = Offered \cup {hdev}
        /\ Gone' = Gone \ {hdev}
    BY <1>1, <2>1 DEF DevicesIn
  <2>4. hdev \in Allocated /\ hdev \notin Offered /\ hdev \notin Gone
    BY <2>1, <2>2 DEF DevicesIn
  <2>5. C!Register(hdev)
    BY <1>0, <2>3, <2>4 DEF C!Register
  <2>6. QED
    BY <2>1, <2>5 DEF C!Next
<1>8. \/ devst' = devst
      \/ Unregister /\ devst[hdev] = "registered"
      \/ FreeDevice \/ Drop \/ AllocDev \/ RegisterDev
  <2> USE DEF devVars, Fault
  <2>1. Interrupt \/ Tasklet \/ TimerFires \/ UNCHANGED vars => devst' = devst
    BY OthersLeaveDevice DEF vars
  <2>2. StartRestart \/ StartOpen \/ Settle \/ Disable \/ Enable => devst' = devst
    BY DEF StartRestart, StartOpen, Settle, Disable, Enable
  <2>3. KillTasklet \/ TaskletKilled \/ Forget \/ CloseEvent \/ CloseData \/ StopTimer
          => devst' = devst
    BY DEF KillTasklet, TaskletKilled, Forget, CloseEvent, CloseData, StopTimer
  <2>4. InitTimer \/ OpenEvent \/ OpenData \/ ForgetDropped => devst' = devst
    BY DEF InitTimer, OpenEvent, OpenData, ForgetDropped
  <2>5. Unregister => devst' = devst \/ devst[hdev] = "registered"
    BY DEF Unregister
  <2>6. QED
    BY <2>1, <2>2, <2>3, <2>4, <2>5 DEF Next, Work, Teardown, Register
<1>9. QED
  BY <1>3, <1>4, <1>5, <1>6, <1>7, <1>8

-----------------------------------------------------------------------------
(***************************************************************************)
(* What the environment can lead to.  Each part below holds under the      *)
(* pushes from outside that leave it alone; CausesInv says which.          *)
(***************************************************************************)
Registered == hdev # NULL /\ devst[hdev] = "registered"

(* The remote has opened, and its device is still to be registered; the
   remote has closed, and the driver is still to be restarted.             *)
OpenPending == opens > 0 \/ irq = "open" \/ pc \in {"settle", "register"}
ClosePending == restarts > 0 \/ irq = "close"
NoWork == Quiet /\ irq \notin {"open", "close"}

Starting == {"kill", "kill_wait", "unregister"}
HalfTorn == {"free_device", "forget", "close_event", "close_data", "stop_timer"}

(* Only a frame starts the tasklet, and only the tasklet arms the timer. *)
NoFrames == irq # "data" /\ ~tsched /\ tsk = "idle" /\ ~tarmed

(* What the holder has closed stays closed, and a new device is fresh. *)
Progress ==
  /\ pc \in {"close_data", "stop_timer"} => ev = "closed"
  /\ pc = "stop_timer" => dat = "closed"
  /\ pc \in {"init", "open_event", "open_data", "drop"} => ~Registered

(* No failure: registration never turns back, so a channel is open only
   when there is a device for it.                                          *)
Channels ==
  /\ pc \notin {"drop", "forget_dropped"}
  /\ pc \in {"alloc", "init", "open_event"} => ev = "closed" /\ dat = "closed"
  /\ pc = "open_data" => dat = "closed"
  /\ hdev = NULL /\ pc \in {"free", "kill", "kill_wait", "settle", "register"}
       => ev = "closed" /\ dat = "closed"

(* No lost work: a device that is up is registered, about to be, or on its
   way out.                                                                *)
UpIsNews ==
  (/\ ev = "up" /\ hdev # NULL /\ devst[hdev] = "alloc"
   /\ pc \notin {"free_device", "init", "open_event", "drop"})
    => OpenPending

(* One event of the remote at a time. *)
OneAtATime ==
  /\ opens = 0 \/ restarts = 0
  /\ opens <= 1 /\ restarts <= 1
  /\ irq \in {"open", "close"} => Quiet

(* And teardown only after the remote has closed: nothing comes in then. *)
TornAlone == pc \in Starting \cup HalfTorn => NoWork

(* The same of openings, as long as a teardown that comes from elsewhere
   does not get past a device that is not registered.                      *)
OpensInTurn ==
  /\ pc \in HalfTorn => opens = 0 /\ irq # "open"
  /\ OpenPending => ev = "up"
  /\ pc \in {"settle", "register"} => NoWork

(* The device of an opening is not registered yet: one that is has been
   told of the closing in between.                                         *)
NotTwice ==
  /\ OpenPending => ~Registered
  /\ ev = "waiting" /\ Registered => ClosePending \/ pc \in Starting

(* An opening finds its device. *)
DeviceThere == OpenPending => hdev # NULL

(* A restart finds its device registered. *)
CalmRestart == ClosePending \/ pc \in Starting => Registered

(* The device of an event channel's callback is still the driver's. *)
DeviceKept == irq \in {"open", "close"} => hdev # NULL /\ irqdev = hdev

Without(pushes) == env \cap pushes = {}

CausesInv ==
  /\ Progress
  /\ Without({"traffic"}) => NoFrames
  /\ Without({"fail"}) => Channels
  /\ Without({"nomem"}) => UpIsNews
  /\ Without({"flap"}) => OneAtATime
  /\ Without({"flap", "disable"}) => TornAlone
  /\ Without({"flap", "disable"}) \/ Without({"flap", "fail", "nomem"})
       => OpensInTurn
  /\ Without({"flap", "nomem", "disable"}) \/ Without({"flap", "nomem", "fail"})
       => NotTwice
  /\ Without({"flap", "fail", "disable"}) \/ Without({"flap", "fail", "nomem"})
       => DeviceThere
  /\ Without({"flap", "nomem", "disable"}) => CalmRestart
  /\ Without({"flap", "fail", "disable"}) => DeviceKept
  /\ FaultsHaveCauses

(* The tasklet and the timer leave alone what these parts speak of. *)
LEMMA SoftirqLeaves ==
  UNCHANGED vars \/ Tasklet \/ TimerFires =>
    UNCHANGED <<env, hdev, devst, ev, dat, irq, irqdev, opens, restarts, pc, who>>
<1> USE DEF devVars, smdVars, irqVars, workVars, semVars, cfgVars, Fault
<1>1. Tasklet => UNCHANGED <<env, hdev, devst, ev, dat, irq, irqdev, opens, restarts, pc, who>>
  BY DEF Tasklet, TaskletRuns, TaskletRecv, TaskletArm, TaskletOut
<1>2. TimerFires => UNCHANGED <<env, hdev, devst, ev, dat, irq, irqdev, opens, restarts, pc, who>>
  BY DEF TimerFires
<1>3. UNCHANGED vars => UNCHANGED <<env, hdev, devst, ev, dat, irq, irqdev, opens, restarts, pc, who>>
  BY DEF vars
<1> QED
  BY <1>1, <1>2, <1>3

(* The environment is chosen once. *)
LEMMA EnvStays ==
  ASSUME TypeData,
         [Next]_vars
  PROVE  env' = env
<1> USE DEF TypeData, devVars, smdVars, irqVars, workVars, semVars,
           cfgVars, Goto, Fault, Notify, Quiet
<1>1. CASE UNCHANGED vars \/ Tasklet \/ TimerFires
  BY <1>1, SoftirqLeaves
<1>2. CASE RemoteOpens
  BY <1>2 DEF RemoteOpens
<1>3. CASE RemoteCloses
  BY <1>3 DEF RemoteCloses
<1>4. CASE RemoteMovesData \/ RemoteSends
  BY <1>4 DEF RemoteMovesData, RemoteSends
<1>5. CASE NotifyRuns
  BY <1>5 DEF NotifyRuns
<1>6. CASE StartRestart
  BY <1>6 DEF StartRestart
<1>7. CASE StartOpen \/ Settle
  BY <1>7 DEF StartOpen, Settle
<1>8. CASE Disable \/ Enable
  BY <1>8 DEF Disable, Enable
<1>9. CASE KillTasklet \/ TaskletKilled
  BY <1>9 DEF KillTasklet, TaskletKilled
<1>10. CASE Unregister
  BY <1>10 DEF Unregister
<1>11. CASE FreeDevice \/ Forget
  BY <1>11 DEF FreeDevice, Forget
<1>12. CASE CloseEvent \/ CloseData \/ StopTimer
  BY <1>12 DEF CloseEvent, CloseData, StopTimer
<1>13. CASE AllocDev
  BY <1>13 DEF AllocDev
<1>14. CASE InitTimer
  BY <1>14 DEF InitTimer
<1>15. CASE OpenEvent \/ OpenData
  BY <1>15 DEF OpenEvent, OpenData
<1>16. CASE RegisterDev
  BY <1>16 DEF RegisterDev
<1>17. CASE Drop \/ ForgetDropped
  BY <1>17 DEF Drop, ForgetDropped
<1> QED
  BY <1>1, <1>2, <1>3, <1>4, <1>5, <1>6, <1>7, <1>8, <1>9, <1>10, <1>11, <1>12, <1>13, <1>14, <1>15, <1>16, <1>17
     DEF Next, Interrupt, Work, Teardown, Register

(* Nobody opens behind the holder's back what it has closed. *)
LEMMA ProgressStep ==
  ASSUME TypeData, DevInv, Progress,
         [Next]_vars
  PROVE  Progress'
<1> USE DevAssumption DEF TypeData, devVars, smdVars, irqVars, workVars, semVars,
           cfgVars, Goto, Fault, Notify, Quiet,
           Progress, Registered, DevInv, DevAtPc, Live, Freed
<1>1. CASE UNCHANGED vars \/ Tasklet \/ TimerFires
  BY <1>1, SoftirqLeaves
<1>2. CASE RemoteOpens
  BY <1>2 DEF RemoteOpens
<1>3. CASE RemoteCloses
  BY <1>3 DEF RemoteCloses
<1>4. CASE RemoteMovesData \/ RemoteSends
  BY <1>4 DEF RemoteMovesData, RemoteSends
<1>5. CASE NotifyRuns
  BY <1>5 DEF NotifyRuns
<1>6. CASE StartRestart
  BY <1>6 DEF StartRestart
<1>7. CASE StartOpen \/ Settle
  BY <1>7 DEF StartOpen, Settle
<1>8. CASE Disable \/ Enable
  BY <1>8 DEF Disable, Enable
<1>9. CASE KillTasklet \/ TaskletKilled
  BY <1>9 DEF KillTasklet, TaskletKilled
<1>10. CASE Unregister
  BY <1>10 DEF Unregister
<1>11. CASE FreeDevice \/ Forget
  BY <1>11 DEF FreeDevice, Forget
<1>12. CASE CloseEvent \/ CloseData \/ StopTimer
  BY <1>12 DEF CloseEvent, CloseData, StopTimer
<1>13. CASE AllocDev
  BY <1>13 DEF AllocDev
<1>14. CASE InitTimer
  BY <1>14 DEF InitTimer
<1>15. CASE OpenEvent \/ OpenData
  BY <1>15 DEF OpenEvent, OpenData
<1>16. CASE RegisterDev
  BY <1>16 DEF RegisterDev
<1>17. CASE Drop \/ ForgetDropped
  BY <1>17 DEF Drop, ForgetDropped
<1> QED
  BY <1>1, <1>2, <1>3, <1>4, <1>5, <1>6, <1>7, <1>8, <1>9, <1>10, <1>11, <1>12, <1>13, <1>14, <1>15, <1>16, <1>17
     DEF Next, Interrupt, Work, Teardown, Register

(* Without failures every way back to a free semaphore leaves the channels
   as the device is.                                                       *)
LEMMA ChannelsStep ==
  ASSUME TypeData, DevInv, Progress, Channels, Without({"fail"}),
         [Next]_vars
  PROVE  Channels'
<1> USE DevAssumption DEF TypeData, devVars, smdVars, irqVars, workVars, semVars,
           cfgVars, Goto, Fault, Notify, Quiet,
           Channels, Progress, Without, DevInv, DevAtPc, Live
<1>1. CASE UNCHANGED vars \/ Tasklet \/ TimerFires
  BY <1>1, SoftirqLeaves
<1>2. CASE RemoteOpens
  BY <1>2 DEF RemoteOpens
<1>3. CASE RemoteCloses
  BY <1>3 DEF RemoteCloses
<1>4. CASE RemoteMovesData \/ RemoteSends
  BY <1>4 DEF RemoteMovesData, RemoteSends
<1>5. CASE NotifyRuns
  BY <1>5 DEF NotifyRuns
<1>6. CASE StartRestart
  BY <1>6 DEF StartRestart
<1>7. CASE StartOpen \/ Settle
  BY <1>7 DEF StartOpen, Settle
<1>8. CASE Disable \/ Enable
  BY <1>8 DEF Disable, Enable
<1>9. CASE KillTasklet \/ TaskletKilled
  BY <1>9 DEF KillTasklet, TaskletKilled
<1>10. CASE Unregister
  BY <1>10 DEF Unregister
<1>11. CASE FreeDevice \/ Forget
  BY <1>11 DEF FreeDevice, Forget
<1>12. CASE CloseEvent \/ CloseData \/ StopTimer
  BY <1>12 DEF CloseEvent, CloseData, StopTimer
<1>13. CASE AllocDev
  BY <1>13 DEF AllocDev
<1>14. CASE InitTimer
  BY <1>14 DEF InitTimer
<1>15. CASE OpenEvent \/ OpenData
  BY <1>15 DEF OpenEvent, OpenData
<1>16. CASE RegisterDev
  BY <1>16 DEF RegisterDev
<1>17. CASE Drop \/ ForgetDropped
  BY <1>17 DEF Drop, ForgetDropped
<1> QED
  BY <1>1, <1>2, <1>3, <1>4, <1>5, <1>6, <1>7, <1>8, <1>9, <1>10, <1>11, <1>12, <1>13, <1>14, <1>15, <1>16, <1>17
     DEF Next, Interrupt, Work, Teardown, Register

(* The opening that makes a channel of a new device come up is kept until
   the device is registered.                                               *)
LEMMA UpIsNewsStep ==
  ASSUME TypeData, DevInv, UpIsNews, Without({"nomem"}),
         [Next]_vars
  PROVE  UpIsNews'
<1> USE DevAssumption DEF TypeData, devVars, smdVars, irqVars, workVars, semVars,
           cfgVars, Goto, Fault, Notify, Quiet,
           UpIsNews, OpenPending, Without, DevInv, DevAtPc, Live
<1>1. CASE UNCHANGED vars \/ Tasklet \/ TimerFires
  BY <1>1, SoftirqLeaves
<1>2. CASE RemoteOpens
  BY <1>2 DEF RemoteOpens
<1>3. CASE RemoteCloses
  BY <1>3 DEF RemoteCloses
<1>4. CASE RemoteMovesData \/ RemoteSends
  BY <1>4 DEF RemoteMovesData, RemoteSends
<1>5. CASE NotifyRuns
  BY <1>5 DEF NotifyRuns
<1>6. CASE StartRestart
  BY <1>6 DEF StartRestart
<1>7. CASE StartOpen \/ Settle
  BY <1>7 DEF StartOpen, Settle
<1>8. CASE Disable \/ Enable
  BY <1>8 DEF Disable, Enable
<1>9. CASE KillTasklet \/ TaskletKilled
  BY <1>9 DEF KillTasklet, TaskletKilled
<1>10. CASE Unregister
  BY <1>10 DEF Unregister
<1>11. CASE FreeDevice \/ Forget
  BY <1>11 DEF FreeDevice, Forget
<1>12. CASE CloseEvent \/ CloseData \/ StopTimer
  BY <1>12 DEF CloseEvent, CloseData, StopTimer
<1>13. CASE AllocDev
  BY <1>13 DEF AllocDev
<1>14. CASE InitTimer
  BY <1>14 DEF InitTimer
<1>15. CASE OpenEvent \/ OpenData
  BY <1>15 DEF OpenEvent, OpenData
<1>16. CASE RegisterDev
  BY <1>16 DEF RegisterDev
<1>17. CASE Drop \/ ForgetDropped
  BY <1>17 DEF Drop, ForgetDropped
<1> QED
  BY <1>1, <1>2, <1>3, <1>4, <1>5, <1>6, <1>7, <1>8, <1>9, <1>10, <1>11, <1>12, <1>13, <1>14, <1>15, <1>16, <1>17
     DEF Next, Interrupt, Work, Teardown, Register

(* A remote that waits for the work of its last event queues one at a time. *)
LEMMA OneAtATimeStep ==
  ASSUME TypeData, OneAtATime, Without({"flap"}),
         [Next]_vars
  PROVE  OneAtATime'
<1> USE DevAssumption DEF TypeData, devVars, smdVars, irqVars, workVars, semVars,
           cfgVars, Goto, Fault, Notify, Quiet,
           OneAtATime, Without
<1>1. CASE UNCHANGED vars \/ Tasklet \/ TimerFires
  BY <1>1, SoftirqLeaves
<1>2. CASE RemoteOpens
  BY <1>2 DEF RemoteOpens
<1>3. CASE RemoteCloses
  BY <1>3 DEF RemoteCloses
<1>4. CASE RemoteMovesData \/ RemoteSends
  BY <1>4 DEF RemoteMovesData, RemoteSends
<1>5. CASE NotifyRuns
  BY <1>5 DEF NotifyRuns
<1>6. CASE StartRestart
  BY <1>6 DEF StartRestart
<1>7. CASE StartOpen \/ Settle
  BY <1>7 DEF StartOpen, Settle
<1>8. CASE Disable \/ Enable
  BY <1>8 DEF Disable, Enable
<1>9. CASE KillTasklet \/ TaskletKilled
  BY <1>9 DEF KillTasklet, TaskletKilled
<1>10. CASE Unregister
  BY <1>10 DEF Unregister
<1>11. CASE FreeDevice \/ Forget
  BY <1>11 DEF FreeDevice, Forget
<1>12. CASE CloseEvent \/ CloseData \/ StopTimer
  BY <1>12 DEF CloseEvent, CloseData, StopTimer
<1>13. CASE AllocDev
  BY <1>13 DEF AllocDev
<1>14. CASE InitTimer
  BY <1>14 DEF InitTimer
<1>15. CASE OpenEvent \/ OpenData
  BY <1>15 DEF OpenEvent, OpenData
<1>16. CASE RegisterDev
  BY <1>16 DEF RegisterDev
<1>17. CASE Drop \/ ForgetDropped
  BY <1>17 DEF Drop, ForgetDropped
<1> QED
  BY <1>1, <1>2, <1>3, <1>4, <1>5, <1>6, <1>7, <1>8, <1>9, <1>10, <1>11, <1>12, <1>13, <1>14, <1>15, <1>16, <1>17
     DEF Next, Interrupt, Work, Teardown, Register

(* A restart begins with the last work item taken, and nothing comes in
   before the channels are open again.                                     *)
LEMMA TornAloneStep ==
  ASSUME TypeData, Progress, OneAtATime, TornAlone,
         Without({"flap", "disable"}),
         [Next]_vars
  PROVE  TornAlone'
<1> USE DevAssumption DEF TypeData, devVars, smdVars, irqVars, workVars, semVars,
           cfgVars, Goto, Fault, Notify, Quiet,
           TornAlone, NoWork, Starting, HalfTorn, Tearing, Progress, OneAtATime,
           Without
<1>1. CASE UNCHANGED vars \/ Tasklet \/ TimerFires
  BY <1>1, SoftirqLeaves
<1>2. CASE RemoteOpens
  BY <1>2 DEF RemoteOpens
<1>3. CASE RemoteCloses
  BY <1>3 DEF RemoteCloses
<1>4. CASE RemoteMovesData \/ RemoteSends
  BY <1>4 DEF RemoteMovesData, RemoteSends
<1>5. CASE NotifyRuns
  BY <1>5 DEF NotifyRuns
<1>6. CASE StartRestart
  BY <1>6 DEF StartRestart
<1>7. CASE StartOpen \/ Settle
  BY <1>7 DEF StartOpen, Settle
<1>8. CASE Disable \/ Enable
  BY <1>8 DEF Disable, Enable
<1>9. CASE KillTasklet \/ TaskletKilled
  BY <1>9 DEF KillTasklet, TaskletKilled
<1>10. CASE Unregister
  BY <1>10 DEF Unregister
<1>11. CASE FreeDevice \/ Forget
  BY <1>11 DEF FreeDevice, Forget
<1>12. CASE CloseEvent \/ CloseData \/ StopTimer
  BY <1>12 DEF CloseEvent, CloseData, StopTimer
<1>13. CASE AllocDev
  BY <1>13 DEF AllocDev
<1>14. CASE InitTimer
  BY <1>14 DEF InitTimer
<1>15. CASE OpenEvent \/ OpenData
  BY <1>15 DEF OpenEvent, OpenData
<1>16. CASE RegisterDev
  BY <1>16 DEF RegisterDev
<1>17. CASE Drop \/ ForgetDropped
  BY <1>17 DEF Drop, ForgetDropped
<1> QED
  BY <1>1, <1>2, <1>3, <1>4, <1>5, <1>6, <1>7, <1>8, <1>9, <1>10, <1>11, <1>12, <1>13, <1>14, <1>15, <1>16, <1>17
     DEF Next, Interrupt, Work, Teardown, Register

(* Two reasons: only restarts tear down, or a teardown that meets an opening
   meets a device that is there and not registered, and faults.            *)
LEMMA OpensInTurnStep ==
  ASSUME TypeData, DevInv, Progress, OneAtATime, OpensInTurn, Without({"flap"}),
         TornAlone \/ (NotTwice /\ DeviceThere),
         [Next]_vars
  PROVE  OpensInTurn'
<1> USE DevAssumption DEF TypeData, devVars, smdVars, irqVars, workVars, semVars,
           cfgVars, Goto, Fault, Notify, Quiet,
           OpensInTurn, OpenPending, NoWork, Starting, HalfTorn, Tearing, Progress,
           OneAtATime, TornAlone, NotTwice, DeviceThere, Registered, Without,
           DevInv, DevAtPc, Live
<1>1. CASE UNCHANGED vars \/ Tasklet \/ TimerFires
  BY <1>1, SoftirqLeaves
<1>2. CASE RemoteOpens
  BY <1>2 DEF RemoteOpens
<1>3. CASE RemoteCloses
  BY <1>3 DEF RemoteCloses
<1>4. CASE RemoteMovesData \/ RemoteSends
  BY <1>4 DEF RemoteMovesData, RemoteSends
<1>5. CASE NotifyRuns
  BY <1>5 DEF NotifyRuns
<1>6. CASE StartRestart
  BY <1>6 DEF StartRestart
<1>7. CASE StartOpen \/ Settle
  BY <1>7 DEF StartOpen, Settle
<1>8. CASE Disable \/ Enable
  BY <1>8 DEF Disable, Enable
<1>9. CASE KillTasklet \/ TaskletKilled
  BY <1>9 DEF KillTasklet, TaskletKilled
<1>10. CASE Unregister
  BY <1>10 DEF Unregister
<1>11. CASE FreeDevice \/ Forget
  BY <1>11 DEF FreeDevice, Forget
<1>12. CASE CloseEvent \/ CloseData \/ StopTimer
  BY <1>12 DEF CloseEvent, CloseData, StopTimer
<1>13. CASE AllocDev
  BY <1>13 DEF AllocDev
<1>14. CASE InitTimer
  BY <1>14 DEF InitTimer
<1>15. CASE OpenEvent \/ OpenData
  BY <1>15 DEF OpenEvent, OpenData
<1>16. CASE RegisterDev
  BY <1>16 DEF RegisterDev
<1>17. CASE Drop \/ ForgetDropped
  BY <1>17 DEF Drop, ForgetDropped
<1> QED
  BY <1>1, <1>2, <1>3, <1>4, <1>5, <1>6, <1>7, <1>8, <1>9, <1>10, <1>11, <1>12, <1>13, <1>14, <1>15, <1>16, <1>17
     DEF Next, Interrupt, Work, Teardown, Register

(* The closing stays on record until the restart has unregistered. *)
LEMMA NotTwiceStep ==
  ASSUME TypeData, DevInv, Progress, OpensInTurn, NotTwice,
         Without({"flap", "nomem"}),
         [Next]_vars
  PROVE  NotTwice'
<1> USE DevAssumption DEF TypeData, devVars, smdVars, irqVars, workVars, semVars,
           cfgVars, Goto, Fault, Notify, Quiet,
           NotTwice, OpenPending, ClosePending, NoWork, Starting, HalfTorn, Tearing,
           Progress, OpensInTurn, Registered, Without, DevInv, DevAtPc, Live
<1>1. CASE UNCHANGED vars \/ Tasklet \/ TimerFires
  BY <1>1, SoftirqLeaves
<1>2. CASE RemoteOpens
  BY <1>2 DEF RemoteOpens
<1>3. CASE RemoteCloses
  BY <1>3 DEF RemoteCloses
<1>4. CASE RemoteMovesData \/ RemoteSends
  BY <1>4 DEF RemoteMovesData, RemoteSends
<1>5. CASE NotifyRuns
  BY <1>5 DEF NotifyRuns
<1>6. CASE StartRestart
  BY <1>6 DEF StartRestart
<1>7. CASE StartOpen \/ Settle
  BY <1>7 DEF StartOpen, Settle
<1>8. CASE Disable \/ Enable
  BY <1>8 DEF Disable, Enable
<1>9. CASE KillTasklet \/ TaskletKilled
  BY <1>9 DEF KillTasklet, TaskletKilled
<1>10. CASE Unregister
  BY <1>10 DEF Unregister
<1>11. CASE FreeDevice \/ Forget
  BY <1>11 DEF FreeDevice, Forget
<1>12. CASE CloseEvent \/ CloseData \/ StopTimer
  BY <1>12 DEF CloseEvent, CloseData, StopTimer
<1>13. CASE AllocDev
  BY <1>13 DEF AllocDev
<1>14. CASE InitTimer
  BY <1>14 DEF InitTimer
<1>15. CASE OpenEvent \/ OpenData
  BY <1>15 DEF OpenEvent, OpenData
<1>16. CASE RegisterDev
  BY <1>16 DEF RegisterDev
<1>17. CASE Drop \/ ForgetDropped
  BY <1>17 DEF Drop, ForgetDropped
<1> QED
  BY <1>1, <1>2, <1>3, <1>4, <1>5, <1>6, <1>7, <1>8, <1>9, <1>10, <1>11, <1>12, <1>13, <1>14, <1>15, <1>16, <1>17
     DEF Next, Interrupt, Work, Teardown, Register

(* Only a teardown takes the device away, and no opening waits then. *)
LEMMA DeviceThereStep ==
  ASSUME TypeData, DevInv, Channels, OpensInTurn, DeviceThere,
         Without({"fail"}),
         [Next]_vars
  PROVE  DeviceThere'
<1> USE DevAssumption DEF TypeData, devVars, smdVars, irqVars, workVars, semVars,
           cfgVars, Goto, Fault, Notify, Quiet,
           DeviceThere, OpenPending, HalfTorn, Channels, OpensInTurn, Without,
           DevInv, DevAtPc, Live
<1>1. CASE UNCHANGED vars \/ Tasklet \/ TimerFires
  BY <1>1, SoftirqLeaves
<1>2. CASE RemoteOpens
  BY <1>2 DEF RemoteOpens
<1>3. CASE RemoteCloses
  BY <1>3 DEF RemoteCloses
<1>4. CASE RemoteMovesData \/ RemoteSends
  BY <1>4 DEF RemoteMovesData, RemoteSends
<1>5. CASE NotifyRuns
  BY <1>5 DEF NotifyRuns
<1>6. CASE StartRestart
  BY <1>6 DEF StartRestart
<1>7. CASE StartOpen \/ Settle
  BY <1>7 DEF StartOpen, Settle
<1>8. CASE Disable \/ Enable
  BY <1>8 DEF Disable, Enable
<1>9. CASE KillTasklet \/ TaskletKilled
  BY <1>9 DEF KillTasklet, TaskletKilled
<1>10. CASE Unregister
  BY <1>10 DEF Unregister
<1>11. CASE FreeDevice \/ Forget
  BY <1>11 DEF FreeDevice, Forget
<1>12. CASE CloseEvent \/ CloseData \/ StopTimer
  BY <1>12 DEF CloseEvent, CloseData, StopTimer
<1>13. CASE AllocDev
  BY <1>13 DEF AllocDev
<1>14. CASE InitTimer
  BY <1>14 DEF InitTimer
<1>15. CASE OpenEvent \/ OpenData
  BY <1>15 DEF OpenEvent, OpenData
<1>16. CASE RegisterDev
  BY <1>16 DEF RegisterDev
<1>17. CASE Drop \/ ForgetDropped
  BY <1>17 DEF Drop, ForgetDropped
<1> QED
  BY <1>1, <1>2, <1>3, <1>4, <1>5, <1>6, <1>7, <1>8, <1>9, <1>10, <1>11, <1>12, <1>13, <1>14, <1>15, <1>16, <1>17
     DEF Next, Interrupt, Work, Teardown, Register

(* When the remote closes, the device is registered: it is up, and no
   opening waits.  It stays so: no opening fails on it, and nobody else
   tears it down.                                                          *)
LEMMA CalmRestartStep ==
  ASSUME TypeData, DevInv, Progress, UpIsNews, TornAlone, NotTwice, CalmRestart,
         Without({"flap", "nomem", "disable"}),
         [Next]_vars
  PROVE  CalmRestart'
<1> USE DevAssumption DEF TypeData, devVars, smdVars, irqVars, workVars, semVars,
           cfgVars, Goto, Fault, Notify, Quiet,
           CalmRestart, OpenPending, ClosePending, NoWork, Starting, HalfTorn,
           Progress, UpIsNews, TornAlone, NotTwice, Registered, Without,
           DevInv, DevAtPc, NoDanglingHdev, Live, Freed
<1>1. CASE UNCHANGED vars \/ Tasklet \/ TimerFires
  BY <1>1, SoftirqLeaves
<1>2. CASE RemoteOpens
  BY <1>2 DEF RemoteOpens
<1>3. CASE RemoteCloses
  BY <1>3 DEF RemoteCloses
<1>4. CASE RemoteMovesData \/ RemoteSends
  BY <1>4 DEF RemoteMovesData, RemoteSends
<1>5. CASE NotifyRuns
  BY <1>5 DEF NotifyRuns
<1>6. CASE StartRestart
  BY <1>6 DEF StartRestart
<1>7. CASE StartOpen \/ Settle
  BY <1>7 DEF StartOpen, Settle
<1>8. CASE Disable \/ Enable
  BY <1>8 DEF Disable, Enable
<1>9. CASE KillTasklet \/ TaskletKilled
  BY <1>9 DEF KillTasklet, TaskletKilled
<1>10. CASE Unregister
  BY <1>10 DEF Unregister
<1>11. CASE FreeDevice \/ Forget
  BY <1>11 DEF FreeDevice, Forget
<1>12. CASE CloseEvent \/ CloseData \/ StopTimer
  BY <1>12 DEF CloseEvent, CloseData, StopTimer
<1>13. CASE AllocDev
  BY <1>13 DEF AllocDev
<1>14. CASE InitTimer
  BY <1>14 DEF InitTimer
<1>15. CASE OpenEvent \/ OpenData
  BY <1>15 DEF OpenEvent, OpenData
<1>16. CASE RegisterDev
  BY <1>16 DEF RegisterDev
<1>17. CASE Drop \/ ForgetDropped
  BY <1>17 DEF Drop, ForgetDropped
<1> QED
  BY <1>1, <1>2, <1>3, <1>4, <1>5, <1>6, <1>7, <1>8, <1>9, <1>10, <1>11, <1>12, <1>13, <1>14, <1>15, <1>16, <1>17
     DEF Next, Interrupt, Work, Teardown, Register

(* The device changes hands only in a teardown, which no callback of the
   event channel meets, and in an allocation, when there is none.          *)
LEMMA DeviceKeptStep ==
  ASSUME TypeData, DevInv, Channels, TornAlone, DeviceKept,
         Without({"flap", "fail", "disable"}),
         [Next]_vars
  PROVE  DeviceKept'
<1> USE DevAssumption DEF TypeData, devVars, smdVars, irqVars, workVars, semVars,
           cfgVars, Goto, Fault, Notify, Quiet,
           DeviceKept, NoWork, Starting, HalfTorn, Channels, TornAlone, Without,
           DevInv, DevAtPc
<1>1. CASE UNCHANGED vars \/ Tasklet \/ TimerFires
  BY <1>1, SoftirqLeaves
<1>2. CASE RemoteOpens
  BY <1>2 DEF RemoteOpens
<1>3. CASE RemoteCloses
  BY <1>3 DEF RemoteCloses
<1>4. CASE RemoteMovesData \/ RemoteSends
  BY <1>4 DEF RemoteMovesData, RemoteSends
<1>5. CASE NotifyRuns
  BY <1>5 DEF NotifyRuns
<1>6. CASE StartRestart
  BY <1>6 DEF StartRestart
<1>7. CASE StartOpen \/ Settle
  BY <1>7 DEF StartOpen, Settle
<1>8. CASE Disable \/ Enable
  BY <1>8 DEF Disable, Enable
<1>9. CASE KillTasklet \/ TaskletKilled
  BY <1>9 DEF KillTasklet, TaskletKilled
<1>10. CASE Unregister
  BY <1>10 DEF Unregister
<1>11. CASE FreeDevice \/ Forget
  BY <1>11 DEF FreeDevice, Forget
<1>12. CASE CloseEvent \/ CloseData \/ StopTimer
  BY <1>12 DEF CloseEvent, CloseData, StopTimer
<1>13. CASE AllocDev
  BY <1>13 DEF AllocDev
<1>14. CASE InitTimer
  BY <1>14 DEF InitTimer
<1>15. CASE OpenEvent \/ OpenData
  BY <1>15 DEF OpenEvent, OpenData
<1>16. CASE RegisterDev
  BY <1>16 DEF RegisterDev
<1>17. CASE Drop \/ ForgetDropped
  BY <1>17 DEF Drop, ForgetDropped
<1> QED
  BY <1>1, <1>2, <1>3, <1>4, <1>5, <1>6, <1>7, <1>8, <1>9, <1>10, <1>11, <1>12, <1>13, <1>14, <1>15, <1>16, <1>17
     DEF Next, Interrupt, Work, Teardown, Register

(* Without frames the receive path rests. *)
LEMMA NoFramesStep ==
  ASSUME TypeData, NoFrames, Without({"traffic"}),
         [Next]_vars
  PROVE  NoFrames'
<1> USE DEF NoFrames, Without, devVars, smdVars, irqVars, taskVars, timeVars,
            workVars, semVars, cfgVars, Fault
<1>1. CASE RemoteOpens \/ RemoteCloses \/ RemoteMovesData
  BY <1>1 DEF RemoteOpens, RemoteCloses, RemoteMovesData, Notify
<1>2. CASE RemoteSends
  BY <1>2 DEF RemoteSends
<1>3. CASE NotifyRuns
  <2>1. irq' \in {irq, "none"} /\ UNCHANGED <<tsk, tarmed>>
    BY <1>3 DEF NotifyRuns
  <2>2. ~tsched'
    BY <1>3 DEF NotifyRuns
  <2> QED
    BY <2>1, <2>2
<1>4. CASE Tasklet
  BY <1>4 DEF Tasklet, TaskletRuns, TaskletRecv, TaskletArm, TaskletOut
<1>5. CASE TimerFires
  BY <1>5 DEF TimerFires
<1>6. CASE StopTimer
  BY <1>6 DEF StopTimer
<1>7. CASE StartRestart \/ StartOpen \/ Settle \/ Disable \/ Enable
  BY <1>7 DEF StartRestart, StartOpen, Settle, Disable, Enable
<1>8. CASE \/ KillTasklet \/ TaskletKilled \/ Unregister \/ FreeDevice \/ Forget
           \/ CloseEvent \/ CloseData
  BY <1>8 DEF KillTasklet, TaskletKilled, Unregister, FreeDevice, Forget, CloseEvent,
              CloseData
<1>9. CASE AllocDev \/ InitTimer \/ OpenEvent \/ OpenData
  BY <1>9 DEF AllocDev, InitTimer, OpenEvent, OpenData
<1>10. CASE RegisterDev \/ Drop \/ ForgetDropped
  BY <1>10 DEF RegisterDev, Drop, ForgetDropped
<1>11. CASE UNCHANGED vars
  BY <1>11 DEF vars
<1> QED
  BY <1>1, <1>2, <1>3, <1>4, <1>5, <1>6, <1>7, <1>8, <1>9, <1>10, <1>11
     DEF Next, Interrupt, Work, Teardown, Register

(***************************************************************************)
(* The faults.                                                             *)
(***************************************************************************)
RxFaults ==
  {"rx_on_no_device", "rx_on_freed_device", "timer_on_freed_device",
   "timer_without_function", "busy_tasklet_reinitialised",
   "pending_timer_reinitialised"}

(* In what state each of them happens. *)
LEMMA FaultSources ==
  ASSUME Next
  PROVE  \/ fault' = "none"
         \/ fault' \in RxFaults /\ ~NoFrames
         \/ fault' = "irq_on_freed_device" /\ irq \in {"open", "close", "data_state"}
              /\ irq' = irq /\ Freed(irqdev)
         \/ fault' = "unregister_unregistered" /\ pc = "unregister" /\ ~Registered
         \/ fault' = "null_register" /\ OpenPending /\ hdev = NULL
         \/ fault' = "double_register" /\ OpenPending /\ Registered
<1>0. fault = "none"
  BY DEF Next
<1> USE <1>0 DEF Fault, irqVars
<1>1. CASE Interrupt
  BY <1>1 DEF Interrupt, RemoteOpens, RemoteCloses, RemoteMovesData, RemoteSends, NotifyRuns
<1>2. CASE Tasklet
  BY <1>2 DEF Tasklet, TaskletRuns, TaskletRecv, TaskletArm, TaskletOut, RxFaults, NoFrames
<1>3. CASE TimerFires
  BY <1>3 DEF TimerFires, RxFaults, NoFrames
<1>4. CASE StartRestart \/ StartOpen \/ Settle \/ Disable \/ Enable
  BY <1>4 DEF StartRestart, StartOpen, Settle, Disable, Enable
<1>5. CASE \/ KillTasklet \/ TaskletKilled \/ FreeDevice \/ Forget
           \/ CloseEvent \/ CloseData \/ StopTimer
  BY <1>5 DEF KillTasklet, TaskletKilled, FreeDevice, Forget, CloseEvent, CloseData,
              StopTimer
<1>6. CASE Unregister
  BY <1>6 DEF Unregister, Registered
<1>7. CASE InitTimer
  BY <1>7 DEF InitTimer, RxFaults, NoFrames
<1>8. CASE AllocDev \/ OpenEvent \/ OpenData \/ Drop \/ ForgetDropped
  BY <1>8 DEF AllocDev, OpenEvent, OpenData, Drop, ForgetDropped
<1>9. CASE RegisterDev
  BY <1>9 DEF RegisterDev, OpenPending, Registered
<1> QED
  BY <1>1, <1>2, <1>3, <1>4, <1>5, <1>6, <1>7, <1>8, <1>9
     DEF Next, Work, Teardown, Register

LEMMA CausesStep ==
  ASSUME TypeData, DevInv, CausesInv, Next
  PROVE  FaultsHaveCauses'
<1>0. env' = env /\ env \subseteq EnvChoices
  BY EnvStays DEF TypeData
<1>1. CASE fault' = "none"
  BY <1>1 DEF FaultsHaveCauses
<1>2. CASE fault' \in RxFaults /\ ~NoFrames
  <2>1. "traffic" \in env
    BY <1>2 DEF CausesInv, Without
  <2> QED
    BY <1>0, <1>2, <2>1 DEF FaultsHaveCauses, RxFaults
<1>3. CASE fault' = "irq_on_freed_device" /\ irq \in {"open", "close", "data_state"}
           /\ irq' = irq /\ Freed(irqdev)
  <2>1. ASSUME irq # "data_state", Without({"flap", "fail", "disable"})
        PROVE  FALSE
    <3>1. DeviceKept /\ TornAlone /\ Channels
      BY <2>1 DEF CausesInv, Without
    <3>2. Freed(hdev)
      BY <1>3, <2>1, <3>1 DEF DeviceKept
    <3>3. pc = "forget"
      BY <3>1, <3>2 DEF DevInv, NoDanglingHdev, Channels
    <3> QED
      BY <1>3, <2>1, <3>1, <3>3 DEF TornAlone, HalfTorn, NoWork
  <2> QED
    BY <1>0, <1>3, <2>1 DEF FaultsHaveCauses, Without
<1>4. CASE fault' = "unregister_unregistered" /\ pc = "unregister" /\ ~Registered
  <2>1. ~Without({"flap", "nomem", "disable"})
    BY <1>4 DEF CausesInv, CalmRestart, Starting
  <2> QED
    BY <1>0, <1>4, <2>1 DEF FaultsHaveCauses, Without
<1>5. CASE fault' = "null_register" /\ OpenPending /\ hdev = NULL
  <2>1. /\ ~Without({"flap", "fail", "disable"})
        /\ ~Without({"flap", "fail", "nomem"})
    BY <1>5 DEF CausesInv, DeviceThere
  <2>2. env \cap {"fail", "flap"} # {} \/ {"nomem", "disable"} \subseteq env
    BY <2>1 DEF Without
  <2> QED
    BY <1>0, <1>5, <2>2 DEF FaultsHaveCauses
<1>6. CASE fault' = "double_register" /\ OpenPending /\ Registered
  <2>1. /\ ~Without({"flap", "nomem", "disable"})
        /\ ~Without({"flap", "nomem", "fail"})
    BY <1>6 DEF CausesInv, NotTwice
  <2>2. env \cap {"nomem", "flap"} # {} \/ {"fail", "disable"} \subseteq env
    BY <2>1 DEF Without
  <2> QED
    BY <1>0, <1>6, <2>2 DEF FaultsHaveCauses
<1> QED
  BY <1>1, <1>2, <1>3, <1>4, <1>5, <1>6, FaultSources

(* All parts together. *)
LEMMA CausesInvStep == TypeData /\ DevInv /\ CausesInv /\ [Next]_vars => CausesInv'
<1> SUFFICES ASSUME TypeData, DevInv, CausesInv, [Next]_vars
             PROVE  CausesInv'
  OBVIOUS
<1>0. env' = env
  BY EnvStays
<1>1. Progress'
  BY ProgressStep DEF CausesInv
<1>2. Without({"traffic"}) => NoFrames'
  BY NoFramesStep DEF CausesInv
<1>3. Without({"fail"}) => Channels'
  BY ChannelsStep DEF CausesInv
<1>4. Without({"nomem"}) => UpIsNews'
  BY UpIsNewsStep DEF CausesInv
<1>5. Without({"flap"}) => OneAtATime'
  BY OneAtATimeStep DEF CausesInv
<1>6. ASSUME Without({"flap", "disable"})
      PROVE  TornAlone'
  <2>1. Without({"flap"})
    BY <1>6 DEF Without
  <2> QED
    BY <1>6, <2>1, TornAloneStep DEF CausesInv
<1>7. ASSUME Without({"flap", "disable"}) \/ Without({"flap", "fail", "nomem"})
      PROVE  OpensInTurn'
  <2>1. Without({"flap"})
    BY <1>7 DEF Without
  <2>2. Without({"flap", "disable"}) \/ Without({"flap", "nomem", "fail"})
    BY <1>7 DEF Without
  <2> QED
    BY <1>7, <2>1, <2>2, OpensInTurnStep DEF CausesInv
<1>8. ASSUME Without({"flap", "nomem", "disable"}) \/ Without({"flap", "nomem", "fail"})
      PROVE  NotTwice'
  <2>1. /\ Without({"flap", "nomem"})
        /\ Without({"flap", "disable"}) \/ Without({"flap", "fail", "nomem"})
    BY <1>8 DEF Without
  <2> QED
    BY <1>8, <2>1, NotTwiceStep DEF CausesInv
<1>9. ASSUME Without({"flap", "fail", "disable"}) \/ Without({"flap", "fail", "nomem"})
      PROVE  DeviceThere'
  <2>1. /\ Without({"fail"})
        /\ Without({"flap", "disable"}) \/ Without({"flap", "fail", "nomem"})
    BY <1>9 DEF Without
  <2> QED
    BY <1>9, <2>1, DeviceThereStep DEF CausesInv
<1>10. ASSUME Without({"flap", "nomem", "disable"})
       PROVE  CalmRestart'
  <2>1. Without({"nomem"}) /\ Without({"flap", "disable"})
    BY <1>10 DEF Without
  <2> QED
    BY <1>10, <2>1, CalmRestartStep DEF CausesInv
<1>11. ASSUME Without({"flap", "fail", "disable"})
       PROVE  DeviceKept'
  <2>1. Without({"fail"}) /\ Without({"flap", "disable"})
    BY <1>11 DEF Without
  <2> QED
    BY <1>11, <2>1, DeviceKeptStep DEF CausesInv
<1>12. FaultsHaveCauses'
  <2>1. CASE Next
    BY <2>1, CausesStep
  <2>2. CASE UNCHANGED vars
    BY <1>0, <2>2 DEF vars, irqVars, CausesInv, FaultsHaveCauses
  <2> QED
    BY <2>1, <2>2
<1> QED
  BY <1>0, <1>1, <1>2, <1>3, <1>4, <1>5, <1>6, <1>7, <1>8, <1>9, <1>10, <1>11, <1>12
     DEF CausesInv, Without

LEMMA CausesInit == Init => CausesInv
<1> SUFFICES ASSUME Init
             PROVE  CausesInv
  OBVIOUS
<1>1. Progress /\ NoFrames /\ Channels /\ UpIsNews /\ OneAtATime
  BY DEF Init, Progress, NoFrames, Channels, UpIsNews, OneAtATime, Quiet, Registered
<1>2. TornAlone /\ OpensInTurn /\ NotTwice /\ DeviceThere /\ CalmRestart
      /\ DeviceKept
  BY DEF Init, TornAlone, OpensInTurn, NotTwice, DeviceThere, CalmRestart, DeviceKept, NoWork,
         OpenPending, ClosePending, Starting, HalfTorn, Registered, Quiet
<1>3. FaultsHaveCauses
  BY DEF Init, FaultsHaveCauses
<1> QED
  BY <1>1, <1>2, <1>3 DEF CausesInv

THEOREM DevCauses == Spec => []CausesInv
<1>1. IInv => TypeData /\ DevInv
  BY TypeParts DEF IInv, DevInv
<1> QED
  BY <1>1, DevInvariant, CausesInit, CausesInvStep, PTL DEF Spec

(* Each misuse of the kernel's API needs the push from outside that is named
   for it, however many events, works and devices there are.               *)
THEOREM DevFaultsHaveCauses == Spec => []FaultsHaveCauses
<1>1. CausesInv => FaultsHaveCauses
  BY DEF CausesInv
<1> QED
  BY <1>1, DevCauses, PTL

(* Without failures and lost work no restart, disable or flapping remote
   leaves a channel up without a registered device.                        *)
THEOREM DevUpMeansRegistered == Spec => []UpMeansRegistered
<1>1. ASSUME TypeData, DevInv, CausesInv
      PROVE  UpMeansRegistered
  <2> SUFFICES ASSUME Without({"fail", "nomem"}), pc = "free", Quiet, irq = "none",
                      ev = "up"
               PROVE  hdev # NULL /\ devst[hdev] = "registered"
    BY DEF UpMeansRegistered, Without
  <2>1. Channels /\ UpIsNews
    <3>1. Without({"fail"}) /\ Without({"nomem"})
      BY DEF Without
    <3> QED
      BY <1>1, <3>1 DEF CausesInv
  <2>2. hdev # NULL
    BY <2>1 DEF Channels
  <2>3. devst[hdev] # "alloc"
    BY <2>1, <2>2 DEF UpIsNews, OpenPending, Quiet
  <2>4. devst[hdev] \in {"alloc", "registered"}
    <3>1. devst[hdev] \in {"unused", "alloc", "registered", "freed"}
      BY <1>1, <2>2 DEF TypeData
    <3>2. devst[hdev] # "unused" /\ devst[hdev] # "freed"
      BY <1>1, <2>2 DEF DevInv, DevAtPc, NoDanglingHdev, Freed
    <3> QED
      BY <3>1, <3>2
  <2> QED
    BY <2>2, <2>3, <2>4
<1>2. IInv => TypeData /\ DevInv
  BY TypeParts DEF IInv, DevInv
<1> QED
  BY <1>1, <1>2, DevInvariant, DevCauses, PTL

-----------------------------------------------------------------------------
(* Up to the first call that is not defined the driver makes only the calls
   the Bluetooth core allows, for any number of devices and restarts; and
   plain restarts never lead to one that is not.                           *)
THEOREM DevImplementsCore == Spec => ContractKept
<1>1. Init => C!Init /\ NotOffered
  <2>1. Init => ~(PlainRestarts /\ fault \in Misuses)
    BY DEF Init, Misuses
  <2> QED
    BY <2>1 DEF Init, C!Init, DevicesIn, NotOffered
<1>2. IInv /\ NotOffered /\ [Next]_vars /\ FaultsHaveCauses /\ FaultsHaveCauses'
        => NotOffered' /\ [C!Next]_C!coreVars
  BY NotOfferedStep, CallStep, TypeParts DEF IInv, DevInv
<1>3. QED
  BY <1>1, <1>2, DevInvariant, DevFaultsHaveCauses, PTL DEF Spec, ContractKept, C!Spec
=============================================================================
