--------------------------- MODULE HciSmdRxProofs ---------------------------
(***************************************************************************)
(* Theorems about the receive path, for any number of frames.  The         *)
(* invariant is inductive as a whole: TypeOK needs FrameThere (a frame is  *)
(* only taken from a channel that holds one), and NoStrandedLock needs     *)
(* QueueWatched at the moment the tasklet leaves the lock held, because    *)
(* frames are queued.                                                      *)
(***************************************************************************)
EXTENDS HciSmdRx, TLAPS

(* The tasklet is the only reader: what it saw in a channel is still there. *)
FrameThere == pc = "frame" => avail[cur] > 0

IInv == TypeOK /\ FrameThere /\ NoLostKick /\ QueueWatched /\ NoStrandedLock

(* The inductive invariant holds when the device has just been registered. *)
LEMMA InitIInv == Init => IInv
<1> SUFFICES ASSUME Init PROVE IInv
  OBVIOUS
<1>1. TypeOK
  BY MaxFramesAssumption DEF Init, TypeOK, Chan
<1>2. FrameThere /\ QueueWatched /\ NoStrandedLock
  BY DEF Init, FrameThere, QueueWatched, NoStrandedLock
<1>3. NoLostKick
  BY DEF Init, NoLostKick
<1>4. QED
  BY <1>1, <1>2, <1>3 DEF IInv

(* Every step keeps the variables' types, one action at a time. *)
LEMMA TypeStep == TypeOK /\ FrameThere /\ [Next]_vars => TypeOK'
<1> SUFFICES ASSUME TypeOK, FrameThere, [Next]_vars PROVE TypeOK'
  OBVIOUS
<1> USE DEF TypeOK, Chan, chanVars, taskVars
<1>1. ASSUME NEW c \in Chan, Arrive(c) PROVE TypeOK'
  BY <1>1 DEF Arrive
<1>2. ASSUME NEW c \in Chan, Notify(c) PROVE TypeOK'
  BY <1>2 DEF Notify
<1>3. CASE RxWork
  BY <1>3 DEF RxWork
<1>4. CASE RxStart
  BY <1>4 DEF RxStart, Goto
<1>5. CASE RxLoop
  BY <1>5 DEF RxLoop, Goto
<1>6. CASE RxRecv
  BY <1>6 DEF RxRecv, Goto
<1>7. ASSUME NEW queued \in BOOLEAN, RxFrame(queued) PROVE TypeOK'
  BY <1>7 DEF RxFrame, Goto, FrameThere
<1>8. CASE RxArm
  BY <1>8 DEF RxArm, Goto
<1>9. CASE RxOut
  BY <1>9 DEF RxOut, Goto
<1>10. CASE Timer
  BY <1>10 DEF Timer, TimerFire, TimerCheckLock, TimerRelease, TimerRearm
<1>11. CASE UNCHANGED vars
  BY <1>11 DEF vars
<1>12. QED
  BY <1>1, <1>2, <1>3, <1>4, <1>5, <1>6, <1>7, <1>8, <1>9, <1>10, <1>11
     DEF Next, Tasklet

(* Every step keeps the four relations between the actors. *)
LEMMA RelationsStep ==
  IInv /\ [Next]_vars
    => FrameThere' /\ NoLostKick' /\ QueueWatched' /\ NoStrandedLock'
<1> SUFFICES ASSUME IInv, [Next]_vars
             PROVE FrameThere' /\ NoLostKick' /\ QueueWatched' /\ NoStrandedLock'
  OBVIOUS
<1> DEFINE Kept == FrameThere' /\ NoLostKick' /\ QueueWatched' /\ NoStrandedLock'
<1> USE DEF IInv, TypeOK, FrameThere, NoLostKick, QueueWatched, NoStrandedLock,
            Chan, chanVars, taskVars
<1>1. ASSUME NEW c \in Chan, Arrive(c) PROVE Kept
  BY <1>1 DEF Arrive
<1>2. ASSUME NEW c \in Chan, Notify(c) PROVE Kept
  BY <1>2 DEF Notify
<1>3. CASE RxWork
  BY <1>3 DEF RxWork
<1>4. CASE RxStart
  BY <1>4 DEF RxStart, Goto
<1>5. CASE RxLoop
  BY <1>5 DEF RxLoop, Goto
<1>6. CASE RxRecv
  BY <1>6 DEF RxRecv, Goto
<1>7. ASSUME NEW queued \in BOOLEAN, RxFrame(queued) PROVE Kept
  BY <1>7 DEF RxFrame, Goto
<1>8. CASE RxArm
  BY <1>8 DEF RxArm, Goto
<1>9. CASE RxOut
  BY <1>9 DEF RxOut, Goto
<1>10. CASE Timer
  BY <1>10 DEF Timer, TimerFire, TimerCheckLock, TimerRelease, TimerRearm
<1>11. CASE UNCHANGED vars
  BY <1>11 DEF vars
<1>12. QED
  BY <1>1, <1>2, <1>3, <1>4, <1>5, <1>6, <1>7, <1>8, <1>9, <1>10, <1>11
     DEF Next, Tasklet

(* The inductive invariant holds in every reachable state. *)
THEOREM RxInvariant == Spec => []IInv
<1>1. Init => IInv
  BY InitIInv
<1>2. IInv /\ [Next]_vars => IInv'
  BY TypeStep, RelationsStep DEF IInv
<1>3. QED
  BY <1>1, <1>2, PTL DEF Spec

(* Type correctness: no channel count goes below zero, so the receive
   functions never read a frame that is not there.                         *)
THEOREM RxTypeCorrect == Spec => []TypeOK
<1>1. IInv => TypeOK
  BY DEF IInv
<1>2. QED
  BY <1>1, RxInvariant, PTL

(* For any traffic, no wake-up of the tasklet is lost. *)
THEOREM RxNoLostKick == Spec => []NoLostKick
<1>1. IInv => NoLostKick
  BY DEF IInv
<1>2. QED
  BY <1>1, RxInvariant, PTL

(* For any traffic, queued frames are watched by the timer. *)
THEOREM RxQueueWatched == Spec => []QueueWatched
<1>1. IInv => QueueWatched
  BY DEF IInv
<1>2. QED
  BY <1>1, RxInvariant, PTL

(* For any traffic, a held Rx wake lock has someone who will release it. *)
THEOREM RxNoStrandedLock == Spec => []NoStrandedLock
<1>1. IInv => NoStrandedLock
  BY DEF IInv
<1>2. QED
  BY <1>1, RxInvariant, PTL

(* For any traffic, neither a frame nor the lock is left to nobody. *)
THEOREM RxGuarded == Spec => []Guarded
<1>1. QueueWatched /\ NoStrandedLock => Guarded
  BY DEF Guarded
<1>2. QED
  BY <1>1, RxQueueWatched, RxNoStrandedLock, PTL
=============================================================================
