------------------------------ MODULE HciSmdRx ------------------------------
(***************************************************************************)
(* Receive path of the Bluetooth driver hci_smd.c while its HCI device     *)
(* stays registered: the remote processor puts frames on the event and the *)
(* data channel, the notification callbacks schedule one tasklet, the      *)
(* tasklet passes the frames to the Bluetooth core, and a timer and the    *)
(* tasklet both decide when the Rx wake lock may go.                       *)
(*                                                                         *)
(* Four actors interleave: the SMD interrupt, the tasklet, the timer       *)
(* callback (softirqs of possibly different CPUs) and the Bluetooth core's *)
(* rx_work.  Teardown of the device is the subject of HciSmdDev.           *)
(***************************************************************************)
EXTENDS Naturals

CONSTANT MaxFrames      \* frames the remote sends on each channel: a bound

ASSUME MaxFramesAssumption == MaxFrames \in Nat

Chan == {"event", "data"}

VARIABLES
  toSend,   \* [Chan -> Nat]  frames the remote has still to send
  avail,    \* [Chan -> Nat]  frames smd_read_avail reports
  irq,      \* channels whose SMD_EVENT_DATA notification is outstanding
  sched,    \* is hs.rx_task scheduled
  pc,       \* where the tasklet is
  cur,      \* the channel it is serving
  rxq,      \* frames in hdev->rx_q, not yet taken by the core's rx_work
  held,     \* wake_lock_active(&hs.wake_lock_rx)
  armed,    \* is hs.rx_q_timer pending
  cb        \* where its callback schedule_timer is

chanVars == <<toSend, avail, irq>>
taskVars == <<sched, pc, cur>>
vars == <<toSend, avail, irq, sched, pc, cur, rxq, held, armed, cb>>

TypeOK ==
  /\ toSend \in [Chan -> Nat]
  /\ avail \in [Chan -> Nat]
  /\ irq \in SUBSET Chan
  /\ sched \in BOOLEAN
  /\ pc \in {"idle", "loop", "recv", "frame", "arm", "out"}
  /\ cur \in Chan
  /\ rxq \in Nat
  /\ held \in BOOLEAN
  /\ armed \in BOOLEAN
  /\ cb \in {"idle", "empty", "release", "rearm"}

Init ==
  /\ toSend = [c \in Chan |-> MaxFrames]
  /\ avail = [c \in Chan |-> 0]
  /\ irq = {}
  /\ sched = FALSE
  /\ pc = "idle"
  /\ cur = "event"
  /\ rxq = 0
  /\ held = FALSE
  /\ armed = FALSE
  /\ cb = "idle"

-----------------------------------------------------------------------------
(***************************************************************************)
(* Outside the driver: a frame reaches a channel and raises the interrupt, *)
(* and the core's rx_work takes a frame off hdev->rx_q.                    *)
(***************************************************************************)
Arrive(c) ==
  /\ toSend[c] > 0
  /\ toSend' = [toSend EXCEPT ![c] = @ - 1]
  /\ avail' = [avail EXCEPT ![c] = @ + 1]
  /\ irq' = irq \cup {c}
  /\ UNCHANGED <<taskVars, rxq, held, armed, cb>>

RxWork ==
  /\ rxq > 0
  /\ rxq' = rxq - 1
  /\ UNCHANGED <<chanVars, taskVars, held, armed, cb>>

(* SMD_EVENT_DATA in hci_smd_notify_event and in hci_smd_notify_data. *)
Notify(c) ==
  /\ c \in irq
  /\ irq' = irq \ {c}
  /\ sched' = (sched \/ avail[c] > 0)
  /\ UNCHANGED <<toSend, avail, pc, cur, rxq, held, armed, cb>>

-----------------------------------------------------------------------------
(***************************************************************************)
(* The tasklet hci_smd_rx.                                                 *)
(***************************************************************************)
Goto(from, to) == pc = from /\ pc' = to

RxStart ==
  /\ sched
  /\ Goto("idle", "loop")
  /\ sched' = FALSE
  /\ UNCHANGED <<chanVars, cur, rxq, held, armed, cb>>

(* The definitions whose names end in _<Slip> are mutated forms of the one
   that follows them: slips the properties below are there to catch.       *)
RxLoop_EventOnly ==
  /\ Goto("loop", IF avail["event"] > 0 THEN "recv" ELSE "idle")
  /\ cur' = "event"
  /\ UNCHANGED <<chanVars, sched, rxq, held, armed, cb>>

(* The while condition of hci_smd_rx: both channels are looked at. *)
RxLoop ==
  /\ Goto("loop", IF \E c \in Chan : avail[c] > 0 THEN "recv" ELSE "idle")
  /\ cur' = "event"
  /\ UNCHANGED <<chanVars, sched, rxq, held, armed, cb>>

RxRecv_NoLengthCheck ==
  /\ Goto("recv", "frame")
  /\ held' = TRUE
  /\ UNCHANGED <<chanVars, sched, cur, rxq, armed, cb>>

(* Entry of hci_smd_recv_event and hci_smd_recv_data: take the lock, then
   read the length.                                                        *)
RxRecv ==
  /\ Goto("recv", IF avail[cur] > 0 THEN "frame" ELSE "out")
  /\ held' = TRUE
  /\ UNCHANGED <<chanVars, sched, cur, rxq, armed, cb>>

(* One frame leaves the channel.  It is queued by hci_recv_frame, or it is
   lost: too large, no memory for the buffer, a short read, or the core
   refuses it.                                                             *)
RxFrame(queued) ==
  /\ Goto("frame", IF queued THEN "arm" ELSE "out")
  /\ avail' = [avail EXCEPT ![cur] = @ - 1]
  /\ rxq' = IF queued THEN rxq + 1 ELSE rxq
  /\ UNCHANGED <<toSend, irq, sched, cur, held, armed, cb>>

(* mod_timer after a queued frame; only hci_smd_recv_event loops. *)
RxArm_EventOnly ==
  /\ Goto("arm", IF cur = "event" /\ avail[cur] > 0 THEN "frame" ELSE "out")
  /\ armed' = (armed \/ cur = "event")
  /\ UNCHANGED <<chanVars, sched, cur, rxq, held, cb>>

RxArm ==
  /\ Goto("arm", IF cur = "event" /\ avail[cur] > 0 THEN "frame" ELSE "out")
  /\ armed' = TRUE
  /\ UNCHANGED <<chanVars, sched, cur, rxq, held, cb>>

(* release_lock at out_event and out_data.  Only this tasklet adds to rx_q,
   so nothing can come between its test of rx_q and wake_unlock.           *)
RxOut ==
  /\ Goto("out", IF cur = "event" THEN "recv" ELSE "loop")
  /\ cur' = "data"
  /\ held' = (held /\ rxq # 0)
  /\ UNCHANGED <<chanVars, sched, rxq, armed, cb>>

-----------------------------------------------------------------------------
(***************************************************************************)
(* The timer callback schedule_timer: it reads rx_q, reads the lock state, *)
(* and then releases the lock or restarts the timer.  Each is a step the   *)
(* tasklet of another CPU can come between.                                *)
(***************************************************************************)
TimerFire ==
  /\ armed
  /\ cb = "idle"
  /\ armed' = FALSE
  /\ cb' = IF rxq = 0 THEN "empty" ELSE "rearm"
  /\ UNCHANGED <<chanVars, taskVars, rxq, held>>

TimerCheckLock ==
  /\ cb = "empty"
  /\ cb' = IF held THEN "release" ELSE "rearm"
  /\ UNCHANGED <<chanVars, taskVars, rxq, held, armed>>

TimerRelease ==
  /\ cb = "release"
  /\ cb' = "idle"
  /\ held' = FALSE
  /\ UNCHANGED <<chanVars, taskVars, rxq, armed>>

TimerRearm_Missing ==
  /\ cb = "rearm"
  /\ cb' = "idle"
  /\ UNCHANGED <<chanVars, taskVars, rxq, held, armed>>

TimerRearm ==
  /\ cb = "rearm"
  /\ cb' = "idle"
  /\ armed' = TRUE
  /\ UNCHANGED <<chanVars, taskVars, rxq, held>>

-----------------------------------------------------------------------------
Tasklet ==
  \/ RxStart
  \/ RxLoop
  \/ RxRecv
  \/ \E queued \in BOOLEAN : RxFrame(queued)
  \/ RxArm
  \/ RxOut

Timer ==
  \/ TimerFire
  \/ TimerCheckLock
  \/ TimerRelease
  \/ TimerRearm

Next ==
  \/ \E c \in Chan : Arrive(c) \/ Notify(c)
  \/ RxWork
  \/ Tasklet
  \/ Timer

(* Interrupts are delivered, softirqs and the core's work item run. *)
Fairness ==
  /\ \A c \in Chan : WF_vars(Notify(c))
  /\ WF_vars(RxWork)
  /\ WF_vars(Tasklet)
  /\ WF_vars(Timer)

Spec == Init /\ [][Next]_vars /\ Fairness

-----------------------------------------------------------------------------
(* No wake-up of the tasklet is lost: while a channel holds a frame, its
   interrupt is outstanding, the tasklet is scheduled, or it is running and
   will look again.                                                        *)
NoLostKick ==
  \A c \in Chan : avail[c] > 0 => c \in irq \/ sched \/ pc # "idle"

(* Frames the Bluetooth core has not taken are always watched: the timer is
   pending, its callback is about to restart it, or the tasklet that queued
   them is about to start it.                                              *)
QueueWatched == rxq > 0 => armed \/ cb = "rearm" \/ pc = "arm"

(* The Rx wake lock never outlives everyone who would release it: outside
   the two receive functions, a held lock has the timer or its callback.   *)
NoStrandedLock ==
  held /\ pc \in {"idle", "loop"} => armed \/ cb # "idle"

(* No frame and no lock is ever left to nobody. *)
Guarded == QueueWatched /\ NoStrandedLock

(* A held lock is released in the end: the board can always suspend again
   once the traffic stops, whatever errors the receive path meets.         *)
LockReleased == held ~> ~held

(* Every frame on a channel is read off it in the end. *)
FramesRead == \A c \in Chan : avail[c] > 0 ~> avail[c] = 0

=============================================================================
