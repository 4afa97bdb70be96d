------------------------------ MODULE HciSmdDev ------------------------------
(***************************************************************************)
(* Life of the HCI device of hci_smd.c: who allocates, registers, frees    *)
(* and replaces hs.hdev.  Three kinds of process-context work take the     *)
(* semaphore hci_smd_enable in turn (a write of the hcismd_set parameter,  *)
(* hci_dev_restart, hci_dev_smd_open); the SMD interrupt, the Rx tasklet   *)
(* and the Rx timer look at the same device without it.                    *)
(*                                                                         *)
(* A behaviour ends at the first use of the kernel's API that the kernel   *)
(* does not define (a NULL or freed device, a second registration, ...):   *)
(* "fault" names it.  Which of them a behaviour can reach depends on what  *)
(* happens around the driver, chosen once as "env".                        *)
(***************************************************************************)
EXTENDS Naturals

CONSTANTS
  Dev,       \* the devices hci_alloc_dev may return, each once
  NULL,      \* no device
  MaxWork    \* work items of one kind that may be queued: a bound

ASSUME DevAssumption == NULL \notin Dev
ASSUME MaxWorkAssumption == MaxWork \in Nat

(* What may happen around the driver:
     fail     hci_alloc_dev, smd_named_open_on_edge or hci_register_dev fails
     nomem    a notification finds no memory for its work item
     disable  0 is written to hcismd_set
     flap     the remote opens or closes its end of the event channel before
              the work of the previous opening or closing is done; the data
              channel has no work, and moves whenever it likes
     traffic  the remote sends frames                                       *)
EnvChoices == {"fail", "nomem", "disable", "flap", "traffic"}

Faults == {"null_register", "double_register", "unregister_unregistered",
           "irq_on_freed_device", "rx_on_no_device", "rx_on_freed_device",
           "timer_on_freed_device", "timer_without_function",
           "busy_tasklet_reinitialised", "pending_timer_reinitialised"}

VARIABLES
  env,        \* the subset of EnvChoices this behaviour is under
  fault,      \* the first undefined use of the kernel API, or "none"
  hdev,       \* hs.hdev
  devst,      \* [Dev -> state of the device]
  ev, dat,    \* the event channel and the data channel
  irq,        \* notification being handled, of either channel, and ...
  irqdev,     \* ... the hs.hdev it read on entry
  tsched,     \* is hs.rx_task scheduled
  tsk,        \* where the tasklet is
  tfun,       \* is hs.rx_q_timer.function set
  tdata,      \* hs.rx_q_timer.data
  tarmed,     \* is the timer pending
  opens,      \* queued hci_dev_smd_open works
  restarts,   \* queued hci_dev_restart works
  pc, who,    \* where the holder of hci_smd_enable is, and what it runs
  restart_in_progress

devVars  == <<hdev, devst>>
smdVars  == <<ev, dat>>
irqVars  == <<irq, irqdev>>
taskVars == <<tsched, tsk>>
timeVars == <<tfun, tdata, tarmed>>
workVars == <<opens, restarts>>
semVars  == <<pc, who>>
cfgVars  == <<env, restart_in_progress>>
vars == <<fault, devVars, smdVars, irqVars, taskVars, timeVars, workVars,
          semVars, cfgVars>>

PcValues == {"free", "settle", "register", "kill", "kill_wait", "unregister", 
             "free_device", "forget", "close_event", "close_data", "stop_timer",
             "alloc", "init", "open_event", "open_data", "drop",
             "forget_dropped"}

TypeOK ==
  /\ env \in SUBSET EnvChoices
  /\ fault \in Faults \cup {"none"}
  /\ hdev \in Dev \cup {NULL}
  /\ devst \in [Dev -> {"unused", "alloc", "registered", "freed"}]
  /\ ev \in {"closed", "waiting", "up"}
  /\ dat \in {"closed", "waiting", "up"}
  /\ irq \in {"none", "open", "close", "data", "data_state"}
  /\ irqdev \in Dev \cup {NULL}
  /\ tsched \in BOOLEAN
  /\ tsk \in {"idle", "recv", "arm", "out"}
  /\ tfun \in BOOLEAN
  /\ tdata \in Dev \cup {NULL}
  /\ tarmed \in BOOLEAN
  /\ opens \in Nat
  /\ restarts \in Nat
  /\ pc \in PcValues
  /\ who \in {"none", "open", "restart", "enable", "disable"}
  /\ restart_in_progress \in BOOLEAN

(* hci_smd_init, for every environment. *)
Init ==
  /\ env \in SUBSET EnvChoices
  /\ fault = "none"
  /\ hdev = NULL
  /\ devst = [d \in Dev |-> "unused"]
  /\ ev = "closed" /\ dat = "closed"
  /\ irq = "none" /\ irqdev = NULL
  /\ tsched = FALSE /\ tsk = "idle"
  /\ tfun = FALSE /\ tdata = NULL /\ tarmed = FALSE
  /\ opens = 0 /\ restarts = 0
  /\ pc = "free" /\ who = "none"
  /\ restart_in_progress = FALSE

Goto(from, to) == pc = from /\ pc' = to
Live(d) == d # NULL /\ devst[d] \in {"alloc", "registered"}
Freed(d) == d # NULL /\ devst[d] = "freed"

(* A step that runs into undefined behaviour: nothing more is said of it. *)
Fault(f) ==
  /\ fault' = f
  /\ UNCHANGED <<devVars, smdVars, irqVars, taskVars, timeVars, workVars,
                 semVars, cfgVars>>

-----------------------------------------------------------------------------
(***************************************************************************)
(* SMD and the remote processor.  hci_smd_notify_event and                 *)
(* hci_smd_notify_data run in interrupt context, one at a time: both       *)
(* channels are on one edge.  Each reads hs.hdev on entry (a NULL one      *)
(* loses the event) and uses what it read afterwards.                      *)
(***************************************************************************)
Quiet == opens = 0 /\ restarts = 0

Tearing == pc \in {"kill", "kill_wait", "unregister", "free_device", "forget",
                   "close_event"}

Notify(event) ==
  /\ irq = "none"
  /\ irq' = IF hdev = NULL THEN "none" ELSE event
  /\ irqdev' = hdev

RemoteOpens ==
  /\ ev = "waiting"
  /\ "flap" \in env \/ (Quiet /\ ~Tearing)
  /\ opens < MaxWork
  /\ ev' = "up"
  /\ Notify("open")
  /\ UNCHANGED <<fault, devVars, dat, taskVars, timeVars, workVars, semVars, cfgVars>>

RemoteCloses ==
  /\ ev = "up"
  /\ "flap" \in env \/ (Quiet /\ pc = "free")
  /\ restarts < MaxWork
  /\ ev' = "waiting"
  /\ Notify("close")
  /\ UNCHANGED <<fault, devVars, dat, taskVars, timeVars, workVars, semVars, cfgVars>>

(* SMD_EVENT_OPEN and SMD_EVENT_CLOSE of the data channel: a remote that
   comes up or crashes moves both channels, in an order of its own.        *)
RemoteMovesData ==
  /\ \/ dat = "waiting" /\ dat' = "up"
     \/ dat = "up" /\ dat' = "waiting"
  /\ Notify("data_state")
  /\ UNCHANGED <<fault, devVars, ev, taskVars, timeVars, workVars, semVars, cfgVars>>

(* SMD_EVENT_DATA, of either channel. *)
RemoteSends ==
  /\ "traffic" \in env
  /\ ev = "up" \/ dat = "up"
  /\ hdev # NULL
  /\ Notify("data")
  /\ UNCHANGED <<fault, devVars, smdVars, taskVars, timeVars, workVars, semVars, cfgVars>>

(* The definitions whose names end in _<Slip> are mutated forms of the one
   that follows them: slips the properties below are there to catch.       *)
NotifyRuns_IgnoresClose ==
  /\ irq # "none" /\ irq' = "none" /\ irqdev' = NULL
  /\ opens' = opens + (IF irq = "open" THEN 1 ELSE 0)
  /\ UNCHANGED <<fault, devVars, smdVars, taskVars, timeVars, restarts, semVars, cfgVars>>

(* The rest of the callback.  Opening and closing set or clear HCI_RUNNING
   in the device; those of the event channel then queue a work item, which
   is lost without memory.                                                 *)
NotifyRuns ==
  \/ /\ irq \in {"open", "close", "data_state"}
     /\ Freed(irqdev)
     /\ Fault("irq_on_freed_device")
  \/ /\ irq # "none"
     /\ irq = "data" \/ ~Freed(irqdev)
     /\ irq' = "none"
     /\ irqdev' = NULL
     /\ \/ opens' = opens + (IF irq = "open" THEN 1 ELSE 0)
           /\ restarts' = restarts + (IF irq = "close" THEN 1 ELSE 0)
        \/ irq \in {"open", "close"} /\ "nomem" \in env /\ UNCHANGED workVars
     /\ tsched' = (tsched \/ (irq = "data" /\ pc # "kill_wait"))
     /\ UNCHANGED <<fault, devVars, smdVars, tsk, timeVars, semVars, cfgVars>>

-----------------------------------------------------------------------------
(***************************************************************************)
(* The tasklet hci_smd_rx and the timer callback, cut down to what they do *)
(* with the device: see HciSmdRx for the rest.                             *)
(***************************************************************************)
TaskletRuns ==
  /\ tsched /\ tsk = "idle"
  /\ tsched' = FALSE
  /\ tsk' \in {"idle", "recv"}
  /\ UNCHANGED <<fault, devVars, smdVars, irqVars, timeVars, workVars, semVars, cfgVars>>

(* hci_recv_frame refuses a NULL device and one that is not registered. *)
TaskletRecv ==
  /\ tsk = "recv"
  /\ \/ /\ Freed(hdev)
        /\ Fault("rx_on_freed_device")
     \/ /\ ~Freed(hdev)
        /\ \/ tsk' = "out"
           \/ Live(hdev) /\ devst[hdev] = "registered" /\ tsk' = "arm"
        /\ UNCHANGED <<fault, devVars, smdVars, irqVars, tsched, timeVars,
                       workVars, semVars, cfgVars>>

TaskletArm ==
  /\ tsk = "arm"
  /\ tsk' = "out"
  /\ tarmed' = TRUE
  /\ UNCHANGED <<fault, devVars, smdVars, irqVars, tsched, tfun, tdata,
                 workVars, semVars, cfgVars>>

(* release_lock reads hs.hdev->rx_q without a test of hs.hdev. *)
TaskletOut ==
  /\ tsk = "out"
  /\ \/ hdev = NULL /\ Fault("rx_on_no_device")
     \/ Freed(hdev) /\ Fault("rx_on_freed_device")
     \/ /\ Live(hdev)
        /\ tsk' = "idle"
        /\ UNCHANGED <<fault, devVars, smdVars, irqVars, tsched, timeVars,
                       workVars, semVars, cfgVars>>

(* schedule_timer reads the device it was set up with. *)
TimerFires ==
  /\ tarmed
  /\ \/ ~tfun /\ Fault("timer_without_function")
     \/ tfun /\ Freed(tdata) /\ Fault("timer_on_freed_device")
     \/ /\ tfun /\ ~Freed(tdata)
        /\ tarmed' \in BOOLEAN
        /\ UNCHANGED <<fault, devVars, smdVars, irqVars, taskVars, tfun, tdata,
                       workVars, semVars, cfgVars>>

-----------------------------------------------------------------------------
(***************************************************************************)
(* down(&hci_smd_enable): the three kinds of holder.                       *)
(***************************************************************************)
StartRestart ==
  /\ restarts > 0
  /\ Goto("free", "kill")
  /\ who' = "restart"
  /\ restarts' = restarts - 1
  /\ restart_in_progress' = TRUE
  /\ UNCHANGED <<fault, devVars, smdVars, irqVars, taskVars, timeVars, opens,
                 env>>

(* After a restart the work first sleeps ten seconds, semaphore held. *)
StartOpen ==
  /\ opens > 0
  /\ Goto("free", IF restart_in_progress THEN "settle" ELSE "register")
  /\ who' = "open"
  /\ opens' = opens - 1
  /\ restart_in_progress' = FALSE
  /\ UNCHANGED <<fault, devVars, smdVars, irqVars, taskVars, timeVars, restarts,
                 env>>

Settle_Forgets ==
  /\ Goto("settle", "free")
  /\ UNCHANGED <<fault, devVars, smdVars, irqVars, taskVars, timeVars, workVars,
                 who, cfgVars>>

Settle ==
  /\ Goto("settle", "register")
  /\ UNCHANGED <<fault, devVars, smdVars, irqVars, taskVars, timeVars, workVars,
                 who, cfgVars>>

(* hcismd_set_enable for "0" and for "1"; any other value changes nothing
   but the stored parameter, which the driver does not read again.         *)
Disable ==
  /\ "disable" \in env
  /\ Goto("free", "kill")
  /\ who' = "disable"
  /\ UNCHANGED <<fault, devVars, smdVars, irqVars, taskVars, timeVars, workVars,
                 cfgVars>>

Enable_NoTest ==
  /\ Goto("free", "alloc")
  /\ who' = "enable"
  /\ UNCHANGED <<fault, devVars, smdVars, irqVars, taskVars, timeVars, workVars,
                 cfgVars>>

Enable ==
  /\ hdev = NULL
  /\ Goto("free", "alloc")
  /\ who' = "enable"
  /\ UNCHANGED <<fault, devVars, smdVars, irqVars, taskVars, timeVars, workVars,
                 cfgVars>>

-----------------------------------------------------------------------------
(* hci_smd_hci_register_dev. *)
RegisterDev ==
  /\ pc = "register"
  /\ \/ hdev = NULL /\ Fault("null_register")
     \/ hdev # NULL /\ devst[hdev] = "registered" /\ Fault("double_register")
     \/ /\ hdev # NULL /\ devst[hdev] # "registered"
        /\ \/ devst' = [devst EXCEPT ![hdev] = "registered"] /\ pc' = "free"
           \/ "fail" \in env /\ pc' = "drop" /\ UNCHANGED devst
        /\ who' = IF pc' = "free" THEN "none" ELSE who
        /\ UNCHANGED <<fault, hdev, smdVars, irqVars, taskVars, timeVars,
                       workVars, cfgVars>>

(***************************************************************************)
(* hci_smd_deregister_dev, a step per call.                                *)
(***************************************************************************)
(* tasklet_kill claims the scheduled bit, so that a notification schedules
   nothing any more, and waits for the run under way.                      *)
KillTasklet ==
  /\ ~tsched
  /\ Goto("kill", "kill_wait")
  /\ UNCHANGED <<fault, devVars, smdVars, irqVars, taskVars, timeVars, workVars,
                 who, cfgVars>>

TaskletKilled_StaysRegistered ==
  /\ tsk = "idle"
  /\ Goto("kill_wait", IF hdev = NULL THEN "close_event" ELSE "free_device")
  /\ UNCHANGED <<fault, devVars, smdVars, irqVars, taskVars, timeVars, workVars,
                 who, cfgVars>>

TaskletKilled ==
  /\ tsk = "idle"
  /\ Goto("kill_wait", IF hdev = NULL THEN "close_event" ELSE "unregister")
  /\ UNCHANGED <<fault, devVars, smdVars, irqVars, taskVars, timeVars, workVars,
                 who, cfgVars>>

Unregister ==
  /\ pc = "unregister"
  /\ \/ devst[hdev] # "registered" /\ Fault("unregister_unregistered")
     \/ /\ devst[hdev] = "registered"
        /\ devst' = [devst EXCEPT ![hdev] = "alloc"]
        /\ pc' = "free_device"
        /\ UNCHANGED <<fault, hdev, smdVars, irqVars, taskVars, timeVars,
                       workVars, who, cfgVars>>

FreeDevice ==
  /\ Goto("free_device", "forget")
  /\ devst' = [devst EXCEPT ![hdev] = "freed"]
  /\ UNCHANGED <<fault, hdev, smdVars, irqVars, taskVars, timeVars, workVars,
                 who, cfgVars>>

Forget ==
  /\ Goto("forget", "close_event")
  /\ hdev' = NULL
  /\ UNCHANGED <<fault, devst, smdVars, irqVars, taskVars, timeVars, workVars,
                 who, cfgVars>>

(* smd_close: no callback of the channel is running when it returns. *)
CloseEvent ==
  /\ irq = "none"
  /\ Goto("close_event", "close_data")
  /\ ev' = "closed"
  /\ UNCHANGED <<fault, devVars, dat, irqVars, taskVars, timeVars, workVars,
                 who, cfgVars>>

CloseData ==
  /\ irq = "none"
  /\ Goto("close_data", "stop_timer")
  /\ dat' = "closed"
  /\ UNCHANGED <<fault, devVars, ev, irqVars, taskVars, timeVars, workVars,
                 who, cfgVars>>

(* del_timer_sync, last; a restart goes on with hci_smd_register_smd. *)
StopTimer ==
  /\ Goto("stop_timer", IF who = "restart" THEN "alloc" ELSE "free")
  /\ who' = IF who = "restart" THEN who ELSE "none"
  /\ tarmed' = (tarmed /\ ~tfun)
  /\ tfun' = FALSE
  /\ tdata' = NULL
  /\ UNCHANGED <<fault, devVars, smdVars, irqVars, taskVars, workVars, cfgVars>>

(***************************************************************************)
(* hci_smd_register_smd.                                                   *)
(***************************************************************************)
AllocDev_NoUp ==
  /\ pc = "alloc"
  /\ \/ \E d \in Dev :
          /\ devst[d] = "unused"
          /\ devst' = [devst EXCEPT ![d] = "alloc"]
          /\ hdev' = d
          /\ pc' = "init"
     \/ UNCHANGED <<devVars, pc>>
  /\ UNCHANGED <<fault, smdVars, irqVars, taskVars, timeVars, workVars, who, cfgVars>>

AllocDev ==
  /\ pc = "alloc"
  /\ \/ \E d \in Dev :
          /\ devst[d] = "unused"
          /\ devst' = [devst EXCEPT ![d] = "alloc"]
          /\ hdev' = d
          /\ pc' = "init"
          /\ UNCHANGED who
     \/ /\ "fail" \in env \/ \A d \in Dev : devst[d] # "unused"
        /\ pc' = "free" /\ who' = "none"
        /\ UNCHANGED devVars
  /\ UNCHANGED <<fault, smdVars, irqVars, taskVars, timeVars, workVars, cfgVars>>

InitTimer ==
  /\ pc = "init"
  /\ \/ (tsched \/ tsk # "idle") /\ Fault("busy_tasklet_reinitialised")
     \/ tarmed /\ Fault("pending_timer_reinitialised")
     \/ /\ ~tsched /\ tsk = "idle" /\ ~tarmed
        /\ tfun' = TRUE
        /\ tdata' = hdev
        /\ pc' = "open_event"
        /\ UNCHANGED <<fault, devVars, smdVars, irqVars, taskVars, tarmed,
                       workVars, who, cfgVars>>

(* smd_named_open_on_edge fails on a channel that is still open. *)
OpenEvent ==
  /\ pc = "open_event"
  /\ \/ ev = "closed" /\ ev' = "waiting" /\ pc' = "open_data"
     \/ (ev # "closed" \/ "fail" \in env) /\ pc' = "drop" /\ UNCHANGED ev
  /\ UNCHANGED <<fault, devVars, dat, irqVars, taskVars, timeVars, workVars,
                 who, cfgVars>>

OpenData ==
  /\ pc = "open_data"
  /\ \/ dat = "closed" /\ dat' = "waiting" /\ pc' = "free" /\ who' = "none"
     \/ /\ dat # "closed" \/ "fail" \in env
        /\ pc' = "drop" /\ UNCHANGED <<dat, who>>
  /\ UNCHANGED <<fault, devVars, ev, irqVars, taskVars, timeVars, workVars, cfgVars>>

(* The error paths of registration: hci_free_dev, then hs.hdev = NULL. *)
Drop ==
  /\ Goto("drop", "forget_dropped")
  /\ devst' = [devst EXCEPT ![hdev] = "freed"]
  /\ UNCHANGED <<fault, hdev, smdVars, irqVars, taskVars, timeVars, workVars,
                 who, cfgVars>>

ForgetDropped_Missing ==
  /\ Goto("forget_dropped", "free")
  /\ who' = "none"
  /\ UNCHANGED <<fault, devVars, smdVars, irqVars, taskVars, timeVars, workVars, cfgVars>>

ForgetDropped ==
  /\ Goto("forget_dropped", "free")
  /\ who' = "none"
  /\ hdev' = NULL
  /\ UNCHANGED <<fault, devst, smdVars, irqVars, taskVars, timeVars, workVars, cfgVars>>

-----------------------------------------------------------------------------
Interrupt ==
  RemoteOpens \/ RemoteCloses \/ RemoteMovesData \/ RemoteSends \/ NotifyRuns
Tasklet == TaskletRuns \/ TaskletRecv \/ TaskletArm \/ TaskletOut
Teardown ==
  TaskletKilled \/ Unregister \/ FreeDevice \/ Forget \/ CloseEvent \/ CloseData
  \/ StopTimer
Register ==
  AllocDev \/ InitTimer \/ OpenEvent \/ OpenData \/ RegisterDev \/ Drop
  \/ ForgetDropped
Work == StartRestart \/ StartOpen \/ Settle \/ Teardown \/ Register

Next ==
  /\ fault = "none"
  /\ Interrupt \/ Tasklet \/ TimerFires \/ Work \/ KillTasklet \/ Enable \/ Disable

(* Interrupt handlers, softirqs and the semaphore's holder run when they can.
   tasklet_kill polls the scheduled bit until it finds it clear once.      *)
Fairness ==
  /\ WF_vars(fault = "none" /\ NotifyRuns)
  /\ WF_vars(fault = "none" /\ Tasklet)
  /\ WF_vars(fault = "none" /\ Work)
  /\ SF_vars(fault = "none" /\ KillTasklet)

Spec == Init /\ [][Next]_vars /\ Fairness

-----------------------------------------------------------------------------
(* No device leaks and no two live at once: whatever fails or races, a
   device that is allocated and not freed is the one in hs.hdev.           *)
OwnedDevice ==
  \A d \in Dev : devst[d] \in {"alloc", "registered"} => hdev = d

(* Up to the first call the Bluetooth core does not define, on every error
   path and through every half-done teardown, the driver's calls are those
   HciCore allows: it frees no device that is registered and allocates none
   next to another.  And where only traffic is pushed on the driver, plain
   restarts, there is no such call at all: it registers only what is
   allocated and unregisters only what is registered.                      *)
DevicesIn(states) == {d \in Dev : devst[d] \in states}
Misuses == {"null_register", "double_register", "unregister_unregistered"}
PlainRestarts == env \subseteq {"traffic"}
C == INSTANCE HciCore WITH allocated <- DevicesIn({"alloc", "registered"}),
                           registered <- DevicesIn({"registered"}),
                           freed <- DevicesIn({"freed"}),
                           misused <- PlainRestarts /\ fault \in Misuses
ContractKept == C!Spec

(* hs.hdev points to freed memory only between hci_free_dev and the
   assignment of NULL, with the semaphore held.                            *)
NoDanglingHdev == Freed(hdev) => pc \in {"forget", "forget_dropped"}

(* What each push from outside can lead to.  A remote that crashes and comes
   back, its event channel one event at a time, never misuses the device,
   however often, but in one way: the callback of an OPEN or CLOSE of the
   data channel, which nothing keeps from the restart, may use the device
   that the restart frees.  That the driver unregisters what is not
   registered takes a lost work item, a disable or a flapping remote; that a
   callback of the event channel uses a freed device a failure, a disable or
   a flapping remote.  No device to register needs a failed registration, a
   flapping remote, or a disable on top of a lost restart; a second
   registration needs a lost work item, a flapping remote, or a disable
   after a failed enable; and the misuses of the receive path need frames.  *)
FaultsHaveCauses ==
  /\ fault = "unregister_unregistered" => env \cap {"nomem", "disable", "flap"} # {}
  /\ fault = "irq_on_freed_device" =>
       irq = "data_state" \/ env \cap {"fail", "disable", "flap"} # {}
  /\ fault = "null_register" =>
       env \cap {"fail", "flap"} # {} \/ {"nomem", "disable"} \subseteq env
  /\ fault = "double_register" =>
       env \cap {"nomem", "flap"} # {} \/ {"fail", "disable"} \subseteq env
  /\ fault \in {"rx_on_no_device", "rx_on_freed_device", "timer_on_freed_device",
               "timer_without_function", "busy_tasklet_reinitialised",
               "pending_timer_reinitialised"} => "traffic" \in env

(* Without failures and lost work, a channel that is up with no work left
   means a registered device: no restart loses Bluetooth for good.         *)
UpMeansRegistered ==
  (/\ fault = "none" /\ env \cap {"fail", "nomem"} = {}
   /\ pc = "free" /\ Quiet /\ irq = "none" /\ ev = "up")
    => hdev # NULL /\ devst[hdev] = "registered"

(* The semaphore is released in the end, whatever its holder waits for. *)
SemaphoreReleased == pc # "free" ~> pc = "free" \/ fault # "none"
=============================================================================
