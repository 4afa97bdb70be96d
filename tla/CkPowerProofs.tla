--------------------------- MODULE CkPowerProofs ----------------------------
(***************************************************************************)
(* On every board, and however its interrupts are requested: no change of  *)
(* the lines is lost on its way to user space, and the delayed work stays  *)
(* within the life of the driver, but for the causes the properties name.  *)
(***************************************************************************)
EXTENDS CkPower, TLAPS

(* Why NewsOnItsWay holds: what a read under way has seen is still so, or
   it is going to be made again.                                           *)
ReadIsFresh ==
  life \in {"requesting", "bound"} /\ ~unseen /\ ~Coming =>
    /\ reader = "idle" => reported = Online
    /\ reader = "usb" => ~level["poe"]
    /\ reader = "qc" => "qc" \in wired /\ ~level["poe"] /\ level["usb"]

(* Why NoLateWork holds: behind the cancellation nothing is scheduled, and
   no interrupt is handled once devm has freed them.                       *)
NothingScheduled ==
  /\ life \in {"cancelled", "unregistered", "quiet", "freed"} /\ ~late
       => ~timer /\ work = {}
  /\ life \in {"quiet", "freed"} => requested = {}

IInv == TypeOK /\ ReadIsFresh /\ NothingScheduled /\ NoLateWork

(* The order in which probe asks goes through the lines. *)
LEMMA OrderLines ==
  /\ Len(Order) = 3
  /\ \A i \in 1 .. 3 : Order[i] \in Lines
  BY DEF Order, Lines

LEMMA InitInv == Init => IInv
<1> SUFFICES ASSUME Init
             PROVE  IInv
  OBVIOUS
<1>1. TypeOK
  <2>1. step \in 0 .. Len(Order)
    BY OrderLines DEF Init
  <2>2. life \in Lives
    BY DEF Init, Lives
  <2>3. wired \in {Lines, Lines \ {"qc"}} /\ level \in [Lines -> BOOLEAN]
    BY DEF Init
  <2> QED
    BY <2>1, <2>2, <2>3 DEF Init, TypeOK
<1>2. ReadIsFresh /\ NothingScheduled /\ NoLateWork
  BY DEF Init, ReadIsFresh, NothingScheduled, NoLateWork
<1> QED
  BY <1>1, <1>2 DEF IInv

(* Each step keeps the types. *)
LEMMA TypeStep ==
  ASSUME TypeOK, [Next]_vars
  PROVE  TypeOK'
<1> USE DEF TypeOK, workVars, readVars
<1>1. ASSUME NEW l \in wired, Edge(l)
      PROVE  TypeOK'
  BY <1>1 DEF Edge, probeVars
<1>2. ASSUME NEW l \in Lines, Irq(l)
      PROVE  TypeOK'
  BY <1>2 DEF Irq, probeVars, Scheduled
<1>3. CASE TimerExpires
  BY <1>3 DEF TimerExpires, probeVars
<1>4. CASE WorkRuns
  BY <1>4 DEF WorkRuns, probeVars
<1>5. CASE WorkEnds
  BY <1>5 DEF WorkEnds, probeVars
<1>6. CASE Notify
  BY <1>6 DEF Notify, probeVars
<1>7. CASE ReadPoe
  BY <1>7, "poe" \in Lines DEF ReadPoe, Answered, Reads, probeVars, Lines
<1>8. CASE ReadUsb
  BY <1>8 DEF ReadUsb, Answered, Reads, probeVars
<1>9. CASE ReadQc
  <2>1. level["qc"] \in BOOLEAN
    BY "qc" \in Lines DEF Lines
  <2> QED
    BY <1>9, <2>1 DEF ReadQc, Answered, Reads, probeVars
<1>10. CASE Register
  BY <1>10 DEF Register, Live, Lives
<1>11. CASE Request
  BY <1>11 DEF Request, Live, Lives, Order
<1>12. CASE Bind
  BY <1>12 DEF Bind, Live, Lives
<1>13. CASE Cancel
  BY <1>13 DEF Cancel, Live, Lives
<1>14. CASE Unregister
  BY <1>14 DEF Unregister, Live, Lives
<1>15. CASE FreeIrqs
  BY <1>15 DEF FreeIrqs, Live, Lives
<1>16. CASE Free
  BY <1>16 DEF Free, Live, Lives
<1>17. CASE UNCHANGED vars
  BY <1>17 DEF vars
<1> QED
  BY <1>1, <1>2, <1>3, <1>4, <1>5, <1>6, <1>7, <1>8, <1>9, <1>10, <1>11, <1>12, <1>13,
     <1>14, <1>15, <1>16, <1>17 DEF Next, Kernel

(* Each step keeps the reads fresh. *)
LEMMA FreshStep ==
  ASSUME TypeOK, ReadIsFresh, [Next]_vars
  PROVE  ReadIsFresh'
<1> USE DEF ReadIsFresh, Coming, workVars, readVars
<1>1. ASSUME NEW l \in wired, Edge(l)
      PROVE  ReadIsFresh'
  <2>1. unseen' \/ raised' # {}
    BY <1>1 DEF Edge
  <2> QED
    BY <2>1
<1>2. ASSUME NEW l \in Lines, Irq(l)
      PROVE  ReadIsFresh'
  <2>1. Coming'
    BY <1>2 DEF Irq, Scheduled
  <2> QED
    BY <2>1
<1>3. CASE TimerExpires
  BY <1>3 DEF TimerExpires
<1>4. CASE WorkRuns
  BY <1>4 DEF WorkRuns
<1>5. CASE WorkEnds
  BY <1>5 DEF WorkEnds, probeVars, Online, OnlineAt
<1>6. CASE Notify
  BY <1>6 DEF Notify
<1>7. CASE ReadPoe
  BY <1>7 DEF ReadPoe, Answered, Reads, probeVars, Online, OnlineAt
<1>8. CASE ReadUsb
  BY <1>8 DEF ReadUsb, Answered, Reads, probeVars, Online, OnlineAt, TypeOK
<1>9. CASE ReadQc
  BY <1>9 DEF ReadQc, Answered, Reads, probeVars, Online, OnlineAt, TypeOK
<1>10. CASE Register
  BY <1>10 DEF Register
<1>11. CASE Request
  BY <1>11 DEF Request, Live, Online, OnlineAt
<1>12. CASE Bind
  BY <1>12 DEF Bind, Live, Online, OnlineAt
<1>13. CASE Cancel \/ Unregister \/ FreeIrqs \/ Free
  BY <1>13 DEF Cancel, Unregister, FreeIrqs, Free, Live
<1>14. CASE UNCHANGED vars
  BY <1>14 DEF vars, Online, OnlineAt
<1> QED
  BY <1>1, <1>2, <1>3, <1>4, <1>5, <1>6, <1>7, <1>8, <1>9, <1>10, <1>11, <1>12, <1>13,
     <1>14 DEF Next, Kernel

(* Each step keeps the delayed work within the life of the driver. *)
LEMMA LateStep ==
  ASSUME TypeOK, NothingScheduled, NoLateWork, [Next]_vars
  PROVE  NothingScheduled' /\ NoLateWork'
<1> USE DEF NothingScheduled, NoLateWork, workVars, probeVars, Live
<1>1. ASSUME NEW l \in wired, Edge(l)
      PROVE  NothingScheduled' /\ NoLateWork'
  BY <1>1 DEF Edge
<1>2. ASSUME NEW l \in Lines, Irq(l)
      PROVE  NothingScheduled' /\ NoLateWork'
  <2>1. requested # {}
    BY <1>2 DEF Irq, TypeOK
  <2> QED
    BY <1>2, <2>1 DEF Irq
<1>3. CASE TimerExpires
  BY <1>3 DEF TimerExpires
<1>4. CASE WorkRuns
  BY <1>4 DEF WorkRuns
<1>5. CASE WorkEnds
  BY <1>5 DEF WorkEnds
<1>6. CASE Notify
  BY <1>6 DEF Notify
<1>7. CASE ReadPoe \/ ReadUsb \/ ReadQc
  BY <1>7 DEF ReadPoe, ReadUsb, ReadQc, Answered, Reads
<1>8. CASE Register
  BY <1>8 DEF Register
<1>9. CASE Request
  BY <1>9 DEF Request
<1>10. CASE Bind
  BY <1>10 DEF Bind
<1>11. CASE Cancel
  BY <1>11 DEF Cancel
<1>12. CASE Unregister
  BY <1>12 DEF Unregister
<1>13. CASE FreeIrqs
  BY <1>13 DEF FreeIrqs
<1>14. CASE Free
  BY <1>14 DEF Free
<1>15. CASE UNCHANGED vars
  BY <1>15 DEF vars
<1> QED
  BY <1>1, <1>2, <1>3, <1>4, <1>5, <1>6, <1>7, <1>8, <1>9, <1>10, <1>11, <1>12, <1>13,
     <1>14, <1>15 DEF Next, Kernel

(* IInv is an invariant. *)
THEOREM CkInvariant == Spec => []IInv
<1>1. Init => IInv
  BY InitInv
<1>2. IInv /\ [Next]_vars => IInv'
  BY TypeStep, FreshStep, LateStep DEF IInv
<1> QED
  BY <1>1, <1>2, PTL DEF Spec

(* The types: in particular no interrupt is requested for a line that the board
   does not have.                                                          *)
THEOREM CkTypeCorrect == Spec => []TypeOK
<1>1. IInv => TypeOK
  BY DEF IInv
<1> QED
  BY <1>1, CkInvariant, PTL

(* No change of the lines is lost between the interrupt and user space. *)
THEOREM CkNewsOnItsWay == Spec => []NewsOnItsWay
<1>1. IInv => NewsOnItsWay
  BY DEF IInv, ReadIsFresh, NewsOnItsWay
<1> QED
  BY <1>1, CkInvariant, PTL

(* The delayed work stays within the life of the driver. *)
THEOREM CkNoLateWork == Spec => []NoLateWork
<1>1. IInv => NoLateWork
  BY DEF IInv
<1> QED
  BY <1>1, CkInvariant, PTL
=============================================================================
