--------------------------- MODULE FbDeferredProofs ---------------------------
(***************************************************************************)
(* Theorems about deferred updates, for any size of the display, of its    *)
(* lines and pages, and any number of clients.                             *)
(***************************************************************************)
EXTENDS FbDeferred, TLAPS

(* The Boolean flag, and the rest of the types. *)
TypeData ==
  /\ stale \in SUBSET Lines
  /\ lost \in SUBSET stale
  /\ start \in Lines
  /\ end \in 0..UintMax
  /\ work \in {"idle", "started", "flush"}
  /\ from \in Lines /\ to \in Lines /\ next \in 0..Yres
  /\ pc \in [Clients -> {"idle", "store", "mark", "schedule"}]
  /\ area \in [Clients -> Areas \cup {WholeScreen}]
  /\ listed \in SUBSET Pages
  /\ writable \in SUBSET listed

LEMMA TypeParts == TypeOK <=> queued \in BOOLEAN /\ TypeData
  BY DEF TypeOK, TypeData

(* Only fbtft_fb_write passes the whole screen to fbtft_mkdirty. *)
AreaOfClient ==
  \A c \in Clients :
    /\ c \in Writers => area[c] = WholeScreen
    /\ c \in Drawers /\ pc[c] \in {"store", "mark"} => area[c] \in Areas

(* A page that can be written without a fault has the work coming. *)
WritableQueued == writable # {} => queued \/ work = "started"

(* While lines are sent, every page is write-protected. *)
FlushProtects == work = "flush" => writable = {}

IInv ==
  /\ TypeOK
  /\ AreaOfClient /\ WritableQueued /\ FlushProtects
  /\ NoLostLine /\ FlushComing

-----------------------------------------------------------------------------
(* The pages hold the lines the work computes for them, and no others below
   or above: y_low and y_high are lines, and enclose every line of a page. *)
LEMMA PageRange ==
  ASSUME NEW p \in Pages
  PROVE  /\ PageLow(p) \in Lines
         /\ PageHigh(p) \in Lines
         /\ \A y \in LinesOf(p) : PageLow(p) <= y /\ y <= PageHigh(p)
<1> DEFINE a == p * PageSize
           b == p * PageSize + PageSize - 1
           qa == a \div LineLength
           qb == b \div LineLength
<1>1. a \in Nat /\ b \in Nat /\ p \in Nat /\ PageSize \in Nat /\ LineLength \in Nat \ {0}
      /\ Yres \in Nat \ {0} /\ a < Yres * LineLength /\ a <= b
  BY SizeAssumption DEF Pages
<1>2. \A n \in Nat : /\ n \div LineLength \in Nat
                     /\ (n \div LineLength) * LineLength <= n
                     /\ n < (n \div LineLength) * LineLength + LineLength
  BY <1>1
<1>3. \A m, n \in Nat : m * LineLength < n * LineLength => m < n
  BY <1>1
<1>4. qa \in Nat /\ qa * LineLength <= a /\ a < (qa + 1) * LineLength
  BY <1>1, <1>2
<1>5. qb \in Nat /\ qb * LineLength <= b /\ b < (qb + 1) * LineLength
  BY <1>1, <1>2
<1>6. qa < Yres
  BY <1>1, <1>3, <1>4
<1>7. ASSUME NEW y \in LinesOf(p) PROVE qa <= y /\ y <= qb
  <2>1. y \in Nat /\ y * LineLength <= b /\ a < (y + 1) * LineLength
    BY <1>1 DEF LinesOf, Lines
  <2>2. qa * LineLength < (y + 1) * LineLength /\ y * LineLength < (qb + 1) * LineLength
    BY <1>1, <1>4, <1>5, <2>1
  <2>3. QED
    BY <1>3, <1>4, <1>5, <2>1, <2>2
<1>8. PageLow(p) = qa /\ PageHigh(p) = IF qb > Yres - 1 THEN Yres - 1 ELSE qb
  BY DEF PageLow, PageHigh
<1> HIDE DEF a, b, qa, qb
<1>9. QED
  BY <1>1, <1>4, <1>5, <1>6, <1>7, <1>8 DEF Lines, LinesOf

(* The work finds a range, and what it sends lies on the screen and encloses
   all the marks and all the pages of the list.                            *)
LEMMA TakenRange ==
  ASSUME TypeData, TakeDirty
  PROVE  /\ from' \in Lines /\ to' \in Lines /\ next' = from'
         /\ \A y \in Lines :
              (start <= y /\ y <= end) \/ (\E p \in listed : y \in LinesOf(p))
                => from' <= y /\ y <= to'
<1>1. PICK lo \in 0..UintMax, hi \in 0..UintMax :
        /\ DirtyRange(lo, hi)
        /\ from' = IF Sane(lo, hi) THEN lo ELSE 0
        /\ to' = IF Sane(lo, hi) THEN hi ELSE Yres - 1
  BY DEF TakeDirty
<1>2. Yres \in Nat \ {0} /\ UintMax \in Nat /\ start \in Lines /\ end \in 0..UintMax
  BY SizeAssumption, UintAssumption DEF TypeData
<1>3. from' \in Lines /\ to' \in Lines
  BY <1>1, <1>2 DEF Sane, Lines
<1>4. lo <= start /\ end <= hi /\ \A p \in listed : lo <= PageLow(p) /\ PageHigh(p) <= hi
  BY <1>1 DEF DirtyRange, Least, Greatest
<1>5. ASSUME NEW y \in Lines,
             (start <= y /\ y <= end) \/ (\E p \in listed : y \in LinesOf(p))
      PROVE  lo <= y /\ y <= hi
  <2>1. CASE start <= y /\ y <= end
    BY <1>2, <1>4, <2>1 DEF Lines
  <2>2. CASE \E p \in listed : y \in LinesOf(p)
    <3>1. PICK p \in listed : y \in LinesOf(p)
      BY <2>2
    <3>2. p \in Pages
      BY DEF TypeData
    <3>3. PageLow(p) \in Lines /\ PageHigh(p) \in Lines /\ PageLow(p) <= y /\ y <= PageHigh(p)
      BY <3>1, <3>2, PageRange
    <3>4. QED
      BY <1>2, <1>4, <3>3 DEF Lines
  <2>3. QED
    BY <1>5, <2>1, <2>2
<1>6. \A y \in Lines :
        (start <= y /\ y <= end) \/ (\E p \in listed : y \in LinesOf(p))
          => from' <= y /\ y <= to'
  BY <1>1, <1>2, <1>5 DEF Lines
<1>7. QED
  BY <1>3, <1>6 DEF TakeDirty

(* What fbtft_mkdirty marks are lines, and all the lines it is to mark. *)
LEMMA MarkedLines ==
  ASSUME TypeData, AreaOfClient, NEW c \in Clients, Mark(c)
  PROVE  /\ start' \in Lines /\ end' \in 0..UintMax
         /\ start' <= start /\ end <= end'
         /\ \A y \in ToMark(area[c]) : start' <= y /\ y <= end'
<1>1. Yres \in Nat \ {0} /\ UintMax \in Nat /\ start \in Lines /\ end \in 0..UintMax
  BY SizeAssumption, UintAssumption DEF TypeData
<1>2. CASE area[c] = WholeScreen
  <2>1. MarkedArea(area[c]) = <<0, Yres - 1>>
    BY <1>2 DEF MarkedArea, WholeScreen
  <2>2. /\ start' = IF 0 < start THEN 0 ELSE start
        /\ end' = IF Unsigned(Yres - 2) > end THEN Unsigned(Yres - 2) ELSE end
    BY <1>1, <2>1 DEF Mark
  <2>3. Unsigned(Yres - 2) \in 0..UintMax /\ Yres - 2 <= Unsigned(Yres - 2)
    BY <1>1, UintAssumption DEF Unsigned
  <2>4. QED
    BY <1>1, <1>2, <2>2, <2>3 DEF ToMark, Lines
<1>3. CASE area[c] # WholeScreen
  <2>1. PICK t \in Lines, h \in Heights : area[c] = <<t, h>>
    BY <1>3 DEF TypeData, Areas
  <2>2. t \in Nat /\ h \in Nat /\ t < Yres /\ t + h < UintMax
    BY <1>1, HeightAssumption, UintAssumption DEF Lines
  <2>3. MarkedArea(area[c]) = <<t, h>>
    BY <2>1, <2>2 DEF MarkedArea
  <2>4. /\ start' = IF t < start THEN t ELSE start
        /\ end' = IF Unsigned(t + h - 1) > end THEN Unsigned(t + h - 1) ELSE end
    BY <2>3 DEF Mark
  <2>5. Unsigned(t + h - 1) \in 0..UintMax /\ t + h - 1 <= Unsigned(t + h - 1)
    BY <1>1, <2>2 DEF Unsigned
  <2>6. \A y \in ToMark(area[c]) : y \in Lines /\ t <= y /\ y < t + h
    BY <1>3, <2>1 DEF ToMark, AreaLines
  <2>7. QED
    BY <1>1, <2>2, <2>4, <2>5, <2>6 DEF Lines
<1>4. QED
  BY <1>2, <1>3

-----------------------------------------------------------------------------
(* The types are kept. *)
LEMMA TypeStep == TypeData /\ AreaOfClient /\ FlushProtects /\ [Next]_vars => TypeData'
<1> SUFFICES ASSUME TypeData, AreaOfClient, FlushProtects, [Next]_vars PROVE TypeData'
  OBVIOUS
<1>0. Yres \in Nat \ {0} /\ 0 \in Lines /\ Yres - 1 \in Lines /\ 0 \in 0..UintMax
  BY SizeAssumption, UintAssumption DEF Lines
<1> USE DEF TypeData, markVars, lineVars, workVars, clientVars, pageVars, Move
<1>1. ASSUME NEW c \in Clients, Begin(c) PROVE TypeData'
  BY <1>1 DEF Begin
<1>2. ASSUME NEW c \in Clients, Store(c) PROVE TypeData'
  <2>1. PICK y \in Lines : Draw(y) \/ Lose({y})
    BY <1>2 DEF Store, AreaLines
  <2>2. stale' \in SUBSET Lines /\ lost' \in SUBSET stale'
    BY <2>1 DEF Draw, Lose
  <2>3. QED
    BY <1>2, <2>2 DEF Store
<1>3. ASSUME NEW c \in Clients, Stored(c) PROVE TypeData'
  BY <1>3 DEF Stored
<1>4. ASSUME NEW c \in Clients, Mark(c) PROVE TypeData'
  <2>1. start' \in Lines /\ end' \in 0..UintMax
    BY <1>4, MarkedLines
  <2>2. /\ pc' = [pc EXCEPT ![c] = "schedule"]
        /\ area' = [area EXCEPT ![c] = WholeScreen]
        /\ UNCHANGED <<lineVars, workVars, pageVars>>
    BY <1>4 DEF Mark
  <2>3. QED
    BY <2>1, <2>2
<1>5. ASSUME NEW c \in Clients, Schedule(c) PROVE TypeData'
  BY <1>5 DEF Schedule
<1>6. ASSUME NEW p \in Pages, Fault(p) PROVE TypeData'
  BY <1>6 DEF Fault
<1>7. ASSUME NEW p \in Pages, StoreMapped(p) PROVE TypeData'
  <2>1. PICK y \in Lines : Draw(y)
    BY <1>7 DEF StoreMapped, LinesOf
  <2>2. stale' \in SUBSET Lines /\ lost' \in SUBSET stale'
    BY <2>1 DEF Draw
  <2>3. QED
    BY <1>7, <2>2 DEF StoreMapped
<1>8. CASE StartWork
  BY <1>8 DEF StartWork
<1>9. CASE TakeDirty
  <2>1. from' \in Lines /\ to' \in Lines /\ next' = from'
    BY <1>9, TakenRange
  <2>2. /\ start' = Yres - 1 /\ end' = 0 /\ writable' = {} /\ work' = "flush"
        /\ UNCHANGED <<lineVars, clientVars, listed>>
    BY <1>9 DEF TakeDirty
  <2>3. next' \in 0..Yres
    BY <1>0, <2>1 DEF Lines
  <2>4. QED
    BY <1>0, <2>1, <2>2, <2>3
<1>10. CASE CopyLine
  BY <1>0, <1>10 DEF CopyLine, Lines
<1>11. CASE SendLines
  <2>1. from..to \subseteq Lines
    BY <1>0 DEF Lines
  <2>2. stale' \in SUBSET Lines /\ lost' \in SUBSET stale'
    BY <1>11, <2>1 DEF SendLines, Lose
  <2>3. writable = {}
    BY <1>11 DEF SendLines, FlushProtects
  <2>4. QED
    BY <1>0, <1>11, <2>2, <2>3 DEF SendLines
<1>12. CASE UNCHANGED vars
  BY <1>12 DEF vars
<1>13. QED
  BY <1>1, <1>2, <1>3, <1>4, <1>5, <1>6, <1>7, <1>8, <1>9, <1>10, <1>11, <1>12
     DEF Next, Client, Work

(* Each client keeps to its kind of area, and pages to the mutex. *)
LEMMA AuxStep ==
  TypeData /\ AreaOfClient /\ WritableQueued /\ FlushProtects /\ [Next]_vars
    => AreaOfClient' /\ WritableQueued' /\ FlushProtects'
<1> SUFFICES ASSUME TypeData, AreaOfClient, WritableQueued, FlushProtects, [Next]_vars
             PROVE  AreaOfClient' /\ WritableQueued' /\ FlushProtects'
  OBVIOUS
<1> USE DEF lineVars, markVars, workVars, clientVars, pageVars, Move
<1>1. AreaOfClient'
  <2> USE DEF TypeData, AreaOfClient
  <2>1. ASSUME NEW c \in Clients, Begin(c) PROVE AreaOfClient'
    BY <2>1, ClientAssumption DEF Begin
  <2>2. ASSUME NEW c \in Clients, Store(c) PROVE AreaOfClient'
    BY <2>2 DEF Store
  <2>3. ASSUME NEW c \in Clients, Stored(c) PROVE AreaOfClient'
    BY <2>3 DEF Stored
  <2>4. ASSUME NEW c \in Clients, Mark(c) PROVE AreaOfClient'
    BY <2>4 DEF Mark
  <2>5. ASSUME NEW c \in Clients, Schedule(c) PROVE AreaOfClient'
    BY <2>5 DEF Schedule
  <2>6. ASSUME NEW p \in Pages, Fault(p) \/ StoreMapped(p) PROVE AreaOfClient'
    BY <2>6 DEF Fault, StoreMapped
  <2>7. CASE Work \/ UNCHANGED vars
    BY <2>7 DEF Work, StartWork, TakeDirty, CopyLine, SendLines, vars
  <2>8. QED
    BY <2>1, <2>2, <2>3, <2>4, <2>5, <2>6, <2>7 DEF Next, Client
<1>2. WritableQueued' /\ FlushProtects'
  <2> USE DEF WritableQueued, FlushProtects
  <2>1. ASSUME NEW c \in Clients, Client(c) PROVE WritableQueued' /\ FlushProtects'
    BY <2>1 DEF Client, Begin, Store, Stored, Mark, Schedule
  <2>2. ASSUME NEW p \in Pages, Fault(p) \/ StoreMapped(p)
        PROVE WritableQueued' /\ FlushProtects'
    BY <2>2 DEF Fault, StoreMapped
  <2>3. CASE Work
    BY <2>3 DEF Work, StartWork, TakeDirty, CopyLine, SendLines
  <2>4. CASE UNCHANGED vars
    BY <2>4 DEF vars
  <2>5. QED
    BY <2>1, <2>2, <2>3, <2>4 DEF Next
<1>3. QED
  BY <1>1, <1>2

-----------------------------------------------------------------------------
(* No step leaves a stale line out of reach of the flushes. *)
LEMMA LostStep ==
  TypeData /\ AreaOfClient /\ FlushProtects /\ NoLostLine /\ [Next]_vars => NoLostLine'
<1> SUFFICES ASSUME TypeData, AreaOfClient, FlushProtects, NoLostLine, [Next]_vars,
                    NEW y \in stale' \ lost'
             PROVE  Reached(y)'
  BY DEF NoLostLine
<1> USE DEF lineVars, markVars, workVars, clientVars, pageVars, Move
<1>0. y \in stale \ lost => Reached(y)
  BY DEF NoLostLine
<1>1. ASSUME NEW c \in Clients, Begin(c) PROVE Reached(y)'
  BY <1>0, <1>1 DEF Begin, Reached, TypeData
<1>2. ASSUME NEW c \in Clients, Store(c) PROVE Reached(y)'
  <2>1. CASE y \in stale \ lost
    BY <1>0, <1>2, <2>1 DEF Store, Reached
  <2>2. CASE y \notin stale \ lost
    <3>1. PICK z \in AreaLines(area[c]) :
            IF c \in Writers /\ z = Yres - 1 THEN Lose({z}) ELSE Draw(z)
      BY <1>2 DEF Store
    <3>2. y = z /\ ~(c \in Writers /\ z = Yres - 1)
      BY <2>2, <3>1 DEF Lose, Draw
    <3>3. z \in ToMark(area[c])
      <4>1. CASE c \in Writers
        BY <3>1, <3>2, <4>1, SizeAssumption DEF ToMark, AreaLines, Lines
      <4>2. CASE c \notin Writers
        <5>1. area[c] \in Areas
          BY <1>2, <4>2 DEF Store, AreaOfClient, Clients
        <5>2. area[c] # WholeScreen
          <6>1. PICK t \in Lines, h \in Heights : area[c] = <<t, h>>
            BY <5>1 DEF Areas
          <6>2. t # -1
            BY SizeAssumption DEF Lines
          <6>3. QED
            BY <6>1, <6>2 DEF WholeScreen
        <5>3. QED
          BY <3>1, <5>2 DEF ToMark
      <4>3. QED
        BY <4>1, <4>2
    <3>4. QED
      BY <1>2, <3>2, <3>3 DEF Store, Reached
  <2>3. QED
    BY <2>1, <2>2
<1>3. ASSUME NEW c \in Clients, Stored(c) PROVE Reached(y)'
  BY <1>0, <1>3 DEF Stored, Reached, TypeData
<1>4. ASSUME NEW c \in Clients, Mark(c) PROVE Reached(y)'
  <2>1. /\ start' \in Lines /\ end' \in 0..UintMax
        /\ start' <= start /\ end <= end'
        /\ \A z \in ToMark(area[c]) : start' <= z /\ z <= end'
    BY <1>4, MarkedLines
  <2>2. y \in Int /\ start \in Int /\ end \in Int /\ start' \in Int /\ end' \in Int
    BY <2>1, <1>4, UintAssumption, SizeAssumption DEF TypeData, Lines, Mark
  <2>3. /\ UNCHANGED <<lineVars, workVars, pageVars>>
        /\ pc' = [pc EXCEPT ![c] = "schedule"]
        /\ area' = [area EXCEPT ![c] = WholeScreen]
    BY <1>4 DEF Mark
  <2>4. Reached(y)
    BY <1>0, <2>3
  <2>5. CASE start <= y /\ y <= end
    BY <2>1, <2>2, <2>5 DEF Reached
  <2>6. CASE y \in ToMark(area[c])
    BY <2>1, <2>6 DEF Reached
  <2>7. CASE /\ ~(start <= y /\ y <= end)
             /\ y \notin ToMark(area[c])
    BY <2>3, <2>4, <2>7 DEF Reached, TypeData
  <2>8. QED
    BY <2>5, <2>6, <2>7
<1>5. ASSUME NEW c \in Clients, Schedule(c) PROVE Reached(y)'
  BY <1>0, <1>5 DEF Schedule, Reached, TypeData
<1>6. ASSUME NEW p \in Pages, Fault(p) PROVE Reached(y)'
  BY <1>0, <1>6 DEF Fault, Reached
<1>7. ASSUME NEW p \in Pages, StoreMapped(p) PROVE Reached(y)'
  <2>1. work # "flush" /\ p \in listed
    BY <1>7 DEF StoreMapped, FlushProtects, TypeData
  <2>2. PICK z \in LinesOf(p) : Draw(z)
    BY <1>7 DEF StoreMapped
  <2>3. CASE y = z
    BY <1>7, <2>1, <2>2, <2>3 DEF StoreMapped, Reached
  <2>4. CASE y # z
    BY <1>0, <1>7, <2>2, <2>4 DEF StoreMapped, Reached, Draw
  <2>5. QED
    BY <2>3, <2>4
<1>8. CASE StartWork
  BY <1>0, <1>8 DEF StartWork, Reached
<1>9. CASE TakeDirty
  <2>1. UNCHANGED <<lineVars, clientVars, listed>> /\ work = "started" /\ work' = "flush"
    BY <1>9 DEF TakeDirty
  <2>2. Reached(y) /\ y \in Lines
    BY <1>0, <2>1 DEF TypeData
  <2>3. CASE (start <= y /\ y <= end) \/ (\E p \in listed : y \in LinesOf(p))
    <3>1. next' = from' /\ from' <= y /\ y <= to'
      BY <1>9, <2>2, <2>3, TakenRange
    <3>2. QED
      BY <2>1, <3>1 DEF Reached
  <2>4. CASE ~((start <= y /\ y <= end) \/ (\E p \in listed : y \in LinesOf(p)))
    BY <2>1, <2>2, <2>4 DEF Reached
  <2>5. QED
    BY <2>3, <2>4
<1>10. CASE CopyLine
  <2>1. y \in stale \ lost /\ y # next /\ y \in Int /\ next \in Int
    BY <1>10, SizeAssumption DEF CopyLine, TypeData, Lines
  <2>2. next <= y => next + 1 <= y
    BY <2>1
  <2>3. QED
    BY <1>0, <1>10, <2>1, <2>2 DEF CopyLine, Reached
<1>11. CASE SendLines
  <2>1. y \in stale \ lost
    BY <1>11 DEF SendLines, Lose
  <2>2. next \in Int /\ to \in Int /\ y \in Int
    BY <2>1, SizeAssumption DEF TypeData, Lines
  <2>3. work = "flush" /\ ~(next <= y /\ y <= to)
    BY <1>11, <2>2 DEF SendLines
  <2>4. QED
    BY <1>0, <1>11, <2>1, <2>3 DEF SendLines, Reached
<1>12. CASE UNCHANGED vars
  BY <1>0, <1>12 DEF vars, Reached
<1>13. QED
  BY <1>1, <1>2, <1>3, <1>4, <1>5, <1>6, <1>7, <1>8, <1>9, <1>10, <1>11, <1>12
     DEF Next, Client, Work

(* No step leaves a stale line without a flush to come. *)
LEMMA ComingStep ==
  /\ TypeData /\ WritableQueued /\ FlushProtects /\ NoLostLine /\ FlushComing
  /\ [Next]_vars
  => FlushComing'
<1> DEFINE Coming(y) ==
             \/ queued \/ work = "started"
             \/ work = "flush" /\ next <= y /\ y <= to
             \/ \E c \in Clients : pc[c] # "idle"
<1> SUFFICES ASSUME TypeData, WritableQueued, FlushProtects, NoLostLine, FlushComing,
                    [Next]_vars, NEW y \in stale' \ lost'
             PROVE  Coming(y)'
  BY DEF FlushComing
<1> USE DEF lineVars, markVars, workVars, clientVars, pageVars, Move
<1>0. y \in stale \ lost => Coming(y) /\ Reached(y)
  BY DEF FlushComing, NoLostLine
<1>1. ASSUME NEW c \in Clients, Begin(c) \/ Stored(c) \/ Mark(c) PROVE Coming(y)'
  <2>1. pc'[c] # "idle"
    BY <1>1 DEF Begin, Stored, Mark, TypeData
  <2>2. QED
    BY <2>1
<1>2. ASSUME NEW c \in Clients, Store(c) PROVE Coming(y)'
  <2>1. pc'[c] # "idle"
    BY <1>2 DEF Store
  <2>2. QED
    BY <2>1
<1>3. ASSUME NEW c \in Clients, Schedule(c) PROVE Coming(y)'
  BY <1>3 DEF Schedule
<1>4. ASSUME NEW p \in Pages, Fault(p) PROVE Coming(y)'
  BY <1>4 DEF Fault
<1>5. ASSUME NEW p \in Pages, StoreMapped(p) PROVE Coming(y)'
  BY <1>5 DEF StoreMapped, WritableQueued
<1>6. CASE StartWork
  BY <1>6 DEF StartWork
<1>7. CASE TakeDirty
  <2>1. UNCHANGED <<lineVars, clientVars, listed>> /\ work = "started" /\ work' = "flush"
    BY <1>7 DEF TakeDirty
  <2>2. Reached(y) /\ y \in Lines
    BY <1>0, <2>1 DEF TypeData
  <2>3. CASE (start <= y /\ y <= end) \/ (\E p \in listed : y \in LinesOf(p))
    <3>1. next' = from' /\ from' <= y /\ y <= to'
      BY <1>7, <2>2, <2>3, TakenRange
    <3>2. QED
      BY <2>1, <3>1
  <2>4. CASE ~((start <= y /\ y <= end) \/ (\E p \in listed : y \in LinesOf(p)))
    <3>1. \E c \in Clients : pc[c] # "idle"
      BY <2>1, <2>2, <2>4 DEF Reached
    <3>2. QED
      BY <2>1, <3>1
  <2>5. QED
    BY <2>3, <2>4
<1>8. CASE CopyLine
  <2>1. y \in stale \ lost /\ y # next /\ y \in Int /\ next \in Int
    BY <1>8, SizeAssumption DEF CopyLine, TypeData, Lines
  <2>2. next <= y => next + 1 <= y
    BY <2>1
  <2>3. QED
    BY <1>0, <1>8, <2>1, <2>2 DEF CopyLine
<1>9. CASE SendLines
  <2>1. y \in stale \ lost
    BY <1>9 DEF SendLines, Lose
  <2>2. next \in Int /\ to \in Int /\ y \in Int
    BY <2>1, SizeAssumption DEF TypeData, Lines
  <2>3. work = "flush" /\ ~(next <= y /\ y <= to)
    BY <1>9, <2>2 DEF SendLines
  <2>4. QED
    BY <1>0, <1>9, <2>1, <2>3 DEF SendLines
<1>10. CASE UNCHANGED vars
  BY <1>0, <1>10 DEF vars
<1>11. QED
  BY <1>1, <1>2, <1>3, <1>4, <1>5, <1>6, <1>7, <1>8, <1>9, <1>10
     DEF Next, Client, Work

LEMMA FlagStep == queued \in BOOLEAN /\ [Next]_vars => queued' \in BOOLEAN
<1> SUFFICES ASSUME queued \in BOOLEAN, [Next]_vars PROVE queued' \in BOOLEAN
  OBVIOUS
<1>1. ASSUME NEW c \in Clients, Client(c) PROVE queued' \in BOOLEAN
  BY <1>1 DEF Client, Begin, Store, Stored, Mark, Schedule
<1>2. ASSUME NEW p \in Pages, Fault(p) \/ StoreMapped(p) PROVE queued' \in BOOLEAN
  BY <1>2 DEF Fault, StoreMapped
<1>3. CASE Work
  BY <1>3 DEF Work, StartWork, TakeDirty, CopyLine, SendLines
<1>4. CASE UNCHANGED vars
  BY <1>4 DEF vars
<1>5. QED
  BY <1>1, <1>2, <1>3, <1>4 DEF Next

-----------------------------------------------------------------------------
(* The inductive invariant holds in every reachable state. *)
THEOREM FbInvariant == Spec => []IInv
<1>1. Init => IInv
  <2> SUFFICES ASSUME Init PROVE IInv
    OBVIOUS
  <2>1. queued \in BOOLEAN
    BY DEF Init
  <2>2. TypeData
    BY SizeAssumption, UintAssumption DEF Init, TypeData, Lines
  <2>3. AreaOfClient /\ WritableQueued /\ FlushProtects
    BY DEF Init, AreaOfClient, WritableQueued, FlushProtects
  <2>4. NoLostLine /\ FlushComing
    BY DEF Init, NoLostLine, FlushComing
  <2>5. QED
    BY <2>1, <2>2, <2>3, <2>4, TypeParts DEF IInv
<1>2. IInv /\ [Next]_vars => IInv'
  <2> SUFFICES ASSUME IInv, [Next]_vars PROVE IInv'
    OBVIOUS
  <2>1. queued' \in BOOLEAN
    BY TypeParts, FlagStep DEF IInv
  <2>2. TypeData'
    BY TypeParts, TypeStep DEF IInv
  <2>3. AreaOfClient' /\ WritableQueued' /\ FlushProtects'
    BY TypeParts, AuxStep DEF IInv
  <2>4. NoLostLine' /\ FlushComing'
    BY TypeParts, LostStep, ComingStep DEF IInv
  <2>5. TypeOK'
    BY <2>1, <2>2 DEF TypeOK, TypeData
  <2>6. QED
    BY <2>3, <2>4, <2>5 DEF IInv
<1>3. QED
  BY <1>1, <1>2, PTL DEF Spec

(* Type correctness: in particular the range that is sent never leaves the
   screen, however the unsigned marks wrap.                                *)
THEOREM FbTypeCorrect == Spec => []TypeOK
<1>1. IInv => TypeOK
  BY DEF IInv
<1>2. QED
  BY <1>1, FbInvariant, PTL

(* No update is forgotten, for any number of clients and any geometry. *)
THEOREM FbNoLostLine == Spec => []NoLostLine
<1>1. IInv => NoLostLine
  BY DEF IInv
<1>2. QED
  BY <1>1, FbInvariant, PTL

(* ... and the work that shows it is always on its way. *)
THEOREM FbFlushComing == Spec => []FlushComing
<1>1. IInv => FlushComing
  BY DEF IInv
<1>2. QED
  BY <1>1, FbInvariant, PTL

-----------------------------------------------------------------------------
(* Every step of the driver is a step of the abstract screen, or none: what
   is shown is only ever drawn over or refreshed, line by line.  (The other
   half of ShowsMemory, that refreshes do come, is a matter of fairness and
   of TLC.)                                                                *)
THEOREM FbImplementsScreen == Spec => S!Init /\ [][S!Next]_(stale \ lost)
<1>1. Init => S!Init
  BY DEF Init, S!Init
<1>2. IInv /\ [Next]_vars => [S!Next]_(stale \ lost)
  <2> SUFFICES ASSUME IInv, [Next]_vars PROVE [S!Next]_(stale \ lost)
    OBVIOUS
  <2> USE DEF lineVars, S!Next, S!Draw, S!Refresh
  <2>1. ASSUME NEW y \in Lines, Draw(y) PROVE [S!Next]_(stale \ lost)
    <3>1. stale' \ lost' = (stale \ lost) \cup {y}
      BY <2>1 DEF Draw
    <3>2. {y} \in SUBSET Lines
      OBVIOUS
    <3>3. QED
      BY <3>1, <3>2
  <2>2. ASSUME NEW y \in Lines, Lose({y}) PROVE [S!Next]_(stale \ lost)
    <3>1. stale' \ lost' = (stale \ lost) \ {y}
      BY <2>2 DEF Lose
    <3>2. QED
      BY <3>1
  <2>3. ASSUME NEW c \in Clients, Client(c) PROVE [S!Next]_(stale \ lost)
    <3>1. CASE Store(c)
      <4>1. PICK y \in Lines : Draw(y) \/ Lose({y})
        BY <3>1 DEF Store, AreaLines
      <4>2. QED
        BY <2>1, <2>2, <4>1
    <3>2. CASE ~Store(c)
      BY <2>3, <3>2 DEF Client, Begin, Stored, Mark, Schedule
    <3>3. QED
      BY <3>1, <3>2
  <2>4. ASSUME NEW p \in Pages, Fault(p) \/ StoreMapped(p)
        PROVE  [S!Next]_(stale \ lost)
    <3>1. CASE StoreMapped(p)
      <4>1. PICK y \in Lines : Draw(y)
        BY <3>1 DEF StoreMapped, LinesOf
      <4>2. QED
        BY <2>1, <4>1
    <3>2. CASE Fault(p)
      BY <3>2 DEF Fault
    <3>3. QED
      BY <2>4, <3>1, <3>2
  <2>5. CASE StartWork \/ TakeDirty \/ UNCHANGED vars
    BY <2>5 DEF StartWork, TakeDirty, vars
  <2>6. CASE CopyLine
    <3>1. stale' \ lost' = (stale \ lost) \ {next} /\ stale \subseteq Lines
      BY <2>6 DEF CopyLine, IInv, TypeOK
    <3>2. QED
      BY <3>1
  <2>7. CASE SendLines
    <3>1. stale' \ lost' = stale \ lost
      BY <2>7 DEF SendLines, Lose
    <3>2. QED
      BY <3>1
  <2>8. QED
    BY <2>3, <2>4, <2>5, <2>6, <2>7 DEF Next, Work
<1>3. QED
  BY <1>1, <1>2, FbInvariant, PTL DEF Spec
=============================================================================
