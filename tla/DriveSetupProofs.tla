--------------------------- MODULE DriveSetupProofs ---------------------------
(***************************************************************************)
(* Theorems about the set-up of the drive stack, for any packages, tools   *)
(* and numbers of runs and losses of power.  The three scripts share no    *)
(* variable, so the invariant is three invariants side by side; what a     *)
(* step does to the variables of one of them is stated first.              *)
(***************************************************************************)
EXTENDS DriveSetup, SequenceTheorems, TLAPS

(* Every call asks for a package, and every index has its tool. *)
LEMMA PackageOfCall ==
  /\ \A i \in DOMAIN Calls : Calls[i] \in Packages
  /\ \A p \in Packages : \E i \in DOMAIN Calls : p = Calls[i]
  BY DEF Packages

LEMMA CallsLength ==
  /\ Len(Calls) \in Nat /\ 1 <= Len(Calls)
  /\ DOMAIN Calls = 1..Len(Calls) /\ 1 \in DOMAIN Calls
<1>1. Len(Calls) \in Nat \ {0}
  BY CallsAssumption, EmptySeq
<1>2. QED
  BY <1>1, CallsAssumption

LEMMA ToolOfIndex == \A i \in DOMAIN Tools : Tools[i] \in ToolSet
  BY DEF ToolSet

LEMMA ToolsLength ==
  /\ Len(Tools) \in Nat /\ 1 <= Len(Tools)
  /\ DOMAIN Tools = 1..Len(Tools) /\ 1 \in DOMAIN Tools
<1>1. Len(Tools) \in Nat \ {0}
  BY ToolsAssumption, EmptySeq
<1>2. QED
  BY <1>1, ToolsAssumption

-----------------------------------------------------------------------------
(***************************************************************************)
(* What a step of the whole does to each part.                             *)
(***************************************************************************)
AptBegins == /\ Step("off", "try")
             /\ UNCHANGED <<call, list, bak, pkg, held, stranded, swallowed>>
AptEnds == AptExit /\ UNCHANGED <<list, bak, pkg, held>>

FixMoves(here, there) == Goes(here, there) /\ UNCHANGED <<tool, path, real, copy, cut>>
FixWalks == \/ FixMoves("off", "save") \/ FixMoves("patch", "patching")
            \/ FixMoves("patching", "watch")
FixEnds == /\ fixAt = "watch" /\ FixExit
           /\ UNCHANGED <<path, real, copy, cut>>

(* For the installer: a step of it, its begin, its end, or nothing. *)
LEMMA AptSteps == [Next]_vars => AptStep \/ AptBegins \/ AptEnds \/ UNCHANGED aptVars
<1> SUFFICES ASSUME [Next]_vars
             PROVE AptStep \/ AptBegins \/ AptEnds \/ UNCHANGED aptVars
  OBVIOUS
<1>1. CASE Run
  BY <1>1 DEF Run, Resting, AptBegins, Step, aptVars
<1>2. CASE Fixes
  BY <1>2 DEF Fixes, AptEnds
<1>3. CASE FixWatches \/ HangUp \/ LosePower
  BY <1>3 DEF FixWatches, HangUp, LosePower, AptEnds
<1>4. CASE RunFixes \/ FixPatches \/ FixPatched \/ FixPatch \/ Watch \/ Core \/ Upgrades
  BY <1>4 DEF RunFixes, FixPatches, FixPatched, FixPatch, Watch, Core, Upgrades
<1>5. CASE Installer
  BY <1>5 DEF Installer
<1>6. CASE UNCHANGED vars
  BY <1>6 DEF vars
<1>7. QED
  BY <1>1, <1>2, <1>3, <1>4, <1>5, <1>6 DEF Next

(* For the fixes: a step of theirs, an interruption, or an upgrade. *)
LEMMA FixSteps ==
  [Next]_vars => \/ FixStep \/ FixWalks \/ FixEnds \/ FixCut
                 \/ \E t \in ToolSet : Upgrade(t)
                 \/ UNCHANGED fixVars
<1> SUFFICES ASSUME [Next]_vars
             PROVE \/ FixStep \/ FixWalks \/ FixEnds \/ FixCut
                   \/ \E t \in ToolSet : Upgrade(t)
                   \/ UNCHANGED fixVars
  OBVIOUS
<1>1. CASE Run \/ RunFixes
  BY <1>1 DEF Run, RunFixes, Resting, FixWalks, FixMoves, Goes, fixVars
<1>2. CASE FixPatches \/ FixPatched
  BY <1>2 DEF FixPatches, FixPatched, FixWalks, FixMoves
<1>3. CASE FixWatches
  BY <1>3 DEF FixWatches, FixEnds
<1>4. CASE HangUp \/ LosePower
  BY <1>4 DEF HangUp, LosePower
<1>5. CASE Installer \/ FixPatch \/ Watch \/ Core
  BY <1>5 DEF Installer, FixPatch, Watch, Core
<1>6. CASE Upgrades
  BY <1>6 DEF Upgrades
<1>7. CASE Fixes
  BY <1>7 DEF Fixes
<1>8. CASE UNCHANGED vars
  BY <1>8 DEF vars
<1>9. QED
  BY <1>1, <1>2, <1>3, <1>4, <1>5, <1>6, <1>7, <1>8 DEF Next

-----------------------------------------------------------------------------
(***************************************************************************)
(* The installer.                                                          *)
(***************************************************************************)
HasBackup == {"comment", "update", "simulate", "giveUp", "install", "hold", "restore"}
Commented == HasBackup \ {"comment"}

(* What the list and its copy hold at each stage, unless the copy was ever
   made of a list that was commented out already.                           *)
ListInv ==
  /\ aptAt \in HasBackup => bak # "none"
  /\ ~stranded =>
       /\ list = IF aptAt \in Commented THEN "commented" ELSE "good"
       /\ aptAt \in HasBackup => bak = "good"
       /\ \A p \in Packages : pkg[p] = "regular" =>
            p \in held \/ (p = Package /\ aptAt = "hold")

Settled(p) == pkg[p] # "absent" \/ p \in swallowed

(* The calls that are behind are settled. *)
CallsInv ==
  /\ aptAt = "off" => call = 1
  /\ \A i \in DOMAIN Calls : i < call => Settled(Calls[i])
  /\ aptAt \in {"hold", "restore", "refresh"} => Settled(Package)
  /\ aptAt \in {"check", "through"} => \A p \in Packages : Settled(p)
  /\ aptAt = "through" => \A p \in Checked : pkg[p] # "absent"

AptInv == AptTypeOK /\ ListInv /\ CallsInv

(* An installer that has not begun satisfies its invariant. *)
LEMMA AptInitially == AptInit => AptInv
<1> SUFFICES ASSUME AptInit PROVE AptInv
  OBVIOUS
<1>1. AptTypeOK
  BY CallsLength DEF AptInit, AptTypeOK, AptStages
<1>2. ListInv
  BY DEF AptInit, ListInv, HasBackup, Commented
<1>3. CallsInv
  BY CallsLength DEF AptInit, CallsInv
<1>4. QED
  BY <1>1, <1>2, <1>3 DEF AptInv

(* Every step keeps the types of the installer's variables. *)
LEMMA AptTypeStep == AptInv /\ [Next]_vars => AptTypeOK'
<1> SUFFICES ASSUME AptInv, [Next]_vars PROVE AptTypeOK'
  OBVIOUS
<1> USE CallsLength, PackageOfCall
    DEF AptInv, AptTypeOK, AptStages, ListInv, HasBackup, Step, Package
<1>1. CASE Try
  BY <1>1 DEF Try, Return, Installed
<1>2. CASE Backup \/ Comment
  BY <1>2 DEF Backup, Comment
<1>3. CASE Update \/ Simulate
  BY <1>3 DEF Update, Simulate, Fails, AptExit
<1>4. CASE GiveUp \/ Restore
  BY <1>4 DEF GiveUp, Restore, PutBack
<1>5. CASE Install
  BY <1>5 DEF Install, Installed, AptExit
<1>6. CASE Hold \/ Check
  BY <1>6 DEF Hold, Check, Fails, AptExit
<1>7. CASE Refresh
  <2>1. CASE Fails("refresh")
    BY <2>1 DEF Fails, AptExit
  <2>2. CASE aptAt = "refresh" /\ Return /\ UNCHANGED <<list, bak, pkg, held, stranded, swallowed>>
    BY <2>2 DEF Return
  <2>3. QED
    BY <1>7, <2>1, <2>2 DEF Refresh
<1>8. CASE AptBegins \/ AptEnds \/ UNCHANGED aptVars
  BY <1>8 DEF AptBegins, AptEnds, AptExit, aptVars
<1>9. QED
  BY <1>1, <1>2, <1>3, <1>4, <1>5, <1>6, <1>7, <1>8, AptSteps DEF AptStep

(* Every step keeps what the list, its copy and the holds are known for. *)
LEMMA ListStep == AptInv /\ [Next]_vars => ListInv'
<1> SUFFICES ASSUME AptInv, [Next]_vars PROVE ListInv'
  OBVIOUS
<1> USE CallsLength, PackageOfCall
    DEF AptInv, AptTypeOK, ListInv, HasBackup, Commented, Step, Package
<1>1. CASE Try
  BY <1>1 DEF Try, Return, Installed
<1>2. CASE Backup \/ Comment
  BY <1>2 DEF Backup, Comment
<1>3. CASE Update \/ Simulate
  BY <1>3 DEF Update, Simulate, Fails, AptExit
<1>4. CASE GiveUp \/ Restore
  BY <1>4 DEF GiveUp, Restore, PutBack
<1>5. CASE Install
  BY <1>5 DEF Install, Installed, AptExit
<1>6. CASE Hold \/ Check
  BY <1>6 DEF Hold, Check, Fails, AptExit
<1>7. CASE Refresh
  BY <1>7 DEF Refresh, Fails, AptExit, Return
<1>8. CASE AptBegins \/ AptEnds \/ UNCHANGED aptVars
  BY <1>8 DEF AptBegins, AptEnds, AptExit, aptVars
<1>9. QED
  BY <1>1, <1>2, <1>3, <1>4, <1>5, <1>6, <1>7, <1>8, AptSteps DEF AptStep

(* Every step leaves the calls that are behind settled. *)
LEMMA CallsStep == AptInv /\ [Next]_vars => CallsInv'
<1> SUFFICES ASSUME AptInv, [Next]_vars PROVE CallsInv'
  OBVIOUS
<1> USE CallsLength, PackageOfCall
    DEF AptInv, AptTypeOK, CallsInv, Settled, Step, Package
<1>1. CASE Try
  BY <1>1 DEF Try, Return, Installed
<1>2. CASE Backup \/ Comment
  BY <1>2 DEF Backup, Comment
<1>3. CASE Update \/ Simulate
  BY <1>3 DEF Update, Simulate, Fails, AptExit
<1>4. CASE GiveUp \/ Restore
  BY <1>4 DEF GiveUp, Restore, PutBack
<1>5. CASE Install
  BY <1>5 DEF Install, Installed, AptExit
<1>6. CASE Hold \/ Check
  BY <1>6 DEF Hold, Check, Fails, AptExit
<1>7. CASE Refresh
  BY <1>7 DEF Refresh, Fails, AptExit, Return
<1>8. CASE AptBegins \/ AptEnds \/ UNCHANGED aptVars
  BY <1>8 DEF AptBegins, AptEnds, AptExit, aptVars
<1>9. QED
  BY <1>1, <1>2, <1>3, <1>4, <1>5, <1>6, <1>7, <1>8, AptSteps DEF AptStep

(* So the installer's invariant holds in every reachable state. *)
LEMMA AptAlways == Spec => []AptInv
<1>1. Init => AptInv
  BY AptInitially DEF Init
<1>2. AptInv /\ [Next]_vars => AptInv'
  BY AptTypeStep, ListStep, CallsStep DEF AptInv
<1>3. QED
  BY <1>1, <1>2, PTL DEF Spec

-----------------------------------------------------------------------------
(***************************************************************************)
(* The wrappers.                                                           *)
(***************************************************************************)
(* What is known of a tool: a file that is not whole is one that is being
   written or whose copy was cut, and a tool is replaced only once it has
   been saved.                                                              *)
ToolInv(t) ==
  /\ real[t] = "none" => path[t] \in Binaries
  /\ real[t] = "torn" => cut[t] = "save" \/ (t = Tool /\ fixAt = "saving")
  /\ path[t] = "torn" => cut[t] # "no" \/ (t = Tool /\ fixAt \in {"installing", "reverting"})

(* What is known of the tool the script is at. *)
HereInv ==
  /\ fixAt = "saving" => copy \in Binaries /\ path[Tool] \in Binaries
  /\ fixAt \in {"install", "installing", "try", "revert", "reverting"} => real[Tool] # "none"
  /\ fixAt \in {"revert", "reverting"} => real[Tool] \in Binaries

FixInv == FixTypeOK /\ HereInv /\ \A t \in ToolSet : ToolInv(t)

(* Before the first run nothing is replaced. *)
LEMMA FixInitially == FixInit => FixInv
<1> SUFFICES ASSUME FixInit PROVE FixInv
  OBVIOUS
<1>1. FixTypeOK
  BY ToolsLength DEF FixInit, FixTypeOK, FixStages, Binaries
<1>2. HereInv /\ \A t \in ToolSet : ToolInv(t)
  BY DEF FixInit, HereInv, ToolInv, Binaries
<1>3. QED
  BY <1>1, <1>2 DEF FixInv

(* Every step keeps the types of the fixes' variables. *)
LEMMA FixTypeStep == FixInv /\ [Next]_vars => FixTypeOK'
<1> SUFFICES ASSUME FixInv, [Next]_vars PROVE FixTypeOK'
  OBVIOUS
<1> USE ToolsLength, ToolOfIndex
    DEF FixInv, FixTypeOK, FixStages, Binaries, ToolInv, HereInv, Tool, Goes
<1>1. CASE Save
  BY <1>1 DEF Save
<1>2. CASE Saved
  BY <1>2 DEF Saved
<1>3. CASE Put
  BY <1>3 DEF Put
<1>4. CASE Placed
  BY <1>4 DEF Placed, Written, Whole, NextTool
<1>5. CASE TryOut
  BY <1>5 DEF TryOut, NextTool, FixExit
<1>6. CASE Revert
  BY <1>6 DEF Revert
<1>7. CASE Reverted
  BY <1>7 DEF Reverted, Written, Whole, FixExit
<1>8. CASE FixWalks \/ FixEnds \/ UNCHANGED fixVars
  BY <1>8 DEF FixWalks, FixMoves, FixEnds, FixExit, fixVars
<1>9. CASE FixCut
  BY <1>9 DEF FixCut, FixExit
<1>10. ASSUME NEW t \in ToolSet, Upgrade(t) PROVE FixTypeOK'
  BY <1>10 DEF Upgrade
<1>11. QED
  BY <1>1, <1>2, <1>3, <1>4, <1>5, <1>6, <1>7, <1>8, <1>9, <1>10, FixSteps DEF FixStep

(* Every step keeps what is known of the tool the script is at. *)
LEMMA HereStep == FixInv /\ [Next]_vars => HereInv'
<1> SUFFICES ASSUME FixInv, [Next]_vars PROVE HereInv'
  OBVIOUS
<1> USE ToolsLength, ToolOfIndex
    DEF FixInv, FixTypeOK, FixStages, Binaries, ToolInv, HereInv, Tool, Goes
<1>1. CASE Save
  BY <1>1 DEF Save
<1>2. CASE Saved
  BY <1>2 DEF Saved
<1>3. CASE Put
  BY <1>3 DEF Put
<1>4. CASE Placed
  BY <1>4 DEF Placed, NextTool
<1>5. CASE TryOut
  BY <1>5 DEF TryOut, NextTool, FixExit
<1>6. CASE Revert
  BY <1>6 DEF Revert
<1>7. CASE Reverted
  BY <1>7 DEF Reverted, FixExit
<1>8. CASE FixWalks \/ FixEnds \/ UNCHANGED fixVars
  BY <1>8 DEF FixWalks, FixMoves, FixEnds, FixExit, fixVars
<1>9. CASE FixCut
  BY <1>9 DEF FixCut, FixExit
<1>10. ASSUME NEW t \in ToolSet, Upgrade(t) PROVE HereInv'
  BY <1>10 DEF Upgrade
<1>11. QED
  BY <1>1, <1>2, <1>3, <1>4, <1>5, <1>6, <1>7, <1>8, <1>9, <1>10, FixSteps DEF FixStep

(* Every step keeps what is known of each tool. *)
LEMMA ToolStep == ASSUME NEW t \in ToolSet PROVE FixInv /\ [Next]_vars => ToolInv(t)'
<1> SUFFICES ASSUME FixInv, [Next]_vars PROVE ToolInv(t)'
  OBVIOUS
<1> USE ToolsLength, ToolOfIndex
    DEF FixInv, FixTypeOK, FixStages, Binaries, ToolInv, HereInv, Tool, Goes
<1>1. CASE Save
  BY <1>1 DEF Save
<1>2. CASE Saved
  BY <1>2 DEF Saved
<1>3. CASE Put
  BY <1>3 DEF Put
<1>4. CASE Placed
  BY <1>4 DEF Placed, Written, Whole, NextTool
<1>5. CASE TryOut
  BY <1>5 DEF TryOut, NextTool, FixExit
<1>6. CASE Revert
  BY <1>6 DEF Revert
<1>7. CASE Reverted
  BY <1>7 DEF Reverted, Written, Whole, FixExit
<1>8. CASE FixWalks \/ FixEnds \/ UNCHANGED fixVars
  BY <1>8 DEF FixWalks, FixMoves, FixEnds, FixExit, fixVars
<1>9. CASE FixCut
  BY <1>9 DEF FixCut, FixExit
<1>10. ASSUME NEW u \in ToolSet, Upgrade(u) PROVE ToolInv(t)'
  BY <1>10 DEF Upgrade
<1>11. QED
  BY <1>1, <1>2, <1>3, <1>4, <1>5, <1>6, <1>7, <1>8, <1>9, <1>10, FixSteps DEF FixStep

(* So the fixes' invariant holds in every reachable state. *)
LEMMA FixAlways == Spec => []FixInv
<1>1. Init => FixInv
  BY FixInitially DEF Init
<1>2. ASSUME FixInv, [Next]_vars PROVE FixInv'
  <2>1. \A t \in ToolSet : ToolInv(t)'
    BY <1>2, ToolStep
  <2>2. QED
    BY <1>2, <2>1, FixTypeStep, HereStep DEF FixInv
<1>3. QED
  BY <1>1, <1>2, PTL DEF Spec

-----------------------------------------------------------------------------
(***************************************************************************)
(* The configuration of nginx.                                             *)
(***************************************************************************)
(* For the patch: a step of one of its runs, or of those around it. *)
LEMMA ConfSteps ==
  [Next]_vars => \/ \E w \in Patchers : Begin(w) \/ Look(w) \/ Build(w) \/ Move(w) \/ LoadConf(w)
                 \/ Regenerate \/ CoreReload \/ Trigger \/ WatcherEnds
                 \/ FixPatched \/ FixWatches \/ HangUp \/ LosePower \/ UNCHANGED confVars
<1> SUFFICES ASSUME [Next]_vars
             PROVE \/ \E w \in Patchers : Begin(w) \/ Look(w) \/ Build(w) \/ Move(w) \/ LoadConf(w)
                   \/ Regenerate \/ CoreReload \/ Trigger \/ WatcherEnds
                   \/ FixPatched \/ FixWatches \/ HangUp \/ LosePower \/ UNCHANGED confVars
  OBVIOUS
<1>1. "fix" \in Patchers /\ "watcher" \in Patchers
  BY DEF Patchers
<1>2. CASE FixPatches
  BY <1>1, <1>2 DEF FixPatches
<1>3. CASE FixPatch
  BY <1>1, <1>3 DEF FixPatch, PatchStep
<1>4. CASE Watch
  BY <1>1, <1>4 DEF Watch, Watcher, WatcherBegins, PatchStep
<1>5. CASE Core
  BY <1>5 DEF Core
<1>6. CASE Run \/ Installer \/ RunFixes \/ Fixes \/ Upgrades
  BY <1>6 DEF Run, Installer, RunFixes, Fixes, Upgrades
<1>7. CASE UNCHANGED vars
  BY <1>7 DEF vars
<1>8. QED
  BY <1>2, <1>3, <1>4, <1>5, <1>6, <1>7 DEF Next

(* The lock keeps the runs apart, so what a run has looked at is still so. *)
LockInv ==
  /\ \A w \in Patchers : pat[w] \in {"look", "build", "move", "load"} => lock = w
  /\ \A w \in Patchers : pat[w] = "build" => conf = "plain"
  /\ tmp # "doubled"

ConfInv == ConfTypeOK /\ LockInv /\ PatchInForce

(* On a device without the file all of it holds. *)
LEMMA ConfInitially == ConfInit => ConfInv
  BY DEF ConfInit, ConfInv, ConfTypeOK, LockInv, PatchInForce, Contents, Patchers

(* Every step keeps the types of the patch's variables. *)
LEMMA ConfTypeStep == ConfInv /\ [Next]_vars => ConfTypeOK'
<1> SUFFICES ASSUME ConfInv, [Next]_vars PROVE ConfTypeOK'
  OBVIOUS
<1> USE DEF ConfInv, ConfTypeOK, Contents, Patchers
<1>1. ASSUME NEW w \in Patchers, Begin(w) PROVE ConfTypeOK'
  BY <1>1 DEF Begin, At
<1>2. ASSUME NEW w \in Patchers, Look(w) PROVE ConfTypeOK'
  BY <1>2 DEF Look, At, Done
<1>3. ASSUME NEW w \in Patchers, Build(w) PROVE ConfTypeOK'
  BY <1>3 DEF Build, At, Inserted
<1>4. ASSUME NEW w \in Patchers, Move(w) PROVE ConfTypeOK'
  BY <1>4 DEF Move, At, Done
<1>5. ASSUME NEW w \in Patchers, LoadConf(w) PROVE ConfTypeOK'
  BY <1>5 DEF LoadConf, Done
<1>6. CASE Regenerate \/ CoreReload
  BY <1>6 DEF Regenerate, CoreReload
<1>7. CASE Trigger \/ WatcherEnds
  BY <1>7 DEF Trigger, WatcherEnds, At
<1>8. CASE FixPatched \/ FixWatches
  BY <1>8 DEF FixPatched, FixWatches, At, EnableWatch
<1>9. CASE HangUp
  BY <1>9 DEF HangUp, Killed
<1>10. CASE LosePower
  BY <1>10 DEF LosePower, Killed
<1>11. CASE UNCHANGED confVars
  BY <1>11 DEF confVars
<1>12. QED
  BY <1>1, <1>2, <1>3, <1>4, <1>5, <1>6, <1>7, <1>8, <1>9, <1>10, <1>11, ConfSteps

(* Every step keeps the runs apart. *)
LEMMA LockStep == ConfInv /\ [Next]_vars => LockInv'
<1> SUFFICES ASSUME ConfInv, [Next]_vars PROVE LockInv'
  OBVIOUS
<1> USE DEF ConfInv, ConfTypeOK, LockInv, PatchInForce, Contents, Patchers
<1>1. ASSUME NEW w \in Patchers, Begin(w) PROVE LockInv'
  BY <1>1 DEF Begin, At
<1>2. ASSUME NEW w \in Patchers, Look(w) PROVE LockInv'
  BY <1>2 DEF Look, At, Done
<1>3. ASSUME NEW w \in Patchers, Build(w) PROVE LockInv'
  BY <1>3 DEF Build, At, Inserted
<1>4. ASSUME NEW w \in Patchers, Move(w) PROVE LockInv'
  BY <1>4 DEF Move, At, Done
<1>5. ASSUME NEW w \in Patchers, LoadConf(w) PROVE LockInv'
  BY <1>5 DEF LoadConf, Done
<1>6. CASE Regenerate \/ CoreReload
  BY <1>6 DEF Regenerate, CoreReload
<1>7. CASE Trigger \/ WatcherEnds
  BY <1>7 DEF Trigger, WatcherEnds, At
<1>8. CASE FixPatched \/ FixWatches
  BY <1>8 DEF FixPatched, FixWatches, At, EnableWatch
<1>9. CASE HangUp
  BY <1>9 DEF HangUp, Killed
<1>10. CASE LosePower
  BY <1>10 DEF LosePower, Killed
<1>11. CASE UNCHANGED confVars
  BY <1>11 DEF confVars
<1>12. QED
  BY <1>1, <1>2, <1>3, <1>4, <1>5, <1>6, <1>7, <1>8, <1>9, <1>10, <1>11, ConfSteps

(* Every step keeps the patch in force. *)
LEMMA ForceStep == ConfInv /\ [Next]_vars => PatchInForce'
<1> SUFFICES ASSUME ConfInv, [Next]_vars PROVE PatchInForce'
  OBVIOUS
<1> USE DEF ConfInv, ConfTypeOK, LockInv, PatchInForce, Contents, Patchers
<1>1. ASSUME NEW w \in Patchers, Begin(w) PROVE PatchInForce'
  BY <1>1 DEF Begin, At
<1>2. ASSUME NEW w \in Patchers, Look(w) PROVE PatchInForce'
  BY <1>2 DEF Look, At, Done
<1>3. ASSUME NEW w \in Patchers, Build(w) PROVE PatchInForce'
  BY <1>3 DEF Build, At, Inserted
<1>4. ASSUME NEW w \in Patchers, Move(w) PROVE PatchInForce'
  BY <1>4 DEF Move, At, Done
<1>5. ASSUME NEW w \in Patchers, LoadConf(w) PROVE PatchInForce'
  BY <1>5 DEF LoadConf, Done
<1>6. CASE Regenerate \/ CoreReload
  BY <1>6 DEF Regenerate, CoreReload
<1>7. CASE Trigger \/ WatcherEnds
  BY <1>7 DEF Trigger, WatcherEnds, At
<1>8. CASE FixPatched \/ FixWatches
  BY <1>8 DEF FixPatched, FixWatches, At, EnableWatch
<1>9. CASE HangUp
  BY <1>9 DEF HangUp, Killed
<1>10. CASE LosePower
  BY <1>10 DEF LosePower, Killed
<1>11. CASE UNCHANGED confVars
  BY <1>11 DEF confVars
<1>12. QED
  BY <1>1, <1>2, <1>3, <1>4, <1>5, <1>6, <1>7, <1>8, <1>9, <1>10, <1>11, ConfSteps

(* So the invariant of the patch holds in every reachable state. *)
LEMMA ConfAlways == Spec => []ConfInv
<1>1. Init => ConfInv
  BY ConfInitially DEF Init
<1>2. ConfInv /\ [Next]_vars => ConfInv'
  BY ConfTypeStep, LockStep, ForceStep DEF ConfInv
<1>3. QED
  BY <1>1, <1>2, PTL DEF Spec

-----------------------------------------------------------------------------
(* The counters of the environment stay below their bounds. *)
LEMMA BoundsAlways == Spec => [](runs \in 0..MaxRuns /\ losses \in 0..MaxLosses)
<1> DEFINE Bounds == runs \in 0..MaxRuns /\ losses \in 0..MaxLosses
<1>1. Init => Bounds
  BY RunAssumption DEF Init
<1>2. ASSUME Bounds, [Next]_vars PROVE Bounds'
  <2>1. CASE Run
    BY <1>2, <2>1, RunAssumption DEF Run
  <2>2. CASE LosePower
    BY <1>2, <2>2, RunAssumption DEF LosePower
  <2>3. CASE UNCHANGED <<runs, losses>>
    BY <1>2, <2>3
  <2>4. QED
    BY <1>2, <2>1, <2>2, <2>3
    DEF Next, vars, Installer, RunFixes, Fixes, FixPatches, FixPatched, FixWatches, FixPatch,
        Watch, Core, Upgrades, HangUp
<1>3. QED
  BY <1>1, <1>2, PTL DEF Spec

(* Type correctness: a backup that is put back is there, and a tool that is
   saved or taken back is whole.                                            *)
THEOREM SetupTypeCorrect == Spec => []TypeOK
<1>1. AptInv /\ FixInv /\ ConfInv /\ runs \in 0..MaxRuns /\ losses \in 0..MaxLosses => TypeOK
  BY DEF TypeOK, AptInv, FixInv, ConfInv
<1>2. QED
  BY <1>1, AptAlways, FixAlways, ConfAlways, BoundsAlways, PTL

(* For any packages: whatever fails, apt's list comes back, and what was
   installed without the security archive is held.                         *)
THEOREM SetupSourcesComeBack == Spec => []SourcesComeBack
<1>1. AptInv => SourcesComeBack
  BY DEF AptInv, AptTypeOK, ListInv, SourcesComeBack, HasBackup, Commented
<1>2. QED
  BY <1>1, AptAlways, PTL

(* For any packages: the fixes follow an installation of all of them, those
   excepted whose failure was swallowed.                                   *)
THEOREM SetupFixesFollowInstall == Spec => []FixesFollowInstall
<1>1. AptInv => FixesFollowInstall
  BY DEF AptInv, CallsInv, Settled, FixesFollowInstall
<1>2. QED
  BY <1>1, AptAlways, PTL

(* For any tools: an upgrade or an interruption at any moment leaves every
   tool a working one, but for the copy that it cut.                       *)
THEOREM SetupToolsWork == Spec => []ToolsWork
<1>1. FixInv => ToolsWork
  BY DEF FixInv, FixTypeOK, HereInv, ToolInv, ToolsWork, Works, Binaries
<1>2. QED
  BY <1>1, FixAlways, PTL

(* For any number of runs and losses of power: the locations are inserted
   once, and nginx serves them, the named exceptions apart.                *)
THEOREM SetupPatchInForce == Spec => []PatchInForce
<1>1. ConfInv => PatchInForce
  BY DEF ConfInv
<1>2. QED
  BY <1>1, ConfAlways, PTL
=============================================================================
