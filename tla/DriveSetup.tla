------------------------------ MODULE DriveSetup -------------------------------
(***************************************************************************)
(* An operator runs 03-install-drive-stack.sh, which ends in               *)
(* 04-apply-drive-fixes.sh, or the latter alone, again and again on the    *)
(* same device.  A run may lose its terminal and the device its power at   *)
(* any step, while unifi-core, the watcher and package upgrades go on.     *)
(***************************************************************************)
EXTENDS MirrorGap, Wrapper, WsConf

CONSTANTS
  MaxRuns,     \* runs of the scripts: a bound
  MaxLosses    \* losses of power: a bound
ASSUME RunAssumption == MaxRuns \in Nat /\ MaxLosses \in Nat

VARIABLES runs, losses
vars == <<aptVars, fixVars, confVars, runs, losses>>

TypeOK ==
  /\ AptTypeOK /\ FixTypeOK /\ ConfTypeOK
  /\ runs \in 0..MaxRuns /\ losses \in 0..MaxLosses

Init == AptInit /\ FixInit /\ ConfInit /\ runs = 0 /\ losses = 0

Resting == aptAt = "off" /\ fixAt = "off" /\ pat["fix"] = "off"

Run ==
  /\ Resting /\ runs < MaxRuns
  /\ runs' = runs + 1
  /\ \/ aptAt' = "try" /\ UNCHANGED fixAt
     \/ fixAt' = "save" /\ UNCHANGED aptAt
  /\ UNCHANGED <<call, list, bak, pkg, held, stranded, swallowed, tool, path, real, copy, cut,
                 confVars, losses>>

RunFixes ==
  /\ aptAt = "through" /\ fixAt = "off" /\ fixAt' = "save"
  /\ UNCHANGED <<aptVars, tool, path, real, copy, cut, confVars, runs, losses>>

(* A fix that fails ends both scripts. *)
Fixes ==
  /\ FixStep
  /\ IF fixAt' = "off" THEN AptExit /\ UNCHANGED <<list, bak, pkg, held>> ELSE UNCHANGED aptVars
  /\ UNCHANGED <<confVars, runs, losses>>

(* fix_nginx_drive_proxy: whatever becomes of the patch, the watcher is
   installed.                                                               *)
FixPatches ==
  /\ Goes("patch", "patching") /\ Begin("fix")
  /\ UNCHANGED <<aptVars, tool, path, real, copy, cut, runs, losses>>

FixPatched ==
  /\ Goes("patching", "watch") /\ At("fix", "done", "off")
  /\ UNCHANGED <<aptVars, tool, path, real, copy, cut, runs, losses>>
  /\ UNCHANGED <<conf, tmp, served, lock, watch, enabled, reload, skipped>>

FixWatches ==
  /\ fixAt = "watch" /\ FixExit /\ AptExit /\ EnableWatch
  /\ UNCHANGED <<list, bak, pkg, held, path, real, copy, cut, runs, losses>>
  /\ UNCHANGED <<conf, tmp, served, pat, lock, reload, skipped>>

(* A run of the patch script that is killed loses its lock. *)
Killed(W) ==
  /\ pat' = [w \in Patchers |-> IF w \in W THEN "off" ELSE pat[w]]
  /\ lock' = IF lock \in W THEN "free" ELSE lock

(* The terminal goes: both scripts and their children die. *)
HangUp ==
  /\ ~Resting
  /\ AptExit /\ FixCut /\ Killed({"fix"})
  /\ skipped' = (skipped \/ pat["fix"] = "load")
  /\ UNCHANGED <<list, bak, pkg, held, conf, tmp, served, watch, enabled, reload, runs, losses>>

(* The power goes: afterwards nginx loads what is there, until unifi-core
   comes, and the watcher starts if it is enabled.                          *)
LosePower ==
  /\ losses < MaxLosses /\ losses' = losses + 1
  /\ AptExit /\ FixCut /\ Killed(Patchers)
  /\ served' = conf /\ reload' = FALSE /\ skipped' = FALSE
  /\ watch' = IF enabled THEN "waiting" ELSE "off"
  /\ UNCHANGED <<list, bak, pkg, held, conf, tmp, enabled, runs>>

Installer == AptStep /\ UNCHANGED <<fixVars, confVars, runs, losses>>
FixPatch == PatchStep("fix") /\ UNCHANGED <<aptVars, fixVars, runs, losses>>
Watch == Watcher /\ UNCHANGED <<aptVars, fixVars, runs, losses>>
Core == (Regenerate \/ CoreReload) /\ UNCHANGED <<aptVars, fixVars, runs, losses>>
Upgrades == \E t \in ToolSet : Upgrade(t) /\ UNCHANGED <<aptVars, confVars, runs, losses>>

Next ==
  \/ Run \/ Installer \/ RunFixes \/ Fixes \/ FixPatches \/ FixPatched \/ FixWatches
  \/ FixPatch \/ Watch \/ Core \/ Upgrades \/ HangUp \/ LosePower

(* A patch script that runs goes on, and so does systemd; nobody has to start
   the scripts or unifi-core.                                               *)
Fairness == WF_vars(FixPatch) /\ WF_vars(Watch)

Spec == Init /\ [][Next]_vars /\ Fairness

-----------------------------------------------------------------------------
(* Unless a run ever ended between commenting the list out and putting it
   back, whatever fails leaves apt with the list it had and with a good copy
   all the way, and no package from the regular archive is left unheld.     *)
SourcesComeBack ==
  ~stranded =>
    /\ "good" \in {list, bak}
    /\ aptAt \in {"off", "try", "check", "through"} => list = "good"
    /\ \A p \in Packages : pkg[p] = "regular" =>
         p \in held \/ (p = Package /\ aptAt = "hold")

(* The fixes of an installation are applied to all packages, those excepted
   whose failure was returned as success and that nobody asks about.        *)
FixesFollowInstall ==
  aptAt = "through" => \A p \in Packages \ (swallowed \ Checked) : pkg[p] # "absent"

(* Under the name of every tool there is a binary or a wrapper that has one
   behind it, but for the moment of its copy and for copies that were cut:
   a tool until the next run, a saved one for good.                         *)
Works(t) == path[t] \in Binaries \/ (path[t] = "wrapper" /\ real[t] \in Binaries)
ToolsWork ==
  \A t \in ToolSet :
    Works(t) \/ cut[t] # "no" \/ (t = Tool /\ fixAt \in {"installing", "reverting"})

(* The locations are inserted once, whoever races, and nginx serves them as
   soon as the run that moved them is through, unless that run was killed or
   nginx -t refused the file.                                               *)
PatchInForce ==
  /\ conf # "doubled"
  /\ conf = "patched" /\ served # "patched" =>
       skipped \/ reload \/ \E w \in Patchers : pat[w] = "load"

(* As long as systemd has not given the watcher up, a file that unifi-core
   has generated is patched.                                                *)
PatchedAgain == conf = "plain" ~> conf = "patched" \/ watch \in {"off", "failed"}
=============================================================================
