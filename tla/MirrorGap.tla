------------------------------- MODULE MirrorGap -------------------------------
(***************************************************************************)
(* apt_run_with_mirror_gap_retry of 03-install-drive-stack.sh: an apt-get  *)
(* that fails is tried again without the lines of the security archive,    *)
(* and what it installed is held at that version.  The script runs under   *)
(* set -e, so most failures end it where they happen.                      *)
(***************************************************************************)
EXTENDS Integers, Sequences

CONSTANTS
  Calls,    \* the packages asked for, one call after the other
  Checked   \* those that dpkg -l is asked about at the end

Packages == {Calls[i] : i \in DOMAIN Calls}
ASSUME CallsAssumption ==
  Calls \in Seq(Packages) /\ Calls # <<>> /\ Checked \subseteq Packages

VARIABLES
  aptAt,     \* where the installer is
  call,      \* which call
  list,      \* sources.list: the security archive there or commented out
  bak,       \* sources.list.mirrorgap.bak
  pkg,       \* what is installed, and from where
  held,      \* apt-mark hold
  stranded,  \* has a run ever ended with the list commented out
  swallowed  \* failures of this run that were returned as success

aptVars == <<aptAt, call, list, bak, pkg, held, stranded, swallowed>>

AptStages == {"off", "try", "backup", "comment", "update", "simulate", "giveUp",
              "install", "hold", "restore", "refresh", "check", "through"}

AptTypeOK ==
  /\ aptAt \in AptStages /\ call \in DOMAIN Calls
  /\ list \in {"good", "commented"} /\ bak \in {"none", "good", "commented"}
  /\ pkg \in [Packages -> {"absent", "security", "regular"}]
  /\ held \subseteq Packages /\ stranded \in BOOLEAN /\ swallowed \subseteq Packages

AptInit ==
  /\ aptAt = "off" /\ call = 1 /\ list = "good" /\ bak = "none"
  /\ pkg = [p \in Packages |-> "absent"]
  /\ held = {} /\ stranded = FALSE /\ swallowed = {}

Package == Calls[call]
Step(here, there) == aptAt = here /\ aptAt' = there

AptExit ==
  /\ aptAt' = "off" /\ call' = 1 /\ swallowed' = {}
  /\ stranded' = (stranded \/ list = "commented")

Fails(here) ==
  /\ aptAt = here /\ AptExit
  /\ UNCHANGED <<list, bak, pkg, held>>

(* The definitions whose names end in _<Slip> are mutated forms of the one
   that follows them: slips the properties are there to catch.             *)
Return_OneMore ==
  IF call <= Len(Calls) THEN aptAt' = "try" /\ call' = call + 1
                        ELSE aptAt' = "check" /\ UNCHANGED call

Return ==
  IF call < Len(Calls) THEN aptAt' = "try" /\ call' = call + 1
                       ELSE aptAt' = "check" /\ UNCHANGED call

Installed(from) == [pkg EXCEPT ![Package] = IF @ = "absent" THEN from ELSE @]

(* The first apt-get, which may fail for the gap or for anything else. *)
Try ==
  /\ aptAt = "try"
  /\ \/ pkg' = Installed(IF list = "good" THEN "security" ELSE "regular") /\ Return
     \/ aptAt' = "backup" /\ UNCHANGED <<call, pkg>>
  /\ UNCHANGED <<list, bak, held, stranded, swallowed>>

Backup ==
  /\ Step("backup", "comment")
  /\ bak' = list
  /\ UNCHANGED <<call, list, pkg, held, stranded, swallowed>>

Comment ==
  /\ Step("comment", "update")
  /\ list' = "commented"
  /\ UNCHANGED <<call, bak, pkg, held, stranded, swallowed>>

Update ==
  \/ Step("update", "simulate") /\ UNCHANGED <<call, list, bak, pkg, held, stranded, swallowed>>
  \/ Fails("update")

Simulate ==
  /\ aptAt = "simulate" /\ aptAt' \in {"install", "giveUp"}
  /\ UNCHANGED <<call, list, bak, pkg, held, stranded, swallowed>>

(* The mv that puts the list back. *)
PutBack(there) ==
  /\ list' = bak /\ bak' = "none" /\ aptAt' = there
  /\ UNCHANGED <<call, pkg, held, stranded>>

(* The status that is returned is that of the if, 0. *)
GiveUp ==
  /\ aptAt = "giveUp" /\ PutBack("refresh")
  /\ swallowed' = swallowed \cup {Package}

(* What a failing apt-get has installed so far stays. *)
Install_GoesOn ==
  /\ Step("install", "restore")
  /\ pkg' \in {pkg, Installed("regular")}
  /\ UNCHANGED <<call, list, bak, held, stranded, swallowed>>

Install ==
  /\ aptAt = "install"
  /\ \/ /\ pkg' = Installed("regular")
        /\ aptAt' = IF pkg' = pkg THEN "restore" ELSE "hold"
        /\ UNCHANGED <<call, stranded, swallowed>>
     \/ pkg' \in {pkg, Installed("regular")} /\ AptExit
  /\ UNCHANGED <<list, bak, held>>

Hold ==
  \/ /\ Step("hold", "restore")
     /\ held' = held \cup {Package}
     /\ UNCHANGED <<call, list, bak, pkg, stranded, swallowed>>
  \/ Fails("hold")

Restore_KeepsComments ==
  /\ Step("restore", "refresh")
  /\ UNCHANGED <<call, list, bak, pkg, held, stranded, swallowed>>

Restore ==
  /\ aptAt = "restore" /\ PutBack("refresh")
  /\ UNCHANGED swallowed

Refresh ==
  \/ aptAt = "refresh" /\ Return /\ UNCHANGED <<list, bak, pkg, held, stranded, swallowed>>
  \/ Fails("refresh")

Check ==
  \/ /\ Step("check", "through")
     /\ \A p \in Checked : pkg[p] # "absent"
     /\ UNCHANGED <<call, list, bak, pkg, held, stranded, swallowed>>
  \/ /\ \E p \in Checked : pkg[p] = "absent"
     /\ Fails("check")

AptStep ==
  \/ Try \/ Backup \/ Comment \/ Update \/ Simulate \/ GiveUp
  \/ Install \/ Hold \/ Restore \/ Refresh \/ Check
=============================================================================
