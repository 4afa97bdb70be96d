-------------------------------- MODULE Wrapper --------------------------------
(***************************************************************************)
(* The wrappers of 04-apply-drive-fixes.sh: a system tool is saved as      *)
(* <tool>.real once and a script put in its place; one of them is tried    *)
(* out and taken back if its answer is wrong.  Copies can be cut short,    *)
(* and a package upgrade may replace the tool at any moment.               *)
(***************************************************************************)
EXTENDS Integers, Sequences

CONSTANTS
  Tools,    \* the tools that get a wrapper, in this order
  Tried     \* those whose wrapper is tried out

ToolSet == {Tools[i] : i \in DOMAIN Tools}
ASSUME ToolsAssumption ==
  Tools \in Seq(ToolSet) /\ Tools # <<>> /\ Tried \subseteq ToolSet

VARIABLES
  fixAt,    \* where the fix script is
  tool,     \* at which tool
  path,     \* what is installed under the name of the tool
  real,     \* what is under <tool>.real
  copy,     \* what a copy in progress reads
  cut       \* the copies that were cut short: none, one to the tool, the saving one

fixVars == <<fixAt, tool, path, real, copy, cut>>

Binaries == {"old", "new"}
FixStages == {"off", "save", "saving", "install", "installing", "try", "revert", "reverting",
              "patch", "patching", "watch"}

FixTypeOK ==
  /\ fixAt \in FixStages /\ tool \in DOMAIN Tools
  /\ path \in [ToolSet -> Binaries \cup {"wrapper", "torn"}]
  /\ real \in [ToolSet -> Binaries \cup {"none", "torn"}]
  /\ copy \in Binaries \cup {"none"}
  /\ cut \in [ToolSet -> {"no", "tool", "save"}]

FixInit ==
  /\ fixAt = "off" /\ tool = 1 /\ copy = "none"
  /\ path = [t \in ToolSet |-> "old"] /\ real = [t \in ToolSet |-> "none"]
  /\ cut = [t \in ToolSet |-> "no"]

Tool == Tools[tool]
Goes(here, there) == fixAt = here /\ fixAt' = there

NextTool ==
  IF tool < Len(Tools) THEN fixAt' = "save" /\ tool' = tool + 1
                       ELSE fixAt' = "patch" /\ tool' = 1

FixExit == fixAt' = "off" /\ tool' = 1

(* The definitions whose names end in _<Slip> are mutated forms of the one
   that follows them: slips the properties are there to catch.             *)

(* Saved if there is no file of that name yet; the copy takes time. *)
Save_Always ==
  /\ Goes("save", "saving")
  /\ copy' = path[Tool] /\ real' = [real EXCEPT ![Tool] = "torn"]
  /\ UNCHANGED <<tool, path, cut>>

Save ==
  /\ IF real[Tool] = "none"
     THEN /\ Goes("save", "saving")
          /\ copy' = path[Tool] /\ real' = [real EXCEPT ![Tool] = "torn"]
     ELSE Goes("save", "install") /\ UNCHANGED <<copy, real>>
  /\ UNCHANGED <<tool, path, cut>>

Saved ==
  /\ Goes("saving", "install")
  /\ real' = [real EXCEPT ![Tool] = copy] /\ copy' = "none"
  /\ UNCHANGED <<tool, path, cut>>

(* install removes the file and writes a new one ... *)
Put ==
  /\ Goes("install", "installing")
  /\ path' = [path EXCEPT ![Tool] = "torn"]
  /\ UNCHANGED <<tool, real, copy, cut>>

(* ... that an upgrade may have replaced meanwhile. *)
Written(file) == [path EXCEPT ![Tool] = IF @ = "torn" THEN file ELSE @]
Whole == [cut EXCEPT ![Tool] = IF @ = "tool" THEN "no" ELSE @]

Placed ==
  /\ fixAt = "installing"
  /\ path' = Written("wrapper") /\ cut' = Whole
  /\ IF Tool \in Tried THEN fixAt' = "try" /\ UNCHANGED tool ELSE NextTool
  /\ UNCHANGED <<real, copy>>

(* A command that fails ends the script with the wrapper in place; a wrong
   answer takes the wrapper back first.                                     *)
TryOut ==
  /\ fixAt = "try"
  /\ \/ real[Tool] \in Binaries /\ NextTool
     \/ real[Tool] \in Binaries /\ fixAt' = "revert" /\ UNCHANGED tool
     \/ FixExit
  /\ UNCHANGED <<path, real, copy, cut>>

Revert ==
  /\ Goes("revert", "reverting")
  /\ path' = [path EXCEPT ![Tool] = "torn"]
  /\ UNCHANGED <<tool, real, copy, cut>>

Reverted ==
  /\ fixAt = "reverting" /\ FixExit
  /\ path' = Written(real[Tool]) /\ cut' = Whole
  /\ UNCHANGED <<real, copy>>

FixStep == Save \/ Saved \/ Put \/ Placed \/ TryOut \/ Revert \/ Reverted

(* The script ends where it is: a copy in progress stays as it is. *)
FixCut ==
  /\ FixExit /\ copy' = "none"
  /\ cut' = [cut EXCEPT ![Tool] =
       CASE fixAt = "saving"                     -> "save"
         [] fixAt \in {"installing", "reverting"} /\ path[Tool] = "torn" /\ @ = "no" -> "tool"
         [] OTHER                                -> @]
  /\ UNCHANGED <<path, real>>

(* dpkg renames a new file over the old one. *)
Upgrade(t) ==
  /\ path[t] # "new" /\ real[t] # "new"
  /\ path' = [path EXCEPT ![t] = "new"]
  /\ cut' = [cut EXCEPT ![t] = IF @ = "tool" THEN "no" ELSE @]
  /\ UNCHANGED <<fixAt, tool, real, copy>>
=============================================================================
