-------------------------------- MODULE WsConf ---------------------------------
(***************************************************************************)
(* patch-drive-ws-conf.sh: the locations unifi-drive needs are inserted    *)
(* into a file of nginx that unifi-core generates anew whenever it starts. *)
(* The fix script runs it, and so does the service of a systemd path unit, *)
(* which starts again as soon as it has ended as long as the file is there *)
(* (PathExists), until systemd finds that it starts too often.             *)
(***************************************************************************)
EXTENDS Integers

VARIABLES
  conf,      \* shared-runnable-drive.conf
  tmp,       \* its .tmp, one for all runs of the script
  served,    \* what nginx has loaded
  pat,       \* where each run of the script is
  lock,      \* who has it
  watch,     \* the path unit
  enabled,   \* is it started at boot
  reload,    \* is unifi-core about to make nginx load the file
  skipped    \* has a run ended between moving the file and making nginx load it

confVars == <<conf, tmp, served, pat, lock, watch, enabled, reload, skipped>>

Patchers == {"fix", "watcher"}
Contents == {"none", "plain", "patched", "doubled"}

ConfTypeOK ==
  /\ conf \in Contents /\ tmp \in Contents /\ served \in Contents
  /\ pat \in [Patchers -> {"off", "look", "build", "move", "load", "done"}]
  /\ lock \in Patchers \cup {"free"}
  /\ watch \in {"off", "waiting", "running", "failed"}
  /\ enabled \in BOOLEAN /\ reload \in BOOLEAN /\ skipped \in BOOLEAN

ConfInit ==
  /\ conf = "none" /\ tmp = "none" /\ served = "none"
  /\ pat = [w \in Patchers |-> "off"] /\ lock = "free"
  /\ watch = "off" /\ enabled = FALSE /\ reload = FALSE /\ skipped = FALSE

At(w, here, there) == pat[w] = here /\ pat' = [pat EXCEPT ![w] = there]
Done(w) == pat' = [pat EXCEPT ![w] = "done"] /\ lock' = "free"

(* The definitions whose names end in _<Slip> are mutated forms of the one
   that follows them: slips the properties are there to catch.             *)

(* flock -n *)
Begin_NoLock(w) ==
  /\ At(w, "off", "look") /\ lock' = w
  /\ UNCHANGED <<conf, tmp, served, watch, enabled, reload, skipped>>

Begin(w) ==
  /\ IF lock = "free" THEN At(w, "off", "look") /\ lock' = w
                      ELSE At(w, "off", "done") /\ UNCHANGED lock
  /\ UNCHANGED <<conf, tmp, served, watch, enabled, reload, skipped>>

(* No file, or the marker in it: nothing to do. *)
Look(w) ==
  /\ \/ conf = "plain" /\ At(w, "look", "build") /\ UNCHANGED lock
     \/ conf # "plain" /\ pat[w] = "look" /\ Done(w)
  /\ UNCHANGED <<conf, tmp, served, watch, enabled, reload, skipped>>

Inserted(c) == IF c = "plain" THEN "patched" ELSE "doubled"

Build(w) ==
  /\ At(w, "build", "move")
  /\ tmp' = Inserted(conf)
  /\ UNCHANGED <<conf, served, lock, watch, enabled, reload, skipped>>

Move_KeepsTmp(w) ==
  /\ pat[w] = "move"
  /\ IF tmp = "none" THEN Done(w) ELSE At(w, "move", "load") /\ UNCHANGED lock
  /\ UNCHANGED <<conf, tmp, served, watch, enabled, reload, skipped>>

Move(w) ==
  /\ pat[w] = "move"
  /\ IF tmp = "none" THEN Done(w) /\ UNCHANGED <<conf, tmp>>
     ELSE /\ At(w, "move", "load")
          /\ conf' = tmp /\ tmp' = "none" /\ UNCHANGED lock
  /\ UNCHANGED <<served, watch, enabled, reload, skipped>>

(* nginx -t, and if it succeeds the reload. *)
LoadConf(w) ==
  /\ pat[w] = "load" /\ Done(w)
  /\ \/ served' = conf /\ skipped' = FALSE
     \/ UNCHANGED served /\ skipped' = TRUE
  /\ UNCHANGED <<conf, tmp, watch, enabled, reload>>

PatchStep(w) == Look(w) \/ Build(w) \/ Move(w) \/ LoadConf(w)

-----------------------------------------------------------------------------
(* unifi-core *)
Regenerate ==
  /\ conf' = "plain" /\ reload' = TRUE
  /\ skipped' = FALSE
  /\ UNCHANGED <<tmp, served, pat, lock, watch, enabled>>

CoreReload ==
  /\ reload /\ reload' = FALSE
  /\ served' = conf /\ skipped' = FALSE
  /\ UNCHANGED <<conf, tmp, pat, lock, watch, enabled>>

-----------------------------------------------------------------------------
(* drive-ws-conf-watch.path and .service *)
Trigger ==
  /\ watch = "waiting" /\ conf # "none" /\ pat["watcher"] = "off"
  /\ watch' = "running"
  /\ UNCHANGED <<conf, tmp, served, pat, lock, enabled, reload, skipped>>

WatcherBegins == watch = "running" /\ Begin("watcher")

WatcherEnds ==
  /\ At("watcher", "done", "off")
  /\ watch' \in {"waiting", "failed"}
  /\ UNCHANGED <<conf, tmp, served, lock, enabled, reload, skipped>>

(* systemctl enable --now *)
EnableWatch ==
  /\ enabled' = TRUE
  /\ watch' = IF watch \in {"off", "failed"} THEN "waiting" ELSE watch

Watcher == Trigger \/ WatcherBegins \/ WatcherEnds \/ PatchStep("watcher")
=============================================================================
