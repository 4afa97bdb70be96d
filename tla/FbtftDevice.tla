------------------------------ MODULE FbtftDevice ------------------------------
(***************************************************************************)
(* The life of a frame buffer device: probe, allocation, registration and  *)
(* removal of fbtft-core.c for the sp8110, with a failure at every step,   *)
(* while the clients it has been made known to use the panel.              *)
(***************************************************************************)
EXTENDS Sp8110Bus, Sequences

CONSTANTS
  Boards    \* device trees: records of buswidth, dc and gamma

NumCurves == 1      \* display.gamma_num
NumValues == 15     \* display.gamma_len
OnOffBrightness == 1      \* of the core's own backlight: a mutated form of the next
InitialBrightness == 10   \* bl_props.brightness

VARIABLES
  core,        \* where probe or remove is
  board,       \* the device tree
  live,        \* what the driver holds
  leaked,      \* what the last probe or remove has neither freed nor kept
  brightness,  \* bl_dev->props.brightness
  dark         \* what was last asked for: that the screen be dark, as init_display leaves it

coreVars   == <<core, board, live, leaked>>
clientVars == <<brightness, dark>>
vars == <<busVars, coreVars, clientVars>>

Resources == {"info", "vmem", "drvdata", "backlight", "framebuffer", "work"}
Phases == {"out", "alloc", "fill", "setup", "register", "init", "show", "announce",
           "light", "on", "bound", "unlight", "unlit", "leave", "release"}

TypeOK ==
  /\ BusTypeOK
  /\ core \in Phases /\ board \in Boards
  /\ live \in SUBSET Resources /\ leaked \in SUBSET Resources
  /\ brightness \in Levels /\ dark \in BOOLEAN

Init ==
  /\ BusInit
  /\ core = "out" /\ board \in Boards
  /\ live = {} /\ leaked = {}
  /\ brightness = InitContrast /\ dark = TRUE

-----------------------------------------------------------------------------
(***************************************************************************)
(* Probe.  The driver core frees what devm_ gave when a probe fails or the *)
(* driver is removed.                                                      *)
(***************************************************************************)
Quit(freed) ==
  /\ core' = "out"
  /\ live' = {} /\ leaked' = live \ freed

(* fbtft_probe_dt, which may fail before anything is had. *)
Probe ==
  /\ core = "out" /\ core' \in {"out", "alloc"}
  /\ leaked' = {}
  /\ UNCHANGED <<board, live, busVars, clientVars>>

(* fbtft_gamma_parse_str: a line of values per curve. *)
GammaParses(g) ==
  /\ Len(g) = NumCurves
  /\ \A i \in DOMAIN g : g[i] = NumValues

(* fbtft_framebuffer_alloc: the memory of the screen and fb_info ... *)
Alloc ==
  /\ core = "alloc"
  /\ \/ Quit({})
     \/ core' = "fill" /\ live' = {"info", "vmem"} /\ UNCHANGED <<leaked>>
  /\ UNCHANGED <<board, busVars, clientVars>>

(* ... then the gamma curves and the transmit buffer, whose failure frees
   the memory of the screen and not fb_info.                                *)
Fill ==
  /\ core = "fill"
  /\ \/ Quit({"vmem"})
     \/ GammaParses(board.gamma) /\ core' = "setup" /\ UNCHANGED <<live, leaked>>
  /\ UNCHANGED <<board, busVars, clientVars>>

(* The bus width: without one the probe ends there and then. *)
Setup ==
  /\ core = "setup"
  /\ IF board.buswidth = 0 THEN Quit({})
     ELSE core' = "register" /\ UNCHANGED <<live, leaked>>
  /\ UNCHANGED <<board, busVars, clientVars>>

(* fbtft_request_gpios_dt, which any of the lines may end: the DC line, if
   the tree has it, goes high.                                              *)
RequestGpios(ok) ==
  dc' \in IF ~board.dc THEN {dc} ELSE IF ok THEN {1} ELSE {dc, 1}

(* fbtft_verify_gpios *)
GpiosVerified == board.buswidth = 9 \/ board.dc

(* The gpios, then reset and init_display. *)
Register ==
  /\ core = "register"
  /\ live' = live \cup {"drvdata"}
  /\ \E ok \in BOOLEAN :
       /\ RequestGpios(ok)
       /\ IF ok /\ GpiosVerified
          THEN /\ core' = "init"
               /\ Start("core", "init", "lock", {})
               /\ Confused
          ELSE /\ core' = "unlight"
               /\ UNCHANGED <<op, cmd, at, panelVars, alone, trusted>>
  /\ UNCHANGED <<level, area, buf, bus, steady, board, leaked, clientVars>>

(* set_var, which sends nothing for a rotation it does not know, and the
   first update of the whole display.                                       *)
Show ==
  /\ core = "init" /\ core' = "show"
  /\ \E c \in {"remap", "cols"} : Start("core", "show", c, Bands)
  /\ UNCHANGED <<level, area, lineVars, panelVars, board, live, leaked, clientVars>>

(* register_backlight, whose failure is only logged. *)
RegisterBacklight ==
  /\ core = "show" /\ Idle("core") /\ core' = "announce"
  /\ live' \in {live, live \cup {"backlight"}}
  /\ brightness' = InitialBrightness
  /\ UNCHANGED <<board, leaked, busVars, dark>>

(* register_framebuffer: from here on there are clients, and a work. *)
RegisterFramebuffer ==
  /\ core = "announce"
  /\ \/ core' = "light" /\ live' = live \cup {"framebuffer", "work"}
     \/ core' = "unlight" /\ UNCHANGED live
  /\ UNCHANGED <<board, leaked, busVars, clientVars>>

(* update_status, called with whatever the brightness is by now. *)
SendBrightness(a) ==
  /\ Start(a, "contrast", "contrast", {})
  /\ level' = [level EXCEPT ![a] = brightness']
  /\ UNCHANGED <<area, lineVars, panelVars>>

SendIfLit ==
  IF "backlight" \in live THEN SendBrightness("core") ELSE UNCHANGED busVars

Light ==
  /\ core = "light" /\ core' = "on"
  /\ UNCHANGED <<board, live, leaked, clientVars>>
  /\ SendIfLit

Bound ==
  /\ core = "on" /\ Idle("core") /\ core' = "bound"
  /\ UNCHANGED <<board, live, leaked, busVars, clientVars>>

-----------------------------------------------------------------------------
(* fbtft_remove_common and fbtft_unregister_framebuffer.  What follows is
   the way out of a failed registration too.                                *)
Remove ==
  /\ core = "bound" /\ core' = "unlight"
  /\ live' = live \ {"drvdata"}
  /\ UNCHANGED <<board, leaked, busVars, clientVars>>

(* fbtft_unregister_backlight writes the brightness a last time, under the
   update_lock of the backlight that Light does without, takes the device
   away and waits for who is still writing to it.                           *)
Unlight ==
  /\ core = "unlight" /\ core' = "unlit"
  /\ "backlight" \in live => Idle("brightness")
  /\ UNCHANGED <<board, live, leaked, clientVars>>
  /\ SendIfLit

Unlit_KeepsDevice ==
  /\ core = "unlit" /\ Idle("core") /\ core' = "leave"
  /\ UNCHANGED <<board, live, leaked, busVars, clientVars>>

Unlit ==
  /\ core = "unlit" /\ Idle("core") /\ core' = "leave"
  /\ live' = live \ {"backlight"}
  /\ UNCHANGED <<board, leaked, busVars, clientVars>>

Leave ==
  /\ core = "leave" /\ Idle("brightness") /\ core' = "release"
  /\ live' = live \ {"drvdata", "framebuffer"}
  /\ UNCHANGED <<board, leaked, busVars, clientVars>>

(* par->buf is freed; what becomes of the panel is not followed. *)
Forget ==
  /\ buf' = "none" /\ UNCHANGED <<actorVars, dc, bus, steady>>
  /\ Confused /\ alone' = FALSE /\ trusted' = {}
  /\ brightness' = InitialBrightness /\ dark' = TRUE

(* unregister_framebuffer has waited for calls in progress.  Then
   fbtft_framebuffer_release cancels the deferred work and waits for it.    *)
Release_WorkLeft ==
  /\ core = "release" /\ Idle("blank")
  /\ Quit({"info", "vmem", "work"})
  /\ Forget
  /\ UNCHANGED board

Release ==
  /\ core = "release" /\ Idle("blank") /\ Idle("work")
  /\ Quit({"info", "vmem", "work"})
  /\ Forget
  /\ UNCHANGED board

-----------------------------------------------------------------------------
(***************************************************************************)
(* Clients.                                                                *)
(***************************************************************************)
SetBrightness(b) ==
  /\ "backlight" \in live
  /\ core = "unlit" => Idle("core")
  /\ brightness' = b
  /\ UNCHANGED <<coreVars, dark>>
  /\ SendBrightness("brightness")

(* fbtft_fb_blank and blank. *)
Blank(b) ==
  /\ "framebuffer" \in live
  /\ dark' = b
  /\ Start("blank", "blank", IF b THEN "sleepOn" ELSE "sleepOff", {})
  /\ UNCHANGED <<level, area, lineVars, panelVars, coreVars, brightness>>

(* fbtft_deferred_io with the bands it finds (FbDeferred).  From the first
   fbtft_mkdirty on the work may be pending at any time.                    *)
Flush ==
  /\ "work" \in live
  /\ \E S \in SUBSET Bands \ {{}} : area' = S /\ Start("work", "flush", "cols", S)
  /\ UNCHANGED <<level, lineVars, panelVars, coreVars, clientVars>>

Core ==
  \/ Probe \/ Alloc \/ Fill \/ Setup \/ Register \/ Show \/ RegisterBacklight
  \/ RegisterFramebuffer \/ Light \/ Bound
  \/ Remove \/ Unlight \/ Unlit \/ Leave \/ Release

Next ==
  \/ Core
  \/ \E a \in Actors : BusStep(a) /\ UNCHANGED <<coreVars, clientVars>>
  \/ \E b \in Levels : SetBrightness(b)
  \/ \E b \in BOOLEAN : Blank(b)
  \/ Flush

Spec == Init /\ [][Next]_vars

-----------------------------------------------------------------------------
(* An operation that is alone on the bus, and whose transfers succeed, puts
   right what it is for and leaves the rest as it was, whatever state the
   panel and the lines were left in by races and failures before it: the
   panel shows what was drawn, at the brightness and in the sleep mode that
   were asked for.                                                          *)
PanelFollows ==
  /\ "contrast" \in trusted /\ "backlight" \in live => contrast = brightness
  /\ "sleep" \in trusted => asleep = IF dark THEN "yes" ELSE "no"
  /\ \A b \in Bands : b \in trusted => b \in right

(* Nobody is in the driver when its memory is freed, and the thread that
   initialises the panel is alone on the bus, also when the driver has been
   bound before.                                                            *)
OwnedMemory ==
  \A a \in Actors : ~Idle(a) =>
    /\ {"info", "vmem"} \subseteq live
    /\ op["core"] \in {"init", "show"} => a = "core"

(* Every way out of probe and remove frees what the way in has got, two
   excepted: a failure behind framebuffer_alloc loses fb_info, and a device
   tree without buswidth the memory of the screen with it.                  *)
LeaksHaveCauses ==
  [][leaked' # {} => \/ leaked' = leaked
                     \/ core = "fill" /\ leaked' = {"info"}
                     \/ core = "setup" /\ board.buswidth = 0]_vars

(* What the comments in init_display and register_backlight say: init_display
   leaves the panel asleep, and the fbtft core unblanks it when it succeeds,
   before anybody else can see the device.                                  *)
AwakeWhenAnnounced == core = "announce" /\ "sleep" \in trusted => asleep = "no"
=============================================================================
