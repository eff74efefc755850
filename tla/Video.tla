-------------------------------- MODULE Video -------------------------------
(***************************************************************************)
(* What the goggle shows: the source of the video, the OLED, the receiver  *)
(* of HDZero and the layout of the OSD, which belong to everybody.         *)
(*                                                                         *)
(*   ui    the main loop and the buttons, one at a time under lvgl_mutex:  *)
(*         app_state.c, sleep_mode.c, page_source.c, fhd_change of osd.c,  *)
(*         detect_motion of ht.c                                           *)
(*   per   thread_peripheral, which looks at the inputs again and again:   *)
(*         HDZERO_detect, AV_in_detect, HDMI_in_detect of hardware.c       *)
(*   uart  the receiver of the camera's data, which changes CAM_MODE       *)
(*         whenever it likes: camTypeDetect of msp_displayport.c           *)
(*   rx    the receiver of the backpack, which looks at the source before  *)
(*         it waits for lvgl_mutex: msp_process_packet of elrs.c           *)
(*                                                                         *)
(* ui and per share hardware_mutex.  A call under the mutex is one step,   *)
(* except HDZERO_detect, which reads CAM_MODE again and again while it has *)
(* the mutex: a step for each time.  A handler of ui is the sequence of    *)
(* the calls it makes, kept in todo until they are made; g_app_state and   *)
(* g_source_info.source, which nothing here reads in between, get their    *)
(* last value at once.  How each analog signal is recognised is left out:  *)
(* AV_in_detect finds that the standard is the other one, or it does not.  *)
(***************************************************************************)
EXTENDS Naturals, Sequences

CONSTANTS Cams,     \* types of cameras that are shown in different ways
          FhdCams,  \* those of them that are 1080P
          Signals,  \* timings at the HDMI input
          FhdSignals,
          Unknown   \* timings at the HDMI input that are not known

ASSUME VideoAssumption ==
  /\ Cams # {} /\ FhdCams \subseteq Cams
  /\ FhdSignals \subseteq Signals /\ FhdSignals # {}
  /\ Cams \cap (Signals \cup Unknown) = {} /\ Unknown \cap Signals = {}
  /\ (Cams \cup Signals \cup Unknown) \cap {"UI", "PAL", "NTSC", "AV", "none"} = {}

VARIABLES
  app,       \* g_app_state: "menu" stands for every page of the menu, "ims"
             \* for the two settings that are made in front of the video
  previous,  \* previousState of sleep_mode.c
  asleep,    \* isSleeping
  source,    \* g_source_info.source: "AV" stands for AV in and analog
  radio,     \* is rx about to change the channel?
  stray,     \* history: has it done so when another source had been chosen?
  todo,      \* the calls ui has still to make
  picked,    \* the argument of the call that shows a camera
  mode,      \* g_hw_stat.source_mode
  timing,    \* what the display is set to: a camera, a standard, a signal, "UI"
  oled,      \* is the OLED on?
  open,      \* g_hw_stat.hdzero_open
  per,       \* where per is in its round
  camMode,   \* CAM_MODE
  camLast,   \* cam_mode_last of HDZERO_detect
  fhdReq,    \* fhd_req: "FHD" for 1, "HD" for -1, "none" for 0
  isFhd,     \* is_fhd of osd.c
  lvgl,      \* the size lvgl draws in: "FHD" or "HD"
  osd,       \* is the OSD shown?
  conf,      \* what record.conf says the video is: dvr_update_vi_conf
  signal,    \* what is at the HDMI input
  hdmiValid, \* g_hw_stat.hdmiin_valid
  hdmiVtmg,  \* g_hw_stat.hdmiin_vtmg
  vtmgLast,  \* vtmg_last of HDMI_in_detect
  protected, \* state of detect_motion: is it OLED_MD_OFF?
  calm       \* history: has every change been noticed before the next one,
             \* and the last signal of HDMI before HDMI is chosen again?

where   == <<app, previous, asleep, source, radio, stray>>
display == <<mode, timing, oled, open>>
camera  == <<camMode, camLast>>
layout  == <<isFhd, lvgl, osd>>
hdmi    == <<signal, hdmiValid, hdmiVtmg, vtmgLast>>
vars == <<where, todo, picked, display, per, camera, fhdReq, layout, conf, hdmi, protected, calm>>

Sources == {"HDZERO", "HDMI", "AV"}
Size(c) == IF c \in FhdCams \cup FhdSignals THEN "FHD" ELSE "HD"

Init ==
  /\ app = "menu" /\ previous = "menu" /\ asleep = FALSE /\ source \in Sources
  /\ radio = FALSE /\ stray = FALSE
  /\ todo = <<>> /\ picked = "none"
  /\ mode = "UI" /\ timing = "UI" /\ oled = TRUE /\ open = FALSE
  /\ per = "hdz"
  /\ camMode \in Cams \ FhdCams /\ camLast = camMode
  /\ fhdReq = "none" /\ isFhd = FALSE /\ lvgl = "FHD" /\ osd = FALSE
  /\ conf = "UI"
  /\ signal = "none" /\ hdmiValid = FALSE /\ hdmiVtmg \in FhdSignals /\ vtmgLast = "none"
  /\ protected = FALSE
  /\ calm = TRUE

Idle == todo = <<>>
Busy == per \in {"show", "fhd", "conf", "last"}   \* HDZERO_detect has the mutex
MutexFree == ~Busy
-----------------------------------------------------------------------------
(* The environment                                                         *)

\* Has the size been asked for, or will it be when the change of the camera is
\* noticed?  From one 1080P to another it is asked for, too.
Pending ==
  \/ fhdReq # "none"
  \/ mode = "HDZERO" /\ camLast # camMode /\ {camLast, camMode} \cap FhdCams # {}

\* camTypeDetect: two packets in a row say the same type.
CamType(c) ==
  /\ c # camMode
  /\ camMode' = c
  /\ calm' = (calm /\ Idle /\ ~Busy /\ fhdReq = "none" /\ (mode = "HDZERO" => camLast = camMode))
  /\ UNCHANGED <<where, todo, picked, display, per, camLast, fhdReq, layout, conf, hdmi, protected>>

HdmiSignal(s) ==
  /\ s # signal
  /\ signal' = s
  /\ UNCHANGED <<where, todo, picked, display, per, camera, fhdReq, layout, conf, hdmiValid,
                 hdmiVtmg, vtmgLast, protected, calm>>
-----------------------------------------------------------------------------
(* thread_peripheral                                                       *)

Peripheral == UNCHANGED <<where, todo, picked, layout, protected, calm>>

\* HDZERO_detect takes the mutex and compares.
Compare ==
  /\ per = "hdz"
  /\ per' = IF mode = "HDZERO" /\ camLast # camMode THEN "show" ELSE "av"
  /\ Peripheral /\ UNCHANGED <<display, camera, fhdReq, conf, hdmi>>

\* Display_720P60_50_t and its likes; the source mode is set again.
Shows(c) == mode' = "HDZERO" /\ timing' = c /\ oled' = TRUE

DetectShow ==
  /\ per = "show" /\ per' = "fhd"
  /\ Shows(camMode)
  /\ Peripheral /\ UNCHANGED <<open, camera, fhdReq, conf, hdmi>>

\* Mutant: a return from 1080P is not asked for.
DetectFhd_noReturn ==
  /\ per = "fhd" /\ per' = "conf"
  /\ fhdReq' = IF camMode \in FhdCams THEN "FHD" ELSE fhdReq
  /\ Peripheral /\ UNCHANGED <<display, camera, conf, hdmi>>

DetectFhd ==
  /\ per = "fhd" /\ per' = "conf"
  /\ fhdReq' = IF camMode \in FhdCams THEN "FHD"
               ELSE IF camLast \in FhdCams THEN "HD" ELSE fhdReq
  /\ Peripheral /\ UNCHANGED <<display, camera, conf, hdmi>>

\* Mutant: the configuration is that of the camera before.
DetectConf_last ==
  /\ per = "conf" /\ per' = "last"
  /\ conf' = camLast
  /\ Peripheral /\ UNCHANGED <<display, camera, fhdReq, hdmi>>

DetectConf ==
  /\ per = "conf" /\ per' = "last"
  /\ conf' = camMode
  /\ Peripheral /\ UNCHANGED <<display, camera, fhdReq, hdmi>>

\* ... and gives the mutex back.
DetectLast ==
  /\ per = "last" /\ per' = "av"
  /\ camLast' = camMode
  /\ Peripheral /\ UNCHANGED <<display, camMode, fhdReq, conf, hdmi>>

\* AV_in_detect: the other standard is tried, or nothing is to do.
DetectAv ==
  /\ per = "av" /\ per' = "hdmi"
  /\ \/ /\ mode = "AV"
        /\ timing' = IF timing = "PAL" THEN "NTSC" ELSE "PAL"
        /\ oled' = TRUE
     \/ UNCHANGED <<timing, oled>>
  /\ Peripheral /\ UNCHANGED <<mode, open, camera, fhdReq, conf, hdmi>>

\* Mutant: a new timing is shown, but the configuration is left alone.
NewTiming_noConf ==
  /\ vtmgLast' = signal
  /\ IF signal \in Unknown
       THEN oled' = FALSE /\ UNCHANGED <<timing, conf, hdmiVtmg>>
       ELSE oled' = TRUE /\ timing' = signal /\ hdmiVtmg' = signal /\ UNCHANGED conf

\* HDMI_in_detect: a new timing is shown, unless it is not known.
NewTiming ==
  /\ vtmgLast' = signal
  /\ IF signal \in Unknown
       THEN oled' = FALSE /\ UNCHANGED <<timing, conf, hdmiVtmg>>
       ELSE oled' = TRUE /\ timing' = signal /\ conf' = signal /\ hdmiVtmg' = signal

NoTiming == vtmgLast' = "none" /\ UNCHANGED <<oled, timing, conf, hdmiVtmg>>

DetectHdmi ==
  /\ per = "hdmi" /\ per' = "hdz"
  /\ IF mode = "HDMI" /\ signal \notin {"none", vtmgLast} THEN NewTiming
     ELSE IF mode = "UI" \/ (mode = "HDMI" /\ signal = "none") THEN NoTiming
     ELSE UNCHANGED <<oled, timing, conf, hdmiVtmg, vtmgLast>>
  /\ hdmiValid' = IF mode \in {"UI", "HDMI"} THEN signal # "none" ELSE hdmiValid
  /\ Peripheral /\ UNCHANGED <<mode, open, camera, fhdReq, signal>>
-----------------------------------------------------------------------------
(* The calls of ui                                                         *)

Call(op) == ~Idle /\ Head(todo) = op /\ todo' = Tail(todo)
Ui == UNCHANGED <<where, per, camera, hdmi, protected, calm>>

\* Mutant: Display_UI does not wait for the mutex.
CallMenu_unlocked ==
  /\ Call("MENU")
  /\ mode' = "UI" /\ timing' = "UI" /\ oled' = TRUE /\ open' = FALSE
  /\ lvgl' = "FHD" /\ osd' = FALSE
  /\ Ui /\ UNCHANGED <<picked, fhdReq, isFhd, conf>>

\* app_switch_to_menu from Display_UI on
CallMenu ==
  /\ Call("MENU") /\ MutexFree
  /\ mode' = "UI" /\ timing' = "UI" /\ oled' = TRUE /\ open' = FALSE
  /\ lvgl' = "FHD" /\ osd' = FALSE
  /\ Ui /\ UNCHANGED <<picked, fhdReq, isFhd, conf>>

\* app_switch_to_hdzero: the receiver, the type of the camera, the display,
CallPick ==
  /\ Call("PICK")
  /\ open' = TRUE /\ picked' = camMode
  /\ Ui /\ UNCHANGED <<mode, timing, oled, fhdReq, layout, conf>>

CallShow ==
  /\ Call("SHOW") /\ MutexFree
  /\ Shows(picked) /\ picked' = "none"
  /\ Ui /\ UNCHANGED <<open, fhdReq, layout, conf>>

\* the size in which lvgl draws, that of the OSD, and record.conf.
CallLvgl ==
  /\ Call("LVGL")
  /\ lvgl' = Size(camMode)
  /\ Ui /\ UNCHANGED <<picked, display, fhdReq, isFhd, osd, conf>>

CallOsd ==
  /\ Call("OSD")
  /\ isFhd' = (camMode \in FhdCams) /\ osd' = TRUE
  /\ Ui /\ UNCHANGED <<picked, display, fhdReq, lvgl, conf>>

CallConf ==
  /\ Call("CONF")
  /\ conf' = camMode
  /\ Ui /\ UNCHANGED <<picked, display, fhdReq, layout>>

\* Source_HDMI_in: HDMI_in_detect is to light the display, which it does
\* only if it has forgotten the timing it has seen last.
CallHdmi ==
  /\ Call("HDMI") /\ MutexFree
  /\ mode' = "HDMI" /\ oled' = FALSE /\ open' = FALSE
  /\ calm' = (calm /\ vtmgLast = "none")
  /\ UNCHANGED <<where, per, camera, hdmi, protected, picked, timing, fhdReq, layout, conf>>

\* app_switch_to_hdmi_in two seconds later
CallFit ==
  /\ Call("FIT")
  /\ lvgl' = Size(hdmiVtmg) /\ osd' = TRUE
  /\ Ui /\ UNCHANGED <<picked, display, fhdReq, isFhd, conf>>

\* app_switch_to_av_in, app_switch_to_analog: the standard is a setting.
CallAv ==
  /\ Call("AV") /\ MutexFree
  /\ mode' = "AV" /\ timing' \in {"PAL", "NTSC"} /\ oled' = TRUE /\ open' = FALSE
  /\ conf' = "AV" /\ lvgl' = "HD" /\ isFhd' = FALSE /\ osd' = TRUE
  /\ Ui /\ UNCHANGED <<picked, fhdReq>>

\* OLED_ON(0) and HDZero_Close of go_sleep, OLED_ON(1) of wake_up
CallDark ==
  /\ Call("DARK") /\ MutexFree
  /\ oled' = FALSE /\ open' = FALSE
  /\ Ui /\ UNCHANGED <<picked, mode, timing, fhdReq, layout, conf>>

CallLight ==
  /\ Call("LIGHT") /\ MutexFree
  /\ oled' = TRUE
  /\ Ui /\ UNCHANGED <<picked, mode, timing, open, fhdReq, layout, conf>>

\* fhd_change: a request is carried out, and then forgotten.
FhdChange ==
  /\ Idle /\ fhdReq # "none"
  /\ todo' = <<"FORGET">>
  /\ lvgl' = fhdReq /\ isFhd' = (fhdReq = "FHD") /\ osd' = TRUE
  /\ Ui /\ UNCHANGED <<picked, display, fhdReq, conf>>

CallForget ==
  /\ Call("FORGET")
  /\ fhdReq' = "none"
  /\ Ui /\ UNCHANGED <<picked, display, layout, conf>>
-----------------------------------------------------------------------------
(* The handlers of ui                                                      *)

InVideo == app \in {"video", "ims"}

To(s) == CASE s = "HDZERO" -> <<"PICK", "SHOW", "LVGL", "OSD", "CONF">>
           [] s = "HDMI"   -> <<"HDMI", "FIT">>
           [] s = "AV"     -> <<"AV">>

Begins(ops) ==
  /\ Idle /\ todo' = ops
  /\ calm' = (calm /\ ~Pending)
  /\ UNCHANGED <<picked, display, per, camera, fhdReq, layout, hdmi, protected>>

Handles(ops) == Begins(ops) /\ stray' = FALSE /\ UNCHANGED radio

\* app_switch_to_menu up to Display_UI
ToMenu ==
  /\ InVideo
  /\ Handles(<<"MENU">>)
  /\ app' = "menu" /\ conf' = "UI"
  /\ UNCHANGED <<previous, asleep, source>>

\* app_exit_menu from btn_press
ExitMenu ==
  /\ app = "menu"
  /\ Handles(To(source))
  /\ app' = "video"
  /\ UNCHANGED <<previous, asleep, source, conf>>

\* page_source_select_*: from the page any source, from the video the one to
\* which source_toggle or source_cycle leads
Selectable(s) ==
  /\ s = "HDMI" => hdmiValid
  /\ \/ app = "menu"
     \/ InVideo /\ s = "HDZERO" /\ source # "HDZERO"
     \/ InVideo /\ s = "HDMI" /\ source = "HDZERO"
     \/ InVideo /\ s = "AV"

SelectSource(s) ==
  /\ Selectable(s)
  /\ Handles(To(s))
  /\ app' = "video" /\ source' = s
  /\ UNCHANGED <<previous, asleep, conf>>

\* page_imagesettings_enter, open_element_pos_preview
OpenSettings ==
  /\ app = "menu"
  /\ Handles(To(source))
  /\ app' = "ims"
  /\ UNCHANGED <<previous, asleep, source, conf>>

\* tune_channel
ChangeChannel ==
  /\ app = "video" /\ source = "HDZERO"
  /\ Handles(To(source))
  /\ UNCHANGED <<app, previous, asleep, source, conf>>

\* MSP_SET_BAND_CHAN and MSP_SET_FREQ: the source is looked at, and when
\* lvgl_mutex is free, the channel is shown, whatever the source is by then.
RadioAsks ==
  /\ source = "HDZERO" /\ ~radio
  /\ radio' = TRUE
  /\ UNCHANGED <<app, previous, asleep, source, stray, todo, picked, display, per, camera, fhdReq,
                 layout, conf, hdmi, protected, calm>>

RadioChanges ==
  /\ radio /\ radio' = FALSE
  /\ Begins(To("HDZERO"))
  /\ app' = "video" /\ stray' = (source # "HDZERO")
  /\ UNCHANGED <<previous, asleep, source, conf>>

GoSleep ==
  /\ app # "sleep"
  /\ Handles(<<"DARK">>)
  /\ previous' = app /\ app' = "sleep" /\ asleep' = TRUE /\ conf' = "UI"
  /\ UNCHANGED source

\* Mutant: the OLED is not turned on.
WakeUp_dark ==
  /\ app = "sleep"
  /\ Handles(IF previous = "video" THEN <<"MENU">> \o To(source) ELSE <<>>)
  /\ app' = previous /\ previous' = "menu" /\ asleep' = FALSE
  /\ conf' = IF previous = "video" THEN "UI" ELSE conf
  /\ UNCHANGED source

\* wake_up goes through the menu back to the video.
WakeUp ==
  /\ app = "sleep"
  /\ Handles(<<"LIGHT">> \o (IF previous = "video" THEN <<"MENU">> \o To(source) ELSE <<>>))
  /\ app' = previous /\ previous' = "menu" /\ asleep' = FALSE
  /\ conf' = IF previous = "video" THEN "UI" ELSE conf
  /\ UNCHANGED source
-----------------------------------------------------------------------------
(* detect_motion: after minutes without motion it turns the OLED off, and  *)
(* after two moments of motion in a row on again.  OLED_MD_PRE_OFF, which  *)
(* only dims the OLED, is one with OLED_MD_DETECTING.                      *)

Motion ==
  /\ Idle /\ ~asleep /\ MutexFree
  /\ UNCHANGED <<where, todo, picked, mode, timing, per, camera, fhdReq, layout, conf, hdmi, calm>>

Protect ==
  /\ ~protected /\ protected' = TRUE
  /\ oled' = FALSE /\ open' = (open /\ mode # "HDZERO")
  /\ Motion

\* Mutant: the receiver is not opened again.
Unprotect_closed ==
  /\ protected /\ protected' = FALSE
  /\ oled' = TRUE /\ UNCHANGED open
  /\ Motion

Unprotect ==
  /\ protected /\ protected' = FALSE
  /\ oled' = TRUE /\ open' = (open \/ mode = "HDZERO")
  /\ Motion
-----------------------------------------------------------------------------
Detection == Compare \/ DetectShow \/ DetectFhd \/ DetectConf \/ DetectLast \/ DetectAv \/ DetectHdmi
Calls == CallMenu \/ CallPick \/ CallShow \/ CallLvgl \/ CallOsd \/ CallConf \/ CallHdmi \/ CallFit
         \/ CallAv \/ CallDark \/ CallLight \/ FhdChange \/ CallForget
Handlers == ToMenu \/ ExitMenu \/ (\E s \in Sources : SelectSource(s)) \/ OpenSettings
            \/ ChangeChannel \/ RadioAsks \/ RadioChanges \/ GoSleep \/ WakeUp
Protection == Protect \/ Unprotect
Outside == (\E c \in Cams : CamType(c)) \/ (\E s \in Signals \cup Unknown \cup {"none"} : HdmiSignal(s))

Next == Detection \/ Calls \/ Handlers \/ Protection \/ Outside

Spec == Init /\ [][Next]_vars

-----------------------------------------------------------------------------
Ops == {"MENU", "PICK", "SHOW", "LVGL", "OSD", "CONF", "HDMI", "FIT", "AV", "DARK", "LIGHT", "FORGET"}

\* The values of the variables; a call that shows a camera has its argument.
TypeOK ==
  /\ app \in {"menu", "video", "ims", "sleep"} /\ previous \in {"menu", "video", "ims"}
  /\ asleep \in BOOLEAN /\ source \in Sources /\ radio \in BOOLEAN /\ stray \in BOOLEAN
  /\ todo \in Seq(Ops) /\ picked \in Cams \cup {"none"}
  /\ mode \in Sources \cup {"UI"}
  /\ timing \in Cams \cup Signals \cup {"UI", "PAL", "NTSC"}
  /\ oled \in BOOLEAN /\ open \in BOOLEAN
  /\ per \in {"hdz", "show", "fhd", "conf", "last", "av", "hdmi"}
  /\ camMode \in Cams /\ camLast \in Cams
  /\ fhdReq \in {"FHD", "HD", "none"} /\ isFhd \in BOOLEAN /\ lvgl \in {"FHD", "HD"} /\ osd \in BOOLEAN
  /\ conf \in Cams \cup Signals \cup {"UI", "AV"}
  /\ signal \in Signals \cup Unknown \cup {"none"} /\ vtmgLast \in Signals \cup Unknown \cup {"none"}
  /\ hdmiValid \in BOOLEAN /\ hdmiVtmg \in Signals
  /\ protected \in BOOLEAN /\ calm \in BOOLEAN

\* What ui has been told to show: the source, unless rx was overtaken.
Chosen == IF stray THEN "HDZERO" ELSE source

\* The detection, which sets the source mode again when the camera changes,
\* never takes the display back from the menu or from another source; only a
\* channel that the backpack has set shows HDZero in place of a source that
\* was chosen meanwhile
\* (src/src/driver/hardware.c:808-833 against 602, 920, 1088; elrs.c:258-270).
ModeFollows ==
  Idle => /\ InVideo => mode = Chosen
          /\ app = "menu" => mode = "UI"
          /\ mode = "UI" => timing = "UI"
          /\ mode = "HDZERO" => timing \in Cams
          /\ mode = "AV" => timing \in {"PAL", "NTSC"}

\* Nothing leaves the goggle awake and dark, in whatever order it goes to
\* sleep, wakes up, protects the OLED and changes the source, unless the
\* HDMI input, which lights the OLED itself, is chosen
\* (core/ht.c:106-145, sleep_mode.c:26-92, hardware.c).
ScreenOn ==
  Idle /\ app # "sleep" /\ mode # "HDMI" /\ ~protected => oled

\* The video of HDZero has its receiver: what the sleep mode and the
\* protection of the OLED have closed is opened again (core/ht.c:111-114,
\* 134-138, sleep_mode.c:39, app_state.c:188).
VideoHasReceiver ==
  Idle /\ app = "video" /\ mode = "HDZERO" /\ ~protected => open

\* Is the type of the camera known to everybody?
Settled == Idle /\ ~Busy /\ calm /\ mode = "HDZERO" /\ camLast = camMode

\* The camera is shown as what it is, and recorded as what it is, if no
\* change comes while one is being dealt with (hardware.c:810-847,
\* app_state.c:197-240).
RightCamera == Settled => timing = camMode /\ (app = "video" => conf = camMode)

\* Under the same condition the OSD and lvgl are of the size of what is shown
\* (osd.c:479-498, hardware.c:839-842, app_state.c:45-48, 224-230).
LayoutFits ==
  /\ Settled /\ fhdReq = "none" => lvgl = Size(camMode) /\ isFhd = (camMode \in FhdCams)
  /\ Idle /\ calm /\ app = "menu" => lvgl = "FHD" /\ ~osd
  /\ Idle /\ calm /\ mode = "AV" => lvgl = "HD" /\ ~isFhd

\* The HDMI input, which app_switch_to_hdmi_in leaves dark and without a
\* configuration, is lit, shown and recorded as what it is once HDMI_in_detect
\* has seen it, if that had forgotten the timing it saw before
\* (app_state.c:142-158, hardware.c:1076-1274).
HdmiShown ==
  Idle /\ calm /\ app = "video" /\ mode = "HDMI" /\ signal \in Signals /\ vtmgLast = signal
    => timing = signal /\ conf = signal /\ (protected \/ oled)
=============================================================================
