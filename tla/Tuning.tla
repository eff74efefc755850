------------------------------- MODULE Tuning -------------------------------
(***************************************************************************)
(* The channel: which one the user tunes to, the settings say and the      *)
(* receiver of HDZero is set to.                                           *)
(*                                                                         *)
(*   ui    dial, buttons, scan page, source page and main loop, one at a   *)
(*         time under lvgl_mutex: input_device.c, app_state.c,             *)
(*         page_scannow.c, page_source.c, ht.c                             *)
(*   per   tune_channel_timer, which thread_peripheral calls while the     *)
(*         source is HDZero, without any lock                              *)
(*   rx    the receiver of the backpack, which writes the settings before  *)
(*         it waits for lvgl_mutex: msp_process_packet of elrs.c           *)
(*                                                                         *)
(* Channels are numbers, as in the code: 1..RaceNum are R1-8, E1, F1, F2   *)
(* and F4, 1..LowNum L1-8, 1..AnalogNum those of the analog module.  What  *)
(* a channel starts besides (recordings, display, VTX) is left out.        *)
(***************************************************************************)
EXTENDS Naturals

CONSTANTS RaceNum, LowNum,  \* HDZERO_CHANNEL_NUM in each band
          AnalogNum,        \* ANALOG_CHANNEL_NUM
          TimerLen          \* TUNER_TIMER_LEN

ASSUME TuningAssumption ==
  /\ {RaceNum, LowNum, AnalogNum, TimerLen} \subseteq Nat \ {0}
  /\ 1 < LowNum /\ LowNum <= RaceNum /\ RaceNum <= AnalogNum
  /\ 1 < TimerLen /\ TimerLen < 65536

VARIABLES
  app,        \* g_app_state: "page" and "found" are the source page, and the
              \* scan page when several channels have been found
  inPage,     \* in_sourcepage
  source,     \* g_source_info.source: "ANALOG" is that of the internal module
  band,       \* g_setting.source.hdzero_band
  scan,       \* g_setting.scan.channel
  analog,     \* g_setting.source.analog_channel
  tuned,      \* the band and channel the DM6302 is set to
  tuneState,  \* tune_state: 0 initial, 1 waiting for a key, 2 tuning
  tuneTimer,  \* tune_timer
  channel,    \* the channel tune_channel has got to
  asks,       \* the channel the OSD asks for, "To R3?", or 0
  ui,         \* where ui is in its handler
  goal,       \* the source that the handler is about to show
  per,        \* where per is in tune_channel_timer
  left,       \* the tune_timer it has read
  rx,         \* the source that rx has seen and is about to show
  torn,       \* history: have ui and per come between each other?
  stray       \* history: was another source shown than the one rx had seen?

page   == <<app, inPage>>
choice == <<source, band, scan, analog>>
tuning == <<tuneState, tuneTimer, channel, asks>>
timer  == <<per, left>>
handler == <<ui, goal>>
vars == <<page, choice, tuned, tuning, handler, timer, rx, torn, stray>>

Bands == {"race", "low"}
Sources == {"HDZERO", "ANALOG", "OTHER"}
Num(b) == IF b = "race" THEN RaceNum ELSE LowNum
Tunable == source \in {"HDZERO", "ANALOG"}
Idle == ui = "idle"

Init ==
  /\ app = "menu" /\ inPage = FALSE
  /\ source \in Sources /\ band \in Bands
  /\ scan \in 1..Num(band) /\ analog \in 1..AnalogNum
  /\ tuned = <<band, scan>>
  /\ tuneState = 0 /\ tuneTimer = 0 /\ channel = 0 /\ asks = 0
  /\ ui = "idle" /\ goal = "none"
  /\ per = "idle" /\ left = 0
  /\ rx = "idle"
  /\ torn = FALSE /\ stray = FALSE
-----------------------------------------------------------------------------
(* tune_channel                                                            *)

\* Of what the dial starts from in each source.
Current == IF source = "HDZERO" THEN scan ELSE analog
Last == IF source = "HDZERO" THEN Num(band) ELSE AnalogNum

\* The first turn of the dial starts the tuning, the others go on with it.
Dial(key) ==
  /\ Idle /\ app = "video" /\ Tunable
  /\ ui' = key
  /\ tuneState' = 2
  /\ IF tuneState = 2 THEN UNCHANGED <<tuneTimer, channel>>
                      ELSE tuneTimer' = TimerLen /\ channel' = Current
  /\ asks' = IF tuneState = 0 THEN 0 ELSE asks
  /\ torn' = (torn \/ per # "idle")
  /\ UNCHANGED <<page, choice, tuned, goal, timer, rx, stray>>

\* Mutant: the last channel is left upwards one too late.
Moved_late == IF ui = "up" THEN IF channel > Last THEN 1 ELSE channel + 1
                           ELSE IF channel = 1 THEN Last ELSE channel - 1

Moved == IF ui = "up" THEN IF channel >= Last THEN 1 ELSE channel + 1
                      ELSE IF channel = 1 THEN Last ELSE channel - 1

\* Mutant: the OSD shows the channel before.
DialMove_before ==
  /\ ui \in {"up", "down"} /\ ui' = "idle"
  /\ channel' = Moved /\ asks' = channel /\ tuneTimer' = TimerLen
  /\ torn' = (torn \/ per # "idle" \/ tuneState # 2)
  /\ UNCHANGED <<page, choice, tuned, tuneState, goal, timer, rx, stray>>

DialMove ==
  /\ ui \in {"up", "down"} /\ ui' = "idle"
  /\ channel' = Moved /\ asks' = Moved /\ tuneTimer' = TimerLen
  /\ torn' = (torn \/ per # "idle" \/ tuneState # 2)
  /\ UNCHANGED <<page, choice, tuned, tuneState, goal, timer, rx, stray>>

\* What the buttons confirm becomes the setting; a new channel of HDZero is
\* switched to.
Confirm ==
  /\ tuneState = 2 /\ Tunable
  /\ IF source = "HDZERO" /\ scan # channel
       THEN scan' = channel /\ ui' = "switch" /\ UNCHANGED analog
       ELSE /\ analog' = IF source = "ANALOG" THEN channel ELSE analog
            /\ ui' = "done" /\ UNCHANGED scan
  /\ UNCHANGED <<page, source, band, tuned, tuning, goal, timer, rx, torn, stray>>

\* Mutant: the timer runs on.
ConfirmDone_timed ==
  /\ ui = "done" /\ ui' = "idle"
  /\ tuneState' = 1 /\ asks' = 0
  /\ torn' = (per # "idle")
  /\ UNCHANGED <<page, choice, tuned, tuneTimer, channel, goal, timer, rx, stray>>

ConfirmDone ==
  /\ ui = "done" /\ ui' = "idle"
  /\ tuneTimer' = 0 /\ tuneState' = 1 /\ asks' = 0
  /\ torn' = (per # "idle")
  /\ UNCHANGED <<page, choice, tuned, channel, goal, timer, rx, stray>>

\* Mutant: the receiver keeps its channel.
Switch_deaf ==
  /\ ui = "switch" /\ ui' = IF goal = "none" THEN "done" ELSE "arrive"
  /\ asks' = IF goal \in {"none", "HDZERO"} THEN 0 ELSE asks
  /\ stray' = FALSE
  /\ UNCHANGED <<page, choice, tuned, tuneState, tuneTimer, channel, goal, timer, rx, torn>>

\* app_switch_to_hdzero sets the receiver, and the OSD shows the channel for
\* a while; the other sources leave both alone.
Switch ==
  /\ ui = "switch" /\ ui' = IF goal = "none" THEN "done" ELSE "arrive"
  /\ IF goal \in {"none", "HDZERO"} THEN tuned' = <<band, scan>> /\ asks' = 0
                                    ELSE UNCHANGED <<tuned, asks>>
  /\ stray' = FALSE
  /\ UNCHANGED <<page, choice, tuneState, tuneTimer, channel, goal, timer, rx, torn>>

\* Then the state and the source are set.
Arrive ==
  /\ ui = "arrive" /\ ui' = "idle"
  /\ app' = "video" /\ source' = goal /\ goal' = "none"
  /\ UNCHANGED <<inPage, band, scan, analog, tuned, tuning, timer, rx, torn, stray>>
-----------------------------------------------------------------------------
(* Buttons and pages                                                       *)

Begin(at) ==
  /\ Idle /\ ui' = at
  /\ UNCHANGED <<tuned, tuning, timer, rx, torn, stray>>

\* btn_click in the video: tune_channel if a channel is being tuned to, else
\* osd_toggle (or the source is changed, see Show).
Click == Idle /\ app = "video" /\ Confirm

Toggle ==
  /\ Idle /\ app = "video" /\ tuneState # 2 /\ asks # 0
  /\ asks' = 0
  /\ UNCHANGED <<page, choice, tuned, tuneState, tuneTimer, channel, handler, timer, rx, torn, stray>>

\* btn_press in the video: tune_channel if the timer runs, else the menu.
Press ==
  \/ Idle /\ app = "video" /\ tuneTimer # 0 /\ Confirm
  \/ /\ app = "video" /\ (tuneTimer = 0 \/ ~Tunable)
     /\ Begin("exit") /\ app' = "menu"
     /\ UNCHANGED <<inPage, choice, goal>>

\* ... which does nothing if nothing is being tuned.
PressIgnored ==
  /\ Idle /\ app = "video" /\ tuneTimer # 0 /\ tuneState # 2 /\ Tunable
  /\ tuneState' = 1 /\ asks' = IF tuneState = 0 THEN 0 ELSE asks
  /\ torn' = (torn \/ per # "idle")
  /\ UNCHANGED <<page, choice, tuned, tuneTimer, channel, handler, timer, rx, stray>>

\* exit_tune_channel of app_switch_to_menu
ExitTune ==
  /\ ui = "exit" /\ ui' = "idle"
  /\ tuneState' = 0 /\ tuneTimer' = 0 /\ asks' = 0
  /\ torn' = (per # "idle")
  /\ UNCHANGED <<page, choice, tuned, channel, goal, timer, rx, stray>>

\* app_exit_menu; page_source_select_*, source_toggle and source_cycle
Show(s) ==
  /\ \/ app = "menu" /\ s = source
     \/ app = "page"
     \/ app = "video" /\ (source # "OTHER" => s # source) /\ (source = "ANALOG" => s = "HDZERO")
  /\ Begin("switch") /\ goal' = s
  /\ UNCHANGED <<page, choice>>

\* page_scannow_enter: scan visits every channel; a single one that is found
\* is shown, without any the page is left.
Scan ==
  /\ app = "menu" /\ Idle
  /\ source' = "HDZERO" /\ tuned' = <<band, Num(band)>>
  /\ \/ UNCHANGED <<app, scan, ui, goal>>
     \/ app' = "found" /\ UNCHANGED <<scan, ui, goal>>
     \/ \E c \in 1..Num(band) :
          app' = "video" /\ scan' = c /\ ui' = "switch" /\ goal' = "HDZERO"
  /\ UNCHANGED <<inPage, band, analog, tuning, timer, rx, torn, stray>>

\* page_scannow_on_click
PickFound(c) ==
  /\ app = "found" /\ c \in 1..Num(band)
  /\ Begin("switch") /\ goal' = "HDZERO" /\ scan' = c /\ app' = "video"
  /\ UNCHANGED <<inPage, source, band, analog>>

\* The source page is entered and left; a source shown from it, or a channel
\* of the radio, leave the page without page_source_exit.
OpenPage ==
  /\ app = "menu" /\ Begin("idle") /\ app' = "page" /\ inPage' = TRUE
  /\ UNCHANGED <<choice, goal>>

LeavePage ==
  /\ app \in {"page", "found"} /\ Begin("idle") /\ app' = "menu"
  /\ inPage' = (inPage /\ app # "page")
  /\ UNCHANGED <<choice, goal>>

ToggleBand ==
  /\ app = "page" /\ Begin("idle")
  /\ band' = IF band = "race" THEN "low" ELSE "race"
  /\ UNCHANGED <<page, source, scan, analog, goal>>

\* source_status_timer, in the main loop
Refresh ==
  /\ inPage /\ scan > Num(band) /\ Begin("idle")
  /\ scan' = 1
  /\ UNCHANGED <<page, source, band, analog, goal>>

\* detect_motion opens the receiver again.
Reopen ==
  /\ Idle /\ app = "video" /\ source = "HDZERO"
  /\ tuned' = <<band, scan>>
  /\ UNCHANGED <<page, choice, tuning, handler, timer, rx, torn, stray>>
-----------------------------------------------------------------------------
(* tune_channel_timer.  What it has read may be out of date by the time it *)
(* is used; the timer may be read once or again when it is counted down.   *)

Timer == UNCHANGED <<page, choice, tuned, handler, rx, torn, stray>>

LookState ==
  /\ per = "idle" /\ source = "HDZERO"
  /\ per' = IF tuneState = 2 THEN "tuning" ELSE "showing"
  /\ Timer /\ UNCHANGED <<tuning, left>>

\* The time for which the OSD shows the channel, which is the same variable.
Fade ==
  /\ per = "showing" /\ per' = "idle"
  /\ IF asks = 0 THEN UNCHANGED asks ELSE asks' \in {0, asks, asks - 1}
  /\ Timer /\ UNCHANGED <<tuneState, tuneTimer, channel, left>>

LookTimer ==
  /\ per = "tuning" /\ left' = tuneTimer
  /\ per' = CASE tuneTimer = 0 -> "idle" [] tuneTimer = 1 -> "expire" [] OTHER -> "count"
  /\ Timer /\ UNCHANGED tuning

Expire ==
  /\ per = "expire" /\ per' = "clear"
  /\ tuneState' = 1
  /\ Timer /\ UNCHANGED <<tuneTimer, channel, asks, left>>

Clear ==
  /\ per = "clear" /\ per' = "count"
  /\ asks' = 0
  /\ Timer /\ UNCHANGED <<tuneState, tuneTimer, channel, left>>

Count ==
  /\ per = "count" /\ per' = "idle" /\ left' = 0
  /\ tuneTimer' \in {left - 1, (tuneTimer + 65535) % 65536}
  /\ Timer /\ UNCHANGED <<tuneState, channel, asks>>
-----------------------------------------------------------------------------
(* msp_process_packet                                                      *)

Radio(s) ==
  /\ rx = "idle" /\ source = s /\ rx' = s
  /\ UNCHANGED <<page, source, band, tuned, tuning, handler, timer, torn, stray>>

\* MSP_SET_BAND_CHAN: hdz_index2ch knows the race band only.
RadioChannel(c) ==
  \/ /\ c \in 1..RaceNum /\ (c # scan \/ app # "video")
     /\ Radio("HDZERO") /\ scan' = c /\ UNCHANGED analog
  \/ /\ c # analog \/ app # "video"
     /\ Radio("ANALOG") /\ analog' = c /\ UNCHANGED scan

\* MSP_SET_FREQ: for HDZero one frequency is the first channel that is not
\* the current one, for analog the channel is kept in scan.
RadioFrequency(c) ==
  \/ /\ c = IF scan = 1 /\ app = "video" THEN 2 ELSE 1
     /\ Radio("HDZERO") /\ scan' = c /\ UNCHANGED analog
  \/ /\ c # scan \/ app # "video"
     /\ Radio("ANALOG") /\ scan' = c /\ UNCHANGED analog

\* With lvgl_mutex, whatever the source is by then
RadioShows ==
  /\ rx # "idle" /\ Idle /\ rx' = "idle"
  /\ app' = "video"
  /\ IF rx = "HDZERO" THEN tuned' = <<band, scan>> /\ asks' = 0 ELSE UNCHANGED <<tuned, asks>>
  /\ stray' = (source # rx)
  /\ UNCHANGED <<inPage, choice, tuneState, tuneTimer, channel, handler, timer, torn>>
-----------------------------------------------------------------------------
Tune == (\E key \in {"up", "down"} : Dial(key)) \/ DialMove \/ Click \/ Toggle \/ Press \/ PressIgnored
        \/ ConfirmDone \/ ExitTune
Pages == (\E s \in Sources : Show(s)) \/ Switch \/ Arrive \/ Scan
         \/ (\E c \in 1..RaceNum : PickFound(c)) \/ OpenPage \/ LeavePage \/ ToggleBand
         \/ Refresh \/ Reopen
Times == LookState \/ Fade \/ LookTimer \/ Expire \/ Clear \/ Count
Radios == (\E c \in 1..AnalogNum : RadioChannel(c) \/ RadioFrequency(c)) \/ RadioShows

Next == Tune \/ Pages \/ Times \/ Radios

Spec == Init /\ [][Next]_vars
-----------------------------------------------------------------------------
\* Every variable has its type.
TypeOK ==
  /\ app \in {"menu", "video", "page", "found"}
  /\ {inPage, torn, stray} \subseteq BOOLEAN
  /\ source \in Sources /\ band \in Bands
  /\ scan \in 1..AnalogNum /\ analog \in 1..AnalogNum
  /\ tuned \in Bands \X (1..AnalogNum)
  /\ tuneState \in 0..2 /\ tuneTimer \in Nat /\ tuneTimer < 65536
  /\ channel \in 0..AnalogNum /\ asks \in 0..AnalogNum
  /\ ui \in {"idle", "up", "down", "switch", "arrive", "done", "exit"}
  /\ goal \in Sources \cup {"none"}
  /\ per \in {"idle", "showing", "tuning", "expire", "clear", "count"}
  /\ left \in Nat /\ left < 65536
  /\ rx \in {"idle", "HDZERO", "ANALOG"}

Rest == Idle /\ per = "idle" /\ ~torn

\* btn_press asks the timer, btn_click the state, whether a channel is being
\* tuned to: they agree, so that a press is either a confirmation or leads to
\* the menu, unless the timer came between.
PressUnderstood == Rest => (tuneTimer # 0 <=> tuneState = 2)

\* When the OSD asks for a channel, that one is confirmed by a click.
AskedIsConfirmed == Rest /\ asks # 0 => asks = channel /\ tuneState = 2

\* In the video the receiver is set to the channel of the settings, whoever
\* has set it last, unless rx shows HDZero or the analog module when another
\* source was chosen, or the number is not one of the band and the source page
\* has replaced it.
ReceiverFollows ==
  Idle /\ rx = "idle" /\ app = "video" /\ source = "HDZERO" /\ ~stray
    => \/ tuned = <<band, scan>>
       \/ tuned[1] = band /\ tuned[2] > Num(band) /\ scan = 1
=============================================================================
