--------------------------------- MODULE Dvr ---------------------------------
(***************************************************************************)
(* Who starts and stops the recording: the DVR of the goggle process       *)
(* (src/src/core/dvr.c) with the three kinds of threads that call it, on   *)
(* top of what the record process promises (RecorderService).              *)
(*                                                                         *)
(*   ui   the main loop and the buttons, one at a time under lvgl_mutex:   *)
(*        app_state.c, input_device.c, sleep_mode.c, page_source.c         *)
(*   per  thread_peripheral of thread.c, which polls the record process,   *)
(*        the SD card and the video signal, without lvgl_mutex             *)
(*   rx   the receiver of the backpack radio (elrs.c), which takes         *)
(*        lvgl_mutex only to change the channel                            *)
(*                                                                         *)
(* A handler is the sequence of the calls it makes, kept in todo until     *)
(* they are made; a call is a step, or two when it waits for dvr_mutex.    *)
(* Drawing, audio, the display and what is written to record.conf are      *)
(* left out; the calls that write it take dvr_mutex and are kept (CONF).   *)
(***************************************************************************)
EXTENDS Naturals, Sequences

CONSTANTS MaxMsgs,    \* bound of the model: messages waiting in the queue
          Sources,    \* video sources: "HDZ", "HDMI", "AV" (AV in and analog)
          AutoRecord, \* ~g_setting.record.mode_manual
          Backpack,   \* is the backpack radio enabled?
          CardMoves,  \* is the SD card pulled and put back?
          Sleeps,     \* does the goggle go to sleep?
          Crashes     \* does the record process crash and restart?

ASSUME DvrAssumption ==
  /\ MaxMsgs \in Nat \ {0}
  /\ Sources # {} /\ Sources \subseteq {"HDZ", "HDMI", "AV"}
  /\ {AutoRecord, Backpack, CardMoves, Sleeps, Crashes} \subseteq BOOLEAN

VARIABLES
  msgs, go, on, dat, up,  \* the record process: RecorderService
  app,       \* g_app_state: "menu" stands for every menu page
  previous,  \* previousState of sleep_mode.c
  source,    \* g_source_info.source
  flag,      \* dvr_is_recording
  sdEnable,  \* g_sdcard_enable
  delayed,   \* record_time # 0: a delayed command of the backpack is pending
  recState,  \* record_state of elrs.c
  late,      \* history: was the last START sent when the video had been left?
  lvgl,      \* lvgl_mutex: who holds it
  todo,      \* the calls each thread has still to make
  cmd        \* where each thread is in dvr_cmd or dvr_update_status

Commands == {"START", "STOP", "STOPL"}

R == INSTANCE RecorderService

recorder == <<msgs, go, on, dat, up>>
backpack == <<delayed, recState>>
screen   == <<app, previous, source, late>>
threads  == <<lvgl, todo, cmd>>
vars == <<recorder, screen, flag, sdEnable, backpack, threads>>

Threads == {"ui", "per", "rx"}
DvrOps == {"TOGGLE", "STOP", "START"}
Ops == DvrOps \cup Sources \cup
       {"POLL", "CONF", "STOPL", "VIDEO", "CHECK", "CHANGED", "SIGNAL", "LVGL", "UNLVGL"}

Init ==
  /\ R!Init
  /\ app = "menu" /\ previous = "menu" /\ source \in Sources
  /\ flag = FALSE /\ sdEnable = ~CardMoves
  /\ delayed = FALSE /\ recState = "STOP" /\ late = FALSE
  /\ lvgl = "none"
  /\ todo = [t \in Threads |-> <<>>]
  /\ cmd = [t \in Threads |-> "none"]
-----------------------------------------------------------------------------
Idle(t) == todo[t] = <<>>
Op(t) == Head(todo[t])
Begin(t, ops) == todo' = [todo EXCEPT ![t] = ops]
Finish(t) == todo' = [todo EXCEPT ![t] = Tail(@)]

\* A thread holds dvr_mutex from its decision to the end of its script.
MutexFree == \A t \in Threads : cmd[t] \in {"none", "asked"}

\* gogglecmd: a process that ended on QUIT has taken its queue with it.
Deliver(c) == R!Send(c) \/ (~up /\ msgs = <<>> /\ UNCHANGED recorder)

(***************************************************************************)
(* dvr_cmd: the card is tested before the mutex is taken, the flag is set  *)
(* before the message is sent.                                             *)
(***************************************************************************)
CheckCard(t) ==
  /\ ~Idle(t) /\ Op(t) \in DvrOps /\ cmd[t] = "none"
  /\ IF sdEnable
       THEN cmd' = [cmd EXCEPT ![t] = "asked"] /\ UNCHANGED todo
       ELSE Finish(t) /\ UNCHANGED cmd
  /\ UNCHANGED <<recorder, screen, flag, sdEnable, backpack, lvgl>>

\* start_rec of dvr_cmd
Wanted(op) == IF op = "TOGGLE" THEN ~flag ELSE op = "START"

\* Mutant: the mutex is not taken.
Decide_unlocked(t) ==
  /\ cmd[t] = "asked"
  /\ IF Wanted(Op(t)) # flag
       THEN /\ flag' = Wanted(Op(t))
            /\ cmd' = [cmd EXCEPT ![t] = IF Wanted(Op(t)) THEN "START" ELSE "STOP"]
            /\ UNCHANGED todo
       ELSE /\ cmd' = [cmd EXCEPT ![t] = "none"]
            /\ Finish(t)
            /\ UNCHANGED flag
  /\ UNCHANGED <<recorder, screen, sdEnable, backpack, lvgl>>

\* With the mutex: set the flag and go on to the script, or do nothing,
\* because nothing changes or because the card is full.
Decide(t) ==
  /\ cmd[t] = "asked" /\ MutexFree
  /\ \/ /\ Wanted(Op(t)) # flag
        /\ flag' = Wanted(Op(t))
        /\ cmd' = [cmd EXCEPT ![t] = IF Wanted(Op(t)) THEN "START" ELSE "STOP"]
        /\ UNCHANGED todo
     \/ /\ Wanted(Op(t)) \/ ~flag
        /\ cmd' = [cmd EXCEPT ![t] = "none"]
        /\ Finish(t)
        /\ UNCHANGED flag
  /\ UNCHANGED <<recorder, screen, sdEnable, backpack, lvgl>>

\* Mutant: the mutex is not given back.
RunScript_keepsMutex(t) ==
  /\ cmd[t] \in {"START", "STOP"}
  /\ Deliver(cmd[t])
  /\ UNCHANGED <<screen, flag, sdEnable, backpack, threads>>

\* The script sends the message; two seconds later the mutex is free.
RunScript(t) ==
  /\ cmd[t] \in {"START", "STOP"}
  /\ Deliver(cmd[t])
  /\ cmd' = [cmd EXCEPT ![t] = "none"]
  /\ Finish(t)
  /\ late' = IF cmd[t] = "START" THEN app # "video" ELSE late
  /\ UNCHANGED <<app, previous, source, flag, sdEnable, backpack, lvgl>>

\* Mutant: the status is read and nothing is done about it.
UpdateStatus_blind(t) ==
  /\ ~Idle(t) /\ Op(t) = "POLL" /\ cmd[t] = "none" /\ MutexFree
  /\ Finish(t)
  /\ UNCHANGED <<recorder, screen, flag, cmd, sdEnable, backpack, lvgl>>

\* Mutant: the flag is cleared but the record process is not told.
UpdateStatus_silent(t) ==
  /\ ~Idle(t) /\ Op(t) = "POLL" /\ cmd[t] = "none" /\ MutexFree
  /\ flag' = (flag /\ dat = "Run")
  /\ Finish(t)
  /\ UNCHANGED <<recorder, screen, cmd, sdEnable, backpack, lvgl>>

\* dvr_update_status: any status but Run ends the recording.
UpdateStatus(t) ==
  /\ ~Idle(t) /\ Op(t) = "POLL" /\ cmd[t] = "none" /\ MutexFree
  /\ IF flag /\ dat # "Run"
       THEN flag' = FALSE /\ cmd' = [cmd EXCEPT ![t] = "STOP"] /\ UNCHANGED todo
       ELSE Finish(t) /\ UNCHANGED <<flag, cmd>>
  /\ UNCHANGED <<recorder, screen, sdEnable, backpack, lvgl>>

\* dvr_update_vi_conf waits for the mutex.
UpdateConf(t) ==
  /\ ~Idle(t) /\ Op(t) = "CONF" /\ MutexFree
  /\ Finish(t)
  /\ UNCHANGED <<recorder, screen, flag, sdEnable, backpack, lvgl, cmd>>

\* system_script(REC_STOP_LIVE) goes past dvr_mutex and the flag.
StopLive(t) ==
  /\ ~Idle(t) /\ Op(t) = "STOPL"
  /\ Deliver("STOPL")
  /\ Finish(t)
  /\ UNCHANGED <<screen, flag, sdEnable, backpack, lvgl, cmd>>

PushVideo(t) ==
  /\ ~Idle(t) /\ Op(t) = "VIDEO"
  /\ app' = "video"
  /\ Finish(t)
  /\ UNCHANGED <<recorder, previous, source, late, flag, sdEnable, backpack, lvgl, cmd>>

SetSource(t) ==
  /\ ~Idle(t) /\ Op(t) \in Sources
  /\ source' = Op(t)
  /\ Finish(t)
  /\ UNCHANGED <<recorder, app, previous, late, flag, sdEnable, backpack, lvgl, cmd>>

TakeLvgl(t) ==
  /\ ~Idle(t) /\ Op(t) = "LVGL" /\ lvgl = "none"
  /\ lvgl' = t
  /\ Finish(t)
  /\ UNCHANGED <<recorder, screen, flag, sdEnable, backpack, cmd>>

DropLvgl(t) ==
  /\ ~Idle(t) /\ Op(t) = "UNLVGL"
  /\ lvgl' = "none"
  /\ Finish(t)
  /\ UNCHANGED <<recorder, screen, flag, sdEnable, backpack, cmd>>
-----------------------------------------------------------------------------
(* The user.  A handler looks at g_app_state with lvgl_mutex held.         *)

\* app_switch_to_hdmi_in enters the video mode by itself.
SwitchTo(s) == IF s = "HDMI" THEN <<"VIDEO", "HDMI", "STOPL">> ELSE <<"CONF", "STOPL">>

UserBegins(ops) ==
  /\ Idle("ui") /\ lvgl = "none"
  /\ lvgl' = "ui"
  /\ Begin("ui", Append(ops, "UNLVGL"))
  /\ UNCHANGED <<recorder, source, late, flag, sdEnable, backpack, cmd>>

\* Mutant: REC_STOP_LIVE is forgotten when the menu is entered.
SwitchToMenu_noLive ==
  /\ app = "video"
  /\ app' = "menu"
  /\ UserBegins(<<"STOP", "CONF">>)
  /\ UNCHANGED previous

\* app_switch_to_menu
SwitchToMenu ==
  /\ app = "video"
  /\ app' = "menu"
  /\ UserBegins(<<"STOP", "CONF", "STOPL">>)
  /\ UNCHANGED previous

\* app_exit_menu and the push of btn_press
ExitMenu ==
  /\ app = "menu"
  /\ UserBegins(Append(SwitchTo(source), "VIDEO"))
  /\ UNCHANGED <<app, previous>>

\* page_source_select_*: from the page, or by source_toggle and source_cycle
SelectSource(s) ==
  /\ app \in {"menu", "video"}
  /\ UserBegins(IF s = "HDMI" THEN SwitchTo(s) ELSE SwitchTo(s) \o <<"VIDEO", s>>)
  /\ UNCHANGED <<app, previous>>

\* the right button: dvr_toggle
ToggleRecording ==
  /\ app = "video"
  /\ UserBegins(<<"TOGGLE">>)
  /\ UNCHANGED <<app, previous>>

\* tune_channel, when the channel is confirmed; HDMI has no channels.
TuneChannel ==
  /\ app = "video" /\ source # "HDMI"
  /\ UserBegins(IF source = "HDZ" THEN <<"STOP">> \o SwitchTo(source) ELSE <<"STOP">>)
  /\ UNCHANGED <<app, previous>>

\* go_sleep
GoSleep ==
  /\ Sleeps /\ app # "sleep"
  /\ previous' = app /\ app' = "sleep"
  /\ UserBegins(<<"STOP", "CONF">>)

\* wake_up: to the menu and back to the video, or to the page left.
WakeUp ==
  /\ app = "sleep"
  /\ app' = "menu"
  /\ UserBegins(IF previous = "video"
                  THEN <<"STOP", "CONF", "STOPL", "VIDEO">> \o SwitchTo(source)
                  ELSE <<>>)
  /\ UNCHANGED previous

User ==
  \/ SwitchToMenu \/ ExitMenu \/ (\E s \in Sources : SelectSource(s))
  \/ ToggleRecording \/ TuneChannel \/ GoSleep \/ WakeUp
-----------------------------------------------------------------------------
(* thread_peripheral.  A turn detects the card, in one turn of five polls  *)
(* the status, looks for a change of the video format and then for the     *)
(* signal.                                                                 *)

Turn(polls, changed) ==
  /\ Idle("per")
  /\ changed => app # "menu"
  /\ sdEnable' \in IF CardMoves THEN BOOLEAN ELSE {TRUE}
  /\ Begin("per", (IF polls THEN <<"POLL">> ELSE <<>>)
               \o (IF changed /\ source = "HDZ" THEN <<"CONF", "STOPL">> ELSE <<>>)
               \o (IF changed /\ source = "HDMI" THEN <<"CONF">> ELSE <<>>)
               \o <<IF changed THEN "CHANGED" ELSE "CHECK">>)
  /\ UNCHANGED <<recorder, screen, flag, backpack, lvgl, cmd>>

\* check_source_signal up to the counters.  What it reads here may have
\* changed when the calls it decides on are made.
SourceCalls(changed) ==
  (IF changed /\ source = "AV" /\ flag THEN <<"STOP", "START">> ELSE <<>>)
  \o (IF changed /\ source = "HDZ" THEN <<"STOP", "STOPL">> ELSE <<>>)
  \o (IF changed /\ source = "HDMI" THEN <<"STOP">> ELSE <<>>)
  \o <<"SIGNAL">>

CheckSource ==
  /\ ~Idle("per") /\ Op("per") \in {"CHECK", "CHANGED"}
  /\ \/ /\ AutoRecord /\ sdEnable /\ app = "video"
        /\ Begin("per", SourceCalls(Op("per") = "CHANGED"))
     \/ /\ ~(AutoRecord /\ sdEnable /\ app = "video")
        /\ Begin("per", <<>>)
  /\ UNCHANGED <<recorder, screen, flag, sdEnable, backpack, lvgl, cmd>>

\* The counters: a signal lost for long ends the recording, a signal seen
\* for long starts one.
CheckSignal ==
  /\ ~Idle("per") /\ Op("per") = "SIGNAL"
  /\ Finish("per") \/ Begin("per", IF flag THEN <<"STOP">> ELSE <<"START">>)
  /\ UNCHANGED <<recorder, screen, flag, sdEnable, backpack, lvgl, cmd>>

Peripheral ==
  \/ \E polls, changed \in BOOLEAN : Turn(polls, changed)
  \/ CheckSource \/ CheckSignal
-----------------------------------------------------------------------------
(* The backpack: msp_process_packet and esp32_handler_timeout.             *)

\* MSP_SET_BAND_CHAN, and MSP_SET_FREQ, which does not stop the recording
SetChannel(stops) ==
  /\ Backpack /\ Idle("rx") /\ source # "HDMI"
  /\ Begin("rx", <<"LVGL">> \o (IF stops THEN <<"STOP">> ELSE <<>>)
                 \o SwitchTo(source) \o <<"VIDEO", "UNLVGL">>)
  /\ UNCHANGED <<recorder, screen, flag, sdEnable, backpack, lvgl, cmd>>

\* MSP_SET_REC_STATE: now, or later
SetRecState(c, later) ==
  /\ Backpack /\ Idle("rx") /\ app = "video"
  /\ recState' = c
  /\ IF later THEN delayed' = TRUE /\ UNCHANGED todo
              ELSE Begin("rx", <<c>>) /\ UNCHANGED delayed
  /\ UNCHANGED <<recorder, screen, flag, sdEnable, lvgl, cmd>>

\* The delay is over; g_app_state is not looked at again.
HandlerTimeout ==
  /\ delayed /\ Idle("rx")
  /\ delayed' = FALSE
  /\ Begin("rx", <<recState>>)
  /\ UNCHANGED <<recorder, screen, flag, sdEnable, recState, lvgl, cmd>>

Receiver ==
  \/ \E stops \in BOOLEAN : SetChannel(stops)
  \/ \E c \in {"START", "STOP"}, later \in BOOLEAN : SetRecState(c, later)
  \/ HandlerTimeout
-----------------------------------------------------------------------------
\* The call a thread has to make next
Call(t) ==
  \/ CheckCard(t) \/ Decide(t) \/ RunScript(t) \/ UpdateStatus(t) \/ UpdateConf(t)
  \/ StopLive(t) \/ PushVideo(t) \/ SetSource(t) \/ TakeLvgl(t) \/ DropLvgl(t)

goggle == <<screen, flag, sdEnable, backpack, threads>>

RecordProcess ==
  /\ R!Work \/ (Crashes /\ (R!Die \/ R!Restart))
  /\ UNCHANGED goggle

Next == User \/ Peripheral \/ Receiver \/ (\E t \in Threads : Call(t)) \/ RecordProcess

Spec == Init /\ [][Next]_vars

(***************************************************************************)
(* Fairness.  A thread that can make its next call makes it; the mutexes   *)
(* are handed on, as the two seconds a script takes make them contended    *)
(* only now and then; thread_peripheral polls in one turn of five; the     *)
(* record process takes its messages, and stops when it is told to, which  *)
(* is what StopCompletes says of it.  Nothing is fair about the user, the  *)
(* signal, the radio and the card.                                         *)
(***************************************************************************)
FairSpec ==
  /\ Spec
  /\ \A t \in Threads : SF_vars(Call(t))
  /\ WF_vars(CheckSource) /\ WF_vars(CheckSignal)
  /\ SF_vars(\E changed \in BOOLEAN : Turn(TRUE, changed))
  /\ SF_vars((\E c \in Commands : R!Take(c)) /\ UNCHANGED goggle)
  /\ SF_vars(R!Stop /\ UNCHANGED goggle)
  /\ WF_vars(R!Write /\ UNCHANGED goggle)
-----------------------------------------------------------------------------
\* Every variable has its type; a thread is in dvr_cmd only with a command
\* of its own to carry out.
TypeOK ==
  /\ msgs \in Seq(Commands) /\ Len(msgs) <= MaxMsgs
  /\ go \in {"Idle", "Run", "Stop"} /\ dat \in {"Run", "Other", "Empty"}
  /\ {on, up, flag, sdEnable, delayed, late} \subseteq BOOLEAN
  /\ app \in {"menu", "video", "sleep"} /\ previous \in {"menu", "video"}
  /\ source \in Sources
  /\ recState \in {"START", "STOP"}
  /\ lvgl \in Threads \cup {"none"}
  /\ todo \in [Threads -> Seq(Ops)]
  /\ cmd \in [Threads -> {"none", "asked", "START", "STOP"}]

\* What the record process will do when it has taken all its messages.  A
\* process that starts again has forgotten and drops the first message.
WillRecord ==
  IF up THEN IF msgs = <<>> THEN go = "Run" ELSE msgs[Len(msgs)] = "START"
        ELSE Len(msgs) > 1 /\ msgs[Len(msgs)] = "START"

\* Nothing is ever recorded behind the goggle's back: while nobody is in
\* dvr_cmd and dvr_is_recording is false, the record process is on its way
\* to stop, however the calls of the threads, the scripts that go past the
\* mutex and the crashes of the record process interleave.
KnownRecording == ~flag /\ MutexFree => ~WillRecord

\* app_switch_to_menu: once it is done nothing is being recorded in the menu.
\* check_source_signal and the backpack break it.
MenuNotRecording == app = "menu" /\ lvgl # "ui" => ~WillRecord

\* That is the only way to break it: in the menu nothing is recorded but what
\* was started after the video had been left.  Entering the menu stops the
\* rest, even when the card is out of reach and DVR_STOP is dropped, and
\* however the threads, sleep and the crashes of the record process interleave.
MenuStops == app = "menu" /\ lvgl # "ui" /\ ~late => ~WillRecord

\* dvr_update_status: a recording that the user believes in and that is not
\* going on is noticed, whatever ended it (no card, REC_STOP_LIVE, no frames).
MissedRecordingSeen == (flag /\ ~on) ~> (~flag \/ on)

\* When dvr_is_recording stays false the recording ends for good.
StoppedForGood == <>[]~flag => <>[]~on

\* No button waits for ever on lvgl_mutex, dvr_mutex or the message queue.
ButtonsAnswered == todo["ui"] # <<>> ~> todo["ui"] = <<>>
=============================================================================
