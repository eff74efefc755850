------------------------------ MODULE Backpack -------------------------------
(***************************************************************************)
(* The link to the ESP32 backpack: src/src/driver/esp32.c, the responses   *)
(* of src/src/core/elrs.c and the page src/src/ui/page_elrs.c.             *)
(*                                                                         *)
(*   input  thread_input_device in page_elrs_on_click, under lvgl_mutex    *)
(*   right  the thread of the right button, which cancels a binding        *)
(*   main   the thread that runs the timers of the page, under lvgl_mutex  *)
(*   rx     pthread_recv_esp32, which takes the packets of the module      *)
(*   ht     the head tracker, which sends its angles without a lock        *)
(*                                                                         *)
(* One semaphore and one response_packet serve every request.  A packet is *)
(* what it is for: "P" (started), "O" (bound) and "E" (failed) answer      *)
(* MSP_SET_MODE, "status" answers MSP_GET_BP_STATUS, "query" and "channel" *)
(* are commands of the radio: one that is answered, and one that switches  *)
(* the channel under lvgl_mutex.  Time is abstracted: a wait may time out  *)
(* whenever the semaphore is down.                                         *)
(***************************************************************************)
EXTENDS Naturals, Sequences

CONSTANTS MaxWire,   \* bound of the model: packets in the UART
          MaxSem,    \* bound of the model: value of the semaphore
          Polls,     \* how often the status timers still run at most; 0 for
                     \* a page that never asks for the status
          Radio,     \* commands of the radio: "query", "channel"
          HeadTracks \* does the head tracker send?

ASSUME BackpackAssumption ==
  /\ MaxWire \in Nat \ {0} /\ MaxSem \in Nat \ {0, 1} /\ Polls \in Nat
  /\ Radio \subseteq {"query", "channel"}
  /\ HeadTracks \in BOOLEAN

VARIABLES
  sem,       \* response_semaphore
  fn, pay,   \* response_packet: its function, its payload
  cancelled, \* cancelled of elrs.c
  wire,      \* the packets the module has sent and rx has not read
  peer,      \* external: is the module "binding"?
  enabled,   \* g_setting.elrs.enable
  shown,     \* is the page the one the buttons go to?
  click,     \* where the input thread is in page_elrs_on_click
  mode,      \* what it has clicked: "B" (bind) or "W" (wifi)
  result,    \* the last result of msp_await_resposne
  binding,   \* binding of page_elrs.c
  lvgl,      \* lvgl_mutex: who holds it
  rx,        \* where the receiver is; "none" when there is no thread
  packet,    \* the packet the receiver is copying
  stopping,  \* stopping of esp32.c
  polls,     \* how often elrs_status_timer will still run
  repower,   \* is elrs_enable_timer waiting?
  timer,     \* where a timer is in its request for the status
  ht,        \* where the head tracker is in msp_send_packet
  said,      \* history: answers read since the module was told to bind
  asked      \* history: was this binding cancelled?

response == <<sem, fn, pay>>
module   == <<wire, peer>>
setting  == <<enabled, shown>>
clicking == <<click, mode, result, binding, asked>>
receiver == <<rx, packet, stopping>>
timers   == <<polls, repower, timer>>
vars == <<response, cancelled, module, setting, clicking, lvgl, receiver, timers, ht, said>>

Answers == {"P", "O", "E"}
Function(p) == IF p \in Answers THEN "mode" ELSE "status"

Init ==
  /\ sem = 0 /\ fn = "none" /\ pay = "none" /\ cancelled = FALSE
  /\ wire = <<>> /\ peer = "idle"
  /\ enabled = TRUE /\ shown = FALSE
  /\ click = "idle" /\ mode = "B" /\ result = "none" /\ binding = FALSE /\ asked = FALSE
  /\ lvgl = "none"
  /\ rx = "read" /\ packet = "none" /\ stopping = FALSE
  /\ polls = 0 /\ repower = FALSE /\ timer = "idle" /\ ht = "idle"
  /\ said = {}
-----------------------------------------------------------------------------
(* The module, as elrs.c and page_elrs.c use it.                           *)

Powered == rx # "none" /\ click # "join"

\* What the module says: nothing comes from one that is off, and what is
\* beyond the bound of the model is lost.
Says(p) == wire' = IF Powered /\ Len(wire) < MaxWire THEN Append(wire, p) ELSE wire

\* A module that binds says so at once and how it ended later on, or never.
PeerEndsBinding(p) ==
  /\ Powered /\ peer = "binding"
  /\ Says(p)
  /\ peer' = "idle"
  /\ UNCHANGED <<response, cancelled, setting, clicking, lvgl, receiver, timers, ht, said>>

RadioCommand(p) ==
  /\ Powered /\ Len(wire) < MaxWire
  /\ Says(p)
  /\ UNCHANGED <<response, cancelled, peer, setting, clicking, lvgl, receiver, timers, ht, said>>
-----------------------------------------------------------------------------
(***************************************************************************)
(* msp_send_packet drains the semaphore, then clears the function of the   *)
(* response and writes its packet; nothing keeps the other threads out.    *)
(***************************************************************************)
Drain == sem' = 0 /\ UNCHANGED <<fn, pay>>
Clear == fn' = "none" /\ UNCHANGED <<sem, pay>>

\* sem_post, which at the bound of the model leaves the semaphore as it is
Post == sem' = (IF sem < MaxSem THEN sem + 1 ELSE sem) /\ UNCHANGED <<fn, pay>>
-----------------------------------------------------------------------------
(* pthread_recv_esp32 and, for a complete packet, msp_process_packet       *)

Others == UNCHANGED <<cancelled, setting, clicking, timers, ht>>

\* A packet that came with the one before it is processed even when
\* stopping has been set since.  The copy of a response is two steps.
ReadPacket ==
  /\ rx = "read" /\ wire # <<>>
  /\ LET p == Head(wire)
     IN \/ /\ p \in Answers \cup {"status"}
           /\ fn' = Function(p) /\ packet' = p /\ rx' = "copy"
           /\ said' = said \cup {p}
           /\ UNCHANGED <<sem, pay>>
        \/ /\ p = "query"
           /\ Drain
           /\ rx' = "reply" /\ UNCHANGED <<packet, said>>
        \/ /\ p = "channel"
           /\ rx' = "lock" /\ UNCHANGED <<response, packet, said>>
  /\ wire' = Tail(wire)
  /\ UNCHANGED <<peer, lvgl, stopping>>
  /\ Others

CopyPayload ==
  /\ rx = "copy"
  /\ pay' = packet /\ rx' = "post"
  /\ UNCHANGED <<sem, fn, module, lvgl, packet, stopping, said>>
  /\ Others

PostResponse ==
  /\ rx = "post"
  /\ Post
  /\ rx' = "read" /\ packet' = "none"
  /\ UNCHANGED <<module, lvgl, stopping, said>>
  /\ Others

SendReply ==
  /\ rx = "reply"
  /\ Clear
  /\ rx' = "read"
  /\ UNCHANGED <<module, lvgl, packet, stopping, said>>
  /\ Others

\* MSP_SET_BAND_CHAN and MSP_SET_FREQ go to the picture under lvgl_mutex.
LockChannel ==
  /\ rx = "lock" /\ lvgl = "none"
  /\ lvgl' = "rx" /\ rx' = "switch"
  /\ UNCHANGED <<response, module, packet, stopping, said>>
  /\ Others

SwitchChannel ==
  /\ rx = "switch"
  /\ shown' = FALSE
  /\ lvgl' = "none" /\ rx' = "read"
  /\ UNCHANGED <<response, cancelled, module, enabled, clicking, packet, stopping, timers, ht, said>>

\* stopping is looked at before every select.
StopReceiver ==
  /\ rx = "read" /\ stopping
  /\ rx' = "ended"
  /\ UNCHANGED <<response, module, lvgl, packet, stopping, said>>
  /\ Others
-----------------------------------------------------------------------------
(***************************************************************************)
(* The input thread.  It holds lvgl_mutex from a click to the end of       *)
(* page_elrs_on_click, but for the wait for "O".                           *)
(***************************************************************************)
Free == click = "idle" /\ lvgl = "none"

\* The user comes to the page, which asks for the status, and leaves it.
EnterPage ==
  /\ Free /\ ~shown
  /\ shown' = TRUE
  /\ IF enabled /\ Polls > 0 THEN lvgl' = "input" /\ click' = "ask" ELSE UNCHANGED <<lvgl, click>>
  /\ UNCHANGED <<response, cancelled, module, enabled, mode, result, binding, asked, receiver, timers, ht, said>>

LeavePage ==
  /\ Free /\ shown
  /\ shown' = FALSE
  /\ UNCHANGED <<response, cancelled, module, enabled, clicking, lvgl, receiver, timers, ht, said>>

Keep == UNCHANGED <<setting, ht>>

\* request_uid: the timer is there once the packet is written.
AskDrains ==
  /\ click = "ask"
  /\ Drain
  /\ click' = "asked"
  /\ UNCHANGED <<cancelled, module, mode, result, binding, asked, lvgl, receiver, timers, said>>
  /\ Keep

AskWrites ==
  /\ click = "asked"
  /\ Clear /\ Says("status")
  /\ polls' = Polls
  /\ binding' = FALSE
  /\ lvgl' = "none" /\ click' = "idle"
  /\ UNCHANGED <<cancelled, peer, mode, result, asked, receiver, repower, timer, said>>
  /\ Keep

\* POS_VTX: msp_channel_update, which nobody answers
SendChannel ==
  /\ Free /\ shown /\ enabled
  /\ Drain
  /\ lvgl' = "input" /\ click' = "channel"
  /\ UNCHANGED <<cancelled, module, mode, result, binding, asked, receiver, timers, said>>
  /\ Keep

ChannelWritten ==
  /\ click = "channel"
  /\ Clear
  /\ lvgl' = "none" /\ click' = "idle"
  /\ UNCHANGED <<cancelled, module, mode, result, binding, asked, receiver, timers, said>>
  /\ Keep

\* POS_BIND and POS_WIFI, which only an enabled module shows
Click(m) ==
  /\ Free /\ shown /\ enabled
  /\ Drain
  /\ lvgl' = "input" /\ click' = "send"
  /\ mode' = m /\ result' = "none" /\ asked' = FALSE
  /\ UNCHANGED <<cancelled, module, binding, receiver, timers, said>>
  /\ Keep

\* The module is told; until the wait begins lv_timer_handler runs timers.
SendMode ==
  /\ click = "send"
  /\ Clear /\ Says("P")
  /\ peer' = IF Powered /\ mode = "B" THEN "binding" ELSE peer
  /\ said' = {}
  /\ click' = "sent"
  /\ UNCHANGED <<cancelled, mode, result, binding, asked, lvgl, receiver, timers>>
  /\ Keep

\* Mutants: a wait begins with the flag of an earlier cancellation; a wait
\* drains the semaphore first.
Forget_not == UNCHANGED <<response, cancelled>>
Forget_drains == cancelled' = FALSE /\ Drain

\* msp_await_resposne forgets a cancellation that came before it.
Forget == cancelled' = FALSE /\ UNCHANGED response

Await(from, to) ==
  /\ click = from /\ timer = "idle"
  /\ Forget
  /\ click' = to
  /\ UNCHANGED <<module, mode, result, binding, asked, lvgl, receiver, timers, said>>
  /\ Keep

\* Mutant: any answer to MSP_SET_MODE will do.
Outcome_anyPayload(p) == IF cancelled THEN "CANCELLED" ELSE "SUCCESS"

\* How a wait ends that has taken the semaphore, and when it goes on.
Outcome(p) == IF cancelled THEN "CANCELLED" ELSE IF pay = p THEN "SUCCESS" ELSE "FAILED"
Ends == cancelled \/ fn = "mode"
TakeSem == sem > 0 /\ sem' = sem - 1 /\ UNCHANGED <<fn, pay>>

TimesOut == sem = 0 /\ result' = "TIMEDOUT" /\ UNCHANGED response

WaitOn ==
  /\ click \in {"waitP", "waitO"} /\ ~Ends
  /\ TakeSem
  /\ UNCHANGED <<cancelled, module, clicking, lvgl, receiver, timers, said>>
  /\ Keep

\* "P": the module binds.
Started ==
  /\ click = "waitP" /\ mode = "B" /\ Ends /\ Outcome("P") = "SUCCESS"
  /\ TakeSem
  /\ binding' = TRUE /\ click' = "started"
  /\ UNCHANGED <<cancelled, module, mode, result, asked, lvgl, receiver, timers, said>>
  /\ Keep

\* Wifi has been started, or there is another answer or none.
NotStarted ==
  /\ click = "waitP"
  /\ \/ TakeSem /\ Ends /\ result' = Outcome("P") /\ (mode = "W" \/ result' # "SUCCESS")
     \/ TimesOut
  /\ lvgl' = "none" /\ click' = "idle"
  /\ UNCHANGED <<cancelled, module, mode, binding, asked, receiver, timers, said>>
  /\ Keep

\* After another lv_timer_handler lvgl_mutex is free for the wait for "O".
Unlock ==
  /\ click = "started" /\ timer = "idle"
  /\ lvgl' = "none" /\ click' = "unlocked"
  /\ UNCHANGED <<response, cancelled, module, mode, result, binding, asked, receiver, timers, said>>
  /\ Keep

\* Mutant: the wait for "O" begins again when its time is over.
BindingEnds_again ==
  /\ click = "waitO"
  /\ \/ TakeSem /\ Ends /\ result' = Outcome("O") /\ click' = "relock"
     \/ TimesOut /\ UNCHANGED click
  /\ UNCHANGED <<cancelled, module, mode, binding, asked, lvgl, receiver, timers, said>>
  /\ Keep

BindingEnds ==
  /\ click = "waitO"
  /\ \/ TakeSem /\ Ends /\ result' = Outcome("O")
     \/ TimesOut
  /\ click' = "relock"
  /\ UNCHANGED <<cancelled, module, mode, binding, asked, lvgl, receiver, timers, said>>
  /\ Keep

LockAgain(holder) == lvgl = "none" /\ lvgl' = holder

\* A bound module is asked for its status, a cancelled one is powered off.
Relock ==
  /\ click = "relock"
  /\ \/ /\ result = "SUCCESS" /\ Polls > 0
        /\ LockAgain("input") /\ click' = "ask"
        /\ UNCHANGED <<binding, stopping>>
     \/ /\ result = "CANCELLED"
        /\ LockAgain("input") /\ click' = "join" /\ stopping' = TRUE
        /\ UNCHANGED binding
     \/ /\ result \in {"FAILED", "TIMEDOUT"} \/ (result = "SUCCESS" /\ Polls = 0)
        /\ LockAgain("none") /\ click' = "idle" /\ binding' = FALSE
        /\ UNCHANGED stopping
  /\ UNCHANGED <<response, cancelled, module, mode, result, asked, rx, packet, timers, said>>
  /\ Keep

\* Mutant: a cancelled module stays off.
PlanRepower_not == UNCHANGED repower

PlanRepower == repower' = enabled

\* disable_esp32 joins the receiver, if there is one; a timer will power the
\* module again if it is enabled.
Joined ==
  /\ click = "join" /\ rx \in {"ended", "none"}
  /\ rx' = "none" /\ wire' = <<>> /\ peer' = "idle"
  /\ PlanRepower
  /\ binding' = FALSE
  /\ lvgl' = "none" /\ click' = "idle"
  /\ UNCHANGED <<response, cancelled, mode, result, asked, packet, stopping, polls, timer, said>>
  /\ Keep

\* POS_PWR.  The new thread clears stopping in the 50 ms enable_esp32 gives
\* it, and nobody turns to POS_PWR in the 100 ms of elrs_enable_timer.
SwitchOn ==
  /\ Free /\ shown /\ ~enabled /\ ~repower
  /\ enabled' = TRUE
  /\ rx' = "read" /\ stopping' = FALSE
  /\ UNCHANGED <<response, cancelled, module, shown, clicking, lvgl, packet, timers, ht, said>>

SwitchOff ==
  /\ Free /\ shown /\ enabled /\ ~repower
  /\ enabled' = FALSE
  /\ stopping' = TRUE
  /\ lvgl' = "input" /\ click' = "join"
  /\ UNCHANGED <<response, cancelled, module, shown, mode, result, binding, asked, rx, packet, timers, ht, said>>
-----------------------------------------------------------------------------
(* page_elrs_on_rbtn, with lvgl_mutex held, and msp_cancel_await           *)

Cancel ==
  /\ shown /\ binding /\ lvgl = "none"
  /\ cancelled' = TRUE /\ asked' = TRUE
  /\ lvgl' = "right"
  /\ UNCHANGED <<response, module, setting, click, mode, result, binding, receiver, timers, ht, said>>

\* Mutant: the waiting thread is not woken.
CancelPosts_silent ==
  /\ lvgl = "right"
  /\ lvgl' = "none"
  /\ UNCHANGED <<response, cancelled, module, setting, clicking, receiver, timers, ht, said>>

CancelPosts ==
  /\ lvgl = "right"
  /\ Post
  /\ lvgl' = "none"
  /\ UNCHANGED <<cancelled, module, setting, clicking, receiver, timers, ht, said>>
-----------------------------------------------------------------------------
(***************************************************************************)
(* The timers of the page: in the main thread, or in the input thread when *)
(* page_elrs_on_click calls lv_timer_handler.  msp_read_resposne takes     *)
(* whatever response there is; several status timers may be running.       *)
(***************************************************************************)
TimerRuns ==
  /\ timer = "idle"
  /\ lvgl = "none" \/ click \in {"sent", "started"}

TimerLocks == lvgl' = IF lvgl = "none" THEN "main" ELSE lvgl
TimerUnlocks == lvgl' = IF lvgl = "main" THEN "none" ELSE lvgl

Rest == UNCHANGED <<cancelled, setting, clicking, ht, said>>

StatusRead ==
  /\ TimerRuns /\ polls > 0
  /\ TakeSem /\ fn = "status"
  /\ polls' \in 0..(polls - 1)
  /\ UNCHANGED <<module, lvgl, receiver, repower, timer>>
  /\ Rest

StatusMissed ==
  /\ TimerRuns /\ polls > 0
  /\ \/ TakeSem /\ fn # "status"
     \/ sem = 0 /\ UNCHANGED response
  /\ polls' = polls - 1
  /\ timer' = "drain" /\ TimerLocks
  /\ UNCHANGED <<module, receiver, repower>>
  /\ Rest

TimerDrains ==
  /\ timer = "drain"
  /\ Drain
  /\ timer' = "write"
  /\ UNCHANGED <<module, lvgl, receiver, polls, repower>>
  /\ Rest

TimerWrites ==
  /\ timer = "write"
  /\ Clear /\ Says("status")
  /\ timer' = "idle" /\ TimerUnlocks
  /\ UNCHANGED <<peer, receiver, polls, repower>>
  /\ Rest

\* elrs_enable_timer: enable_esp32 and request_uid
EnableTimer ==
  /\ TimerRuns /\ repower
  /\ repower' = FALSE
  /\ IF enabled THEN rx' = "read" /\ stopping' = FALSE ELSE UNCHANGED <<rx, stopping>>
  /\ IF Polls > 0 THEN polls' = Polls /\ timer' = "drain" /\ TimerLocks
                  ELSE UNCHANGED <<polls, timer, lvgl>>
  /\ UNCHANGED <<response, module, packet>>
  /\ Rest

\* msp_ht_update
TrackerDrains ==
  /\ HeadTracks /\ enabled /\ ht = "idle"
  /\ Drain
  /\ ht' = "write"
  /\ UNCHANGED <<cancelled, module, setting, clicking, lvgl, receiver, timers, said>>

TrackerWrites ==
  /\ ht = "write"
  /\ Clear
  /\ ht' = "idle"
  /\ UNCHANGED <<cancelled, module, setting, clicking, lvgl, receiver, timers, said>>
-----------------------------------------------------------------------------
Module == (\E p \in {"O", "E"} : PeerEndsBinding(p)) \/ (\E p \in Radio : RadioCommand(p))
Receiver == ReadPacket \/ CopyPayload \/ PostResponse \/ SendReply \/ SwitchChannel \/ StopReceiver
Clicking ==
  \/ AskDrains \/ AskWrites \/ ChannelWritten
  \/ SendMode \/ Await("sent", "waitP") \/ WaitOn \/ Started \/ NotStarted
  \/ Unlock \/ Await("unlocked", "waitO") \/ BindingEnds \/ Joined
Main == StatusRead \/ StatusMissed \/ TimerDrains \/ TimerWrites \/ EnableTimer
User ==
  \/ EnterPage \/ LeavePage \/ SendChannel \/ (\E m \in {"B", "W"} : Click(m))
  \/ SwitchOn \/ SwitchOff \/ Cancel
Tracker == TrackerDrains \/ TrackerWrites

Next == Module \/ Receiver \/ LockChannel \/ Clicking \/ Relock \/ CancelPosts \/ Main \/ User \/ Tracker

Spec == Init /\ [][Next]_vars

\* Every thread runs, a wait of sem_timedwait ends, and who waits for
\* lvgl_mutex gets it in the end; the module, the user and the tracker owe
\* nothing but to finish what they have begun.
Fairness ==
  /\ WF_vars(Receiver) /\ SF_vars(LockChannel)
  /\ WF_vars(Clicking) /\ SF_vars(Relock)
  /\ WF_vars(CancelPosts) /\ SF_vars(Main) /\ SF_vars(EnableTimer) /\ WF_vars(TrackerWrites)

FairSpec == Spec /\ Fairness
-----------------------------------------------------------------------------
\* The values of the variables, and who holds lvgl_mutex: the input thread but
\* for the wait for "O", the receiver that switches the channel, a timer.
TypeOK ==
  /\ sem \in 0..MaxSem
  /\ fn \in {"none", "mode", "status"} /\ pay \in Answers \cup {"none", "status"}
  /\ cancelled \in BOOLEAN
  /\ wire \in Seq(Answers \cup {"status"} \cup Radio) /\ Len(wire) <= MaxWire
  /\ peer \in {"idle", "binding"}
  /\ enabled \in BOOLEAN /\ shown \in BOOLEAN
  /\ click \in {"idle", "ask", "asked", "channel", "send", "sent", "waitP", "started",
                "unlocked", "waitO", "relock", "join"}
  /\ mode \in {"B", "W"}
  /\ result \in {"none", "SUCCESS", "FAILED", "TIMEDOUT", "CANCELLED"}
  /\ binding \in BOOLEAN /\ asked \in BOOLEAN
  /\ lvgl \in {"none", "input", "right", "main", "rx"}
  /\ rx \in {"none", "read", "copy", "post", "reply", "lock", "switch", "ended"}
  /\ packet \in Answers \cup {"none", "status"}
  /\ stopping \in BOOLEAN
  /\ polls \in 0..Polls /\ repower \in BOOLEAN
  /\ timer \in {"idle", "drain", "write"} /\ ht \in {"idle", "write"}
  /\ said \subseteq Answers \cup {"status"}
  /\ lvgl = "input" <=>
       click \in {"ask", "asked", "channel", "send", "sent", "waitP", "started", "join"}
  /\ lvgl = "rx" <=> rx = "switch"
  /\ timer # "idle" => lvgl = "main" \/ click \in {"sent", "started"}

\* "Success" on the page means that the module has said "O" since it was
\* told to bind, whatever else uses the semaphore and the response
\* (src/src/core/elrs.c:419-447).
SuccessIsReal ==
  click = "relock" /\ result = "SUCCESS" => "O" \in said

\* Nothing is reported as cancelled that the user has not cancelled: a
\* cancellation does not reach a later request (elrs.c:434, 449-452).
CancelledIsAsked == result = "CANCELLED" => asked

\* Between clicks the receiver runs just when the module is switched on, or
\* a timer will start it: no binding, cancelled or not, leaves an enabled
\* module without its receiver (page_elrs.c:156-161, 236-241).
EnabledIsPowered ==
  click = "idle" /\ ~repower => (enabled <=> rx # "none")

\* While nobody else uses the link, a wait for "O" does not time out on an
\* answer that the receiver has posted (elrs.c:402-405, 434-446).
AnswerHeard ==
  [][click = "waitO" /\ click' = "relock" /\ result' = "TIMEDOUT"
       => said \cap {"O", "E"} = {} \/ rx \in {"copy", "post"}]_vars

\* While nobody else uses the link, a cancelled wait finds the semaphore up:
\* the cancellation is not slept over (elrs.c:449-452).
CancelWakes ==
  click = "waitO" /\ cancelled /\ lvgl # "right" => sem > 0

\* Every click comes to its end: the input thread, and with it the menu, is
\* free again (page_elrs.c:173-248).
ClickEnds == click # "idle" ~> click = "idle"

\* A cancelled module is powered again (page_elrs.c:236).
RepoweredAfterCancel ==
  click = "join" /\ enabled ~> click = "idle" /\ rx # "none"
=============================================================================
