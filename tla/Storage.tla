------------------------------- MODULE Storage ------------------------------
(***************************************************************************)
(* The SD card between the storage page, which formats and repairs it, the *)
(* thread that repairs it by itself, and thread_peripheral, which looks    *)
(* whether it is there: page_storage.c, detect_sdcard of thread.c, and the *)
(* scripts chkfixsd.sh and formatsd.sh, which do the work in the           *)
(* background while record is stopped.                                     *)
(*                                                                         *)
(*   ui   the main loop and the buttons, one at a time under lvgl_mutex;   *)
(*        the callback of a timer keeps the mutex until it has formatted   *)
(*        or repaired                                                      *)
(*   rep  page_storage_repair_thread                                       *)
(*   per  detect_sdcard                                                    *)
(*                                                                         *)
(* What a check finds, and so what the page says of it, is left out: only  *)
(* whether there is a result yet decides what happens next.  Of two        *)
(* threads that are created before the first has run at all one is left    *)
(* out.  The automatic mount of a card that is inserted is external.       *)
(***************************************************************************)
EXTENDS Naturals

CONSTANTS MaxScripts,  \* bound: scripts that run at the same time
          MaxTimers,   \* bound: timers that wait
          Habits,      \* bound: for each user, what he does with cards
          Slow         \* may a script take longer than it is waited for?

Kinds == {"fsck", "mkfs"}   \* repairs, formats

ASSUME StorageAssumption ==
  /\ MaxScripts \in Nat \ {0} /\ MaxTimers \in Nat \ {0}
  /\ Habits \subseteq SUBSET Kinds /\ Slow \in BOOLEAN

Steps == {"quit", "umount", "check", "mount", "start"}   \* of a script

VARIABLES
  asks,       \* what the user does with cards; it never changes
  card,       \* is a card in the slot?
  mounted,    \* sdcard_mounted()
  script,     \* for each kind and step: how many scripts are there?
  result,     \* for each kind: is /tmp/fsck.result or /tmp/mkfs.result there?
  recorders,  \* record processes
  ui,         \* what ui does in a callback: "idle", "begin", "results", "remount"
  uiKind,     \* and what for
  box,        \* status_displayed
  confirm,    \* confirm_format, confirm_repair
  timers,     \* for each kind: timers that wait
  disabled,   \* disable_controls
  rep,        \* where the thread is
  autoActive, \* is_auto_sd_repair_active
  ready,      \* is sdcard_ready_cb set?
  active,     \* is_sd_repair_active
  per,        \* has detect_sdcard looked?
  seen,       \* and what has it seen?
  enable,     \* g_sdcard_enable; sdcard_enable_last is the same between its rounds
  initScan,   \* sdcard_init_scan
  fresh,      \* history: has detect_sdcard started no repair since the goggle was
              \* turned on, or the last card inserted?
  alone       \* history: was every script a repair, the only one to run, and waited for?

sd    == <<asks, card, mounted>>
work  == <<script, result, recorders>>
page  == <<box, confirm, timers>>
thread == <<rep, autoActive, ready>>
watch == <<per, seen, enable, initScan>>
vars == <<sd, work, ui, uiKind, page, disabled, thread, active, watch, fresh, alone>>

Unconfirmed == [k \in Kinds |-> 0]

Init ==
  /\ asks \in Habits
  /\ card \in BOOLEAN /\ mounted = card
  /\ script = [k \in Kinds |-> [s \in Steps |-> 0]] /\ result = [k \in Kinds |-> FALSE] /\ recorders = 1
  /\ ui = "idle" /\ uiKind = "none"
  /\ box = FALSE /\ confirm = Unconfirmed /\ timers = [k \in Kinds |-> 0]
  /\ disabled \in BOOLEAN    \* self-test, or files of the card in use: they stay off
  /\ rep = "new" /\ autoActive = FALSE /\ ready = FALSE    \* page_storage_post_bootup_action
  /\ active = FALSE
  /\ per = "look" /\ seen = FALSE /\ enable = FALSE /\ initScan = TRUE
  /\ fresh = TRUE /\ alone = TRUE

LvglFree == ui = "idle"
Before == {"quit", "umount", "check", "mount"}   \* it has not yet mounted the card
NoScript == \A k \in Kinds, s \in Steps : script[k][s] = 0
Total == LET n(k) == script[k]["quit"] + script[k]["umount"] + script[k]["check"]
                     + script[k]["mount"] + script[k]["start"]
         IN  n("fsck") + n("mkfs")
-----------------------------------------------------------------------------
(* The card                                                                *)

Card == UNCHANGED <<asks, work, ui, uiKind, page, disabled, thread, active, watch, alone>>

Insert ==
  /\ ~card /\ card' = TRUE /\ mounted' = TRUE /\ fresh' = TRUE
  /\ Card

Remove ==
  /\ card /\ card' = FALSE /\ mounted' = FALSE
  /\ Card /\ UNCHANGED fresh
-----------------------------------------------------------------------------
(* The scripts                                                             *)

Script == UNCHANGED <<ui, uiKind, page, disabled, thread, active, watch, fresh, alone>>

\* A script does what it does at one step and goes to the next.
At(k, here, next) ==
  /\ script[k][here] > 0
  /\ script' = [script EXCEPT ![k][here] = @ - 1, ![k][next] = @ + 1]

\* record is told to quit.
ScriptQuit(k) ==
  /\ At(k, "quit", "umount")
  /\ recorders' = IF recorders > 0 THEN recorders - 1 ELSE 0
  /\ Script /\ UNCHANGED <<sd, result>>

\* The card is unmounted, unless record uses it, and the old result removed.
ScriptUmount(k) ==
  /\ At(k, "umount", "check")
  /\ mounted' \in IF recorders > 0 THEN {FALSE, mounted} ELSE {FALSE}
  /\ result' = [result EXCEPT ![k] = FALSE]
  /\ Script /\ UNCHANGED <<asks, card, recorders>>

ScriptCheck(k) ==
  /\ At(k, "check", "mount")
  /\ result' = [result EXCEPT ![k] = TRUE]
  /\ Script /\ UNCHANGED <<sd, recorders>>

\* The card is mounted, if it is there and can be.
ScriptMount(k) ==
  /\ At(k, "mount", "start")
  /\ mounted' \in IF card THEN {mounted, TRUE} ELSE {FALSE}
  /\ Script /\ UNCHANGED <<asks, card, result, recorders>>

\* Mutant: record is started again only if the card is there.
ScriptStart_ifMounted(k) ==
  /\ script[k]["start"] > 0
  /\ script' = [script EXCEPT ![k]["start"] = @ - 1]
  /\ recorders' = IF mounted THEN recorders + 1 ELSE recorders
  /\ Script /\ UNCHANGED <<sd, result>>

\* record is started again, and the script ends.
ScriptStart(k) ==
  /\ script[k]["start"] > 0
  /\ script' = [script EXCEPT ![k]["start"] = @ - 1]
  /\ recorders' = recorders + 1
  /\ Script /\ UNCHANGED <<sd, result>>

Scripts == \E k \in Kinds : \/ ScriptQuit(k) \/ ScriptUmount(k) \/ ScriptCheck(k)
                            \/ ScriptMount(k) \/ ScriptStart(k)
-----------------------------------------------------------------------------
(* page_storage_repair_sd and page_storage_format_sd, called by ui or rep. *)
(* The waits give up after a minute (10 s for the mount), but the errors   *)
(* for it are out of reach: the next step is taken with or without what it *)
(* waits for.                                                              *)

\* The old result is removed and the script started.
Starts(k) ==
  /\ Total < MaxScripts
  /\ script' = [script EXCEPT ![k]["quit"] = @ + 1]
  /\ result' = [result EXCEPT ![k] = FALSE]
  /\ alone' = (alone /\ k = "fsck" /\ NoScript)

GotResult(k) == result[k] \/ Slow

\* Is there a script that has yet to mount the card?
Pending == \E k \in Kinds, s \in Before : script[k][s] > 0

Remounted == mounted \/ ~Pending \/ Slow
-----------------------------------------------------------------------------
(* The page                                                                *)

Page == UNCHANGED <<sd, work, ui, uiKind, disabled, thread, active, watch, fresh, alone>>

\* The page is left and entered again: nothing is confirmed any more, but a
\* timer that waits goes on waiting.
LeaveEnter ==
  /\ LvglFree
  /\ box' = FALSE /\ confirm' = Unconfirmed
  /\ Page /\ UNCHANGED timers

Roller ==
  /\ LvglFree /\ ~box /\ \A k \in Kinds : confirm[k] # 2
  /\ confirm' = Unconfirmed
  /\ Page /\ UNCHANGED <<box, timers>>

\* A click closes the status box,
ClickBox ==
  /\ LvglFree /\ box
  /\ box' = FALSE
  /\ Page /\ UNCHANGED <<confirm, timers>>

\* asks for a confirmation,
ClickAsk(k) ==
  /\ LvglFree /\ ~box /\ ~disabled /\ confirm[k] = 0
  /\ confirm' = [confirm EXCEPT ![k] = 1]
  /\ Page /\ UNCHANGED <<box, timers>>

\* Mutant: the controls that are off are not asked for.
ClickConfirm_anyway(k) ==
  /\ LvglFree /\ ~box /\ confirm[k] # 0
  /\ timers["fsck"] + timers["mkfs"] < MaxTimers
  /\ confirm' = [confirm EXCEPT ![k] = 2] /\ timers' = [timers EXCEPT ![k] = @ + 1]
  /\ Page /\ UNCHANGED box

\* or confirms; one more click before the timer expires is one more timer.
ClickConfirm(k) ==
  /\ LvglFree /\ ~box /\ ~disabled /\ confirm[k] # 0
  /\ timers["fsck"] + timers["mkfs"] < MaxTimers
  /\ confirm' = [confirm EXCEPT ![k] = 2] /\ timers' = [timers EXCEPT ![k] = @ + 1]
  /\ Page /\ UNCHANGED box

\* The timer expires, wherever the user is by now: lv_timer_handler.
Fire(k) ==
  /\ LvglFree /\ timers[k] > 0
  /\ timers' = [timers EXCEPT ![k] = @ - 1]
  /\ ui' = "begin" /\ uiKind' = k
  /\ UNCHANGED <<sd, work, box, confirm, disabled, thread, active, watch, fresh, alone>>

\* The status box is opened and the confirmations are forgotten.
Reports == ui' = "idle" /\ uiKind' = "none" /\ box' = TRUE /\ confirm' = Unconfirmed

Ui == UNCHANGED <<sd, recorders, timers, disabled, thread, watch, fresh>>

\* Without a card there is nothing to do.
UiNoCard ==
  /\ ui = "begin" /\ ~(IF uiKind = "fsck" THEN mounted ELSE card)
  /\ Reports
  /\ Ui /\ UNCHANGED <<script, result, active, alone>>

UiBegin ==
  /\ ui = "begin" /\ (IF uiKind = "fsck" THEN mounted ELSE card)
  /\ ui' = "results" /\ Starts(uiKind)
  /\ active' = (active \/ uiKind = "fsck")
  /\ Ui /\ UNCHANGED <<uiKind, box, confirm>>

UiRepairResults ==
  /\ ui = "results" /\ uiKind = "fsck" /\ GotResult("fsck")
  /\ ui' = "remount"
  /\ Ui /\ UNCHANGED <<uiKind, script, result, active, alone, box, confirm>>

UiFormatResults ==
  /\ ui = "results" /\ uiKind = "mkfs" /\ GotResult("mkfs")
  /\ Reports
  /\ Ui /\ UNCHANGED <<script, result, active, alone>>

UiEnd ==
  /\ ui = "remount" /\ Remounted
  /\ Reports /\ active' = FALSE /\ alone' = (alone /\ ~Pending)
  /\ Ui /\ UNCHANGED <<script, result>>
-----------------------------------------------------------------------------
(* page_storage_repair_thread                                              *)

Rep == UNCHANGED <<sd, recorders, ui, uiKind, page, watch, fresh>>

\* With the controls off it ends.
RepStart ==
  /\ rep = "new"
  /\ IF disabled THEN rep' = "off" /\ ready' = TRUE /\ UNCHANGED autoActive
                 ELSE rep' = "disable" /\ autoActive' = TRUE /\ UNCHANGED ready
  /\ Rep /\ UNCHANGED <<script, result, disabled, active, alone>>

RepDisable ==
  /\ rep = "disable" /\ LvglFree
  /\ rep' = "begin" /\ disabled' = TRUE
  /\ Rep /\ UNCHANGED <<script, result, autoActive, ready, active, alone>>

RepNoCard ==
  /\ rep = "begin" /\ ~mounted
  /\ rep' = "enable"
  /\ Rep /\ UNCHANGED <<script, result, disabled, autoActive, ready, active, alone>>

\* Mutant: the flag is not set.
RepBegin_unmarked ==
  /\ rep = "begin" /\ mounted
  /\ rep' = "results" /\ Starts("fsck")
  /\ Rep /\ UNCHANGED <<disabled, autoActive, ready, active>>

RepBegin ==
  /\ rep = "begin" /\ mounted
  /\ rep' = "results" /\ Starts("fsck") /\ active' = TRUE
  /\ Rep /\ UNCHANGED <<disabled, autoActive, ready>>

RepResults ==
  /\ rep = "results" /\ GotResult("fsck")
  /\ rep' = "remount"
  /\ Rep /\ UNCHANGED <<script, result, disabled, autoActive, ready, active, alone>>

\* Mutant: the end of a repair is not told to detect_sdcard.
RepEnd_marked ==
  /\ rep = "remount" /\ Remounted
  /\ rep' = "enable" /\ alone' = (alone /\ ~Pending)
  /\ Rep /\ UNCHANGED <<script, result, disabled, autoActive, ready, active>>

RepEnd ==
  /\ rep = "remount" /\ Remounted
  /\ rep' = "enable" /\ active' = FALSE /\ alone' = (alone /\ ~Pending)
  /\ Rep /\ UNCHANGED <<script, result, disabled, autoActive, ready>>

\* Mutant: a repair that finds no card leaves the controls off.
RepEnable_ifMounted ==
  /\ rep = "enable" /\ LvglFree
  /\ rep' = "done" /\ disabled' = ~mounted
  /\ Rep /\ UNCHANGED <<script, result, autoActive, ready, active, alone>>

RepEnable ==
  /\ rep = "enable" /\ LvglFree
  /\ rep' = "done" /\ disabled' = FALSE
  /\ Rep /\ UNCHANGED <<script, result, autoActive, ready, active, alone>>

RepDone ==
  /\ rep = "done"
  /\ rep' = "off" /\ autoActive' = FALSE /\ ready' = TRUE
  /\ Rep /\ UNCHANGED <<script, result, disabled, active, alone>>
-----------------------------------------------------------------------------
(* detect_sdcard                                                           *)

Look ==
  /\ per = "look" /\ ~active
  /\ per' = "act" /\ seen' = mounted
  /\ UNCHANGED <<sd, work, ui, uiKind, page, disabled, thread, active, enable, initScan, fresh, alone>>

\* page_storage_init_auto_sd_repair
Creates == rep = "off" /\ ~autoActive

Act ==
  /\ per = "act" /\ per' = "look"
  /\ enable' = seen
  /\ initScan' = IF seen THEN FALSE ELSE initScan \/ enable
  /\ IF initScan /\ seen /\ ready /\ Creates
       THEN rep' = "new" /\ fresh' = FALSE
       ELSE UNCHANGED <<rep, fresh>>
  /\ UNCHANGED <<sd, work, ui, uiKind, page, disabled, autoActive, ready, active, seen, alone>>
-----------------------------------------------------------------------------
User == LeaveEnter \/ Roller \/ ClickBox \/ (\E k \in asks : ClickAsk(k) \/ ClickConfirm(k))
Callback == (\E k \in Kinds : Fire(k)) \/ UiNoCard \/ UiBegin \/ UiRepairResults \/ UiFormatResults \/ UiEnd
Thread == RepStart \/ RepDisable \/ RepNoCard \/ RepBegin \/ RepResults \/ RepEnd \/ RepEnable \/ RepDone

Next == Insert \/ Remove \/ Scripts \/ User \/ Callback \/ Thread \/ Look \/ Act

Spec == Init /\ [][Next]_vars

\* Scripts and threads go on; users and cards owe nothing.  detect_sdcard
\* looks ten times a second, so it finds the moment between two repairs.
FairSpec == Spec /\ WF_vars(Scripts) /\ WF_vars(Callback) /\ WF_vars(Thread) /\ SF_vars(Look) /\ WF_vars(Act)
-----------------------------------------------------------------------------
\* The values of the variables; no more scripts and record processes run at
\* the same time than were started.
TypeOK ==
  /\ asks \in Habits /\ card \in BOOLEAN /\ mounted \in BOOLEAN
  /\ script \in [Kinds -> [Steps -> Nat]] /\ Total <= MaxScripts
  /\ result \in [Kinds -> BOOLEAN] /\ recorders \in 0 .. MaxScripts
  /\ ui \in {"idle", "begin", "results", "remount"} /\ uiKind \in Kinds \cup {"none"}
  /\ box \in BOOLEAN
  /\ confirm \in [Kinds -> 0 .. 2] /\ timers \in [Kinds -> 0 .. MaxTimers]
  /\ disabled \in BOOLEAN
  /\ rep \in {"off", "new", "disable", "begin", "results", "remount", "enable", "done"}
  /\ autoActive \in BOOLEAN /\ ready \in BOOLEAN /\ active \in BOOLEAN
  /\ per \in {"look", "act"} /\ seen \in BOOLEAN /\ enable \in BOOLEAN /\ initScan \in BOOLEAN
  /\ fresh \in BOOLEAN /\ alone \in BOOLEAN

\* However the scripts overlap, whatever is waited for in vain and whenever
\* the card is pulled out, a record process runs in the end, and only one if
\* they do not overlap (chkfixsd.sh:4-37, formatsd.sh:4-48).
RecordsAgain == NoScript => recorders >= 1 /\ (alone => recorders = 1)

\* A repair unmounts the card and mounts it again; detect_sdcard does not
\* take that for a card that was inserted, and repairs it again and again:
\* core/thread.c:51 "Only repair card at bootup or when inserted".  (It does
\* after a format, after a repair that takes more than a minute, and when
\* two repairs overlap.)
OnlyOnInsert == [][rep = "off" /\ rep' = "new" => fresh \/ ~alone]_vars

\* While the thread repairs the card no format and no repair is confirmed:
\* page_storage.c:594 "controls are disabled until process has completed".
ControlsOff ==
  [][\A k \in Kinds : rep \in {"begin", "results", "remount"} => timers'[k] <= timers[k] ]_vars

\* The controls that a repair took away come back, though the thread waits for ui, which may repair
\* the card itself, and both for scripts and for a card that may be gone
\* (page_storage.c:588-611).
ControlsBack == disabled /\ autoActive ~> ~disabled

\* A card that is there is noticed in the end, or nothing could be recorded
\* on it: is_sd_repair_active, which hides it, never stays set (core/thread.c:43-44, page_storage.c:216, 283).
CardNoticed == mounted ~> enable \/ ~mounted
=============================================================================
