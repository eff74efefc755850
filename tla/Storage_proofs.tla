--------------------------- MODULE Storage_proofs ---------------------------
(***************************************************************************)
(* What is proved of the SD card and the storage page, for every number of *)
(* scripts and timers, whatever the user does with cards, and with scripts *)
(* that take as long as they like.                                         *)
(***************************************************************************)
EXTENDS Storage, TLAPS

\* The scripts that have told record to quit and have not yet started it.
PastOf(k) == script[k]["umount"] + script[k]["check"] + script[k]["mount"] + script[k]["start"]
Past == PastOf("fsck") + PastOf("mkfs")

\* Each of them takes one record process away and gives one back; but if
\* there is none left to take away, one more comes back.
Recorders ==
  /\ script \in [Kinds -> [Steps -> Nat]] /\ Total <= MaxScripts
  /\ recorders \in Nat /\ recorders + Past \in 1 .. MaxScripts
  /\ alone => Total <= 1 /\ recorders + Past = 1

\* While the thread repairs, the controls are off.
Controls == rep \in {"begin", "results", "remount", "enable"} => disabled

\* A script that runs alone is one of which detect_sdcard is told.
Told == alone /\ Pending => active

\* detect_sdcard misses a card that was not inserted since its last repair
\* only if it is out, or could not be mounted, and no script will mount it.
Missed ==
  alone /\ ~fresh /\ (initScan \/ (per = "act" /\ ~seen))
    => ~mounted /\ ~Pending /\ (per = "act" => ~seen)

\* ui knows what it repairs or formats.
Knows == ui # "idle" => uiKind \in Kinds

IInv == TypeOK /\ Knows /\ Recorders /\ Controls /\ Told /\ Missed
-----------------------------------------------------------------------------
(* How the scripts are counted                                             *)

Scripted == script \in [Kinds -> [Steps -> Nat]]

\* A script that goes on is still one script; it counts as past its first
\* step once it has taken it, and no script begins to be pending by going on.
LEMMA AtCounts ==
  ASSUME Scripted, NEW k \in Kinds, NEW here \in Steps, NEW next \in Steps \ {"quit"},
         At(k, here, next), here # next, here = "start" => FALSE
  PROVE  /\ Scripted'
         /\ Total' = Total
         /\ Past' = Past + (IF here = "quit" THEN 1 ELSE 0)
         /\ script[k][here] > 0
         /\ Total \in Nat /\ Past \in Nat /\ Total >= Past /\ Total >= 1
         /\ here = "quit" => Total >= Past + 1
         /\ Pending
<1>1. here \in Before
  BY DEF Steps, Before
<1>2. Pending
  BY <1>1 DEF Pending, At
<1>3. Scripted'
  BY DEF Scripted, At, Steps, Kinds
<1>4. ASSUME NEW j \in Kinds, NEW s \in Steps
      PROVE  script'[j][s] = IF j # k THEN script[j][s]
                             ELSE IF s = here THEN script[j][s] - 1
                             ELSE IF s = next THEN script[j][s] + 1 ELSE script[j][s]
  BY DEF Scripted, At
<1>5. \A j \in Kinds, s \in Steps : script[j][s] \in Nat /\ script'[j][s] \in Nat
  BY <1>3 DEF Scripted
<1>6. Past \in Nat /\ Total \in Nat /\ Total = Past + script["fsck"]["quit"] + script["mkfs"]["quit"]
  BY <1>5 DEF Past, PastOf, Total, Kinds, Steps
<1>7. /\ PastOf(k)' = PastOf(k) + (IF here = "quit" THEN 1 ELSE 0)
      /\ script'[k]["quit"] = script[k]["quit"] - (IF here = "quit" THEN 1 ELSE 0)
  <2>1. \A s \in Steps : script'[k][s] = IF s = here THEN script[k][s] - 1
                                        ELSE IF s = next THEN script[k][s] + 1 ELSE script[k][s]
    BY <1>4
  <2>2. \A s \in Steps : script[k][s] \in Nat
    BY <1>5
  <2>3. /\ here \in {"quit", "umount", "check", "mount"}
        /\ next \in {"umount", "check", "mount", "start"}
        /\ {"quit", "umount", "check", "mount", "start"} \subseteq Steps
    BY DEF Steps
  <2>4. CASE here = "quit"
    BY <2>1, <2>2, <2>3, <2>4 DEF PastOf
  <2>5. CASE here = "umount"
    BY <2>1, <2>2, <2>3, <2>5 DEF PastOf
  <2>6. CASE here = "check"
    BY <2>1, <2>2, <2>3, <2>6 DEF PastOf
  <2>7. CASE here = "mount"
    BY <2>1, <2>2, <2>3, <2>7 DEF PastOf
  <2> QED
    BY <2>3, <2>4, <2>5, <2>6, <2>7
<1>8. ASSUME NEW j \in Kinds, j # k
      PROVE  PastOf(j)' = PastOf(j) /\ script'[j]["quit"] = script[j]["quit"]
  BY <1>4, <1>8 DEF PastOf, Kinds, Steps
<1>9. /\ \A j \in Kinds : PastOf(j) \in Nat /\ PastOf(j)' \in Nat
      /\ Total = Past + script["fsck"]["quit"] + script["mkfs"]["quit"]
      /\ Total' = Past' + script'["fsck"]["quit"] + script'["mkfs"]["quit"]
  BY <1>5 DEF Past, PastOf, Total, Kinds, Steps
<1>10. Past' = Past + (IF here = "quit" THEN 1 ELSE 0) /\ Total' = Total
  <2>1. /\ script["fsck"]["quit"] \in Nat /\ script["mkfs"]["quit"] \in Nat
        /\ script'["fsck"]["quit"] \in Nat /\ script'["mkfs"]["quit"] \in Nat
    BY <1>5 DEF Kinds, Steps
  <2>2. CASE k = "fsck"
    <3>1. PastOf("mkfs")' = PastOf("mkfs") /\ script'["mkfs"]["quit"] = script["mkfs"]["quit"]
      BY <1>8, <2>2 DEF Kinds
    <3> QED
      BY <1>7, <1>9, <2>1, <2>2, <3>1 DEF Past, Kinds
  <2>3. CASE k = "mkfs"
    <3>1. PastOf("fsck")' = PastOf("fsck") /\ script'["fsck"]["quit"] = script["fsck"]["quit"]
      BY <1>8, <2>3 DEF Kinds
    <3> QED
      BY <1>7, <1>9, <2>1, <2>3, <3>1 DEF Past, Kinds
  <2> QED
    BY <2>2, <2>3 DEF Kinds
<1>11. Total >= 1 /\ Total >= Past /\ (here = "quit" => Total >= Past + 1)
  <2>1. script[k][here] >= 1 /\ \A j \in Kinds, s \in Steps : script[j][s] >= 0
    BY <1>5 DEF At
  <2>2. CASE here = "quit"
    BY <1>5, <1>6, <2>1, <2>2 DEF Kinds, Steps
  <2>3. CASE here # "quit"
    <3>1. PastOf(k) >= 1
      BY <1>5, <2>1, <2>3 DEF PastOf, Steps
    <3> QED
      BY <1>5, <1>6, <1>9, <2>3, <3>1 DEF Past, Kinds, Steps
  <2> QED
    BY <2>2, <2>3
<1> QED
  BY <1>2, <1>3, <1>6, <1>10, <1>11 DEF At

\* A script that ends gives back what it has taken.
LEMMA StartCounts ==
  ASSUME Scripted, NEW k \in Kinds, script[k]["start"] > 0,
         script' = [script EXCEPT ![k]["start"] = @ - 1]
  PROVE  /\ Scripted'
         /\ Total' = Total - 1 /\ Past' = Past - 1
         /\ Past \in Nat /\ Past >= 1 /\ Total \in Nat /\ Total >= Past
         /\ Pending' = Pending
<1>1. Scripted'
  BY DEF Scripted, Steps, Kinds
<1>2. \A j \in Kinds, s \in Steps :
        script'[j][s] = IF j = k /\ s = "start" THEN script[j][s] - 1 ELSE script[j][s]
  BY DEF Scripted, Steps
<1>3. \A j \in Kinds, s \in Steps : script[j][s] \in Nat /\ script'[j][s] \in Nat
  BY <1>1 DEF Scripted
<1>4. \A j \in Kinds : PastOf(j) \in Nat /\ PastOf(j)' = PastOf(j) - (IF j = k THEN 1 ELSE 0)
  BY <1>2, <1>3 DEF PastOf, Steps
<1>5. /\ PastOf(k) >= 1
      /\ Total = Past + script["fsck"]["quit"] + script["mkfs"]["quit"]
      /\ Total' = Past' + script["fsck"]["quit"] + script["mkfs"]["quit"]
  BY <1>2, <1>3 DEF PastOf, Total, Past, Kinds, Steps
<1>6. Past \in Nat /\ Past >= 1 /\ Past' = Past - 1
  BY <1>4, <1>5 DEF Past, Kinds
<1>7. Total' = Total - 1 /\ Total \in Nat /\ Total >= Past
  BY <1>3, <1>5, <1>6 DEF Kinds, Steps
<1>8. Pending' = Pending
  BY <1>2 DEF Pending, Before, Steps
<1> QED
  BY <1>1, <1>6, <1>7, <1>8

\* A script that is started has taken nothing yet.
LEMMA StartsCounts ==
  ASSUME Scripted, NEW k \in Kinds, Starts(k), MaxScripts \in Nat
  PROVE  /\ Scripted'
         /\ Total \in Nat /\ Total' = Total + 1 /\ Total' <= MaxScripts /\ Past' = Past
         /\ NoScript => Total' = 1
<1>1. Scripted'
  BY DEF Scripted, Starts, Steps, Kinds
<1>2. \A j \in Kinds, s \in Steps :
        script'[j][s] = IF j = k /\ s = "quit" THEN script[j][s] + 1 ELSE script[j][s]
  BY DEF Scripted, Starts, Steps
<1>3. \A j \in Kinds, s \in Steps : script[j][s] \in Nat /\ script'[j][s] \in Nat
  BY <1>1 DEF Scripted
<1>4. Past' = Past /\ Past \in Nat
  BY <1>2, <1>3 DEF Past, PastOf, Kinds, Steps
<1>5. Total = Past + script["fsck"]["quit"] + script["mkfs"]["quit"]
      /\ Total' = Past' + script'["fsck"]["quit"] + script'["mkfs"]["quit"]
  BY <1>3 DEF Past, PastOf, Total, Kinds, Steps
<1>6. Total \in Nat /\ Total' = Total + 1
  BY <1>2, <1>3, <1>4, <1>5 DEF Kinds, Steps
<1>7. NoScript => Total = 0
  BY DEF NoScript, Total, Kinds, Steps
<1> QED
  BY <1>1, <1>4, <1>6, <1>7 DEF Starts
-----------------------------------------------------------------------------
(* The initial states and the steps                                        *)

LEMMA Initial ==
  ASSUME Init
  PROVE  IInv
<1> USE StorageAssumption DEF Init, Kinds, Steps
<1>1. Total = 0 /\ Past = 0 /\ ~Pending
  BY DEF Total, Past, PastOf, Pending, Before
<1>2. /\ asks \in Habits /\ script \in [Kinds -> [Steps -> Nat]] /\ Total <= MaxScripts
      /\ recorders \in 0 .. MaxScripts
      /\ ui = "idle" /\ uiKind = "none" /\ rep = "new" /\ per = "look"
      /\ confirm \in [Kinds -> 0 .. 2] /\ timers \in [Kinds -> 0 .. MaxTimers]
  BY <1>1 DEF Unconfirmed
<1>3. /\ {card, mounted, box, disabled, autoActive, ready, active} \subseteq BOOLEAN
      /\ {seen, enable, initScan, fresh, alone} \subseteq BOOLEAN
      /\ result \in [Kinds -> BOOLEAN]
  BY Zenon
<1>4. TypeOK
  BY <1>2, <1>3, Zenon DEF TypeOK
<1>5. Recorders
  BY <1>1 DEF Recorders
<1>6. Controls /\ Told /\ Missed /\ Knows
  BY <1>1 DEF Controls, Told, Missed, Knows
<1> QED
  BY <1>4, <1>5, <1>6 DEF IInv

\* The steps that neither begin a script nor go on with one; only two of them
\* forget that scripts ran alone.
Apart ==
  \/ Insert \/ Remove \/ User
  \/ \E k \in Kinds : Fire(k)
  \/ UiNoCard \/ UiRepairResults
  \/ UiFormatResults \/ UiEnd \/ RepStart \/ RepDisable \/ RepNoCard \/ RepResults \/ RepEnd
  \/ RepEnable \/ RepDone \/ Look \/ Act \/ UNCHANGED vars

LEMMA ApartStep ==
  ASSUME Apart
  PROVE  UNCHANGED <<script, recorders>> /\ (UNCHANGED alone \/ alone' = (alone /\ ~Pending))
<1> USE DEF sd, work, page, thread, watch
<1>1. CASE Insert \/ Remove \/ Look \/ Act \/ UNCHANGED vars
  BY <1>1 DEF Insert, Remove, Card, Look, Act, vars
<1>2. CASE User
  BY <1>2 DEF User, LeaveEnter, Roller, ClickBox, ClickAsk, ClickConfirm, Page
<1>3. CASE (\E k \in Kinds : Fire(k)) \/ UiNoCard \/ UiRepairResults \/ UiFormatResults \/ UiEnd
  BY <1>3 DEF Fire, UiNoCard, UiRepairResults, UiFormatResults, UiEnd, Ui
<1>4. CASE RepStart \/ RepDisable \/ RepNoCard \/ RepResults \/ RepEnd \/ RepEnable \/ RepDone
  BY <1>4 DEF RepStart, RepDisable, RepNoCard, RepResults, RepEnd, RepEnable, RepDone, Rep
<1> QED
  BY <1>1, <1>2, <1>3, <1>4 DEF Apart

LEMMA StepCases ==
  ASSUME [Next]_vars
  PROVE  Apart \/ Scripts \/ UiBegin \/ RepBegin
  BY DEF Next, Apart, Callback, Thread

\* The steps of the scripts, one by one.
LEMMA ScriptCases ==
  ASSUME NEW k \in Kinds, Recorders,
         ScriptQuit(k) \/ ScriptUmount(k) \/ ScriptCheck(k) \/ ScriptMount(k) \/ ScriptStart(k)
  PROVE  Recorders'
<1> USE DEF Scripted, Recorders
<1>1. CASE ScriptQuit(k)
  <2>1. /\ Scripted' /\ Total' = Total /\ Past' = Past + 1
        /\ Total \in Nat /\ Past \in Nat /\ Total >= Past + 1
    BY <1>1, AtCounts DEF ScriptQuit, Steps
  <2>2. UNCHANGED alone
    BY <1>1 DEF ScriptQuit, Script
  <2> QED
    BY <1>1, <2>1, <2>2, StorageAssumption DEF ScriptQuit
<1>2. CASE ScriptUmount(k) \/ ScriptCheck(k) \/ ScriptMount(k)
  <2>1. At(k, "umount", "check") \/ At(k, "check", "mount") \/ At(k, "mount", "start")
    BY <1>2 DEF ScriptUmount, ScriptCheck, ScriptMount
  <2>2. Scripted' /\ Total' = Total /\ Past' = Past + 0
    BY <2>1, AtCounts DEF Steps
  <2>3. UNCHANGED <<recorders, alone>>
    BY <1>2 DEF ScriptUmount, ScriptCheck, ScriptMount, Script
  <2>4. Past' = Past
    BY <2>2, <2>1, AtCounts DEF Steps
  <2> QED
    BY <2>2, <2>3, <2>4
<1>3. CASE ScriptStart(k)
  <2>1. /\ Scripted' /\ Total' = Total - 1 /\ Past' = Past - 1
        /\ Past \in Nat /\ Past >= 1 /\ Total \in Nat /\ Total >= Past
    BY <1>3, StartCounts DEF ScriptStart
  <2>2. UNCHANGED alone /\ recorders' = recorders + 1
    BY <1>3 DEF ScriptStart, Script
  <2> QED
    BY <2>1, <2>2, StorageAssumption
<1> QED
  BY <1>1, <1>2, <1>3

LEMMA RecordersStep ==
  ASSUME Recorders, Knows, [Next]_vars
  PROVE  Recorders'
<1>1. CASE Apart
  <2>1. UNCHANGED <<script, recorders>> /\ (UNCHANGED alone \/ alone' = (alone /\ ~Pending))
    BY <1>1, ApartStep
  <2>2. Total' = Total /\ Past' = Past
    BY <2>1 DEF Total, Past, PastOf
  <2>3. CASE UNCHANGED alone
    BY <2>1, <2>2, <2>3 DEF Recorders
  <2>4. CASE alone' = (alone /\ ~Pending)
    BY <2>1, <2>2, <2>4 DEF Recorders
  <2> QED
    BY <2>1, <2>3, <2>4
<1>2. CASE Scripts
  BY <1>2, ScriptCases DEF Scripts
<1>3. ASSUME NEW k \in Kinds, Starts(k), UNCHANGED recorders
      PROVE  Recorders'
  <2>1. /\ Scripted' /\ Total \in Nat /\ Total' = Total + 1 /\ Total' <= MaxScripts /\ Past' = Past
        /\ NoScript => Total' = 1
    BY <1>3, StartsCounts, StorageAssumption DEF Recorders, Scripted
  <2>2. alone' = (alone /\ k = "fsck" /\ NoScript)
    BY <1>3 DEF Starts
  <2>3. alone' => Total' <= 1 /\ recorders' + Past' = 1
    <3>1. alone /\ NoScript => Total' <= 1 /\ recorders' + Past' = 1
      BY <1>3, <2>1 DEF Recorders
    <3> QED
      BY <2>2, <3>1, Zenon
  <2>4. recorders' \in Nat /\ recorders' + Past' \in 1 .. MaxScripts
    BY <1>3, <2>1 DEF Recorders
  <2> QED
    BY <2>1, <2>3, <2>4 DEF Recorders, Scripted
<1>4. CASE UiBegin
  <2>1. uiKind \in Kinds /\ Starts(uiKind)
    BY <1>4 DEF UiBegin, Knows
  <2> QED
    BY <1>3, <1>4, <2>1 DEF UiBegin, Ui
<1>5. CASE RepBegin
  BY <1>3, <1>5 DEF RepBegin, Rep, Kinds
<1> QED
  BY <1>1, <1>2, <1>4, <1>5, StepCases

Flags ==
  /\ card \in BOOLEAN /\ mounted \in BOOLEAN /\ result \in [Kinds -> BOOLEAN]
  /\ box \in BOOLEAN /\ disabled \in BOOLEAN /\ autoActive \in BOOLEAN /\ ready \in BOOLEAN
  /\ active \in BOOLEAN /\ seen \in BOOLEAN /\ enable \in BOOLEAN /\ initScan \in BOOLEAN
  /\ fresh \in BOOLEAN /\ alone \in BOOLEAN

LEMMA FlagsStep ==
  ASSUME Flags, [Next]_vars
  PROVE  Flags'
<1> USE DEF Flags, sd, work, page, thread, watch
<1>1. CASE Insert
  BY <1>1, Zenon DEF Insert, Card
<1>2. CASE Remove
  BY <1>2, Zenon DEF Remove, Card
<1>3. CASE \E k \in Kinds : ScriptQuit(k)
  BY <1>3, Zenon DEF ScriptQuit, At, Script
<1>4. CASE \E k \in Kinds : ScriptUmount(k)
  BY <1>4, Zenon DEF ScriptUmount, At, Script
<1>5. CASE \E k \in Kinds : ScriptCheck(k)
  BY <1>5, Zenon DEF ScriptCheck, At, Script
<1>6. CASE \E k \in Kinds : ScriptMount(k)
  BY <1>6, Zenon DEF ScriptMount, At, Script
<1>7. CASE \E k \in Kinds : ScriptStart(k)
  BY <1>7, Zenon DEF ScriptStart, Script
<1>8. CASE LeaveEnter
  BY <1>8, Zenon DEF LeaveEnter, Page
<1>9. CASE Roller
  BY <1>9, Zenon DEF Roller, Page
<1>10. CASE ClickBox
  BY <1>10, Zenon DEF ClickBox, Page
<1>11. CASE \E k \in asks : ClickAsk(k)
  BY <1>11, Zenon DEF ClickAsk, Page
<1>12. CASE \E k \in asks : ClickConfirm(k)
  BY <1>12, Zenon DEF ClickConfirm, Page
<1>13. CASE \E k \in Kinds : Fire(k)
  BY <1>13, Zenon DEF Fire
<1>14. CASE UiNoCard
  BY <1>14, Zenon DEF UiNoCard, Reports, Ui
<1>15. CASE UiBegin
  BY <1>15, Zenon DEF UiBegin, Starts, Ui
<1>16. CASE UiRepairResults
  BY <1>16, Zenon DEF UiRepairResults, Ui
<1>17. CASE UiFormatResults
  BY <1>17, Zenon DEF UiFormatResults, Reports, Ui
<1>18. CASE UiEnd
  BY <1>18, Zenon DEF UiEnd, Reports, Ui
<1>19. CASE RepStart
  BY <1>19, Zenon DEF RepStart, Rep
<1>20. CASE RepDisable
  BY <1>20, Zenon DEF RepDisable, Rep
<1>21. CASE RepNoCard
  BY <1>21, Zenon DEF RepNoCard, Rep
<1>22. CASE RepBegin
  BY <1>22, Zenon DEF RepBegin, Starts, Rep
<1>23. CASE RepResults
  BY <1>23, Zenon DEF RepResults, Rep
<1>24. CASE RepEnd
  BY <1>24, Zenon DEF RepEnd, Rep
<1>25. CASE RepEnable
  BY <1>25, Zenon DEF RepEnable, Rep
<1>26. CASE RepDone
  BY <1>26, Zenon DEF RepDone, Rep
<1>27. CASE Look
  BY <1>27, Zenon DEF Look
<1>28. CASE Act
  BY <1>28, Zenon DEF Act
<1>29. CASE UNCHANGED vars
  BY <1>29, Zenon DEF vars
<1> QED
  BY <1>1, <1>2, <1>3, <1>4, <1>5, <1>6, <1>7, <1>8, <1>9, <1>10, <1>11, <1>12, <1>13, <1>14, <1>15,
     <1>16, <1>17, <1>18, <1>19, <1>20, <1>21, <1>22, <1>23, <1>24, <1>25, <1>26, <1>27, <1>28,
     <1>29
     DEF Next, Scripts, User, Callback, Thread

\* The other values, and what goes with them.
Values ==
  /\ asks \in Habits
  /\ ui \in {"idle", "begin", "results", "remount"} /\ uiKind \in Kinds \cup {"none"}
  /\ confirm \in [Kinds -> 0 .. 2] /\ timers \in [Kinds -> 0 .. MaxTimers]
  /\ rep \in {"off", "new", "disable", "begin", "results", "remount", "enable", "done"}
  /\ per \in {"look", "act"}

LEMMA ValuesStep ==
  ASSUME Values, Knows, [Next]_vars
  PROVE  Values' /\ Knows'
<1> USE StorageAssumption DEF Values, Knows, Kinds, sd, work, page, thread, watch, Unconfirmed
<1>1. CASE Insert
  BY <1>1 DEF Insert, Card
<1>2. CASE Remove
  BY <1>2 DEF Remove, Card
<1>3. CASE \E k \in Kinds : ScriptQuit(k)
  BY <1>3 DEF ScriptQuit, At, Script
<1>4. CASE \E k \in Kinds : ScriptUmount(k)
  BY <1>4 DEF ScriptUmount, At, Script
<1>5. CASE \E k \in Kinds : ScriptCheck(k)
  BY <1>5 DEF ScriptCheck, At, Script
<1>6. CASE \E k \in Kinds : ScriptMount(k)
  BY <1>6 DEF ScriptMount, At, Script
<1>7. CASE \E k \in Kinds : ScriptStart(k)
  BY <1>7 DEF ScriptStart, Script
<1>8. CASE LeaveEnter
  BY <1>8 DEF LeaveEnter, Page
<1>9. CASE Roller
  BY <1>9 DEF Roller, Page
<1>10. CASE ClickBox
  BY <1>10 DEF ClickBox, Page
<1>11. CASE \E k \in asks : ClickAsk(k)
  BY <1>11 DEF ClickAsk, Page
<1>12. CASE \E k \in asks : ClickConfirm(k)
  BY <1>12 DEF ClickConfirm, Page
<1>13. CASE \E k \in Kinds : Fire(k)
  BY <1>13 DEF Fire
<1>14. CASE UiNoCard
  BY <1>14 DEF UiNoCard, Reports, Ui
<1>15. CASE UiBegin
  BY <1>15 DEF UiBegin, Starts, Ui
<1>16. CASE UiRepairResults
  BY <1>16 DEF UiRepairResults, Ui
<1>17. CASE UiFormatResults
  BY <1>17 DEF UiFormatResults, Reports, Ui
<1>18. CASE UiEnd
  BY <1>18 DEF UiEnd, Reports, Ui
<1>19. CASE RepStart
  BY <1>19 DEF RepStart, Rep
<1>20. CASE RepDisable
  BY <1>20 DEF RepDisable, Rep
<1>21. CASE RepNoCard
  BY <1>21 DEF RepNoCard, Rep
<1>22. CASE RepBegin
  BY <1>22 DEF RepBegin, Starts, Rep
<1>23. CASE RepResults
  BY <1>23 DEF RepResults, Rep
<1>24. CASE RepEnd
  BY <1>24 DEF RepEnd, Rep
<1>25. CASE RepEnable
  BY <1>25 DEF RepEnable, Rep
<1>26. CASE RepDone
  BY <1>26 DEF RepDone, Rep
<1>27. CASE Look
  BY <1>27 DEF Look
<1>28. CASE Act
  BY <1>28 DEF Act
<1>29. CASE UNCHANGED vars
  BY <1>29 DEF vars
<1> QED
  BY <1>1, <1>2, <1>3, <1>4, <1>5, <1>6, <1>7, <1>8, <1>9, <1>10, <1>11, <1>12, <1>13, <1>14, <1>15,
     <1>16, <1>17, <1>18, <1>19, <1>20, <1>21, <1>22, <1>23, <1>24, <1>25, <1>26, <1>27, <1>28,
     <1>29
     DEF Next, Scripts, User, Callback, Thread

LEMMA ControlsStep ==
  ASSUME Controls, [Next]_vars
  PROVE  Controls'
<1> USE DEF Controls, sd, work, page, thread, watch
<1>1. CASE Insert
  BY <1>1 DEF Insert, Card
<1>2. CASE Remove
  BY <1>2 DEF Remove, Card
<1>3. CASE \E k \in Kinds : ScriptQuit(k)
  BY <1>3 DEF ScriptQuit, At, Script
<1>4. CASE \E k \in Kinds : ScriptUmount(k)
  BY <1>4 DEF ScriptUmount, At, Script
<1>5. CASE \E k \in Kinds : ScriptCheck(k)
  BY <1>5 DEF ScriptCheck, At, Script
<1>6. CASE \E k \in Kinds : ScriptMount(k)
  BY <1>6 DEF ScriptMount, At, Script
<1>7. CASE \E k \in Kinds : ScriptStart(k)
  BY <1>7 DEF ScriptStart, Script
<1>8. CASE LeaveEnter
  BY <1>8 DEF LeaveEnter, Page
<1>9. CASE Roller
  BY <1>9 DEF Roller, Page
<1>10. CASE ClickBox
  BY <1>10 DEF ClickBox, Page
<1>11. CASE \E k \in asks : ClickAsk(k)
  BY <1>11 DEF ClickAsk, Page
<1>12. CASE \E k \in asks : ClickConfirm(k)
  BY <1>12 DEF ClickConfirm, Page
<1>13. CASE \E k \in Kinds : Fire(k)
  BY <1>13 DEF Fire
<1>14. CASE UiNoCard
  BY <1>14 DEF UiNoCard, Reports, Ui
<1>15. CASE UiBegin
  BY <1>15 DEF UiBegin, Starts, Ui
<1>16. CASE UiRepairResults
  BY <1>16 DEF UiRepairResults, Ui
<1>17. CASE UiFormatResults
  BY <1>17 DEF UiFormatResults, Reports, Ui
<1>18. CASE UiEnd
  BY <1>18 DEF UiEnd, Reports, Ui
<1>19. CASE RepStart
  BY <1>19 DEF RepStart, Rep
<1>20. CASE RepDisable
  BY <1>20 DEF RepDisable, Rep
<1>21. CASE RepNoCard
  BY <1>21 DEF RepNoCard, Rep
<1>22. CASE RepBegin
  BY <1>22 DEF RepBegin, Starts, Rep
<1>23. CASE RepResults
  BY <1>23 DEF RepResults, Rep
<1>24. CASE RepEnd
  BY <1>24 DEF RepEnd, Rep
<1>25. CASE RepEnable
  BY <1>25 DEF RepEnable, Rep
<1>26. CASE RepDone
  BY <1>26 DEF RepDone, Rep
<1>27. CASE Look
  BY <1>27 DEF Look
<1>28. CASE Act
  BY <1>28 DEF Act
<1>29. CASE UNCHANGED vars
  BY <1>29 DEF vars
<1> QED
  BY <1>1, <1>2, <1>3, <1>4, <1>5, <1>6, <1>7, <1>8, <1>9, <1>10, <1>11, <1>12, <1>13, <1>14, <1>15,
     <1>16, <1>17, <1>18, <1>19, <1>20, <1>21, <1>22, <1>23, <1>24, <1>25, <1>26, <1>27, <1>28,
     <1>29
     DEF Next, Scripts, User, Callback, Thread

\* Only a repair or a format that begins makes a script pending.
LEMMA PendingStep ==
  ASSUME Recorders, [Next]_vars, ~UiBegin, ~RepBegin
  PROVE  Pending' => Pending
<1>1. CASE Apart
  <2>1. script' = script
    BY <1>1, ApartStep
  <2> QED
    BY <2>1 DEF Pending
<1>2. ASSUME NEW k \in Kinds, ScriptStart(k)
      PROVE  Pending' => Pending
  BY <1>2, StartCounts DEF ScriptStart, Recorders, Scripted
<1>3. ASSUME NEW k \in Kinds, ScriptQuit(k) \/ ScriptUmount(k) \/ ScriptCheck(k) \/ ScriptMount(k)
      PROVE  Pending
  BY <1>3 DEF ScriptQuit, ScriptUmount, ScriptCheck, ScriptMount, At, Pending, Before
<1> QED
  BY <1>1, <1>2, <1>3, StepCases DEF Scripts

\* What happens to the two flags that detect_sdcard and the history need.
LEMMA AloneStep ==
  ASSUME Flags, [Next]_vars, ~UiBegin, ~RepBegin
  PROVE  \/ UNCHANGED <<alone, active>>
         \/ script' = script /\ alone' = (alone /\ ~Pending) /\ UNCHANGED mounted
<1> USE DEF sd, work, page, thread, watch
<1>1. CASE Insert
  BY <1>1 DEF Insert, Card
<1>2. CASE Remove
  BY <1>2 DEF Remove, Card
<1>3. CASE \E k \in Kinds : ScriptQuit(k)
  BY <1>3 DEF ScriptQuit, At, Script
<1>4. CASE \E k \in Kinds : ScriptUmount(k)
  BY <1>4 DEF ScriptUmount, At, Script
<1>5. CASE \E k \in Kinds : ScriptCheck(k)
  BY <1>5 DEF ScriptCheck, At, Script
<1>6. CASE \E k \in Kinds : ScriptMount(k)
  BY <1>6 DEF ScriptMount, At, Script
<1>7. CASE \E k \in Kinds : ScriptStart(k)
  BY <1>7 DEF ScriptStart, Script
<1>8. CASE LeaveEnter
  BY <1>8 DEF LeaveEnter, Page
<1>9. CASE Roller
  BY <1>9 DEF Roller, Page
<1>10. CASE ClickBox
  BY <1>10 DEF ClickBox, Page
<1>11. CASE \E k \in asks : ClickAsk(k)
  BY <1>11 DEF ClickAsk, Page
<1>12. CASE \E k \in asks : ClickConfirm(k)
  BY <1>12 DEF ClickConfirm, Page
<1>13. CASE \E k \in Kinds : Fire(k)
  BY <1>13 DEF Fire
<1>14. CASE UiNoCard
  BY <1>14 DEF UiNoCard, Reports, Ui
<1>15. CASE UiBegin
  BY <1>15 DEF UiBegin, Starts, Ui
<1>16. CASE UiRepairResults
  BY <1>16 DEF UiRepairResults, Ui
<1>17. CASE UiFormatResults
  BY <1>17 DEF UiFormatResults, Reports, Ui
<1>18. CASE UiEnd
  BY <1>18 DEF UiEnd, Reports, Ui
<1>19. CASE RepStart
  BY <1>19 DEF RepStart, Rep
<1>20. CASE RepDisable
  BY <1>20 DEF RepDisable, Rep
<1>21. CASE RepNoCard
  BY <1>21 DEF RepNoCard, Rep
<1>22. CASE RepBegin
  BY <1>22 DEF RepBegin, Starts, Rep
<1>23. CASE RepResults
  BY <1>23 DEF RepResults, Rep
<1>24. CASE RepEnd
  BY <1>24 DEF RepEnd, Rep
<1>25. CASE RepEnable
  BY <1>25 DEF RepEnable, Rep
<1>26. CASE RepDone
  BY <1>26 DEF RepDone, Rep
<1>27. CASE Look
  BY <1>27 DEF Look
<1>28. CASE Act
  BY <1>28 DEF Act
<1>29. CASE UNCHANGED vars
  BY <1>29 DEF vars
<1> QED
  BY <1>1, <1>2, <1>3, <1>4, <1>5, <1>6, <1>7, <1>8, <1>9, <1>10, <1>11, <1>12, <1>13, <1>14, <1>15,
     <1>16, <1>17, <1>18, <1>19, <1>20, <1>21, <1>22, <1>23, <1>24, <1>25, <1>26, <1>27, <1>28,
     <1>29
     DEF Next, Scripts, User, Callback, Thread

LEMMA ToldStep ==
  ASSUME Told, Flags, Recorders, [Next]_vars
  PROVE  Told'
<1>1. CASE UiBegin
  <2>1. uiKind = "fsck" => active' = TRUE
    BY <1>1 DEF UiBegin
  <2>2. uiKind # "fsck" => alone' = FALSE
    BY <1>1 DEF UiBegin, Starts
  <2> QED
    BY <2>1, <2>2 DEF Told
<1>2. CASE RepBegin
  BY <1>2 DEF RepBegin, Told
<1>3. CASE ~UiBegin /\ ~RepBegin
  <2>1. Pending' => Pending
    BY <1>3, PendingStep
  <2>2. CASE UNCHANGED <<alone, active>>
    BY <2>1, <2>2 DEF Told
  <2>3. CASE script' = script /\ alone' = (alone /\ ~Pending) /\ UNCHANGED mounted
    <3>1. Pending' = Pending
      BY <2>3 DEF Pending
    <3> QED
      BY <2>3, <3>1 DEF Told
  <2> QED
    BY <1>3, <2>2, <2>3, AloneStep
<1> QED
  BY <1>1, <1>2, <1>3

\* Nothing but these steps changes what detect_sdcard knows.
LEMMA WatchStep ==
  ASSUME [Next]_vars, ~Look, ~Act, ~Insert
  PROVE  UNCHANGED <<per, seen, initScan, fresh>>
<1> USE DEF sd, work, page, thread, watch
<1>1. CASE Insert
  BY <1>1 DEF Insert, Card
<1>2. CASE Remove
  BY <1>2 DEF Remove, Card
<1>3. CASE \E k \in Kinds : ScriptQuit(k)
  BY <1>3 DEF ScriptQuit, At, Script
<1>4. CASE \E k \in Kinds : ScriptUmount(k)
  BY <1>4 DEF ScriptUmount, At, Script
<1>5. CASE \E k \in Kinds : ScriptCheck(k)
  BY <1>5 DEF ScriptCheck, At, Script
<1>6. CASE \E k \in Kinds : ScriptMount(k)
  BY <1>6 DEF ScriptMount, At, Script
<1>7. CASE \E k \in Kinds : ScriptStart(k)
  BY <1>7 DEF ScriptStart, Script
<1>8. CASE LeaveEnter
  BY <1>8 DEF LeaveEnter, Page
<1>9. CASE Roller
  BY <1>9 DEF Roller, Page
<1>10. CASE ClickBox
  BY <1>10 DEF ClickBox, Page
<1>11. CASE \E k \in asks : ClickAsk(k)
  BY <1>11 DEF ClickAsk, Page
<1>12. CASE \E k \in asks : ClickConfirm(k)
  BY <1>12 DEF ClickConfirm, Page
<1>13. CASE \E k \in Kinds : Fire(k)
  BY <1>13 DEF Fire
<1>14. CASE UiNoCard
  BY <1>14 DEF UiNoCard, Reports, Ui
<1>15. CASE UiBegin
  BY <1>15 DEF UiBegin, Starts, Ui
<1>16. CASE UiRepairResults
  BY <1>16 DEF UiRepairResults, Ui
<1>17. CASE UiFormatResults
  BY <1>17 DEF UiFormatResults, Reports, Ui
<1>18. CASE UiEnd
  BY <1>18 DEF UiEnd, Reports, Ui
<1>19. CASE RepStart
  BY <1>19 DEF RepStart, Rep
<1>20. CASE RepDisable
  BY <1>20 DEF RepDisable, Rep
<1>21. CASE RepNoCard
  BY <1>21 DEF RepNoCard, Rep
<1>22. CASE RepBegin
  BY <1>22 DEF RepBegin, Starts, Rep
<1>23. CASE RepResults
  BY <1>23 DEF RepResults, Rep
<1>24. CASE RepEnd
  BY <1>24 DEF RepEnd, Rep
<1>25. CASE RepEnable
  BY <1>25 DEF RepEnable, Rep
<1>26. CASE RepDone
  BY <1>26 DEF RepDone, Rep
<1>27. CASE Look
  BY <1>27 DEF Look
<1>28. CASE Act
  BY <1>28 DEF Act
<1>29. CASE UNCHANGED vars
  BY <1>29 DEF vars
<1> QED
  BY <1>1, <1>2, <1>3, <1>4, <1>5, <1>6, <1>7, <1>8, <1>9, <1>10, <1>11, <1>12, <1>13, <1>14, <1>15,
     <1>16, <1>17, <1>18, <1>19, <1>20, <1>21, <1>22, <1>23, <1>24, <1>25, <1>26, <1>27, <1>28,
     <1>29
     DEF Next, Scripts, User, Callback, Thread

\* The card is mounted by a script, or when it is inserted.
LEMMA MountedStep ==
  ASSUME Flags, [Next]_vars, ~Insert, mounted' # mounted
  PROVE  Pending \/ mounted' = FALSE
<1> USE DEF sd, work, page, thread, watch
<1>1. CASE Insert
  BY <1>1 DEF Insert, Card
<1>2. CASE Remove
  BY <1>2 DEF Remove, Card
<1>3. CASE \E k \in Kinds : ScriptQuit(k)
  BY <1>3 DEF ScriptQuit, At, Script
<1>4. CASE \E k \in Kinds : ScriptUmount(k)
  BY <1>4 DEF Pending, Before, ScriptUmount, At, Script
<1>5. CASE \E k \in Kinds : ScriptCheck(k)
  BY <1>5 DEF ScriptCheck, At, Script
<1>6. CASE \E k \in Kinds : ScriptMount(k)
  BY <1>6 DEF Pending, Before, ScriptMount, At, Script
<1>7. CASE \E k \in Kinds : ScriptStart(k)
  BY <1>7 DEF ScriptStart, Script
<1>8. CASE LeaveEnter
  BY <1>8 DEF LeaveEnter, Page
<1>9. CASE Roller
  BY <1>9 DEF Roller, Page
<1>10. CASE ClickBox
  BY <1>10 DEF ClickBox, Page
<1>11. CASE \E k \in asks : ClickAsk(k)
  BY <1>11 DEF ClickAsk, Page
<1>12. CASE \E k \in asks : ClickConfirm(k)
  BY <1>12 DEF ClickConfirm, Page
<1>13. CASE \E k \in Kinds : Fire(k)
  BY <1>13 DEF Fire
<1>14. CASE UiNoCard
  BY <1>14 DEF UiNoCard, Reports, Ui
<1>15. CASE UiBegin
  BY <1>15 DEF UiBegin, Starts, Ui
<1>16. CASE UiRepairResults
  BY <1>16 DEF UiRepairResults, Ui
<1>17. CASE UiFormatResults
  BY <1>17 DEF UiFormatResults, Reports, Ui
<1>18. CASE UiEnd
  BY <1>18 DEF UiEnd, Reports, Ui
<1>19. CASE RepStart
  BY <1>19 DEF RepStart, Rep
<1>20. CASE RepDisable
  BY <1>20 DEF RepDisable, Rep
<1>21. CASE RepNoCard
  BY <1>21 DEF RepNoCard, Rep
<1>22. CASE RepBegin
  BY <1>22 DEF RepBegin, Starts, Rep
<1>23. CASE RepResults
  BY <1>23 DEF RepResults, Rep
<1>24. CASE RepEnd
  BY <1>24 DEF RepEnd, Rep
<1>25. CASE RepEnable
  BY <1>25 DEF RepEnable, Rep
<1>26. CASE RepDone
  BY <1>26 DEF RepDone, Rep
<1>27. CASE Look
  BY <1>27 DEF Look
<1>28. CASE Act
  BY <1>28 DEF Act
<1>29. CASE UNCHANGED vars
  BY <1>29 DEF vars
<1> QED
  BY <1>1, <1>2, <1>3, <1>4, <1>5, <1>6, <1>7, <1>8, <1>9, <1>10, <1>11, <1>12, <1>13, <1>14, <1>15,
     <1>16, <1>17, <1>18, <1>19, <1>20, <1>21, <1>22, <1>23, <1>24, <1>25, <1>26, <1>27, <1>28,
     <1>29
     DEF Next, Scripts, User, Callback, Thread

LEMMA MissedStep ==
  ASSUME Missed, Told, Flags, Values, Recorders, [Next]_vars
  PROVE  Missed'
<1> DEFINE Blind == alone /\ ~fresh /\ (initScan \/ (per = "act" /\ ~seen))
<1>1. SUFFICES ASSUME Blind'
               PROVE  (~mounted /\ ~Pending /\ (per = "act" => ~seen))'
  BY DEF Missed
<1>2. CASE UiBegin
  <2>1. uiKind = "fsck"
    BY <1>1, <1>2 DEF UiBegin, Starts
  <2>2. mounted /\ alone
    BY <1>1, <1>2, <2>1 DEF UiBegin, Starts
  <2>3. UNCHANGED <<per, seen, initScan, fresh>>
    BY <1>2 DEF UiBegin, Ui, watch
  <2>4. Blind
    BY <1>1, <2>2, <2>3
  <2> QED
    BY <2>2, <2>4 DEF Missed
<1>3. CASE RepBegin
  <2>1. mounted /\ alone
    BY <1>1, <1>3 DEF RepBegin, Starts
  <2>2. UNCHANGED <<per, seen, initScan, fresh>>
    BY <1>3 DEF RepBegin, Rep, watch
  <2>3. Blind
    BY <1>1, <2>1, <2>2
  <2> QED
    BY <2>1, <2>3 DEF Missed
<1>4. CASE ~UiBegin /\ ~RepBegin
  <2>1. (Pending' => Pending) /\ alone
    <3>1. Pending' => Pending
      BY <1>4, PendingStep
    <3>2. \/ UNCHANGED <<alone, active>>
          \/ script' = script /\ alone' = (alone /\ ~Pending) /\ UNCHANGED mounted
      BY <1>4, AloneStep
    <3>3. alone
      BY <1>1, <3>2 DEF Flags
    <3> QED
      BY <3>1, <3>3
  <2>2. CASE Insert
    BY <1>1, <2>2 DEF Insert
  <2>3. CASE Look
    <3>1. /\ UNCHANGED <<mounted, initScan, fresh>>
          /\ seen' = mounted /\ ~active /\ per = "look" /\ per' = "act"
      BY <2>3 DEF Look, sd, watch
    <3>2. CASE initScan
      <4>1. Blind
        BY <1>1, <2>1, <3>1, <3>2
      <4> QED
        BY <2>1, <3>1, <4>1 DEF Missed
    <3>3. CASE ~initScan
      <4>1. ~mounted
        BY <1>1, <3>1, <3>3
      <4>2. ~Pending
        BY <2>1, <3>1 DEF Told
      <4> QED
        BY <2>1, <3>1, <4>1, <4>2
    <3> QED
      BY <3>2, <3>3
  <2>4. CASE Act
    <3>1. per = "act" /\ per' = "look" /\ UNCHANGED mounted
      BY <2>4 DEF Act, sd
    <3>2. initScan'
      BY <1>1, <3>1
    <3>3. ~seen
      BY <2>4, <3>2 DEF Act
    <3>4. UNCHANGED fresh
      BY <2>4, <3>3 DEF Act
    <3>5. Blind
      BY <1>1, <2>1, <3>1, <3>3, <3>4
    <3> QED
      BY <2>1, <3>1, <3>5 DEF Missed
  <2>5. CASE ~Insert /\ ~Look /\ ~Act
    <3>1. UNCHANGED <<per, seen, initScan, fresh>>
      BY <2>5, WatchStep
    <3>2. Blind
      BY <1>1, <2>1, <3>1
    <3>3. ~mounted /\ ~Pending
      BY <3>2 DEF Missed
    <3>4. ~mounted'
      BY <2>5, <3>3, MountedStep DEF Flags
    <3> QED
      BY <2>1, <3>1, <3>2, <3>3, <3>4 DEF Missed
  <2> QED
    BY <2>2, <2>3, <2>4, <2>5
<1> QED
  BY <1>2, <1>3, <1>4
-----------------------------------------------------------------------------
(* The theorems                                                            *)

LEMMA Inductive ==
  ASSUME IInv, [Next]_vars
  PROVE  IInv'
<1>1. Flags /\ Values /\ Recorders /\ Controls /\ Told /\ Missed /\ Knows
  BY DEF IInv, TypeOK, Flags, Values
<1>2. Flags' /\ Values' /\ Recorders' /\ Controls' /\ Told' /\ Missed' /\ Knows'
  BY <1>1, FlagsStep, ValuesStep, RecordersStep, ControlsStep, ToldStep, MissedStep
<1>3. Past' \in Nat
  BY <1>2 DEF Recorders, Past, PastOf, Kinds, Steps
<1>4. recorders' \in 0 .. MaxScripts
  <2>1. recorders' \in Nat /\ recorders' + Past' \in 1 .. MaxScripts
    BY <1>2 DEF Recorders
  <2>2. MaxScripts \in Nat
    BY StorageAssumption
  <2>3. ASSUME NEW r \in Nat, NEW q \in Nat, r + q \in 1 .. MaxScripts
        PROVE  r \in 0 .. MaxScripts
    BY <2>2, <2>3
  <2> QED
    BY <1>3, <2>1, <2>3
<1>5. TypeOK'
  BY <1>2, <1>4 DEF TypeOK, Flags, Values, Recorders
<1> QED
  BY <1>2, <1>5 DEF IInv

\* However many scripts run, the variables keep their types, and never more
\* record processes or scripts run than the bound says.
THEOREM TypeCorrect == Spec => []TypeOK
<1>1. Init => IInv
  BY Initial
<1>2. IInv /\ [Next]_vars => IInv'
  BY Inductive
<1>3. IInv => TypeOK
  BY DEF IInv
<1> QED
  BY <1>1, <1>2, <1>3, PTL DEF Spec

\* After any number of scripts, overlapping in any way, a record process
\* runs; exactly one, if they did not overlap.
THEOREM RecordsInTheEnd == Spec => []RecordsAgain
<1>1. Init => IInv
  BY Initial
<1>2. IInv /\ [Next]_vars => IInv'
  BY Inductive
<1>3. IInv => RecordsAgain
  <2>1. NoScript => Past = 0
    BY DEF NoScript, Past, PastOf, Kinds, Steps
  <2> QED
    BY <2>1 DEF IInv, Recorders, RecordsAgain
<1> QED
  BY <1>1, <1>2, <1>3, PTL DEF Spec

\* No repair is confirmed, and no format, while the thread repairs the card.
THEOREM NoConfirmation == Spec => ControlsOff
<1>1. Init => IInv
  BY Initial
<1>2. IInv /\ [Next]_vars => IInv'
  BY Inductive
<1>3. IInv /\ [Next]_vars => [\A k \in Kinds : rep \in {"begin", "results", "remount"}
                                                  => timers'[k] <= timers[k]]_vars
  <2> SUFFICES ASSUME IInv, [Next]_vars, NEW k \in Kinds, rep \in {"begin", "results", "remount"}
               PROVE  timers'[k] <= timers[k]
    OBVIOUS
  <2>1. disabled /\ timers \in [Kinds -> 0 .. MaxTimers]
    BY DEF IInv, Controls, TypeOK
  <2>2. ASSUME NEW j \in asks
        PROVE  ~ClickConfirm(j)
    BY <2>1 DEF ClickConfirm
  <2>3. \/ UNCHANGED timers
        \/ \E j \in Kinds : timers' = [timers EXCEPT ![j] = @ - 1]
    BY <2>2 DEF Next, Insert, Remove, Card, Scripts, ScriptQuit, ScriptUmount, ScriptCheck, ScriptMount,
       ScriptStart, Script, User, LeaveEnter, Roller, ClickBox, ClickAsk, Page, Callback, Fire,
       UiNoCard, UiBegin, UiRepairResults, UiFormatResults, UiEnd, Ui, Thread, RepStart, RepDisable,
       RepNoCard, RepBegin, RepResults, RepEnd, RepEnable, RepDone, Rep, Look, Act, page, vars
  <2>4. timers[k] \in Nat
    BY <2>1, StorageAssumption
  <2> QED
    BY <2>1, <2>3, <2>4
<1> QED
  BY <1>1, <1>2, <1>3, PTL DEF Spec, ControlsOff

\* A card that is not inserted is not repaired again, unless scripts have
\* overlapped, or a format or a repair was not waited for.
THEOREM OnceInserted == Spec => OnlyOnInsert
<1>1. Init => IInv
  BY Initial
<1>2. IInv /\ [Next]_vars => IInv'
  BY Inductive
<1>3. IInv /\ [Next]_vars => [rep = "off" /\ rep' = "new" => fresh \/ ~alone]_vars
  <2> SUFFICES ASSUME IInv, [Next]_vars, rep = "off", rep' = "new", ~fresh, alone
               PROVE  FALSE
    OBVIOUS
  <2>1. Act
    BY DEF Next, Insert, Remove, Card, Scripts, ScriptQuit, ScriptUmount, ScriptCheck, ScriptMount,
       ScriptStart, Script, User, LeaveEnter, Roller, ClickBox, ClickAsk, ClickConfirm, Page,
       Callback, Fire, UiNoCard, UiBegin, UiRepairResults, UiFormatResults, UiEnd, Ui, Thread, RepStart,
       RepDisable, RepNoCard, RepBegin, RepResults, RepEnd, RepEnable, RepDone, Rep, Look, thread, vars
  <2>2. initScan /\ seen /\ per = "act"
    BY <2>1 DEF Act
  <2> QED
    BY <2>2 DEF IInv, Missed
<1> QED
  BY <1>1, <1>2, <1>3, PTL DEF Spec, OnlyOnInsert
-----------------------------------------------------------------------------
(***************************************************************************)
(* The waits of page_storage.c and the flags it has to clear: what is to   *)
(* happen for ControlsBack and CardNoticed to hold is always still to      *)
(* come, however the callback, the thread and the scripts overlap.         *)
(***************************************************************************)

WaitsForResult(k) == (ui = "results" /\ uiKind = k) \/ (rep = "results" /\ k = "fsck")
Writes(k) == \E s \in {"quit", "umount", "check"} : script[k][s] > 0

\* A result that is waited for is there, or a script has still to write it,
\* although every script removes the result of the one before.
ResultComes == \A k \in Kinds : WaitsForResult(k) => result[k] \/ Writes(k)

\* is_sd_repair_active hides the card only as long as somebody repairs it who
\* will clear the flag.
ClearedInTheEnd ==
  active => (ui \in {"results", "remount"} /\ uiKind = "fsck") \/ rep \in {"results", "remount"}

\* The thread takes the controls away only when they are there, and ends only
\* when it has given them back.
GivenBack ==
  /\ autoActive => rep \in {"disable", "begin", "results", "remount", "enable", "done"}
  /\ rep \in {"disable", "done"} => ~disabled

\* A script that goes on writes what it had to write, or has still to.
LEMMA ScriptWrites ==
  ASSUME Scripted, NEW k \in Kinds, NEW j \in Kinds, result \in [Kinds -> BOOLEAN],
         ScriptQuit(k) \/ ScriptUmount(k) \/ ScriptCheck(k) \/ ScriptMount(k) \/ ScriptStart(k),
         result[j] \/ Writes(j)
  PROVE  result'[j] \/ Writes(j)'
<1>1. \A i \in Kinds, s \in Steps : script[i][s] \in Nat
  BY DEF Scripted
<1>2. ASSUME NEW here \in Steps, NEW next \in Steps, At(k, here, next), here # next
      PROVE  /\ \A s \in Steps : j # k \/ s \notin {here, next} => script'[j][s] = script[j][s]
             /\ script'[k][next] > 0
  BY <1>1, <1>2 DEF At, Scripted
<1>3. {"quit", "umount", "check", "mount", "start"} \subseteq Steps
  BY DEF Steps
<1>4. CASE ScriptQuit(k)
  BY <1>2, <1>3, <1>4 DEF ScriptQuit, Writes
<1>5. CASE ScriptUmount(k)
  BY <1>2, <1>3, <1>5 DEF ScriptUmount, Writes
<1>6. CASE ScriptCheck(k)
  BY <1>2, <1>3, <1>6 DEF ScriptCheck, Writes
<1>7. CASE ScriptMount(k)
  BY <1>2, <1>3, <1>7 DEF ScriptMount, Writes
<1>8. CASE ScriptStart(k)
  BY <1>1, <1>3, <1>8 DEF ScriptStart, Scripted, Writes
<1> QED
  BY <1>4, <1>5, <1>6, <1>7, <1>8

\* No result is written or removed but by a script and who starts it.
LEMMA ApartResult ==
  ASSUME Apart
  PROVE  UNCHANGED result
<1> USE DEF sd, work, page, thread, watch
<1>1. CASE Insert \/ Remove \/ Look \/ Act \/ UNCHANGED vars
  BY <1>1 DEF Insert, Remove, Card, Look, Act, vars
<1>2. CASE User
  BY <1>2 DEF User, LeaveEnter, Roller, ClickBox, ClickAsk, ClickConfirm, Page
<1>3. CASE (\E k \in Kinds : Fire(k)) \/ UiNoCard \/ UiRepairResults \/ UiFormatResults \/ UiEnd
  BY <1>3 DEF Fire, UiNoCard, UiRepairResults, UiFormatResults, UiEnd
<1>4. CASE RepStart \/ RepDisable \/ RepNoCard \/ RepResults \/ RepEnd \/ RepEnable \/ RepDone
  BY <1>4 DEF RepStart, RepDisable, RepNoCard, RepResults, RepEnd, RepEnable, RepDone
<1> QED
  BY <1>1, <1>2, <1>3, <1>4 DEF Apart

\* Nobody begins to wait but by starting a script.
LEMMA WaitStep ==
  ASSUME [Next]_vars, ~UiBegin, ~RepBegin, NEW k \in Kinds
  PROVE  WaitsForResult(k)' => WaitsForResult(k)
<1> USE DEF WaitsForResult, sd, work, page, thread, watch
<1>1. CASE Insert \/ Remove \/ Look \/ Act \/ UNCHANGED vars
  BY <1>1 DEF Insert, Remove, Card, Look, Act, vars
<1>2. CASE Scripts
  BY <1>2 DEF Scripts, ScriptQuit, ScriptUmount, ScriptCheck, ScriptMount, ScriptStart, Script
<1>3. CASE User
  BY <1>3 DEF User, LeaveEnter, Roller, ClickBox, ClickAsk, ClickConfirm, Page
<1>4. CASE Callback
  BY <1>4 DEF Callback, Fire, UiNoCard, UiRepairResults, UiFormatResults, UiEnd, Reports, Ui
<1>5. CASE Thread
  BY <1>5 DEF Thread, RepStart, RepDisable, RepNoCard, RepResults, RepEnd, RepEnable, RepDone, Rep
<1> QED
  BY <1>1, <1>2, <1>3, <1>4, <1>5 DEF Next

LEMMA ResultStep ==
  ASSUME ResultComes, IInv, [Next]_vars
  PROVE  ResultComes'
<1>0. Scripted /\ result \in [Kinds -> BOOLEAN] /\ Knows
  BY DEF IInv, TypeOK, Scripted
<1>1. CASE Apart /\ ~UiBegin /\ ~RepBegin
  <2>1. UNCHANGED <<script, result>>
    BY <1>1, ApartStep, ApartResult
  <2> QED
    BY <1>1, <2>1, WaitStep DEF ResultComes, Writes
<1>2. CASE Scripts /\ ~UiBegin /\ ~RepBegin
  BY <1>0, <1>2, ScriptWrites, WaitStep DEF ResultComes, Scripts
<1>3. ASSUME NEW k \in Kinds, Starts(k),
             \A j \in Kinds \ {k} : WaitsForResult(j)' => WaitsForResult(j)
      PROVE  ResultComes'
  <2>1. script'[k]["quit"] > 0
    BY <1>0, <1>3 DEF Starts, Scripted, Steps
  <2>2. \A j \in Kinds \ {k} : script'[j] = script[j] /\ result'[j] = result[j]
    BY <1>0, <1>3 DEF Starts, Scripted
  <2> QED
    BY <1>3, <2>1, <2>2 DEF ResultComes, Writes
<1>4. CASE UiBegin
  BY <1>0, <1>3, <1>4 DEF UiBegin, Ui, Knows, thread, WaitsForResult
<1>5. CASE RepBegin
  BY <1>3, <1>5 DEF RepBegin, Rep, Kinds, WaitsForResult
<1> QED
  BY <1>1, <1>2, <1>4, <1>5, StepCases

LEMMA ClearedStep ==
  ASSUME ClearedInTheEnd, GivenBack, IInv, [Next]_vars
  PROVE  ClearedInTheEnd' /\ GivenBack'
<1> USE DEF ClearedInTheEnd, GivenBack, sd, work, page, thread, watch
<1>0. (ui # "idle" => uiKind \in Kinds) /\ {active, autoActive, disabled} \subseteq BOOLEAN
  BY DEF IInv, Knows, TypeOK
<1>1. CASE Act
  BY <1>0, <1>1 DEF Act, Creates
<1>2. CASE Insert \/ Remove \/ Look \/ Scripts \/ UNCHANGED vars
  <2>1. UNCHANGED <<ui, uiKind, active, rep, autoActive, disabled>>
    <3>1. CASE Insert \/ Remove \/ Look
      BY <3>1 DEF Insert, Remove, Card, Look
    <3>2. CASE Scripts
      BY <3>2 DEF Scripts, ScriptQuit, ScriptUmount, ScriptCheck, ScriptMount, ScriptStart, Script
    <3>3. CASE UNCHANGED vars
      BY <3>3 DEF vars
    <3> QED
      BY <1>2, <3>1, <3>2, <3>3
  <2> QED
    BY <2>1
<1>3. CASE User
  BY <1>0, <1>3 DEF User, LeaveEnter, Roller, ClickBox, ClickAsk, ClickConfirm, Page
<1>4. CASE Callback
  BY <1>0, <1>4 DEF Callback, Fire, LvglFree, UiNoCard, UiBegin, UiRepairResults, UiFormatResults, UiEnd,
     Reports, Ui, Kinds
<1>5. CASE Thread
  BY <1>0, <1>5 DEF Thread, RepStart, RepDisable, RepNoCard, RepBegin, RepResults, RepEnd, RepEnable, RepDone, Rep
<1> QED
  BY <1>1, <1>2, <1>3, <1>4, <1>5 DEF Next

\* Neither the callback nor the thread waits for a result that nobody is going
\* to write (page_storage.c:160-170, 233-243).
THEOREM NoWaitInVain == Spec => []ResultComes
<1>1. Init => IInv /\ ResultComes
  <2>1. Init => ResultComes
    BY DEF Init, ResultComes, WaitsForResult
  <2> QED
    BY <2>1, Initial
<1>2. IInv /\ ResultComes /\ [Next]_vars => IInv' /\ ResultComes'
  BY Inductive, ResultStep
<1> QED
  BY <1>1, <1>2, PTL DEF Spec

\* The flag that hides the card from detect_sdcard, and the controls that the
\* thread has taken away, are each left with somebody who gives them back.
THEOREM NothingStaysTaken == Spec => []ClearedInTheEnd /\ []GivenBack
<1>1. Init => IInv /\ ClearedInTheEnd /\ GivenBack
  <2>1. Init => ClearedInTheEnd /\ GivenBack
    BY DEF Init, ClearedInTheEnd, GivenBack
  <2> QED
    BY <2>1, Initial
<1>2. IInv /\ ClearedInTheEnd /\ GivenBack /\ [Next]_vars => (IInv /\ ClearedInTheEnd /\ GivenBack)'
  BY Inductive, ClearedStep
<1> QED
  BY <1>1, <1>2, PTL DEF Spec
=============================================================================
