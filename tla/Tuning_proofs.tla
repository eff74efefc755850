---------------------------- MODULE Tuning_proofs ---------------------------
(***************************************************************************)
(* What is proved of the channel, for every number of channels and every   *)
(* length of the timer.                                                    *)
(***************************************************************************)
EXTENDS Tuning, TLAPS

Flags == inPage \in BOOLEAN /\ torn \in BOOLEAN /\ stray \in BOOLEAN

Values ==
  /\ app \in {"menu", "video", "page", "found"}
  /\ source \in Sources /\ band \in Bands
  /\ scan \in 1..AnalogNum /\ analog \in 1..AnalogNum
  /\ tuned \in Bands \X (1..AnalogNum)
  /\ tuneState \in 0..2 /\ tuneTimer \in Nat /\ tuneTimer < 65536
  /\ channel \in 0..AnalogNum /\ asks \in 0..AnalogNum
  /\ ui \in {"idle", "up", "down", "switch", "arrive", "done", "exit"}
  /\ goal \in Sources \cup {"none"}
  /\ per \in {"idle", "showing", "tuning", "expire", "clear", "count"}
  /\ left \in Nat /\ left < 65536
  /\ rx \in {"idle", "HDZERO", "ANALOG"}

\* Who is in the middle of something has what it needs for that.
Shape ==
  /\ tuneState = 2 \/ ui \in {"up", "down"} => channel # 0
  /\ ui = "arrive" => goal # "none"
  /\ per \in {"expire", "clear", "count"} => left # 0

\* Unless the timer came between, tune_timer runs while tune_state is 2; and
\* while tune_channel_timer works it knows what the timer is.
Runs ==
  ~torn => /\ per # "clear" /\ ~(per = "count" /\ left = 1) => (tuneTimer # 0 <=> tuneState = 2)
           /\ per = "showing" => tuneState # 2
           /\ per = "tuning" => tuneState = 2
           /\ per \in {"expire", "clear", "count"} => left = tuneTimer
           /\ per \in {"expire", "clear"} => left = 1
           /\ per \in {"clear", "count"} /\ left = 1 => tuneState = 1

\* ... and the OSD asks for the channel that is being tuned to.
Asked == ~torn /\ per # "clear" /\ asks # 0 => asks = channel /\ tuneState = 2

\* The receiver is set to the channel of the settings, or to that which the
\* source page has replaced.
Follows == tuned = <<band, scan>> \/ (tuned[1] = band /\ tuned[2] > Num(band) /\ scan = 1)

\* So it is where HDZero is shown, or is about to be.
Received ==
  rx = "idle" =>
    /\ app = "video" /\ source = "HDZERO" /\ ui \notin {"switch", "arrive"} /\ ~stray => Follows
    /\ ui = "arrive" /\ goal = "HDZERO" => Follows

IInv == TypeOK /\ Shape /\ Runs /\ Asked /\ Received
-----------------------------------------------------------------------------
LEMMA TypeParts == TypeOK <=> Flags /\ Values
  BY DEF TypeOK, Flags, Values

LEMMA FlagsStep ==
  ASSUME Flags, [Next]_vars
  PROVE  Flags'
<1> USE DEF Flags, page, choice, tuning, timer, handler
<1>1. CASE \E key \in {"up", "down"} : Dial(key)
  BY <1>1, Zenon DEF Dial, Idle, Tunable, Current
<1>2. CASE DialMove
  BY <1>2, Zenon DEF DialMove, Moved, Last, Num
<1>3. CASE Click
  BY <1>3, Zenon DEF Click, Confirm, Idle, Tunable
<1>4. CASE Toggle
  BY <1>4, Zenon DEF Toggle, Idle
<1>5. CASE Press
  BY <1>5, Zenon DEF Press, Begin, Confirm, Idle, Tunable
<1>6. CASE PressIgnored
  BY <1>6, Zenon DEF PressIgnored, Idle, Tunable
<1>7. CASE ConfirmDone
  BY <1>7, Zenon DEF ConfirmDone
<1>8. CASE ExitTune
  BY <1>8, Zenon DEF ExitTune
<1>9. CASE \E s \in Sources : Show(s)
  BY <1>9, Zenon DEF Show, Begin, Idle
<1>10. CASE Switch
  BY <1>10, Zenon DEF Switch
<1>11. CASE Arrive
  BY <1>11, Zenon DEF Arrive
<1>12. CASE Scan
  BY <1>12, Zenon DEF Scan, Num, Idle
<1>13. CASE \E c \in 1..RaceNum : PickFound(c)
  BY <1>13, Zenon DEF PickFound, Begin, Num, Idle
<1>14. CASE OpenPage
  BY <1>14, Zenon DEF OpenPage, Begin, Idle
<1>15. CASE LeavePage
  BY <1>15, Zenon DEF LeavePage, Begin, Idle
<1>16. CASE ToggleBand
  BY <1>16, Zenon DEF ToggleBand, Begin, Idle
<1>17. CASE Refresh
  BY <1>17, Zenon DEF Refresh, Begin, Num, Idle
<1>18. CASE Reopen
  BY <1>18, Zenon DEF Reopen, Idle
<1>19. CASE LookState
  BY <1>19, Zenon DEF LookState, Timer
<1>20. CASE Fade
  BY <1>20, Zenon DEF Fade, Timer
<1>21. CASE LookTimer
  BY <1>21, Zenon DEF LookTimer, Timer
<1>22. CASE Expire
  BY <1>22, Zenon DEF Expire, Timer
<1>23. CASE Clear
  BY <1>23, Zenon DEF Clear, Timer
<1>24. CASE Count
  BY <1>24 DEF Count, Timer
<1>25. CASE \E c \in 1..AnalogNum : RadioChannel(c)
  BY <1>25, Zenon DEF RadioChannel, Radio
<1>26. CASE \E c \in 1..AnalogNum : RadioFrequency(c)
  BY <1>26, Zenon DEF RadioFrequency, Radio
<1>27. CASE RadioShows
  BY <1>27, Zenon DEF RadioShows, Idle
<1>28. CASE UNCHANGED vars
  BY <1>28, Zenon DEF vars
<1> QED
  BY <1>1, <1>2, <1>3, <1>4, <1>5, <1>6, <1>7, <1>8, <1>9, <1>10, <1>11, <1>12, <1>13, <1>14, <1>15,
     <1>16, <1>17, <1>18, <1>19, <1>20, <1>21, <1>22, <1>23, <1>24, <1>25, <1>26, <1>27, <1>28
     DEF Next, Tune, Pages, Times, Radios

\* What it takes for ui and per not to come between each other, and for rx
\* not to show another source.
LEMMA Tears ==
  /\ (\E key \in {"up", "down"} : Dial(key)) => (~torn' => ~torn /\ per = "idle")
  /\ DialMove => (~torn' => ~torn /\ per = "idle" /\ tuneState = 2)
  /\ ConfirmDone \/ ExitTune => (~torn' => per = "idle")
  BY Zenon DEF Dial, DialMove, ConfirmDone, ExitTune

LEMMA Strays == RadioShows => (~stray' => source = rx)
  BY Zenon DEF RadioShows

LEMMA ValuesStep ==
  ASSUME Values, Shape, [Next]_vars
  PROVE  Values'
<1> USE TuningAssumption DEF Values, Shape, Sources, Bands, page, choice, tuning, timer, handler
<1>1. CASE \E key \in {"up", "down"} : Dial(key)
  BY <1>1 DEF Dial, Idle, Tunable, Current
<1>2. CASE DialMove
  BY <1>2 DEF DialMove, Moved, Last, Num
<1>3. CASE Click
  BY <1>3 DEF Click, Confirm, Idle, Tunable
<1>4. CASE Toggle
  BY <1>4 DEF Toggle, Idle
<1>5. CASE Press
  BY <1>5 DEF Press, Begin, Confirm, Idle, Tunable
<1>6. CASE PressIgnored
  BY <1>6 DEF PressIgnored, Idle, Tunable
<1>7. CASE ConfirmDone
  BY <1>7 DEF ConfirmDone
<1>8. CASE ExitTune
  BY <1>8 DEF ExitTune
<1>9. CASE \E s \in Sources : Show(s)
  BY <1>9 DEF Show, Begin, Idle
<1>10. CASE Switch
  BY <1>10 DEF Switch
<1>11. CASE Arrive
  BY <1>11 DEF Arrive
<1>12. CASE Scan
  BY <1>12 DEF Scan, Num, Idle
<1>13. CASE \E c \in 1..RaceNum : PickFound(c)
  BY <1>13 DEF PickFound, Begin, Num, Idle
<1>14. CASE OpenPage
  BY <1>14 DEF OpenPage, Begin, Idle
<1>15. CASE LeavePage
  BY <1>15 DEF LeavePage, Begin, Idle
<1>16. CASE ToggleBand
  BY <1>16 DEF ToggleBand, Begin, Idle
<1>17. CASE Refresh
  BY <1>17 DEF Refresh, Begin, Num, Idle
<1>18. CASE Reopen
  BY <1>18 DEF Reopen, Idle
<1>19. CASE LookState
  BY <1>19 DEF LookState, Timer
<1>20. CASE Fade
  BY <1>20 DEF Fade, Timer
<1>21. CASE LookTimer
  BY <1>21 DEF LookTimer, Timer
<1>22. CASE Expire
  BY <1>22 DEF Expire, Timer
<1>23. CASE Clear
  BY <1>23 DEF Clear, Timer
<1>24. CASE Count
  BY <1>24 DEF Count, Timer
<1>25. CASE \E c \in 1..AnalogNum : RadioChannel(c)
  BY <1>25 DEF RadioChannel, Radio
<1>26. CASE \E c \in 1..AnalogNum : RadioFrequency(c)
  BY <1>26 DEF RadioFrequency, Radio
<1>27. CASE RadioShows
  BY <1>27 DEF RadioShows, Idle
<1>28. CASE UNCHANGED vars
  BY <1>28 DEF vars
<1> QED
  BY <1>1, <1>2, <1>3, <1>4, <1>5, <1>6, <1>7, <1>8, <1>9, <1>10, <1>11, <1>12, <1>13, <1>14, <1>15,
     <1>16, <1>17, <1>18, <1>19, <1>20, <1>21, <1>22, <1>23, <1>24, <1>25, <1>26, <1>27, <1>28
     DEF Next, Tune, Pages, Times, Radios

LEMMA ShapeStep ==
  ASSUME Values, Shape, [Next]_vars
  PROVE  Shape'
<1> USE TuningAssumption DEF Values, Shape, Sources, Bands, page, choice, tuning, timer, handler
<1>1. CASE \E key \in {"up", "down"} : Dial(key)
  BY <1>1 DEF Dial, Idle, Tunable, Current
<1>2. CASE DialMove
  BY <1>2 DEF DialMove, Moved, Last, Num
<1>3. CASE Click
  BY <1>3 DEF Click, Confirm, Idle, Tunable
<1>4. CASE Toggle
  BY <1>4 DEF Toggle, Idle
<1>5. CASE Press
  BY <1>5 DEF Press, Begin, Confirm, Idle, Tunable
<1>6. CASE PressIgnored
  BY <1>6 DEF PressIgnored, Idle, Tunable
<1>7. CASE ConfirmDone
  BY <1>7 DEF ConfirmDone
<1>8. CASE ExitTune
  BY <1>8 DEF ExitTune
<1>9. CASE \E s \in Sources : Show(s)
  BY <1>9 DEF Show, Begin, Idle
<1>10. CASE Switch
  BY <1>10 DEF Switch
<1>11. CASE Arrive
  BY <1>11 DEF Arrive
<1>12. CASE Scan
  BY <1>12 DEF Scan, Num, Idle
<1>13. CASE \E c \in 1..RaceNum : PickFound(c)
  BY <1>13 DEF PickFound, Begin, Num, Idle
<1>14. CASE OpenPage
  BY <1>14 DEF OpenPage, Begin, Idle
<1>15. CASE LeavePage
  BY <1>15 DEF LeavePage, Begin, Idle
<1>16. CASE ToggleBand
  BY <1>16 DEF ToggleBand, Begin, Idle
<1>17. CASE Refresh
  BY <1>17 DEF Refresh, Begin, Num, Idle
<1>18. CASE Reopen
  BY <1>18 DEF Reopen, Idle
<1>19. CASE LookState
  BY <1>19 DEF LookState, Timer
<1>20. CASE Fade
  BY <1>20 DEF Fade, Timer
<1>21. CASE LookTimer
  BY <1>21 DEF LookTimer, Timer
<1>22. CASE Expire
  BY <1>22 DEF Expire, Timer
<1>23. CASE Clear
  BY <1>23 DEF Clear, Timer
<1>24. CASE Count
  BY <1>24 DEF Count, Timer
<1>25. CASE \E c \in 1..AnalogNum : RadioChannel(c)
  BY <1>25 DEF RadioChannel, Radio
<1>26. CASE \E c \in 1..AnalogNum : RadioFrequency(c)
  BY <1>26 DEF RadioFrequency, Radio
<1>27. CASE RadioShows
  BY <1>27 DEF RadioShows, Idle
<1>28. CASE UNCHANGED vars
  BY <1>28 DEF vars
<1> QED
  BY <1>1, <1>2, <1>3, <1>4, <1>5, <1>6, <1>7, <1>8, <1>9, <1>10, <1>11, <1>12, <1>13, <1>14, <1>15,
     <1>16, <1>17, <1>18, <1>19, <1>20, <1>21, <1>22, <1>23, <1>24, <1>25, <1>26, <1>27, <1>28
     DEF Next, Tune, Pages, Times, Radios

LEMMA RunsStep ==
  ASSUME Flags, Values, Shape, Runs, [Next]_vars
  PROVE  Runs'
<1> USE TuningAssumption DEF Values, Flags, Shape, Runs, page, choice, tuning, timer, handler
<1>1. CASE \E key \in {"up", "down"} : Dial(key)
  BY <1>1, Tears DEF Dial, Idle, Tunable, Current
<1>2. CASE DialMove
  BY <1>2, Tears DEF DialMove, Moved, Last, Num
<1>3. CASE Click
  BY <1>3 DEF Click, Confirm, Idle, Tunable
<1>4. CASE Toggle
  BY <1>4 DEF Toggle, Idle
<1>5. CASE Press
  BY <1>5 DEF Press, Begin, Confirm, Idle, Tunable
<1>6. CASE PressIgnored
  BY <1>6 DEF PressIgnored, Idle, Tunable
<1>7. CASE ConfirmDone
  BY <1>7, Tears DEF ConfirmDone
<1>8. CASE ExitTune
  BY <1>8, Tears DEF ExitTune
<1>9. CASE \E s \in Sources : Show(s)
  BY <1>9 DEF Show, Begin, Idle
<1>10. CASE Switch
  BY <1>10 DEF Switch
<1>11. CASE Arrive
  BY <1>11 DEF Arrive
<1>12. CASE Scan
  BY <1>12 DEF Scan, Num, Idle
<1>13. CASE \E c \in 1..RaceNum : PickFound(c)
  BY <1>13 DEF PickFound, Begin, Num, Idle
<1>14. CASE OpenPage
  BY <1>14 DEF OpenPage, Begin, Idle
<1>15. CASE LeavePage
  BY <1>15 DEF LeavePage, Begin, Idle
<1>16. CASE ToggleBand
  BY <1>16 DEF ToggleBand, Begin, Idle
<1>17. CASE Refresh
  BY <1>17 DEF Refresh, Begin, Num, Idle
<1>18. CASE Reopen
  BY <1>18 DEF Reopen, Idle
<1>19. CASE LookState
  BY <1>19 DEF LookState, Timer
<1>20. CASE Fade
  BY <1>20 DEF Fade, Timer
<1>21. CASE LookTimer
  BY <1>21 DEF LookTimer, Timer
<1>22. CASE Expire
  BY <1>22 DEF Expire, Timer
<1>23. CASE Clear
  BY <1>23 DEF Clear, Timer
<1>24. CASE Count
  BY <1>24 DEF Count, Timer
<1>25. CASE \E c \in 1..AnalogNum : RadioChannel(c)
  BY <1>25 DEF RadioChannel, Radio
<1>26. CASE \E c \in 1..AnalogNum : RadioFrequency(c)
  BY <1>26 DEF RadioFrequency, Radio
<1>27. CASE RadioShows
  BY <1>27 DEF RadioShows, Idle
<1>28. CASE UNCHANGED vars
  BY <1>28 DEF vars
<1> QED
  BY <1>1, <1>2, <1>3, <1>4, <1>5, <1>6, <1>7, <1>8, <1>9, <1>10, <1>11, <1>12, <1>13, <1>14, <1>15,
     <1>16, <1>17, <1>18, <1>19, <1>20, <1>21, <1>22, <1>23, <1>24, <1>25, <1>26, <1>27, <1>28
     DEF Next, Tune, Pages, Times, Radios

LEMMA AskedStep ==
  ASSUME Flags, Values, Shape, Runs, Asked, [Next]_vars
  PROVE  Asked'
<1> USE TuningAssumption DEF Values, Flags, Runs, Asked, page, choice, tuning, timer, handler
<1>1. CASE \E key \in {"up", "down"} : Dial(key)
  BY <1>1, Tears DEF Dial, Idle, Tunable, Current
<1>2. CASE DialMove
  BY <1>2, Tears DEF DialMove, Moved, Last, Num
<1>3. CASE Click
  BY <1>3 DEF Click, Confirm, Idle, Tunable
<1>4. CASE Toggle
  BY <1>4 DEF Toggle, Idle
<1>5. CASE Press
  BY <1>5 DEF Press, Begin, Confirm, Idle, Tunable
<1>6. CASE PressIgnored
  BY <1>6 DEF PressIgnored, Idle, Tunable
<1>7. CASE ConfirmDone
  BY <1>7, Tears DEF ConfirmDone
<1>8. CASE ExitTune
  BY <1>8, Tears DEF ExitTune
<1>9. CASE \E s \in Sources : Show(s)
  BY <1>9 DEF Show, Begin, Idle
<1>10. CASE Switch
  BY <1>10 DEF Switch
<1>11. CASE Arrive
  BY <1>11 DEF Arrive
<1>12. CASE Scan
  BY <1>12 DEF Scan, Num, Idle
<1>13. CASE \E c \in 1..RaceNum : PickFound(c)
  BY <1>13 DEF PickFound, Begin, Num, Idle
<1>14. CASE OpenPage
  BY <1>14 DEF OpenPage, Begin, Idle
<1>15. CASE LeavePage
  BY <1>15 DEF LeavePage, Begin, Idle
<1>16. CASE ToggleBand
  BY <1>16 DEF ToggleBand, Begin, Idle
<1>17. CASE Refresh
  BY <1>17 DEF Refresh, Begin, Num, Idle
<1>18. CASE Reopen
  BY <1>18 DEF Reopen, Idle
<1>19. CASE LookState
  BY <1>19 DEF LookState, Timer
<1>20. CASE Fade
  BY <1>20 DEF Fade, Timer
<1>21. CASE LookTimer
  BY <1>21 DEF LookTimer, Timer
<1>22. CASE Expire
  BY <1>22 DEF Expire, Timer
<1>23. CASE Clear
  BY <1>23 DEF Clear, Timer
<1>24. CASE Count
  BY <1>24 DEF Count, Timer
<1>25. CASE \E c \in 1..AnalogNum : RadioChannel(c)
  BY <1>25 DEF RadioChannel, Radio
<1>26. CASE \E c \in 1..AnalogNum : RadioFrequency(c)
  BY <1>26 DEF RadioFrequency, Radio
<1>27. CASE RadioShows
  BY <1>27 DEF RadioShows, Idle
<1>28. CASE UNCHANGED vars
  BY <1>28 DEF vars
<1> QED
  BY <1>1, <1>2, <1>3, <1>4, <1>5, <1>6, <1>7, <1>8, <1>9, <1>10, <1>11, <1>12, <1>13, <1>14, <1>15,
     <1>16, <1>17, <1>18, <1>19, <1>20, <1>21, <1>22, <1>23, <1>24, <1>25, <1>26, <1>27, <1>28
     DEF Next, Tune, Pages, Times, Radios

LEMMA ReceivedStep ==
  ASSUME Flags, Values, Shape, Received, [Next]_vars
  PROVE  Received'
<1> USE TuningAssumption DEF Values, Flags, Received, Follows, Bands, Sources, Num, page, choice, tuning, timer, handler
<1>1. CASE \E key \in {"up", "down"} : Dial(key)
  BY <1>1 DEF Dial, Idle, Tunable, Current
<1>2. CASE DialMove
  BY <1>2 DEF DialMove, Moved, Last, Num
<1>3. CASE Click
  BY <1>3 DEF Click, Confirm, Idle, Tunable
<1>4. CASE Toggle
  BY <1>4 DEF Toggle, Idle
<1>5. CASE Press
  BY <1>5 DEF Press, Begin, Confirm, Idle, Tunable
<1>6. CASE PressIgnored
  BY <1>6 DEF PressIgnored, Idle, Tunable
<1>7. CASE ConfirmDone
  BY <1>7 DEF ConfirmDone
<1>8. CASE ExitTune
  BY <1>8 DEF ExitTune
<1>9. CASE \E s \in Sources : Show(s)
  BY <1>9 DEF Show, Begin, Idle
<1>10. CASE Switch
  BY <1>10 DEF Switch
<1>11. CASE Arrive
  BY <1>11 DEF Arrive
<1>12. CASE Scan
  BY <1>12 DEF Scan, Num, Idle
<1>13. CASE \E c \in 1..RaceNum : PickFound(c)
  BY <1>13 DEF PickFound, Begin, Num, Idle
<1>14. CASE OpenPage
  BY <1>14 DEF OpenPage, Begin, Idle
<1>15. CASE LeavePage
  BY <1>15 DEF LeavePage, Begin, Idle
<1>16. CASE ToggleBand
  BY <1>16 DEF ToggleBand, Begin, Idle
<1>17. CASE Refresh
  BY <1>17 DEF Refresh, Begin, Num, Idle
<1>18. CASE Reopen
  BY <1>18 DEF Reopen, Idle
<1>19. CASE LookState
  BY <1>19 DEF LookState, Timer
<1>20. CASE Fade
  BY <1>20 DEF Fade, Timer
<1>21. CASE LookTimer
  BY <1>21 DEF LookTimer, Timer
<1>22. CASE Expire
  BY <1>22 DEF Expire, Timer
<1>23. CASE Clear
  BY <1>23 DEF Clear, Timer
<1>24. CASE Count
  BY <1>24 DEF Count, Timer
<1>25. CASE \E c \in 1..AnalogNum : RadioChannel(c)
  BY <1>25 DEF RadioChannel, Radio
<1>26. CASE \E c \in 1..AnalogNum : RadioFrequency(c)
  BY <1>26 DEF RadioFrequency, Radio
<1>27. CASE RadioShows
  BY <1>27, Strays DEF RadioShows, Idle
<1>28. CASE UNCHANGED vars
  BY <1>28 DEF vars
<1> QED
  BY <1>1, <1>2, <1>3, <1>4, <1>5, <1>6, <1>7, <1>8, <1>9, <1>10, <1>11, <1>12, <1>13, <1>14, <1>15,
     <1>16, <1>17, <1>18, <1>19, <1>20, <1>21, <1>22, <1>23, <1>24, <1>25, <1>26, <1>27, <1>28
     DEF Next, Tune, Pages, Times, Radios
-----------------------------------------------------------------------------
LEMMA Invariance == Spec => []IInv
<1>1. Init => IInv
  <2> SUFFICES ASSUME Init PROVE IInv
    OBVIOUS
  <2>1. TypeOK
    <3>1. Flags
      BY DEF Init, Flags
    <3>2. Values
      BY TuningAssumption DEF Init, Values, Sources, Bands, Num
    <3> QED
      BY <3>1, <3>2, TypeParts
  <2>2. Shape /\ Runs /\ Asked /\ Received
    BY DEF Init, Shape, Runs, Asked, Received
  <2> QED
    BY <2>1, <2>2 DEF IInv
<1>2. IInv /\ [Next]_vars => IInv'
  <2> SUFFICES ASSUME IInv, [Next]_vars PROVE IInv'
    OBVIOUS
  <2>1. Flags /\ Values /\ Shape /\ Runs /\ Asked /\ Received
    BY TypeParts DEF IInv
  <2>2. Flags' /\ Values'
    BY <2>1, FlagsStep, ValuesStep
  <2>3. TypeOK'
    BY <2>2 DEF TypeOK, Flags, Values
  <2>4. Shape' /\ Runs' /\ Asked' /\ Received'
    BY <2>1, ShapeStep, RunsStep, AskedStep, ReceivedStep
  <2> QED
    BY <2>3, <2>4 DEF IInv
<1> QED
  BY <1>1, <1>2, PTL DEF Spec

\* Every variable keeps its type: no channel that is tuned to, asked for or
\* kept in the settings is 0 or beyond the tables (input_device.c).
THEOREM TypeCorrect == Spec => []TypeOK
<1>1. IInv => TypeOK
  BY DEF IInv
<1> QED
  BY <1>1, Invariance, PTL

\* A long press confirms exactly when a click does, unless the timer came
\* between (btn_press asks tune_timer, btn_click tune_state).
THEOREM Pressed == Spec => []PressUnderstood
<1>1. IInv => PressUnderstood
  BY DEF IInv, Runs, PressUnderstood, Rest, Idle
<1> QED
  BY <1>1, Invariance, PTL

\* The channel of "To R3?" is the one that a click confirms (tune_channel).
THEOREM Confirmed == Spec => []AskedIsConfirmed
<1>1. IInv => AskedIsConfirmed
  BY DEF IInv, Asked, AskedIsConfirmed, Rest, Idle
<1> QED
  BY <1>1, Invariance, PTL

\* In the video the receiver of HDZero is set to the band and the channel of
\* the settings, whoever set them last: dial, pages, scan, radio or the
\* protection of the OLED (app_switch_to_hdzero and its callers).
THEOREM Tuned == Spec => []ReceiverFollows
<1>1. IInv => ReceiverFollows
  BY DEF IInv, Received, Follows, ReceiverFollows, Idle
<1> QED
  BY <1>1, Invariance, PTL
=============================================================================
