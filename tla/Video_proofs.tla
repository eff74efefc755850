---------------------------- MODULE Video_proofs ----------------------------
(***************************************************************************)
(* What is proved of the video, for every set of cameras and timings.      *)
(***************************************************************************)
EXTENDS Video, SequenceTheorems, TLAPS

Show == <<"SHOW", "LVGL", "OSD", "CONF">>
Fits == {<<"LVGL", "OSD", "CONF">>, <<"OSD", "CONF">>, <<"CONF">>}
Menu(s) == <<"MENU">> \o To(s)
Light(s) == <<"LIGHT">> \o Menu(s)

\* What ui may still have to do, and where it is then.
Shape ==
  /\ stray => app = "video"
  /\ \/ todo = <<>> \/ todo = <<"FORGET">>
     \/ todo = <<"MENU">> /\ app = "menu"
     \/ todo = <<"DARK">> /\ app = "sleep"
     \/ todo = <<"LIGHT">> /\ app \in {"menu", "ims"}
     \/ InVideo /\ todo \in {To(Chosen), Menu(Chosen), Light(Chosen)}
     \/ InVideo /\ Chosen = "HDZERO" /\ todo = Show /\ picked \in Cams /\ open
     \/ InVideo /\ Chosen = "HDZERO" /\ todo \in Fits
     \/ InVideo /\ Chosen = "HDMI" /\ todo = <<"FIT">>

\* Has ui already set the source mode of where it is?
Set == todo \in {<<>>, <<"FORGET">>, <<"DARK">>, <<"LIGHT">>, <<"FIT">>} \cup Fits

\* What the display is set to belongs to the source mode, which nobody
\* changes while the detection has the mutex.
Timings ==
  /\ mode = "UI" => timing = "UI"
  /\ mode = "HDZERO" => timing \in Cams
  /\ mode = "AV" => timing \in {"PAL", "NTSC"}
  /\ Busy => mode = "HDZERO"

\* The source mode is that of where ui is, or where it goes back to.
Modes ==
  Set => /\ InVideo => mode = Chosen
         /\ app = "menu" => mode = "UI"
         /\ app = "sleep" => (previous = "menu" => mode = "UI") /\ (previous = "ims" => mode = Chosen)

Lit == Set /\ todo # <<"LIGHT">> /\ app # "sleep" /\ mode # "HDMI" /\ ~protected => oled

Received == Set /\ app = "video" /\ mode = "HDZERO" /\ ~protected => open

\* What follows holds while calm: as long as every change of the camera has
\* been dealt with before the next one.
Rest == {<<>>, <<"FORGET">>}

\* Is a change of the camera to lead to a request that has not been made?
Coming == camLast # camMode /\ {camLast, camMode} \cap FhdCams # {} /\ per \notin {"conf", "last"}
Fitting == lvgl = Size(camMode) /\ isFhd = (camMode \in FhdCams)

\* What is shown and recorded is the camera, or its change is still to be
\* noticed; ui shows what it has picked, which is the camera.  The detection
\* has the mutex only because of a change.
Pictured ==
  calm => /\ Busy => camLast # camMode
          /\ todo = Show => picked = camMode
          /\ mode = "HDZERO" => \/ timing = camMode
                                \/ camLast # camMode /\ per \notin {"fhd", "conf", "last"}
          /\ mode = "HDZERO" /\ app = "video" /\ todo \in Rest =>
               conf = camMode \/ (camLast # camMode /\ per # "last")

\* A request is for the size of the camera, and made in front of the video.
Asked ==
  calm /\ fhdReq # "none" =>
    /\ mode = "HDZERO" /\ fhdReq = Size(camMode) /\ todo \in Rest \cup Fits
    /\ camLast = camMode \/ per \in {"conf", "last"}

\* The layout is that of the camera, or a request is made or coming, but
\* never while ui leaves the video.
Laid ==
  calm => /\ todo = <<"OSD", "CONF">> => lvgl = Size(camMode)
          /\ todo = <<"CONF">> => Fitting
          /\ mode = "HDZERO" /\ todo \notin Rest \cup Fits =>
               camLast = camMode \/ {camLast, camMode} \cap FhdCams = {}
          /\ mode = "HDZERO" /\ todo \in {<<>>, <<"DARK">>, <<"LIGHT">>} =>
               Fitting \/ fhdReq # "none" \/ Coming
          /\ todo = <<"FORGET">> => Fitting

\* The layout of the menu and of the analog module.
Plain ==
  calm => /\ Set /\ (app = "menu" \/ (app = "sleep" /\ previous = "menu")) => lvgl = "FHD" /\ ~osd
          /\ mode = "AV" => lvgl = "HD" /\ ~isFhd

\* What HDMI_in_detect has seen is shown, and recorded, and lit.
Seen ==
  calm /\ mode = "HDMI" /\ vtmgLast \in Signals =>
    /\ timing = vtmgLast
    /\ app = "video" /\ todo \in Rest \cup {<<"FIT">>} => conf = vtmgLast /\ (protected \/ oled)

IInv == /\ TypeOK /\ Shape /\ Timings /\ Modes /\ Lit /\ Received
        /\ Pictured /\ Asked /\ Laid /\ Plain /\ Seen
-----------------------------------------------------------------------------
(* The sequences of calls                                                  *)

LEMMA Prepend ==
  ASSUME NEW op \in Ops, NEW s \in Seq(Ops)
  PROVE  /\ <<op>> \o s \in Seq(Ops) /\ <<op>> \o s # <<>>
         /\ Head(<<op>> \o s) = op /\ Tail(<<op>> \o s) = s
<1>1. <<op>> \o s \in Seq(Ops) /\ Len(<<op>> \o s) = Len(s) + 1 /\ Len(s) \in Nat
  OBVIOUS
<1>2. (<<op>> \o s)[1] = op
  OBVIOUS
<1>3. Tail(<<op>> \o s) = s
  <2>1. Len(Tail(<<op>> \o s)) = Len(s) /\ Tail(<<op>> \o s) \in Seq(Ops)
    BY <1>1
  <2>2. \A i \in 1 .. Len(s) : Tail(<<op>> \o s)[i] = s[i]
    BY <1>1
  <2> QED
    BY <2>1, <2>2, SeqEqual
<1> QED
  BY <1>1, <1>2, <1>3

LEMMA Plans ==
  /\ To("HDZERO") = <<"PICK", "SHOW", "LVGL", "OSD", "CONF">>
  /\ To("HDMI") = <<"HDMI", "FIT">> /\ To("AV") = <<"AV">>
  BY DEF To

\* Every sequence of calls that ui makes, taken apart.
LEMMA Heads ==
  /\ <<"FORGET">> # <<>> /\ Head(<<"FORGET">>) = "FORGET" /\ Tail(<<"FORGET">>) = <<>>
  /\ <<"MENU">> # <<>> /\ Head(<<"MENU">>) = "MENU" /\ Tail(<<"MENU">>) = <<>>
  /\ <<"DARK">> # <<>> /\ Head(<<"DARK">>) = "DARK" /\ Tail(<<"DARK">>) = <<>>
  /\ <<"LIGHT">> # <<>> /\ Head(<<"LIGHT">>) = "LIGHT" /\ Tail(<<"LIGHT">>) = <<>>
  /\ <<"FIT">> # <<>> /\ Head(<<"FIT">>) = "FIT" /\ Tail(<<"FIT">>) = <<>>
  /\ Show # <<>> /\ Head(Show) = "SHOW" /\ Tail(Show) = <<"LVGL", "OSD", "CONF">>
  /\ <<"LVGL", "OSD", "CONF">> # <<>> /\ Head(<<"LVGL", "OSD", "CONF">>) = "LVGL"
  /\ Tail(<<"LVGL", "OSD", "CONF">>) = <<"OSD", "CONF">>
  /\ <<"OSD", "CONF">> # <<>> /\ Head(<<"OSD", "CONF">>) = "OSD" /\ Tail(<<"OSD", "CONF">>) = <<"CONF">>
  /\ <<"CONF">> # <<>> /\ Head(<<"CONF">>) = "CONF" /\ Tail(<<"CONF">>) = <<>>
  /\ Head(To("HDZERO")) = "PICK" /\ Tail(To("HDZERO")) = Show
  /\ Head(To("HDMI")) = "HDMI" /\ Tail(To("HDMI")) = <<"FIT">>
  /\ Head(To("AV")) = "AV" /\ Tail(To("AV")) = <<>>
<1>1. /\ Head(To("HDZERO")) = "PICK" /\ Tail(To("HDZERO")) = Show
      /\ Head(To("HDMI")) = "HDMI" /\ Tail(To("HDMI")) = <<"FIT">>
      /\ Head(To("AV")) = "AV" /\ Tail(To("AV")) = <<>>
  <2>1. /\ Head(<<"PICK", "SHOW", "LVGL", "OSD", "CONF">>) = "PICK"
        /\ Tail(<<"PICK", "SHOW", "LVGL", "OSD", "CONF">>) = <<"SHOW", "LVGL", "OSD", "CONF">>
        /\ Head(<<"HDMI", "FIT">>) = "HDMI" /\ Tail(<<"HDMI", "FIT">>) = <<"FIT">>
        /\ Head(<<"AV">>) = "AV" /\ Tail(<<"AV">>) = <<>>
    OBVIOUS
  <2> QED
    BY <2>1, Plans, Zenon DEF Show
<1>2. Show # <<>> /\ Head(Show) = "SHOW" /\ Tail(Show) = <<"LVGL", "OSD", "CONF">>
  BY DEF Show
<1> QED
  BY <1>1, <1>2

LEMMA PlansAreSequences ==
  ASSUME NEW s \in Sources
  PROVE  /\ To(s) \in Seq(Ops) /\ To(s) # <<>>
         /\ Menu(s) \in Seq(Ops) /\ Menu(s) # <<>> /\ Head(Menu(s)) = "MENU" /\ Tail(Menu(s)) = To(s)
         /\ Light(s) \in Seq(Ops) /\ Light(s) # <<>> /\ Head(Light(s)) = "LIGHT"
         /\ Tail(Light(s)) = Menu(s)
<1>1. To(s) \in Seq(Ops) /\ To(s) # <<>>
  <2>1. CASE s = "HDZERO"
    <3>1. LET plan == <<"PICK", "SHOW", "LVGL", "OSD", "CONF">> IN plan \in Seq(Ops) /\ plan # <<>>
      BY DEF Ops
    <3> QED
      BY <2>1, <3>1, Plans, Zenon
  <2>2. CASE s = "HDMI"
    <3>1. <<"HDMI", "FIT">> \in Seq(Ops) /\ <<"HDMI", "FIT">> # <<>>
      BY DEF Ops
    <3> QED
      BY <2>2, <3>1, Plans, Zenon
  <2>3. CASE s = "AV"
    BY <2>3, Plans DEF Ops
  <2> QED
    BY <2>1, <2>2, <2>3 DEF Sources
<1>2. /\ Menu(s) \in Seq(Ops) /\ Menu(s) # <<>> /\ Head(Menu(s)) = "MENU"
      /\ Tail(Menu(s)) = To(s)
  BY <1>1, Prepend DEF Menu, Ops
<1>3. /\ Light(s) \in Seq(Ops) /\ Light(s) # <<>> /\ Head(Light(s)) = "LIGHT"
      /\ Tail(Light(s)) = Menu(s)
  BY <1>2, Prepend DEF Light, Ops
<1> QED
  BY <1>1, <1>2, <1>3

\* Before the source mode is set, ui has something to do that says so.
LEMMA NotYetSet ==
  ASSUME NEW s \in Sources
  PROVE  /\ To(s) \notin {<<>>, <<"FORGET">>, <<"DARK">>, <<"LIGHT">>, <<"FIT">>} \cup Fits
         /\ Menu(s) \notin {<<>>, <<"FORGET">>, <<"DARK">>, <<"LIGHT">>, <<"FIT">>} \cup Fits
         /\ Light(s) \notin {<<>>, <<"FORGET">>, <<"DARK">>, <<"LIGHT">>, <<"FIT">>} \cup Fits
         /\ Show \notin {<<>>, <<"FORGET">>, <<"DARK">>, <<"LIGHT">>, <<"FIT">>} \cup Fits
         /\ <<"MENU">> \notin {<<>>, <<"FORGET">>, <<"DARK">>, <<"LIGHT">>, <<"FIT">>} \cup Fits
<1>1. To(s) \notin {<<>>, <<"FORGET">>, <<"DARK">>, <<"LIGHT">>, <<"FIT">>} \cup Fits
  <2>1. CASE s = "HDZERO"
    BY <2>1, Heads, PlansAreSequences DEF Fits
  <2>2. CASE s = "HDMI"
    BY <2>2, Heads, PlansAreSequences DEF Fits
  <2>3. CASE s = "AV"
    BY <2>3, Heads, PlansAreSequences DEF Fits
  <2> QED
    BY <2>1, <2>2, <2>3 DEF Sources
<1>2. Menu(s) \notin {<<>>, <<"FORGET">>, <<"DARK">>, <<"LIGHT">>, <<"FIT">>} \cup Fits
  BY Heads, PlansAreSequences DEF Fits
<1>3. Light(s) \notin {<<>>, <<"FORGET">>, <<"DARK">>, <<"LIGHT">>, <<"FIT">>} \cup Fits
  BY Heads, PlansAreSequences DEF Fits
<1>4. /\ Show \notin {<<>>, <<"FORGET">>, <<"DARK">>, <<"LIGHT">>, <<"FIT">>} \cup Fits
      /\ <<"MENU">> \notin {<<>>, <<"FORGET">>, <<"DARK">>, <<"LIGHT">>, <<"FIT">>} \cup Fits
  BY Heads DEF Fits
<1> QED
  BY <1>1, <1>2, <1>3, <1>4

\* The sequences of calls that the invariant tells apart.
LEMMA Apart ==
  ASSUME NEW s \in Sources
  PROVE  /\ Show \notin {<<>>, <<"FORGET">>, <<"MENU">>, <<"LIGHT">>, To(s), Menu(s), Light(s)} \cup Fits
         /\ {<<"DARK">>, <<"LIGHT">>, <<"FIT">>} \cap (Rest \cup Fits) = {}
         /\ <<"DARK">> # <<"LIGHT">> /\ Rest \cap Fits = {} /\ <<>> # <<"FORGET">>
         /\ <<"LVGL", "OSD", "CONF">> \notin {<<"OSD", "CONF">>, <<"CONF">>}
         /\ <<"OSD", "CONF">> # <<"CONF">>
<1>1. Show \notin {To(s), Menu(s), Light(s)}
  BY Heads, PlansAreSequences DEF Sources
<1>2. Show \notin {<<>>, <<"FORGET">>, <<"MENU">>, <<"LIGHT">>} \cup Fits
  BY Heads DEF Fits
<1>3. /\ {<<"DARK">>, <<"LIGHT">>, <<"FIT">>} \cap (Rest \cup Fits) = {}
      /\ <<"DARK">> # <<"LIGHT">> /\ Rest \cap Fits = {} /\ <<>> # <<"FORGET">>
  BY Heads DEF Fits, Rest
<1>4. /\ <<"LVGL", "OSD", "CONF">> \notin {<<"OSD", "CONF">>, <<"CONF">>}
      /\ <<"OSD", "CONF">> # <<"CONF">>
  BY Heads
<1> QED
  BY <1>1, <1>2, <1>3, <1>4

LEMMA ChosenIsSource ==
  ASSUME source \in Sources
  PROVE  Chosen \in Sources
  BY DEF Chosen, Sources

\* What a call says of where ui is, and what ui has to do after it.
LEMMA CallShape ==
  ASSUME Shape, Chosen \in Sources, NEW op, Call(op)
  PROVE  /\ op = "FORGET" => todo = <<"FORGET">> /\ todo' = <<>>
         /\ op = "MENU" => \/ app = "menu" /\ todo = <<"MENU">> /\ todo' = <<>>
                           \/ InVideo /\ todo = Menu(Chosen) /\ todo' = To(Chosen)
         /\ op = "DARK" => app = "sleep" /\ todo = <<"DARK">> /\ todo' = <<>>
         /\ op = "LIGHT" => \/ app \in {"menu", "ims"} /\ todo = <<"LIGHT">> /\ todo' = <<>>
                            \/ InVideo /\ todo = Light(Chosen) /\ todo' = Menu(Chosen)
         /\ op = "PICK" => InVideo /\ Chosen = "HDZERO" /\ todo = To(Chosen) /\ todo' = Show
         /\ op = "SHOW" => /\ InVideo /\ Chosen = "HDZERO" /\ todo = Show /\ todo' = <<"LVGL", "OSD", "CONF">>
                           /\ picked \in Cams /\ open
         /\ op = "LVGL" => InVideo /\ Chosen = "HDZERO" /\ todo \in Fits /\ todo' = <<"OSD", "CONF">>
         /\ op = "OSD" => InVideo /\ Chosen = "HDZERO" /\ todo \in Fits /\ todo' = <<"CONF">>
         /\ op = "CONF" => InVideo /\ Chosen = "HDZERO" /\ todo \in Fits /\ todo' = <<>>
         /\ op = "HDMI" => InVideo /\ Chosen = "HDMI" /\ todo' = <<"FIT">>
         /\ op = "FIT" => InVideo /\ Chosen = "HDMI" /\ todo = <<"FIT">> /\ todo' = <<>>
         /\ op = "AV" => InVideo /\ Chosen = "AV" /\ todo' = <<>>
<1>1. todo # <<>> /\ op = Head(todo) /\ todo' = Tail(todo)
  BY DEF Call, Idle
<1>2. CASE \/ todo = <<"FORGET">>
           \/ todo = <<"MENU">> /\ app = "menu"
           \/ todo = <<"DARK">> /\ app = "sleep"
           \/ todo = <<"LIGHT">> /\ app \in {"menu", "ims"}
  BY <1>1, <1>2, Heads
<1>3. CASE InVideo /\ todo = To(Chosen)
  BY <1>1, <1>3, Heads DEF Sources
<1>4. CASE InVideo /\ todo = Menu(Chosen)
  BY <1>1, <1>4, PlansAreSequences
<1>5. CASE InVideo /\ todo = Light(Chosen)
  BY <1>1, <1>5, PlansAreSequences
<1>6. CASE InVideo /\ Chosen = "HDZERO" /\ todo = Show /\ picked \in Cams /\ open
  BY <1>1, <1>6, Heads
<1>7. CASE InVideo /\ Chosen = "HDZERO" /\ todo \in Fits
  BY <1>1, <1>7, Heads DEF Fits
<1>8. CASE InVideo /\ Chosen = "HDMI" /\ todo = <<"FIT">>
  BY <1>1, <1>8, Heads
<1> QED
  BY <1>1, <1>2, <1>3, <1>4, <1>5, <1>6, <1>7, <1>8 DEF Shape
-----------------------------------------------------------------------------
(* The initial states and the values                                       *)

Flags ==
  /\ asleep \in BOOLEAN /\ oled \in BOOLEAN /\ open \in BOOLEAN /\ isFhd \in BOOLEAN
  /\ osd \in BOOLEAN /\ radio \in BOOLEAN /\ stray \in BOOLEAN /\ hdmiValid \in BOOLEAN /\ protected \in BOOLEAN /\ calm \in BOOLEAN

LEMMA FlagsStep ==
  ASSUME Flags, [Next]_vars
  PROVE  Flags'
<1> USE DEF Flags, where, display, camera, layout, hdmi
<1>1. CASE Compare
  BY <1>1, Zenon DEF Compare, Peripheral
<1>2. CASE DetectShow
  BY <1>2, Zenon DEF DetectShow, Peripheral, Shows
<1>3. CASE DetectFhd
  BY <1>3, Zenon DEF DetectFhd, Peripheral
<1>4. CASE DetectConf
  BY <1>4, Zenon DEF DetectConf, Peripheral
<1>5. CASE DetectLast
  BY <1>5, Zenon DEF DetectLast, Peripheral
<1>6. CASE DetectAv
  BY <1>6, Zenon DEF DetectAv, Peripheral
<1>7. CASE DetectHdmi
  BY <1>7, Zenon DEF DetectHdmi, NewTiming, NoTiming, Peripheral
<1>8. CASE CallMenu
  BY <1>8, Zenon DEF CallMenu, Call, Ui
<1>9. CASE CallPick
  BY <1>9, Zenon DEF CallPick, Call, Ui
<1>10. CASE CallShow
  BY <1>10, Zenon DEF CallShow, Shows, Call, Ui
<1>11. CASE CallLvgl
  BY <1>11, Zenon DEF CallLvgl, Call, Ui
<1>12. CASE CallOsd
  <2>1. isFhd' \in BOOLEAN
    BY <1>12 DEF CallOsd
  <2> QED
    BY <1>12, <2>1, Zenon DEF CallOsd, Call, Ui
<1>13. CASE CallConf
  BY <1>13, Zenon DEF CallConf, Call, Ui
<1>14. CASE CallHdmi
  BY <1>14, Zenon DEF CallHdmi, Call
<1>15. CASE CallFit
  BY <1>15, Zenon DEF CallFit, Call, Ui
<1>16. CASE CallAv
  BY <1>16, Zenon DEF CallAv, Call, Ui
<1>17. CASE CallDark
  BY <1>17, Zenon DEF CallDark, Call, Ui
<1>18. CASE CallLight
  BY <1>18, Zenon DEF CallLight, Call, Ui
<1>19. CASE CallForget
  BY <1>19, Zenon DEF CallForget, Call, Ui
<1>20. CASE FhdChange
  BY <1>20, Zenon DEF FhdChange, Idle, Ui
<1>21. CASE ToMenu
  BY <1>21, Zenon DEF ToMenu, Handles, Begins, Idle
<1>22. CASE ExitMenu
  BY <1>22, Zenon DEF ExitMenu, Handles, Begins, Idle
<1>23. CASE \E s \in Sources : SelectSource(s)
  BY <1>23, Zenon DEF SelectSource, Handles, Begins, Idle, Selectable
<1>24. CASE OpenSettings
  BY <1>24, Zenon DEF OpenSettings, Handles, Begins, Idle
<1>25. CASE ChangeChannel
  BY <1>25, Zenon DEF ChangeChannel, Handles, Begins, Idle
<1>26. CASE GoSleep
  BY <1>26, Zenon DEF GoSleep, Handles, Begins, Idle
<1>27. CASE WakeUp
  BY <1>27, Zenon DEF WakeUp, Handles, Begins, Idle
<1>28. CASE RadioAsks
  BY <1>28, Zenon DEF RadioAsks, InVideo
<1>29. CASE RadioChanges
  BY <1>29, Zenon DEF RadioChanges, Begins, Idle
<1>30. CASE Protect
  BY <1>30, Zenon DEF Protect, Motion
<1>31. CASE Unprotect
  BY <1>31, Zenon DEF Unprotect, Motion
<1>32. CASE \E c \in Cams : CamType(c)
  BY <1>32, Zenon DEF CamType
<1>33. CASE \E s \in Signals \cup Unknown \cup {"none"} : HdmiSignal(s)
  BY <1>33, Zenon DEF HdmiSignal
<1>34. CASE UNCHANGED vars
  BY <1>34, Zenon DEF vars
<1> QED
  BY <1>1, <1>2, <1>3, <1>4, <1>5, <1>6, <1>7, <1>8, <1>9, <1>10, <1>11, <1>12, <1>13, <1>14, <1>15,
     <1>16, <1>17, <1>18, <1>19, <1>20, <1>21, <1>22, <1>23, <1>24, <1>25, <1>26, <1>27, <1>28,
     <1>29, <1>30, <1>31, <1>32, <1>33, <1>34
     DEF Next, Detection, Calls, Handlers, Protection, Outside

Values ==
  /\ app \in {"menu", "video", "ims", "sleep"} /\ previous \in {"menu", "video", "ims"}
  /\ source \in Sources /\ picked \in Cams \cup {"none"}
  /\ mode \in Sources \cup {"UI"}
  /\ timing \in Cams \cup Signals \cup {"UI", "PAL", "NTSC"}
  /\ per \in {"hdz", "show", "fhd", "conf", "last", "av", "hdmi"}
  /\ camMode \in Cams /\ camLast \in Cams
  /\ fhdReq \in {"FHD", "HD", "none"} /\ lvgl \in {"FHD", "HD"}
  /\ conf \in Cams \cup Signals \cup {"UI", "AV"}
  /\ signal \in Signals \cup Unknown \cup {"none"} /\ vtmgLast \in Signals \cup Unknown \cup {"none"}
  /\ hdmiVtmg \in Signals

LEMMA ValuesStep ==
  ASSUME Values, Shape, [Next]_vars
  PROVE  Values'
<1> USE VideoAssumption DEF Values, Sources, where, display, camera, layout, hdmi
<1>1. CASE Compare
  BY <1>1 DEF Compare, Peripheral
<1>2. CASE DetectShow
  BY <1>2 DEF DetectShow, Peripheral, Shows
<1>3. CASE DetectFhd
  BY <1>3 DEF DetectFhd, Peripheral
<1>4. CASE DetectConf
  BY <1>4 DEF DetectConf, Peripheral
<1>5. CASE DetectLast
  BY <1>5 DEF DetectLast, Peripheral
<1>6. CASE DetectAv
  BY <1>6 DEF DetectAv, Peripheral
<1>7. CASE DetectHdmi
  BY <1>7 DEF DetectHdmi, NewTiming, NoTiming, Peripheral
<1>8. CASE CallMenu
  BY <1>8 DEF CallMenu, Call, Ui
<1>9. CASE CallPick
  BY <1>9 DEF CallPick, Call, Ui
<1>10. CASE CallShow
  BY <1>10, CallShape, ChosenIsSource DEF CallShow, Shows, Call, Ui
<1>11. CASE CallLvgl
  BY <1>11 DEF CallLvgl, Call, Ui, Size
<1>12. CASE CallOsd
  BY <1>12 DEF CallOsd, Call, Ui
<1>13. CASE CallConf
  BY <1>13 DEF CallConf, Call, Ui
<1>14. CASE CallHdmi
  BY <1>14 DEF CallHdmi, Call
<1>15. CASE CallFit
  BY <1>15 DEF CallFit, Call, Ui, Size
<1>16. CASE CallAv
  BY <1>16 DEF CallAv, Call, Ui
<1>17. CASE CallDark
  BY <1>17 DEF CallDark, Call, Ui
<1>18. CASE CallLight
  BY <1>18 DEF CallLight, Call, Ui
<1>19. CASE CallForget
  BY <1>19 DEF CallForget, Call, Ui
<1>20. CASE FhdChange
  BY <1>20 DEF FhdChange, Idle, Ui
<1>21. CASE ToMenu
  BY <1>21 DEF ToMenu, Handles, Begins, Idle, InVideo
<1>22. CASE ExitMenu
  BY <1>22 DEF ExitMenu, Handles, Begins, Idle, InVideo
<1>23. CASE \E s \in Sources : SelectSource(s)
  BY <1>23 DEF SelectSource, Handles, Begins, Idle, Selectable, InVideo
<1>24. CASE OpenSettings
  BY <1>24 DEF OpenSettings, Handles, Begins, Idle, InVideo
<1>25. CASE ChangeChannel
  BY <1>25 DEF ChangeChannel, Handles, Begins, Idle, InVideo
<1>26. CASE GoSleep
  BY <1>26 DEF GoSleep, Handles, Begins, Idle, InVideo
<1>27. CASE WakeUp
  BY <1>27 DEF WakeUp, Handles, Begins, Idle, InVideo
<1>28. CASE RadioAsks
  BY <1>28 DEF RadioAsks, InVideo
<1>29. CASE RadioChanges
  BY <1>29 DEF RadioChanges, Begins, Idle, InVideo
<1>30. CASE Protect
  BY <1>30 DEF Protect, Motion
<1>31. CASE Unprotect
  BY <1>31 DEF Unprotect, Motion
<1>32. CASE \E c \in Cams : CamType(c)
  BY <1>32 DEF CamType
<1>33. CASE \E s \in Signals \cup Unknown \cup {"none"} : HdmiSignal(s)
  BY <1>33 DEF HdmiSignal
<1>34. CASE UNCHANGED vars
  BY <1>34 DEF vars
<1> QED
  BY <1>1, <1>2, <1>3, <1>4, <1>5, <1>6, <1>7, <1>8, <1>9, <1>10, <1>11, <1>12, <1>13, <1>14, <1>15,
     <1>16, <1>17, <1>18, <1>19, <1>20, <1>21, <1>22, <1>23, <1>24, <1>25, <1>26, <1>27, <1>28,
     <1>29, <1>30, <1>31, <1>32, <1>33, <1>34
     DEF Next, Detection, Calls, Handlers, Protection, Outside

LEMMA TodoStep ==
  ASSUME todo \in Seq(Ops), source \in Sources, Shape, [Next]_vars
  PROVE  todo' \in Seq(Ops)
<1>1. CASE UNCHANGED todo
  BY <1>1
<1>2. CASE todo # <<>> /\ todo' = Tail(todo)
  BY <1>2
<1>3. CASE \E s \in Sources : todo' = To(s)
  BY <1>3, PlansAreSequences
<1>4. CASE todo' = <<"LIGHT">> \o (<<"MENU">> \o To(source))
  BY <1>4, PlansAreSequences DEF Light, Menu
<1>5. CASE todo' = <<"LIGHT">> \o <<>>
  BY <1>5 DEF Ops
<1>6. CASE todo' \in {<<"MENU">>, <<"DARK">>, <<"FORGET">>}
  <2>1. <<"MENU">> \in Seq(Ops) /\ <<"DARK">> \in Seq(Ops) /\ <<"FORGET">> \in Seq(Ops)
    BY DEF Ops
  <2> QED
    BY <1>6, <2>1, Zenon
<1>7. ASSUME Detection \/ Protection \/ Outside \/ RadioAsks \/ UNCHANGED vars
      PROVE  UNCHANGED todo
  BY <1>7, Zenon DEF Detection, Protection, Outside, vars, Compare, DetectShow, DetectFhd, DetectConf,
     DetectLast, DetectAv, DetectHdmi, Peripheral, Protect, Unprotect, Motion, CamType, HdmiSignal, RadioAsks
<1>8. ASSUME Calls, ~FhdChange
      PROVE  todo # <<>> /\ todo' = Tail(todo)
  BY <1>8, Zenon DEF Calls, CallMenu, CallPick, CallShow, CallLvgl, CallOsd, CallConf, CallHdmi, CallFit,
     CallAv, CallDark, CallLight, CallForget, Call, Idle
<1>9. ASSUME ToMenu \/ GoSleep \/ FhdChange
      PROVE  todo' \in {<<"MENU">>, <<"DARK">>, <<"FORGET">>}
  BY <1>9 DEF ToMenu, GoSleep, FhdChange, Handles, Begins
<1>10. ASSUME ExitMenu \/ (\E s \in Sources : SelectSource(s)) \/ OpenSettings \/ ChangeChannel
              \/ RadioChanges
       PROVE  \E s \in Sources : todo' = To(s)
  BY <1>10, Zenon DEF Sources, ExitMenu, SelectSource, OpenSettings, ChangeChannel, RadioChanges, Handles, Begins
<1>11. ASSUME WakeUp
       PROVE  \/ todo' = <<"LIGHT">> \o (<<"MENU">> \o To(source))
              \/ todo' = <<"LIGHT">> \o <<>>
  BY <1>11 DEF WakeUp, Handles, Begins
<1> QED
  BY <1>1, <1>2, <1>3, <1>4, <1>5, <1>6, <1>7, <1>8, <1>9, <1>10, <1>11, Zenon DEF Next, Handlers
-----------------------------------------------------------------------------

(* The invariant                                                           *)

\* Waking up goes back to where the goggle was, through the menu to the video.
LEMMA WakeUpShape ==
  ASSUME WakeUp, source \in Sources
  PROVE  /\ app = "sleep" /\ todo = <<>> /\ app' = previous
         /\ stray' = FALSE
         /\ UNCHANGED <<source, picked, mode, timing, oled, open, per, protected>>
         /\ UNCHANGED <<camera, fhdReq, layout, hdmi>> /\ calm' = (calm /\ ~Pending)
         /\ \/ previous = "video" /\ todo' = Light(source)
            \/ previous # "video" /\ todo' = <<"LIGHT">>
<1>1. app = "sleep" /\ todo = <<>> /\ app' = previous
      /\ stray' = FALSE
      /\ UNCHANGED <<source, picked, mode, timing, oled, open, per, protected>>
      /\ UNCHANGED <<camera, fhdReq, layout, hdmi>> /\ calm' = (calm /\ ~Pending)
  BY DEF WakeUp, Handles, Begins, Idle, display
<1>2. todo' = <<"LIGHT">> \o (IF previous = "video" THEN <<"MENU">> \o To(source) ELSE <<>>)
  BY DEF WakeUp, Handles, Begins
<1>3. CASE previous = "video"
  BY <1>1, <1>2, <1>3 DEF Light, Menu
<1>4. CASE previous # "video"
  <2>1. <<"LIGHT">> \o <<>> = <<"LIGHT">>
    OBVIOUS
  <2> QED
    BY <1>1, <1>2, <1>4, <2>1, Zenon
<1> QED
  BY <1>3, <1>4

LEMMA ShapeStep ==
  ASSUME Values, Shape, [Next]_vars
  PROVE  Shape'
<1> USE DEF Shape, Chosen, Values, InVideo, where, display, camera, layout, hdmi
<1>1. CASE Compare
  BY <1>1 DEF Compare, Peripheral
<1>2. CASE DetectShow
  BY <1>2 DEF DetectShow, Peripheral, Shows
<1>3. CASE DetectFhd
  BY <1>3 DEF DetectFhd, Peripheral
<1>4. CASE DetectConf
  BY <1>4 DEF DetectConf, Peripheral
<1>5. CASE DetectLast
  BY <1>5 DEF DetectLast, Peripheral
<1>6. CASE DetectAv
  BY <1>6 DEF DetectAv, Peripheral
<1>7. CASE DetectHdmi
  BY <1>7 DEF DetectHdmi, NewTiming, NoTiming, Peripheral
<1>8. CASE CallMenu
  BY <1>8, CallShape, ChosenIsSource DEF CallMenu, Call, Ui
<1>9. CASE CallPick
  BY <1>9, CallShape, ChosenIsSource DEF CallPick, Call, Ui
<1>10. CASE CallShow
  BY <1>10, CallShape, ChosenIsSource DEF CallShow, Shows, Call, Ui, Fits
<1>11. CASE CallLvgl
  BY <1>11, CallShape, ChosenIsSource DEF CallLvgl, Call, Ui, Fits
<1>12. CASE CallOsd
  BY <1>12, CallShape, ChosenIsSource DEF CallOsd, Call, Ui, Fits
<1>13. CASE CallConf
  BY <1>13, CallShape, ChosenIsSource DEF CallConf, Call, Ui
<1>14. CASE CallHdmi
  BY <1>14, CallShape, ChosenIsSource DEF CallHdmi, Call
<1>15. CASE CallFit
  BY <1>15, CallShape, ChosenIsSource DEF CallFit, Call, Ui
<1>16. CASE CallAv
  BY <1>16, CallShape, ChosenIsSource DEF CallAv, Call, Ui
<1>17. CASE CallDark
  BY <1>17, CallShape, ChosenIsSource DEF CallDark, Call, Ui
<1>18. CASE CallLight
  BY <1>18, CallShape, ChosenIsSource DEF CallLight, Call, Ui
<1>19. CASE CallForget
  BY <1>19, CallShape, ChosenIsSource DEF CallForget, Call, Ui
<1>20. CASE FhdChange
  BY <1>20 DEF FhdChange, Idle, Ui
<1>21. CASE ToMenu
  BY <1>21 DEF ToMenu, Handles, Begins, Idle
<1>22. CASE ExitMenu
  BY <1>22 DEF ExitMenu, Handles, Begins, Idle
<1>23. CASE \E s \in Sources : SelectSource(s)
  BY <1>23 DEF SelectSource, Handles, Begins, Idle, Selectable
<1>24. CASE OpenSettings
  BY <1>24 DEF OpenSettings, Handles, Begins, Idle
<1>25. CASE ChangeChannel
  BY <1>25 DEF ChangeChannel, Handles, Begins, Idle
<1>26. CASE GoSleep
  BY <1>26 DEF GoSleep, Handles, Begins, Idle
<1>27. CASE WakeUp
  BY <1>27, WakeUpShape
<1>28. CASE RadioAsks
  BY <1>28 DEF RadioAsks, InVideo
<1>29. CASE RadioChanges
  BY <1>29 DEF RadioChanges, Begins, Idle
<1>30. CASE Protect
  BY <1>30 DEF Protect, Motion, Idle
<1>31. CASE Unprotect
  BY <1>31 DEF Unprotect, Motion
<1>32. CASE \E c \in Cams : CamType(c)
  BY <1>32 DEF CamType
<1>33. CASE \E s \in Signals \cup Unknown \cup {"none"} : HdmiSignal(s)
  BY <1>33 DEF HdmiSignal
<1>34. CASE UNCHANGED vars
  BY <1>34 DEF vars
<1> QED
  BY <1>1, <1>2, <1>3, <1>4, <1>5, <1>6, <1>7, <1>8, <1>9, <1>10, <1>11, <1>12, <1>13, <1>14, <1>15,
     <1>16, <1>17, <1>18, <1>19, <1>20, <1>21, <1>22, <1>23, <1>24, <1>25, <1>26, <1>27, <1>28,
     <1>29, <1>30, <1>31, <1>32, <1>33, <1>34
     DEF Next, Detection, Calls, Handlers, Protection, Outside

LEMMA TimingsStep ==
  ASSUME Values, Shape, Timings, [Next]_vars
  PROVE  Timings'
<1> USE DEF Timings, Values, Busy, MutexFree, where, display, camera, layout, hdmi
<1>1. CASE Compare
  BY <1>1 DEF Compare, Peripheral
<1>2. CASE DetectShow
  BY <1>2 DEF DetectShow, Peripheral, Shows
<1>3. CASE DetectFhd
  BY <1>3 DEF DetectFhd, Peripheral
<1>4. CASE DetectConf
  BY <1>4 DEF DetectConf, Peripheral
<1>5. CASE DetectLast
  BY <1>5 DEF DetectLast, Peripheral
<1>6. CASE DetectAv
  BY <1>6 DEF DetectAv, Peripheral
<1>7. CASE DetectHdmi
  BY <1>7 DEF DetectHdmi, NewTiming, NoTiming, Peripheral
<1>8. CASE CallMenu
  BY <1>8, CallShape, ChosenIsSource DEF CallMenu, Call, Ui
<1>9. CASE CallPick
  BY <1>9, CallShape, ChosenIsSource DEF CallPick, Call, Ui
<1>10. CASE CallShow
  BY <1>10, CallShape, ChosenIsSource DEF CallShow, Shows, Call, Ui, Fits
<1>11. CASE CallLvgl
  BY <1>11, CallShape, ChosenIsSource DEF CallLvgl, Call, Ui
<1>12. CASE CallOsd
  BY <1>12, CallShape, ChosenIsSource DEF CallOsd, Call, Ui
<1>13. CASE CallConf
  BY <1>13, CallShape, ChosenIsSource DEF CallConf, Call, Ui
<1>14. CASE CallHdmi
  BY <1>14, CallShape, ChosenIsSource DEF CallHdmi, Call
<1>15. CASE CallFit
  BY <1>15, CallShape, ChosenIsSource DEF CallFit, Call, Ui
<1>16. CASE CallAv
  BY <1>16, CallShape, ChosenIsSource DEF CallAv, Call, Ui
<1>17. CASE CallDark
  BY <1>17, CallShape, ChosenIsSource DEF CallDark, Call, Ui
<1>18. CASE CallLight
  BY <1>18, CallShape, ChosenIsSource DEF CallLight, Call, Ui
<1>19. CASE CallForget
  BY <1>19, CallShape, ChosenIsSource DEF CallForget, Call, Ui
<1>20. CASE FhdChange
  BY <1>20 DEF FhdChange, Idle, Ui
<1>21. CASE ToMenu
  BY <1>21 DEF ToMenu, Handles, Begins, Idle
<1>22. CASE ExitMenu
  BY <1>22 DEF ExitMenu, Handles, Begins, Idle
<1>23. CASE \E s \in Sources : SelectSource(s)
  BY <1>23 DEF SelectSource, Handles, Begins, Idle, Selectable
<1>24. CASE OpenSettings
  BY <1>24 DEF OpenSettings, Handles, Begins, Idle
<1>25. CASE ChangeChannel
  BY <1>25 DEF ChangeChannel, Handles, Begins, Idle
<1>26. CASE GoSleep
  BY <1>26 DEF GoSleep, Handles, Begins, Idle
<1>27. CASE WakeUp
  BY <1>27 DEF WakeUp, Handles, Begins, Idle
<1>28. CASE RadioAsks
  BY <1>28 DEF RadioAsks, InVideo
<1>29. CASE RadioChanges
  BY <1>29 DEF RadioChanges, Begins, Idle
<1>30. CASE Protect
  BY <1>30 DEF Protect, Motion
<1>31. CASE Unprotect
  BY <1>31 DEF Unprotect, Motion
<1>32. CASE \E c \in Cams : CamType(c)
  BY <1>32 DEF CamType
<1>33. CASE \E s \in Signals \cup Unknown \cup {"none"} : HdmiSignal(s)
  BY <1>33 DEF HdmiSignal
<1>34. CASE UNCHANGED vars
  BY <1>34 DEF vars
<1> QED
  BY <1>1, <1>2, <1>3, <1>4, <1>5, <1>6, <1>7, <1>8, <1>9, <1>10, <1>11, <1>12, <1>13, <1>14, <1>15,
     <1>16, <1>17, <1>18, <1>19, <1>20, <1>21, <1>22, <1>23, <1>24, <1>25, <1>26, <1>27, <1>28,
     <1>29, <1>30, <1>31, <1>32, <1>33, <1>34
     DEF Next, Detection, Calls, Handlers, Protection, Outside

LEMMA ModesStep ==
  ASSUME Values, Shape, Modes, Timings, [Next]_vars
  PROVE  Modes'
<1> USE DEF Modes, Chosen, Set, Values, InVideo, where, display, camera, layout, hdmi
<1>1. CASE Compare
  BY <1>1 DEF Compare, Peripheral
<1>2. CASE DetectShow
  BY <1>2 DEF DetectShow, Peripheral, Shows, Timings, Busy
<1>3. CASE DetectFhd
  BY <1>3 DEF DetectFhd, Peripheral
<1>4. CASE DetectConf
  BY <1>4 DEF DetectConf, Peripheral
<1>5. CASE DetectLast
  BY <1>5 DEF DetectLast, Peripheral
<1>6. CASE DetectAv
  BY <1>6 DEF DetectAv, Peripheral
<1>7. CASE DetectHdmi
  BY <1>7 DEF DetectHdmi, NewTiming, NoTiming, Peripheral
<1>8. CASE CallMenu
  BY <1>8, CallShape, ChosenIsSource, NotYetSet DEF CallMenu, Call, Ui
<1>9. CASE CallPick
  BY <1>9, CallShape, ChosenIsSource, NotYetSet DEF CallPick, Call, Ui
<1>10. CASE CallShow
  BY <1>10, CallShape, ChosenIsSource, NotYetSet DEF CallShow, Shows, Call, Ui
<1>11. CASE CallLvgl
  BY <1>11, CallShape, ChosenIsSource, NotYetSet DEF CallLvgl, Call, Ui
<1>12. CASE CallOsd
  BY <1>12, CallShape, ChosenIsSource, NotYetSet DEF CallOsd, Call, Ui
<1>13. CASE CallConf
  BY <1>13, CallShape, ChosenIsSource, NotYetSet DEF CallConf, Call, Ui
<1>14. CASE CallHdmi
  BY <1>14, CallShape, ChosenIsSource, NotYetSet DEF CallHdmi, Call
<1>15. CASE CallFit
  BY <1>15, CallShape, ChosenIsSource, NotYetSet DEF CallFit, Call, Ui
<1>16. CASE CallAv
  BY <1>16, CallShape, ChosenIsSource, NotYetSet DEF CallAv, Call, Ui
<1>17. CASE CallDark
  BY <1>17, CallShape, ChosenIsSource, NotYetSet DEF CallDark, Call, Ui
<1>18. CASE CallLight
  BY <1>18, CallShape, ChosenIsSource, NotYetSet DEF CallLight, Call, Ui
<1>19. CASE CallForget
  BY <1>19, CallShape, ChosenIsSource, NotYetSet DEF CallForget, Call, Ui
<1>20. CASE FhdChange
  BY <1>20 DEF FhdChange, Idle, Ui
<1>21. CASE ToMenu
  BY <1>21, NotYetSet, ChosenIsSource DEF ToMenu, Handles, Begins, Idle
<1>22. CASE ExitMenu
  BY <1>22, NotYetSet, ChosenIsSource DEF ExitMenu, Handles, Begins, Idle
<1>23. CASE \E s \in Sources : SelectSource(s)
  BY <1>23, NotYetSet, ChosenIsSource DEF SelectSource, Handles, Begins, Idle, Selectable
<1>24. CASE OpenSettings
  BY <1>24, NotYetSet, ChosenIsSource DEF OpenSettings, Handles, Begins, Idle
<1>25. CASE ChangeChannel
  BY <1>25, NotYetSet, ChosenIsSource DEF ChangeChannel, Handles, Begins, Idle
<1>26. CASE GoSleep
  <2>1. stray => app = "video"
    BY DEF Shape
  <2> QED
    BY <1>26, <2>1, NotYetSet, ChosenIsSource DEF GoSleep, Handles, Begins, Idle
<1>27. CASE WakeUp
  <2>1. ~stray
    BY <1>27, WakeUpShape DEF Shape
  <2> QED
    BY <1>27, <2>1, WakeUpShape, NotYetSet, ChosenIsSource
<1>28. CASE RadioAsks
  BY <1>28, NotYetSet, ChosenIsSource DEF RadioAsks, InVideo
<1>29. CASE RadioChanges
  BY <1>29, NotYetSet, ChosenIsSource DEF RadioChanges, Begins, Idle, Sources
<1>30. CASE Protect
  BY <1>30 DEF Protect, Motion
<1>31. CASE Unprotect
  BY <1>31 DEF Unprotect, Motion
<1>32. CASE \E c \in Cams : CamType(c)
  BY <1>32 DEF CamType
<1>33. CASE \E s \in Signals \cup Unknown \cup {"none"} : HdmiSignal(s)
  BY <1>33 DEF HdmiSignal
<1>34. CASE UNCHANGED vars
  BY <1>34 DEF vars
<1> QED
  BY <1>1, <1>2, <1>3, <1>4, <1>5, <1>6, <1>7, <1>8, <1>9, <1>10, <1>11, <1>12, <1>13, <1>14, <1>15,
     <1>16, <1>17, <1>18, <1>19, <1>20, <1>21, <1>22, <1>23, <1>24, <1>25, <1>26, <1>27, <1>28,
     <1>29, <1>30, <1>31, <1>32, <1>33, <1>34
     DEF Next, Detection, Calls, Handlers, Protection, Outside

LEMMA LitStep ==
  ASSUME Flags, Values, Shape, Lit, Timings, [Next]_vars
  PROVE  Lit'
<1> USE DEF Lit, Set, Values, InVideo, where, display, camera, layout, hdmi
<1>1. CASE Compare
  BY <1>1 DEF Compare, Peripheral
<1>2. CASE DetectShow
  BY <1>2 DEF DetectShow, Peripheral, Shows, Timings, Busy
<1>3. CASE DetectFhd
  BY <1>3 DEF DetectFhd, Peripheral
<1>4. CASE DetectConf
  BY <1>4 DEF DetectConf, Peripheral
<1>5. CASE DetectLast
  BY <1>5 DEF DetectLast, Peripheral
<1>6. CASE DetectAv
  BY <1>6 DEF DetectAv, Peripheral
<1>7. CASE DetectHdmi
  BY <1>7 DEF DetectHdmi, NewTiming, NoTiming, Peripheral
<1>8. CASE CallMenu
  BY <1>8, CallShape, ChosenIsSource, NotYetSet DEF CallMenu, Call, Ui
<1>9. CASE CallPick
  BY <1>9, CallShape, ChosenIsSource, NotYetSet DEF CallPick, Call, Ui
<1>10. CASE CallShow
  BY <1>10, CallShape, ChosenIsSource, NotYetSet DEF CallShow, Shows, Call, Ui
<1>11. CASE CallLvgl
  BY <1>11, CallShape, ChosenIsSource, NotYetSet DEF CallLvgl, Call, Ui
<1>12. CASE CallOsd
  BY <1>12, CallShape, ChosenIsSource, NotYetSet DEF CallOsd, Call, Ui
<1>13. CASE CallConf
  BY <1>13, CallShape, ChosenIsSource, NotYetSet DEF CallConf, Call, Ui
<1>14. CASE CallHdmi
  BY <1>14, CallShape, ChosenIsSource, NotYetSet DEF CallHdmi, Call
<1>15. CASE CallFit
  BY <1>15, CallShape, ChosenIsSource, NotYetSet DEF CallFit, Call, Ui
<1>16. CASE CallAv
  BY <1>16, CallShape, ChosenIsSource, NotYetSet DEF CallAv, Call, Ui
<1>17. CASE CallDark
  BY <1>17, CallShape, ChosenIsSource, NotYetSet DEF CallDark, Call, Ui
<1>18. CASE CallLight
  BY <1>18, CallShape, ChosenIsSource, NotYetSet DEF CallLight, Call, Ui
<1>19. CASE CallForget
  BY <1>19, CallShape, ChosenIsSource, NotYetSet DEF CallForget, Call, Ui
<1>20. CASE FhdChange
  BY <1>20 DEF FhdChange, Idle, Ui
<1>21. CASE ToMenu
  BY <1>21, NotYetSet, ChosenIsSource DEF ToMenu, Handles, Begins, Idle
<1>22. CASE ExitMenu
  BY <1>22, NotYetSet, ChosenIsSource DEF ExitMenu, Handles, Begins, Idle
<1>23. CASE \E s \in Sources : SelectSource(s)
  BY <1>23, NotYetSet, ChosenIsSource DEF SelectSource, Handles, Begins, Idle, Selectable
<1>24. CASE OpenSettings
  BY <1>24, NotYetSet, ChosenIsSource DEF OpenSettings, Handles, Begins, Idle
<1>25. CASE ChangeChannel
  BY <1>25, NotYetSet, ChosenIsSource DEF ChangeChannel, Handles, Begins, Idle
<1>26. CASE GoSleep
  BY <1>26, NotYetSet, ChosenIsSource DEF GoSleep, Handles, Begins, Idle
<1>27. CASE WakeUp
  BY <1>27, WakeUpShape, NotYetSet, ChosenIsSource
<1>28. CASE RadioAsks
  BY <1>28, NotYetSet, ChosenIsSource DEF RadioAsks, InVideo
<1>29. CASE RadioChanges
  BY <1>29, NotYetSet, ChosenIsSource DEF RadioChanges, Begins, Idle, Sources
<1>30. CASE Protect
  BY <1>30 DEF Protect, Motion
<1>31. CASE Unprotect
  BY <1>31 DEF Unprotect, Motion
<1>32. CASE \E c \in Cams : CamType(c)
  BY <1>32 DEF CamType
<1>33. CASE \E s \in Signals \cup Unknown \cup {"none"} : HdmiSignal(s)
  BY <1>33 DEF HdmiSignal
<1>34. CASE UNCHANGED vars
  BY <1>34 DEF vars
<1> QED
  BY <1>1, <1>2, <1>3, <1>4, <1>5, <1>6, <1>7, <1>8, <1>9, <1>10, <1>11, <1>12, <1>13, <1>14, <1>15,
     <1>16, <1>17, <1>18, <1>19, <1>20, <1>21, <1>22, <1>23, <1>24, <1>25, <1>26, <1>27, <1>28,
     <1>29, <1>30, <1>31, <1>32, <1>33, <1>34
     DEF Next, Detection, Calls, Handlers, Protection, Outside

LEMMA ReceivedStep ==
  ASSUME Flags, Values, Shape, Received, Timings, [Next]_vars
  PROVE  Received'
<1> USE DEF Received, Set, Values, InVideo, where, display, camera, layout, hdmi
<1>1. CASE Compare
  BY <1>1 DEF Compare, Peripheral
<1>2. CASE DetectShow
  BY <1>2 DEF DetectShow, Peripheral, Shows, Timings, Busy
<1>3. CASE DetectFhd
  BY <1>3 DEF DetectFhd, Peripheral
<1>4. CASE DetectConf
  BY <1>4 DEF DetectConf, Peripheral
<1>5. CASE DetectLast
  BY <1>5 DEF DetectLast, Peripheral
<1>6. CASE DetectAv
  BY <1>6 DEF DetectAv, Peripheral
<1>7. CASE DetectHdmi
  BY <1>7 DEF DetectHdmi, NewTiming, NoTiming, Peripheral
<1>8. CASE CallMenu
  BY <1>8, CallShape, ChosenIsSource, NotYetSet DEF CallMenu, Call, Ui
<1>9. CASE CallPick
  BY <1>9, CallShape, ChosenIsSource, NotYetSet DEF CallPick, Call, Ui
<1>10. CASE CallShow
  BY <1>10, CallShape, ChosenIsSource, NotYetSet DEF CallShow, Shows, Call, Ui
<1>11. CASE CallLvgl
  BY <1>11, CallShape, ChosenIsSource, NotYetSet DEF CallLvgl, Call, Ui
<1>12. CASE CallOsd
  BY <1>12, CallShape, ChosenIsSource, NotYetSet DEF CallOsd, Call, Ui
<1>13. CASE CallConf
  BY <1>13, CallShape, ChosenIsSource, NotYetSet DEF CallConf, Call, Ui
<1>14. CASE CallHdmi
  BY <1>14, CallShape, ChosenIsSource, NotYetSet DEF CallHdmi, Call
<1>15. CASE CallFit
  BY <1>15, CallShape, ChosenIsSource, NotYetSet DEF CallFit, Call, Ui
<1>16. CASE CallAv
  BY <1>16, CallShape, ChosenIsSource, NotYetSet DEF CallAv, Call, Ui
<1>17. CASE CallDark
  BY <1>17, CallShape, ChosenIsSource, NotYetSet DEF CallDark, Call, Ui
<1>18. CASE CallLight
  BY <1>18, CallShape, ChosenIsSource, NotYetSet DEF CallLight, Call, Ui
<1>19. CASE CallForget
  BY <1>19, CallShape, ChosenIsSource, NotYetSet DEF CallForget, Call, Ui
<1>20. CASE FhdChange
  BY <1>20 DEF FhdChange, Idle, Ui
<1>21. CASE ToMenu
  BY <1>21, NotYetSet, ChosenIsSource DEF ToMenu, Handles, Begins, Idle
<1>22. CASE ExitMenu
  BY <1>22, NotYetSet, ChosenIsSource DEF ExitMenu, Handles, Begins, Idle
<1>23. CASE \E s \in Sources : SelectSource(s)
  BY <1>23, NotYetSet, ChosenIsSource DEF SelectSource, Handles, Begins, Idle, Selectable
<1>24. CASE OpenSettings
  BY <1>24, NotYetSet, ChosenIsSource DEF OpenSettings, Handles, Begins, Idle
<1>25. CASE ChangeChannel
  BY <1>25, NotYetSet, ChosenIsSource DEF ChangeChannel, Handles, Begins, Idle
<1>26. CASE GoSleep
  BY <1>26, NotYetSet, ChosenIsSource DEF GoSleep, Handles, Begins, Idle
<1>27. CASE WakeUp
  BY <1>27, WakeUpShape, NotYetSet, ChosenIsSource
<1>28. CASE RadioAsks
  BY <1>28, NotYetSet, ChosenIsSource DEF RadioAsks, InVideo
<1>29. CASE RadioChanges
  BY <1>29, NotYetSet, ChosenIsSource DEF RadioChanges, Begins, Idle, Sources
<1>30. CASE Protect
  BY <1>30 DEF Protect, Motion
<1>31. CASE Unprotect
  BY <1>31 DEF Unprotect, Motion
<1>32. CASE \E c \in Cams : CamType(c)
  BY <1>32 DEF CamType
<1>33. CASE \E s \in Signals \cup Unknown \cup {"none"} : HdmiSignal(s)
  BY <1>33 DEF HdmiSignal
<1>34. CASE UNCHANGED vars
  BY <1>34 DEF vars
<1> QED
  BY <1>1, <1>2, <1>3, <1>4, <1>5, <1>6, <1>7, <1>8, <1>9, <1>10, <1>11, <1>12, <1>13, <1>14, <1>15,
     <1>16, <1>17, <1>18, <1>19, <1>20, <1>21, <1>22, <1>23, <1>24, <1>25, <1>26, <1>27, <1>28,
     <1>29, <1>30, <1>31, <1>32, <1>33, <1>34
     DEF Next, Detection, Calls, Handlers, Protection, Outside

LEMMA PicturedStep ==
  ASSUME Flags, Values, Shape, Timings, Modes, Pictured, [Next]_vars
  PROVE  Pictured'
<1> USE VideoAssumption DEF Pictured, Pending, Values, InVideo, Chosen, Set, Rest, Fits, Modes, Timings, Busy, where, display, camera, layout, hdmi
<1>1. CASE Compare
  BY <1>1 DEF Compare, Peripheral
<1>2. CASE DetectShow
  BY <1>2 DEF DetectShow, Peripheral, Shows
<1>3. CASE DetectFhd
  BY <1>3 DEF DetectFhd, Peripheral
<1>4. CASE DetectConf
  BY <1>4 DEF DetectConf, Peripheral
<1>5. CASE DetectLast
  BY <1>5 DEF DetectLast, Peripheral
<1>6. CASE DetectAv
  BY <1>6 DEF DetectAv, Peripheral
<1>7. CASE DetectHdmi
  BY <1>7 DEF DetectHdmi, NewTiming, NoTiming, Peripheral
<1>8. CASE CallMenu
  BY <1>8, CallShape, ChosenIsSource, NotYetSet, Apart DEF CallMenu, Call, Ui
<1>9. CASE CallPick
  BY <1>9, CallShape, ChosenIsSource, NotYetSet, Apart DEF CallPick, Call, Ui
<1>10. CASE CallShow
  BY <1>10, CallShape, ChosenIsSource, NotYetSet, Apart DEF CallShow, Shows, Call, Ui
<1>11. CASE CallLvgl
  BY <1>11, CallShape, ChosenIsSource, NotYetSet, Apart DEF CallLvgl, Call, Ui
<1>12. CASE CallOsd
  BY <1>12, CallShape, ChosenIsSource, NotYetSet, Apart DEF CallOsd, Call, Ui
<1>13. CASE CallConf
  BY <1>13, CallShape, ChosenIsSource, NotYetSet, Apart DEF CallConf, Call, Ui
<1>14. CASE CallHdmi
  BY <1>14, CallShape, ChosenIsSource, NotYetSet, Apart DEF CallHdmi, Call
<1>15. CASE CallFit
  BY <1>15, CallShape, ChosenIsSource, NotYetSet, Apart DEF CallFit, Call, Ui
<1>16. CASE CallAv
  BY <1>16, CallShape, ChosenIsSource, NotYetSet, Apart DEF CallAv, Call, Ui
<1>17. CASE CallDark
  BY <1>17, CallShape, ChosenIsSource, NotYetSet, Apart DEF CallDark, Call, Ui
<1>18. CASE CallLight
  BY <1>18, CallShape, ChosenIsSource, NotYetSet, Apart DEF CallLight, Call, Ui
<1>19. CASE CallForget
  BY <1>19, CallShape, ChosenIsSource, NotYetSet, Apart DEF CallForget, Call, Ui
<1>20. CASE FhdChange
  BY <1>20, ChosenIsSource, Apart DEF FhdChange, Idle, Ui
<1>21. CASE ToMenu
  BY <1>21, NotYetSet, Apart, ChosenIsSource DEF ToMenu, Handles, Begins, Idle
<1>22. CASE ExitMenu
  BY <1>22, NotYetSet, Apart, ChosenIsSource DEF ExitMenu, Handles, Begins, Idle
<1>23. CASE \E s \in Sources : SelectSource(s)
  BY <1>23, NotYetSet, Apart, ChosenIsSource DEF SelectSource, Handles, Begins, Idle, Selectable
<1>24. CASE OpenSettings
  BY <1>24, NotYetSet, Apart, ChosenIsSource DEF OpenSettings, Handles, Begins, Idle
<1>25. CASE ChangeChannel
  BY <1>25, NotYetSet, Apart, ChosenIsSource DEF ChangeChannel, Handles, Begins, Idle
<1>26. CASE GoSleep
  BY <1>26, NotYetSet, Apart, ChosenIsSource DEF GoSleep, Handles, Begins, Idle
<1>27. CASE WakeUp
  BY <1>27, WakeUpShape, NotYetSet, Apart, ChosenIsSource
<1>28. CASE RadioAsks
  BY <1>28 DEF RadioAsks
<1>29. CASE RadioChanges
  BY <1>29, NotYetSet, Apart, ChosenIsSource DEF RadioChanges, Begins, Idle, Sources
<1>30. CASE Protect
  BY <1>30 DEF Protect, Motion
<1>31. CASE Unprotect
  BY <1>31 DEF Unprotect, Motion
<1>32. CASE \E c \in Cams : CamType(c)
  BY <1>32, ChosenIsSource, Apart DEF CamType, Idle
<1>33. CASE \E s \in Signals \cup Unknown \cup {"none"} : HdmiSignal(s)
  BY <1>33 DEF HdmiSignal
<1>34. CASE UNCHANGED vars
  BY <1>34 DEF vars
<1> QED
  BY <1>1, <1>2, <1>3, <1>4, <1>5, <1>6, <1>7, <1>8, <1>9, <1>10, <1>11, <1>12, <1>13, <1>14, <1>15,
     <1>16, <1>17, <1>18, <1>19, <1>20, <1>21, <1>22, <1>23, <1>24, <1>25, <1>26, <1>27, <1>28,
     <1>29, <1>30, <1>31, <1>32, <1>33, <1>34
     DEF Next, Detection, Calls, Handlers, Protection, Outside

LEMMA AskedStep ==
  ASSUME Flags, Values, Shape, Timings, Modes, Pictured, Laid, Asked, [Next]_vars
  PROVE  Asked'
<1> USE VideoAssumption DEF Asked, Laid, Pictured, Values, InVideo, Chosen, Set, Rest, Fits, Modes, Timings, Busy, Pending, Size, where, display, camera, layout, hdmi
<1>1. CASE Compare
  BY <1>1 DEF Compare, Peripheral
<1>2. CASE DetectShow
  BY <1>2 DEF DetectShow, Peripheral, Shows
<1>3. CASE DetectFhd
  BY <1>3 DEF DetectFhd, Peripheral
<1>4. CASE DetectConf
  BY <1>4 DEF DetectConf, Peripheral
<1>5. CASE DetectLast
  BY <1>5 DEF DetectLast, Peripheral
<1>6. CASE DetectAv
  BY <1>6 DEF DetectAv, Peripheral
<1>7. CASE DetectHdmi
  BY <1>7 DEF DetectHdmi, NewTiming, NoTiming, Peripheral
<1>8. CASE CallMenu
  BY <1>8, CallShape, ChosenIsSource, NotYetSet, Apart DEF CallMenu, Call, Ui
<1>9. CASE CallPick
  BY <1>9, CallShape, ChosenIsSource, NotYetSet, Apart DEF CallPick, Call, Ui
<1>10. CASE CallShow
  BY <1>10, CallShape, ChosenIsSource, NotYetSet, Apart DEF CallShow, Shows, Call, Ui
<1>11. CASE CallLvgl
  BY <1>11, CallShape, ChosenIsSource, NotYetSet, Apart DEF CallLvgl, Call, Ui
<1>12. CASE CallOsd
  BY <1>12, CallShape, ChosenIsSource, NotYetSet, Apart DEF CallOsd, Call, Ui
<1>13. CASE CallConf
  BY <1>13, CallShape, ChosenIsSource, NotYetSet, Apart DEF CallConf, Call, Ui
<1>14. CASE CallHdmi
  BY <1>14, CallShape, ChosenIsSource, NotYetSet, Apart DEF CallHdmi, Call
<1>15. CASE CallFit
  BY <1>15, CallShape, ChosenIsSource, NotYetSet, Apart DEF CallFit, Call, Ui
<1>16. CASE CallAv
  BY <1>16, CallShape, ChosenIsSource, NotYetSet, Apart DEF CallAv, Call, Ui
<1>17. CASE CallDark
  BY <1>17, CallShape, ChosenIsSource, NotYetSet, Apart DEF CallDark, Call, Ui
<1>18. CASE CallLight
  BY <1>18, CallShape, ChosenIsSource, NotYetSet, Apart DEF CallLight, Call, Ui
<1>19. CASE CallForget
  BY <1>19, CallShape, ChosenIsSource, NotYetSet, Apart DEF CallForget, Call, Ui
<1>20. CASE FhdChange
  BY <1>20, ChosenIsSource, Apart DEF FhdChange, Idle, Ui
<1>21. CASE ToMenu
  BY <1>21, NotYetSet, Apart, ChosenIsSource DEF ToMenu, Handles, Begins, Idle
<1>22. CASE ExitMenu
  BY <1>22, NotYetSet, Apart, ChosenIsSource DEF ExitMenu, Handles, Begins, Idle
<1>23. CASE \E s \in Sources : SelectSource(s)
  BY <1>23, NotYetSet, Apart, ChosenIsSource DEF SelectSource, Handles, Begins, Idle, Selectable
<1>24. CASE OpenSettings
  BY <1>24, NotYetSet, Apart, ChosenIsSource DEF OpenSettings, Handles, Begins, Idle
<1>25. CASE ChangeChannel
  BY <1>25, NotYetSet, Apart, ChosenIsSource DEF ChangeChannel, Handles, Begins, Idle
<1>26. CASE GoSleep
  BY <1>26, NotYetSet, Apart, ChosenIsSource DEF GoSleep, Handles, Begins, Idle
<1>27. CASE WakeUp
  BY <1>27, WakeUpShape, NotYetSet, Apart, ChosenIsSource
<1>28. CASE RadioAsks
  BY <1>28 DEF RadioAsks
<1>29. CASE RadioChanges
  BY <1>29, NotYetSet, Apart, ChosenIsSource DEF RadioChanges, Begins, Idle, Sources
<1>30. CASE Protect
  BY <1>30 DEF Protect, Motion
<1>31. CASE Unprotect
  BY <1>31 DEF Unprotect, Motion
<1>32. CASE \E c \in Cams : CamType(c)
  BY <1>32, ChosenIsSource, Apart DEF CamType, Idle
<1>33. CASE \E s \in Signals \cup Unknown \cup {"none"} : HdmiSignal(s)
  BY <1>33 DEF HdmiSignal
<1>34. CASE UNCHANGED vars
  BY <1>34 DEF vars
<1> QED
  BY <1>1, <1>2, <1>3, <1>4, <1>5, <1>6, <1>7, <1>8, <1>9, <1>10, <1>11, <1>12, <1>13, <1>14, <1>15,
     <1>16, <1>17, <1>18, <1>19, <1>20, <1>21, <1>22, <1>23, <1>24, <1>25, <1>26, <1>27, <1>28,
     <1>29, <1>30, <1>31, <1>32, <1>33, <1>34
     DEF Next, Detection, Calls, Handlers, Protection, Outside

LEMMA LaidStep ==
  ASSUME Flags, Values, Shape, Timings, Modes, Pictured, Asked, Laid, [Next]_vars
  PROVE  Laid'
<1> USE VideoAssumption DEF Laid, Asked, Pictured, Coming, Fitting, Values, InVideo, Chosen, Set, Rest, Fits, Modes, Timings, Busy, Pending, Size, where, display, camera, layout, hdmi
<1>1. CASE Compare
  BY <1>1 DEF Compare, Peripheral
<1>2. CASE DetectShow
  BY <1>2 DEF DetectShow, Peripheral, Shows
<1>3. CASE DetectFhd
  BY <1>3 DEF DetectFhd, Peripheral
<1>4. CASE DetectConf
  BY <1>4 DEF DetectConf, Peripheral
<1>5. CASE DetectLast
  BY <1>5 DEF DetectLast, Peripheral
<1>6. CASE DetectAv
  BY <1>6 DEF DetectAv, Peripheral
<1>7. CASE DetectHdmi
  BY <1>7 DEF DetectHdmi, NewTiming, NoTiming, Peripheral
<1>8. CASE CallMenu
  BY <1>8, CallShape, ChosenIsSource, NotYetSet, Apart DEF CallMenu, Call, Ui
<1>9. CASE CallPick
  BY <1>9, CallShape, ChosenIsSource, NotYetSet, Apart DEF CallPick, Call, Ui
<1>10. CASE CallShow
  BY <1>10, CallShape, ChosenIsSource, NotYetSet, Apart DEF CallShow, Shows, Call, Ui
<1>11. CASE CallLvgl
  BY <1>11, CallShape, ChosenIsSource, NotYetSet, Apart DEF CallLvgl, Call, Ui
<1>12. CASE CallOsd
  BY <1>12, CallShape, ChosenIsSource, NotYetSet, Apart DEF CallOsd, Call, Ui
<1>13. CASE CallConf
  BY <1>13, CallShape, ChosenIsSource, NotYetSet, Apart DEF CallConf, Call, Ui
<1>14. CASE CallHdmi
  BY <1>14, CallShape, ChosenIsSource, NotYetSet, Apart DEF CallHdmi, Call
<1>15. CASE CallFit
  BY <1>15, CallShape, ChosenIsSource, NotYetSet, Apart DEF CallFit, Call, Ui
<1>16. CASE CallAv
  BY <1>16, CallShape, ChosenIsSource, NotYetSet, Apart DEF CallAv, Call, Ui
<1>17. CASE CallDark
  BY <1>17, CallShape, ChosenIsSource, NotYetSet, Apart DEF CallDark, Call, Ui
<1>18. CASE CallLight
  BY <1>18, CallShape, ChosenIsSource, NotYetSet, Apart DEF CallLight, Call, Ui
<1>19. CASE CallForget
  BY <1>19, CallShape, ChosenIsSource, NotYetSet, Apart DEF CallForget, Call, Ui
<1>20. CASE FhdChange
  BY <1>20, ChosenIsSource, Apart DEF FhdChange, Idle, Ui
<1>21. CASE ToMenu
  BY <1>21, NotYetSet, Apart, ChosenIsSource DEF ToMenu, Handles, Begins, Idle
<1>22. CASE ExitMenu
  BY <1>22, NotYetSet, Apart, ChosenIsSource DEF ExitMenu, Handles, Begins, Idle
<1>23. CASE \E s \in Sources : SelectSource(s)
  BY <1>23, NotYetSet, Apart, ChosenIsSource DEF SelectSource, Handles, Begins, Idle, Selectable
<1>24. CASE OpenSettings
  BY <1>24, NotYetSet, Apart, ChosenIsSource DEF OpenSettings, Handles, Begins, Idle
<1>25. CASE ChangeChannel
  BY <1>25, NotYetSet, Apart, ChosenIsSource DEF ChangeChannel, Handles, Begins, Idle
<1>26. CASE GoSleep
  BY <1>26, NotYetSet, Apart, ChosenIsSource DEF GoSleep, Handles, Begins, Idle
<1>27. CASE WakeUp
  BY <1>27, WakeUpShape, NotYetSet, Apart, ChosenIsSource
<1>28. CASE RadioAsks
  BY <1>28 DEF RadioAsks
<1>29. CASE RadioChanges
  BY <1>29, NotYetSet, Apart, ChosenIsSource DEF RadioChanges, Begins, Idle, Sources
<1>30. CASE Protect
  BY <1>30 DEF Protect, Motion
<1>31. CASE Unprotect
  BY <1>31 DEF Unprotect, Motion
<1>32. CASE \E c \in Cams : CamType(c)
  <2>1. PICK c \in Cams : CamType(c)
    BY <1>32
  <2>2. UNCHANGED <<app, todo, mode, per, camLast, fhdReq, layout>>
    BY <2>1 DEF CamType
  <2>3. camMode' \in Cams /\ (calm' => calm /\ todo = <<>> /\ ~Busy /\ fhdReq = "none"
                                 /\ (mode = "HDZERO" => camLast = camMode))
    BY <2>1 DEF CamType, Idle
  <2> QED
    BY <2>2, <2>3, Apart, ChosenIsSource
<1>33. CASE \E s \in Signals \cup Unknown \cup {"none"} : HdmiSignal(s)
  BY <1>33 DEF HdmiSignal
<1>34. CASE UNCHANGED vars
  BY <1>34 DEF vars
<1> QED
  BY <1>1, <1>2, <1>3, <1>4, <1>5, <1>6, <1>7, <1>8, <1>9, <1>10, <1>11, <1>12, <1>13, <1>14, <1>15,
     <1>16, <1>17, <1>18, <1>19, <1>20, <1>21, <1>22, <1>23, <1>24, <1>25, <1>26, <1>27, <1>28,
     <1>29, <1>30, <1>31, <1>32, <1>33, <1>34
     DEF Next, Detection, Calls, Handlers, Protection, Outside

LEMMA PlainStep ==
  ASSUME Flags, Values, Shape, Timings, Modes, Asked, Plain, [Next]_vars
  PROVE  Plain'
<1> USE VideoAssumption DEF Plain, Values, InVideo, Chosen, Set, Rest, Fits, Modes, Timings, Busy, Asked, where, display, camera, layout, hdmi
<1>1. CASE Compare
  BY <1>1 DEF Compare, Peripheral
<1>2. CASE DetectShow
  BY <1>2 DEF DetectShow, Peripheral, Shows
<1>3. CASE DetectFhd
  BY <1>3 DEF DetectFhd, Peripheral
<1>4. CASE DetectConf
  BY <1>4 DEF DetectConf, Peripheral
<1>5. CASE DetectLast
  BY <1>5 DEF DetectLast, Peripheral
<1>6. CASE DetectAv
  BY <1>6 DEF DetectAv, Peripheral
<1>7. CASE DetectHdmi
  BY <1>7 DEF DetectHdmi, NewTiming, NoTiming, Peripheral
<1>8. CASE CallMenu
  BY <1>8, CallShape, ChosenIsSource, NotYetSet, Apart DEF CallMenu, Call, Ui
<1>9. CASE CallPick
  BY <1>9, CallShape, ChosenIsSource, NotYetSet, Apart DEF CallPick, Call, Ui
<1>10. CASE CallShow
  BY <1>10, CallShape, ChosenIsSource, NotYetSet, Apart DEF CallShow, Shows, Call, Ui
<1>11. CASE CallLvgl
  BY <1>11, CallShape, ChosenIsSource, NotYetSet, Apart DEF CallLvgl, Call, Ui
<1>12. CASE CallOsd
  BY <1>12, CallShape, ChosenIsSource, NotYetSet, Apart DEF CallOsd, Call, Ui
<1>13. CASE CallConf
  BY <1>13, CallShape, ChosenIsSource, NotYetSet, Apart DEF CallConf, Call, Ui
<1>14. CASE CallHdmi
  BY <1>14, CallShape, ChosenIsSource, NotYetSet, Apart DEF CallHdmi, Call
<1>15. CASE CallFit
  BY <1>15, CallShape, ChosenIsSource, NotYetSet, Apart DEF CallFit, Call, Ui
<1>16. CASE CallAv
  BY <1>16, CallShape, ChosenIsSource, NotYetSet, Apart DEF CallAv, Call, Ui
<1>17. CASE CallDark
  BY <1>17, CallShape, ChosenIsSource, NotYetSet, Apart DEF CallDark, Call, Ui
<1>18. CASE CallLight
  BY <1>18, CallShape, ChosenIsSource, NotYetSet, Apart DEF CallLight, Call, Ui
<1>19. CASE CallForget
  BY <1>19, CallShape, ChosenIsSource, NotYetSet, Apart DEF CallForget, Call, Ui
<1>20. CASE FhdChange
  BY <1>20, ChosenIsSource, Apart DEF FhdChange, Idle, Ui
<1>21. CASE ToMenu
  BY <1>21, NotYetSet, Apart, ChosenIsSource DEF ToMenu, Handles, Begins, Idle
<1>22. CASE ExitMenu
  BY <1>22, NotYetSet, Apart, ChosenIsSource DEF ExitMenu, Handles, Begins, Idle
<1>23. CASE \E s \in Sources : SelectSource(s)
  <2>1. PICK s \in Sources : SelectSource(s)
    BY <1>23
  <2>2. UNCHANGED <<mode, layout>> /\ app' = "video" /\ (calm' => calm)
    BY <2>1 DEF SelectSource, Handles, Begins
  <2> QED
    BY <2>2
<1>24. CASE OpenSettings
  BY <1>24, NotYetSet, Apart, ChosenIsSource DEF OpenSettings, Handles, Begins, Idle
<1>25. CASE ChangeChannel
  BY <1>25, NotYetSet, Apart, ChosenIsSource DEF ChangeChannel, Handles, Begins, Idle
<1>26. CASE GoSleep
  BY <1>26, NotYetSet, Apart, ChosenIsSource DEF GoSleep, Handles, Begins, Idle
<1>27. CASE WakeUp
  BY <1>27, WakeUpShape, NotYetSet, Apart, ChosenIsSource
<1>28. CASE RadioAsks
  BY <1>28 DEF RadioAsks
<1>29. CASE RadioChanges
  BY <1>29, NotYetSet, Apart, ChosenIsSource DEF RadioChanges, Begins, Idle, Sources
<1>30. CASE Protect
  BY <1>30 DEF Protect, Motion
<1>31. CASE Unprotect
  BY <1>31 DEF Unprotect, Motion
<1>32. CASE \E c \in Cams : CamType(c)
  <2>1. PICK c \in Cams : CamType(c)
    BY <1>32
  <2>2. UNCHANGED <<app, previous, todo, mode, layout>>
    BY <2>1 DEF CamType
  <2>3. calm' => calm
    BY <2>1 DEF CamType, Idle
  <2> QED
    BY <2>2, <2>3
<1>33. CASE \E s \in Signals \cup Unknown \cup {"none"} : HdmiSignal(s)
  BY <1>33 DEF HdmiSignal
<1>34. CASE UNCHANGED vars
  BY <1>34 DEF vars
<1> QED
  BY <1>1, <1>2, <1>3, <1>4, <1>5, <1>6, <1>7, <1>8, <1>9, <1>10, <1>11, <1>12, <1>13, <1>14, <1>15,
     <1>16, <1>17, <1>18, <1>19, <1>20, <1>21, <1>22, <1>23, <1>24, <1>25, <1>26, <1>27, <1>28,
     <1>29, <1>30, <1>31, <1>32, <1>33, <1>34
     DEF Next, Detection, Calls, Handlers, Protection, Outside

LEMMA SeenStep ==
  ASSUME Flags, Values, Shape, Timings, Modes, Seen, [Next]_vars
  PROVE  Seen'
<1> USE VideoAssumption DEF Seen, Values, InVideo, Chosen, Set, Rest, Fits, Modes, Timings, Busy, where, display, camera, layout, hdmi
<1>1. CASE Compare
  BY <1>1 DEF Compare, Peripheral
<1>2. CASE DetectShow
  BY <1>2 DEF DetectShow, Peripheral, Shows
<1>3. CASE DetectFhd
  BY <1>3 DEF DetectFhd, Peripheral
<1>4. CASE DetectConf
  BY <1>4 DEF DetectConf, Peripheral
<1>5. CASE DetectLast
  BY <1>5 DEF DetectLast, Peripheral
<1>6. CASE DetectAv
  BY <1>6 DEF DetectAv, Peripheral
<1>7. CASE DetectHdmi
  BY <1>7 DEF DetectHdmi, NewTiming, NoTiming, Peripheral
<1>8. CASE CallMenu
  BY <1>8, CallShape, ChosenIsSource, NotYetSet, Apart DEF CallMenu, Call, Ui
<1>9. CASE CallPick
  BY <1>9, CallShape, ChosenIsSource, NotYetSet, Apart DEF CallPick, Call, Ui
<1>10. CASE CallShow
  BY <1>10, CallShape, ChosenIsSource, NotYetSet, Apart DEF CallShow, Shows, Call, Ui
<1>11. CASE CallLvgl
  BY <1>11, CallShape, ChosenIsSource, NotYetSet, Apart DEF CallLvgl, Call, Ui
<1>12. CASE CallOsd
  BY <1>12, CallShape, ChosenIsSource, NotYetSet, Apart DEF CallOsd, Call, Ui
<1>13. CASE CallConf
  BY <1>13, CallShape, ChosenIsSource, NotYetSet, Apart DEF CallConf, Call, Ui
<1>14. CASE CallHdmi
  BY <1>14, CallShape, ChosenIsSource, NotYetSet, Apart DEF CallHdmi, Call
<1>15. CASE CallFit
  BY <1>15, CallShape, ChosenIsSource, NotYetSet, Apart DEF CallFit, Call, Ui
<1>16. CASE CallAv
  BY <1>16, CallShape, ChosenIsSource, NotYetSet, Apart DEF CallAv, Call, Ui
<1>17. CASE CallDark
  BY <1>17, CallShape, ChosenIsSource, NotYetSet, Apart DEF CallDark, Call, Ui
<1>18. CASE CallLight
  BY <1>18, CallShape, ChosenIsSource, NotYetSet, Apart DEF CallLight, Call, Ui
<1>19. CASE CallForget
  BY <1>19, CallShape, ChosenIsSource, NotYetSet, Apart DEF CallForget, Call, Ui
<1>20. CASE FhdChange
  BY <1>20, ChosenIsSource, Apart DEF FhdChange, Idle, Ui
<1>21. CASE ToMenu
  BY <1>21, NotYetSet, Apart, ChosenIsSource DEF ToMenu, Handles, Begins, Idle
<1>22. CASE ExitMenu
  BY <1>22, NotYetSet, Apart, ChosenIsSource DEF ExitMenu, Handles, Begins, Idle
<1>23. CASE \E s \in Sources : SelectSource(s)
  BY <1>23, NotYetSet, Apart, ChosenIsSource DEF SelectSource, Handles, Begins, Idle, Selectable
<1>24. CASE OpenSettings
  BY <1>24, NotYetSet, Apart, ChosenIsSource DEF OpenSettings, Handles, Begins, Idle
<1>25. CASE ChangeChannel
  BY <1>25, NotYetSet, Apart, ChosenIsSource DEF ChangeChannel, Handles, Begins, Idle
<1>26. CASE GoSleep
  BY <1>26, NotYetSet, Apart, ChosenIsSource DEF GoSleep, Handles, Begins, Idle
<1>27. CASE WakeUp
  BY <1>27, WakeUpShape, NotYetSet, Apart, ChosenIsSource
<1>28. CASE RadioAsks
  BY <1>28 DEF RadioAsks
<1>29. CASE RadioChanges
  BY <1>29, NotYetSet, Apart, ChosenIsSource DEF RadioChanges, Begins, Idle, Sources
<1>30. CASE Protect
  BY <1>30 DEF Protect, Motion
<1>31. CASE Unprotect
  BY <1>31 DEF Unprotect, Motion
<1>32. CASE \E c \in Cams : CamType(c)
  <2>1. PICK c \in Cams : CamType(c)
    BY <1>32
  <2>2. UNCHANGED <<app, todo, mode, timing, vtmgLast, conf, protected, oled>>
    BY <2>1 DEF CamType
  <2>3. calm' => calm
    BY <2>1 DEF CamType, Idle
  <2> QED
    BY <2>2, <2>3
<1>33. CASE \E s \in Signals \cup Unknown \cup {"none"} : HdmiSignal(s)
  BY <1>33 DEF HdmiSignal
<1>34. CASE UNCHANGED vars
  BY <1>34 DEF vars
<1> QED
  BY <1>1, <1>2, <1>3, <1>4, <1>5, <1>6, <1>7, <1>8, <1>9, <1>10, <1>11, <1>12, <1>13, <1>14, <1>15,
     <1>16, <1>17, <1>18, <1>19, <1>20, <1>21, <1>22, <1>23, <1>24, <1>25, <1>26, <1>27, <1>28,
     <1>29, <1>30, <1>31, <1>32, <1>33, <1>34
     DEF Next, Detection, Calls, Handlers, Protection, Outside

LEMMA Initial ==
  ASSUME Init
  PROVE  IInv
<1> USE VideoAssumption DEF Init
<1>1. TypeOK
  <2>1. Values
    BY DEF Values, Sources
  <2>2. Flags
    BY Zenon DEF Flags
  <2>3. todo \in Seq(Ops)
    OBVIOUS
  <2> QED
    BY <2>1, <2>2, <2>3, Zenon DEF TypeOK, Values, Flags
<1>2. Shape /\ Timings /\ Modes
  BY DEF Shape, Timings, Busy, Modes, Set, InVideo, Chosen
<1>3. Lit /\ Received
  BY DEF Lit, Received
<1>4. Pictured /\ Asked /\ Laid /\ Plain /\ Seen
  BY Heads DEF Pictured, Asked, Laid, Plain, Seen, Fitting, Coming, Size, Rest, Fits, Set, Busy
<1> QED
  BY <1>1, <1>2, <1>3, <1>4 DEF IInv

LEMMA Inductive ==
  ASSUME IInv, [Next]_vars
  PROVE  IInv'
<1>1. /\ Flags /\ Values /\ todo \in Seq(Ops) /\ Shape /\ Timings /\ Modes /\ Lit /\ Received
      /\ Pictured /\ Asked /\ Laid /\ Plain /\ Seen
  BY Zenon DEF IInv, TypeOK, Flags, Values
<1>2. Flags' /\ Values' /\ todo' \in Seq(Ops)
  BY <1>1, FlagsStep, ValuesStep, TodoStep DEF Values
<1>3. TypeOK'
  BY <1>2, Zenon DEF TypeOK, Flags, Values
<1>4. Shape' /\ Timings' /\ Modes'
  BY <1>1, ShapeStep, TimingsStep, ModesStep
<1>5. Lit' /\ Received'
  BY <1>1, LitStep, ReceivedStep
<1>6. Pictured' /\ Asked' /\ Laid' /\ Plain' /\ Seen'
  BY <1>1, PicturedStep, AskedStep, LaidStep, PlainStep, SeenStep
<1> QED
  BY <1>3, <1>4, <1>5, <1>6 DEF IInv
-----------------------------------------------------------------------------
(* The theorems                                                            *)

\* The variables have their types: ui never has a call to make that does not
\* exist, and shows no camera before it knows which.
THEOREM TypeCorrect == Spec => []TypeOK
<1>1. Init => IInv
  BY Initial
<1>2. IInv /\ [Next]_vars => IInv'
  BY Inductive
<1>3. IInv => TypeOK
  BY DEF IInv
<1> QED
  BY <1>1, <1>2, <1>3, PTL DEF Spec

\* When ui rests, the display shows the menu or the source that is chosen,
\* with a timing of that source, whatever the detection, the camera and the
\* HDMI input have done in between (hardware.c:808-833, 602, 920, 1088).
THEOREM DisplayFollows == Spec => []ModeFollows
<1>1. Init => IInv
  BY Initial
<1>2. IInv /\ [Next]_vars => IInv'
  BY Inductive
<1>3. IInv => ModeFollows
  BY DEF IInv, Timings, Modes, Set, ModeFollows, Idle
<1> QED
  BY <1>1, <1>2, <1>3, PTL DEF Spec

\* No order of sleeping, waking, protecting the OLED and changing the source
\* leaves the goggle awake and dark, but for the HDMI input
\* (ht.c:106-145, sleep_mode.c:26-92).
THEOREM NeverDark == Spec => []ScreenOn
<1>1. Init => IInv
  BY Initial
<1>2. IInv /\ [Next]_vars => IInv'
  BY Inductive
<1>3. IInv => ScreenOn
  BY DEF IInv, Lit, Set, ScreenOn, Idle
<1> QED
  BY <1>1, <1>2, <1>3, PTL DEF Spec

\* The video of HDZero has its receiver (ht.c:111-114, 134-138,
\* sleep_mode.c:39, app_state.c:188).
THEOREM ReceiverOpen == Spec => []VideoHasReceiver
<1>1. Init => IInv
  BY Initial
<1>2. IInv /\ [Next]_vars => IInv'
  BY Inductive
<1>3. IInv => VideoHasReceiver
  BY DEF IInv, Received, Set, VideoHasReceiver, Idle
<1> QED
  BY <1>1, <1>2, <1>3, PTL DEF Spec

\* As long as every change of the camera is dealt with before the next one,
\* the camera is shown and recorded as what it is, whether the detection or a
\* handler has shown it (hardware.c:810-847, app_state.c:197-240).
THEOREM CameraShown == Spec => []RightCamera
<1>1. Init => IInv
  BY Initial
<1>2. IInv /\ [Next]_vars => IInv'
  BY Inductive
<1>3. IInv => RightCamera
  BY DEF IInv, Pictured, RightCamera, Settled, Idle, Rest
<1> QED
  BY <1>1, <1>2, <1>3, PTL DEF Spec

\* Under the same condition the OSD and lvgl have the size of what is shown,
\* for any number of cameras of either size: a request for another size is
\* never carried out in front of anything else (osd.c:479-498,
\* hardware.c:839-842, app_state.c:45-48, 224-230).
THEOREM SizesFit == Spec => []LayoutFits
<1>1. Init => IInv
  BY Initial
<1>2. IInv /\ [Next]_vars => IInv'
  BY Inductive
<1>3. IInv => LayoutFits
  BY DEF IInv, Laid, Plain, Modes, Set, Fitting, Coming, LayoutFits, Settled, Idle, Rest
<1> QED
  BY <1>1, <1>2, <1>3, PTL DEF Spec

\* An HDMI signal that HDMI_in_detect has seen is shown, recorded and lit
\* (app_state.c:142-158, hardware.c:1076-1274).
THEOREM HdmiLit == Spec => []HdmiShown
<1>1. Init => IInv
  BY Initial
<1>2. IInv /\ [Next]_vars => IInv'
  BY Inductive
<1>3. IInv => HdmiShown
  BY VideoAssumption DEF IInv, Seen, Timings, HdmiShown, Idle, Rest
<1> QED
  BY <1>1, <1>2, <1>3, PTL DEF Spec
=============================================================================
