-------------------------- MODULE Recorder_proofs ---------------------------
(* Theorems about the record process, for every queue length, every set of *)
(* commands and card states, and whatever fails.                           *)
EXTENDS RecorderRefines, TLAPS

\* A queue that has one message more or one less is still a queue.
LEMMA QueueTypes ==
  ASSUME NEW q \in Seq(Commands)
  PROVE  /\ \A c \in Commands : Append(q, c) \in Seq(Commands)
         /\ q # <<>> => Head(q) \in Commands /\ Tail(q) \in Seq(Commands)
         /\ <<>> \in Seq(Commands)
  OBVIOUS

\* The type invariant in parts: flags, records of flags, everything else.  (SMT
\* takes x = FALSE for ~x and so loses that x is a Boolean; Zenon does not.)
Flags ==
  /\ sdNotify \in BOOLEAN /\ seen \in BOOLEAN
  /\ audio \in BOOLEAN /\ file \in BOOLEAN /\ first \in BOOLEAN
  /\ nowRec \in BOOLEAN /\ broken \in BOOLEAN
  /\ live \in BOOLEAN /\ vipp \in BOOLEAN

Cards ==
  /\ sd \in [mounted : BOOLEAN, full : BOOLEAN, updated : BOOLEAN, checked : BOOLEAN]
  /\ sdstat \in [mounted : BOOLEAN, full : BOOLEAN]

Values ==
  /\ card \in {"absent", "ok", "full"}
  /\ msgs \in Seq(Commands)
  /\ pc \in Locations /\ ret \in {"tick", "livestop", "pack", "exit"}
  /\ stateGo \in RecStates /\ stateGoing \in RecStates
  /\ status \in Status /\ saved \in Status /\ dat \in Status \cup {"Empty"}
  /\ mutex \in {"none", "main", "video", "audio"}
  /\ venc \in {"off", "ready", "run", "cb", "ended"}
  /\ aenc \in {"off", "run", "cb"}

\* The type invariant in the three parts that the proofs below cite.
LEMMA TypeParts == TypeOK <=> Flags /\ Cards /\ Values
  BY DEF TypeOK, Flags, Cards, Values

\* Every variable keeps its type.
LEMMA TypeStep == TypeOK /\ [Next]_vars => TypeOK'
<1> SUFFICES ASSUME Flags, Cards, Values, [Next]_vars PROVE Flags' /\ Cards' /\ Values'
  BY DEF TypeOK, Flags, Cards, Values
<1> USE RecorderAssumption, QueueTypes DEF Flags, Cards, Values, RecStates, Status, Locations,
      cardVars, statVars, recVars, outVars, encVars, Alive
<1>1. CASE FinishSave
  BY <1>1 DEF FinishSave
<1>2. CASE RecvStart
  BY <1>2 DEF RecvStart, Receive, RecordRun, CheckFps, SaveStatus, Call, Skip, At, ShouldStop
<1>3. CASE RecvStop
  BY <1>3 DEF RecvStop, Receive, RecordRun, CheckFps, SaveStatus, Call, Skip, At
<1>4. CASE RecvStartLive
  <2>1. Flags'
    BY <1>4, Zenon DEF RecvStartLive, Receive, LiveStart, At, Going
  <2>2. Values'
    BY <1>4, SMT DEF RecvStartLive, Receive, LiveStart, At, Going
  <2>3. Cards'
    BY <1>4, SMT DEF RecvStartLive, Receive, LiveStart, At, Going
  <2> QED
    BY <2>1, <2>2, <2>3, Zenon
<1>5. CASE RecvStopLive
  BY <1>5 DEF RecvStopLive, Receive, RecordRun, CheckFps, SaveStatus, Call, Skip, At
<1>6. CASE RecvQuit
  BY <1>6 DEF RecvQuit, Call, At
<1>7. CASE RecvNone
  <2>1. Flags'
    BY <1>7, Zenon DEF RecvNone, LiveStop, LiveStart, At, Going
  <2>2. Values'
    BY <1>7, SMT DEF RecvNone, LiveStop, LiveStart, At, Going
  <2>3. Cards'
    BY <1>7, SMT DEF RecvNone, LiveStop, LiveStart, At, Going
  <2> QED
    BY <2>1, <2>2, <2>3, Zenon
<1>8. CASE StopLive
  <2>1. Flags'
    BY <1>8, Zenon DEF StopLive, LiveStop, At, Going
  <2>2. Values'
    BY <1>8, SMT DEF StopLive, LiveStop, At, Going
  <2>3. Cards'
    BY <1>8, SMT DEF StopLive, LiveStop, At, Going
  <2> QED
    BY <2>1, <2>2, <2>3, Zenon
<1>9. CASE NoTick
  BY <1>9 DEF NoTick, At
<1>10. CASE Tick
  BY <1>10 DEF Tick, At
<1>11. CASE CheckDisk
  <2>1. Flags'
    BY <1>11, Zenon DEF CheckDisk, SaveStatus, At
  <2>2. Values'
    BY <1>11, SMT DEF CheckDisk, SaveStatus, At
  <2>3. Cards'
    BY <1>11, Zenon DEF CheckDisk, SaveStatus, At
  <2> QED
    BY <2>1, <2>2, <2>3, Zenon
<1>12. CASE Resave
  BY <1>12 DEF Resave, SaveStatus, At
<1>13. CASE Rerun
  BY <1>13 DEF Rerun, RecordRun, CheckFps, SaveStatus, Call, Skip, At
<1>14. CASE NoPack
  BY <1>14 DEF NoPack, At
<1>15. CASE PackCrash
  BY <1>15 DEF PackCrash, At
<1>16. CASE PackClose
  <2>1. Flags'
    BY <1>16, Zenon DEF PackClose, At
  <2>2. Values'
    BY <1>16, SMT DEF PackClose, At
  <2>3. Cards'
    BY <1>16, SMT DEF PackClose, At
  <2> QED
    BY <2>1, <2>2, <2>3, Zenon
<1>17. CASE PackOpen
  <2>1. Flags'
    BY <1>17, Zenon DEF PackOpen, At
  <2>2. Values'
    BY <1>17, SMT DEF PackOpen, At
  <2>3. Cards'
    BY <1>17, SMT DEF PackOpen, At
  <2> QED
    BY <2>1, <2>2, <2>3, Zenon
<1>18. CASE NoStart
  BY <1>18 DEF NoStart, Return, At
<1>19. CASE Prepare
  BY <1>19 DEF Prepare, At
<1>20. CASE OpenFile
  <2>1. Flags'
    BY <1>20, Zenon DEF OpenFile, SaveStatus, At
  <2>2. Values'
    BY <1>20, SMT DEF OpenFile, SaveStatus, At
  <2>3. Cards'
    BY <1>20, SMT DEF OpenFile, SaveStatus, At
  <2> QED
    BY <2>1, <2>2, <2>3, Zenon
<1>21. CASE StartVideo
  BY <1>21 DEF StartVideo, At
<1>22. CASE StartAudio
  BY <1>22 DEF StartAudio, At
<1>23. CASE Started
  BY <1>23 DEF Started, SaveStatus, Return, At
<1>24. CASE StopAudio
  BY <1>24 DEF StopAudio, At
<1>25. CASE StopVideo
  BY <1>25 DEF StopVideo, At
<1>26. CASE CloseFile
  <2>1. Flags'
    BY <1>26, Zenon DEF CloseFile, SaveStatus, StopStatus, Return, At
  <2>2. Values'
    BY <1>26, SMT DEF CloseFile, SaveStatus, StopStatus, Return, At
  <2>3. Cards'
    BY <1>26, SMT DEF CloseFile, SaveStatus, StopStatus, Return, At
  <2> QED
    BY <2>1, <2>2, <2>3, Zenon
<1>27. CASE Exit
  <2>1. Flags'
    BY <1>27, Zenon DEF Exit, At
  <2>2. Values'
    BY <1>27, SMT DEF Exit, At
  <2>3. Cards'
    BY <1>27, SMT DEF Exit, At
  <2> QED
    BY <2>1, <2>2, <2>3, Zenon
<1>28. CASE VideoBegin
  BY <1>28 DEF VideoBegin, Quiet
<1>29. CASE VideoEnd
  <2>1. Flags'
    BY <1>29, Zenon DEF VideoEnd, Quiet
  <2>2. Values'
    BY <1>29, SMT DEF VideoEnd, Quiet
  <2>3. Cards'
    BY <1>29, SMT DEF VideoEnd, Quiet
  <2> QED
    BY <2>1, <2>2, <2>3, Zenon
<1>30. CASE VideoTimeout
  BY <1>30 DEF VideoTimeout, Quiet
<1>31. CASE AudioBegin
  BY <1>31 DEF AudioBegin, Quiet
<1>32. CASE AudioEnd
  BY <1>32 DEF AudioEnd, Quiet
<1>33. CASE ProbeCard
  <2>1. Flags'
    BY <1>33, Zenon DEF ProbeCard, OnlyCard, Probe
  <2>2. Values'
    BY <1>33, SMT DEF ProbeCard, OnlyCard, Probe
  <2>3. Cards'
    BY <1>33, Zenon DEF ProbeCard, OnlyCard, Probe
  <2> QED
    BY <2>1, <2>2, <2>3, Zenon
<1>34. CASE FlagCard
  <2>1. Flags'
    BY <1>34, Zenon DEF FlagCard, OnlyCard
  <2>2. Values'
    BY <1>34, SMT DEF FlagCard, OnlyCard
  <2>3. Cards'
    BY <1>34, Zenon DEF FlagCard, OnlyCard
  <2> QED
    BY <2>1, <2>2, <2>3, Zenon
<1>35. CASE ChangeCard
  BY <1>35 DEF ChangeCard
<1>36. CASE Restart
  BY <1>36 DEF Restart, Boot, Unknown
<1>37. ASSUME NEW c \in Commands, Send(c) PROVE Flags' /\ Cards' /\ Values'
  BY <1>37 DEF Send
<1>38. CASE UNCHANGED vars
  BY <1>38 DEF vars
<1> QED
  BY <1>1, <1>2, <1>3, <1>4, <1>5, <1>6, <1>7, <1>8, <1>9, <1>10, <1>11, <1>12, <1>13, <1>14, <1>15, <1>16, <1>17, <1>18, <1>19, <1>20, <1>21, <1>22, <1>23, <1>24, <1>25, <1>26, <1>27, <1>28, <1>29, <1>30, <1>31, <1>32, <1>33, <1>34, <1>35, <1>36, <1>37, <1>38
     DEF Next, MainThread, EncoderThreads, CardThread, Environment

\* The initial states are well typed.
LEMMA InitTypes == Init => TypeOK
<1>1. Init => Flags
  BY Zenon DEF Init, Flags
<1>2. Init => Values
  BY RecorderAssumption DEF Init, Values, RecStates, Status, Locations
<1>3. Init => Cards
  BY SMT DEF Init, Cards, Unknown
<1> QED
  BY <1>1, <1>2, <1>3, TypeParts

\* TypeOK holds in every behaviour.
THEOREM TypeCorrect == Spec => []TypeOK
<1>1. Init => TypeOK
  BY InitTypes
<1>2. TypeOK /\ [Next]_vars => TypeOK'
  BY TypeStep
<1> QED
  BY <1>1, <1>2, PTL DEF Spec
-----------------------------------------------------------------------------
(***************************************************************************)
(* The inductive invariant: which threads run, which file is open and who  *)
(* holds the mutex at each place of the main thread.                       *)
(***************************************************************************)

\* The mutex tells who is between its lock and its unlock.
MutexHeld ==
  /\ mutex = "main" <=> pc = "roll"
  /\ mutex = "video" <=> venc = "cb"
  /\ mutex = "audio" <=> aenc = "cb"

\* The audio thread runs only beside a video thread, and only while the
\* parameters that decide whether record_stop joins it say so.
AudioFollowsVideo == aenc # "off" => audio /\ Going

\* Threads that run have a file to write to, unless a rollover has failed.
FileForThreads == Going \/ stateGoing = "Run" => file \/ broken \/ pc = "roll"

LoopPoints == {"recv", "tick", "livestop", "disk", "resave", "rerun", "pack"}
StartPoints == {"start", "open", "startv", "starta", "going"}

\* How far record_start and record_stop have come.
Stages ==
  /\ pc \in LoopPoints \cup {"exit", "exited"} /\ stateGoing # "Run" =>
       ~file /\ venc = "off" /\ aenc = "off"
  /\ pc \in LoopPoints /\ stateGoing = "Run" => Going
  /\ pc \in {"exit", "exited", "livestop"} \cup StartPoints => stateGoing # "Run"
  /\ pc = "roll" => stateGoing = "Run" /\ Going
  /\ pc = "start" => ~file /\ venc = "off" /\ aenc = "off"
  /\ pc = "open" => ~file /\ venc = "ready"
  /\ pc = "startv" => file /\ venc = "ready"
  /\ pc \in {"starta", "going"} => file /\ Going
  /\ pc = "starta" => aenc = "off"
  /\ pc = "dead" => ~file
  /\ pc \in {"stopv", "stopf"} => aenc = "off"
  /\ pc = "stopf" => venc = "off"
  /\ pc \in StartPoints => ret \in {"tick", "pack"}

\* record.dat is told Run only by a recording that runs.
RunStatus == status = "Run" => stateGoing = "Run"

RecorderInv ==
  /\ TypeOK
  /\ MutexHeld
  /\ AudioFollowsVideo
  /\ FileForThreads
  /\ Stages
  /\ RunStatus
  /\ InputSharedRight
  /\ CrashNeedsFailedRollover

\* RecorderInv is inductive.
LEMMA SafetyStep == RecorderInv /\ [Next]_vars => RecorderInv'
<1> SUFFICES ASSUME RecorderInv, [Next]_vars
             PROVE  /\ MutexHeld' /\ AudioFollowsVideo' /\ FileForThreads' /\ Stages'
                    /\ RunStatus' /\ InputSharedRight' /\ CrashNeedsFailedRollover'
  BY TypeStep DEF RecorderInv
<1> USE DEF RecorderInv, TypeOK, MutexHeld, AudioFollowsVideo, FileForThreads, Stages, RunStatus,
      InputSharedRight, CrashNeedsFailedRollover, Going, Alive, LoopPoints, StartPoints,
      Locations, RecStates, cardVars, statVars, recVars, outVars, encVars
<1>1. CASE FinishSave
  BY <1>1 DEF FinishSave
<1>2. CASE RecvStart
  BY <1>2 DEF RecvStart, Receive, RecordRun, CheckFps, SaveStatus, Call, Skip, At
<1>3. CASE RecvStop
  BY <1>3 DEF RecvStop, Receive, RecordRun, CheckFps, SaveStatus, Call, Skip, At
<1>4. CASE RecvStartLive
  BY <1>4 DEF RecvStartLive, Receive, LiveStart, At
<1>5. CASE RecvStopLive
  BY <1>5 DEF RecvStopLive, Receive, RecordRun, CheckFps, SaveStatus, Call, Skip, At
<1>6. CASE RecvQuit
  BY <1>6 DEF RecvQuit, Call, At
<1>7. CASE RecvNone
  BY <1>7 DEF RecvNone, LiveStop, LiveStart, At
<1>8. CASE StopLive
  BY <1>8 DEF StopLive, LiveStop, At
<1>9. CASE NoTick
  BY <1>9 DEF NoTick, At
<1>10. CASE Tick
  BY <1>10 DEF Tick, At
<1>11. CASE CheckDisk
  BY <1>11 DEF CheckDisk, SaveStatus, At
<1>12. CASE Resave
  BY <1>12 DEF Resave, SaveStatus, At
<1>13. CASE Rerun
  BY <1>13 DEF Rerun, RecordRun, CheckFps, SaveStatus, Call, Skip, At
<1>14. CASE NoPack
  BY <1>14 DEF NoPack, Packing, At
<1>15. CASE PackCrash
  BY <1>15 DEF PackCrash, Packing, At
<1>16. CASE PackClose
  BY <1>16 DEF PackClose, Packing, At
<1>17. CASE PackOpen
  BY <1>17 DEF PackOpen, At
<1>18. CASE NoStart
  BY <1>18 DEF NoStart, Return, At
<1>19. CASE Prepare
  BY <1>19 DEF Prepare, At
<1>20. CASE OpenFile
  BY <1>20 DEF OpenFile, SaveStatus, At
<1>21. CASE StartVideo
  BY <1>21 DEF StartVideo, At
<1>22. CASE StartAudio
  BY <1>22 DEF StartAudio, At
<1>23. CASE Started
  BY <1>23 DEF Started, SaveStatus, Return, At
<1>24. CASE StopAudio
  BY <1>24 DEF StopAudio, At
<1>25. CASE StopVideo
  BY <1>25 DEF StopVideo, At
<1>26. CASE CloseFile
  BY <1>26 DEF CloseFile, SaveStatus, StopStatus, Return, At
<1>27. CASE Exit
  BY <1>27 DEF Exit, At
<1>28. CASE VideoBegin
  BY <1>28 DEF VideoBegin, Quiet
<1>29. CASE VideoEnd
  BY <1>29 DEF VideoEnd, Quiet
<1>30. CASE VideoTimeout
  BY <1>30 DEF VideoTimeout, Quiet
<1>31. CASE AudioBegin
  BY <1>31 DEF AudioBegin, Quiet
<1>32. CASE AudioEnd
  BY <1>32 DEF AudioEnd, Quiet
<1>33. CASE ProbeCard
  BY <1>33 DEF ProbeCard, OnlyCard
<1>34. CASE FlagCard
  BY <1>34 DEF FlagCard, OnlyCard
<1>35. CASE ChangeCard
  BY <1>35 DEF ChangeCard
<1>36. CASE Restart
  BY <1>36 DEF Restart, Boot
<1>37. ASSUME NEW c \in Commands, Send(c)
      PROVE  /\ MutexHeld' /\ AudioFollowsVideo' /\ FileForThreads' /\ Stages'
             /\ RunStatus' /\ InputSharedRight' /\ CrashNeedsFailedRollover'
  BY <1>37 DEF Send
<1>38. CASE UNCHANGED vars
  BY <1>38 DEF vars
<1> QED
  BY <1>1, <1>2, <1>3, <1>4, <1>5, <1>6, <1>7, <1>8, <1>9, <1>10, <1>11, <1>12, <1>13, <1>14, <1>15, <1>16, <1>17, <1>18, <1>19, <1>20, <1>21, <1>22, <1>23, <1>24, <1>25, <1>26, <1>27, <1>28, <1>29, <1>30, <1>31, <1>32, <1>33, <1>34, <1>35, <1>36, <1>37, <1>38
     DEF Next, MainThread, EncoderThreads, CardThread, Environment

\* The initial states satisfy it.
LEMMA InitSafe == Init => RecorderInv
  BY InitTypes DEF Init, RecorderInv, MutexHeld, AudioFollowsVideo, FileForThreads, Stages,
     RunStatus, InputSharedRight, CrashNeedsFailedRollover, Going, Alive, LoopPoints, StartPoints

\* The inductive invariant holds in every behaviour.
THEOREM Safety == Spec => []RecorderInv
<1>1. Init => RecorderInv
  BY InitSafe
<1>2. RecorderInv /\ [Next]_vars => RecorderInv'
  BY SafetyStep
<1> QED
  BY <1>1, <1>2, PTL DEF Spec

\* The recorder dies on a missing file only after a rollover has failed.
THEOREM CrashOnlyAfterFailedRollover == Spec => []CrashNeedsFailedRollover
<1>1. RecorderInv => CrashNeedsFailedRollover
  BY DEF RecorderInv
<1> QED
  BY <1>1, Safety, PTL

\* Status Run, between two messages, stands for an encoder and a file.
THEOREM RunIsRecording == Spec => []RunMeansRecording
<1>1. RecorderInv => RunMeansRecording
  BY DEF RecorderInv, RunMeansRecording, RunStatus, FileForThreads, Stages, LoopPoints
<1> QED
  BY <1>1, Safety, PTL

\* A recording that is over has left no thread and no file behind.
THEOREM StopIsComplete == Spec => []StopLeavesNothing
<1>1. RecorderInv => StopLeavesNothing
  BY DEF RecorderInv, StopLeavesNothing, Stages, LoopPoints
<1> QED
  BY <1>1, Safety, PTL

\* The video input exists exactly while one of its users does.
THEOREM InputShared == Spec => []InputSharedRight
<1>1. RecorderInv => InputSharedRight
  BY DEF RecorderInv
<1> QED
  BY <1>1, Safety, PTL

\* No step opens or closes the file under a callback.
THEOREM FileStable == Spec => FileStableInCallback
<1>1. RecorderInv /\ [Next]_vars => [file' # file => venc # "cb" /\ aenc # "cb"]_vars
  <2> SUFFICES ASSUME RecorderInv, Next, file' # file PROVE venc # "cb" /\ aenc # "cb"
    OBVIOUS
  <2>1. PackClose \/ PackOpen \/ OpenFile \/ CloseFile \/ Restart
    BY SMT DEF Next, MainThread, EncoderThreads, CardThread, Environment,
      FinishSave, RecvStart, RecvStop, RecvStartLive, RecvStopLive, RecvQuit, RecvNone,
      StopLive, NoTick, Tick, CheckDisk, Resave, Rerun, NoPack, PackCrash, NoStart,
      Prepare, StartVideo, StartAudio, Started, StopAudio, StopVideo, Exit, VideoBegin,
      VideoEnd, VideoTimeout, AudioBegin, AudioEnd, ProbeCard, FlagCard, ChangeCard, At,
      Call, CheckFps, LiveStart, LiveStop, OnlyCard, Packing, Quiet, Receive, RecordRun,
      Return, SaveStatus, Skip, Send, outVars
  <2>2. CASE PackClose
    BY <2>2 DEF PackClose, RecorderInv, MutexHeld
  <2>3. CASE PackOpen
    BY <2>3 DEF PackOpen, At, RecorderInv, MutexHeld
  <2>4. CASE OpenFile
    BY <2>4 DEF OpenFile, At, RecorderInv, Stages, AudioFollowsVideo, Going
  <2>5. CASE CloseFile
    BY <2>5 DEF CloseFile, RecorderInv, MutexHeld
  <2>6. CASE Restart
    BY <2>6 DEF Restart, Boot, Alive, RecorderInv, Stages, TypeOK
  <2> QED
    BY <2>1, <2>2, <2>3, <2>4, <2>5, <2>6
<1> QED
  BY <1>1, Safety, PTL DEF Spec, FileStableInCallback

\* Once LIVE_cmdSTOP is handled the video input is gone.
THEOREM LiveStopFrees == Spec => LiveStopFreesInput
<1>1. RecorderInv /\ [Next]_vars => [pc = "livestop" => pc' = "livestop" \/ ~vipp']_vars
  <2> SUFFICES ASSUME RecorderInv, Next, pc = "livestop", pc' # "livestop" PROVE ~vipp'
    OBVIOUS
  <2>1. StopLive
    BY SMT DEF Next, MainThread, EncoderThreads, CardThread, Environment,
      FinishSave, RecvStart, RecvStop, RecvStartLive, RecvStopLive, RecvQuit, RecvNone,
      NoTick, Tick, CheckDisk, Resave, Rerun, NoPack, PackCrash, PackClose, PackOpen,
      NoStart, Prepare, OpenFile, StartVideo, StartAudio, Started, StopAudio, StopVideo,
      CloseFile, Exit, VideoBegin, VideoEnd, VideoTimeout, AudioBegin, AudioEnd, ProbeCard,
      FlagCard, ChangeCard, Restart, At, Boot, Call, CheckFps, LiveStart, LiveStop,
      OnlyCard, Packing, Quiet, Receive, RecordRun, Return, SaveStatus, Skip, StopStatus,
      Send, RecorderInv, Stages, LoopPoints, AudioFollowsVideo, Alive, Going
  <2> QED
    BY <2>1 DEF StopLive, LiveStop, At, RecorderInv, Stages, LoopPoints, InputSharedRight, Alive, Going
<1> QED
  BY <1>1, Safety, PTL DEF Spec, LiveStopFreesInput
-----------------------------------------------------------------------------
(***************************************************************************)
(* record_stop waits three times: to join the audio thread, to join the    *)
(* video thread, and for the mutex before it closes the file (main.c:248). *)
(***************************************************************************)

\* The main thread never holds the mutex a callback needs while it waits for
\* the thread of that callback; when the audio thread is joined its callback
\* is not left inside, and when both are, nobody is left who holds the mutex.
StopWaitsForNobodyStuck ==
  /\ pc \in {"stop", "stopv", "stopf"} => mutex # "main"
  /\ pc \in {"stopv", "stopf"} => mutex # "audio" /\ aenc = "off"
  /\ pc = "stopf" => mutex = "none" /\ venc = "off"

\* No wait of record_stop is for a thread that waits for record_stop; the
\* last of them, for the mutex, is over at once (StopCompletes adds that the
\* threads go on).
THEOREM StopIsNotStuck == Spec => []StopWaitsForNobodyStuck
<1>1. RecorderInv => StopWaitsForNobodyStuck
  BY DEF RecorderInv, TypeOK, MutexHeld, Stages, StopWaitsForNobodyStuck
<1> QED
  BY <1>1, Safety, PTL
-----------------------------------------------------------------------------
(***************************************************************************)
(* Recorder implements RecorderService.  Two more facts are needed: the    *)
(* recording is over before the command after a STOP is received, and      *)
(* record.dat, when it is not being rewritten, holds the status.           *)
(***************************************************************************)

StopPoints == {"stop", "stopv", "stopf"}

Obeyed ==
  /\ stateGo = "Stop" /\ stateGoing = "Run" => pc \in StopPoints \cup {"dead"}
  /\ pc \in StartPoints => stateGo = "Run"

Published == dat # "Empty" => dat = status

ServiceInv == RecorderInv /\ Obeyed /\ Published

\* ServiceInv is inductive as long as record.dat is never locked.
LEMMA ServiceInvStep ==
  ASSUME LockFails = FALSE, ServiceInv, [Next]_vars
  PROVE  ServiceInv'
<1> SUFFICES Obeyed' /\ Published'
  BY SafetyStep DEF ServiceInv
<1> USE DEF ServiceInv, RecorderInv, TypeOK, Stages, Obeyed, Published, Alive, LoopPoints,
      StartPoints, StopPoints, Locations, RecStates, Status, cardVars, statVars, recVars,
      outVars, encVars
<1>1. CASE FinishSave
  BY <1>1 DEF FinishSave
<1>2. CASE RecvStart
  BY <1>2 DEF RecvStart, Receive, RecordRun, CheckFps, SaveStatus, Call, Skip, At
<1>3. CASE RecvStop
  BY <1>3 DEF RecvStop, Receive, RecordRun, CheckFps, SaveStatus, Call, Skip, At
<1>4. CASE RecvStartLive
  BY <1>4 DEF RecvStartLive, Receive, LiveStart, At
<1>5. CASE RecvStopLive
  BY <1>5 DEF RecvStopLive, Receive, RecordRun, CheckFps, SaveStatus, Call, Skip, At
<1>6. CASE RecvQuit
  BY <1>6 DEF RecvQuit, Call, At
<1>7. CASE RecvNone
  BY <1>7 DEF RecvNone, LiveStop, LiveStart, At
<1>8. CASE StopLive
  BY <1>8 DEF StopLive, LiveStop, At
<1>9. CASE NoTick
  BY <1>9 DEF NoTick, At
<1>10. CASE Tick
  BY <1>10 DEF Tick, At
<1>11. CASE CheckDisk
  BY <1>11 DEF CheckDisk, SaveStatus, At
<1>12. CASE Resave
  BY <1>12 DEF Resave, SaveStatus, At
<1>13. CASE Rerun
  BY <1>13 DEF Rerun, RecordRun, CheckFps, SaveStatus, Call, Skip, At
<1>14. CASE NoPack
  BY <1>14 DEF NoPack, Packing, At
<1>15. CASE PackCrash
  BY <1>15 DEF PackCrash, Packing, At
<1>16. CASE PackClose
  BY <1>16 DEF PackClose, Packing, At
<1>17. CASE PackOpen
  BY <1>17 DEF PackOpen, At
<1>18. CASE NoStart
  BY <1>18 DEF NoStart, Return, At
<1>19. CASE Prepare
  BY <1>19 DEF Prepare, At
<1>20. CASE OpenFile
  BY <1>20 DEF OpenFile, SaveStatus, At
<1>21. CASE StartVideo
  BY <1>21 DEF StartVideo, At
<1>22. CASE StartAudio
  BY <1>22 DEF StartAudio, At
<1>23. CASE Started
  BY <1>23 DEF Started, SaveStatus, Return, At
<1>24. CASE StopAudio
  BY <1>24 DEF StopAudio, At
<1>25. CASE StopVideo
  BY <1>25 DEF StopVideo, At
<1>26. CASE CloseFile
  BY <1>26 DEF CloseFile, SaveStatus, StopStatus, Return, At
<1>27. CASE Exit
  BY <1>27 DEF Exit, At
<1>28. CASE VideoBegin
  BY <1>28 DEF VideoBegin, Quiet
<1>29. CASE VideoEnd
  BY <1>29 DEF VideoEnd, Quiet
<1>30. CASE VideoTimeout
  BY <1>30 DEF VideoTimeout, Quiet
<1>31. CASE AudioBegin
  BY <1>31 DEF AudioBegin, Quiet
<1>32. CASE AudioEnd
  BY <1>32 DEF AudioEnd, Quiet
<1>33. CASE ProbeCard
  BY <1>33 DEF ProbeCard, OnlyCard
<1>34. CASE FlagCard
  BY <1>34 DEF FlagCard, OnlyCard
<1>35. CASE ChangeCard
  BY <1>35 DEF ChangeCard
<1>36. CASE Restart
  BY <1>36 DEF Restart, Boot
<1>37. ASSUME NEW c \in Commands, Send(c) PROVE Obeyed' /\ Published'
  BY <1>37 DEF Send
<1>38. CASE UNCHANGED vars
  BY <1>38 DEF vars
<1> QED
  BY <1>1, <1>2, <1>3, <1>4, <1>5, <1>6, <1>7, <1>8, <1>9, <1>10, <1>11, <1>12, <1>13, <1>14, <1>15, <1>16, <1>17, <1>18, <1>19, <1>20, <1>21, <1>22, <1>23, <1>24, <1>25, <1>26, <1>27, <1>28, <1>29, <1>30, <1>31, <1>32, <1>33, <1>34, <1>35, <1>36, <1>37, <1>38
     DEF Next, MainThread, EncoderThreads, CardThread, Environment

\* Every step of the record process is a step of the service or none.
LEMMA ServiceStep ==
  ASSUME LockFails = FALSE, ServiceInv, [Next]_vars
  PROVE  [Service!Next]_Service!recorder
<1> USE RecorderAssumption DEF ServiceInv, RecorderInv, TypeOK, Stages, Obeyed, Published,
      RunStatus, Alive, LoopPoints, StartPoints, StopPoints, Locations, RecStates, Status,
      cardVars, statVars, recVars, outVars, encVars, Service!recorder, Service!Next,
      Service!Work, Service!Rewrite
<1>1. CASE FinishSave
  BY <1>1 DEF FinishSave, Service!Write
<1>2. CASE RecvStart
  BY <1>2, QueueTypes DEF RecvStart, Receive, RecordRun, CheckFps, SaveStatus, Call, Skip, At, Service!Take
<1>3. CASE RecvStop
  BY <1>3, QueueTypes DEF RecvStop, Receive, RecordRun, CheckFps, SaveStatus, Call, Skip, At, Service!Take
<1>4. CASE RecvStartLive
  BY <1>4, QueueTypes DEF RecvStartLive, Receive, LiveStart, At, Service!Take
<1>5. CASE RecvStopLive
  BY <1>5, QueueTypes DEF RecvStopLive, Receive, RecordRun, CheckFps, SaveStatus, Call, Skip, At, Service!Take
<1>6. CASE RecvQuit
  BY <1>6, QueueTypes DEF RecvQuit, Call, At, Service!Take
<1>7. CASE RecvNone
  BY <1>7 DEF RecvNone, LiveStop, LiveStart, At
<1>8. CASE StopLive
  BY <1>8 DEF StopLive, LiveStop, At
<1>9. CASE NoTick
  BY <1>9 DEF NoTick, At
<1>10. CASE Tick
  BY <1>10 DEF Tick, At
<1>11. CASE CheckDisk
  BY <1>11 DEF CheckDisk, SaveStatus, At, Service!Note
<1>12. CASE Resave
  BY <1>12 DEF Resave, SaveStatus, At, Service!Note
<1>13. CASE Rerun
  BY <1>13 DEF Rerun, RecordRun, CheckFps, SaveStatus, Call, Skip, At, Service!Note
<1>14. CASE NoPack
  BY <1>14 DEF NoPack, Packing, At
<1>15. CASE PackCrash
  BY <1>15 DEF PackCrash, Packing, At, Service!Die
<1>16. CASE PackClose
  BY <1>16 DEF PackClose, Packing, At
<1>17. CASE PackOpen
  BY <1>17 DEF PackOpen, At
<1>18. CASE NoStart
  BY <1>18 DEF NoStart, Return, At
<1>19. CASE Prepare
  BY <1>19 DEF Prepare, At
<1>20. CASE OpenFile
  BY <1>20 DEF OpenFile, SaveStatus, At, Service!Note
<1>21. CASE StartVideo
  BY <1>21 DEF StartVideo, At
<1>22. CASE StartAudio
  BY <1>22 DEF StartAudio, At
<1>23. CASE Started
  BY <1>23 DEF Started, SaveStatus, Return, At, Service!Start
<1>24. CASE StopAudio
  BY <1>24 DEF StopAudio, At
<1>25. CASE StopVideo
  BY <1>25 DEF StopVideo, At
<1>26. CASE CloseFile
  <2> USE <1>26 DEF CloseFile, SaveStatus, StopStatus, Return, At
  <2>1. CASE stateGoing = "Run"
    BY <2>1 DEF Service!Stop
  <2>2. CASE stateGoing # "Run"
    BY <2>2 DEF Service!Note
  <2> QED
    BY <2>1, <2>2
<1>27. CASE Exit
  BY <1>27 DEF Exit, At, Service!Die
<1>28. CASE VideoBegin
  BY <1>28 DEF VideoBegin, Quiet
<1>29. CASE VideoEnd
  BY <1>29 DEF VideoEnd, Quiet, Service!Die
<1>30. CASE VideoTimeout
  BY <1>30 DEF VideoTimeout, Quiet
<1>31. CASE AudioBegin
  BY <1>31 DEF AudioBegin, Quiet
<1>32. CASE AudioEnd
  BY <1>32 DEF AudioEnd, Quiet, Service!Die
<1>33. CASE ProbeCard
  BY <1>33 DEF ProbeCard, OnlyCard
<1>34. CASE FlagCard
  BY <1>34 DEF FlagCard, OnlyCard
<1>35. CASE ChangeCard
  BY <1>35 DEF ChangeCard
<1>36. CASE Restart
  BY <1>36 DEF Restart, Boot, Service!Restart
<1>37. ASSUME NEW c \in Commands, Send(c) PROVE Service!Next
  BY <1>37 DEF Send, Service!Send
<1>38. CASE UNCHANGED vars
  BY <1>38 DEF vars
<1> QED
  BY <1>1, <1>2, <1>3, <1>4, <1>5, <1>6, <1>7, <1>8, <1>9, <1>10, <1>11, <1>12, <1>13, <1>14, <1>15, <1>16, <1>17, <1>18, <1>19, <1>20, <1>21, <1>22, <1>23, <1>24, <1>25, <1>26, <1>27, <1>28, <1>29, <1>30, <1>31, <1>32, <1>33, <1>34, <1>35, <1>36, <1>37, <1>38
     DEF Next, MainThread, EncoderThreads, CardThread, Environment

\* The record process implements the service, when nobody locks record.dat.
THEOREM RecorderImplementsService ==
  ASSUME LockFails = FALSE
  PROVE  Spec => ImplementsService
<1>1. Init => ServiceInv
  <2>1. Init => RecorderInv
    BY InitSafe
  <2> QED
    BY <2>1 DEF Init, ServiceInv, Obeyed, Published, StopPoints, StartPoints
<1>2. ServiceInv /\ [Next]_vars => ServiceInv'
  BY ServiceInvStep
<1>3. Init => Service!Init
  BY DEF Init, Service!Init, Alive
<1>4. ServiceInv /\ [Next]_vars => [Service!Next]_Service!recorder
  BY ServiceStep
<1> QED
  BY <1>1, <1>2, <1>3, <1>4, PTL DEF Spec, ImplementsService, Service!Spec

\* RunIsTrue is an invariant of the service itself.
LEMMA ServiceTellsTruth ==
  Service!RunIsTrue /\ [Service!Next]_Service!recorder => Service!RunIsTrue'
<1> SUFFICES ASSUME Service!RunIsTrue, [Service!Next]_Service!recorder
             PROVE  Service!RunIsTrue'
  OBVIOUS
<1> USE DEF Service!RunIsTrue
<1>1. CASE Service!Start \/ Service!Stop \/ Service!Note \/ Service!Write
  BY <1>1 DEF Service!Start, Service!Stop, Service!Note, Service!Write
<1>2. CASE \E c \in Commands : Service!Take(c)
  BY <1>2 DEF Service!Take, Service!Rewrite
<1>3. CASE Service!Die \/ Service!Restart
  BY <1>3 DEF Service!Die, Service!Restart
<1>4. CASE \E c \in Commands : Service!Send(c)
  BY <1>4 DEF Service!Send
<1>5. CASE UNCHANGED Service!recorder
  BY <1>5 DEF Service!recorder
<1> QED
  BY <1>1, <1>2, <1>3, <1>4, <1>5 DEF Service!Next, Service!Work

\* What other processes may rely on, when nobody locks record.dat: a file that
\* says Run stands for a recording that goes on, unless the process is dead.
THEOREM DatIsTrue ==
  ASSUME LockFails = FALSE
  PROVE  Spec => []Service!RunIsTrue
<1>1. Service!Init => Service!RunIsTrue
  BY DEF Service!Init, Service!RunIsTrue
<1>2. Spec => Service!Spec
  BY RecorderImplementsService DEF ImplementsService
<1> QED
  BY <1>1, <1>2, ServiceTellsTruth, PTL DEF Service!Spec
-----------------------------------------------------------------------------
(***************************************************************************)
(* record.dat when other processes lock it: record_saveStatus gives up     *)
(* then, and the loop calls it again for the sake of statusSaved.          *)
(***************************************************************************)

\* What was saved last is what the file holds, until something else is saved;
\* REC_statusSave stands for nothing having been saved yet (main.c:978).
SavedIsWritten == Alive /\ dat # "Empty" => saved \in {dat, "Save"}

\* A status that has not got into the file is one that the loop notices by
\* statusSaved and writes in its next round, unless nothing was saved yet.
StaleIsNoticed ==
  Alive /\ dat \notin {"Empty", status} => status # saved \/ saved = "Save"

\* But for the second half of record_saveStatus and a restart, a step leaves
\* the file alone or begins to write it.
LEMMA FileStep ==
  ASSUME [Next]_vars, ~FinishSave, ~Restart
  PROVE  /\ saved' = saved /\ dat' \in {dat, "Empty"}
         /\ Alive' => Alive
<1> USE DEF Alive, statVars, recVars, SaveStatus, CheckFps
<1>1. CASE RecvStart \/ RecvStop \/ RecvStopLive \/ Rerun
  BY <1>1 DEF RecvStart, RecvStop, RecvStopLive, Rerun, Receive, RecordRun, At
<1>2. CASE RecvStartLive \/ RecvQuit \/ RecvNone \/ StopLive \/ NoTick \/ Tick
  BY <1>2 DEF RecvStartLive, RecvQuit, RecvNone, StopLive, NoTick, Tick, Receive, At
<1>3. CASE CheckDisk \/ Resave
  BY <1>3 DEF CheckDisk, Resave, At
<1>4. CASE NoPack \/ PackCrash \/ PackClose \/ PackOpen
  BY <1>4 DEF NoPack, PackCrash, PackClose, PackOpen, At
<1>5. CASE NoStart \/ Prepare \/ OpenFile \/ StartVideo \/ StartAudio \/ Started
  BY <1>5 DEF NoStart, Prepare, OpenFile, StartVideo, StartAudio, Started, At
<1>6. CASE StopAudio \/ StopVideo \/ CloseFile \/ Exit
  BY <1>6 DEF StopAudio, StopVideo, CloseFile, Exit, At
<1>7. CASE EncoderThreads
  BY <1>7 DEF EncoderThreads, VideoBegin, VideoEnd, VideoTimeout, AudioBegin, AudioEnd, Quiet
<1>8. CASE CardThread \/ ChangeCard \/ \E c \in Commands : Send(c)
  BY <1>8 DEF CardThread, ProbeCard, FlagCard, OnlyCard, ChangeCard, Send
<1>9. CASE UNCHANGED vars
  BY <1>9 DEF vars
<1> QED
  BY <1>1, <1>2, <1>3, <1>4, <1>5, <1>6, <1>7, <1>8, <1>9 DEF Next, MainThread, Environment

LEMMA SavedStep == SavedIsWritten /\ [Next]_vars => SavedIsWritten'
<1> SUFFICES ASSUME SavedIsWritten, [Next]_vars PROVE SavedIsWritten'
  OBVIOUS
<1> USE DEF SavedIsWritten
<1>1. CASE FinishSave
  BY <1>1 DEF FinishSave
<1>2. CASE Restart
  BY <1>2 DEF Restart, Boot
<1>3. CASE ~FinishSave /\ ~Restart
  BY <1>3, FileStep
<1> QED
  BY <1>1, <1>2, <1>3

\* However often the file is locked, a status that could not be written is not
\* taken for one that was: the loop tries again (main.c:163-194, 939).
THEOREM NothingForgotten == Spec => []StaleIsNoticed
<1>1. Init => SavedIsWritten
  BY DEF Init, SavedIsWritten
<1>2. SavedIsWritten => StaleIsNoticed
  BY DEF SavedIsWritten, StaleIsNoticed
<1> QED
  BY <1>1, <1>2, SavedStep, PTL DEF Spec
=============================================================================
