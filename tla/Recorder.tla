------------------------------ MODULE Recorder ------------------------------
(***************************************************************************)
(* The record process (src/src/record/main.c): the loop of its main        *)
(* thread, the video and the audio encoder threads whose callbacks write   *)
(* into the open file, and the thread that watches the SD card.  Other     *)
(* processes talk to it through a System V message queue and read the      *)
(* status it leaves in /tmp/record.dat.                                    *)
(*                                                                         *)
(* The main thread is a program counter; a step is a stretch of code       *)
(* between two points where another thread can see or change what it uses. *)
(* Time is abstracted: whether 500 ms, one second or a pack duration have  *)
(* elapsed is a choice of the step that asks.                              *)
(***************************************************************************)
EXTENDS Naturals, Sequences

CONSTANTS MaxMsgs,        \* bound of the model: messages waiting in the queue
          Commands,       \* the commands other processes send
          CardStates,     \* the states the card goes through
          RolloverFails,  \* may the next file of a recording fail to open?
          LiveClients,    \* do clients of the live stream come and go?
          LockFails       \* may another process hold the lock on record.dat?

ASSUME RecorderAssumption ==
  /\ MaxMsgs \in Nat \ {0}
  /\ Commands \subseteq {"START", "STOP", "STARTL", "STOPL", "QUIT"}
  /\ CardStates \subseteq {"absent", "ok", "full"}
  /\ {RolloverFails, LiveClients, LockFails} \subseteq BOOLEAN

RecStates == {"Idle", "Run", "Stop"}
Status == {"Save", "Idle", "Run", "DiskUmounted", "DiskPathFailed", "DiskFull",
           "FramesTimeout", "FileError"}

VARIABLES
  card,       \* the SD card itself
  sd,         \* sdContext of disk.c, written by the card thread
  sdNotify,   \* has the card thread values written but not yet flagged?
  msgs,       \* the message queue MTYPE_RECORD
  pc,         \* main thread: where it is
  ret,        \* main thread: where record_run returns to
  seen,       \* main thread: the local "updated" of disk_sdstat
  sdstat,     \* recCtx->sdstat
  stateGo,    \* recCtx->stateGo
  stateGoing, \* recCtx->stateGoing
  status,     \* recCtx->status
  saved,      \* recCtx->statusSaved
  dat,        \* content of /tmp/record.dat
  audio,      \* recCtx->params.enableAudio
  file,       \* recCtx->ff # NULL
  first,      \* recCtx->nbFramesTotal = 0
  nowRec,     \* does /tmp/now_recording exist?
  mutex,      \* recCtx->mutex: who holds it
  venc,       \* recCtx->vv: the video encoder and its thread
  aenc,       \* recCtx->aa: the audio encoder thread
  live,       \* recCtx->vvLive: is the live encoder thread started?
  vipp,       \* is the video input (VIPP) both encoders share created?
  broken      \* history: did the next file of a recording fail to open?

cardVars == <<card, sd, sdNotify>>
statVars == <<status, saved, dat>>
recVars  == <<stateGo, stateGoing>>
outVars  == <<file, first, nowRec, broken>>
encVars  == <<venc, aenc, live, vipp, audio>>
vars == <<cardVars, msgs, pc, ret, seen, sdstat, recVars, statVars, outVars,
          mutex, encVars>>

Unknown == [mounted |-> FALSE, full |-> FALSE]
Probe(c) == [mounted |-> c # "absent", full |-> c # "ok"]

\* What a fresh process starts with; main() saves the status Idle first.
Boot ==
  /\ sd' = [mounted |-> FALSE, full |-> TRUE, updated |-> FALSE, checked |-> FALSE]
  /\ sdNotify' = FALSE
  /\ sdstat' = Unknown
  /\ stateGo' = "Idle" /\ stateGoing' = "Idle"
  /\ status' = "Idle"
  /\ \/ saved' = "Idle" /\ dat' = "Idle"
     \/ LockFails /\ saved' = "Save" /\ UNCHANGED dat
  /\ audio' \in BOOLEAN
  /\ file' = FALSE /\ first' = TRUE /\ broken' = FALSE
  /\ mutex' = "none"
  /\ venc' = "off" /\ aenc' = "off" /\ live' = FALSE /\ vipp' = FALSE
  /\ pc' = "recv" /\ ret' = "tick" /\ seen' = FALSE

Init ==
  /\ card \in CardStates
  /\ sd = [mounted |-> FALSE, full |-> TRUE, updated |-> FALSE, checked |-> FALSE]
  /\ sdNotify = FALSE
  /\ sdstat = Unknown
  /\ msgs = <<>>
  /\ stateGo = "Idle" /\ stateGoing = "Idle"
  /\ status = "Idle" /\ saved = "Idle" /\ dat = "Idle"
  /\ audio \in BOOLEAN
  /\ file = FALSE /\ first = TRUE /\ nowRec = FALSE /\ broken = FALSE
  /\ mutex = "none"
  /\ venc = "off" /\ aenc = "off" /\ live = FALSE /\ vipp = FALSE
  /\ pc = "recv" /\ ret = "tick" /\ seen = FALSE
-----------------------------------------------------------------------------
Alive == pc \notin {"dead", "exited"}

\* record_isGoing(vv): threadId stays set until the thread is joined.
Going == venc \in {"run", "cb", "ended"}

ShouldStop == sdstat.full \/ ~sdstat.mounted

StopStatus == IF ~sdstat.mounted THEN "DiskUmounted"
              ELSE IF sdstat.full THEN "DiskFull" ELSE "Idle"

\* The main thread calls p and comes back to k; it returns; it goes to k.
Call(p, k) == pc' = p /\ ret' = k
Return == pc' = ret /\ ret' = IF ret = "exit" THEN ret ELSE "tick"
Skip(k) == pc' = k /\ UNCHANGED ret

\* The main thread is at p and record.dat is not being rewritten.
At(p) == pc = p /\ dat # "Empty"

(***************************************************************************)
(* record_saveStatus: nothing when the status is not new; otherwise the    *)
(* file is truncated here and written by FinishSave, unless another        *)
(* process holds the lock on it: then only recCtx->status has changed.     *)
(* "Save" asks to write such a status later, and itself becomes the status *)
(* (REC_statusSave, -1).                                                   *)
(***************************************************************************)
SaveStatus(st) ==
  IF status = IF st = "Save" THEN saved ELSE st
    THEN UNCHANGED statVars
    ELSE /\ status' = st
         /\ dat' = "Empty" \/ (LockFails /\ dat' = dat)
         /\ UNCHANGED saved

FinishSave ==
  /\ Alive /\ dat = "Empty"
  /\ dat' = status /\ saved' = status
  /\ UNCHANGED <<cardVars, msgs, pc, ret, seen, sdstat, recVars, status,
                 outVars, mutex, encVars>>

(***************************************************************************)
(* record_run(g), returning to k.  Frames are counted over a second: too   *)
(* few of them make the status FramesTimeout, the next call makes it Run.  *)
(***************************************************************************)
CheckFps ==
  \/ SaveStatus("FramesTimeout")
  \/ status = "FramesTimeout" /\ SaveStatus("Run")
  \/ UNCHANGED statVars

\* Mutant: a running recording does not look at the card.
RecordRun_noCheck(g, k) ==
  /\ stateGo' = g
  /\ UNCHANGED <<stateGoing, statVars>>
  /\ IF g # stateGoing /\ g # "Idle" THEN Call(IF g = "Run" THEN "start" ELSE "stop", k)
                                     ELSE Skip(k)

RecordRun(g, k) ==
  /\ stateGo' = g
  /\ UNCHANGED stateGoing
  /\ \/ /\ g # stateGoing /\ g = "Run"
        /\ Call("start", k)
        /\ UNCHANGED statVars
     \/ /\ g # stateGoing /\ g = "Stop"
        /\ Call("stop", k)
        /\ UNCHANGED statVars
     \/ /\ g = stateGoing /\ g = "Run" /\ ShouldStop
        /\ Call("stop", k)
        /\ UNCHANGED statVars
     \/ /\ g = stateGoing /\ g = "Run" /\ ~ShouldStop
        /\ Skip(k)
        /\ CheckFps
     \/ /\ g = "Idle" \/ (g = stateGoing /\ g # "Run")
        /\ Skip(k)
        /\ UNCHANGED statVars
-----------------------------------------------------------------------------
(* main_loop: one message, or the default branch, then the 500 ms tick. *)

Receive(c) ==
  /\ At("recv")
  /\ msgs # <<>> /\ Head(msgs) = c
  /\ msgs' = Tail(msgs)
  /\ UNCHANGED <<cardVars, seen, sdstat, outVars, mutex>>

\* Mutant: the parameters are read again while the encoders run.
RecvStart_reload ==
  /\ Receive("START")
  /\ audio' \in BOOLEAN
  /\ RecordRun("Run", "tick")
  /\ UNCHANGED <<venc, aenc, live, vipp>>

\* MSG_cmdSTART: the parameters are read again unless the encoder thread runs.
RecvStart ==
  /\ Receive("START")
  /\ IF Going THEN UNCHANGED audio ELSE audio' \in BOOLEAN
  /\ RecordRun("Run", "tick")
  /\ UNCHANGED <<venc, aenc, live, vipp>>

RecvStop ==
  /\ Receive("STOP")
  /\ RecordRun("Stop", "tick")
  /\ UNCHANGED encVars

\* LIVE_cmdSTOP: the record is stopped first, then the live stream.
RecvStopLive ==
  /\ Receive("STOPL")
  /\ RecordRun("Stop", "livestop")
  /\ UNCHANGED encVars

\* MSG_cmdQUIT leaves the loop: the queue is removed, then record_stop.
RecvQuit ==
  /\ At("recv")
  /\ msgs # <<>> /\ Head(msgs) = "QUIT"
  /\ msgs' = <<>>
  /\ Call("stop", "exit")
  /\ UNCHANGED <<cardVars, seen, sdstat, recVars, statVars, outVars, mutex, encVars>>

\* Mutant: the input is taken from the recording.
LiveStop_input ==
  /\ live' = FALSE
  /\ vipp' = (vipp /\ ~live)
  /\ UNCHANGED <<venc, aenc, audio>>

\* live_stop: the video input goes too unless the recording uses it.
LiveStop ==
  /\ live' = FALSE
  /\ vipp' = (vipp /\ (~live \/ Going))
  /\ UNCHANGED <<venc, aenc, audio>>

\* live_run -> live_start, which may fail after it made the video input.
LiveStart ==
  /\ live' \in BOOLEAN
  /\ vipp' = (live' \/ Going)
  /\ UNCHANGED <<venc, aenc, audio>>

\* LIVE_cmdSTART: start the stream whether or not a client is connected.
RecvStartLive ==
  /\ Receive("STARTL")
  /\ IF live THEN UNCHANGED encVars ELSE LiveStart
  /\ pc' = "tick"
  /\ UNCHANGED <<ret, recVars, statVars>>

\* The default branch: follow the connection of a live client.
RecvNone ==
  /\ At("recv") /\ msgs = <<>>
  /\ \/ LiveStop
     \/ live /\ UNCHANGED encVars
     \/ LiveClients /\ ~live /\ LiveStart
  /\ pc' = "tick"
  /\ UNCHANGED <<cardVars, msgs, ret, seen, sdstat, recVars, statVars, outVars, mutex>>

StopLive ==
  /\ At("livestop")
  /\ LiveStop
  /\ pc' = "tick"
  /\ UNCHANGED <<cardVars, msgs, ret, seen, sdstat, recVars, statVars, outVars, mutex>>

\* Less than 500 ms since the last tick.
NoTick ==
  /\ At("tick")
  /\ pc' = "recv"
  /\ UNCHANGED <<cardVars, msgs, ret, seen, sdstat, recVars, statVars, outVars, mutex, encVars>>

\* disk_sdstat reads the flag first, then the values.
Tick ==
  /\ At("tick")
  /\ seen' = sd.updated
  /\ pc' = "disk"
  /\ UNCHANGED <<cardVars, msgs, ret, sdstat, recVars, statVars, outVars, mutex, encVars>>

\* The rest of disk_sdstat, and record_checkDisk.
CheckDisk ==
  /\ At("disk")
  /\ sdstat' = [mounted |-> sd.mounted, full |-> sd.full]
  /\ LET turned == sdstat.full # sd.full
     IN  /\ sd' = [sd EXCEPT !.updated = @ /\ turned]
         /\ IF ~(seen \/ turned) THEN UNCHANGED statVars
            ELSE IF ~sd.mounted THEN SaveStatus("DiskUmounted")
            ELSE \/ SaveStatus("DiskPathFailed")
                 \/ IF sd.full THEN SaveStatus("DiskFull") ELSE UNCHANGED statVars
  /\ seen' = FALSE
  /\ pc' = "resave"
  /\ UNCHANGED <<card, sdNotify, msgs, ret, recVars, outVars, mutex, encVars>>

\* Mutant: a status that could not be written is forgotten.
Resave_never ==
  /\ At("resave")
  /\ pc' = "rerun"
  /\ UNCHANGED <<cardVars, msgs, ret, seen, sdstat, recVars, statVars, outVars, mutex, encVars>>

Resave ==
  /\ At("resave")
  /\ SaveStatus("Save")
  /\ pc' = "rerun"
  /\ UNCHANGED <<cardVars, msgs, ret, seen, sdstat, recVars, outVars, mutex, encVars>>

Rerun ==
  /\ At("rerun")
  /\ RecordRun(stateGo, "pack")
  /\ UNCHANGED <<cardVars, msgs, seen, sdstat, outVars, mutex, encVars>>
-----------------------------------------------------------------------------
(* record_pack: start the next file of a recording that is long enough. *)

Packing == stateGo = "Run" /\ stateGoing = "Run"

\* Not recording, or the file is neither old nor large enough.
NoPack ==
  /\ At("pack")
  /\ Packing => file
  /\ pc' = "recv"
  /\ UNCHANGED <<cardVars, msgs, ret, seen, sdstat, recVars, statVars, outVars, mutex, encVars>>

\* nbTotalSize of the file is read even when there is no file.
PackCrash ==
  /\ At("pack")
  /\ Packing /\ ~file
  /\ pc' = "dead"
  /\ UNCHANGED <<cardVars, msgs, ret, seen, sdstat, recVars, statVars, outVars, mutex, encVars>>

\* Mutant: the file is changed without the mutex.
PackClose_unlocked ==
  /\ At("pack")
  /\ Packing /\ file
  /\ mutex' = "main"
  /\ file' = FALSE /\ first' = TRUE
  /\ pc' = "roll"
  /\ UNCHANGED <<cardVars, msgs, ret, seen, sdstat, recVars, statVars, nowRec, broken, encVars>>

PackClose ==
  /\ At("pack")
  /\ Packing /\ file
  /\ mutex = "none"
  /\ mutex' = "main"
  /\ file' = FALSE /\ first' = TRUE
  /\ pc' = "roll"
  /\ UNCHANGED <<cardVars, msgs, ret, seen, sdstat, recVars, statVars, nowRec, broken, encVars>>

PackOpen ==
  /\ At("roll")
  /\ \/ file' = TRUE /\ UNCHANGED broken
     \/ RolloverFails /\ file' = FALSE /\ broken' = TRUE
  /\ mutex' = "none"
  /\ pc' = "recv"
  /\ UNCHANGED <<cardVars, msgs, ret, seen, sdstat, recVars, statVars, first, nowRec, encVars>>
-----------------------------------------------------------------------------
(* record_start: every call into the media stack may fail, and then        *)
(* record_stop undoes what was done ("goto failed").                       *)

NoStart ==
  /\ At("start")
  /\ file \/ ShouldStop
  /\ Return
  /\ UNCHANGED <<cardVars, msgs, seen, sdstat, recVars, statVars, outVars, mutex, encVars>>

\* vi2venc_prepare and ai2aenc_prepare.
Prepare ==
  /\ At("start")
  /\ ~file /\ ~ShouldStop
  /\ vipp' = TRUE /\ venc' = "ready"
  /\ pc' \in {"open", "stop"}
  /\ UNCHANGED <<cardVars, msgs, ret, seen, sdstat, recVars, statVars, outVars, mutex,
                 aenc, live, audio>>

\* ffpack_openFile, the streams and ffpack_start.
OpenFile ==
  /\ At("open")
  /\ \/ /\ file' = TRUE /\ first' = TRUE
        /\ pc' \in {"startv", "stop"}
        /\ UNCHANGED statVars
     \/ /\ SaveStatus("FileError")
        /\ pc' = "stop"
        /\ UNCHANGED <<file, first>>
  /\ UNCHANGED <<cardVars, msgs, ret, seen, sdstat, recVars, nowRec, broken, mutex, encVars>>

StartVideo ==
  /\ At("startv")
  /\ \/ venc' = "run" /\ pc' = "starta"
     \/ UNCHANGED venc /\ pc' = "stop"
  /\ UNCHANGED <<cardVars, msgs, ret, seen, sdstat, recVars, statVars, outVars, mutex,
                 aenc, live, vipp, audio>>

StartAudio ==
  /\ At("starta")
  /\ \/ ~audio /\ UNCHANGED aenc /\ pc' = "going"
     \/ audio /\ aenc' = "run" /\ pc' = "going"
     \/ audio /\ UNCHANGED aenc /\ pc' = "stop"
  /\ UNCHANGED <<cardVars, msgs, ret, seen, sdstat, recVars, statVars, outVars, mutex,
                 venc, live, vipp, audio>>

Started ==
  /\ At("going")
  /\ stateGoing' = "Run"
  /\ SaveStatus("Run")
  /\ nowRec' = TRUE
  /\ Return
  /\ UNCHANGED <<cardVars, msgs, seen, sdstat, stateGo, file, first, broken, mutex, encVars>>
-----------------------------------------------------------------------------
(* record_stop: both encoder threads are joined before the file is closed. *)

StopAudio ==
  /\ At("stop")
  /\ audio => aenc # "cb"
  /\ aenc' = IF audio THEN "off" ELSE aenc
  /\ pc' = "stopv"
  /\ UNCHANGED <<cardVars, msgs, ret, seen, sdstat, recVars, statVars, outVars, mutex,
                 venc, live, vipp, audio>>

\* The video input goes too unless the live stream uses it.
StopVideo ==
  /\ At("stopv")
  /\ venc # "cb"
  /\ vipp' = (vipp /\ (live \/ venc = "off"))
  /\ venc' = "off"
  /\ pc' = "stopf"
  /\ UNCHANGED <<cardVars, msgs, ret, seen, sdstat, recVars, statVars, outVars, mutex,
                 aenc, live, audio>>

\* Mutant: the recording still counts as going.
CloseFile_going ==
  /\ At("stopf")
  /\ mutex = "none"
  /\ file' = FALSE
  /\ SaveStatus(StopStatus)
  /\ nowRec' = FALSE
  /\ Return
  /\ UNCHANGED <<cardVars, msgs, seen, sdstat, recVars, first, broken, mutex, encVars>>

\* Mutant: no new status.
CloseFile_silent ==
  /\ At("stopf")
  /\ mutex = "none"
  /\ file' = FALSE
  /\ stateGoing' = "Stop"
  /\ nowRec' = FALSE
  /\ Return
  /\ UNCHANGED <<cardVars, msgs, seen, sdstat, stateGo, statVars, first, broken, mutex, encVars>>

CloseFile ==
  /\ At("stopf")
  /\ mutex = "none"
  /\ file' = FALSE
  /\ stateGoing' = "Stop"
  /\ SaveStatus(StopStatus)
  /\ nowRec' = FALSE
  /\ Return
  /\ UNCHANGED <<cardVars, msgs, seen, sdstat, stateGo, first, broken, mutex, encVars>>

\* The end of main: the live thread dies with the process.
Exit ==
  /\ At("exit")
  /\ pc' = "exited"
  /\ live' = FALSE /\ vipp' = FALSE
  /\ UNCHANGED <<cardVars, msgs, ret, seen, sdstat, recVars, statVars, outVars, mutex,
                 venc, aenc, audio>>
-----------------------------------------------------------------------------
(* The encoder threads: a callback holds the mutex while it writes.        *)

Quiet == UNCHANGED <<cardVars, msgs, ret, seen, sdstat, recVars, statVars>>

VideoBegin ==
  /\ Alive /\ venc = "run" /\ mutex = "none"
  /\ venc' = "cb" /\ mutex' = "video"
  /\ UNCHANGED <<pc, outVars, aenc, live, vipp, audio>>
  /\ Quiet

\* Mutant: the early return for a frame that is no key frame keeps the mutex.
VideoEnd_keepsMutex ==
  /\ Alive /\ venc = "cb"
  /\ venc' = "run"
  /\ \/ first /\ UNCHANGED <<pc, first, mutex>>
     \/ file /\ first' = FALSE /\ mutex' = "none" /\ UNCHANGED pc
  /\ UNCHANGED <<file, nowRec, broken, aenc, live, vipp, audio>>
  /\ Quiet

\* vv_onFrame: frames before the first key frame are dropped; without a
\* file ffpack_input dies on a null pointer.
VideoEnd ==
  /\ Alive /\ venc = "cb"
  /\ venc' = "run" /\ mutex' = "none"
  /\ \/ first /\ UNCHANGED <<pc, first>>
     \/ file /\ first' = FALSE /\ UNCHANGED pc
     \/ ~file /\ pc' = "dead" /\ UNCHANGED first
  /\ UNCHANGED <<file, nowRec, broken, aenc, live, vipp, audio>>
  /\ Quiet

\* AW_MPI_VENC_GetStream timed out: the thread leaves its loop.
VideoTimeout ==
  /\ Alive /\ venc = "run"
  /\ venc' = "ended"
  /\ UNCHANGED <<pc, outVars, mutex, aenc, live, vipp, audio>>
  /\ Quiet

AudioBegin ==
  /\ Alive /\ aenc = "run" /\ mutex = "none"
  /\ aenc' = "cb" /\ mutex' = "audio"
  /\ UNCHANGED <<pc, outVars, venc, live, vipp, audio>>
  /\ Quiet

AudioEnd ==
  /\ Alive /\ aenc = "cb"
  /\ aenc' = "run" /\ mutex' = "none"
  /\ pc' = IF file THEN pc ELSE "dead"
  /\ UNCHANGED <<outVars, venc, live, vipp, audio>>
  /\ Quiet
-----------------------------------------------------------------------------
(* The card thread (sdcard_check): values first, the flag after them. *)

OnlyCard == UNCHANGED <<card, msgs, pc, ret, seen, sdstat, recVars, statVars,
                        outVars, mutex, encVars>>

ProbeCard ==
  /\ Alive /\ ~sdNotify
  /\ LET p == Probe(card)
     IN  /\ sd' = [sd EXCEPT !.mounted = p.mounted, !.full = p.full]
         /\ sdNotify' = (p.mounted # sd.mounted \/ ~sd.checked)
  /\ OnlyCard

FlagCard ==
  /\ Alive /\ sdNotify
  /\ sd' = [sd EXCEPT !.updated = TRUE, !.checked = TRUE]
  /\ sdNotify' = FALSE
  /\ OnlyCard
-----------------------------------------------------------------------------
(* Everything outside the process. *)

\* gogglecmd: the message is lost while there is no queue.
Send(c) ==
  /\ ret # "exit"
  /\ Len(msgs) < MaxMsgs
  /\ msgs' = Append(msgs, c)
  /\ UNCHANGED <<cardVars, pc, ret, seen, sdstat, recVars, statVars, outVars, mutex, encVars>>

ChangeCard ==
  /\ card' \in CardStates \ {card}
  /\ UNCHANGED <<sd, sdNotify, msgs, pc, ret, seen, sdstat, recVars, statVars, outVars,
                 mutex, encVars>>

\* A script starts the process again.  A queue that outlived a crash is
\* flushed, but gogglemsg_flush stops after the first message it finds.
Restart ==
  /\ ~Alive
  /\ msgs' = IF msgs = <<>> THEN <<>> ELSE Tail(msgs)
  /\ Boot
  /\ UNCHANGED <<card, nowRec>>
-----------------------------------------------------------------------------
MainThread ==
  \/ FinishSave
  \/ RecvStart \/ RecvStop \/ RecvStartLive \/ RecvStopLive \/ RecvQuit \/ RecvNone \/ StopLive
  \/ NoTick \/ Tick \/ CheckDisk \/ Resave \/ Rerun
  \/ NoPack \/ PackCrash \/ PackClose \/ PackOpen
  \/ NoStart \/ Prepare \/ OpenFile \/ StartVideo \/ StartAudio \/ Started
  \/ StopAudio \/ StopVideo \/ CloseFile \/ Exit

EncoderThreads == VideoBegin \/ VideoEnd \/ VideoTimeout \/ AudioBegin \/ AudioEnd
CardThread == ProbeCard \/ FlagCard
Environment == (\E c \in Commands : Send(c)) \/ ChangeCard \/ Restart

Next == MainThread \/ EncoderThreads \/ CardThread \/ Environment

Spec == Init /\ [][Next]_vars

(***************************************************************************)
(* Fairness.  Each thread keeps running (the main thread sleeps 100 ms a   *)
(* turn, the card thread 100 ms), a tick falls due again and again, frames *)
(* leave the mutex free between them, and nobody holds the lock of         *)
(* record.dat for ever.  Nothing outside the process is fair.              *)
(***************************************************************************)
Fairness ==
  /\ WF_vars(MainThread) /\ WF_vars(CardThread)
  /\ WF_vars(VideoEnd) /\ WF_vars(AudioEnd)
  /\ SF_vars(Tick) /\ SF_vars(PackClose)
  /\ SF_vars(StopAudio) /\ SF_vars(StopVideo)
  /\ SF_vars(Resave /\ dat' = "Empty")

FairSpec == Spec /\ Fairness
-----------------------------------------------------------------------------
Locations == {"recv", "tick", "livestop", "disk", "resave", "rerun", "pack", "roll",
              "start", "open", "startv", "starta", "going", "stop", "stopv", "stopf",
              "exit", "exited", "dead"}

TypeOK ==
  /\ card \in {"absent", "ok", "full"}
  /\ sd \in [mounted : BOOLEAN, full : BOOLEAN, updated : BOOLEAN, checked : BOOLEAN]
  /\ sdNotify \in BOOLEAN
  /\ sdstat \in [mounted : BOOLEAN, full : BOOLEAN]
  /\ msgs \in Seq(Commands)
  /\ pc \in Locations /\ ret \in {"tick", "livestop", "pack", "exit"}
  /\ seen \in BOOLEAN
  /\ stateGo \in RecStates /\ stateGoing \in RecStates
  /\ status \in Status /\ saved \in Status /\ dat \in Status \cup {"Empty"}
  /\ audio \in BOOLEAN /\ file \in BOOLEAN /\ first \in BOOLEAN
  /\ nowRec \in BOOLEAN /\ broken \in BOOLEAN
  /\ mutex \in {"none", "main", "video", "audio"}
  /\ venc \in {"off", "ready", "run", "cb", "ended"}
  /\ aenc \in {"off", "run", "cb"}
  /\ live \in BOOLEAN /\ vipp \in BOOLEAN

\* No callback writes to a file that is gone, and record_pack never reads
\* one, as long as no rollover has failed (main.c:453, 496, 591).
CrashNeedsFailedRollover == pc = "dead" => broken

\* Between two messages, status Run stands for an encoder that runs and a
\* file it writes to: what the goggle concludes from record.dat (dvr.c:37).
RunMeansRecording ==
  status = "Run" /\ pc \in {"recv", "tick", "disk", "rerun", "pack"} =>
    stateGoing = "Run" /\ Going /\ (file \/ broken)

\* A recording that is over has left no thread and no open file behind, so
\* the next record_start cannot run two of either (main.c:248, 269).
StopLeavesNothing ==
  stateGoing # "Run" /\ pc \in {"recv", "tick", "livestop", "start"} =>
    ~file /\ venc = "off" /\ aenc = "off"

\* The video input exists exactly as long as one of its two users does: a
\* stop of one never takes it from the other, nor leaves it behind.
InputSharedRight ==
  Alive => (vipp <=> (live \/ venc # "off"))

\* When LIVE_cmdSTOP has been handled the video input is gone, so that the
\* encoders restart on the new source (main.c:924-927).
LiveStopFreesInput == [][pc = "livestop" => pc' = "livestop" \/ ~vipp']_vars

\* The file is opened and closed only while no callback is inside it.
FileStableInCallback == [][file' # file => venc # "cb" /\ aenc # "cb"]_vars

\* record_stop always ends: both threads can be joined, the file is closed.
StopCompletes == pc = "stop" ~> (venc = "off" /\ aenc = "off" /\ ~file) \/ ~Alive

\* Without a card the recording ends, whatever was asked for.
CardGoneStops == <>[](card = "absent") => <>[](~file \/ ~Alive)

\* Status and file agree again in the end, though another process locks the
\* file now and then.  What the loop writes in place of a status that failed is
\* REC_statusSave (main.c:174, 939); after a restart it may write nothing.
StatusPublished == []<>(dat = status \/ ~Alive)
=============================================================================
