----------------------------- MODULE Dvr_proofs -----------------------------
(* Theorems about the DVR, for every source, any length of the queue and   *)
(* whatever the card, the backpack and the record process do.              *)
EXTENDS Dvr, SequenceTheorems, TLAPS

\* The ends of a queue of commands when one is appended or taken.
LEMMA QueueEnds ==
  ASSUME NEW q \in Seq(Commands)
  PROVE  /\ \A c \in Commands : /\ Append(q, c) \in Seq(Commands)
                                /\ Append(q, c) # <<>>
                                /\ Len(Append(q, c)) = Len(q) + 1
                                /\ Append(q, c)[Len(q) + 1] = c
         /\ q # <<>> => /\ Head(q) \in Commands /\ Head(q) = q[1]
                        /\ Tail(q) \in Seq(Commands)
                        /\ Len(q) \in Nat \ {0}
                        /\ Len(Tail(q)) = Len(q) - 1
                        /\ Tail(q) = <<>> <=> Len(q) = 1
                        /\ Tail(q) # <<>> => Tail(q)[Len(q) - 1] = q[Len(q)]
         /\ Len(q) \in Nat /\ (Len(q) = 0 <=> q = <<>>)
<1>1. Len(q) \in Nat /\ (q # <<>> => Len(q) \in Nat \ {0}) /\ Len(<<>>) = 0
  BY EmptySeq, LenProperties
<1>2. ASSUME NEW c \in Commands
      PROVE  /\ Append(q, c) \in Seq(Commands) /\ Append(q, c) # <<>>
             /\ Len(Append(q, c)) = Len(q) + 1 /\ Append(q, c)[Len(q) + 1] = c
  OBVIOUS
<1>3. ASSUME q # <<>>
      PROVE  /\ Head(q) \in Commands /\ Head(q) = q[1] /\ Tail(q) \in Seq(Commands)
             /\ Len(Tail(q)) = Len(q) - 1
             /\ \A i \in 1 .. Len(Tail(q)) : Tail(q)[i] = q[i + 1]
  BY <1>3, HeadTailProperties
<1>4. ASSUME q # <<>> PROVE Tail(q) = <<>> <=> Len(q) = 1
  <2>1. Len(Tail(q)) = 0 <=> Tail(q) = <<>>
    BY <1>3, <1>4, EmptySeq
  <2> QED
    BY <1>1, <1>3, <1>4, <2>1
<1>5. ASSUME q # <<>>, Tail(q) # <<>> PROVE Tail(q)[Len(q) - 1] = q[Len(q)]
  <2>1. Len(Tail(q)) \in Nat \ {0}
    BY <1>3, <1>5, EmptySeq
  <2> QED
    BY <1>1, <1>3, <1>5, <2>1
<1> QED
  BY <1>1, <1>2, <1>3, <1>4, <1>5

Holds(t) == cmd[t] \in {"START", "STOP"}

\* dvr_mutex has one holder, and the message it is about to send is what
\* the flag says.
Mutex ==
  /\ cmd \in [Threads -> {"none", "asked", "START", "STOP"}]
  /\ \A s, t \in Threads : Holds(s) /\ Holds(t) => s = t
  /\ \A t \in Threads : /\ cmd[t] = "START" => flag
                        /\ cmd[t] = "STOP" => ~flag

Queue == msgs \in Seq(Commands) /\ go \in {"Idle", "Run", "Stop"}

\* Unless a STOP is about to be sent, what is not wanted will not happen.
Tracked == ~flag /\ (\A t \in Threads : cmd[t] # "STOP") => ~WillRecord

KnownInv == Mutex /\ Queue /\ Tracked

\* A message leaves the process on its way to what the message asks for.
LEMMA DeliverStep ==
  ASSUME Queue, NEW c \in Commands, Deliver(c)
  PROVE  Queue' /\ (WillRecord' => c = "START")
<1>1. CASE R!Send(c)
  <2>1. msgs' = Append(msgs, c) /\ up' = up /\ go' = go
    BY <1>1 DEF R!Send
  <2> QED
    BY <2>1, QueueEnds DEF Queue, WillRecord
<1>2. CASE ~up /\ msgs = <<>> /\ UNCHANGED recorder
  BY <1>2, QueueEnds DEF Queue, WillRecord, recorder
<1> QED
  BY <1>1, <1>2 DEF Deliver

\* What the record process does by itself never makes it want to record.
LEMMA ProcessStep ==
  ASSUME Queue, RecordProcess
  PROVE  Queue' /\ (WillRecord' => WillRecord)
<1>1. ASSUME NEW c \in Commands, R!Take(c) PROVE Queue' /\ (WillRecord' => WillRecord)
  <2>1. msgs # <<>> /\ c = Head(msgs) /\ up /\ up'
    BY <1>1 DEF R!Take
  <2>2. msgs' = Tail(msgs)
    BY <1>1 DEF R!Take, Commands
  <2>3. go' = IF c = "START" THEN "Run" ELSE "Stop"
    BY <1>1 DEF R!Take, Commands
  <2> QED
    BY <2>1, <2>2, <2>3, QueueEnds DEF Queue, WillRecord
<1>2. CASE R!Start \/ R!Stop \/ R!Note \/ R!Write
  BY <1>2 DEF R!Start, R!Stop, R!Note, R!Write, Queue, WillRecord
<1>3. CASE R!Die
  BY <1>3, QueueEnds DEF R!Die, Queue, WillRecord
<1>4. CASE R!Restart
  <2>1. CASE msgs = <<>>
    BY <1>4, <2>1 DEF R!Restart, Queue, WillRecord
  <2>2. CASE msgs # <<>>
    <3>1. msgs' = Tail(msgs) /\ go' = "Idle" /\ ~up /\ up'
      BY <1>4, <2>2 DEF R!Restart
    <3> QED
      BY <3>1, <2>2, QueueEnds DEF Queue, WillRecord
  <2> QED
    BY <2>1, <2>2
<1> QED
  BY <1>1, <1>2, <1>3, <1>4 DEF RecordProcess, R!Work

\* KnownInv is inductive.
LEMMA KnownStep == KnownInv /\ [Next]_vars => KnownInv'
<1> SUFFICES ASSUME KnownInv, [Next]_vars PROVE KnownInv'
  OBVIOUS
<1> USE DEF KnownInv, Mutex, Holds
<1>1. ASSUME UNCHANGED <<recorder, flag, cmd>> PROVE KnownInv'
  BY <1>1 DEF recorder, Queue, Tracked, WillRecord
<1>2. ASSUME NEW t \in Threads, Call(t) PROVE KnownInv'
  <2>1. CASE CheckCard(t)
    BY <2>1 DEF CheckCard, recorder, Queue, Tracked, WillRecord
  <2>2. CASE Decide(t)
    BY <2>2 DEF Decide, MutexFree, recorder, Queue, Tracked, WillRecord
  <2>3. CASE RunScript(t)
    <3>1. cmd[t] \in Commands /\ Queue' /\ (WillRecord' => cmd[t] = "START")
      BY <2>3, DeliverStep DEF RunScript, Commands
    <3> QED
      BY <2>3, <3>1 DEF RunScript, Tracked
  <2>4. CASE UpdateStatus(t)
    BY <2>4 DEF UpdateStatus, MutexFree, recorder, Queue, Tracked, WillRecord
  <2>5. CASE StopLive(t)
    <3>1. Queue' /\ ~WillRecord'
      BY <2>5, DeliverStep DEF StopLive, Commands
    <3> QED
      BY <2>5, <3>1 DEF StopLive, Tracked
  <2>6. CASE UpdateConf(t) \/ PushVideo(t) \/ SetSource(t) \/ TakeLvgl(t) \/ DropLvgl(t)
    BY <2>6, <1>1 DEF UpdateConf, PushVideo, SetSource, TakeLvgl, DropLvgl
  <2> QED
    BY <1>2, <2>1, <2>2, <2>3, <2>4, <2>5, <2>6 DEF Call
<1>3. CASE User
  BY <1>3, <1>1 DEF User, SwitchToMenu, ExitMenu, SelectSource, ToggleRecording,
     TuneChannel, GoSleep, WakeUp, UserBegins
<1>4. CASE Peripheral \/ Receiver
  BY <1>4, <1>1 DEF Peripheral, Turn, CheckSource, CheckSignal, Receiver, SetChannel,
     SetRecState, HandlerTimeout
<1>5. CASE RecordProcess
  <2>1. UNCHANGED <<flag, cmd>>
    BY <1>5 DEF RecordProcess, goggle, threads
  <2> QED
    BY <1>5, <2>1, ProcessStep DEF Tracked
<1>6. CASE UNCHANGED vars
  BY <1>6, <1>1 DEF vars, threads
<1> QED
  BY <1>2, <1>3, <1>4, <1>5, <1>6 DEF Next

\* KnownRecording, for every interleaving of the threads: the goggle never
\* records without dvr_is_recording saying so.
THEOREM Known == Spec => []KnownRecording
<1>1. Init => KnownInv
  BY DEF Init, R!Init, KnownInv, Mutex, Holds, Queue, Tracked, WillRecord, Threads
<1>2. KnownInv => KnownRecording
  BY DEF KnownInv, Mutex, Tracked, KnownRecording, MutexFree
<1> QED
  BY <1>1, <1>2, KnownStep, PTL DEF Spec
-----------------------------------------------------------------------------
\* Concatenations of calls are calls.
LEMMA CallTypes ==
  /\ \A p, q \in Seq(Ops) : p \o q \in Seq(Ops)
  /\ \A p \in Seq(Ops) : p # <<>> => Head(p) \in Ops /\ Tail(p) \in Seq(Ops)
  /\ <<>> \in Seq(Ops)
  /\ \A o \in Ops : <<o>> \in Seq(Ops)
  /\ \A p \in Seq(Ops), o \in Ops : Append(p, o) \in Seq(Ops)
  BY ConcatProperties, HeadTailProperties

\* The calls that show a source.
LEMMA SwitchTypes == \A s \in Sources : SwitchTo(s) \in Seq(Ops)
<1> TAKE s \in Sources
<1>1. CASE s = "HDMI"
  <2>1. "VIDEO" \in Ops /\ "HDMI" \in Ops /\ "STOPL" \in Ops
    BY <1>1 DEF Ops
  <2>2. <<"VIDEO", "HDMI", "STOPL">> \in Seq(Ops)
    BY <2>1
  <2> QED
    BY <1>1, <2>2 DEF SwitchTo
<1>2. CASE s # "HDMI"
  <2>1. "CONF" \in Ops /\ "STOPL" \in Ops
    BY DEF Ops
  <2>2. <<"CONF", "STOPL">> \in Seq(Ops)
    BY <2>1
  <2> QED
    BY <1>2, <2>2 DEF SwitchTo
<1> QED
  BY <1>1, <1>2

\* A thread is inside dvr_cmd or dvr_update_status only with the call that
\* went there.
Busy ==
  /\ cmd \in [Threads -> {"none", "asked", "START", "STOP"}]
  /\ \A t \in Threads : cmd[t] # "none" => ~Idle(t) /\ Op(t) \in DvrOps \cup {"POLL"}

\* The types of the threads' variables.
Calls ==
  /\ todo \in [Threads -> Seq(Ops)]
  /\ source \in Sources
  /\ recState \in {"START", "STOP"}
  /\ lvgl \in Threads \cup {"none"}
  /\ Busy

\* A handler begins with calls and goes on with the rest of them.
LEMMA BeginTypes ==
  ASSUME Calls, NEW t \in Threads
  PROVE  /\ \A ops \in Seq(Ops) : Begin(t, ops) => todo' \in [Threads -> Seq(Ops)]
         /\ ~Idle(t) /\ Finish(t) => todo' \in [Threads -> Seq(Ops)]
  BY CallTypes DEF Calls, Begin, Finish, Idle

\* A thread that begins anew or makes a call that is none of dvr.c stays out
\* of it.
LEMMA BusyBegins ==
  ASSUME Calls, UNCHANGED cmd, NEW t \in Threads, cmd[t] = "none",
         NEW ops, Begin(t, ops) \/ Finish(t) \/ UNCHANGED todo
  PROVE  Busy'
  BY DEF Calls, Busy, Begin, Finish, Idle, Op

\* The calls of the threads keep their types.
LEMMA CallsStep == Calls /\ [Next]_vars => Calls'
<1> SUFFICES ASSUME Calls, [Next]_vars PROVE Calls'
  OBVIOUS
<1>1. ASSUME NEW t \in Threads, Call(t) PROVE Calls'
  <2>1. UNCHANGED todo \/ (~Idle(t) /\ Finish(t))
    BY <1>1 DEF Call, CheckCard, Decide, RunScript, UpdateStatus, UpdateConf, StopLive,
       PushVideo, SetSource, TakeLvgl, DropLvgl, Calls, Busy
  <2>2. todo' \in [Threads -> Seq(Ops)]
    BY <2>1, BeginTypes DEF Calls
  <2>3. source' \in Sources /\ recState' = recState /\ lvgl' \in Threads \cup {"none"}
    BY <1>1 DEF Call, CheckCard, Decide, RunScript, UpdateStatus, UpdateConf, StopLive,
       PushVideo, SetSource, TakeLvgl, DropLvgl, Calls, screen, backpack
  <2>4. CASE CheckCard(t) \/ Decide(t) \/ RunScript(t) \/ UpdateStatus(t)
    <3>1. Busy'
      BY <2>4 DEF CheckCard, Decide, RunScript, UpdateStatus, Calls, Busy, Idle, Op, Finish
    <3> QED
      BY <2>2, <2>3, <3>1 DEF Calls
  <2>5. CASE UpdateConf(t) \/ StopLive(t) \/ PushVideo(t) \/ SetSource(t)
             \/ TakeLvgl(t) \/ DropLvgl(t)
    <3>1. UNCHANGED cmd /\ Finish(t) /\ cmd[t] = "none"
      BY <2>5, DvrAssumption DEF UpdateConf, StopLive, PushVideo, SetSource, TakeLvgl, DropLvgl,
         Calls, Busy, DvrOps
    <3> QED
      BY <2>2, <2>3, <3>1, BusyBegins DEF Calls
  <2> QED
    BY <1>1, <2>4, <2>5 DEF Call
<1>2. CASE User
  <2>1. PICK ops \in Seq(Ops) : UserBegins(ops)
    <3>1. CASE SwitchToMenu \/ GoSleep \/ ToggleRecording
      <4>1. {"STOP", "CONF", "STOPL", "TOGGLE"} \subseteq Ops
        BY DEF Ops, DvrOps
      <4>2. /\ <<"STOP", "CONF", "STOPL">> \in Seq(Ops)
            /\ <<"STOP", "CONF">> \in Seq(Ops) /\ <<"TOGGLE">> \in Seq(Ops)
        BY <4>1
      <4> QED
        BY <3>1, <4>2 DEF SwitchToMenu, GoSleep, ToggleRecording
    <3>2. CASE ExitMenu
      <4>1. Append(SwitchTo(source), "VIDEO") \in Seq(Ops)
        BY SwitchTypes, CallTypes DEF Calls, Ops
      <4> QED
        BY <3>2, <4>1 DEF ExitMenu
    <3>3. ASSUME NEW s \in Sources, SelectSource(s)
          PROVE  \E ops \in Seq(Ops) : UserBegins(ops)
      <4>1. "VIDEO" \in Ops /\ s \in Ops
        BY DEF Ops
      <4>2. <<"VIDEO", s>> \in Seq(Ops)
        BY <4>1
      <4>3. SwitchTo(s) \in Seq(Ops) /\ SwitchTo(s) \o <<"VIDEO", s>> \in Seq(Ops)
        BY <4>2, SwitchTypes, CallTypes
      <4> QED
        BY <3>3, <4>3 DEF SelectSource
    <3>4. CASE TuneChannel
      <4>1. <<"STOP">> \in Seq(Ops) /\ <<"STOP">> \o SwitchTo(source) \in Seq(Ops)
        BY SwitchTypes, CallTypes DEF Calls, Ops, DvrOps
      <4> QED
        BY <3>4, <4>1 DEF TuneChannel
    <3>5. CASE WakeUp
      <4>1. {"STOP", "CONF", "STOPL", "VIDEO"} \subseteq Ops
        BY DEF Ops, DvrOps
      <4>2. <<"STOP", "CONF", "STOPL", "VIDEO">> \in Seq(Ops)
        BY <4>1
      <4>3. /\ <<"STOP", "CONF", "STOPL", "VIDEO">> \o SwitchTo(source) \in Seq(Ops)
            /\ <<>> \in Seq(Ops)
        BY <4>2, SwitchTypes, CallTypes DEF Calls
      <4> QED
        BY <3>5, <4>3 DEF WakeUp
    <3> QED
      BY <1>2, <3>1, <3>2, <3>3, <3>4, <3>5 DEF User
  <2>2. Append(ops, "UNLVGL") \in Seq(Ops)
    BY CallTypes DEF Ops
  <2>3. "ui" \in Threads /\ cmd["ui"] = "none"
    BY <2>1 DEF UserBegins, Calls, Busy, Threads
  <2>4. Busy' /\ todo' \in [Threads -> Seq(Ops)]
    BY <2>1, <2>2, <2>3, BusyBegins, BeginTypes DEF UserBegins
  <2> QED
    BY <2>1, <2>3, <2>4 DEF UserBegins, Calls, backpack
<1>3. CASE Peripheral
  <2>1. cmd["per"] = "none" /\ UNCHANGED cmd /\ "per" \in Threads
    BY <1>3 DEF Peripheral, Turn, CheckSource, CheckSignal, Calls, Busy, Threads, DvrOps
  <2>2. UNCHANGED <<source, recState, lvgl>>
    BY <1>3 DEF Peripheral, Turn, CheckSource, CheckSignal, screen, backpack
  <2>3. PICK ops \in Seq(Ops) : Begin("per", ops) \/ (~Idle("per") /\ Finish("per"))
    <3>1. /\ <<"POLL">> \in Seq(Ops) /\ <<"CONF">> \in Seq(Ops) /\ <<"SIGNAL">> \in Seq(Ops)
          /\ <<"CHANGED">> \in Seq(Ops) /\ <<"CHECK">> \in Seq(Ops)
          /\ <<"STOP">> \in Seq(Ops) /\ <<"START">> \in Seq(Ops) /\ <<>> \in Seq(Ops)
      BY CallTypes DEF Ops, DvrOps
    <3>2. {"CONF", "STOPL", "STOP", "START"} \subseteq Ops
      BY DEF Ops, DvrOps
    <3>3. /\ <<"CONF", "STOPL">> \in Seq(Ops) /\ <<"STOP", "START">> \in Seq(Ops)
          /\ <<"STOP", "STOPL">> \in Seq(Ops)
      BY <3>2
    <3>4. ASSUME NEW polls \in BOOLEAN, NEW changed \in BOOLEAN, Turn(polls, changed)
          PROVE  \E ops \in Seq(Ops) : Begin("per", ops)
      <4> DEFINE a == IF polls THEN <<"POLL">> ELSE <<>>
                 b == IF changed /\ source = "HDZ" THEN <<"CONF", "STOPL">> ELSE <<>>
                 c == IF changed /\ source = "HDMI" THEN <<"CONF">> ELSE <<>>
                 d == <<IF changed THEN "CHANGED" ELSE "CHECK">>
      <4>1. a \in Seq(Ops) /\ b \in Seq(Ops) /\ c \in Seq(Ops) /\ d \in Seq(Ops)
        BY <3>1, <3>3
      <4>2. Begin("per", a \o b \o c \o d)
        BY <3>4 DEF Turn
      <4> HIDE DEF a, b, c, d
      <4> QED
        BY <4>1, <4>2, CallTypes
    <3>5. ASSUME CheckSource PROVE \E ops \in Seq(Ops) : Begin("per", ops)
      <4>1. ASSUME NEW ch PROVE SourceCalls(ch) \in Seq(Ops)
        <5> DEFINE a == IF ch /\ source = "AV" /\ flag THEN <<"STOP", "START">> ELSE <<>>
                   b == IF ch /\ source = "HDZ" THEN <<"STOP", "STOPL">> ELSE <<>>
                   c == IF ch /\ source = "HDMI" THEN <<"STOP">> ELSE <<>>
        <5>1. a \in Seq(Ops) /\ b \in Seq(Ops) /\ c \in Seq(Ops)
          BY <3>1, <3>3
        <5>2. SourceCalls(ch) = a \o b \o c \o <<"SIGNAL">>
          BY DEF SourceCalls
        <5> HIDE DEF a, b, c
        <5> QED
          BY <3>1, <5>1, <5>2, CallTypes
      <4> QED
        BY <3>1, <3>5, <4>1 DEF CheckSource
    <3>6. ASSUME CheckSignal
          PROVE  \E ops \in Seq(Ops) : Begin("per", ops) \/ (~Idle("per") /\ Finish("per"))
      BY <3>1, <3>6 DEF CheckSignal
    <3> QED
      BY <1>3, <3>4, <3>5, <3>6 DEF Peripheral
  <2>4. Busy' /\ todo' \in [Threads -> Seq(Ops)]
    BY <2>1, <2>3, BusyBegins, BeginTypes
  <2> QED
    BY <2>2, <2>4 DEF Calls
<1>4. CASE Receiver
  <2>1. cmd["rx"] = "none" /\ UNCHANGED cmd /\ "rx" \in Threads
    BY <1>4 DEF Receiver, SetChannel, SetRecState, HandlerTimeout, Calls, Busy, Threads
  <2>2. UNCHANGED <<source, lvgl>> /\ recState' \in {"START", "STOP"}
    BY <1>4 DEF Receiver, SetChannel, SetRecState, HandlerTimeout, screen, backpack, Calls
  <2>3. PICK ops \in Seq(Ops) : Begin("rx", ops) \/ UNCHANGED todo
    <3>1. ASSUME NEW stops \in BOOLEAN, SetChannel(stops)
          PROVE  \E ops \in Seq(Ops) : Begin("rx", ops)
      <4> DEFINE a == IF stops THEN <<"STOP">> ELSE <<>>
                 b == SwitchTo(source)
                 l == <<"LVGL">>
                 e == <<"VIDEO", "UNLVGL">>
      <4>1. "VIDEO" \in Ops /\ "UNLVGL" \in Ops
        BY DEF Ops
      <4>2. e \in Seq(Ops)
        BY <4>1
      <4>3. a \in Seq(Ops) /\ b \in Seq(Ops) /\ l \in Seq(Ops)
        BY CallTypes, SwitchTypes DEF Ops, DvrOps, Calls
      <4>4. Begin("rx", l \o a \o b \o e)
        BY <3>1 DEF SetChannel
      <4> HIDE DEF a, b, l, e
      <4> QED
        BY <4>2, <4>3, <4>4, CallTypes
    <3>2. <<"START">> \in Seq(Ops) /\ <<"STOP">> \in Seq(Ops)
      BY CallTypes DEF Ops, DvrOps
    <3>3. ASSUME NEW c \in {"START", "STOP"}, NEW later \in BOOLEAN, SetRecState(c, later)
          PROVE  \E ops \in Seq(Ops) : Begin("rx", ops) \/ UNCHANGED todo
      BY <3>2, <3>3, CallTypes DEF SetRecState
    <3>4. ASSUME HandlerTimeout PROVE \E ops \in Seq(Ops) : Begin("rx", ops)
      BY <3>2, <3>4 DEF HandlerTimeout, Calls
    <3> QED
      BY <1>4, <3>1, <3>3, <3>4 DEF Receiver
  <2>4. Busy' /\ todo' \in [Threads -> Seq(Ops)]
    <3>1. CASE Begin("rx", ops)
      BY <2>1, <3>1, BusyBegins, BeginTypes
    <3>2. CASE UNCHANGED todo
      BY <2>1, <3>2 DEF Calls, Busy, Idle, Op
    <3> QED
      BY <2>3, <3>1, <3>2
  <2> QED
    BY <2>2, <2>4 DEF Calls
<1>5. CASE RecordProcess \/ UNCHANGED vars
  BY <1>5 DEF RecordProcess, goggle, vars, screen, backpack, threads, Calls, Busy, Idle, Op
<1> QED
  BY <1>1, <1>2, <1>3, <1>4, <1>5 DEF Next
-----------------------------------------------------------------------------
\* The flags of the goggle and of the record process.
Flags == flag \in BOOLEAN /\ sdEnable \in BOOLEAN /\ delayed \in BOOLEAN
         /\ on \in BOOLEAN /\ up \in BOOLEAN

\* What dvr_cmd wants is a yes or a no.
LEMMA WantedType == ASSUME flag \in BOOLEAN, NEW op PROVE Wanted(op) \in BOOLEAN
  BY Zenon DEF Wanted

\* A message that is sent changes no flag.
LEMMA DeliverFlags == ASSUME NEW c, Deliver(c) PROVE UNCHANGED <<go, on, dat, up>>
  BY DEF Deliver, R!Send, recorder

\* Every flag stays a flag.
LEMMA FlagsStep == Flags /\ [Next]_vars => Flags'
<1> SUFFICES ASSUME Flags, [Next]_vars PROVE Flags'
  OBVIOUS
<1> USE DEF Flags
<1>1. ASSUME NEW t \in Threads, Call(t) PROVE Flags'
  <2>1. CASE Decide(t)
    BY <2>1, WantedType, Zenon DEF Decide, recorder, backpack
  <2>2. CASE RunScript(t) \/ StopLive(t)
    <3>1. UNCHANGED <<on, up>>
      BY <2>2, DeliverFlags DEF RunScript, StopLive
    <3>2. UNCHANGED <<flag, sdEnable, delayed>>
      BY <2>2 DEF RunScript, StopLive, backpack
    <3> QED
      BY <3>1, <3>2, Zenon
  <2>3. CASE UpdateStatus(t)
    <3>1. UNCHANGED <<on, up, sdEnable, delayed>>
      BY <2>3 DEF UpdateStatus, recorder, backpack
    <3>2. flag' \in BOOLEAN
      BY <2>3, Zenon DEF UpdateStatus
    <3> QED
      BY <3>1, <3>2, Zenon
  <2>4. CASE CheckCard(t) \/ UpdateConf(t) \/ PushVideo(t) \/ SetSource(t) \/ TakeLvgl(t) \/ DropLvgl(t)
    <3>1. UNCHANGED <<flag, on, up, sdEnable, delayed>>
      BY <2>4 DEF CheckCard, UpdateConf, PushVideo, SetSource, TakeLvgl, DropLvgl, recorder, backpack
    <3> QED
      BY <3>1, Zenon
  <2> QED
    BY <1>1, <2>1, <2>2, <2>3, <2>4 DEF Call
<1>2. CASE User
  <2>1. UNCHANGED <<flag, on, up, sdEnable, delayed>>
    BY <1>2 DEF User, SwitchToMenu, ExitMenu, SelectSource, ToggleRecording, TuneChannel, GoSleep,
       WakeUp, UserBegins, recorder, backpack
  <2> QED
    BY <2>1, Zenon
<1>3. CASE Peripheral
  <2>1. UNCHANGED <<flag, on, up, delayed>>
    BY <1>3 DEF Peripheral, Turn, CheckSource, CheckSignal, recorder, backpack
  <2>2. sdEnable' \in BOOLEAN
    <3>1. ASSUME NEW polls \in BOOLEAN, NEW changed \in BOOLEAN, Turn(polls, changed)
          PROVE  sdEnable' \in BOOLEAN
      BY <3>1, Zenon DEF Turn
    <3>2. CASE CheckSource \/ CheckSignal
      BY <3>2, Zenon DEF CheckSource, CheckSignal
    <3> QED
      BY <1>3, <3>1, <3>2 DEF Peripheral
  <2> QED
    BY <2>1, <2>2, Zenon
<1>4. CASE Receiver
  <2>1. UNCHANGED <<flag, on, up, sdEnable>>
    BY <1>4 DEF Receiver, SetChannel, SetRecState, HandlerTimeout, recorder
  <2>2. delayed' \in BOOLEAN
    <3>1. ASSUME NEW c \in {"START", "STOP"}, NEW later \in BOOLEAN, SetRecState(c, later)
          PROVE  delayed' \in BOOLEAN
      BY <3>1, Zenon DEF SetRecState
    <3>2. ASSUME NEW stops \in BOOLEAN, SetChannel(stops) PROVE delayed' \in BOOLEAN
      BY <3>2, Zenon DEF SetChannel, backpack
    <3>3. CASE HandlerTimeout
      BY <3>3, Zenon DEF HandlerTimeout
    <3> QED
      BY <1>4, <3>1, <3>2, <3>3 DEF Receiver
  <2> QED
    BY <2>1, <2>2, Zenon
<1>5. CASE RecordProcess
  <2>1. UNCHANGED <<flag, sdEnable, delayed>>
    BY <1>5 DEF RecordProcess, goggle, backpack
  <2>2. on' \in BOOLEAN /\ up' \in BOOLEAN
    <3>1. ASSUME NEW c \in Commands, R!Take(c) PROVE on' \in BOOLEAN /\ up' \in BOOLEAN
      BY <3>1, Zenon DEF R!Take
    <3>2. CASE R!Start \/ R!Stop \/ R!Note \/ R!Write \/ R!Die \/ R!Restart
      BY <3>2, Zenon DEF R!Start, R!Stop, R!Note, R!Write, R!Die, R!Restart
    <3> QED
      BY <1>5, <3>1, <3>2 DEF RecordProcess, R!Work
  <2> QED
    BY <2>1, <2>2, Zenon
<1>6. CASE UNCHANGED vars
  <2>1. UNCHANGED <<flag, on, up, sdEnable, delayed>>
    BY <1>6 DEF vars, recorder, backpack
  <2> QED
    BY <2>1, Zenon
<1> QED
  BY <1>1, <1>2, <1>3, <1>4, <1>5, <1>6 DEF Next

\* The modes of the goggle, the queue and the status file.
Values ==
  /\ Queue /\ Len(msgs) <= MaxMsgs /\ dat \in {"Run", "Other", "Empty"}
  /\ app \in {"menu", "video", "sleep"} /\ previous \in {"menu", "video"}

\* They keep their types.
LEMMA ValuesStep == Values /\ [Next]_vars => Values'
<1> SUFFICES ASSUME Values, [Next]_vars PROVE Values'
  OBVIOUS
<1> USE DEF Values
<1>1. ASSUME NEW t \in Threads, Call(t) PROVE Values'
  <2>1. CASE RunScript(t) \/ StopLive(t)
    <3>1. PICK c \in Commands : Deliver(c)
      BY <2>1 DEF RunScript, StopLive, Commands
    <3>2. Len(msgs') <= MaxMsgs
      BY <3>1, QueueEnds, DvrAssumption DEF Deliver, R!Send, recorder, Queue
    <3> QED
      BY <2>1, <3>1, <3>2, DeliverStep, DeliverFlags DEF RunScript, StopLive, screen
  <2>2. CASE ~(RunScript(t) \/ StopLive(t))
    BY <1>1, <2>2 DEF Call, CheckCard, Decide, UpdateStatus, UpdateConf, PushVideo, SetSource,
       TakeLvgl, DropLvgl, recorder, screen, Queue
  <2> QED
    BY <2>1, <2>2
<1>2. CASE User
  BY <1>2 DEF User, SwitchToMenu, ExitMenu, SelectSource, ToggleRecording, TuneChannel, GoSleep,
     WakeUp, UserBegins, recorder, Queue
<1>3. CASE Peripheral \/ Receiver
  BY <1>3 DEF Peripheral, Turn, CheckSource, CheckSignal, Receiver, SetChannel, SetRecState,
     HandlerTimeout, recorder, screen, Queue
<1>4. CASE RecordProcess
  <2>1. UNCHANGED <<app, previous>> /\ Queue'
    BY <1>4, ProcessStep DEF RecordProcess, goggle, screen
  <2>2. dat' \in {"Run", "Other", "Empty"}
    BY <1>4 DEF RecordProcess, R!Work, R!Take, R!Rewrite, R!Start, R!Stop, R!Note, R!Write,
       R!Die, R!Restart
  <2>3. Len(msgs') <= MaxMsgs
    <3>1. msgs' = msgs \/ msgs' = <<>> \/ (msgs # <<>> /\ msgs' = Tail(msgs))
      BY <1>4 DEF RecordProcess, R!Work, R!Take, R!Start, R!Stop, R!Note, R!Write, R!Die, R!Restart
    <3> QED
      BY <3>1, QueueEnds, EmptySeq, DvrAssumption DEF Queue
  <2> QED
    BY <2>1, <2>2, <2>3
<1>5. CASE UNCHANGED vars
  BY <1>5 DEF vars, recorder, screen, Queue
<1> QED
  BY <1>1, <1>2, <1>3, <1>4, <1>5 DEF Next

History == late \in BOOLEAN

\* Only a script that is run writes it.
LEMMA HistoryStep == History /\ [Next]_vars => History'
<1> SUFFICES ASSUME late \in BOOLEAN, [Next]_vars PROVE late' \in BOOLEAN
  BY DEF History
<1>1. ASSUME NEW t \in Threads, RunScript(t) PROVE late' \in BOOLEAN
  BY <1>1, Zenon DEF RunScript
<1>2. ASSUME NEW t \in Threads, Call(t), ~RunScript(t) PROVE late' = late
  BY <1>2 DEF Call, CheckCard, Decide, UpdateStatus, UpdateConf, StopLive, PushVideo, SetSource,
     TakeLvgl, DropLvgl, screen
<1>3. CASE User
  BY <1>3 DEF User, SwitchToMenu, ExitMenu, SelectSource, ToggleRecording, TuneChannel, GoSleep,
     WakeUp, UserBegins
<1>4. CASE Peripheral \/ Receiver
  BY <1>4 DEF Peripheral, Turn, CheckSource, CheckSignal, Receiver, SetChannel, SetRecState,
     HandlerTimeout, screen
<1>5. CASE RecordProcess \/ UNCHANGED vars
  BY <1>5 DEF RecordProcess, goggle, vars, screen
<1> QED
  BY <1>1, <1>2, <1>3, <1>4, <1>5, Zenon DEF Next

\* TypeOK holds in every behaviour.
THEOREM TypeCorrect == Spec => []TypeOK
<1>1. Init => Calls
  BY CallTypes DEF Init, Calls, Busy, Threads
<1>2. Init => Flags
  BY DvrAssumption, Zenon DEF Init, R!Init, Flags
<1>3. Init => Values
  BY DvrAssumption, EmptySeq DEF Init, R!Init, Values, Queue
<1>4. Init => History
  BY Zenon DEF Init, History
<1>5. Calls /\ Flags /\ Values /\ History => TypeOK
  BY DEF Calls, Busy, Flags, Values, Queue, History, TypeOK
<1> QED
  BY <1>1, <1>2, <1>3, <1>4, <1>5, CallsStep, FlagsStep, ValuesStep, HistoryStep, PTL DEF Spec
-----------------------------------------------------------------------------
\* The calls that leave lvgl_mutex alone
Plain == Ops \ {"LVGL", "UNLVGL"}

\* Calls that leave lvgl_mutex alone, put together and taken apart
LEMMA PlainCalls ==
  /\ \A p, q \in Seq(Plain) : p \o q \in Seq(Plain)
  /\ \A p \in Seq(Plain) : p # <<>> => Head(p) \in Plain /\ Tail(p) \in Seq(Plain)
  /\ <<>> \in Seq(Plain)
  /\ \A o \in Plain : <<o>> \in Seq(Plain)
  /\ \A p \in Seq(Plain), o \in Plain : Append(p, o) \in Seq(Plain)
  BY ConcatProperties, HeadTailProperties

\* How the first call of a handler is taken off when the last gives
\* lvgl_mutex back
LEMMA LastCall ==
  ASSUME NEW p \in Seq(Plain)
  PROVE  LET q == Append(p, "UNLVGL")
         IN  /\ q # <<>>
             /\ p = <<>> => Head(q) = "UNLVGL" /\ Tail(q) = <<>>
             /\ p # <<>> => Head(q) = Head(p) /\ Tail(q) = Append(Tail(p), "UNLVGL")
<1> DEFINE q == Append(p, "UNLVGL")
<1>1. q \in Seq(Ops) /\ q # <<>> /\ Len(q) = Len(p) + 1
      /\ (\A i \in 1..Len(p) : q[i] = p[i]) /\ q[Len(p) + 1] = "UNLVGL"
  <2>1. p \in Seq(Ops) /\ "UNLVGL" \in Ops
    BY DEF Plain, Ops
  <2> QED
    BY <2>1, AppendProperties
<1>2. Head(q) = q[1] /\ Tail(q) \in Seq(Ops) /\ Len(Tail(q)) = Len(p)
      /\ \A i \in 1..Len(Tail(q)) : Tail(q)[i] = q[i + 1]
  BY <1>1, HeadTailProperties, LenProperties
<1>3. CASE p = <<>>
  BY <1>1, <1>2, <1>3, EmptySeq
<1>4. CASE p # <<>>
  <2>1. Tail(p) \in Seq(Ops) /\ Len(p) \in Nat \ {0} /\ Len(Tail(p)) = Len(p) - 1 /\ Head(p) = p[1]
        /\ \A i \in 1..Len(Tail(p)) : Tail(p)[i] = p[i + 1]
    BY <1>4, HeadTailProperties, EmptySeq, LenProperties DEF Plain
  <2>2. Append(Tail(p), "UNLVGL") \in Seq(Ops) /\ Len(Append(Tail(p), "UNLVGL")) = Len(p)
        /\ \A i \in 1..Len(p) : Append(Tail(p), "UNLVGL")[i] = Tail(q)[i]
    <3>1. "UNLVGL" \in Ops
      BY DEF Ops
    <3>2. /\ Append(Tail(p), "UNLVGL") \in Seq(Ops)
          /\ Len(Append(Tail(p), "UNLVGL")) = Len(p)
          /\ \A i \in 1..Len(Tail(p)) : Append(Tail(p), "UNLVGL")[i] = Tail(p)[i]
          /\ Append(Tail(p), "UNLVGL")[Len(p)] = "UNLVGL"
      BY <2>1, <3>1, AppendProperties
    <3>3. ASSUME NEW i \in 1..Len(p) PROVE Append(Tail(p), "UNLVGL")[i] = Tail(q)[i]
      <4>1. CASE i = Len(p)
        BY <1>1, <1>2, <2>1, <3>2, <4>1
      <4>2. CASE i # Len(p)
        <5>1. i \in 1..Len(Tail(p)) /\ i + 1 \in 1..Len(p) /\ i \in 1..Len(Tail(q))
          <6>1. Len(p) \in Nat /\ Len(Tail(p)) = Len(p) - 1 /\ Len(Tail(q)) = Len(p)
            BY <1>2, <2>1
          <6>2. i \in Nat /\ 1 <= i /\ i < Len(p)
            BY <4>2, <6>1
          <6> HIDE DEF q
          <6> QED
            BY <6>1, <6>2
        <5>2. Append(Tail(p), "UNLVGL")[i] = p[i + 1]
          BY <2>1, <3>2, <5>1
        <5>3. Tail(q)[i] = p[i + 1]
          BY <1>1, <1>2, <5>1
        <5> QED
          BY <5>2, <5>3
      <4> QED
        BY <4>1, <4>2
    <3> QED
      BY <3>2, <3>3
  <2>3. Tail(q) = Append(Tail(p), "UNLVGL")
    BY <1>2, <2>2, SeqEqual
  <2> QED
    BY <1>1, <1>2, <2>1, <2>3
<1> QED
  BY <1>1, <1>3, <1>4

\* Who is in the middle of what has lvgl_mutex, and its last call gives it back.
Locks ==
  /\ todo["ui"] # <<>> => lvgl = "ui" /\ \E p \in Seq(Plain) : todo["ui"] = Append(p, "UNLVGL")
  /\ todo["per"] \in Seq(Plain)
  /\ \/ todo["rx"] \in Seq(Plain)
     \/ \E p \in Seq(Plain) : \/ lvgl = "rx" /\ todo["rx"] = Append(p, "UNLVGL")
                              \/ todo["rx"] = <<"LVGL">> \o Append(p, "UNLVGL")

\* The calls of the user's handlers and of the others are plain ones, but
\* for the mutex.
LEMMA PlainSwitch == \A s \in Sources : SwitchTo(s) \in Seq(Plain)
<1> TAKE s \in Sources
<1>1. CASE s = "HDMI"
  <2>1. {"VIDEO", "HDMI", "STOPL"} \subseteq Plain
    BY <1>1 DEF Ops, Plain
  <2>2. <<"VIDEO", "HDMI", "STOPL">> \in Seq(Plain)
    BY <2>1
  <2> QED
    BY <1>1, <2>2 DEF SwitchTo
<1>2. CASE s # "HDMI"
  <2>1. {"CONF", "STOPL"} \subseteq Plain
    BY DEF Ops, Plain
  <2>2. <<"CONF", "STOPL">> \in Seq(Plain)
    BY <2>1
  <2> QED
    BY <1>2, <2>2 DEF SwitchTo
<1> QED
  BY <1>1, <1>2

\* The calls a handler of the user begins with.
LEMMA UserPlans ==
  ASSUME Calls, User
  PROVE  \E ops \in Seq(Plain) : UserBegins(ops)
<1>1. CASE SwitchToMenu \/ GoSleep \/ ToggleRecording
  <2>1. {"STOP", "CONF", "STOPL", "TOGGLE"} \subseteq Plain
    BY DEF Ops, DvrOps, Plain
  <2>2. /\ <<"STOP", "CONF", "STOPL">> \in Seq(Plain)
        /\ <<"STOP", "CONF">> \in Seq(Plain) /\ <<"TOGGLE">> \in Seq(Plain)
    BY <2>1
  <2> QED
    BY <1>1, <2>2 DEF SwitchToMenu, GoSleep, ToggleRecording
<1>2. CASE ExitMenu
  <2>1. Append(SwitchTo(source), "VIDEO") \in Seq(Plain)
    BY PlainSwitch, PlainCalls DEF Calls, Ops, Plain
  <2> QED
    BY <1>2, <2>1 DEF ExitMenu
<1>3. ASSUME NEW s \in Sources, SelectSource(s)
      PROVE  \E ops \in Seq(Plain) : UserBegins(ops)
  <2>1. "VIDEO" \in Plain /\ s \in Plain
    BY DvrAssumption DEF Ops, Plain
  <2>2. <<"VIDEO", s>> \in Seq(Plain)
    BY <2>1
  <2>3. SwitchTo(s) \in Seq(Plain) /\ SwitchTo(s) \o <<"VIDEO", s>> \in Seq(Plain)
    BY <2>2, PlainSwitch, PlainCalls
  <2> QED
    BY <1>3, <2>3 DEF SelectSource
<1>4. CASE TuneChannel
  <2>1. <<"STOP">> \in Seq(Plain) /\ <<"STOP">> \o SwitchTo(source) \in Seq(Plain)
    BY PlainSwitch, PlainCalls DEF Calls, Ops, DvrOps, Plain
  <2> QED
    BY <1>4, <2>1 DEF TuneChannel
<1>5. CASE WakeUp
  <2>1. {"STOP", "CONF", "STOPL", "VIDEO"} \subseteq Plain
    BY DEF Ops, DvrOps, Plain
  <2>2. <<"STOP", "CONF", "STOPL", "VIDEO">> \in Seq(Plain)
    BY <2>1
  <2>3. /\ <<"STOP", "CONF", "STOPL", "VIDEO">> \o SwitchTo(source) \in Seq(Plain)
        /\ <<>> \in Seq(Plain)
    BY <2>2, PlainSwitch, PlainCalls DEF Calls
  <2> QED
    BY <1>5, <2>3 DEF WakeUp
<1> QED
  BY <1>1, <1>2, <1>3, <1>4, <1>5 DEF User

\* Those of thread_peripheral.
LEMMA PeripheralPlans ==
  ASSUME Peripheral
  PROVE  (\E ops \in Seq(Plain) : Begin("per", ops)) \/ (~Idle("per") /\ Finish("per"))
<1>1. /\ <<"POLL">> \in Seq(Plain) /\ <<"CONF">> \in Seq(Plain) /\ <<"SIGNAL">> \in Seq(Plain)
      /\ <<"CHANGED">> \in Seq(Plain) /\ <<"CHECK">> \in Seq(Plain)
      /\ <<"STOP">> \in Seq(Plain) /\ <<"START">> \in Seq(Plain) /\ <<>> \in Seq(Plain)
  BY PlainCalls DEF Ops, DvrOps, Plain
<1>2. {"CONF", "STOPL", "STOP", "START"} \subseteq Plain
  BY DEF Ops, DvrOps, Plain
<1>3. /\ <<"CONF", "STOPL">> \in Seq(Plain) /\ <<"STOP", "START">> \in Seq(Plain)
      /\ <<"STOP", "STOPL">> \in Seq(Plain)
  BY <1>2
<1>4. ASSUME NEW polls \in BOOLEAN, NEW changed \in BOOLEAN, Turn(polls, changed)
      PROVE  \E ops \in Seq(Plain) : Begin("per", ops)
  <2> DEFINE a == IF polls THEN <<"POLL">> ELSE <<>>
             b == IF changed /\ source = "HDZ" THEN <<"CONF", "STOPL">> ELSE <<>>
             c == IF changed /\ source = "HDMI" THEN <<"CONF">> ELSE <<>>
             d == <<IF changed THEN "CHANGED" ELSE "CHECK">>
  <2>1. a \in Seq(Plain) /\ b \in Seq(Plain) /\ c \in Seq(Plain) /\ d \in Seq(Plain)
    BY <1>1, <1>3
  <2>2. Begin("per", a \o b \o c \o d)
    BY <1>4 DEF Turn
  <2> HIDE DEF a, b, c, d
  <2> QED
    BY <2>1, <2>2, PlainCalls
<1>5. ASSUME CheckSource PROVE \E ops \in Seq(Plain) : Begin("per", ops)
  <2>1. ASSUME NEW ch PROVE SourceCalls(ch) \in Seq(Plain)
    <3> DEFINE a == IF ch /\ source = "AV" /\ flag THEN <<"STOP", "START">> ELSE <<>>
               b == IF ch /\ source = "HDZ" THEN <<"STOP", "STOPL">> ELSE <<>>
               c == IF ch /\ source = "HDMI" THEN <<"STOP">> ELSE <<>>
    <3>1. a \in Seq(Plain) /\ b \in Seq(Plain) /\ c \in Seq(Plain)
      BY <1>1, <1>3
    <3>2. SourceCalls(ch) = a \o b \o c \o <<"SIGNAL">>
      BY DEF SourceCalls
    <3> HIDE DEF a, b, c
    <3> QED
      BY <1>1, <3>1, <3>2, PlainCalls
  <2> QED
    BY <1>1, <1>5, <2>1 DEF CheckSource
<1>6. CASE CheckSignal
  BY <1>1, <1>6 DEF CheckSignal
<1> QED
  BY <1>4, <1>5, <1>6 DEF Peripheral

\* How a change of the channel ends.
LEMMA ChannelCalls ==
  ASSUME NEW a \in Seq(Plain), NEW b \in Seq(Plain)
  PROVE  \E p \in Seq(Plain) :
           <<"LVGL">> \o a \o b \o <<"VIDEO", "UNLVGL">> = <<"LVGL">> \o Append(p, "UNLVGL")
<1>1. a \in Seq(Ops) /\ b \in Seq(Ops) /\ {"LVGL", "VIDEO", "UNLVGL"} \subseteq Ops
  BY DEF Plain, Ops
<1>2. <<"LVGL">> \in Seq(Ops) /\ <<"VIDEO">> \in Seq(Ops) /\ <<"UNLVGL">> \in Seq(Ops)
  BY <1>1
<1>3. PICK p : p = a \o b \o <<"VIDEO">>
  OBVIOUS
<1>4. p \in Seq(Plain)
  <2>1. <<"VIDEO">> \in Seq(Plain)
    BY PlainCalls DEF Ops, Plain
  <2> QED
    BY <1>3, <2>1, PlainCalls
<1>5. p \in Seq(Ops)
  BY <1>1, <1>2, <1>3, CallTypes
<1>6. Append(p, "UNLVGL") = p \o <<"UNLVGL">>
  BY <1>1, <1>5, AppendIsConcat
<1>7. p \o <<"UNLVGL">> = a \o b \o <<"VIDEO", "UNLVGL">>
  <2>1. <<"VIDEO", "UNLVGL">> = <<"VIDEO">> \o <<"UNLVGL">>
    OBVIOUS
  <2> QED
    BY <1>1, <1>2, <1>3, <2>1, CallTypes, ConcatAssociative
<1>8. <<"LVGL">> \o a \o b \o <<"VIDEO", "UNLVGL">> = <<"LVGL">> \o (a \o b \o <<"VIDEO", "UNLVGL">>)
  <2>1. <<"VIDEO", "UNLVGL">> \in Seq(Ops)
    BY <1>1
  <2> QED
    BY <1>1, <1>2, <2>1, CallTypes, ConcatAssociative
<1> QED
  BY <1>4, <1>6, <1>7, <1>8

\* Those of the receiver, which takes lvgl_mutex as its first call.
LEMMA ReceiverPlans ==
  ASSUME Calls, Receiver
  PROVE  \/ UNCHANGED todo
         \/ \E p \in Seq(Plain) : Begin("rx", p) \/ Begin("rx", <<"LVGL">> \o Append(p, "UNLVGL"))
<1>1. ASSUME NEW stops \in BOOLEAN, SetChannel(stops)
      PROVE  \E p \in Seq(Plain) : Begin("rx", <<"LVGL">> \o Append(p, "UNLVGL"))
  <2>1. /\ (IF stops THEN <<"STOP">> ELSE <<>>) \in Seq(Plain)
        /\ SwitchTo(source) \in Seq(Plain)
    BY PlainCalls, PlainSwitch DEF Ops, DvrOps, Calls, Plain
  <2>2. PICK a \in Seq(Plain), b \in Seq(Plain) :
          Begin("rx", <<"LVGL">> \o a \o b \o <<"VIDEO", "UNLVGL">>)
    BY <1>1, <2>1 DEF SetChannel
  <2> QED
    BY <2>2, ChannelCalls
<1>2. <<"START">> \in Seq(Plain) /\ <<"STOP">> \in Seq(Plain)
  BY PlainCalls DEF Ops, DvrOps, Plain
<1>3. ASSUME NEW c \in {"START", "STOP"}, NEW later \in BOOLEAN, SetRecState(c, later)
      PROVE  UNCHANGED todo \/ \E p \in Seq(Plain) : Begin("rx", p)
  BY <1>2, <1>3, PlainCalls DEF SetRecState
<1>4. ASSUME HandlerTimeout PROVE \E p \in Seq(Plain) : Begin("rx", p)
  BY <1>2, <1>4 DEF HandlerTimeout, Calls
<1> QED
  BY <1>1, <1>3, <1>4 DEF Receiver

\* What is left of a handler that begins by taking lvgl_mutex.
LEMMA FirstCall ==
  ASSUME NEW p \in Seq(Plain)
  PROVE  LET q == <<"LVGL">> \o Append(p, "UNLVGL")
         IN  q # <<>> /\ Head(q) = "LVGL" /\ Tail(q) = Append(p, "UNLVGL")
<1>1. Append(p, "UNLVGL") \in Seq(Ops) /\ "LVGL" \in Ops
  <2>1. p \in Seq(Ops) /\ "UNLVGL" \in Ops
    BY DEF Plain, Ops
  <2> QED
    BY <2>1, CallTypes DEF Ops
<1> QED
  BY <1>1, ConcatSimplifications

\* Locks is inductive.
LEMMA LocksStep == Calls /\ Locks /\ [Next]_vars => Locks'
<1> SUFFICES ASSUME Calls, Locks, [Next]_vars PROVE Locks'
  OBVIOUS
<1>0. todo \in [Threads -> Seq(Ops)] /\ {"ui", "per", "rx"} \subseteq Threads
      /\ lvgl \in Threads \cup {"none"} /\ {"LVGL", "UNLVGL"} \cap Plain = {}
  BY DEF Calls, Threads, Plain
<1>1. ASSUME NEW t \in Threads, Call(t) PROVE Locks'
  <2>1. CASE TakeLvgl(t)
    <3>1. t = "rx" /\ todo["rx"] \notin Seq(Plain)
      BY <2>1, <1>0, PlainCalls, LastCall DEF TakeLvgl, Locks, Threads, Idle, Op
    <3>2. PICK p \in Seq(Plain) : todo["rx"] = <<"LVGL">> \o Append(p, "UNLVGL")
      BY <2>1, <3>1 DEF TakeLvgl, Locks
    <3>3. todo' = [todo EXCEPT !["rx"] = Append(p, "UNLVGL")] /\ lvgl' = "rx" /\ lvgl = "none"
      BY <2>1, <3>1, <3>2, FirstCall DEF TakeLvgl, Finish
    <3> QED
      BY <1>0, <3>3 DEF Locks
  <2>2. CASE DropLvgl(t)
    <3>1. t # "per"
      BY <2>2, <1>0, PlainCalls DEF DropLvgl, Locks, Idle, Op
    <3>2. CASE t = "ui"
      <4>1. PICK p \in Seq(Plain) : todo["ui"] = Append(p, "UNLVGL") /\ lvgl = "ui"
        BY <2>2, <3>2 DEF DropLvgl, Locks, Idle
      <4>2. p = <<>> /\ Tail(todo["ui"]) = <<>>
        BY <2>2, <3>2, <4>1, <1>0, PlainCalls, LastCall DEF DropLvgl, Op
      <4>3. todo' = [todo EXCEPT !["ui"] = <<>>]
        BY <2>2, <3>2, <4>2 DEF DropLvgl, Finish
      <4> QED
        BY <1>0, <4>1, <4>3 DEF Locks
    <3>3. CASE t = "rx"
      <4>1. PICK p \in Seq(Plain) : todo["rx"] = Append(p, "UNLVGL") /\ lvgl = "rx"
        BY <2>2, <3>3, <1>0, PlainCalls, FirstCall DEF DropLvgl, Locks, Idle, Op
      <4>2. p = <<>> /\ Tail(todo["rx"]) = <<>>
        BY <2>2, <3>3, <4>1, <1>0, PlainCalls, LastCall DEF DropLvgl, Op
      <4>3. todo' = [todo EXCEPT !["rx"] = <<>>]
        BY <2>2, <3>3, <4>2 DEF DropLvgl, Finish
      <4> QED
        BY <1>0, <4>1, <4>3, PlainCalls DEF Locks
    <3> QED
      BY <3>1, <3>2, <3>3 DEF Threads
  <2>3. CASE ~TakeLvgl(t) /\ ~DropLvgl(t)
    <3>1. lvgl' = lvgl /\ (UNCHANGED todo \/ (~Idle(t) /\ Finish(t) /\ Op(t) \notin {"LVGL", "UNLVGL"}))
      BY <1>1, <2>3, DvrAssumption DEF Call, CheckCard, Decide, RunScript, UpdateStatus, UpdateConf,
         StopLive, PushVideo, SetSource, Calls, Busy, DvrOps, screen
    <3>2. CASE UNCHANGED todo
      BY <3>1, <3>2 DEF Locks
    <3>3. ASSUME ~Idle(t), Finish(t), Op(t) \notin {"LVGL", "UNLVGL"} PROVE Locks'
      <4>1. CASE t = "ui"
        <5>1. PICK p \in Seq(Plain) : todo["ui"] = Append(p, "UNLVGL") /\ lvgl = "ui"
          BY <3>3, <4>1 DEF Locks, Idle
        <5>2. p # <<>> /\ Tail(todo["ui"]) = Append(Tail(p), "UNLVGL") /\ Tail(p) \in Seq(Plain)
          BY <3>3, <4>1, <5>1, LastCall, PlainCalls DEF Op
        <5>3. todo' = [todo EXCEPT !["ui"] = Append(Tail(p), "UNLVGL")]
          BY <3>3, <4>1, <5>2 DEF Finish
        <5> QED
          BY <1>0, <3>1, <5>1, <5>2, <5>3 DEF Locks
      <4>2. CASE t = "per"
        BY <1>0, <3>1, <3>3, <4>2, PlainCalls DEF Locks, Idle, Finish
      <4>3. CASE t = "rx"
        <5>1. CASE todo["rx"] \in Seq(Plain)
          BY <1>0, <3>1, <3>3, <4>3, <5>1, PlainCalls DEF Locks, Idle, Finish
        <5>2. CASE todo["rx"] \notin Seq(Plain)
          <6>1. PICK p \in Seq(Plain) : todo["rx"] = Append(p, "UNLVGL") /\ lvgl = "rx"
            BY <3>3, <4>3, <5>2, FirstCall DEF Locks, Op
          <6>2. p # <<>> /\ Tail(todo["rx"]) = Append(Tail(p), "UNLVGL") /\ Tail(p) \in Seq(Plain)
            BY <3>3, <4>3, <6>1, LastCall, PlainCalls DEF Op
          <6>3. todo' = [todo EXCEPT !["rx"] = Append(Tail(p), "UNLVGL")]
            BY <3>3, <4>3, <6>2 DEF Finish
          <6> QED
            BY <1>0, <3>1, <6>1, <6>2, <6>3 DEF Locks
        <5> QED
          BY <5>1, <5>2
      <4> QED
        BY <4>1, <4>2, <4>3 DEF Threads
    <3> QED
      BY <3>1, <3>2, <3>3
  <2> QED
    BY <2>1, <2>2, <2>3
<1>2. CASE User
  <2>1. PICK ops \in Seq(Plain) : UserBegins(ops)
    BY <1>2, UserPlans
  <2>2. lvgl = "none" /\ lvgl' = "ui" /\ todo' = [todo EXCEPT !["ui"] = Append(ops, "UNLVGL")]
    BY <2>1 DEF UserBegins, Begin
  <2> QED
    BY <1>0, <2>2 DEF Locks
<1>3. CASE Peripheral
  <2>1. lvgl' = lvgl
    BY <1>3 DEF Peripheral, Turn, CheckSource, CheckSignal
  <2>2. PICK ops \in Seq(Plain) : todo' = [todo EXCEPT !["per"] = ops]
    BY <1>0, <1>3, PeripheralPlans, PlainCalls DEF Begin, Finish, Idle, Locks
  <2> QED
    BY <1>0, <2>1, <2>2 DEF Locks
<1>4. CASE Receiver
  <2>1. lvgl' = lvgl
    BY <1>4 DEF Receiver, SetChannel, SetRecState, HandlerTimeout
  <2>2. CASE UNCHANGED todo
    BY <2>1, <2>2 DEF Locks
  <2>3. ASSUME NEW p \in Seq(Plain),
               Begin("rx", p) \/ Begin("rx", <<"LVGL">> \o Append(p, "UNLVGL"))
        PROVE  Locks'
    BY <1>0, <2>1, <2>3 DEF Locks, Begin
  <2> QED
    BY <1>4, <2>2, <2>3, ReceiverPlans
<1>5. CASE RecordProcess \/ UNCHANGED vars
  BY <1>5 DEF RecordProcess, goggle, vars, threads, Locks
<1> QED
  BY <1>1, <1>2, <1>3, <1>4, <1>5 DEF Next

\* The menu is being entered, REC_STOP_LIVE is still to come.
Entering == \E i \in 1..Len(todo["ui"]) : todo["ui"][i] = "STOPL"

\* In the menu, or asleep in it, nothing records but what was started there.
Quiet == ~late /\ (app = "menu" \/ (app = "sleep" /\ previous = "menu")) => ~WillRecord \/ Entering

\* Of a handler that goes on, only REC_STOP_LIVE itself ends Entering.
LEMMA StillEntering ==
  ASSUME Calls, Entering, NEW t \in Threads, ~Idle(t), Finish(t), t = "ui" => Op(t) # "STOPL"
  PROVE  Entering'
<1>1. CASE t = "ui"
  <2>1. todo["ui"] \in Seq(Ops) /\ todo["ui"] # <<>> /\ todo'["ui"] = Tail(todo["ui"])
    BY <1>1 DEF Calls, Idle, Finish
  <2>2. PICK i \in 1..Len(todo["ui"]) : todo["ui"][i] = "STOPL"
    BY DEF Entering
  <2>3. i # 1 /\ Len(todo["ui"]) \in Nat
    BY <1>1, <2>1, <2>2, HeadTailProperties, LenProperties DEF Op
  <2>4. i - 1 \in 1..Len(Tail(todo["ui"])) /\ Tail(todo["ui"])[i - 1] = "STOPL"
    BY <2>1, <2>2, <2>3, HeadTailProperties
  <2> QED
    BY <2>1, <2>4 DEF Entering
<1>2. CASE t # "ui"
  BY <1>2 DEF Entering, Finish, Calls
<1> QED
  BY <1>1, <1>2

\* Quiet is inductive.
LEMMA QuietStep == Calls /\ Values /\ Quiet /\ [Next]_vars => Quiet'
<1> SUFFICES ASSUME Calls, Values, Quiet, [Next]_vars PROVE Quiet'
  OBVIOUS
<1>0. Queue /\ todo \in [Threads -> Seq(Ops)] /\ {"ui", "per", "rx"} \subseteq Threads
  BY DEF Calls, Values, Threads
<1>1. ASSUME NEW t \in Threads, Call(t) PROVE Quiet'
  <2>1. CASE RunScript(t)
    <3>1. cmd[t] \in Commands /\ (WillRecord' => cmd[t] = "START")
      BY <1>0, <2>1, DeliverStep DEF RunScript, Commands
    <3> QED
      BY <2>1, <3>1 DEF RunScript, Quiet
  <2>2. CASE StopLive(t)
    BY <1>0, <2>2, DeliverStep DEF StopLive, Commands, Quiet
  <2>3. CASE PushVideo(t)
    BY <2>3 DEF PushVideo, Quiet
  <2>4. CASE ~RunScript(t) /\ ~StopLive(t) /\ ~PushVideo(t)
    <3>1. UNCHANGED <<late, app, previous, recorder>>
      BY <1>1, <2>4 DEF Call, CheckCard, Decide, UpdateStatus, UpdateConf, SetSource, TakeLvgl,
         DropLvgl, screen
    <3>2. UNCHANGED todo \/ (~Idle(t) /\ Finish(t) /\ Op(t) # "STOPL")
      BY <1>1, <2>4, DvrAssumption DEF Call, CheckCard, Decide, UpdateStatus, UpdateConf, SetSource,
         TakeLvgl, DropLvgl, Calls, Busy, DvrOps
    <3>3. Entering => Entering'
      BY <3>2, StillEntering DEF Entering
    <3> QED
      BY <3>1, <3>3 DEF Quiet, WillRecord, recorder
  <2> QED
    BY <1>1, <2>1, <2>2, <2>3, <2>4
<1>2. CASE User
  <2>1. ~Entering /\ UNCHANGED <<late, recorder>> /\ (WillRecord' <=> WillRecord)
    <3>1. todo["ui"] = <<>> /\ UNCHANGED <<late, recorder>>
      BY <1>2 DEF User, SwitchToMenu, ExitMenu, SelectSource, ToggleRecording, TuneChannel, GoSleep,
         WakeUp, UserBegins, Idle
    <3> QED
      BY <3>1 DEF Entering, recorder, WillRecord
  <2>2. CASE SwitchToMenu
    <3>1. todo'["ui"] = Append(<<"STOP", "CONF", "STOPL">>, "UNLVGL")
      BY <1>0, <2>2 DEF SwitchToMenu, UserBegins, Begin
    <3>2. 3 \in 1..Len(todo'["ui"]) /\ todo'["ui"][3] = "STOPL"
      BY <3>1
    <3> QED
      BY <3>2 DEF Quiet, Entering
  <2>3. CASE WakeUp /\ previous = "video"
    <3>1. PICK q \in Seq(Ops) : q = SwitchTo(source)
      BY SwitchTypes DEF Calls
    <3>2. todo'["ui"] = Append(<<"STOP", "CONF", "STOPL", "VIDEO">> \o q, "UNLVGL")
      BY <1>0, <2>3, <3>1 DEF WakeUp, UserBegins, Begin
    <3>3. <<"STOP", "CONF", "STOPL", "VIDEO">> \in Seq(Ops) /\ "UNLVGL" \in Ops
      <4>1. {"STOP", "CONF", "STOPL", "VIDEO", "UNLVGL"} \subseteq Ops
        BY DEF Ops, DvrOps
      <4> QED
        BY <4>1
    <3>4. PICK r \in Seq(Ops) : r = <<"STOP", "CONF", "STOPL", "VIDEO">> \o q
      BY <3>1, <3>3, CallTypes
    <3>5. Len(r) = 4 + Len(q) /\ r[3] = "STOPL" /\ Len(q) \in Nat
      BY <3>1, <3>3, <3>4, ConcatProperties, LenProperties
    <3>6. 3 \in 1..Len(todo'["ui"]) /\ todo'["ui"][3] = "STOPL"
      BY <3>2, <3>3, <3>4, <3>5, AppendProperties
    <3> QED
      BY <3>6 DEF Quiet, Entering
  <2>4. CASE WakeUp /\ previous # "video"
    BY <2>1, <2>4 DEF WakeUp, Quiet, Values
  <2>5. CASE GoSleep
    BY <2>1, <2>5 DEF GoSleep, Quiet
  <2>6. CASE ExitMenu \/ (\E s \in Sources : SelectSource(s)) \/ ToggleRecording \/ TuneChannel
    <3>1. UNCHANGED <<app, previous>>
      BY <2>6 DEF ExitMenu, SelectSource, ToggleRecording, TuneChannel
    <3> QED
      BY <2>1, <3>1 DEF Quiet
  <2> QED
    BY <1>2, <2>2, <2>3, <2>4, <2>5, <2>6 DEF User
<1>3. CASE Peripheral \/ Receiver
  <2>1. UNCHANGED <<late, app, previous, recorder>>
    BY <1>3 DEF Peripheral, Turn, CheckSource, CheckSignal, Receiver, SetChannel, SetRecState,
       HandlerTimeout, screen
  <2>2. todo'["ui"] = todo["ui"]
    BY <1>0, <1>3 DEF Peripheral, Turn, CheckSource, CheckSignal, Receiver, SetChannel, SetRecState,
       HandlerTimeout, Begin, Finish
  <2> QED
    BY <2>1, <2>2 DEF Quiet, Entering, WillRecord, recorder
<1>4. CASE RecordProcess
  <2>1. UNCHANGED <<late, app, previous, todo>>
    BY <1>4 DEF RecordProcess, goggle, screen, threads
  <2> QED
    BY <1>0, <1>4, <2>1, ProcessStep DEF Quiet, Entering
<1>5. CASE UNCHANGED vars
  BY <1>5 DEF vars, screen, threads, recorder, Quiet, Entering, WillRecord
<1> QED
  BY <1>1, <1>2, <1>3, <1>4, <1>5 DEF Next

\* MenuStops, for every set of sources and any length of the queue: in the
\* menu nothing is recorded but what was started after the video was left.
THEOREM MenuIsQuiet == Spec => []MenuStops
<1>1. Init => Calls /\ Values /\ Locks /\ Quiet
  <2> SUFFICES ASSUME Init PROVE Calls /\ Values /\ Locks /\ Quiet
    OBVIOUS
  <2>1. Calls
    BY CallTypes DEF Init, Calls, Busy, Threads
  <2>2. Values
    BY DvrAssumption, EmptySeq DEF Init, R!Init, Values, Queue
  <2>3. Locks
    BY PlainCalls DEF Init, Locks, Threads
  <2>4. Quiet
    BY DEF Init, R!Init, Quiet, WillRecord
  <2> QED
    BY <2>1, <2>2, <2>3, <2>4
<1>2. Locks /\ Quiet => MenuStops
  <2> SUFFICES ASSUME Locks, Quiet, lvgl # "ui" PROVE ~Entering
    BY DEF MenuStops, Quiet
  <2> QED
    BY DEF Locks, Entering
<1> QED
  BY <1>1, <1>2, CallsStep, ValuesStep, LocksStep, QuietStep, PTL DEF Spec
-----------------------------------------------------------------------------
(***************************************************************************)
(* No deadlock.  A button can wait for lvgl_mutex, whose holder can wait   *)
(* for dvr_mutex, whose holder waits for no mutex: there is no circle.     *)
(* Fairness, and with it ButtonsAnswered, is left to TLC.                  *)
(***************************************************************************)

WaitsForLvgl(t) == ~Idle(t) /\ Op(t) = "LVGL"
WaitsForDvr(t) == cmd[t] = "asked" \/ (cmd[t] = "none" /\ ~Idle(t) /\ Op(t) \in {"POLL", "CONF"})

\* Whoever holds lvgl_mutex has calls to make, none of which takes it again
\* and the last of which gives it back; whoever holds dvr_mutex is alone and
\* waits for neither mutex.
NoCircularWait ==
  /\ \A t \in Threads : lvgl = t => \E p \in Seq(Plain) : todo[t] = Append(p, "UNLVGL")
  /\ \A t \in Threads : Holds(t) =>
       /\ ~WaitsForLvgl(t) /\ ~WaitsForDvr(t)
       /\ \A s \in Threads : Holds(s) => s = t

\* lvgl_mutex is held only by somebody who is going to give it back: the
\* converse of Locks.
Held ==
  /\ lvgl # "per"
  /\ lvgl = "ui" => todo["ui"] # <<>>
  /\ lvgl = "rx" => \E p \in Seq(Plain) : todo["rx"] = Append(p, "UNLVGL")

\* Held is inductive beside Locks.
LEMMA HeldStep == Calls /\ Locks /\ Held /\ [Next]_vars => Held'
<1> SUFFICES ASSUME Calls, Locks, Held, [Next]_vars PROVE Held'
  OBVIOUS
<1>0. todo \in [Threads -> Seq(Ops)] /\ {"ui", "per", "rx"} \subseteq Threads
      /\ lvgl \in Threads \cup {"none"} /\ {"LVGL", "UNLVGL"} \cap Plain = {}
  BY DEF Calls, Threads, Plain
<1>1. ASSUME NEW t \in Threads, Call(t) PROVE Held'
  <2>1. CASE TakeLvgl(t)
    <3>1. t = "rx" /\ todo["rx"] \notin Seq(Plain)
      BY <2>1, <1>0, PlainCalls, LastCall DEF TakeLvgl, Locks, Threads, Idle, Op
    <3>2. PICK p \in Seq(Plain) : todo["rx"] = <<"LVGL">> \o Append(p, "UNLVGL")
      BY <2>1, <3>1 DEF TakeLvgl, Locks
    <3>3. todo' = [todo EXCEPT !["rx"] = Append(p, "UNLVGL")] /\ lvgl' = "rx"
      BY <2>1, <3>1, <3>2, FirstCall DEF TakeLvgl, Finish
    <3> QED
      BY <1>0, <3>3 DEF Held
  <2>2. CASE DropLvgl(t)
    BY <2>2 DEF DropLvgl, Held
  <2>3. CASE ~TakeLvgl(t) /\ ~DropLvgl(t)
    <3>1. lvgl' = lvgl /\ (UNCHANGED todo \/ (~Idle(t) /\ Finish(t) /\ Op(t) \notin {"LVGL", "UNLVGL"}))
      BY <1>1, <2>3, DvrAssumption DEF Call, CheckCard, Decide, RunScript, UpdateStatus, UpdateConf,
         StopLive, PushVideo, SetSource, Calls, Busy, DvrOps, screen
    <3>2. CASE UNCHANGED todo
      BY <3>1, <3>2 DEF Held
    <3>3. ASSUME ~Idle(t), Finish(t), Op(t) \notin {"LVGL", "UNLVGL"}, t = lvgl PROVE Held'
      <4>1. PICK p \in Seq(Plain) : todo[t] = Append(p, "UNLVGL")
        BY <3>3 DEF Locks, Held, Threads
      <4>2. Tail(todo[t]) = Append(Tail(p), "UNLVGL") /\ Tail(p) \in Seq(Plain)
        BY <3>3, <4>1, LastCall, PlainCalls DEF Op
      <4>3. todo' = [todo EXCEPT ![t] = Append(Tail(p), "UNLVGL")]
        BY <3>3, <4>2 DEF Finish
      <4>4. todo'[t] # <<>>
        BY <1>0, <4>2, <4>3, LastCall
      <4> QED
        BY <1>0, <3>1, <3>3, <4>2, <4>3, <4>4 DEF Held
    <3>4. ASSUME Finish(t), t # lvgl PROVE Held'
      BY <1>0, <3>1, <3>4 DEF Finish, Held
    <3> QED
      BY <3>1, <3>2, <3>3, <3>4
  <2> QED
    BY <2>1, <2>2, <2>3
<1>2. CASE User
  <2>1. PICK ops \in Seq(Plain) : UserBegins(ops)
    BY <1>2, UserPlans
  <2>2. lvgl' = "ui" /\ todo' = [todo EXCEPT !["ui"] = Append(ops, "UNLVGL")]
    BY <2>1 DEF UserBegins, Begin
  <2> QED
    BY <1>0, <2>2, LastCall DEF Held
<1>3. CASE Peripheral
  <2>1. lvgl' = lvgl /\ todo'["ui"] = todo["ui"] /\ todo'["rx"] = todo["rx"]
    BY <1>0, <1>3 DEF Peripheral, Turn, CheckSource, CheckSignal, Begin, Finish
  <2> QED
    BY <2>1 DEF Held
<1>4. CASE Receiver
  <2>1. lvgl' = lvgl /\ todo'["ui"] = todo["ui"] /\ todo["rx"] = <<>>
    BY <1>0, <1>4 DEF Receiver, SetChannel, SetRecState, HandlerTimeout, Begin, Idle
  <2> QED
    BY <2>1, LastCall DEF Held
<1>5. CASE RecordProcess \/ UNCHANGED vars
  BY <1>5 DEF RecordProcess, goggle, vars, threads, Held
<1> QED
  BY <1>1, <1>2, <1>3, <1>4, <1>5 DEF Next

\* For every interleaving of the user, thread_peripheral and the receiver: the
\* threads that wait for lvgl_mutex and dvr_mutex never wait for one another.
THEOREM NobodyStuck == Spec => []NoCircularWait
<1>1. Init => Calls /\ Locks /\ Held /\ KnownInv
  <2> SUFFICES ASSUME Init PROVE Calls /\ Locks /\ Held /\ KnownInv
    OBVIOUS
  <2>1. Calls
    BY CallTypes DEF Init, Calls, Busy, Threads
  <2>2. Locks /\ Held
    BY PlainCalls DEF Init, Locks, Held, Threads
  <2>3. KnownInv
    BY DEF Init, R!Init, KnownInv, Mutex, Holds, Queue, Tracked, WillRecord, Threads
  <2> QED
    BY <2>1, <2>2, <2>3
<1>2. Calls /\ Locks /\ Held /\ KnownInv => NoCircularWait
  <2> SUFFICES ASSUME Calls, Locks, Held, KnownInv PROVE NoCircularWait
    OBVIOUS
  <2>1. ASSUME NEW t \in Threads, lvgl = t
        PROVE  \E p \in Seq(Plain) : todo[t] = Append(p, "UNLVGL")
    BY <2>1 DEF Locks, Held, Threads
  <2>2. ASSUME NEW t \in Threads, Holds(t) PROVE ~WaitsForLvgl(t) /\ ~WaitsForDvr(t)
    BY <2>2 DEF Holds, WaitsForLvgl, WaitsForDvr, Calls, Busy, DvrOps
  <2>3. ASSUME NEW s \in Threads, NEW t \in Threads, Holds(s), Holds(t) PROVE s = t
    BY <2>3 DEF KnownInv, Mutex
  <2> QED
    BY <2>1, <2>2, <2>3 DEF NoCircularWait
<1> QED
  BY <1>1, <1>2, CallsStep, LocksStep, HeldStep, KnownStep, PTL DEF Spec
=============================================================================
