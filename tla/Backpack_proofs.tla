-------------------------- MODULE Backpack_proofs ---------------------------
(* Theorems about the binding, for every length of the UART, every number  *)
(* of polls and whatever the radio and the head tracker send.              *)
EXTENDS Backpack, TLAPS

\* Between the order to bind and the first answer a copy that was begun
\* before the order may still go on, but its function has been cleared.
LateCopy ==
  click \in {"sent", "waitP"} /\ packet = "O" /\ "O" \notin said => fn = "none"

\* Once "P" has been accepted, every "O" in sight is an answer to this order.
FreshAnswer ==
  click \in {"started", "unlocked", "waitO"} =>
    (pay = "O" \/ packet = "O" => "O" \in said)

SuccessInv == LateCopy /\ FreshAnswer /\ SuccessIsReal

\* In a wait the flag is the user's, who has cancelled this request.
CancelInv ==
  /\ click \in {"waitP", "started", "unlocked", "waitO"} /\ cancelled => asked
  /\ CancelledIsAsked

\* The steps that leave alone what the invariants are about.
Quiet ==
  \/ (\E p \in {"O", "E"} : PeerEndsBinding(p)) \/ (\E p \in Radio : RadioCommand(p))
  \/ LockChannel \/ SwitchChannel \/ StopReceiver
  \/ EnterPage \/ LeavePage \/ SendChannel \/ SwitchOn \/ SwitchOff
  \/ CancelPosts \/ StatusRead \/ StatusMissed \/ TimerDrains \/ EnableTimer \/ TrackerDrains
  \/ AskDrains \/ WaitOn \/ Joined
  \/ UNCHANGED vars

\* A quiet step changes neither the response nor the result, and leads into
\* no wait.
LEMMA QuietStep ==
  ASSUME Quiet
  PROVE  /\ UNCHANGED <<fn, pay, packet, result, asked, cancelled, said>>
         /\ \/ UNCHANGED click
            \/ click' \in {"idle", "ask", "asked", "channel", "join"}
<1>1. CASE \/ (\E p \in {"O", "E"} : PeerEndsBinding(p)) \/ (\E p \in Radio : RadioCommand(p))
           \/ LockChannel \/ SwitchChannel \/ StopReceiver
  BY <1>1 DEF PeerEndsBinding, RadioCommand, LockChannel, SwitchChannel, StopReceiver,
              Others, response, clicking, receiver
<1>2. CASE EnterPage \/ LeavePage \/ SendChannel \/ SwitchOn \/ SwitchOff
  BY <1>2 DEF EnterPage, LeavePage, SendChannel, SwitchOn, SwitchOff, Drain, response,
              clicking, receiver
<1>3. CASE CancelPosts \/ StatusRead \/ StatusMissed \/ TimerDrains \/ EnableTimer \/ TrackerDrains
  BY <1>3 DEF CancelPosts, StatusRead, StatusMissed, TimerDrains, EnableTimer, TrackerDrains,
              Post, TakeSem, Drain, Rest, response, clicking, receiver
<1>4. CASE AskDrains \/ WaitOn \/ Joined
  BY <1>4 DEF AskDrains, WaitOn, Joined, TakeSem, Drain, response, clicking, receiver
<1>5. CASE UNCHANGED vars
  BY <1>5 DEF vars, response, clicking, receiver
<1> QED
  BY <1>1, <1>2, <1>3, <1>4, <1>5 DEF Quiet

\* The other steps.
LEMMA Steps ==
  ASSUME [Next]_vars
  PROVE  \/ Quiet \/ ReadPacket \/ CopyPayload \/ PostResponse \/ SendReply
         \/ AskWrites \/ ChannelWritten \/ SendMode
         \/ Await("sent", "waitP") \/ Await("unlocked", "waitO")
         \/ Started \/ NotStarted \/ Unlock \/ BindingEnds \/ Relock
         \/ (\E m \in {"B", "W"} : Click(m)) \/ Cancel \/ TimerWrites \/ TrackerWrites
BY DEF Next, Module, Receiver, Clicking, Main, User, Tracker, Quiet

\* Where the function of the response is cleared and nothing else about it
\* changes, the invariants are kept.
LEMMA Cleared ==
  ASSUME SuccessInv, fn' = "none", UNCHANGED <<pay, packet, said>>,
         \/ UNCHANGED <<click, result>>
         \/ click' = "idle"
  PROVE  SuccessInv'
BY DEF SuccessInv, LateCopy, FreshAnswer, SuccessIsReal

\* Every step preserves the invariant behind SuccessIsReal.
LEMMA SuccessStep ==
  ASSUME SuccessInv, [Next]_vars
  PROVE  SuccessInv'
<1> USE DEF SuccessInv, LateCopy, FreshAnswer, SuccessIsReal
<1>1. CASE Quiet
  BY <1>1, QuietStep
<1>2. CASE ReadPacket
  BY <1>2 DEF ReadPacket, Others, clicking, Drain, response
<1>3. CASE CopyPayload
  BY <1>3 DEF CopyPayload, Others, clicking
<1>4. CASE PostResponse
  BY <1>4 DEF PostResponse, Others, clicking, Post
<1>5. CASE SendReply \/ TimerWrites \/ TrackerWrites \/ AskWrites \/ ChannelWritten
  <2>1. /\ fn' = "none" /\ UNCHANGED <<pay, packet, said>>
        /\ UNCHANGED <<click, result>> \/ click' = "idle"
    BY <1>5 DEF SendReply, TimerWrites, TrackerWrites, AskWrites, ChannelWritten, Clear,
                Others, Rest, clicking, receiver
  <2> QED
    BY <2>1, Cleared
<1>6. CASE SendMode
  BY <1>6 DEF SendMode, Clear, receiver
<1>7. CASE Await("sent", "waitP") \/ Await("unlocked", "waitO")
  BY <1>7 DEF Await, Forget, response, receiver
<1>8. CASE Started
  <2>1. fn = "mode" /\ pay = "P"
    BY <1>8 DEF Started, Ends, Outcome
  <2> QED
    BY <1>8, <2>1 DEF Started, TakeSem, receiver
<1>9. CASE NotStarted \/ Unlock \/ Relock
  BY <1>9 DEF NotStarted, Unlock, Relock, TakeSem, TimesOut, response, receiver
<1>10. CASE BindingEnds
  BY <1>10 DEF BindingEnds, TakeSem, TimesOut, Outcome, response, receiver
<1>11. CASE (\E m \in {"B", "W"} : Click(m)) \/ Cancel
  BY <1>11 DEF Click, Cancel, Drain, response, receiver
<1> QED
  BY Steps, <1>1, <1>2, <1>3, <1>4, <1>5, <1>6, <1>7, <1>8, <1>9, <1>10, <1>11

\* "Success" means that the module has said "O" since it was told to bind
\* (src/src/core/elrs.c:419-447).
THEOREM Success == Spec => []SuccessIsReal
<1>1. Init => SuccessInv
  BY DEF Init, SuccessInv, LateCopy, FreshAnswer, SuccessIsReal
<1>2. SuccessInv /\ [Next]_vars => SuccessInv'
  BY SuccessStep
<1>3. SuccessInv => SuccessIsReal
  BY DEF SuccessInv
<1> QED
  BY <1>1, <1>2, <1>3, PTL DEF Spec

\* Every step preserves the invariant behind CancelledIsAsked.
LEMMA CancelStep ==
  ASSUME CancelInv, [Next]_vars
  PROVE  CancelInv'
<1> USE DEF CancelInv, CancelledIsAsked
<1>1. CASE Quiet
  BY <1>1, QuietStep
<1>2. CASE \/ ReadPacket \/ CopyPayload \/ PostResponse \/ SendReply
           \/ TimerWrites \/ TrackerWrites
  BY <1>2 DEF ReadPacket, CopyPayload, PostResponse, SendReply, TimerWrites, TrackerWrites,
              Others, Rest, clicking
<1>3. CASE AskWrites \/ ChannelWritten \/ SendMode \/ Unlock \/ Relock
  BY <1>3 DEF AskWrites, ChannelWritten, SendMode, Unlock, Relock
<1>4. CASE Await("sent", "waitP") \/ Await("unlocked", "waitO")
  BY <1>4 DEF Await, Forget
<1>5. CASE Started
  BY <1>5 DEF Started
<1>6. CASE NotStarted \/ BindingEnds
  BY <1>6 DEF NotStarted, BindingEnds, TimesOut, Outcome
<1>7. CASE (\E m \in {"B", "W"} : Click(m)) \/ Cancel
  BY <1>7 DEF Click, Cancel
<1> QED
  BY Steps, <1>1, <1>2, <1>3, <1>4, <1>5, <1>6, <1>7

\* Nothing is reported as cancelled that the user has not cancelled
\* (src/src/core/elrs.c:434, 449-452).
THEOREM Cancelled == Spec => []CancelledIsAsked
<1>1. Init => CancelInv
  BY DEF Init, CancelInv, CancelledIsAsked
<1>2. CancelInv /\ [Next]_vars => CancelInv'
  BY CancelStep
<1>3. CancelInv => CancelledIsAsked
  BY DEF CancelInv
<1> QED
  BY <1>1, <1>2, <1>3, PTL DEF Spec
-----------------------------------------------------------------------------
(* The types, and who holds lvgl_mutex                                     *)

Flags ==
  /\ cancelled \in BOOLEAN /\ enabled \in BOOLEAN /\ shown \in BOOLEAN /\ binding \in BOOLEAN
  /\ asked \in BOOLEAN /\ stopping \in BOOLEAN /\ repower \in BOOLEAN

LEMMA FlagsStep ==
  ASSUME Flags, [Next]_vars
  PROVE  Flags'
<1> USE DEF Flags, response, module, setting, clicking, receiver, timers
<1>1. CASE \E p \in {"O", "E"} : PeerEndsBinding(p)
  BY <1>1, Zenon DEF PeerEndsBinding
<1>2. CASE \E p \in Radio : RadioCommand(p)
  BY <1>2, Zenon DEF RadioCommand
<1>3. CASE ReadPacket
  BY <1>3, Zenon DEF ReadPacket, Drain, Others
<1>4. CASE CopyPayload
  BY <1>4, Zenon DEF CopyPayload, Others
<1>5. CASE PostResponse
  BY <1>5, Zenon DEF PostResponse, Post, Others
<1>6. CASE SendReply
  BY <1>6, Zenon DEF SendReply, Clear, Others
<1>7. CASE SwitchChannel
  BY <1>7, Zenon DEF SwitchChannel
<1>8. CASE StopReceiver
  BY <1>8, Zenon DEF StopReceiver, Others
<1>9. CASE LockChannel
  BY <1>9, Zenon DEF LockChannel, Others
<1>10. CASE AskDrains
  BY <1>10, Zenon DEF AskDrains, Drain, Keep
<1>11. CASE AskWrites
  BY <1>11, Zenon DEF AskWrites, Clear, Keep
<1>12. CASE ChannelWritten
  BY <1>12, Zenon DEF ChannelWritten, Clear, Keep
<1>13. CASE SendMode
  BY <1>13, Zenon DEF SendMode, Clear, Keep
<1>14. CASE Await("sent", "waitP")
  BY <1>14, Zenon DEF Await, Forget, Keep
<1>15. CASE WaitOn
  BY <1>15, Zenon DEF WaitOn, TakeSem, Keep
<1>16. CASE Started
  BY <1>16, Zenon DEF Started, TakeSem, Keep
<1>17. CASE NotStarted
  BY <1>17, Zenon DEF NotStarted, TakeSem, TimesOut, Outcome, Keep
<1>18. CASE Unlock
  BY <1>18, Zenon DEF Unlock, Keep
<1>19. CASE Await("unlocked", "waitO")
  BY <1>19, Zenon DEF Await, Forget, Keep
<1>20. CASE BindingEnds
  BY <1>20, Zenon DEF BindingEnds, TakeSem, TimesOut, Outcome, Keep
<1>21. CASE Joined
  BY <1>21, Zenon DEF Joined, PlanRepower, Keep
<1>22. CASE Relock
  BY <1>22, Zenon DEF Relock, LockAgain, Keep
<1>23. CASE CancelPosts
  BY <1>23, Zenon DEF CancelPosts, Post
<1>24. CASE StatusRead
  BY <1>24, Zenon DEF StatusRead, TimerRuns, TakeSem, Rest
<1>25. CASE StatusMissed
  BY <1>25, Zenon DEF StatusMissed, TimerRuns, TakeSem, TimerLocks, Rest
<1>26. CASE TimerDrains
  BY <1>26, Zenon DEF TimerDrains, Drain, Rest
<1>27. CASE TimerWrites
  BY <1>27, Zenon DEF TimerWrites, Clear, TimerUnlocks, Rest
<1>28. CASE EnableTimer
  BY <1>28, Zenon DEF EnableTimer, TimerRuns, TimerLocks, Rest
<1>29. CASE EnterPage
  BY <1>29, Zenon DEF EnterPage, Free
<1>30. CASE LeavePage
  BY <1>30, Zenon DEF LeavePage, Free
<1>31. CASE SendChannel
  BY <1>31, Zenon DEF SendChannel, Free, Drain, Keep
<1>32. CASE \E m \in {"B", "W"} : Click(m)
  BY <1>32, Zenon DEF Click, Free, Drain, Keep
<1>33. CASE SwitchOn
  BY <1>33, Zenon DEF SwitchOn, Free
<1>34. CASE SwitchOff
  BY <1>34, Zenon DEF SwitchOff, Free
<1>35. CASE Cancel
  BY <1>35, Zenon DEF Cancel
<1>36. CASE TrackerDrains
  BY <1>36, Zenon DEF TrackerDrains, Drain
<1>37. CASE TrackerWrites
  BY <1>37, Zenon DEF TrackerWrites, Clear
<1>38. CASE UNCHANGED vars
  BY <1>38, Zenon DEF vars
<1> QED
  BY <1>1, <1>2, <1>3, <1>4, <1>5, <1>6, <1>7, <1>8, <1>9, <1>10, <1>11, <1>12, <1>13, <1>14, <1>15,
     <1>16, <1>17, <1>18, <1>19, <1>20, <1>21, <1>22, <1>23, <1>24, <1>25, <1>26, <1>27, <1>28,
     <1>29, <1>30, <1>31, <1>32, <1>33, <1>34, <1>35, <1>36, <1>37, <1>38
     DEF Next, Module, Receiver, Clicking, Main, User, Tracker

Packets == Answers \cup {"status"} \cup Radio

Values ==
  /\ sem \in 0..MaxSem
  /\ fn \in {"none", "mode", "status"} /\ pay \in Answers \cup {"none", "status"}
  /\ peer \in {"idle", "binding"} /\ mode \in {"B", "W"}
  /\ click \in {"idle", "ask", "asked", "channel", "send", "sent", "waitP", "started",
                "unlocked", "waitO", "relock", "join"}
  /\ result \in {"none", "SUCCESS", "FAILED", "TIMEDOUT", "CANCELLED"}
  /\ lvgl \in {"none", "input", "right", "main", "rx"}
  /\ rx \in {"none", "read", "copy", "post", "reply", "lock", "switch", "ended"}
  /\ packet \in Answers \cup {"none", "status"}
  /\ polls \in 0..Polls
  /\ timer \in {"idle", "drain", "write"} /\ ht \in {"idle", "write"}
  /\ said \subseteq Answers \cup {"status"}

LEMMA ValuesStep ==
  ASSUME Values, [Next]_vars
  PROVE  Values'
<1> USE BackpackAssumption DEF Values, Answers, response, module, setting, clicking, receiver, timers
<1>1. CASE \E p \in {"O", "E"} : PeerEndsBinding(p)
  BY <1>1 DEF PeerEndsBinding
<1>2. CASE \E p \in Radio : RadioCommand(p)
  BY <1>2 DEF RadioCommand
<1>3. CASE ReadPacket
  <2>1. UNCHANGED <<peer, mode, click, result, lvgl, polls, timer, ht>>
    BY <1>3 DEF ReadPacket, Others
  <2>2. CASE /\ Head(wire) \in Answers \cup {"status"}
             /\ fn' = Function(Head(wire)) /\ packet' = Head(wire) /\ rx' = "copy"
             /\ said' = said \cup {Head(wire)}
             /\ UNCHANGED <<sem, pay>>
    <3>1. fn' \in {"none", "mode", "status"}
      BY <2>2 DEF Function
    <3>2. said' \subseteq Answers \cup {"status"} /\ packet' \in Answers \cup {"none", "status"}
      BY <2>2
    <3> QED
      BY <2>1, <2>2, <3>1, <3>2
  <2>3. CASE rx' \in {"reply", "lock"} /\ UNCHANGED <<packet, said>> /\ (Drain \/ UNCHANGED response)
    BY <2>1, <2>3 DEF Drain
  <2> QED
    BY <1>3, <2>2, <2>3, Zenon DEF ReadPacket
<1>4. CASE CopyPayload
  BY <1>4 DEF CopyPayload, Others
<1>5. CASE PostResponse
  BY <1>5 DEF PostResponse, Post, Others
<1>6. CASE SendReply
  BY <1>6 DEF SendReply, Clear, Others
<1>7. CASE SwitchChannel
  BY <1>7 DEF SwitchChannel
<1>8. CASE StopReceiver
  BY <1>8 DEF StopReceiver, Others
<1>9. CASE LockChannel
  BY <1>9 DEF LockChannel, Others
<1>10. CASE AskDrains
  BY <1>10 DEF AskDrains, Drain, Keep
<1>11. CASE AskWrites
  BY <1>11 DEF AskWrites, Clear, Keep
<1>12. CASE ChannelWritten
  BY <1>12 DEF ChannelWritten, Clear, Keep
<1>13. CASE SendMode
  BY <1>13 DEF SendMode, Clear, Keep
<1>14. CASE Await("sent", "waitP")
  BY <1>14 DEF Await, Forget, Keep
<1>15. CASE WaitOn
  BY <1>15 DEF WaitOn, TakeSem, Keep
<1>16. CASE Started
  BY <1>16 DEF Started, TakeSem, Keep
<1>17. CASE NotStarted
  BY <1>17 DEF NotStarted, TakeSem, TimesOut, Outcome, Keep
<1>18. CASE Unlock
  BY <1>18 DEF Unlock, Keep
<1>19. CASE Await("unlocked", "waitO")
  BY <1>19 DEF Await, Forget, Keep
<1>20. CASE BindingEnds
  BY <1>20 DEF BindingEnds, TakeSem, TimesOut, Outcome, Keep
<1>21. CASE Joined
  BY <1>21 DEF Joined, PlanRepower, Keep
<1>22. CASE Relock
  BY <1>22 DEF Relock, LockAgain, Keep
<1>23. CASE CancelPosts
  BY <1>23 DEF CancelPosts, Post
<1>24. CASE StatusRead
  BY <1>24 DEF StatusRead, TimerRuns, TakeSem, Rest
<1>25. CASE StatusMissed
  BY <1>25 DEF StatusMissed, TimerRuns, TakeSem, TimerLocks, Rest
<1>26. CASE TimerDrains
  BY <1>26 DEF TimerDrains, Drain, Rest
<1>27. CASE TimerWrites
  BY <1>27 DEF TimerWrites, Clear, TimerUnlocks, Rest
<1>28. CASE EnableTimer
  BY <1>28 DEF EnableTimer, TimerRuns, TimerLocks, Rest
<1>29. CASE EnterPage
  BY <1>29 DEF EnterPage, Free
<1>30. CASE LeavePage
  BY <1>30 DEF LeavePage, Free
<1>31. CASE SendChannel
  BY <1>31 DEF SendChannel, Free, Drain, Keep
<1>32. CASE \E m \in {"B", "W"} : Click(m)
  BY <1>32 DEF Click, Free, Drain, Keep
<1>33. CASE SwitchOn
  BY <1>33 DEF SwitchOn, Free
<1>34. CASE SwitchOff
  BY <1>34 DEF SwitchOff, Free
<1>35. CASE Cancel
  BY <1>35 DEF Cancel
<1>36. CASE TrackerDrains
  BY <1>36 DEF TrackerDrains, Drain
<1>37. CASE TrackerWrites
  BY <1>37 DEF TrackerWrites, Clear
<1>38. CASE UNCHANGED vars
  BY <1>38 DEF vars
<1> QED
  BY <1>1, <1>2, <1>3, <1>4, <1>5, <1>6, <1>7, <1>8, <1>9, <1>10, <1>11, <1>12, <1>13, <1>14, <1>15,
     <1>16, <1>17, <1>18, <1>19, <1>20, <1>21, <1>22, <1>23, <1>24, <1>25, <1>26, <1>27, <1>28,
     <1>29, <1>30, <1>31, <1>32, <1>33, <1>34, <1>35, <1>36, <1>37, <1>38
     DEF Next, Module, Receiver, Clicking, Main, User, Tracker

\* Who holds lvgl_mutex, and where a timer may be inside another thread.
Locks ==
  /\ lvgl = "input" <=>
       click \in {"ask", "asked", "channel", "send", "sent", "waitP", "started", "join"}
  /\ lvgl = "rx" <=> rx = "switch"
  /\ timer # "idle" => lvgl = "main" \/ click \in {"sent", "started"}

LEMMA LocksStep ==
  ASSUME Locks, Values, [Next]_vars
  PROVE  Locks'
<1> USE DEF Locks, Values, response, module, setting, clicking, receiver, timers
<1>1. CASE \E p \in {"O", "E"} : PeerEndsBinding(p)
  BY <1>1 DEF PeerEndsBinding
<1>2. CASE \E p \in Radio : RadioCommand(p)
  BY <1>2 DEF RadioCommand
<1>3. CASE ReadPacket
  BY <1>3 DEF ReadPacket, Drain, Others
<1>4. CASE CopyPayload
  BY <1>4 DEF CopyPayload, Others
<1>5. CASE PostResponse
  BY <1>5 DEF PostResponse, Post, Others
<1>6. CASE SendReply
  BY <1>6 DEF SendReply, Clear, Others
<1>7. CASE SwitchChannel
  BY <1>7 DEF SwitchChannel
<1>8. CASE StopReceiver
  BY <1>8 DEF StopReceiver, Others
<1>9. CASE LockChannel
  BY <1>9 DEF LockChannel, Others
<1>10. CASE AskDrains
  BY <1>10 DEF AskDrains, Drain, Keep
<1>11. CASE AskWrites
  BY <1>11 DEF AskWrites, Clear, Keep
<1>12. CASE ChannelWritten
  BY <1>12 DEF ChannelWritten, Clear, Keep
<1>13. CASE SendMode
  BY <1>13 DEF SendMode, Clear, Keep
<1>14. CASE Await("sent", "waitP")
  BY <1>14 DEF Await, Forget, Keep
<1>15. CASE WaitOn
  BY <1>15 DEF WaitOn, TakeSem, Keep
<1>16. CASE Started
  BY <1>16 DEF Started, TakeSem, Keep
<1>17. CASE NotStarted
  BY <1>17 DEF NotStarted, TakeSem, TimesOut, Outcome, Keep
<1>18. CASE Unlock
  BY <1>18 DEF Unlock, Keep
<1>19. CASE Await("unlocked", "waitO")
  BY <1>19 DEF Await, Forget, Keep
<1>20. CASE BindingEnds
  BY <1>20 DEF BindingEnds, TakeSem, TimesOut, Outcome, Keep
<1>21. CASE Joined
  BY <1>21 DEF Joined, PlanRepower, Keep
<1>22. CASE Relock
  BY <1>22 DEF Relock, LockAgain, Keep
<1>23. CASE CancelPosts
  BY <1>23 DEF CancelPosts, Post
<1>24. CASE StatusRead
  BY <1>24 DEF StatusRead, TimerRuns, TakeSem, Rest
<1>25. CASE StatusMissed
  BY <1>25 DEF StatusMissed, TimerRuns, TakeSem, TimerLocks, Rest
<1>26. CASE TimerDrains
  BY <1>26 DEF TimerDrains, Drain, Rest
<1>27. CASE TimerWrites
  BY <1>27 DEF TimerWrites, Clear, TimerUnlocks, Rest
<1>28. CASE EnableTimer
  BY <1>28 DEF EnableTimer, TimerRuns, TimerLocks, Rest
<1>29. CASE EnterPage
  BY <1>29 DEF EnterPage, Free
<1>30. CASE LeavePage
  BY <1>30 DEF LeavePage, Free
<1>31. CASE SendChannel
  BY <1>31 DEF SendChannel, Free, Drain, Keep
<1>32. CASE \E m \in {"B", "W"} : Click(m)
  BY <1>32 DEF Click, Free, Drain, Keep
<1>33. CASE SwitchOn
  BY <1>33 DEF SwitchOn, Free
<1>34. CASE SwitchOff
  BY <1>34 DEF SwitchOff, Free
<1>35. CASE Cancel
  BY <1>35 DEF Cancel
<1>36. CASE TrackerDrains
  BY <1>36 DEF TrackerDrains, Drain
<1>37. CASE TrackerWrites
  BY <1>37 DEF TrackerWrites, Clear
<1>38. CASE UNCHANGED vars
  BY <1>38 DEF vars
<1> QED
  BY <1>1, <1>2, <1>3, <1>4, <1>5, <1>6, <1>7, <1>8, <1>9, <1>10, <1>11, <1>12, <1>13, <1>14, <1>15,
     <1>16, <1>17, <1>18, <1>19, <1>20, <1>21, <1>22, <1>23, <1>24, <1>25, <1>26, <1>27, <1>28,
     <1>29, <1>30, <1>31, <1>32, <1>33, <1>34, <1>35, <1>36, <1>37, <1>38
     DEF Next, Module, Receiver, Clicking, Main, User, Tracker

\* A timer will power only an enabled module; and a module is enabled just
\* when it has a receiver, unless it is being disabled or a timer is waiting.
Powers ==
  /\ repower => enabled
  /\ click # "join" /\ ~repower => (enabled <=> rx # "none")

LEMMA PowersStep ==
  ASSUME Powers, Locks, Flags, [Next]_vars
  PROVE  Powers'
<1> USE DEF Powers, Locks, Flags, response, module, setting, clicking, receiver, timers
<1>1. CASE \E p \in {"O", "E"} : PeerEndsBinding(p)
  BY <1>1 DEF PeerEndsBinding
<1>2. CASE \E p \in Radio : RadioCommand(p)
  BY <1>2 DEF RadioCommand
<1>3. CASE ReadPacket
  BY <1>3 DEF ReadPacket, Drain, Others
<1>4. CASE CopyPayload
  BY <1>4 DEF CopyPayload, Others
<1>5. CASE PostResponse
  BY <1>5 DEF PostResponse, Post, Others
<1>6. CASE SendReply
  BY <1>6 DEF SendReply, Clear, Others
<1>7. CASE SwitchChannel
  BY <1>7 DEF SwitchChannel
<1>8. CASE StopReceiver
  BY <1>8 DEF StopReceiver, Others
<1>9. CASE LockChannel
  BY <1>9 DEF LockChannel, Others
<1>10. CASE AskDrains
  BY <1>10 DEF AskDrains, Drain, Keep
<1>11. CASE AskWrites
  BY <1>11 DEF AskWrites, Clear, Keep
<1>12. CASE ChannelWritten
  BY <1>12 DEF ChannelWritten, Clear, Keep
<1>13. CASE SendMode
  BY <1>13 DEF SendMode, Clear, Keep
<1>14. CASE Await("sent", "waitP")
  BY <1>14 DEF Await, Forget, Keep
<1>15. CASE WaitOn
  BY <1>15 DEF WaitOn, TakeSem, Keep
<1>16. CASE Started
  BY <1>16 DEF Started, TakeSem, Keep
<1>17. CASE NotStarted
  BY <1>17 DEF NotStarted, TakeSem, TimesOut, Outcome, Keep
<1>18. CASE Unlock
  BY <1>18 DEF Unlock, Keep
<1>19. CASE Await("unlocked", "waitO")
  BY <1>19 DEF Await, Forget, Keep
<1>20. CASE BindingEnds
  BY <1>20 DEF BindingEnds, TakeSem, TimesOut, Outcome, Keep
<1>21. CASE Joined
  BY <1>21 DEF Joined, PlanRepower, Keep
<1>22. CASE Relock
  BY <1>22 DEF Relock, LockAgain, Keep
<1>23. CASE CancelPosts
  BY <1>23 DEF CancelPosts, Post
<1>24. CASE StatusRead
  BY <1>24 DEF StatusRead, TimerRuns, TakeSem, Rest
<1>25. CASE StatusMissed
  BY <1>25 DEF StatusMissed, TimerRuns, TakeSem, TimerLocks, Rest
<1>26. CASE TimerDrains
  BY <1>26 DEF TimerDrains, Drain, Rest
<1>27. CASE TimerWrites
  BY <1>27 DEF TimerWrites, Clear, TimerUnlocks, Rest
<1>28. CASE EnableTimer
  BY <1>28 DEF EnableTimer, TimerRuns, TimerLocks, Rest
<1>29. CASE EnterPage
  BY <1>29 DEF EnterPage, Free
<1>30. CASE LeavePage
  BY <1>30 DEF LeavePage, Free
<1>31. CASE SendChannel
  BY <1>31 DEF SendChannel, Free, Drain, Keep
<1>32. CASE \E m \in {"B", "W"} : Click(m)
  BY <1>32 DEF Click, Free, Drain, Keep
<1>33. CASE SwitchOn
  BY <1>33 DEF SwitchOn, Free
<1>34. CASE SwitchOff
  BY <1>34 DEF SwitchOff, Free
<1>35. CASE Cancel
  BY <1>35 DEF Cancel
<1>36. CASE TrackerDrains
  BY <1>36 DEF TrackerDrains, Drain
<1>37. CASE TrackerWrites
  BY <1>37 DEF TrackerWrites, Clear
<1>38. CASE UNCHANGED vars
  BY <1>38 DEF vars
<1> QED
  BY <1>1, <1>2, <1>3, <1>4, <1>5, <1>6, <1>7, <1>8, <1>9, <1>10, <1>11, <1>12, <1>13, <1>14, <1>15,
     <1>16, <1>17, <1>18, <1>19, <1>20, <1>21, <1>22, <1>23, <1>24, <1>25, <1>26, <1>27, <1>28,
     <1>29, <1>30, <1>31, <1>32, <1>33, <1>34, <1>35, <1>36, <1>37, <1>38
     DEF Next, Module, Receiver, Clicking, Main, User, Tracker

Wire == wire \in Seq(Packets) /\ Len(wire) <= MaxWire

\* What the module says is put at the end of the UART, where there is room.
LEMMA SaysKeepsWire ==
  ASSUME Wire, NEW p \in Packets, Says(p)
  PROVE  Wire'
<1> USE BackpackAssumption DEF Wire, Says
<1>1. CASE wire' = wire
  BY <1>1
<1>2. CASE Len(wire) < MaxWire /\ wire' = Append(wire, p)
  <2>1. Append(wire, p) \in Seq(Packets) /\ Len(Append(wire, p)) = Len(wire) + 1 /\ Len(wire) \in Nat
    OBVIOUS
  <2> QED
    BY <1>2, <2>1
<1> QED
  BY <1>1, <1>2

LEMMA WireStep ==
  ASSUME Wire, [Next]_vars
  PROVE  Wire'
<1>1. CASE UNCHANGED wire
  BY <1>1 DEF Wire
<1>2. CASE \E p \in Packets : Says(p)
  BY <1>2, SaysKeepsWire
<1>3. CASE wire # <<>> /\ wire' = Tail(wire)
  <2>1. Tail(wire) \in Seq(Packets) /\ Len(Tail(wire)) = Len(wire) - 1 /\ Len(wire) \in Nat
    BY <1>3 DEF Wire
  <2> QED
    BY <1>3, <2>1, BackpackAssumption DEF Wire
<1>4. CASE wire' = <<>>
  BY <1>4, BackpackAssumption DEF Wire
<1>5. {"O", "E", "P", "status"} \cup Radio \subseteq Packets
  BY DEF Packets, Answers
<1>6. ASSUME Module \/ AskWrites \/ SendMode \/ TimerWrites
      PROVE  \E p \in Packets : Says(p)
  <2>1. CASE Module
    BY <1>5, <2>1 DEF Module, PeerEndsBinding, RadioCommand
  <2>2. CASE AskWrites \/ SendMode \/ TimerWrites
    BY <1>5, <2>2 DEF AskWrites, SendMode, TimerWrites
  <2> QED
    BY <1>6, <2>1, <2>2
<1>7. ASSUME ReadPacket
      PROVE  wire # <<>> /\ wire' = Tail(wire)
  BY <1>7 DEF ReadPacket
<1>8. ASSUME Joined
      PROVE  wire' = <<>>
  BY <1>8 DEF Joined
<1>9. ASSUME ~Module, ~AskWrites, ~SendMode, ~TimerWrites, ~ReadPacket, ~Joined
      PROVE  UNCHANGED wire
  <2>1. CASE \/ CopyPayload \/ PostResponse \/ SendReply \/ SwitchChannel \/ StopReceiver \/ LockChannel
             \/ AskDrains \/ ChannelWritten \/ WaitOn \/ Started \/ NotStarted \/ Unlock \/ BindingEnds
             \/ Await("sent", "waitP") \/ Await("unlocked", "waitO") \/ Relock \/ CancelPosts
    BY <2>1, Zenon DEF CopyPayload, PostResponse, SendReply, SwitchChannel, StopReceiver, LockChannel,
       AskDrains, ChannelWritten, WaitOn, Started, NotStarted, Unlock, BindingEnds, Await, Relock,
       CancelPosts, module
  <2>2. CASE \/ StatusRead \/ StatusMissed \/ TimerDrains \/ EnableTimer \/ User \/ Tracker \/ UNCHANGED vars
    BY <2>2, Zenon DEF StatusRead, StatusMissed, TimerDrains, EnableTimer, User, EnterPage, LeavePage,
       SendChannel, Click, SwitchOn, SwitchOff, Cancel, Tracker, TrackerDrains, TrackerWrites, module, vars
  <2> QED
    BY <1>9, <2>1, <2>2, Zenon DEF Next, Receiver, Clicking, Main
<1> QED
  BY <1>1, <1>2, <1>3, <1>4, <1>6, <1>7, <1>8, <1>9, Zenon
-----------------------------------------------------------------------------
(* The theorems about the types and the power of the module                *)

IInv == TypeOK /\ Powers

LEMMA Parts == TypeOK <=> Flags /\ Values /\ Wire /\ Locks
  BY Zenon DEF TypeOK, Flags, Values, Wire, Locks, Packets

LEMMA Initial ==
  ASSUME Init
  PROVE  IInv
<1> USE BackpackAssumption DEF Init
<1>1. Flags
  BY Zenon DEF Flags
<1>2. Values
  BY DEF Values
<1>3. Wire
  BY DEF Wire
<1>4. Locks
  BY DEF Locks
<1>5. Powers
  BY DEF Powers
<1> QED
  BY <1>1, <1>2, <1>3, <1>4, <1>5, Parts DEF IInv

LEMMA Inductive ==
  ASSUME IInv, [Next]_vars
  PROVE  IInv'
<1>1. Flags /\ Values /\ Wire /\ Locks /\ Powers
  BY Parts DEF IInv
<1>2. Flags' /\ Values' /\ Wire' /\ Locks' /\ Powers'
  BY <1>1, FlagsStep, ValuesStep, WireStep, LocksStep, PowersStep
<1>3. TypeOK'
  BY <1>2, Zenon DEF TypeOK, Flags, Values, Wire, Locks, Packets
<1> QED
  BY <1>2, <1>3 DEF IInv

\* The variables have their types, and lvgl_mutex is held by the input thread
\* in just those places of page_elrs_on_click where it holds it.
THEOREM TypeCorrect == Spec => []TypeOK
<1>1. Init => IInv
  BY Initial
<1>2. IInv /\ [Next]_vars => IInv'
  BY Inductive
<1>3. IInv => TypeOK
  BY DEF IInv
<1> QED
  BY <1>1, <1>2, <1>3, PTL DEF Spec

\* Between clicks the module has its receiver just when it is enabled, or a
\* timer will give it one (page_elrs.c:156-161, 236-241).
THEOREM AlwaysPowered == Spec => []EnabledIsPowered
<1>1. Init => IInv
  BY Initial
<1>2. IInv /\ [Next]_vars => IInv'
  BY Inductive
<1>3. IInv => EnabledIsPowered
  BY DEF IInv, Powers, EnabledIsPowered
<1> QED
  BY <1>1, <1>2, <1>3, PTL DEF Spec
-----------------------------------------------------------------------------
(***************************************************************************)
(* The wait for "O", while nobody else uses the link: from the order to    *)
(* bind to the end of the wait no status timer runs, the head tracker is   *)
(* still, and the receiver meets neither a late status nor a question of   *)
(* the radio.  Each of them drains the semaphore or clears the response.   *)
(***************************************************************************)
Undisturbed ==
  click \in {"sent", "waitP", "started", "unlocked", "waitO"} =>
    /\ polls = 0 /\ timer = "idle" /\ ht = "idle" /\ rx # "reply"
    /\ rx = "read" /\ wire # <<>> => Head(wire) \notin {"query", "status"}

Copying == rx \in {"copy", "post"}

\* The semaphore is up once for each kind of answer that has been posted.  A
\* wait that goes on has read none; the one that "P" ends takes one, which
\* leaves one for the other answer.
Counted ==
  /\ click \in {"sent", "waitP"} /\ said # {} =>
       IF Copying THEN packet \in said /\ (said # {packet} => sem > 0)
                  ELSE pay \in said /\ sem > 0 /\ (said # {pay} => sem > 1)
  /\ click \in {"started", "unlocked", "waitO"} /\ said \cap {"O", "E"} # {} => Copying \/ sem > 0

\* What an answer has written stays, and no timer starts a second receiver.
Stays ==
  /\ click \in {"sent", "waitP", "started", "unlocked", "waitO"} /\ said # {} => fn = "mode"
  /\ rx = "post" => pay = packet
  /\ repower => rx = "none"

HeardInv == Counted /\ Stays /\ CancelWakes

LEMMA HeardStep ==
  ASSUME HeardInv, IInv, Undisturbed, Undisturbed', [Next]_vars
  PROVE  HeardInv'
<1> Flags /\ Values /\ Locks /\ Powers
  BY Parts DEF IInv
<1> USE BackpackAssumption DEF HeardInv, Counted, Stays, CancelWakes, Copying, Undisturbed, Powers, Locks, Values, Flags,
        response, module, setting, clicking, receiver, timers
<1>1. CASE \E p \in {"O", "E"} : PeerEndsBinding(p)
  BY <1>1 DEF PeerEndsBinding
<1>2. CASE \E p \in Radio : RadioCommand(p)
  BY <1>2 DEF RadioCommand
<1>3. CASE ReadPacket
  <2> USE <1>3
  <2>1. /\ rx = "read" /\ wire # <<>>
        /\ UNCHANGED <<click, lvgl, cancelled, repower, asked, binding>>
    BY DEF ReadPacket, Others
  <2>2. ASSUME NEW p \in Answers \cup {"status"}, p = Head(wire),
               fn' = Function(p), packet' = p, rx' = "copy", said' = said \cup {p},
               UNCHANGED <<sem, pay>>
        PROVE  HeardInv'
    <3>1. CASE click \notin {"sent", "waitP", "started", "unlocked", "waitO"}
      BY <2>1, <2>2, <3>1
    <3>2. CASE click \in {"sent", "waitP", "started", "unlocked", "waitO"}
      <4>1. p \in Answers /\ fn' = "mode"
        BY <2>1, <2>2, <3>2 DEF Function
      <4>2. said' # {p} => said # {}
        BY <2>2
      <4> QED
        BY <2>1, <2>2, <3>2, <4>1, <4>2
    <3> QED
      BY <3>1, <3>2
  <2>3. CASE Head(wire) = "query" /\ Drain /\ rx' = "reply" /\ UNCHANGED <<packet, said>>
    BY <2>1, <2>3 DEF Drain
  <2>4. CASE rx' = "lock" /\ UNCHANGED <<response, packet, said>>
    BY <2>1, <2>4
  <2> QED
    BY <2>2, <2>3, <2>4, Zenon DEF ReadPacket
<1>4. CASE CopyPayload
  BY <1>4 DEF CopyPayload, Others
<1>5. CASE PostResponse
  BY <1>5 DEF PostResponse, Post, Others
<1>6. CASE SendReply
  BY <1>6 DEF SendReply, Clear, Others
<1>7. CASE SwitchChannel
  BY <1>7 DEF SwitchChannel
<1>8. CASE StopReceiver
  BY <1>8 DEF StopReceiver, Others
<1>9. CASE LockChannel
  BY <1>9 DEF LockChannel, Others
<1>10. CASE AskDrains
  BY <1>10 DEF AskDrains, Drain, Keep
<1>11. CASE AskWrites
  BY <1>11 DEF AskWrites, Clear, Keep
<1>12. CASE ChannelWritten
  BY <1>12 DEF ChannelWritten, Clear, Keep
<1>13. CASE SendMode
  BY <1>13 DEF SendMode, Clear, Keep
<1>14. CASE Await("sent", "waitP")
  BY <1>14 DEF Await, Forget, Keep
<1>15. CASE WaitOn
  BY <1>15 DEF WaitOn, Ends, TakeSem, Keep
<1>16. CASE Started
  <2>1. fn = "mode" /\ pay = "P" /\ ~cancelled /\ sem > 0 /\ sem' = sem - 1
    BY <1>16 DEF Started, Ends, Outcome, TakeSem
  <2>2. said \cap {"O", "E"} # {} => said # {pay} /\ said # {}
    BY <2>1
  <2>3. click = "waitP" /\ click' = "started" /\ sem \in Nat
        /\ UNCHANGED <<fn, pay, cancelled, lvgl, rx, packet, said, repower>>
    BY <1>16 DEF Started, TakeSem, Keep
  <2> QED
    BY <2>1, <2>2, <2>3
<1>17. CASE NotStarted
  BY <1>17 DEF NotStarted, TakeSem, TimesOut, Outcome, Keep
<1>18. CASE Unlock
  BY <1>18 DEF Unlock, Keep
<1>19. CASE Await("unlocked", "waitO")
  BY <1>19 DEF Await, Forget, Keep
<1>20. CASE BindingEnds
  BY <1>20 DEF BindingEnds, TakeSem, TimesOut, Outcome, Keep
<1>21. CASE Joined
  BY <1>21 DEF Joined, PlanRepower, Keep
<1>22. CASE Relock
  BY <1>22 DEF Relock, LockAgain, Keep
<1>23. CASE CancelPosts
  BY <1>23 DEF CancelPosts, Post
<1>24. CASE StatusRead
  BY <1>24 DEF StatusRead, TimerRuns, TakeSem, Rest
<1>25. CASE StatusMissed
  BY <1>25 DEF StatusMissed, TimerRuns, TakeSem, TimerLocks, Rest
<1>26. CASE TimerDrains
  BY <1>26 DEF TimerDrains, Drain, Rest
<1>27. CASE TimerWrites
  BY <1>27 DEF TimerWrites, Clear, TimerUnlocks, Rest
<1>28. CASE EnableTimer
  BY <1>28 DEF EnableTimer, TimerRuns, TimerLocks, Rest
<1>29. CASE EnterPage
  BY <1>29 DEF EnterPage, Free
<1>30. CASE LeavePage
  BY <1>30 DEF LeavePage, Free
<1>31. CASE SendChannel
  BY <1>31 DEF SendChannel, Free, Drain, Keep
<1>32. CASE \E m \in {"B", "W"} : Click(m)
  BY <1>32 DEF Click, Free, Drain, Keep
<1>33. CASE SwitchOn
  BY <1>33 DEF SwitchOn, Free
<1>34. CASE SwitchOff
  BY <1>34 DEF SwitchOff, Free
<1>35. CASE Cancel
  BY <1>35 DEF Cancel
<1>36. CASE TrackerDrains
  BY <1>36 DEF TrackerDrains, Drain
<1>37. CASE TrackerWrites
  BY <1>37 DEF TrackerWrites, Clear
<1>38. CASE UNCHANGED vars
  BY <1>38 DEF vars
<1> QED
  BY <1>1, <1>2, <1>3, <1>4, <1>5, <1>6, <1>7, <1>8, <1>9, <1>10, <1>11, <1>12, <1>13, <1>14, <1>15,
     <1>16, <1>17, <1>18, <1>19, <1>20, <1>21, <1>22, <1>23, <1>24, <1>25, <1>26, <1>27, <1>28,
     <1>29, <1>30, <1>31, <1>32, <1>33, <1>34, <1>35, <1>36, <1>37, <1>38
     DEF Next, Module, Receiver, Clicking, Main, User, Tracker

\* While nobody else uses the link, a cancelled wait finds the semaphore up:
\* the cancellation is not slept over (elrs.c:449-452).
THEOREM Wakes == Spec /\ []Undisturbed => []CancelWakes
<1>1. Init => HeardInv /\ IInv
  <2>1. Init => HeardInv
    BY DEF Init, HeardInv, Counted, Stays, CancelWakes
  <2> QED
    BY <2>1, Initial
<1>2. HeardInv /\ IInv /\ Undisturbed /\ Undisturbed' /\ [Next]_vars => HeardInv' /\ IInv'
  BY HeardStep, Inductive
<1>3. HeardInv => CancelWakes
  BY DEF HeardInv
<1> QED
  BY <1>1, <1>2, <1>3, PTL DEF Spec

\* Only BindingEnds leads from the wait for "O" to the lock that follows it.
LEMMA OnlyBindingEnds ==
  ASSUME [Next]_vars, click = "waitO", click' = "relock"
  PROVE  BindingEnds
<1>1. ~Quiet
  BY QuietStep
<1>2. ~ReadPacket /\ ~CopyPayload /\ ~PostResponse /\ ~SendReply /\ ~Cancel /\ ~TimerWrites /\ ~TrackerWrites
  BY DEF ReadPacket, CopyPayload, PostResponse, SendReply, Others, Cancel, TimerWrites, TrackerWrites,
         Rest, clicking
<1>3. /\ ~AskWrites /\ ~ChannelWritten /\ ~SendMode /\ ~Await("sent", "waitP")
      /\ ~Await("unlocked", "waitO") /\ ~Started /\ ~NotStarted /\ ~Unlock /\ ~Relock
      /\ ~(\E m \in {"B", "W"} : Click(m))
  BY DEF AskWrites, ChannelWritten, SendMode, Await, Started, NotStarted, Unlock, Relock, Click, Free
<1> QED
  BY <1>1, <1>2, <1>3, Steps

\* While nobody else uses the link, a wait for "O" does not time out on an
\* answer that the receiver has posted (elrs.c:402-405, 434-446).
THEOREM Heard == Spec /\ []Undisturbed => AnswerHeard
<1>1. Init => HeardInv /\ IInv
  <2>1. Init => HeardInv
    BY DEF Init, HeardInv, Counted, Stays, CancelWakes
  <2> QED
    BY <2>1, Initial
<1>2. HeardInv /\ IInv /\ Undisturbed /\ Undisturbed' /\ [Next]_vars => HeardInv' /\ IInv'
  BY HeardStep, Inductive
<1>3. ASSUME HeardInv, IInv, [Next]_vars
      PROVE  [click = "waitO" /\ click' = "relock" /\ result' = "TIMEDOUT"
                => said \cap {"O", "E"} = {} \/ rx \in {"copy", "post"}]_vars
  <2> SUFFICES ASSUME click = "waitO", click' = "relock", result' = "TIMEDOUT"
               PROVE  said \cap {"O", "E"} = {} \/ rx \in {"copy", "post"}
    OBVIOUS
  <2>1. BindingEnds
    BY <1>3, OnlyBindingEnds
  <2>2. ~TakeSem \/ ~Ends \/ result' # Outcome("O")
    BY DEF Outcome
  <2>3. sem = 0
    BY <2>1, <2>2 DEF BindingEnds, TimesOut
  <2> QED
    BY <1>3, <2>3 DEF HeardInv, Counted, Copying
<1> QED
  BY <1>1, <1>2, <1>3, PTL DEF Spec, AnswerHeard

\* A page that never asks for the status, a radio that asks nothing and a
\* still head tracker leave every wait undisturbed.
Alone ==
  /\ polls = 0 /\ timer = "idle" /\ ht = "idle" /\ rx # "reply" /\ click \notin {"ask", "asked"}
  /\ wire \in Seq(Answers \cup {"channel"})

LEMMA AloneWire ==
  ASSUME Alone, NEW p \in Answers \cup {"channel"}, Says(p)
  PROVE  wire' \in Seq(Answers \cup {"channel"})
BY DEF Alone, Says

LEMMA AloneStep ==
  ASSUME Polls = 0, Radio \subseteq {"channel"}, ~HeadTracks, Alone, [Next]_vars
  PROVE  Alone'
<1> USE DEF Alone
<1>1. CASE Module
  <2>1. /\ \E p \in Answers \cup {"channel"} : Says(p)
        /\ UNCHANGED <<polls, timer, ht, rx, click>>
    BY <1>1 DEF Module, PeerEndsBinding, RadioCommand, Answers, timers, receiver, clicking
  <2> QED
    BY <2>1, AloneWire
<1>2. CASE ReadPacket
  <2>1. wire # <<>> /\ wire' = Tail(wire) /\ UNCHANGED <<polls, timer, ht, click>>
    BY <1>2 DEF ReadPacket, Others, timers, clicking
  <2>2. Head(wire) \in Answers \cup {"channel"} /\ Tail(wire) \in Seq(Answers \cup {"channel"})
    BY <2>1
  <2>3. rx' # "reply"
    BY <1>2, <2>2 DEF ReadPacket, Answers
  <2> QED
    BY <2>1, <2>2, <2>3
<1>3. CASE CopyPayload \/ PostResponse \/ SwitchChannel \/ StopReceiver \/ LockChannel
  BY <1>3 DEF CopyPayload, PostResponse, SwitchChannel, StopReceiver, LockChannel, Others,
              module, timers, clicking
<1>4. CASE SendReply \/ AskDrains \/ AskWrites \/ Main \/ Tracker
  <2>1. EnableTimer
    BY <1>4 DEF SendReply, AskDrains, AskWrites, Main, StatusRead, StatusMissed, TimerDrains, TimerWrites,
                Tracker, TrackerDrains, TrackerWrites
  <2> QED
    BY <2>1 DEF EnableTimer, Rest, module, clicking
<1>5. CASE SendMode
  <2>1. Says("P") /\ click' = "sent" /\ UNCHANGED <<polls, timer, ht, rx>>
    BY <1>5 DEF SendMode, Keep, timers, receiver
  <2> QED
    BY <2>1, AloneWire DEF Answers
<1>6. CASE ChannelWritten \/ Await("sent", "waitP") \/ WaitOn \/ Started \/ NotStarted \/ Unlock
           \/ Await("unlocked", "waitO") \/ BindingEnds
  BY <1>6 DEF ChannelWritten, Await, WaitOn, Started, NotStarted, Unlock, BindingEnds, Keep,
              module, timers, receiver, clicking
<1>7. CASE Joined
  <2>1. wire' = <<>> /\ rx' = "none" /\ click' = "idle" /\ UNCHANGED <<polls, timer, ht>>
    BY <1>7, Zenon DEF Joined, Keep
  <2> QED
    BY <2>1
<1>11. CASE Relock
  <2>1. click' \in {"join", "idle"} /\ UNCHANGED <<wire, rx, polls, timer, ht>>
    BY <1>11 DEF Relock, Keep, module, timers
  <2> QED
    BY <2>1
<1>8. CASE CancelPosts \/ Cancel \/ EnterPage \/ LeavePage \/ SendChannel \/ (\E m \in {"B", "W"} : Click(m))
  BY <1>8 DEF CancelPosts, Cancel, EnterPage, LeavePage, SendChannel, Click, Keep,
              module, timers, receiver, clicking
<1>9. CASE SwitchOn \/ SwitchOff
  BY <1>9 DEF SwitchOn, SwitchOff, module, timers, clicking
<1>10. CASE UNCHANGED vars
  BY <1>10 DEF vars, module, timers, receiver, clicking
<1> QED
  BY <1>1, <1>2, <1>3, <1>4, <1>5, <1>6, <1>7, <1>8, <1>9, <1>10, <1>11 DEF Next, Receiver, Clicking, User

\* Such a page meets the hypothesis of the two theorems above in every behaviour.
THEOREM NobodyElse ==
  ASSUME Polls = 0, Radio \subseteq {"channel"}, ~HeadTracks
  PROVE  Spec => []Undisturbed
<1>1. Init => Alone
  BY DEF Init, Alone
<1>2. Alone /\ [Next]_vars => Alone'
  BY AloneStep
<1>3. Alone => Undisturbed
  <2> SUFFICES ASSUME Alone, wire # <<>>
               PROVE  Head(wire) \notin {"query", "status"}
    BY DEF Alone, Undisturbed
  <2>1. Head(wire) \in Answers \cup {"channel"}
    BY DEF Alone
  <2> QED
    BY <2>1 DEF Answers
<1> QED
  BY <1>1, <1>2, <1>3, PTL DEF Spec
-----------------------------------------------------------------------------
(***************************************************************************)
(* One receiver.  enable_esp32 starts one without looking for another and  *)
(* keeps only the last tid; disable_esp32 joins that one (esp32.c:83-105). *)
(***************************************************************************)

\* A receiver listens until a join waits for it, and the join has told it to
\* stop; a timer that will start one finds none.
Listening ==
  /\ rx # "none" /\ click # "join" => ~stopping /\ rx # "ended"
  /\ click = "join" => stopping
  /\ repower => rx = "none"

LEMMA ListeningStep ==
  ASSUME Listening, IInv, [Next]_vars
  PROVE  Listening'
<1> Flags /\ Values /\ Locks /\ Powers
  BY Parts DEF IInv
<1> USE DEF Listening, Powers, Locks, Values, Flags, response, module, setting, clicking, receiver, timers
<1>1. CASE Module \/ User \/ Tracker
  <2>1. CASE SwitchOn
    BY <2>1 DEF SwitchOn, Free
  <2>2. CASE SwitchOff
    BY <2>2 DEF SwitchOff, Free
  <2>3. CASE Module \/ EnterPage \/ LeavePage \/ Cancel \/ Tracker
    <3>1. CASE Module \/ Tracker
      BY <3>1 DEF Module, PeerEndsBinding, RadioCommand, Tracker, TrackerDrains, TrackerWrites
    <3>2. CASE EnterPage \/ LeavePage \/ Cancel
      BY <3>2 DEF EnterPage, LeavePage, Cancel, Free
    <3> QED
      BY <2>3, <3>1, <3>2
  <2>4. CASE SendChannel \/ (\E m \in {"B", "W"} : Click(m))
    BY <2>4 DEF SendChannel, Click, Free, Keep
  <2> QED
    BY <1>1, <2>1, <2>2, <2>3, <2>4 DEF User
<1>2. CASE Receiver \/ LockChannel
  <2>1. CASE StopReceiver
    BY <2>1 DEF StopReceiver, Others
  <2>2. CASE ReadPacket
    BY <2>2 DEF ReadPacket, Others
  <2>3. CASE CopyPayload \/ PostResponse \/ SendReply \/ SwitchChannel \/ LockChannel
    BY <2>3 DEF CopyPayload, PostResponse, SendReply, SwitchChannel, LockChannel, Others
  <2> QED
    BY <1>2, <2>1, <2>2, <2>3 DEF Receiver
<1>3. CASE Joined
  BY <1>3 DEF Joined, PlanRepower, Keep
<1>4. CASE Relock
  BY <1>4 DEF Relock, Keep
<1>5. CASE EnableTimer
  BY <1>5 DEF EnableTimer, TimerRuns, TimerLocks, Rest
<1>6. CASE \/ AskDrains \/ AskWrites \/ ChannelWritten \/ SendMode \/ Await("sent", "waitP") \/ WaitOn
           \/ Started \/ NotStarted \/ Unlock \/ Await("unlocked", "waitO") \/ BindingEnds
  <2>1. UNCHANGED <<rx, stopping, repower>> /\ click # "join" /\ click' # "join"
    BY <1>6 DEF AskDrains, AskWrites, ChannelWritten, SendMode, Await, WaitOn, Started, NotStarted, Unlock,
                BindingEnds, Keep
  <2> QED
    BY <2>1
<1>7. CASE StatusRead \/ StatusMissed \/ TimerDrains \/ TimerWrites \/ CancelPosts \/ UNCHANGED vars
  BY <1>7 DEF StatusRead, StatusMissed, TimerDrains, TimerWrites, CancelPosts, Rest, vars
<1> QED
  BY <1>1, <1>2, <1>3, <1>4, <1>5, <1>6, <1>7 DEF Next, Clicking, Main

LEMMA ListensAtFirst == Init => Listening /\ IInv
<1>1. Init => Listening
  BY DEF Init, Listening
<1> QED
  BY <1>1, Initial

\* However clicks, cancellations, timers and the radio interleave: a receiver
\* that runs has not been told to stop, unless somebody waits to join it.
THEOREM ReceiverListens == Spec => []Listening
<1>1. Listening /\ IInv /\ [Next]_vars => Listening' /\ IInv'
  BY ListeningStep, Inductive
<1> QED
  BY <1>1, ListensAtFirst, PTL DEF Spec

\* A receiver is started only when there is none: POS_PWR and the timer that
\* powers a cancelled module again never start a second one.
OneReceiver == [][SwitchOn \/ EnableTimer => rx = "none"]_vars

THEOREM NeverTwo == Spec => OneReceiver
<1>1. Listening /\ IInv /\ [Next]_vars => Listening' /\ IInv'
  BY ListeningStep, Inductive
<1>2. Listening /\ IInv => (SwitchOn \/ EnableTimer => rx = "none")
  BY DEF Listening, IInv, Powers, SwitchOn, EnableTimer, Free
<1> QED
  BY <1>1, <1>2, ListensAtFirst, PTL DEF Spec, OneReceiver

\* disable_esp32 holds lvgl_mutex while it joins a receiver that may wait for
\* lvgl_mutex to switch the channel: the only way for a join not to end.
StuckOnlyBySwitch ==
  click = "join" /\ rx \notin {"ended", "none"} =>
    stopping /\ rx # "switch" /\ (rx = "lock" => "channel" \in Radio)

LEMMA LockedByChannel ==
  ASSUME IInv, rx = "lock" => "channel" \in Radio, [Next]_vars
  PROVE  (rx = "lock" => "channel" \in Radio)'
<1> SUFFICES ASSUME rx # "lock", rx' = "lock" PROVE "channel" \in Radio
  OBVIOUS
<1>1. ReadPacket
  <2>1. /\ ~Module /\ ~CopyPayload /\ ~PostResponse /\ ~SendReply /\ ~SwitchChannel /\ ~StopReceiver
        /\ ~LockChannel /\ ~SwitchOn /\ ~SwitchOff /\ ~EnterPage /\ ~LeavePage /\ ~Cancel /\ ~Tracker
        /\ ~SendChannel /\ ~(\E m \in {"B", "W"} : Click(m))
    BY DEF Module, PeerEndsBinding, RadioCommand, CopyPayload, PostResponse, SendReply, SwitchChannel,
       StopReceiver, LockChannel, SwitchOn, SwitchOff, EnterPage, LeavePage, Cancel, Tracker, TrackerDrains,
       TrackerWrites, SendChannel, Click, Free, Keep, Others, receiver
  <2>2. ~Clicking /\ ~Relock /\ ~CancelPosts
    BY DEF Clicking, AskDrains, AskWrites, ChannelWritten, SendMode, Await, WaitOn, Started, NotStarted,
       Unlock, BindingEnds, Joined, Relock, CancelPosts, Keep, receiver
  <2>3. ~Main /\ ~UNCHANGED vars
    BY DEF Main, StatusRead, StatusMissed, TimerDrains, TimerWrites, EnableTimer, Rest, receiver, vars
  <2> QED
    BY <2>1, <2>2, <2>3 DEF Next, Receiver, User
<1>2. Head(wire) = "channel" /\ wire # <<>>
  BY <1>1 DEF ReadPacket
<1>3. wire \in Seq(Packets)
  BY Parts DEF IInv, Wire
<1>4. "channel" \in Packets
  BY <1>2, <1>3
<1> QED
  BY <1>4 DEF Packets, Answers

\* Without such a command of the radio every join of the receiver ends as soon
\* as the receiver has finished what it does; with one it may be for ever.
THEOREM JoinEnds == Spec => []StuckOnlyBySwitch
<1>1. Init => Listening /\ IInv /\ (rx = "lock" => "channel" \in Radio)
  BY ListensAtFirst DEF Init
<1>2. Listening /\ IInv /\ (rx = "lock" => "channel" \in Radio) /\ [Next]_vars =>
        Listening' /\ IInv' /\ (rx = "lock" => "channel" \in Radio)'
  BY ListeningStep, Inductive, LockedByChannel
<1>3. Listening /\ IInv /\ (rx = "lock" => "channel" \in Radio) => StuckOnlyBySwitch
  <2> SUFFICES ASSUME Listening, IInv, rx = "lock" => "channel" \in Radio PROVE StuckOnlyBySwitch
    OBVIOUS
  <2>1. Locks
    BY Parts DEF IInv
  <2> QED
    BY <2>1 DEF Listening, Locks, StuckOnlyBySwitch
<1> QED
  BY <1>1, <1>2, <1>3, PTL DEF Spec
=============================================================================
