-------------------------- MODULE RecorderService --------------------------
(***************************************************************************)
(* What the record process promises to the other processes: it takes       *)
(* commands from its queue one at a time, records only when the last one   *)
(* asked for it, has stopped before it takes the command after a STOP, and *)
(* tells the world in record.dat.  How it records is left out; Recorder    *)
(* implements this specification, and Dvr is built on it.                  *)
(***************************************************************************)
EXTENDS Naturals, Sequences

CONSTANTS MaxMsgs,   \* bound of the model: messages waiting in the queue
          Commands   \* the commands other processes send

VARIABLES
  msgs,   \* the message queue MTYPE_RECORD
  go,     \* what was asked for: "Idle", "Run" or "Stop"
  on,     \* is a recording going on?
  dat,    \* what record.dat says: "Run", "Other", or "Empty" while rewritten
  up      \* is the process alive?

recorder == <<msgs, go, on, dat, up>>

Init ==
  /\ msgs = <<>> /\ go = "Idle" /\ on = FALSE /\ dat = "Other" /\ up = TRUE

\* The status is rewritten in two steps.
Rewrite == dat' = "Empty" \/ UNCHANGED dat

Send(c) ==
  /\ Len(msgs) < MaxMsgs
  /\ msgs' = Append(msgs, c)
  /\ UNCHANGED <<go, on, dat, up>>

\* A command is taken only when an earlier STOP has had its effect.
Take(c) ==
  /\ up /\ dat # "Empty"
  /\ go = "Stop" => ~on
  /\ msgs # <<>> /\ Head(msgs) = c
  /\ msgs' = IF c = "QUIT" THEN <<>> ELSE Tail(msgs)
  /\ go' = CASE c = "START" -> "Run"
             [] c \in {"STOP", "STOPL"} -> "Stop"
             [] OTHER -> go
  /\ Rewrite
  /\ UNCHANGED <<on, up>>

Start ==
  /\ up /\ go = "Run" /\ ~on /\ dat # "Empty"
  /\ on' = TRUE
  /\ dat' = "Empty"
  /\ UNCHANGED <<msgs, go, up>>

\* A recording ends on a STOP or a QUIT, or by itself: no card, card full.
Stop ==
  /\ up /\ on /\ dat # "Empty"
  /\ on' = FALSE
  /\ dat' = "Empty" \/ (dat = "Other" /\ UNCHANGED dat)
  /\ UNCHANGED <<msgs, go, up>>

\* Something else becomes the status: no frames, no card, a failed start.
Note ==
  /\ up /\ dat # "Empty"
  /\ dat' = "Empty"
  /\ UNCHANGED <<msgs, go, on, up>>

Write ==
  /\ up /\ dat = "Empty"
  /\ dat' = "Other" \/ (on /\ dat' = "Run")
  /\ UNCHANGED <<msgs, go, on, up>>

\* The process ends, after a QUIT or without one; record.dat stays behind.
Die ==
  /\ up
  /\ up' = FALSE /\ on' = FALSE
  /\ UNCHANGED <<msgs, go, dat>>

Restart ==
  /\ ~up
  /\ up' = TRUE /\ go' = "Idle" /\ dat' = "Other"
  /\ msgs' = IF msgs = <<>> THEN <<>> ELSE Tail(msgs)
  /\ UNCHANGED on

Work == Start \/ Stop \/ Note \/ Write \/ (\E c \in Commands : Take(c))

Next == Work \/ Die \/ Restart \/ \E c \in Commands : Send(c)

Spec == Init /\ [][Next]_recorder
-----------------------------------------------------------------------------
\* record.dat says Run only while a recording goes on, unless it is what a
\* process left behind that died.
RunIsTrue == up /\ dat = "Run" => on
=============================================================================
