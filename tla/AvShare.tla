------------------------------- MODULE AvShare ------------------------------
(***************************************************************************)
(* The ring in shared memory through which the record process hands the    *)
(* live video to rtspLive: src/src/record/avshare.c (the writer, fed by    *)
(* vvLive_onFrame in the thread of the encoder and watched by live_run in  *)
(* the main thread of record) and src/src/rtspLive/stream/avshare.c (the   *)
(* reader, which is started and stopped as viewers come and go).           *)
(*                                                                         *)
(* A slot is "full" when its wflag is 0.  A part of a frame that fills a   *)
(* slot is two units, which are numbered as the encoder makes them; the    *)
(* buffer of the reader may end in the middle of a slot.  An I frame is    *)
(* two parts, every other frame is one.                                    *)
(***************************************************************************)
EXTENDS Naturals, Sequences

CONSTANTS Slots,    \* SHAREBUF_COUNT
          MaxUnits, \* bound of the model: units the encoder makes
          MaxVisits \* bound of the model: how often the reader connects

ASSUME AvShareAssumption == Slots \in Nat \ {0} /\ {MaxUnits, MaxVisits} \subseteq Nat

VARIABLES
  connected, \* the connect byte of the video
  full,      \* full[i]: wflag of slot i is 0
  data,      \* data[i]: the part in slot i
  made,      \* units the encoder has made
  encoding,  \* is the live encoder running?
  first,     \* nbFramesLive = 0
  fed,       \* has the encoder made a frame since it was started?
  todo,      \* what the callback of the encoder still has to add
  adding,    \* where the callback is in avshare_add: "idle", "check" or "copy"
  head,      \* the slot it has found writable
  next,      \* idxNext of the writer
  dropped,   \* iDropped > 0
  main,      \* what the main thread is about: "idle", "starting" or "stopping"
  reader,    \* what the reader does
  visits,    \* how often it has connected
  cur, off,  \* where it is in avshare_readFrame: slot and unit of the slot
  seen,      \* slots it has found empty
  from, pos, \* its idxNext and posNext
  read,      \* history: what it has copied last, and after what
  heard,     \* history: every unit it has copied
  starts,    \* history: the units before which an I frame or its SPS begins
  fresh,     \* history: has it copied nothing during this visit?
  settled,   \* history: has record noticed the end of each visit before the
             \* next one?
  overtaken  \* history: was a slot filled while the reader looked for one?

ring    == <<connected, full, data>>
encoder == <<made, encoding, first, fed, todo>>
writer  == <<adding, head, next, dropped>>
place   == <<cur, off, seen, from, pos>>
history == <<read, heard, starts, fresh>>
timing  == <<settled, overtaken>>
vars == <<ring, encoder, writer, main, reader, visits, place, history, timing>>

Slot == 0..(Slots - 1)
Succ(i) == (i + 1) % Slots

\* A part of a frame: how many units were made before it, and whether it is
\* the beginning of an I frame.
Part(u, k) == [after |-> u, key |-> k]

Init ==
  /\ connected = FALSE
  /\ full = [i \in Slot |-> FALSE] /\ data = [i \in Slot |-> Part(0, FALSE)]
  /\ made = 0 /\ encoding = FALSE /\ first = TRUE /\ fed = FALSE /\ todo = <<>>
  /\ adding = "idle" /\ head = 0 /\ next = 0 /\ dropped = FALSE
  /\ main = "idle"
  /\ reader = "off" /\ visits = 0
  /\ cur = 0 /\ off = 0 /\ seen = 0 /\ from = 0 /\ pos = 0
  /\ read = [last |-> 0, after |-> 0, upto |-> 0, key |-> FALSE, new |-> TRUE]
  /\ fresh = TRUE /\ settled = TRUE /\ overtaken = FALSE
  /\ heard = {} /\ starts = {}
-----------------------------------------------------------------------------
(* The main thread of record: live_run                                     *)

\* live_start: the encoder runs, nbFramesLive is not yet reset.
LiveStart ==
  /\ connected /\ ~encoding /\ main = "idle"
  /\ encoding' = TRUE /\ fed' = FALSE /\ main' = "starting"
  /\ UNCHANGED <<ring, made, first, todo, writer, reader, visits, place, history, timing>>

LiveReset ==
  /\ main = "starting"
  /\ main' = "idle" /\ first' = TRUE
  /\ UNCHANGED <<ring, made, encoding, fed, todo, writer, reader, visits, place, history, timing>>

\* avshare_connected, which is false, and live_stop
LiveStop ==
  /\ ~connected /\ main = "idle"
  /\ next' = 0
  /\ main' = IF encoding THEN "stopping" ELSE "idle"
  /\ UNCHANGED <<ring, encoder, adding, head, dropped, reader, visits, place, history, timing>>

\* vi2venc_stop has joined the thread of the encoder.
LiveStopped ==
  /\ main = "stopping" /\ todo = <<>>
  /\ main' = "idle" /\ encoding' = FALSE
  /\ UNCHANGED <<ring, made, first, fed, todo, writer, reader, visits, place, history, timing>>
-----------------------------------------------------------------------------
(* The thread of the encoder: vvLive_onFrame, avshare_addvid, avshare_add  *)

FrameI(u) == [type |-> "I", parts |-> <<Part(u, TRUE), Part(u + 2, FALSE)>>]
Frame1(type, u) == [type |-> type, parts |-> <<Part(u, FALSE)>>]

\* vvLive_onFrame: an I frame comes with its SPS, and the first frame is one;
\* so is, whatever nbFramesLive is, that of a new encoder.
OnFrame ==
  /\ encoding /\ todo = <<>>
  /\ fed' = TRUE
  /\ \/ /\ made + 6 <= MaxUnits
        /\ todo' = <<Frame1("SPS", made), FrameI(made + 2)>> /\ made' = made + 6
        /\ starts' = starts \cup {made, made + 2}
     \/ /\ fed /\ ~first /\ made + 2 <= MaxUnits
        /\ todo' = <<Frame1("P", made)>> /\ made' = made + 2
        /\ UNCHANGED starts
  /\ UNCHANGED <<ring, encoding, first, writer, main, reader, visits, place, read, heard, fresh, timing>>

\* The callback goes on; at its end it has counted the frame.
Goes == first' = (first /\ todo' # <<>>)

\* Mutant: a frame is added although the one before it did not fit.
AddVid_anyway ==
  /\ todo # <<>> /\ adding = "idle"
  /\ dropped' = FALSE /\ adding' = "check" /\ UNCHANGED todo
  /\ Goes
  /\ UNCHANGED <<ring, made, encoding, fed, head, next, main, reader, visits, place, history, timing>>

\* avshare_addvid: after a full ring only an I frame is added.
AddVid ==
  /\ todo # <<>> /\ adding = "idle"
  /\ IF dropped /\ todo[1].type # "I"
       THEN todo' = Tail(todo) /\ UNCHANGED <<dropped, adding>>
       ELSE dropped' = FALSE /\ adding' = "check" /\ UNCHANGED todo
  /\ Goes
  /\ UNCHANGED <<ring, made, encoding, fed, head, next, main, reader, visits, place, history, timing>>

AddPart ==
  /\ adding = "check"
  /\ \/ /\ ~connected                                       \* return -3
        /\ next' = 0 /\ todo' = Tail(todo) /\ adding' = "idle"
        /\ UNCHANGED <<head, dropped>>
     \/ /\ connected /\ full[next]                          \* return 1
        /\ dropped' = TRUE /\ todo' = Tail(todo) /\ adding' = "idle"
        /\ UNCHANGED <<head, next>>
     \/ /\ connected /\ ~full[next]
        /\ head' = next /\ adding' = "copy"
        /\ UNCHANGED <<next, todo, dropped>>
  /\ Goes
  /\ UNCHANGED <<ring, made, encoding, fed, main, reader, visits, place, history, timing>>

\* What is left of the frame once its first part is written
Written ==
  LET rest == Tail(todo[1].parts)
  IN /\ head' = 0
     /\ IF rest = <<>> THEN todo' = Tail(todo) /\ adding' = "idle"
                       ELSE todo' = [todo EXCEPT ![1].parts = rest] /\ adding' = "check"

\* Is the reader in the middle of its search?
Overtakes == overtaken' = (overtaken \/ reader = "scan")

\* Mutant: the flag is set, but the data of the slot is copied later.
CopyPart_flagOnly ==
  /\ adding = "copy"
  /\ full' = [full EXCEPT ![head] = TRUE]
  /\ next' = Succ(next)
  /\ Written /\ Goes /\ Overtakes
  /\ UNCHANGED <<connected, data, made, encoding, fed, dropped, main, reader, visits, place, history, settled>>

\* The flag belongs to the slot that has been found writable; the data goes
\* to idxNext, which live_run may have reset since.
CopyPart ==
  /\ adding = "copy"
  /\ data' = [data EXCEPT ![next] = todo[1].parts[1]]
  /\ full' = [full EXCEPT ![head] = TRUE]
  /\ next' = Succ(next)
  /\ Written /\ Goes /\ Overtakes
  /\ UNCHANGED <<connected, made, encoding, fed, dropped, main, reader, visits, place, history, settled>>
-----------------------------------------------------------------------------
(* rtspLive: avshare_start, avshare_stop                                   *)

Record == UNCHANGED <<encoder, writer, main>>

\* Mutant: the flags of the slots are left as they are.
Attach_keepsFlags ==
  /\ reader = "off" /\ visits < MaxVisits
  /\ visits' = visits + 1
  /\ connected' = FALSE
  /\ from' = 0 /\ pos' = 0
  /\ reader' = "attached"
  /\ settled' = (settled /\ ~encoding /\ main = "idle" /\ next = 0)
  /\ UNCHANGED <<full, data, cur, off, seen, history, overtaken>>
  /\ Record

Attach ==
  /\ reader = "off" /\ visits < MaxVisits
  /\ visits' = visits + 1
  /\ connected' = FALSE /\ full' = [i \in Slot |-> FALSE]
  /\ from' = 0 /\ pos' = 0
  /\ reader' = "attached"
  /\ settled' = (settled /\ ~encoding /\ main = "idle" /\ next = 0)
  /\ UNCHANGED <<data, cur, off, seen, history, overtaken>>
  /\ Record

\* avshare_connect; the index it resets is that of the audio.
Connect ==
  /\ reader = "attached"
  /\ connected' = TRUE /\ reader' = "on"
  /\ fresh' = TRUE
  /\ UNCHANGED <<full, data, visits, place, read, heard, starts>>
  /\ Record /\ UNCHANGED timing

Disconnect ==
  /\ reader = "on"
  /\ connected' = FALSE /\ reader' = "wait"
  /\ UNCHANGED <<full, data, visits, place, history>>
  /\ Record /\ UNCHANGED timing

\* After its wait avshare_disconnect sets the flags of the audio.
Cleared ==
  /\ reader = "wait"
  /\ reader' = "cleared"
  /\ UNCHANGED <<ring, visits, place, history>>
  /\ Record /\ UNCHANGED timing

Detach ==
  /\ reader = "cleared"
  /\ reader' = "off"
  /\ UNCHANGED <<ring, visits, place, history>>
  /\ Record /\ UNCHANGED timing
-----------------------------------------------------------------------------
(* avshare_readFrame                                                       *)

Copying(i, u) == cur' = i /\ off' = u /\ seen' = 0 /\ reader' = "copy"

\* The slot where the last call ended, or a search for the next full one
ReadFrame ==
  /\ reader = "on"
  /\ \/ full[from] /\ Copying(from, pos)
     \/ ~full[from] /\ cur' = from /\ reader' = "scan" /\ UNCHANGED <<off, seen>>
  /\ UNCHANGED <<ring, visits, from, pos, history>>
  /\ Record /\ UNCHANGED timing

\* avshare_readFrame returns: the next call begins at unit u of slot i.
Returns(i, u) ==
  /\ from' = i /\ pos' = u /\ reader' = "on"
  /\ cur' = 0 /\ off' = 0 /\ seen' = 0

\* The search, one slot at a time
Scan ==
  /\ reader = "scan"
  /\ \/ seen < Slots /\ full[Succ(cur)] /\ Copying(Succ(cur), 0) /\ UNCHANGED <<from, pos>>
     \/ /\ seen < Slots /\ ~full[Succ(cur)]
        /\ cur' = Succ(cur) /\ seen' = seen + 1
        /\ UNCHANGED <<off, from, pos, reader>>
     \/ seen = Slots /\ Returns(cur, 0)
  /\ UNCHANGED <<ring, visits, history>>
  /\ Record /\ UNCHANGED timing

\* The units of slot cur from off on, up to the given one, are copied.
Copies(upto) ==
  LET a == data[cur].after
  IN /\ read' = [last |-> read.upto, after |-> a + off, upto |-> a + upto,
                 key |-> data[cur].key /\ off = 0, new |-> fresh]
     /\ heard' = heard \cup {a + n : n \in (off + 1)..upto}
     /\ fresh' = FALSE /\ UNCHANGED starts

\* Mutant: where the buffer has ended is not remembered.
Stops_atStart(u) == Returns(cur, 0)

\* The buffer ends before the slot does.
Stops(u) == Returns(cur, u)

\* A slot is copied to its end and freed, and the next one is looked at; or
\* the buffer ends.
CopySlot ==
  /\ reader = "copy"
  /\ \/ /\ Copies(2)
        /\ full' = [full EXCEPT ![cur] = FALSE]
        /\ \/ full'[Succ(cur)] /\ Copying(Succ(cur), 0) /\ UNCHANGED <<from, pos>>
           \/ ~full'[Succ(cur)] /\ Returns(Succ(cur), 0)
     \/ off = 0 /\ Copies(1) /\ Stops(1) /\ UNCHANGED full
     \/ Stops(off) /\ UNCHANGED <<full, history>>
  /\ UNCHANGED <<connected, data, visits>>
  /\ Record /\ UNCHANGED timing
-----------------------------------------------------------------------------
RecordProcess ==
  LiveStart \/ LiveReset \/ LiveStop \/ LiveStopped \/ OnFrame \/ AddVid \/ AddPart \/ CopyPart
RtspLive ==
  Attach \/ Connect \/ Disconnect \/ Cleared \/ Detach \/ ReadFrame \/ Scan \/ CopySlot

Next == RecordProcess \/ RtspLive

Spec == Init /\ [][Next]_vars
-----------------------------------------------------------------------------
Parts == [after : 0..MaxUnits, key : BOOLEAN]

\* The values of the variables; every index is that of a slot.
TypeOK ==
  /\ connected \in BOOLEAN /\ full \in [Slot -> BOOLEAN] /\ data \in [Slot -> Parts]
  /\ made \in 0..MaxUnits /\ encoding \in BOOLEAN /\ first \in BOOLEAN /\ fed \in BOOLEAN
  /\ todo \in Seq([type : {"SPS", "I", "P"}, parts : Seq(Parts)])
  /\ \A n \in 1..Len(todo) : todo[n].parts # <<>>
  /\ adding \in {"idle", "check", "copy"} /\ adding # "idle" => todo # <<>>
  /\ head \in Slot /\ next \in Slot /\ dropped \in BOOLEAN /\ main \in {"idle", "starting", "stopping"}
  /\ reader \in {"off", "attached", "on", "scan", "copy", "wait", "cleared"}
  /\ visits \in 0..MaxVisits
  /\ cur \in Slot /\ off \in {0, 1} /\ seen \in 0..Slots /\ from \in Slot /\ pos \in {0, 1}
  /\ read \in [last : 0..MaxUnits, after : 0..MaxUnits, upto : 0..MaxUnits,
               key : BOOLEAN, new : BOOLEAN]
  /\ fresh \in BOOLEAN /\ {settled, overtaken} \subseteq BOOLEAN
  /\ heard \subseteq 1..MaxUnits /\ starts \subseteq 0..MaxUnits

\* With viewers that do not come back too soon, and a reader that is not
\* overtaken in its search, the video comes in the order in which it was made
\* (src/src/record/avshare.c:208-268, 453-458; line 127 wants "the order in
\* which rtspServer reads" to be right).
SettledInOrder == settled /\ ~overtaken => read.last <= read.after

\* During a visit, what follows a gap is the beginning of an I frame: a frame
\* that does not fit takes with it those that depend on it
\* (record/avshare.c:330-343).
GapsAtKeys == settled /\ ~overtaken => read.new \/ read.key \/ read.after = read.last

\* What a visit begins with is an I frame or its SPS, though the encoder has
\* run before nbFramesLive is reset, and may have dropped the SPS for what an
\* earlier visit has left undone (record/main.c:643, 799-805,
\* record/avshare.c:329).
StartsDecodable ==
  settled /\ ~overtaken /\ heard # {} /\ read.new => read.after \in starts

\* No part of the video is handed out twice, even if the reader is overtaken
\* between any two slots, to viewers that do not come back too soon
\* (rtspLive/stream/avshare.c:415-487).
DeliveredOnce ==
  [][settled /\ read' # read => heard \cap ((read'.after + 1)..read'.upto) = {}]_vars
=============================================================================
