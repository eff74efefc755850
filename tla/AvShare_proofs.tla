--------------------------- MODULE AvShare_proofs ---------------------------
(* Theorems about the ring of the live video, for any number of slots, of  *)
(* units and of visits.                                                    *)
EXTENDS AvShare, SequenceTheorems, TLAPS

\* What the callback of the encoder has still to add: the rest of an I frame
\* with its SPS, or a P frame.
Frames ==
  \/ todo = <<>> /\ adding = "idle"
  \/ \E u \in 0..made :
       \/ made = u + 6 /\ todo = <<Frame1("SPS", u), FrameI(u + 2)>>
       \/ made = u + 4 /\ todo = <<FrameI(u)>>
       \/ made = u + 2 /\ todo = <<Frame1("I", u)>> /\ adding # "idle"
       \/ made = u + 2 /\ todo = <<Frame1("P", u)>>

\* The first unit that is not in a slot yet, and does it begin an I frame?
Base == IF todo = <<>> THEN made ELSE todo[1].parts[1].after
KeyNext == todo # <<>> /\ todo[1].parts[1].key

\* The reader is connected while it reads.  The encoder has something to add
\* only while it runs.  A visit that is settled begins with an empty ring and
\* no encoder.
Control ==
  /\ connected <=> reader \in {"on", "scan", "copy"}
  /\ todo # <<>> => encoding
  /\ reader = "attached" => from = 0 /\ pos = 0
  /\ reader = "attached" /\ settled => ~encoding /\ main = "idle" /\ next = 0 /\ \A i \in Slot : ~full[i]
  /\ main # "idle" => encoding
  /\ reader # "scan" => seen = 0

\* What is in the slots has been made.
Contents ==
  /\ \A i \in Slot : data[i].after \in Nat
  /\ \A i \in Slot : data[i].after = 0 \/ data[i].after + 2 <= made
  /\ (\E i \in Slot : full[i]) \/ reader = "copy" => 2 <= made

\* Where the reader is, and has it copied half of the slot?
Place == IF reader = "copy" THEN cur ELSE from
Half == IF reader = "copy" THEN off = 1 ELSE pos = 1

\* A full slot holds what has not been copied, and nothing that another
\* holds or that is still to be added.
Once ==
  settled /\ connected =>
    /\ heard \subseteq 1..Base
    /\ \A i \in Slot : full[i] =>
         /\ data[i].after + 2 <= Base
         /\ data[i].after + 2 \notin heard
         /\ data[i].after + 1 \in heard => i = Place /\ Half
         /\ \A j \in Slot \ {i} : full[j] =>
              data[i].after + 2 <= data[j].after \/ data[j].after + 2 <= data[i].after
    /\ adding = "copy" => head = next /\ ~full[next]
    /\ reader = "copy" \/ Half => full[Place]
    /\ reader = "scan" => ~Half

\* How far slot i is ahead of slot p.
Dist(p, i) == IF p <= i THEN i - p ELSE i + Slots - p

\* Unless the reader has been overtaken, the full slots are those from where
\* it is to where the writer is, and what is in them is in order.
InRow ==
  settled /\ connected /\ ~overtaken =>
    /\ \A i \in Slot : full[i] <=> (full[Place] /\ next = Place) \/ Dist(Place, i) < Dist(Place, next)
    /\ \A i, j \in Slot : full[i] /\ full[j] /\ Dist(Place, i) < Dist(Place, j) =>
         data[i].after + 2 <= data[j].after
    /\ read.upto <= Base
    /\ \A i \in Slot : full[i] => read.upto <= data[i].after + (IF i = Place /\ Half THEN 1 ELSE 0)
    /\ reader = "scan" => /\ \A i \in Slot : ~full[i]
                          /\ seen = IF cur = from /\ seen # 0 THEN Slots ELSE Dist(from, cur)

\* And what is missing between two of them, or between the last and what is
\* added next, is followed by the beginning of an I frame.
Keyed ==
  settled /\ connected /\ ~overtaken =>
    /\ adding # "idle" => ~dropped
    /\ \A i \in Slot : full[i] /\ full[Succ(i)] /\ Succ(i) # Place =>
         data[Succ(i)].key \/ data[Succ(i)].after = data[i].after + 2
    /\ full[Place] => \/ fresh /\ ~Half
                      \/ data[Place].key /\ ~Half
                      \/ read.upto = data[Place].after + (IF Half THEN 1 ELSE 0)
    /\ \/ dropped \/ KeyNext
       \/ (\E i \in Slot : full[i]) /\ \A i \in Slot : full[i] /\ Succ(i) = next => data[i].after + 2 = Base
       \/ (\A i \in Slot : ~full[i]) /\ (fresh \/ read.upto = Base)

\* Until a visit has copied something, what it will begin with is an I frame
\* or its SPS: it is in the ring, or added to it next, or not yet made.
FreshStart ==
  settled /\ connected /\ ~overtaken /\ fresh =>
    /\ ~Half
    /\ full[Place] => data[Place].after \in starts
    /\ (\A i \in Slot : ~full[i]) =>
         IF todo = <<>> THEN encoding => ~fed
         ELSE /\ todo[1].type \in {"SPS", "I"}
              /\ Base \in starts /\ (todo[1].type = "SPS" => Base + 2 \in starts)
-----------------------------------------------------------------------------
\* What the assumption says of each constant
LEMMA SlotsType == Slots \in Nat \ {0} /\ MaxUnits \in Nat /\ MaxVisits \in Nat
  BY AvShareAssumption

\* The next slot, without the division
LEMMA SuccIs ==
  ASSUME NEW i \in Slot
  PROVE  Succ(i) = (IF i = Slots - 1 THEN 0 ELSE i + 1) /\ Succ(i) \in Slot
<1>1. CASE i = Slots - 1
  BY SlotsType, <1>1 DEF Succ, Slot
<1>2. CASE i # Slots - 1
  BY SlotsType, <1>2 DEF Succ, Slot
<1> QED
  BY <1>1, <1>2

\* Short sequences and records
LEMMA Tuples ==
  /\ \A x : <<x>> # <<>> /\ <<x>>[1] = x /\ Head(<<x>>) = x /\ Tail(<<x>>) = <<>>
  /\ \A x, y : <<x, y>> # <<>> /\ <<x, y>>[1] = x /\ Tail(<<x, y>>) = <<y>>
  OBVIOUS

\* The only element of a sequence replaced
LEMMA ExceptFirst == ASSUME NEW x, NEW y PROVE [<<x>> EXCEPT ![1] = y] = <<y>>
<1>1. <<x>> \in Seq({x, y}) /\ <<y>> \in Seq({x, y})
  OBVIOUS
<1>2. /\ [<<x>> EXCEPT ![1] = y] \in Seq({x, y}) /\ Len([<<x>> EXCEPT ![1] = y]) = 1
      /\ [<<x>> EXCEPT ![1] = y][1] = y
  BY <1>1, ExceptSeq
<1> QED
  BY <1>1, <1>2, SeqEqual

\* The parts of a frame replaced
LEMMA ExceptParts ==
  ASSUME NEW a, NEW b, NEW c
  PROVE  [[type |-> a, parts |-> b] EXCEPT !.parts = c] = [type |-> a, parts |-> c]
  OBVIOUS

\* The parts of the frames
LEMMA FrameParts ==
  ASSUME NEW u, NEW t
  PROVE  /\ FrameI(u).parts = <<Part(u, TRUE), Part(u + 2, FALSE)>> /\ FrameI(u).type = "I"
         /\ Frame1(t, u).type = t
         /\ Part(u, TRUE).after = u /\ Part(u, FALSE).after = u
         /\ Part(u, TRUE).key = TRUE /\ Part(u, FALSE).key = FALSE
  BY DEF FrameI, Frame1, Part

\* A frame that is not an I frame, or the rest of one, is one part.
LEMMA OnePart == ASSUME NEW t, NEW u PROVE Frame1(t, u).parts = <<Part(u, FALSE)>>
  BY DEF Frame1

\* What is left of an I frame whose first part is written
LEMMA RestOfI ==
  ASSUME NEW u
  PROVE  [<<FrameI(u)>> EXCEPT ![1].parts = <<Part(u + 2, FALSE)>>] = <<Frame1("I", u + 2)>>
<1>1. [<<FrameI(u)>> EXCEPT ![1].parts = <<Part(u + 2, FALSE)>>]
        = [<<FrameI(u)>> EXCEPT ![1] = [FrameI(u) EXCEPT !.parts = <<Part(u + 2, FALSE)>>]]
  OBVIOUS
<1>2. [FrameI(u) EXCEPT !.parts = <<Part(u + 2, FALSE)>>] = Frame1("I", u + 2)
  BY ExceptParts, Zenon DEF FrameI, Frame1
<1> QED
  BY <1>1, <1>2, ExceptFirst, Zenon

\* The first part of an I frame
LEMMA FirstOfI ==
  ASSUME NEW u, NEW q, q = <<FrameI(u)>>
  PROVE  q # <<>> /\ q[1].parts[1].after = u
<1>1. q # <<>> /\ q[1] = FrameI(u)
  BY Tuples, Zenon
<1>2. q[1].parts = <<Part(u, TRUE), Part(u + 2, FALSE)>>
  BY <1>1, FrameParts, Zenon
<1>3. q[1].parts[1] = Part(u, TRUE)
  BY <1>2, Tuples, Zenon
<1> QED
  BY <1>1, <1>3, FrameParts, Zenon

\* The frame that is being added, by cases
LEMMA FrameCases ==
  ASSUME Frames, todo # <<>>, made \in Nat
  PROVE  \E u \in Nat :
           /\ Base = u
           /\ \/ /\ made = u + 6 /\ todo = <<Frame1("SPS", u), FrameI(u + 2)>>
                 /\ todo[1].type = "SPS" /\ todo[1].parts = <<Part(u, FALSE)>> /\ Tail(todo) = <<FrameI(u + 2)>>
              \/ /\ made = u + 4 /\ todo = <<FrameI(u)>> /\ todo[1].type = "I"
                 /\ todo[1].parts = <<Part(u, TRUE), Part(u + 2, FALSE)>> /\ Tail(todo) = <<>>
              \/ /\ made = u + 2 /\ todo = <<Frame1("I", u)>> /\ todo[1].type = "I" /\ adding # "idle"
                 /\ todo[1].parts = <<Part(u, FALSE)>> /\ Tail(todo) = <<>>
              \/ /\ made = u + 2 /\ todo = <<Frame1("P", u)>> /\ todo[1].type = "P"
                 /\ todo[1].parts = <<Part(u, FALSE)>> /\ Tail(todo) = <<>>
<1>1. PICK u \in 0..made :
        \/ made = u + 6 /\ todo = <<Frame1("SPS", u), FrameI(u + 2)>>
        \/ made = u + 4 /\ todo = <<FrameI(u)>>
        \/ made = u + 2 /\ todo = <<Frame1("I", u)>> /\ adding # "idle"
        \/ made = u + 2 /\ todo = <<Frame1("P", u)>>
  BY DEF Frames
<1>2. u \in Nat
  BY <1>1
<1>3. CASE made = u + 6 /\ todo = <<Frame1("SPS", u), FrameI(u + 2)>>
  <2>1. todo[1] = Frame1("SPS", u) /\ Tail(todo) = <<FrameI(u + 2)>>
    BY <1>3, Tuples, Zenon
  <2>2. todo[1].parts = <<Part(u, FALSE)>>
    BY <2>1, OnePart, Zenon
  <2>3. todo[1].parts[1] = Part(u, FALSE)
    BY <2>2, Tuples, Zenon
  <2>4. Base = u
    BY <2>3, FrameParts, Zenon DEF Base
  <2>5. todo[1].type = "SPS"
    BY <2>1 DEF FrameI, Frame1
  <2> QED
    BY <1>2, <1>3, <2>1, <2>2, <2>4, <2>5, Zenon
<1>4. CASE made = u + 4 /\ todo = <<FrameI(u)>>
  <2>1. todo[1] = FrameI(u) /\ Tail(todo) = <<>>
    BY <1>4, Tuples, Zenon
  <2>2. todo[1].parts = <<Part(u, TRUE), Part(u + 2, FALSE)>>
    BY <2>1, FrameParts, Zenon
  <2>3. todo[1].parts[1] = Part(u, TRUE)
    BY <2>2, Tuples, Zenon
  <2>4. Base = u
    BY <2>3, FrameParts, Zenon DEF Base
  <2>5. todo[1].type = "I"
    BY <2>1 DEF FrameI, Frame1
  <2> QED
    BY <1>2, <1>4, <2>1, <2>2, <2>4, <2>5, Zenon
<1>5. CASE made = u + 2 /\ todo = <<Frame1("I", u)>> /\ adding # "idle"
  <2>1. todo[1] = Frame1("I", u) /\ Tail(todo) = <<>>
    BY <1>5, Tuples, Zenon
  <2>2. todo[1].parts = <<Part(u, FALSE)>>
    BY <2>1, OnePart, Zenon
  <2>3. todo[1].parts[1] = Part(u, FALSE)
    BY <2>2, Tuples, Zenon
  <2>4. Base = u
    BY <2>3, FrameParts, Zenon DEF Base
  <2>5. todo[1].type = "I"
    BY <2>1 DEF FrameI, Frame1
  <2> QED
    BY <1>2, <1>5, <2>1, <2>2, <2>4, <2>5, Zenon
<1>6. CASE made = u + 2 /\ todo = <<Frame1("P", u)>>
  <2>1. todo[1] = Frame1("P", u) /\ Tail(todo) = <<>>
    BY <1>6, Tuples, Zenon
  <2>2. todo[1].parts = <<Part(u, FALSE)>>
    BY <2>1, OnePart, Zenon
  <2>3. todo[1].parts[1] = Part(u, FALSE)
    BY <2>2, Tuples, Zenon
  <2>4. Base = u
    BY <2>3, FrameParts, Zenon DEF Base
  <2>5. todo[1].type = "P"
    BY <2>1 DEF FrameI, Frame1
  <2> QED
    BY <1>2, <1>6, <2>1, <2>2, <2>4, <2>5, Zenon
<1> QED
  BY <1>1, <1>3, <1>4, <1>5, <1>6

\* The part that is being added
LEMMA FirstPart ==
  ASSUME Frames, todo # <<>>, made \in Nat
  PROVE  /\ todo[1].parts # <<>> /\ todo[1].parts[1] = Part(Base, KeyNext) /\ KeyNext \in BOOLEAN
         /\ Base \in Nat /\ Base + 2 <= made
         /\ todo[1].type = "I" /\ adding = "idle" => KeyNext
<1>1. PICK u \in Nat :
        /\ Base = u
        /\ \/ /\ made = u + 6 /\ todo[1].type = "SPS" /\ todo[1].parts = <<Part(u, FALSE)>>
           \/ /\ made = u + 4 /\ todo[1].parts = <<Part(u, TRUE), Part(u + 2, FALSE)>>
           \/ /\ made = u + 2 /\ todo[1].parts = <<Part(u, FALSE)>>
              /\ todo[1].type = "I" => adding # "idle"
  <2>1. \A u : (todo[1].type = "P" => todo[1].type # "I")
    OBVIOUS
  <2> QED
    BY <2>1, FrameCases, Zenon
<1>2. Base \in Nat /\ Base + 2 <= made
  <2>1. made \in {u + 6, u + 4, u + 2}
    BY <1>1, Zenon
  <2> QED
    BY <1>1, <2>1
<1>3. CASE todo[1].parts = <<Part(u, FALSE)>>
  <2>1. todo[1].parts[1] = Part(u, FALSE) /\ todo[1].parts # <<>>
    BY <1>3, Tuples, Zenon
  <2>2. KeyNext = FALSE
    BY <2>1, FrameParts, Zenon DEF KeyNext
  <2>3. ~(todo[1].type = "I" /\ adding = "idle")
    <3>1. ~(todo[1].parts = <<Part(u, TRUE), Part(u + 2, FALSE)>>)
      <4>1. Part(u, FALSE) # Part(u, TRUE)
        BY FrameParts
      <4> QED
        BY <2>1, <4>1, Tuples, Zenon
    <3>2. todo[1].type = "SPS" => todo[1].type # "I"
      OBVIOUS
    <3> QED
      BY <1>1, <3>1, <3>2, Zenon
  <2> QED
    BY <1>1, <1>2, <2>1, <2>2, <2>3, Zenon
<1>4. CASE todo[1].parts = <<Part(u, TRUE), Part(u + 2, FALSE)>>
  <2>1. todo[1].parts[1] = Part(u, TRUE) /\ todo[1].parts # <<>>
    BY <1>4, Tuples, Zenon
  <2>2. KeyNext = TRUE
    BY <2>1, FrameParts, Zenon DEF KeyNext
  <2> QED
    BY <1>1, <1>2, <2>1, <2>2, Zenon
<1> QED
  BY <1>1, <1>3, <1>4, Zenon

\* A frame, or the rest of one, is given up.
LEMMA GivenUp ==
  ASSUME Frames, todo # <<>>, made \in Nat, todo' = Tail(todo), made' = made, adding' = "idle"
  PROVE  Frames' /\ Base <= Base' /\ Base' <= made' /\ Base' \in Nat
<1>1. PICK u \in Nat :
        /\ Base = u
        /\ \/ made = u + 6 /\ Tail(todo) = <<FrameI(u + 2)>>
           \/ made \in {u + 4, u + 2} /\ Tail(todo) = <<>>
  BY FrameCases
<1>2. CASE made = u + 6 /\ Tail(todo) = <<FrameI(u + 2)>>
  <2>1. todo' # <<>> /\ todo'[1].parts[1].after = u + 2
    BY <1>2, FirstOfI
  <2>2. Base' = u + 2
    BY <2>1, Zenon DEF Base
  <2>3. \E v \in 0..made' : made' = v + 4 /\ todo' = <<FrameI(v)>>
    <3>1. u + 2 \in 0..made' /\ made' = (u + 2) + 4
      BY <1>2
    <3> QED
      BY <1>2, <3>1, Zenon
  <2> QED
    BY <1>1, <1>2, <2>2, <2>3 DEF Frames
<1>3. CASE made \in {u + 4, u + 2} /\ Tail(todo) = <<>>
  <2>1. Base' = made'
    BY <1>3 DEF Base
  <2> QED
    BY <1>1, <1>3, <2>1 DEF Frames
<1> QED
  BY <1>1, <1>2, <1>3

\* A part of a frame is written.
LEMMA PartWritten ==
  ASSUME Frames, todo # <<>>, made \in Nat, Written, made' = made
  PROVE  Frames' /\ Base' = Base + 2 /\ adding' \in {"idle", "check"} /\ head' = 0
<1>1. PICK u \in Nat :
        /\ Base = u
        /\ \/ made = u + 6 /\ todo[1].parts = <<Part(u, FALSE)>> /\ Tail(todo) = <<FrameI(u + 2)>>
           \/ made = u + 4 /\ todo = <<FrameI(u)>> /\ todo[1].parts = <<Part(u, TRUE), Part(u + 2, FALSE)>>
           \/ made = u + 2 /\ todo[1].parts = <<Part(u, FALSE)>> /\ Tail(todo) = <<>>
  BY FrameCases, Zenon
<1>2. CASE made = u + 6 /\ todo[1].parts = <<Part(u, FALSE)>> /\ Tail(todo) = <<FrameI(u + 2)>>
  <2>1. Tail(todo[1].parts) = <<>>
    BY <1>2, Tuples, Zenon
  <2>2. todo' = <<FrameI(u + 2)>> /\ adding' = "idle" /\ head' = 0
    BY <1>2, <2>1 DEF Written
  <2>3. todo' # <<>> /\ todo'[1].parts[1].after = u + 2
    BY <2>2, FirstOfI
  <2>4. Base' = u + 2
    BY <2>3, Zenon DEF Base
  <2>5. \E v \in 0..made' : made' = v + 4 /\ todo' = <<FrameI(v)>>
    <3>1. u + 2 \in 0..made' /\ made' = (u + 2) + 4
      BY <1>2
    <3> QED
      BY <2>2, <3>1, Zenon
  <2> QED
    BY <1>1, <2>2, <2>4, <2>5 DEF Frames
<1>3. CASE made = u + 4 /\ todo = <<FrameI(u)>> /\ todo[1].parts = <<Part(u, TRUE), Part(u + 2, FALSE)>>
  <2>1. Tail(todo[1].parts) = <<Part(u + 2, FALSE)>> /\ Tail(todo[1].parts) # <<>>
    <3>1. Tail(todo[1].parts) = <<Part(u + 2, FALSE)>>
      BY <1>3, Tuples, Zenon
    <3> QED
      BY <3>1, Tuples, Zenon
  <2>2. todo' = [todo EXCEPT ![1].parts = <<Part(u + 2, FALSE)>>] /\ adding' = "check" /\ head' = 0
    BY <2>1, Zenon DEF Written
  <2>3. todo' = <<Frame1("I", u + 2)>>
    BY <1>3, <2>2, RestOfI, Zenon
  <2>4. todo'[1].parts = <<Part(u + 2, FALSE)>> /\ todo' # <<>>
    BY <2>3, Tuples, OnePart, Zenon
  <2>5. Base' = u + 2
    <3>1. todo'[1].parts[1] = Part(u + 2, FALSE)
      BY <2>4, Tuples, Zenon
    <3> QED
      BY <2>4, <3>1, FrameParts, Zenon DEF Base
  <2>6. \E v \in 0..made' : made' = v + 2 /\ todo' = <<Frame1("I", v)>>
    <3>1. u + 2 \in 0..made' /\ made' = (u + 2) + 2
      BY <1>3
    <3> QED
      BY <2>3, <3>1, Zenon
  <2> QED
    BY <1>1, <2>2, <2>5, <2>6 DEF Frames
<1>4. CASE made = u + 2 /\ todo[1].parts = <<Part(u, FALSE)>> /\ Tail(todo) = <<>>
  <2>1. Tail(todo[1].parts) = <<>>
    BY <1>4, Tuples, Zenon
  <2>2. todo' = <<>> /\ adding' = "idle" /\ head' = 0
    BY <1>4, <2>1 DEF Written
  <2> QED
    BY <1>1, <1>4, <2>2 DEF Base, Frames
<1> QED
  BY <1>1, <1>2, <1>3, <1>4

\* The encoder makes a frame.
LEMMA FrameMade ==
  ASSUME OnFrame, made \in Nat, Frames
  PROVE  Frames' /\ Base' = Base /\ made' \in Nat /\ made <= made' /\ todo' # <<>> /\ made' <= MaxUnits
<1>0. todo = <<>> /\ Base = made /\ UNCHANGED adding
  BY DEF OnFrame, Base, writer
<1>1. CASE made' = made + 6 /\ todo' = <<Frame1("SPS", made), FrameI(made + 2)>> /\ made + 6 <= MaxUnits
  <2>1. todo' # <<>> /\ todo'[1].parts[1] = Part(made, FALSE)
    BY <1>1, Tuples, OnePart, Zenon
  <2>2. Base' = made
    BY <2>1, FrameParts, Zenon DEF Base
  <2>3. Frames'
    <3>1. made \in 0..made' /\ made' \in Nat
      BY <1>1
    <3> QED
      BY <1>1, <3>1, Zenon DEF Frames
  <2> QED
    BY <1>0, <1>1, <2>1, <2>2, <2>3
<1>2. CASE made' = made + 2 /\ todo' = <<Frame1("P", made)>> /\ made + 2 <= MaxUnits
  <2>1. todo' # <<>> /\ todo'[1].parts[1] = Part(made, FALSE)
    BY <1>2, Tuples, OnePart, Zenon
  <2>2. Base' = made
    BY <2>1, FrameParts, Zenon DEF Base
  <2>3. Frames'
    <3>1. made \in 0..made' /\ made' \in Nat
      BY <1>2
    <3> QED
      BY <1>2, <3>1, Zenon DEF Frames
  <2> QED
    BY <1>0, <1>2, <2>1, <2>2, <2>3
<1> QED
  BY <1>1, <1>2 DEF OnFrame

\* What is not in a slot yet is not yet made, or has just been.
LEMMA BaseIs == Frames /\ made \in Nat => Base \in Nat /\ Base <= made
<1> SUFFICES ASSUME Frames, made \in Nat PROVE Base \in Nat /\ Base <= made
  OBVIOUS
<1>1. CASE todo = <<>>
  BY <1>1 DEF Base
<1>2. CASE todo # <<>>
  BY <1>2, FirstPart
<1> QED
  BY <1>1, <1>2

\* The frames of the callback, at every step.
LEMMA FramesStep ==
  ASSUME Frames, made \in Nat, made <= MaxUnits, [Next]_vars
  PROVE  /\ Frames' /\ made' \in Nat /\ made <= made' /\ made' <= MaxUnits
         /\ Base \in Nat /\ Base <= made /\ Base' \in Nat /\ Base <= Base' /\ Base' <= made'
<1>0. Base \in Nat /\ Base <= made
  BY BaseIs
<1>1. CASE OnFrame
  BY <1>0, <1>1, FrameMade
<1>2. CASE AddVid \/ AddPart
  <2>1. made' = made /\ (UNCHANGED todo \/ (todo # <<>> /\ todo' = Tail(todo) /\ adding' = "idle"))
    <3>1. CASE AddVid
      BY <3>1 DEF AddVid
    <3>2. CASE AddPart
      <4>1. adding = "check" => todo # <<>>
        BY DEF Frames
      <4> QED
        BY <3>2, <4>1 DEF AddPart
    <3> QED
      BY <1>2, <3>1, <3>2
  <2>2. CASE UNCHANGED todo
    BY <1>0, <1>2, <2>1, <2>2 DEF AddVid, AddPart, Frames, Base
  <2> QED
    BY <1>0, <2>1, <2>2, GivenUp
<1>3. CASE CopyPart
  <2>1. todo # <<>> /\ Written /\ made' = made
    BY <1>3 DEF CopyPart, Frames
  <2> QED
    BY <1>0, <2>1, PartWritten, FirstPart
<1>4. CASE UNCHANGED <<made, todo, adding>>
  BY <1>0, <1>4 DEF Frames, Base
<1> QED
  BY <1>1, <1>2, <1>3, <1>4 DEF Next, RecordProcess, LiveStart, LiveReset, LiveStop, LiveStopped, RtspLive, Attach,
     Connect, Disconnect, Cleared, Detach, ReadFrame, Scan, CopySlot, Record, vars, encoder, writer
-----------------------------------------------------------------------------
\* The types, in four parts: numbers, flags, slots and what has been read.
Numbers ==
  /\ head \in Slot /\ next \in Slot /\ cur \in Slot /\ from \in Slot
  /\ off \in {0, 1} /\ pos \in {0, 1} /\ seen \in 0..Slots /\ visits \in 0..MaxVisits
  /\ reader \in {"off", "attached", "on", "scan", "copy", "wait", "cleared"}
  /\ adding \in {"idle", "check", "copy"}
  /\ main \in {"idle", "starting", "stopping"}
  /\ made \in Nat /\ made <= MaxUnits

Flags ==
  /\ connected \in BOOLEAN /\ encoding \in BOOLEAN /\ first \in BOOLEAN /\ dropped \in BOOLEAN
  /\ fed \in BOOLEAN /\ fresh \in BOOLEAN /\ settled \in BOOLEAN /\ overtaken \in BOOLEAN

SlotTypes == full \in [Slot -> BOOLEAN] /\ data \in [Slot -> Parts]

Reads ==
  /\ read \in [last : 0..MaxUnits, after : 0..MaxUnits, upto : 0..MaxUnits, key : BOOLEAN, new : BOOLEAN]
  /\ read.upto <= made
  /\ heard \subseteq 1..made /\ starts \subseteq 0..made

\* A part of the frame goes into the next slot.
LEMMA Filling ==
  ASSUME CopyPart, Frames, Numbers
  PROVE  /\ todo # <<>> /\ made' = made /\ Base \in Nat /\ Base + 2 <= made /\ Base' = Base + 2
         /\ adding' \in {"idle", "check"} /\ head' = 0
         /\ todo[1].parts[1] = Part(Base, KeyNext) /\ Part(Base, KeyNext) \in Parts
<1>1. todo # <<>> /\ Written /\ made' = made
  <2>1. adding = "copy" => todo # <<>>
    BY DEF Frames
  <2> QED
    BY <2>1 DEF CopyPart
<1>2. /\ todo[1].parts[1] = Part(Base, KeyNext) /\ KeyNext \in BOOLEAN
      /\ Base \in Nat /\ Base + 2 <= made
  BY <1>1, FirstPart DEF Numbers
<1>3. Base \in 0..MaxUnits
  BY <1>2, SlotsType DEF Numbers
<1>4. Part(Base, KeyNext) \in Parts
  BY <1>2, <1>3, Zenon DEF Part, Parts
<1> QED
  BY <1>1, <1>2, <1>4, PartWritten DEF Numbers

\* A number keeps its type.
LEMMA NumbersStep == Numbers /\ Frames /\ [Next]_vars => Numbers'
<1> SUFFICES ASSUME Numbers, Frames, [Next]_vars PROVE Numbers'
  OBVIOUS
<1> USE DEF Numbers
<1>0. made' \in Nat /\ made' <= MaxUnits /\ 0 \in Slot
  BY FramesStep, SlotsType DEF Slot
<1>1. CASE LiveStart \/ LiveReset \/ LiveStop \/ LiveStopped \/ OnFrame \/ AddVid \/ AddPart
  BY <1>0, <1>1 DEF LiveStart, LiveReset, LiveStop, LiveStopped, OnFrame, AddVid, AddPart, writer, place
<1>2. CASE CopyPart
  <2>1. head' = 0 /\ adding' \in {"idle", "check"}
    BY <1>2, Filling
  <2>2. next' \in Slot
    BY <1>2, SuccIs DEF CopyPart
  <2> QED
    BY <1>0, <1>2, <2>1, <2>2 DEF CopyPart, place
<1>3. CASE Attach
  BY <1>0, <1>3, SlotsType DEF Attach, Record, writer
<1>4. CASE Connect \/ Disconnect \/ Cleared \/ Detach
  BY <1>0, <1>4 DEF Connect, Disconnect, Cleared, Detach, Record, writer, place
<1>5. CASE ReadFrame
  BY <1>0, <1>5, SlotsType DEF ReadFrame, Copying, Record, writer
<1>6. CASE Scan
  <2>1. Succ(cur) \in Slot
    BY SuccIs
  <2> QED
    BY <1>0, <1>6, <2>1, SlotsType DEF Scan, Copying, Returns, Record, writer
<1>7. CASE CopySlot
  <2>1. Succ(cur) \in Slot
    BY SuccIs
  <2> QED
    BY <1>0, <1>7, <2>1, SlotsType DEF CopySlot, Copying, Stops, Returns, Record, writer
<1>8. CASE UNCHANGED vars
  BY <1>0, <1>8 DEF vars, writer, place
<1> QED
  BY <1>1, <1>2, <1>3, <1>4, <1>5, <1>6, <1>7, <1>8 DEF Next, RecordProcess, RtspLive

\* A flag stays a flag.
LEMMA FlagsStep == Flags /\ [Next]_vars => Flags'
<1> SUFFICES ASSUME Flags, [Next]_vars PROVE Flags'
  OBVIOUS
<1> USE DEF Flags
<1>1. CASE LiveStart \/ LiveReset \/ LiveStop \/ LiveStopped \/ OnFrame
  BY <1>1, Zenon DEF LiveStart, LiveReset, LiveStop, LiveStopped, OnFrame, ring, writer, history, timing, encoder
<1>2. CASE AddVid \/ AddPart
  BY <1>2, Zenon DEF AddVid, AddPart, Goes, ring, history, timing
<1>3. CASE CopyPart
  BY <1>3, Zenon DEF CopyPart, Goes, Overtakes, history
<1>4. CASE Attach
  BY <1>4, Zenon DEF Attach, Record, encoder, writer, history
<1>5. CASE Connect
  BY <1>5, Zenon DEF Connect, Record, encoder, writer, timing
<1>6. CASE Disconnect \/ Cleared \/ Detach \/ ReadFrame \/ Scan
  BY <1>6, Zenon DEF Disconnect, Cleared, Detach, ReadFrame, Scan, Record, ring, encoder, writer, history, timing
<1>7. CASE CopySlot
  <2>1. fresh' \in BOOLEAN
    BY <1>7, Zenon DEF CopySlot, Copies, history
  <2> QED
    BY <1>7, <2>1, Zenon DEF CopySlot, Record, encoder, writer, timing
<1>8. CASE UNCHANGED vars
  BY <1>8, Zenon DEF vars, ring, encoder, writer, history, timing
<1> QED
  BY <1>1, <1>2, <1>3, <1>4, <1>5, <1>6, <1>7, <1>8, Zenon DEF Next, RecordProcess, RtspLive

\* The slots hold parts of frames.
LEMMA SlotsStep == SlotTypes /\ Numbers /\ Frames /\ [Next]_vars => SlotTypes'
<1> SUFFICES ASSUME SlotTypes, Numbers, Frames, [Next]_vars PROVE SlotTypes'
  OBVIOUS
<1> USE DEF SlotTypes
<1>1. CASE CopyPart
  <2>2. todo[1].parts[1] \in Parts
    BY <1>1, Filling, Zenon
  <2>3. data' \in [Slot -> Parts]
    BY <1>1, <2>2, Zenon DEF CopyPart
  <2>4. full' \in [Slot -> BOOLEAN]
    BY <1>1, Zenon DEF CopyPart
  <2> QED
    BY <2>3, <2>4
<1>2. CASE Attach
  BY <1>2, Zenon DEF Attach
<1>3. CASE CopySlot
  <2>1. full' = full \/ full' = [full EXCEPT ![cur] = FALSE]
    BY <1>3 DEF CopySlot
  <2>2. full' \in [Slot -> BOOLEAN]
    BY <2>1, Zenon
  <2> QED
    BY <1>3, <2>2, Zenon DEF CopySlot
<1>4. CASE UNCHANGED <<full, data>>
  BY <1>4, Zenon
<1> QED
  BY <1>1, <1>2, <1>3, <1>4 DEF Next, RecordProcess, LiveStart, LiveReset, LiveStop, LiveStopped, OnFrame, AddVid,
     AddPart, RtspLive, Connect, Disconnect, Cleared, Detach, ReadFrame, Scan, vars, ring

\* What is in a slot has been made.
LEMMA ContentsStep ==
  Contents /\ SlotTypes /\ Numbers /\ Frames /\ [Next]_vars => Contents'
<1> SUFFICES ASSUME Contents, SlotTypes, Numbers, Frames, [Next]_vars PROVE Contents'
  OBVIOUS
<1>0. made \in Nat /\ made' \in Nat /\ made <= made' /\ \A i \in Slot : data[i].after \in Nat
  <2>1. made' \in Nat /\ made <= made'
    BY FramesStep DEF Numbers
  <2> QED
    BY <2>1 DEF SlotTypes, Numbers, Parts
<1>1. CASE CopyPart
  <2>1. todo # <<>> /\ todo[1].parts[1] = Part(Base, KeyNext) /\ Base \in Nat /\ Base + 2 <= made
    BY <1>1, Filling
  <2>2. data' = [data EXCEPT ![next] = Part(Base, KeyNext)] /\ made' = made
    BY <1>1, <2>1 DEF CopyPart
  <2>3. Part(Base, KeyNext).after = Base
    BY DEF Part
  <2>4. \A i \in Slot : data'[i].after \in Nat /\ (data'[i].after = 0 \/ data'[i].after + 2 <= made')
    BY <2>1, <2>2, <2>3, <1>0 DEF SlotTypes, Contents
  <2>5. 2 <= made'
    BY <2>1, <2>2, <1>0
  <2> QED
    BY <2>4, <2>5 DEF Contents
<1>2. CASE Attach
  <2>1. (\A i \in Slot : ~full'[i]) /\ reader' # "copy" /\ data' = data /\ made' = made
    BY <1>2 DEF Attach, Record, encoder
  <2> QED
    BY <2>1 DEF Contents
<1>3. CASE ReadFrame \/ Scan
  <2>1. data' = data /\ made' = made /\ full' = full
    BY <1>3 DEF ReadFrame, Scan, Record, encoder, ring
  <2>2. reader' = "copy" => \E i \in Slot : full[i]
    <3>1. Succ(cur) \in Slot /\ from \in Slot
      BY SuccIs DEF Numbers
    <3> QED
      BY <1>3, <3>1 DEF ReadFrame, Scan, Copying, Returns
  <2> QED
    BY <2>1, <2>2 DEF Contents
<1>4. CASE CopySlot
  <2>1. data' = data /\ made' = made /\ 2 <= made
    BY <1>4 DEF CopySlot, Record, encoder, Contents
  <2> QED
    BY <2>1 DEF Contents
<1>5. CASE UNCHANGED <<full, data>> /\ (reader' = "copy" => reader = "copy")
  BY <1>0, <1>5 DEF Contents
<1> QED
  BY <1>1, <1>2, <1>3, <1>4, <1>5 DEF Next, RecordProcess, LiveStart, LiveReset, LiveStop, LiveStopped, OnFrame,
     AddVid, AddPart, RtspLive, Connect, Disconnect, Cleared, Detach, vars, ring

\* What the reader has copied has been made.
LEMMA UnitsCopied ==
  ASSUME Contents, SlotTypes, Numbers, CopySlot, NEW n \in {1, 2}, off < n, Copies(n)
  PROVE  /\ data[cur].after \in Nat /\ data[cur].after + 2 <= made
         /\ read'.last = read.upto /\ read'.after = data[cur].after + off
         /\ read'.upto = data[cur].after + n
         /\ read'.key = (data[cur].key /\ off = 0) /\ read'.new = fresh
         /\ \A k : k \in heard' <=> k \in heard \/ k \in (data[cur].after + off + 1)..(data[cur].after + n)
<1>1. data[cur].after \in Nat /\ data[cur].after + 2 <= made
  BY DEF Contents, SlotTypes, Numbers, Parts, CopySlot
<1>2. ASSUME NEW k
      PROVE  k \in heard' <=> k \in heard \/ k \in (data[cur].after + off + 1)..(data[cur].after + n)
  <2>1. k \in {data[cur].after + m : m \in (off + 1)..n}
          <=> k \in (data[cur].after + off + 1)..(data[cur].after + n)
    <3>1. ASSUME k \in (data[cur].after + off + 1)..(data[cur].after + n)
          PROVE  k \in {data[cur].after + m : m \in (off + 1)..n}
      <4>1. k - data[cur].after \in (off + 1)..n /\ k = data[cur].after + (k - data[cur].after)
        BY <1>1, <3>1 DEF Numbers
      <4> QED
        BY <4>1
    <3> QED
      BY <1>1, <3>1 DEF Numbers
  <2> QED
    BY <2>1 DEF Copies
<1> QED
  BY <1>1, <1>2 DEF Copies

\* Where an I frame or its SPS begins is not forgotten, and has been made.
LEMMA StartsStep ==
  ASSUME starts \subseteq 0..made, made \in Nat, made' \in Nat, made <= made', [Next]_vars
  PROVE  starts \subseteq starts' /\ starts' \subseteq 0..made'
<1>1. CASE UNCHANGED starts
  BY <1>1
<1>2. CASE OnFrame
  <2>1. starts' = starts \/ (starts' = starts \cup {made, made + 2} /\ made' = made + 6)
    BY <1>2 DEF OnFrame
  <2>2. ASSUME NEW n \in starts' PROVE n \in 0..made'
    <3>1. CASE n \in starts
      BY <3>1
    <3>2. CASE n \in {made, made + 2} /\ made' = made + 6
      BY <3>2
    <3> QED
      BY <2>1, <2>2, <3>1, <3>2
  <2> QED
    BY <2>1, <2>2
<1> QED
  BY <1>1, <1>2 DEF Next, RecordProcess, LiveStart, LiveReset, LiveStop, LiveStopped, AddVid, AddPart, CopyPart,
     RtspLive, Attach, Connect, Disconnect, Cleared, Detach, ReadFrame, Scan, CopySlot, Copies, vars, history

\* The history keeps its type.
LEMMA ReadsStep ==
  Reads /\ Flags /\ Contents /\ SlotTypes /\ Numbers /\ Frames /\ [Next]_vars => Reads'
<1> SUFFICES ASSUME Reads, Flags, Contents, SlotTypes, Numbers, Frames, [Next]_vars PROVE Reads'
  OBVIOUS
<1>0. made \in Nat /\ made' \in Nat /\ made <= made' /\ made' <= MaxUnits /\ MaxUnits \in Nat
  BY FramesStep, SlotsType DEF Numbers
<1>s. starts' \subseteq 0..made'
  BY <1>0, StartsStep DEF Reads
<1>1. ASSUME CopySlot, NEW n \in {1, 2}, off < n, Copies(n) PROVE Reads'
  <2>1. /\ data[cur].after \in Nat /\ data[cur].after + 2 <= made
        /\ read'.upto = data[cur].after + n
        /\ \A k : k \in heard' <=> k \in heard \/ k \in (data[cur].after + off + 1)..(data[cur].after + n)
    BY <1>1, UnitsCopied
  <2>2. made' = made /\ off \in {0, 1}
    BY <1>1 DEF CopySlot, Record, encoder, Numbers
  <2>3. heard' \subseteq 1..made'
    <3>1. ASSUME NEW k \in heard' PROVE k \in 1..made'
      <4>1. k \in heard \/ k \in (data[cur].after + off + 1)..(data[cur].after + n)
        BY <3>1, <2>1, Zenon
      <4>2. CASE k \in heard
        BY <4>2, <2>2 DEF Reads
      <4>3. CASE k \in (data[cur].after + off + 1)..(data[cur].after + n)
        BY <4>3, <2>1, <2>2, <1>0
      <4> QED
        BY <4>1, <4>2, <4>3
    <3> QED
      BY <3>1
  <2>4. /\ read.upto \in 0..MaxUnits /\ data[cur].after + off \in 0..MaxUnits
        /\ data[cur].after + n \in 0..MaxUnits /\ read'.upto <= made'
    BY <2>1, <2>2, <1>0 DEF Reads
  <2>5. (data[cur].key /\ off = 0) \in BOOLEAN /\ fresh \in BOOLEAN
    BY Zenon DEF Flags
  <2>6. read' \in [last : 0..MaxUnits, after : 0..MaxUnits, upto : 0..MaxUnits, key : BOOLEAN, new : BOOLEAN]
    BY <1>1, <2>4, <2>5, Zenon DEF Copies
  <2> QED
    BY <2>3, <2>4, <2>6, <1>s DEF Reads
<1>2. CASE UNCHANGED <<read, heard>>
  BY <1>0, <1>2, <1>s DEF Reads
<1>3. CASE CopySlot
  <2>1. Copies(2) \/ (off = 0 /\ Copies(1)) \/ UNCHANGED <<read, heard>>
    BY <1>3 DEF CopySlot, history
  <2>2. off < 2
    BY DEF Numbers
  <2> QED
    BY <1>1, <1>2, <1>3, <2>1, <2>2
<1> QED
  BY <1>2, <1>3 DEF Next, RecordProcess, LiveStart, LiveReset, LiveStop, LiveStopped, OnFrame, AddVid, AddPart,
     CopyPart, RtspLive, Attach, Connect, Disconnect, Cleared, Detach, ReadFrame, Scan, vars, history

\* Who is connected, who runs, and how a visit begins.
LEMMA ControlStep == Control /\ Numbers /\ Frames /\ [Next]_vars => Control'
<1> SUFFICES ASSUME Control, Numbers, Frames, [Next]_vars PROVE Control'
  OBVIOUS
<1> USE DEF Control
<1>1. CASE LiveStart \/ LiveReset \/ LiveStop \/ LiveStopped
  BY <1>1 DEF LiveStart, LiveReset, LiveStop, LiveStopped, writer, ring, place, encoder, timing
<1>2. CASE OnFrame
  BY <1>2 DEF OnFrame, writer, ring, place, timing
<1>3. CASE AddVid \/ AddPart
  <2>1. todo # <<>> /\ encoding
    BY <1>3 DEF AddVid, AddPart, Frames
  <2> QED
    <3>1. ~(reader = "attached" /\ settled)
      BY <2>1
    <3>2. CASE AddVid
      BY <2>1, <3>1, <3>2 DEF AddVid, ring, place, timing
    <3>3. CASE AddPart
      BY <2>1, <3>1, <3>3 DEF AddPart, ring, place, timing
    <3> QED
      BY <1>3, <3>2, <3>3
<1>4. CASE CopyPart
  <2>1. todo # <<>> /\ encoding
    BY <1>4, Filling
  <2>2. reader # "attached" \/ ~settled
    BY <2>1
  <2> QED
    BY <1>4, <2>1, <2>2 DEF CopyPart, place
<1>5. CASE Attach
  BY <1>5 DEF Attach, Record, encoder, writer
<1>6. CASE Connect \/ Disconnect \/ Cleared \/ Detach
  BY <1>6 DEF Connect, Disconnect, Cleared, Detach, Record, encoder, writer, place, timing, ring
<1>7. CASE ReadFrame \/ Scan
  BY <1>7 DEF ReadFrame, Scan, Copying, Returns, Record, encoder, writer, timing, ring
<1>8. CASE CopySlot
  BY <1>8 DEF CopySlot, Copying, Returns, Stops, Record, encoder, writer, timing
<1>9. CASE UNCHANGED vars
  BY <1>9 DEF vars, encoder, writer, place, timing, ring
<1> QED
  BY <1>1, <1>2, <1>3, <1>4, <1>5, <1>6, <1>7, <1>8, <1>9 DEF Next, RecordProcess, RtspLive

-----------------------------------------------------------------------------
\* What the promises of the ring are about, unchanged
View == <<connected, full, data, made, todo, adding, head, next, dropped, reader, cur, off, from, pos,
          seen, read, heard, fresh, settled, overtaken>>

\* Most steps of the threads leave the ring alone or end the visit.
LEMMA StepCases ==
  ASSUME Control, [Next]_vars
  PROVE  \/ OnFrame \/ AddVid \/ AddPart \/ CopyPart \/ Connect \/ ReadFrame \/ Scan \/ CopySlot
         \/ UNCHANGED View
         \/ ~connected' 
<1>1. CASE LiveStart \/ LiveReset \/ LiveStop \/ LiveStopped
  BY <1>1 DEF LiveStart, LiveReset, LiveStop, LiveStopped, View, ring, encoder, writer, place, history, timing
<1>2. CASE Attach \/ Disconnect \/ Cleared \/ Detach
  BY <1>2 DEF Attach, Disconnect, Cleared, Detach, Control, ring
<1>3. CASE UNCHANGED vars
  BY <1>3 DEF vars, View, ring, encoder, writer, place, history, timing
<1> QED
  BY <1>1, <1>2, <1>3 DEF Next, RecordProcess, RtspLive

\* The types a proof about the ring needs.
Typed == Numbers /\ SlotTypes /\ Frames /\ Contents /\ Reads

\* A slot is filled: nothing is promised twice.
LEMMA OnceFilled ==
  ASSUME Typed, Control, Once, CopyPart
  PROVE  Once'
<1> SUFFICES ASSUME settled, connected PROVE Once'
  BY DEF CopyPart, Once
<1>1. /\ Base \in Nat /\ Base' = Base + 2 /\ adding' \in {"idle", "check"} /\ made' = made
      /\ data' = [data EXCEPT ![next] = Part(Base, KeyNext)]
      /\ full' = [full EXCEPT ![next] = TRUE] /\ ~full[next]
      /\ heard' = heard /\ Place' = Place /\ Half' = Half /\ reader' = reader
      /\ next \in Slot /\ Place \in Slot
  BY Filling DEF Typed, CopyPart, Once, history, place, Place, Half, Numbers
<1>2. Part(Base, KeyNext).after = Base
  BY DEF Part
<1>3. /\ data'[next].after = Base /\ full'[next]
      /\ \A i \in Slot \ {next} : data'[i] = data[i] /\ full'[i] = full[i]
  BY <1>1, <1>2 DEF Typed, SlotTypes
<1>4. \A i \in Slot : data[i].after \in Nat
  BY DEF Typed, SlotTypes, Parts
<1>5. heard \subseteq 1..Base
  BY DEF Once
<1>6. heard' \subseteq 1..Base'
  BY <1>1, <1>5
<1>7. ASSUME NEW i \in Slot, full'[i]
      PROVE  /\ data'[i].after + 2 <= Base'
             /\ data'[i].after + 2 \notin heard'
             /\ data'[i].after + 1 \in heard' => i = Place' /\ Half'
  <2>1. CASE i = next
    BY <1>1, <1>3, <1>5, <2>1
  <2>2. CASE i # next
    BY <1>1, <1>3, <1>4, <1>7, <2>2 DEF Once
  <2> QED
    BY <2>1, <2>2
<1>8. ASSUME NEW i \in Slot, full'[i], NEW j \in Slot \ {i}, full'[j]
      PROVE  data'[i].after + 2 <= data'[j].after \/ data'[j].after + 2 <= data'[i].after
  <2>1. CASE i # next /\ j # next
    BY <1>3, <1>8, <2>1 DEF Once
  <2>2. CASE i = next
    BY <1>1, <1>3, <1>8, <2>2 DEF Once
  <2>3. CASE j = next
    BY <1>1, <1>3, <1>8, <2>3 DEF Once
  <2> QED
    BY <2>1, <2>2, <2>3
<1>9. /\ reader' = "copy" \/ Half' => full'[Place']
      /\ reader' = "scan" => ~Half'
  BY <1>1, <1>3 DEF Once
<1> QED
  BY <1>1, <1>6, <1>7, <1>8, <1>9 DEF Once

\* A slot is copied: the others are still there, once.
LEMMA OnceCopied ==
  ASSUME Typed, Control, Once, CopySlot
  PROVE  Once'
<1> SUFFICES ASSUME settled, connected PROVE Once'
  BY DEF CopySlot, Once, timing
<1>0. /\ data' = data /\ made' = made /\ Base' = Base /\ Base \in Nat /\ adding' = adding /\ head' = head
      /\ next' = next /\ reader = "copy" /\ Place = cur /\ cur \in Slot /\ next \in Slot /\ full[cur]
      /\ off \in {0, 1} /\ (Half <=> off = 1) /\ \A i \in Slot : data[i].after \in Nat
  <2>1. /\ data' = data /\ made' = made /\ todo' = todo /\ adding' = adding /\ head' = head
        /\ next' = next /\ reader = "copy"
    BY DEF CopySlot, Record, encoder, writer
  <2>2. Base \in Nat
    BY BaseIs DEF Typed, Numbers
  <2>3. cur \in Slot /\ next \in Slot /\ off \in {0, 1}
    BY DEF Typed, Numbers
  <2>4. \A i \in Slot : data[i].after \in Nat
    BY DEF Typed, Contents
  <2>5. Place = cur /\ (Half <=> off = 1)
    BY <2>1 DEF Place, Half
  <2>6. full[cur]
    BY <2>1, <2>5 DEF Once
  <2> QED
    BY <2>1, <2>2, <2>3, <2>4, <2>5, <2>6 DEF Base
<1>1. Succ(cur) \in Slot
  BY SuccIs DEF Typed, Numbers
<1>2. ASSUME NEW n \in {1, 2}, off < n, Copies(n),
             n = 2 => /\ full' = [full EXCEPT ![cur] = FALSE] /\ ~Half'
                      /\ Place' = Succ(cur) /\ (reader' = "copy" => full'[Succ(cur)]),
             n = 1 => full' = full /\ Half' /\ Place' = cur,
             reader' \in {"on", "copy"}
      PROVE  Once'
  <2>1. \A k : k \in heard' <=> k \in heard \/ k \in (data[cur].after + off + 1)..(data[cur].after + n)
    BY <1>2, UnitsCopied DEF Typed
  <2>2. \A i \in Slot : full'[i] => full[i] /\ (n = 2 => i # cur)
    BY <1>0, <1>2 DEF Typed, SlotTypes
  <2>3. heard' \subseteq 1..Base'
    <3>1. ASSUME NEW k \in heard' PROVE k \in 1..Base'
      <4>1. CASE k \in heard
        BY <1>0, <4>1 DEF Once
      <4>2. CASE k \in (data[cur].after + off + 1)..(data[cur].after + n)
        BY <1>0, <4>2 DEF Once
      <4> QED
        BY <2>1, <4>1, <4>2
    <3> QED
      BY <3>1
  <2>4. ASSUME NEW i \in Slot, full'[i]
        PROVE  /\ data'[i].after + 2 <= Base'
               /\ data'[i].after + 2 \notin heard'
               /\ data'[i].after + 1 \in heard' => i = Place' /\ Half'
    <3>1. full[i] /\ data[i].after + 2 <= Base /\ data[i].after + 2 \notin heard
      BY <2>2, <2>4 DEF Once
    <3>2. CASE i = cur
      <4>1. n = 1
        BY <2>2, <2>4, <3>2
      <4> QED
        BY <1>0, <1>2, <2>1, <3>1, <3>2, <4>1
    <3>3. CASE i # cur
      <4>1. data[i].after + 1 \notin heard
        BY <1>0, <3>1, <3>3 DEF Once
      <4>2. data[i].after + 2 <= data[cur].after \/ data[cur].after + 2 <= data[i].after
        BY <1>0, <3>1, <3>3 DEF Once
      <4> QED
        BY <1>0, <2>1, <3>1, <4>1, <4>2
    <3> QED
      BY <3>2, <3>3
  <2>5. ASSUME NEW i \in Slot, full'[i], NEW j \in Slot \ {i}, full'[j]
        PROVE  data'[i].after + 2 <= data'[j].after \/ data'[j].after + 2 <= data'[i].after
    BY <1>0, <2>2, <2>5 DEF Once
  <2>6. adding' = "copy" => head' = next' /\ ~full'[next']
    BY <1>0, <2>2 DEF Once
  <2>7. reader' = "copy" \/ Half' => full'[Place']
    BY <1>0, <1>2
  <2> QED
    BY <1>2, <2>3, <2>4, <2>5, <2>6, <2>7 DEF Once
<1>3. CASE /\ Copies(2) /\ full' = [full EXCEPT ![cur] = FALSE]
           /\ \/ full'[Succ(cur)] /\ Copying(Succ(cur), 0)
              \/ ~full'[Succ(cur)] /\ Returns(Succ(cur), 0)
  <2>1. ~Half' /\ Place' = Succ(cur) /\ (reader' = "copy" => full'[Succ(cur)]) /\ reader' \in {"on", "copy"}
    BY <1>3 DEF Copying, Returns, Half, Place
  <2>2. off < 2
    BY <1>0
  <2> QED
    BY <1>2, <1>3, <2>1, <2>2
<1>4. CASE off = 0 /\ Copies(1) /\ Stops(1) /\ UNCHANGED full
  <2>1. Half' /\ Place' = cur /\ reader' = "on"
    BY <1>4 DEF Stops, Returns, Half, Place
  <2> QED
    BY <1>2, <1>4, <2>1
<1>5. CASE Stops(off) /\ UNCHANGED <<full, history>>
  <2>1. reader' = "on" /\ Place' = Place /\ Half' = Half /\ heard' = heard /\ full' = full
    BY <1>5, <1>0 DEF Stops, Returns, Half, Place, history
  <2> QED
    BY <1>0, <2>1 DEF Once
<1> QED
  BY <1>3, <1>4, <1>5 DEF CopySlot

\* Once is inductive.
LEMMA OnceStep == Typed /\ Control /\ Once /\ [Next]_vars => Once'
<1> SUFFICES ASSUME Typed, Control, Once, [Next]_vars PROVE Once'
  OBVIOUS
<1>0. /\ Base \in Nat /\ Base <= Base' /\ Base <= made /\ Base' \in Nat
      /\ \A i \in Slot : data[i].after \in Nat
      /\ from \in Slot /\ cur \in Slot /\ next \in Slot /\ pos \in {0, 1} /\ Succ(cur) \in Slot
  BY FramesStep, SuccIs DEF Typed, Numbers, SlotTypes, Parts
<1>1. CASE UNCHANGED View
  BY <1>1 DEF View, Once, Base, Place, Half
<1>2. CASE ~connected'
  BY <1>2 DEF Once
<1>3. CASE OnFrame \/ AddVid \/ AddPart
  <2>1. UNCHANGED <<settled, connected, full, data, heard, reader>> /\ Place' = Place /\ Half' = Half
    BY <1>3 DEF OnFrame, AddVid, AddPart, timing, ring, history, place, Place, Half
  <2>2. settled /\ connected => (adding' = "copy" => head' = next' /\ ~full'[next'])
    BY <1>3 DEF OnFrame, AddVid, AddPart, writer, ring, Once
  <2>3. ASSUME settled, connected PROVE heard' \subseteq 1..Base'
    BY <1>0, <2>1, <2>3 DEF Once
  <2>4. ASSUME settled, connected, NEW i \in Slot, full[i] PROVE data[i].after + 2 <= Base'
    <3>1. data[i].after + 2 <= Base
      BY <2>4 DEF Once
    <3> QED
      BY <1>0, <3>1
  <2> QED
    BY <2>1, <2>2, <2>3, <2>4 DEF Once
<1>4. CASE Connect
  <2> SUFFICES ASSUME settled PROVE Once'
    BY <1>4 DEF Connect, timing, Once
  <2>1. todo = <<>> /\ (\A i \in Slot : ~full'[i]) /\ heard' = heard /\ pos' = 0 /\ reader' = "on"
        /\ todo' = todo /\ made' = made /\ adding' = adding
    BY <1>4 DEF Connect, Control, place, Record, encoder, writer
  <2>2. adding = "idle" /\ Base' = made
    BY <2>1 DEF Typed, Frames, Base
  <2>3. heard' \subseteq 1..Base'
    BY <2>1, <2>2 DEF Typed, Reads
  <2> QED
    BY <2>1, <2>2, <2>3 DEF Once, Half
<1>5. CASE ReadFrame
  <2>1. UNCHANGED <<settled, connected, full, data, heard, adding, head, next, made, todo>>
        /\ reader = "on" /\ Place' = Place /\ Half' = Half
        /\ (reader' = "copy" => full[from]) /\ (reader' = "scan" => ~full[from]) /\ reader' \in {"copy", "scan"}
    BY <1>5, <1>0 DEF ReadFrame, Copying, timing, ring, history, Record, writer, encoder, Place, Half
  <2>2. Place = from /\ Base' = Base
    BY <2>1 DEF Place, Base
  <2> QED
    BY <2>1, <2>2 DEF Once
<1>6. CASE Scan
  <2> SUFFICES ASSUME settled, connected PROVE Once'
    BY <1>6 DEF Scan, timing, ring, Once
  <2>0. ~Half /\ reader = "scan"
    BY <1>6 DEF Scan, Once
  <2>1. UNCHANGED <<settled, connected, full, data, heard, adding, head, next, made, todo>>
        /\ ~Half' /\ (reader' = "copy" => full'[Place'])
    BY <1>6, <1>0, <2>0 DEF Scan, Copying, Returns, timing, ring, history, Record, writer, encoder, Place, Half
  <2>2. Base' = Base
    BY <2>1 DEF Base
  <2> QED
    BY <2>0, <2>1, <2>2 DEF Once
<1> QED
  BY <1>1, <1>2, <1>3, <1>4, <1>5, <1>6, StepCases, OnceFilled, OnceCopied
-----------------------------------------------------------------------------
\* Distances in the ring
LEMMA DistIs ==
  ASSUME NEW p \in Slot, NEW i \in Slot
  PROVE  /\ Dist(p, i) \in 0..(Slots - 1) /\ (Dist(p, i) = 0 <=> i = p)
         /\ \A j \in Slot : Dist(p, i) = Dist(p, j) => i = j
         /\ \A j \in Slot : Succ(i) = Succ(j) => i = j
         /\ Succ(i) \in Slot /\ (Succ(i) = i => Slots = 1)
<1>1. \A j \in Slot : Succ(j) = (IF j = Slots - 1 THEN 0 ELSE j + 1) /\ Succ(j) \in Slot
  BY SuccIs
<1> HIDE DEF Succ
<1> QED
  BY <1>1, SlotsType DEF Dist, Slot

\* The next slot is one further, unless it is the one from which is counted.
LEMMA DistNext ==
  ASSUME NEW p \in Slot, NEW i \in Slot
  PROVE  IF Succ(i) = p THEN Dist(p, i) = Slots - 1 ELSE Dist(p, Succ(i)) = Dist(p, i) + 1
<1>1. Succ(i) = (IF i = Slots - 1 THEN 0 ELSE i + 1)
  BY SuccIs
<1> QED
  BY <1>1, SlotsType DEF Dist, Slot

\* From the next slot, everything else is one nearer.
LEMMA DistFromNext ==
  ASSUME NEW p \in Slot, NEW i \in Slot
  PROVE  Dist(Succ(p), i) = IF i = p THEN Slots - 1 ELSE Dist(p, i) - 1
<1>1. Succ(p) = (IF p = Slots - 1 THEN 0 ELSE p + 1)
  BY SuccIs
<1> QED
  BY <1>1, SlotsType DEF Dist, Slot

\* What the proofs of the two promises about order start from
LEMMA Facts ==
  ASSUME Typed, Control, Once
  PROVE  /\ Base \in Nat /\ Place \in Slot /\ from \in Slot /\ cur \in Slot /\ next \in Slot
         /\ off \in {0, 1} /\ pos \in {0, 1} /\ seen \in Nat
         /\ Slots \in Nat \ {0}
         /\ \A i \in Slot : data[i].after \in Nat /\ full[i] \in BOOLEAN
         /\ read.upto \in Nat
<1>1. Base \in Nat
  BY BaseIs DEF Typed, Numbers
<1>2. /\ Place \in Slot /\ from \in Slot /\ cur \in Slot /\ next \in Slot
      /\ off \in {0, 1} /\ pos \in {0, 1} /\ seen \in Nat
  BY SlotsType DEF Typed, Numbers, Place
<1>3. \A i \in Slot : data[i].after \in Nat /\ full[i] \in BOOLEAN
  BY DEF Typed, Contents, SlotTypes
<1>4. read.upto \in Nat
  BY SlotsType DEF Typed, Reads
<1> QED
  BY <1>1, <1>2, <1>3, <1>4, SlotsType

\* A slot is filled: the row grows at its end.
LEMMA InRowFilled ==
  ASSUME Typed, Control, Once, InRow, CopyPart
  PROVE  InRow'
<1> SUFFICES ASSUME settled, connected, ~overtaken, reader # "scan" PROVE InRow'
  BY DEF CopyPart, Overtakes, InRow
<1>1. /\ Base' = Base + 2
      /\ data' = [data EXCEPT ![next] = Part(Base, KeyNext)]
      /\ full' = [full EXCEPT ![next] = TRUE] /\ ~full[next] /\ next' = Succ(next)
      /\ read' = read /\ Place' = Place /\ (Half' <=> Half) /\ reader' = reader
  BY Filling DEF Typed, CopyPart, Once, history, place, Place, Half
<1>2. Part(Base, KeyNext).after = Base
  BY DEF Part
<1>3. /\ data'[next].after = Base /\ full'[next]
      /\ \A i \in Slot : i # next => data'[i] = data[i] /\ full'[i] = full[i]
  BY <1>1, <1>2 DEF Typed, SlotTypes, Numbers
<1>4. /\ Base \in Nat /\ Place \in Slot /\ next \in Slot /\ Slots \in Nat
      /\ \A i \in Slot : data[i].after \in Nat /\ full[i] \in BOOLEAN
  BY Facts
<1>5. \A i \in Slot : full[i] <=> Dist(Place, i) < Dist(Place, next)
  BY <1>1, <1>4 DEF InRow
<1>6. ASSUME NEW i \in Slot
      PROVE  full'[i] <=> (full'[Place'] /\ next' = Place') \/ Dist(Place', i) < Dist(Place', next')
  <2>1. /\ Dist(Place, i) \in 0..(Slots - 1) /\ Dist(Place, next) \in 0..(Slots - 1)
        /\ (Dist(Place, i) = Dist(Place, next) => i = next)
    BY <1>4, DistIs
  <2>2. IF Succ(next) = Place THEN Dist(Place, next) = Slots - 1
                              ELSE Dist(Place, Succ(next)) = Dist(Place, next) + 1
    BY <1>4, DistNext
  <2>3. CASE Succ(next) = Place
    <3>1. full'[Place]
      <4>1. Place # next => Dist(Place, Place) = 0 /\ Dist(Place, next) # 0 /\ Dist(Place, next) \in Nat
        BY <1>4, DistIs
      <4>2. Place # next => full[Place]
        BY <1>4, <1>5, <4>1
      <4> QED
        BY <1>3, <1>4, <4>2
    <3>2. full'[i]
      BY <1>3, <1>4, <1>5, <2>1, <2>2, <2>3
    <3> QED
      BY <1>1, <2>3, <3>1, <3>2
  <2>4. CASE Succ(next) # Place
    BY <1>1, <1>3, <1>4, <1>5, <2>1, <2>2, <2>4
  <2> QED
    BY <2>3, <2>4
<1>7. ASSUME NEW i \in Slot, NEW j \in Slot, full'[i], full'[j], Dist(Place, i) < Dist(Place, j)
      PROVE  data'[i].after + 2 <= data'[j].after
  <2>0. i # j
    <3>1. Dist(Place, i) \in Nat
      BY <1>4, DistIs
    <3> QED
      BY <1>7, <3>1
  <2>1. CASE i # next /\ j # next
    BY <1>3, <1>7, <2>1 DEF InRow
  <2>2. CASE j = next
    BY <1>3, <1>7, <2>0, <2>2 DEF Once
  <2>3. CASE i = next
    <3>1. Dist(Place, j) < Dist(Place, i) /\ Dist(Place, i) \in Nat /\ Dist(Place, j) \in Nat
      BY <1>3, <1>4, <1>5, <1>7, <2>0, <2>3, DistIs
    <3> QED
      BY <1>7, <3>1
  <2> QED
    BY <2>1, <2>2, <2>3
<1>8. read'.upto <= Base' /\ \A i \in Slot : full'[i] =>
        read'.upto <= data'[i].after + (IF i = Place' /\ Half' THEN 1 ELSE 0)
  <2>1. read.upto \in Nat /\ read.upto <= Base
    BY Facts DEF InRow
  <2>2. ASSUME NEW i \in Slot, full'[i]
        PROVE  read'.upto <= data'[i].after + (IF i = Place' /\ Half' THEN 1 ELSE 0)
    <3>1. CASE i = next
      BY <1>1, <1>3, <1>4, <2>1, <3>1
    <3>2. CASE i # next
      BY <1>1, <1>3, <2>2, <3>2 DEF InRow
    <3> QED
      BY <3>1, <3>2
  <2> QED
    BY <1>1, <1>4, <2>1, <2>2
<1> QED
  BY <1>1, <1>6, <1>7, <1>8 DEF InRow

\* What a step of copying does to the reader, by cases
LEMMA CopyCases ==
  ASSUME Typed, Control, Once, CopySlot, settled, connected
  PROVE  /\ UNCHANGED <<settled, connected, overtaken, data, made, todo, next, dropped, adding>>
         /\ Base' = Base /\ KeyNext' = KeyNext /\ reader' # "scan" /\ Place = cur /\ full[cur] /\ (Half <=> off = 1)
         /\ \/ /\ full' = [full EXCEPT ![cur] = FALSE] /\ Place' = Succ(cur) /\ ~Half' /\ ~fresh'
               /\ read'.upto = data[cur].after + 2
            \/ /\ full' = full /\ Place' = cur /\ ~Half /\ Half' /\ ~fresh' /\ read'.upto = data[cur].after + 1
            \/ /\ full' = full /\ Place' = cur /\ (Half' <=> Half) /\ read' = read /\ fresh' = fresh
<1>1. /\ UNCHANGED <<settled, connected, overtaken, data, made, todo, next, dropped, adding>>
      /\ Base' = Base /\ KeyNext' = KeyNext /\ reader' # "scan" /\ Place = cur /\ (Half <=> off = 1)
  BY DEF CopySlot, Record, timing, encoder, writer, Base, KeyNext, Place, Half, Copying, Stops, Returns
<1>2. full[cur] /\ off \in {0, 1}
  BY <1>1 DEF CopySlot, Once, Typed, Numbers
<1>3. CASE /\ Copies(2) /\ full' = [full EXCEPT ![cur] = FALSE]
           /\ \/ full'[Succ(cur)] /\ Copying(Succ(cur), 0)
              \/ ~full'[Succ(cur)] /\ Returns(Succ(cur), 0)
  <2>1. read'.upto = data[cur].after + 2
    BY <1>2, <1>3, UnitsCopied DEF Typed
  <2>2. Place' = Succ(cur) /\ ~Half' /\ ~fresh'
    BY <1>3 DEF Copying, Returns, Place, Half, Copies
  <2> QED
    BY <1>1, <1>2, <1>3, <2>1, <2>2
<1>4. CASE off = 0 /\ Copies(1) /\ Stops(1) /\ UNCHANGED full
  <2>1. read'.upto = data[cur].after + 1
    BY <1>4, UnitsCopied DEF Typed
  <2>2. Place' = cur /\ ~Half /\ Half' /\ ~fresh'
    BY <1>1, <1>4 DEF Stops, Returns, Place, Half, Copies
  <2> QED
    BY <1>1, <1>2, <1>4, <2>1, <2>2
<1>5. CASE Stops(off) /\ UNCHANGED <<full, history>>
  <2>1. full' = full /\ Place' = cur /\ (Half' <=> Half) /\ read' = read /\ fresh' = fresh
    BY <1>1, <1>2, <1>5 DEF Stops, Returns, Place, Half, history
  <2> QED
    BY <1>1, <1>2, <2>1
<1> QED
  BY <1>3, <1>4, <1>5 DEF CopySlot

\* A slot is copied: the row shrinks at its beginning.
LEMMA InRowCopied ==
  ASSUME Typed, Control, Once, InRow, CopySlot
  PROVE  InRow'
<1> SUFFICES ASSUME settled, connected, ~overtaken PROVE InRow'
  BY DEF CopySlot, timing, InRow
<1>1. /\ UNCHANGED <<settled, connected, overtaken, data, next>>
      /\ Base' = Base /\ reader' # "scan" /\ Place = cur /\ full[cur]
  BY CopyCases
<1>2. /\ Base \in Nat /\ cur \in Slot /\ next \in Slot /\ Slots \in Nat \ {0}
      /\ \A i \in Slot : data[i].after \in Nat /\ full[i] \in BOOLEAN
  BY Facts
<1>3. /\ \A i \in Slot : full[i] <=> next = cur \/ Dist(cur, i) < Dist(cur, next)
      /\ \A i, j \in Slot : full[i] /\ full[j] /\ Dist(cur, i) < Dist(cur, j) =>
           data[i].after + 2 <= data[j].after
      /\ data[cur].after + 2 <= Base
  BY <1>1, <1>2 DEF InRow, Once
<1>4. \A i \in Slot : full[i] /\ i # cur => data[cur].after + 2 <= data[i].after
  <2>1. \A i \in Slot : i # cur => Dist(cur, cur) < Dist(cur, i)
    <3>1. \A i \in Slot : Dist(cur, i) \in Nat /\ (Dist(cur, i) = 0 <=> i = cur)
      BY <1>2, DistIs
    <3> QED
      BY <1>2, <3>1
  <2> QED
    BY <1>1, <1>2, <1>3, <2>1
<1>5. CASE /\ full' = [full EXCEPT ![cur] = FALSE] /\ Place' = Succ(cur) /\ ~Half'
           /\ read'.upto = data[cur].after + 2
  <2>1. ~full'[cur] /\ \A i \in Slot : i # cur => full'[i] = full[i]
    BY <1>2, <1>5 DEF Typed, SlotTypes
  <2>2. \A i \in Slot : /\ Dist(cur, i) \in 0..(Slots - 1) /\ (Dist(cur, i) = 0 <=> i = cur)
                        /\ Dist(Succ(cur), i) = IF i = cur THEN Slots - 1 ELSE Dist(cur, i) - 1
    BY <1>2, DistIs, DistFromNext
  <2>3. Succ(cur) \in Slot /\ (next = Succ(cur) => ~full'[Succ(cur)])
    <3>1. Succ(cur) \in Slot
      BY <1>2, DistIs
    <3>2. ASSUME next = Succ(cur), Succ(cur) # cur PROVE ~full[Succ(cur)]
      BY <1>2, <1>3, <2>2, <3>1, <3>2
    <3> QED
      BY <2>1, <3>1, <3>2
  <2>4. ASSUME NEW i \in Slot
        PROVE  full'[i] <=> (full'[Place'] /\ next' = Place') \/ Dist(Place', i) < Dist(Place', next')
    <3>1. CASE i = cur
      <4>1. ~(Dist(Succ(cur), i) < Dist(Succ(cur), next))
        BY <1>2, <2>2, <3>1
      <4> QED
        BY <1>1, <1>5, <2>1, <2>3, <3>1, <4>1
    <3>2. CASE i # cur
      <4>1. full[i] <=> Dist(Succ(cur), i) < Dist(Succ(cur), next)
        <5>1. CASE next = cur
          BY <1>2, <1>3, <2>2, <3>2, <5>1
        <5>2. CASE next # cur
          BY <1>2, <1>3, <2>2, <3>2, <5>2
        <5> QED
          BY <5>1, <5>2
      <4> QED
        BY <1>1, <1>5, <2>1, <2>3, <3>2, <4>1
    <3> QED
      BY <3>1, <3>2
  <2>5. ASSUME NEW i \in Slot, NEW j \in Slot, full'[i], full'[j], Dist(Place', i) < Dist(Place', j)
        PROVE  data'[i].after + 2 <= data'[j].after
    <3>1. i # cur /\ j # cur /\ full[i] /\ full[j] /\ Dist(cur, i) < Dist(cur, j)
      BY <1>5, <2>1, <2>2, <2>5
    <3> QED
      BY <1>1, <1>3, <3>1
  <2>6. read'.upto <= Base' /\ \A i \in Slot : full'[i] =>
          read'.upto <= data'[i].after + (IF i = Place' /\ Half' THEN 1 ELSE 0)
    BY <1>1, <1>2, <1>3, <1>4, <1>5, <2>1
  <2> QED
    BY <1>1, <2>4, <2>5, <2>6 DEF InRow
<1>6. CASE full' = full /\ Place' = cur /\ Half' /\ read'.upto = data[cur].after + 1
  <2>1. read'.upto <= Base' /\ \A i \in Slot : full'[i] =>
          read'.upto <= data'[i].after + (IF i = Place' /\ Half' THEN 1 ELSE 0)
    BY <1>1, <1>2, <1>3, <1>4, <1>6
  <2> QED
    BY <1>1, <1>6, <2>1 DEF InRow
<1>7. CASE full' = full /\ Place' = cur /\ (Half' <=> Half) /\ read' = read
  BY <1>1, <1>7 DEF InRow
<1> QED
  BY <1>5, <1>6, <1>7, CopyCases

\* InRow is inductive.
LEMMA InRowStep == Typed /\ Control /\ Once /\ InRow /\ [Next]_vars => InRow'
<1> SUFFICES ASSUME Typed, Control, Once, InRow, [Next]_vars PROVE InRow'
  OBVIOUS
<1>0. /\ Base \in Nat /\ Base' \in Nat /\ Base <= Base'
      /\ Place \in Slot /\ from \in Slot /\ cur \in Slot /\ next \in Slot
      /\ Slots \in Nat \ {0} /\ read.upto \in Nat /\ seen \in 0..Slots
      /\ \A i \in Slot : data[i].after \in Nat /\ full[i] \in BOOLEAN
  <2>1. Base' \in Nat /\ Base <= Base' /\ seen \in 0..Slots
    BY FramesStep DEF Typed, Numbers
  <2> QED
    BY <2>1, Facts
<1>1. CASE UNCHANGED View
  BY <1>1 DEF View, InRow, Base, Place, Half
<1>2. CASE ~connected'
  BY <1>2 DEF InRow
<1>3. CASE OnFrame \/ AddVid \/ (AddPart /\ connected)
  <2>1. /\ UNCHANGED <<settled, connected, overtaken, full, data, next, read, reader, cur, from, seen>>
        /\ Place' = Place /\ (Half' <=> Half)
    BY <1>3 DEF OnFrame, AddVid, AddPart, timing, ring, history, place, writer, Place, Half
  <2>2. settled /\ connected /\ ~overtaken => read.upto <= Base'
    BY <1>0 DEF InRow
  <2> QED
    BY <2>1, <2>2 DEF InRow
<1>4. CASE Connect
  <2> SUFFICES ASSUME settled PROVE InRow'
    BY <1>4 DEF Connect, timing, InRow
  <2>1. /\ todo = <<>> /\ (\A i \in Slot : ~full[i]) /\ from = 0 /\ next = 0 /\ reader' = "on"
        /\ UNCHANGED <<full, read, from, next, todo, made, cur, off, pos>>
    BY <1>4 DEF Connect, Control, place, Record, encoder, writer
  <2>2. Base' = made /\ read.upto <= made /\ Place' = 0 /\ next' = 0
    BY <2>1 DEF Typed, Reads, Base, Place
  <2>3. Dist(0, 0) = 0 /\ \A i \in Slot : Dist(0, i) \in Nat
    <3>1. 0 \in Slot
      BY <1>0, <2>1
    <3> QED
      BY <3>1, DistIs
  <2>4. \A i \in Slot : ~(Dist(Place', i) < Dist(Place', next'))
    BY <2>2, <2>3
  <2> QED
    BY <1>0, <2>1, <2>2, <2>4 DEF InRow
<1>5. CASE ReadFrame
  <2>1. /\ UNCHANGED <<settled, connected, overtaken, full, data, next, read, from, seen, made, todo>>
        /\ reader = "on" /\ Place = from /\ Place' = Place /\ (Half' <=> Half)
        /\ (reader' = "scan" => ~full[from] /\ cur' = from /\ seen = 0)
    BY <1>5, <1>0 DEF ReadFrame, Copying, timing, ring, history, Record, writer, encoder, Place, Half, Control,
       Typed, Numbers
  <2>2. Base' = Base
    BY <2>1 DEF Base
  <2>3. ASSUME settled, connected, ~overtaken, ~full[from] PROVE \A i \in Slot : ~full[i]
    <3>1. \A i \in Slot : Dist(from, i) \in Nat /\ (Dist(from, i) = 0 <=> i = from)
      BY <1>0, DistIs
    <3>2. ~(Dist(from, from) < Dist(from, next))
      BY <1>0, <2>1, <2>3 DEF InRow
    <3>3. next = from
      BY <1>0, <3>1, <3>2
    <3> QED
      BY <1>0, <2>1, <2>3, <3>1, <3>3 DEF InRow
  <2>4. Dist(from, from) = 0
    BY <1>0, DistIs
  <2> QED
    BY <2>1, <2>2, <2>3, <2>4 DEF InRow
<1>6. CASE Scan
  <2> SUFFICES ASSUME settled, connected, ~overtaken PROVE InRow'
    BY <1>6 DEF Scan, timing, ring, InRow
  <2>1. /\ UNCHANGED <<settled, connected, overtaken, full, data, next, read, made, todo>>
        /\ reader = "scan" /\ Place = from /\ ~Half
    BY <1>6 DEF Scan, timing, ring, history, Record, writer, encoder, Place, Once
  <2>2. /\ \A i \in Slot : ~full[i]
        /\ seen = IF cur = from /\ seen # 0 THEN Slots ELSE Dist(from, cur)
    BY <2>1 DEF InRow
  <2>3. Base' = Base
    BY <2>1 DEF Base
  <2>4. Dist(from, cur) \in 0..(Slots - 1) /\ (Dist(from, cur) = 0 <=> cur = from) /\ Succ(cur) \in Slot
    BY <1>0, DistIs
  <2>5. CASE seen < Slots /\ cur' = Succ(cur) /\ seen' = seen + 1 /\ UNCHANGED <<off, from, pos, reader>>
    <3>1. seen = Dist(from, cur)
      BY <1>0, <2>2, <2>4, <2>5
    <3>2. IF Succ(cur) = from THEN Dist(from, cur) = Slots - 1 ELSE Dist(from, Succ(cur)) = Dist(from, cur) + 1
      BY <1>0, DistNext
    <3>3. seen' = IF cur' = from' /\ seen' # 0 THEN Slots ELSE Dist(from', cur')
      BY <1>0, <2>4, <2>5, <3>1, <3>2
    <3>4. Place' = Place /\ (Half' <=> Half)
      BY <2>1, <2>5 DEF Place, Half
    <3> QED
      BY <2>1, <2>2, <2>3, <3>3, <3>4 DEF InRow
  <2>6. CASE seen = Slots /\ Returns(cur, 0)
    <3>1. cur = from
      BY <1>0, <2>2, <2>4, <2>6
    <3>2. Place' = Place /\ ~Half' /\ reader' = "on"
      BY <2>1, <2>6, <3>1 DEF Returns, Place, Half
    <3> QED
      BY <2>1, <2>2, <2>3, <3>2 DEF InRow
  <2> QED
    BY <1>6, <2>2, <2>4, <2>5, <2>6 DEF Scan
<1>7. connected' => (AddPart => connected)
  BY DEF AddPart, ring
<1> QED
  BY <1>1, <1>2, <1>3, <1>4, <1>5, <1>6, <1>7, StepCases, InRowFilled, InRowCopied

\* A slot is filled: it goes on from the last one, or begins an I frame.
LEMMA KeyedFilled ==
  ASSUME Typed, Control, Once, InRow, Keyed, CopyPart
  PROVE  Keyed'
<1> SUFFICES ASSUME settled, connected, ~overtaken PROVE Keyed'
  BY DEF CopyPart, Overtakes, Keyed
<1>1. /\ Base' = Base + 2 /\ adding = "copy" /\ UNCHANGED <<dropped, fresh, read>>
      /\ data' = [data EXCEPT ![next] = Part(Base, KeyNext)]
      /\ full' = [full EXCEPT ![next] = TRUE] /\ ~full[next] /\ next' = Succ(next)
      /\ Place' = Place /\ (Half' <=> Half) /\ (Half => full[Place])
  BY Filling DEF Typed, CopyPart, Once, history, place, Place, Half
<1>2. Part(Base, KeyNext).after = Base /\ Part(Base, KeyNext).key = KeyNext
  BY DEF Part
<1>3. /\ data'[next].after = Base /\ data'[next].key = KeyNext /\ full'[next]
      /\ \A i \in Slot : i # next => data'[i] = data[i] /\ full'[i] = full[i]
  BY <1>1, <1>2 DEF Typed, SlotTypes, Numbers
<1>4. /\ Base \in Nat /\ Place \in Slot /\ next \in Slot /\ Slots \in Nat \ {0}
      /\ \A i \in Slot : data[i].after \in Nat /\ full[i] \in BOOLEAN
  BY Facts
<1>5. \A i \in Slot : full[i] <=> Dist(Place, i) < Dist(Place, next)
  BY <1>1, <1>4 DEF InRow
<1>6. ~dropped
  BY <1>1 DEF Keyed
<1>7. \/ KeyNext
      \/ (\E i \in Slot : full[i]) /\ \A i \in Slot : full[i] /\ Succ(i) = next => data[i].after + 2 = Base
      \/ (\A i \in Slot : ~full[i]) /\ (fresh \/ read.upto = Base)
  BY <1>6 DEF Keyed
<1>8. ASSUME NEW i \in Slot, full'[i], full'[Succ(i)], Succ(i) # Place
      PROVE  data'[Succ(i)].key \/ data'[Succ(i)].after = data'[i].after + 2
  <2>1. Succ(i) \in Slot /\ (Succ(i) = i => i = Place)
    <3>1. Succ(i) \in Slot /\ (Succ(i) = i => Slots = 1)
      BY DistIs
    <3>2. Slots = 1 => i = Place
      BY <1>4 DEF Slot
    <3> QED
      BY <3>1, <3>2
  <2>2. CASE i # next /\ Succ(i) # next
    BY <1>3, <1>8, <2>1, <2>2 DEF Keyed
  <2>3. CASE i # next /\ Succ(i) = next
    <3>1. full[i]
      BY <1>3, <1>8, <2>3
    <3>2. KeyNext \/ data[i].after + 2 = Base
      BY <1>7, <2>3, <3>1
    <3> QED
      BY <1>3, <2>3, <3>2
  <2>4. CASE i = next
    <3>1. Succ(next) # next /\ full[Succ(next)]
      BY <1>3, <1>8, <2>1, <2>4
    <3>2. Dist(Place, Succ(next)) = Dist(Place, next) + 1 /\ Dist(Place, next) \in Nat
      BY <1>4, <1>8, <2>4, DistNext, DistIs
    <3> QED
      BY <1>5, <2>1, <2>4, <3>1, <3>2
  <2> QED
    BY <2>2, <2>3, <2>4
<1>9. full'[Place'] => \/ fresh' /\ ~Half'
                       \/ data'[Place'].key /\ ~Half'
                       \/ read'.upto = data'[Place'].after + (IF Half' THEN 1 ELSE 0)
  <2>1. CASE Place # next
    BY <1>1, <1>3, <1>4, <2>1 DEF Keyed
  <2>2. CASE Place = next
    <3>1. \A i \in Slot : ~full[i]
      <4>1. \A i \in Slot : Dist(Place, i) \in Nat /\ Dist(Place, next) = 0
        BY <1>4, <2>2, DistIs
      <4> QED
        BY <1>5, <4>1
    <3>2. ~Half
      BY <1>1, <2>2
    <3>3. KeyNext \/ fresh \/ read.upto = Base
      BY <1>7, <3>1
    <3> QED
      BY <1>1, <1>3, <1>4, <2>2, <3>2, <3>3
  <2> QED
    BY <2>1, <2>2
<1>10. (\E i \in Slot : full'[i]) /\ \A i \in Slot : full'[i] /\ Succ(i) = next' => data'[i].after + 2 = Base'
  <2>1. \A i \in Slot : Succ(i) = Succ(next) => i = next
    BY <1>4, DistIs
  <2> QED
    BY <1>1, <1>3, <1>4, <2>1
<1> QED
  BY <1>1, <1>6, <1>8, <1>9, <1>10 DEF Keyed

\* A slot is copied: the next one goes on from it, or begins an I frame.
LEMMA KeyedCopied ==
  ASSUME Typed, Control, Once, InRow, Keyed, CopySlot
  PROVE  Keyed'
<1> SUFFICES ASSUME settled, connected, ~overtaken PROVE Keyed'
  BY DEF CopySlot, timing, Keyed
<1>1. /\ UNCHANGED <<settled, connected, overtaken, data, made, todo, next, dropped, adding>>
      /\ Base' = Base /\ KeyNext' = KeyNext /\ reader' # "scan" /\ Place = cur /\ full[cur]
  BY CopyCases
<1>2. /\ Base \in Nat /\ cur \in Slot /\ next \in Slot /\ Slots \in Nat \ {0}
      /\ \A i \in Slot : data[i].after \in Nat /\ full[i] \in BOOLEAN
  BY Facts
<1>3. adding' # "idle" => ~dropped'
  BY <1>1 DEF Keyed
<1>4. \/ dropped \/ KeyNext
      \/ \A i \in Slot : full[i] /\ Succ(i) = next => data[i].after + 2 = Base
  BY <1>1, <1>2 DEF Keyed
<1>5. CASE /\ full' = [full EXCEPT ![cur] = FALSE] /\ Place' = Succ(cur) /\ ~Half'
           /\ read'.upto = data[cur].after + 2
  <2>1. ~full'[cur] /\ \A i \in Slot : i # cur => full'[i] = full[i]
    BY <1>2, <1>5 DEF Typed, SlotTypes
  <2>2. Succ(cur) \in Slot /\ \A i \in Slot : Succ(i) \in Slot
    BY <1>2, DistIs
  <2>3. \A i \in Slot : full'[i] /\ full'[Succ(i)] =>
          data[Succ(i)].key \/ data[Succ(i)].after = data[i].after + 2
    BY <1>1, <2>1, <2>2 DEF Keyed
  <2>4. full'[Succ(cur)] => data[Succ(cur)].key \/ data[Succ(cur)].after = data[cur].after + 2
    <3>1. full'[Succ(cur)] => Succ(cur) # cur /\ full[Succ(cur)]
      BY <2>1, <2>2
    <3> QED
      BY <1>1, <1>2, <3>1 DEF Keyed
  <2>5. ASSUME \A i \in Slot : ~full'[i] PROVE next = Succ(cur)
    <3>1. \A i \in Slot : ~(Dist(Succ(cur), i) < Dist(Succ(cur), next))
      <4>1. InRow'
        BY InRowCopied
      <4>2. settled' /\ connected' /\ ~overtaken'
        BY <1>1
      <4> QED
        BY <1>1, <1>5, <2>5, <4>1, <4>2 DEF InRow
    <3>2. Dist(Succ(cur), Succ(cur)) = 0 /\ Dist(Succ(cur), next) \in Nat
      BY <1>2, <2>2, DistIs
    <3>3. Dist(Succ(cur), next) = 0
      BY <2>2, <3>1, <3>2
    <3> QED
      BY <1>2, <2>2, <3>3, DistIs
  <2>6. \/ dropped \/ KeyNext
        \/ (\E i \in Slot : full'[i]) /\ \A i \in Slot : full'[i] /\ Succ(i) = next => data[i].after + 2 = Base
        \/ (\A i \in Slot : ~full'[i]) /\ read'.upto = Base
    <3>1. CASE \A i \in Slot : ~full'[i]
      BY <1>1, <1>2, <1>4, <1>5, <2>5, <3>1
    <3>2. CASE \E i \in Slot : full'[i]
      BY <1>4, <2>1, <3>2
    <3> QED
      BY <3>1, <3>2
  <2>7. /\ \A i \in Slot : full'[i] /\ full'[Succ(i)] =>
             data'[Succ(i)].key \/ data'[Succ(i)].after = data'[i].after + 2
        /\ full'[Place'] => \/ data'[Place'].key /\ ~Half'
                            \/ read'.upto = data'[Place'].after + (IF Half' THEN 1 ELSE 0)
    BY <1>1, <1>2, <1>5, <2>2, <2>3, <2>4
  <2> QED
    BY <1>1, <1>3, <2>6, <2>7 DEF Keyed
<1>6. CASE full' = full /\ Place' = cur /\ Half' /\ read'.upto = data[cur].after + 1
  <2>1. \/ dropped \/ KeyNext
        \/ (\E i \in Slot : full[i]) /\ \A i \in Slot : full[i] /\ Succ(i) = next => data[i].after + 2 = Base
    BY <1>1, <1>2, <1>4
  <2> QED
    BY <1>1, <1>3, <1>6, <2>1 DEF Keyed
<1>7. CASE full' = full /\ Place' = cur /\ (Half' <=> Half) /\ read' = read /\ fresh' = fresh
  BY <1>1, <1>7 DEF Keyed
<1> QED
  BY <1>5, <1>6, <1>7, CopyCases

\* Keyed is inductive.
LEMMA KeyedStep == Typed /\ Control /\ Once /\ InRow /\ Keyed /\ [Next]_vars => Keyed'
<1> SUFFICES ASSUME Typed, Control, Once, InRow, Keyed, [Next]_vars PROVE Keyed'
  OBVIOUS
<1>1. CASE UNCHANGED View
  BY <1>1 DEF View, Keyed, Base, KeyNext, Place, Half
<1>2. CASE ~connected'
  BY <1>2 DEF Keyed
<1>3. CASE OnFrame
  <2>1. /\ UNCHANGED <<settled, connected, overtaken, full, data, next, read, fresh, reader, adding, dropped>>
        /\ Place' = Place /\ (Half' <=> Half) /\ todo = <<>>
    BY <1>3 DEF OnFrame, timing, ring, history, place, writer, Place, Half
  <2>2. Base' = Base /\ ~KeyNext
    BY <1>3, <2>1, FrameMade DEF Typed, Numbers, KeyNext
  <2> QED
    BY <2>1, <2>2 DEF Keyed
<1>4. CASE AddVid
  <2>1. /\ UNCHANGED <<settled, connected, overtaken, full, data, next, read, fresh, reader, made>>
        /\ Place' = Place /\ (Half' <=> Half)
    BY <1>4 DEF AddVid, timing, ring, history, place, Place, Half
  <2>2. CASE dropped' = dropped /\ dropped /\ adding' = adding /\ adding = "idle"
    BY <2>1, <2>2 DEF Keyed
  <2>3. CASE ~dropped' /\ UNCHANGED todo /\ (~dropped \/ todo[1].type = "I")
    <3>1. dropped => KeyNext
      BY <1>4, <2>3, FirstPart DEF AddVid, Typed, Numbers
    <3>2. Base' = Base /\ KeyNext' = KeyNext
      BY <2>1, <2>3 DEF Base, KeyNext
    <3> QED
      BY <2>1, <2>3, <3>1, <3>2 DEF Keyed
  <2> QED
    BY <1>4, <2>2, <2>3 DEF AddVid
<1>5. CASE AddPart /\ connected
  <2>1. /\ UNCHANGED <<settled, connected, overtaken, full, data, next, read, fresh, reader, made>>
        /\ Place' = Place /\ (Half' <=> Half)
    BY <1>5 DEF AddPart, timing, ring, history, place, Place, Half
  <2>2. CASE dropped' /\ adding' = "idle"
    BY <2>1, <2>2 DEF Keyed
  <2>3. CASE UNCHANGED <<todo, dropped>> /\ adding = "check"
    <3>1. Base' = Base /\ KeyNext' = KeyNext
      BY <2>1, <2>3 DEF Base, KeyNext
    <3> QED
      BY <2>1, <2>3, <3>1 DEF Keyed
  <2> QED
    BY <1>5, <2>2, <2>3 DEF AddPart
<1>6. CASE Connect
  <2> SUFFICES ASSUME settled PROVE Keyed'
    BY <1>6 DEF Connect, timing, Keyed
  <2>1. /\ todo = <<>> /\ (\A i \in Slot : ~full'[i]) /\ adding' = adding /\ fresh' /\ from' \in Slot
        /\ reader' = "on"
    BY <1>6 DEF Connect, Control, place, Record, encoder, writer, Typed, Numbers
  <2>2. adding = "idle" /\ Place' \in Slot
    BY <2>1 DEF Typed, Frames, Place
  <2>3. \A i \in Slot : Succ(i) \in Slot
    BY DistIs
  <2> QED
    BY <2>1, <2>2, <2>3 DEF Keyed
<1>7. CASE ReadFrame
  <2>1. /\ UNCHANGED <<settled, connected, overtaken, full, data, next, read, fresh, made, todo, adding, dropped>>
        /\ Place' = Place /\ (Half' <=> Half)
    BY <1>7 DEF ReadFrame, Copying, timing, ring, history, Record, writer, encoder, Place, Half, Typed, Numbers
  <2>2. Base' = Base /\ KeyNext' = KeyNext
    BY <2>1 DEF Base, KeyNext
  <2> QED
    BY <2>1, <2>2 DEF Keyed
<1>8. CASE Scan
  <2> SUFFICES ASSUME settled, connected, ~overtaken PROVE Keyed'
    BY <1>8 DEF Scan, timing, ring, Keyed
  <2>1. /\ UNCHANGED <<settled, connected, overtaken, full, data, next, read, fresh, made, todo, adding, dropped>>
        /\ reader = "scan"
    BY <1>8 DEF Scan, timing, ring, history, Record, writer, encoder
  <2>2. (\A i \in Slot : ~full'[i]) /\ Succ(cur) \in Slot
    BY <2>1, SuccIs DEF InRow, Typed, Numbers
  <2>3. Place' \in Slot /\ \A i \in Slot : Succ(i) \in Slot
    <3>1. cur' \in Slot /\ from' \in Slot
      BY NumbersStep DEF Typed, Numbers
    <3> QED
      BY <3>1, DistIs DEF Place
  <2>4. Base' = Base /\ KeyNext' = KeyNext
    BY <2>1 DEF Base, KeyNext
  <2> QED
    BY <2>1, <2>2, <2>3, <2>4 DEF Keyed
<1>9. connected' => (AddPart => connected)
  BY DEF AddPart, ring
<1> QED
  BY <1>1, <1>2, <1>3, <1>4, <1>5, <1>6, <1>7, <1>8, <1>9, StepCases, KeyedFilled, KeyedCopied
-----------------------------------------------------------------------------
\* FreshStart is kept if the ring, the reader and what is to be added are.
LEMMA FreshKept ==
  ASSUME FreshStart, starts \subseteq starts', UNCHANGED <<full, data, todo>>,
         encoding' => encoding, fed' = fed,
         settled' /\ connected' /\ ~overtaken' /\ fresh' =>
           settled /\ connected /\ ~overtaken /\ fresh /\ ~Half' /\ (full[Place'] => Place' = Place)
  PROVE  FreshStart'
<1>1. todo # <<>> => Base' = Base
  BY DEF Base
<1> QED
  BY <1>1 DEF FreshStart

\* FreshStart is inductive.
LEMMA FreshStep ==
  Typed /\ Control /\ Once /\ InRow /\ FreshStart /\ [Next]_vars => FreshStart'
<1> SUFFICES ASSUME Typed, Control, Once, InRow, FreshStart, [Next]_vars,
                    settled', connected', ~overtaken', fresh'
             PROVE  FreshStart'
  BY DEF FreshStart
<1>0. starts \subseteq starts'
  BY FramesStep, StartsStep DEF Typed, Numbers, Reads
<1>1. CASE LiveStart \/ LiveReset \/ LiveStop \/ LiveStopped
  <2>1. /\ UNCHANGED <<connected, settled, overtaken, fresh, full, data, todo, starts>>
        /\ Place' = Place /\ Half' = Half
        /\ (encoding' => ~fed') \/ (fed' = fed /\ encoding' = encoding)
    BY <1>1 DEF LiveStart, LiveReset, LiveStop, LiveStopped, ring, history, timing, place, Place, Half
  <2>2. todo # <<>> => Base' = Base
    BY <2>1 DEF Base
  <2> QED
    BY <2>1, <2>2 DEF FreshStart
<1>2. CASE OnFrame
  <2>1. /\ UNCHANGED <<connected, settled, overtaken, fresh, full, data>> /\ Place' = Place /\ Half' = Half
        /\ todo = <<>> /\ encoding
        /\ fed \/ /\ todo' = <<Frame1("SPS", made), FrameI(made + 2)>>
                  /\ made \in starts' /\ made + 2 \in starts'
    BY <1>2 DEF OnFrame, ring, timing, place, Place, Half
  <2>2. Base' = made /\ todo' # <<>>
    BY <1>2, FrameMade DEF Typed, Numbers, OnFrame, Base
  <2>3. CASE \A i \in Slot : ~full[i]
    <3>1. todo' = <<Frame1("SPS", made), FrameI(made + 2)>> /\ made \in starts' /\ made + 2 \in starts'
      BY <2>1, <2>3 DEF FreshStart
    <3>2. todo'[1].type = "SPS"
      <4>1. todo'[1] = Frame1("SPS", made)
        BY <3>1, Tuples, Zenon
      <4> QED
        BY <4>1 DEF Frame1
    <3> QED
      BY <1>0, <2>1, <2>2, <2>3, <3>1, <3>2 DEF FreshStart
  <2> QED
    BY <1>0, <2>1, <2>3 DEF FreshStart
<1>3. CASE AddVid
  <2>1. /\ UNCHANGED <<connected, settled, overtaken, fresh, full, data, starts, encoding, fed, made>>
        /\ Place' = Place /\ Half' = Half /\ todo # <<>>
        /\ UNCHANGED todo \/ (todo[1].type # "I" /\ todo' = Tail(todo))
    BY <1>3 DEF AddVid, ring, history, timing, place, Place, Half
  <2>2. CASE UNCHANGED todo
    <3>1. ~Half'
      BY <2>1 DEF FreshStart
    <3> QED
      BY <1>0, <2>1, <2>2, <3>1, FreshKept
  <2>3. CASE todo[1].type # "I" /\ todo' = Tail(todo)
    <3>1. CASE todo[1].type = "SPS" /\ Base + 2 \in starts
      <4>1. PICK u \in Nat : Base = u /\ todo' = <<FrameI(u + 2)>>
        BY <2>1, <2>3, <3>1, FrameCases DEF Typed, Numbers
      <4>2. todo' # <<>> /\ Base' = u + 2
        BY <4>1, FirstOfI DEF Base
      <4>3. todo'[1].type = "I"
        BY <4>1, FrameParts, Tuples, Zenon
      <4> QED
        BY <2>1, <3>1, <4>1, <4>2, <4>3 DEF FreshStart
    <3>2. CASE ~\A i \in Slot : ~full[i]
      BY <2>1, <3>2 DEF FreshStart
    <3> QED
      BY <2>1, <2>3, <3>1, <3>2 DEF FreshStart
  <2> QED
    BY <2>1, <2>2, <2>3
<1>4. CASE AddPart
  <2>1. /\ UNCHANGED <<connected, settled, overtaken, fresh, full, data, starts, encoding, fed>>
        /\ Place' = Place /\ Half' = Half /\ (UNCHANGED todo \/ full[next])
    BY <1>4 DEF AddPart, ring, history, timing, place, Place, Half
  <2>2. CASE UNCHANGED todo
    <3>1. ~Half'
      BY <2>1 DEF FreshStart
    <3> QED
      BY <1>0, <2>1, <2>2, <3>1, FreshKept
  <2>3. CASE full[next]
    <3>1. next \in Slot
      BY DEF Typed, Numbers
    <3> QED
      BY <2>1, <2>3, <3>1 DEF FreshStart
  <2> QED
    BY <2>1, <2>2, <2>3
<1>5. CASE CopyPart
  <2>1. /\ UNCHANGED <<connected, settled, fresh, starts>> /\ Place' = Place /\ Half' = Half /\ ~overtaken
        /\ data' = [data EXCEPT ![next] = Part(Base, KeyNext)] /\ full' = [full EXCEPT ![next] = TRUE]
        /\ ~full[next] /\ next \in Slot /\ Place \in Slot /\ todo # <<>>
    BY <1>5, Filling DEF Typed, CopyPart, Overtakes, Once, history, place, Place, Half, Numbers
  <2>2. ~Half' /\ full'[next]
    BY <2>1 DEF FreshStart, Typed, SlotTypes
  <2>3. data'[Place].after \in starts'
    <3>1. CASE next = Place
      <4>1. \A i \in Slot : ~full[i]
        <5>1. Dist(Place, next) = 0 /\ \A i \in Slot : Dist(Place, i) \in Nat
          BY <2>1, <3>1, DistIs
        <5>2. \A i \in Slot : ~(Dist(Place, i) < Dist(Place, next))
          BY <5>1
        <5> QED
          BY <2>1, <3>1, <5>2 DEF InRow
      <4>2. Base \in starts
        BY <2>1, <4>1 DEF FreshStart
      <4>3. data'[Place].after = Base
        BY <2>1, <3>1 DEF Typed, SlotTypes, Part
      <4> QED
        BY <2>1, <4>2, <4>3
    <3>2. CASE next # Place
      <4>1. full[Place]
        <5>1. Dist(Place, next) \in Nat /\ Dist(Place, next) # 0 /\ Dist(Place, Place) = 0
          BY <2>1, <3>2, DistIs
        <5>2. Dist(Place, Place) < Dist(Place, next)
          BY <5>1
        <5> QED
          BY <2>1, <5>2 DEF InRow
      <4>2. data'[Place] = data[Place]
        BY <2>1, <3>2 DEF Typed, SlotTypes
      <4> QED
        BY <2>1, <4>1, <4>2 DEF FreshStart
    <3> QED
      BY <3>1, <3>2
  <2> QED
    BY <2>1, <2>2, <2>3 DEF FreshStart
<1>6. CASE Connect
  <2>1. /\ ~encoding' /\ todo' = <<>> /\ (\A i \in Slot : ~full'[i]) /\ pos' = 0 /\ reader' = "on" /\ from' = 0
    BY <1>6 DEF Connect, Control, place, timing, Record, encoder
  <2>2. Place' \in Slot /\ ~Half'
    BY <2>1, SlotsType DEF Place, Half, Slot
  <2> QED
    BY <2>1, <2>2 DEF FreshStart
<1>7. CASE ReadFrame
  <2>1. /\ UNCHANGED <<connected, settled, overtaken, fresh, full, data, todo, encoding, fed>> /\ Place' = Place
        /\ (Half' <=> Half)
    BY <1>7 DEF ReadFrame, Copying, timing, ring, history, Record, encoder, Place, Half, Typed, Numbers
  <2>2. ~Half
    BY <2>1 DEF FreshStart
  <2> QED
    BY <1>0, <2>1, <2>2, FreshKept
<1>8. CASE Scan
  <2>1. /\ UNCHANGED <<connected, settled, overtaken, fresh, full, data, todo, encoding, fed>> /\ reader = "scan"
    BY <1>8 DEF Scan, timing, ring, history, Record, encoder
  <2>2. (\A i \in Slot : ~full[i]) /\ ~Half
    BY <2>1 DEF InRow, FreshStart
  <2>3. Place' \in Slot
    BY NumbersStep DEF Typed, Numbers, Place
  <2>4. ~Half'
    BY <1>8, <2>1, <2>2 DEF Scan, Copying, Returns, Half, Typed, Numbers
  <2> QED
    BY <1>0, <2>1, <2>2, <2>3, <2>4, FreshKept
<1>9. CASE CopySlot
  <2>1. settled /\ connected
    BY <1>9 DEF CopySlot, timing
  <2>2. /\ full' = full /\ Place' = Place /\ (Half' <=> Half) /\ fresh' = fresh
        /\ UNCHANGED <<settled, connected, overtaken, data, todo>>
    BY <1>9, <2>1, CopyCases
  <2>3. UNCHANGED <<encoding, fed>>
    BY <1>9 DEF CopySlot, Record, encoder
  <2>4. ~Half
    BY <2>2 DEF FreshStart
  <2> QED
    BY <1>0, <2>2, <2>3, <2>4, FreshKept
<1>10. CASE Attach \/ Disconnect \/ Cleared \/ Detach
  BY <1>10 DEF Attach, Disconnect, Cleared, Detach, Control, ring
<1>11. CASE UNCHANGED vars
  <2>1. UNCHANGED <<connected, settled, overtaken, fresh, full, data, todo, encoding, fed, Place, Half>>
    BY <1>11 DEF vars, ring, encoder, place, history, timing, Place, Half
  <2>2. ~Half
    BY <2>1 DEF FreshStart
  <2> QED
    BY <1>0, <2>1, <2>2, FreshKept
<1> QED
  BY <1>1, <1>2, <1>3, <1>4, <1>5, <1>6, <1>7, <1>8, <1>9, <1>10, <1>11 DEF Next, RecordProcess, RtspLive
-----------------------------------------------------------------------------
\* The inductive invariant and its consequences
IInv == Typed /\ Flags /\ Control /\ Once /\ InRow /\ Keyed /\ FreshStart

\* Nothing to add is a sequence of frames.
LEMMA EmptyTodo == <<>> \in Seq([type : {"SPS", "I", "P"}, parts : Seq(Parts)])
  OBVIOUS

\* The invariant holds before the first visit.
LEMMA Initially == Init => IInv /\ SettledInOrder /\ GapsAtKeys /\ StartsDecodable
<1> SUFFICES ASSUME Init PROVE IInv /\ SettledInOrder /\ GapsAtKeys /\ StartsDecodable
  OBVIOUS
<1> USE SlotsType
<1>1. Numbers
  BY DEF Init, Numbers, Slot
<1>2. Part(0, FALSE) \in Parts /\ Part(0, FALSE).after = 0
  BY DEF Part, Parts
<1>3. SlotTypes
  BY <1>2, Zenon DEF Init, SlotTypes
<1>4. Contents
  <2>1. \A i \in Slot : data[i] = Part(0, FALSE) /\ ~full[i]
    BY DEF Init
  <2>2. \A i \in Slot : data[i].after = 0 /\ ~full[i]
    BY <1>2, <2>1, Zenon
  <2>3. reader # "copy"
    BY DEF Init
  <2> QED
    BY <2>2, <2>3 DEF Contents
<1>5. Reads
  <2>1. read \in [last : 0..MaxUnits, after : 0..MaxUnits, upto : 0..MaxUnits, key : BOOLEAN, new : BOOLEAN]
    BY DEF Init
  <2> QED
    BY <2>1 DEF Init, Reads
<1>6. Frames /\ Flags /\ Control
  BY DEF Init, Frames, Flags, Control
<1>7. Once /\ InRow /\ Keyed /\ FreshStart
  BY DEF Init, Once, InRow, Keyed, FreshStart
<1>8. SettledInOrder /\ GapsAtKeys /\ StartsDecodable
  BY DEF Init, SettledInOrder, GapsAtKeys, StartsDecodable
<1> QED
  BY <1>1, <1>3, <1>4, <1>5, <1>6, <1>7, <1>8 DEF IInv, Typed

\* Every step keeps the invariant.
LEMMA Inductive == IInv /\ [Next]_vars => IInv'
<1> SUFFICES ASSUME IInv, [Next]_vars PROVE IInv'
  OBVIOUS
<1>1. Typed /\ Flags /\ Control /\ Once /\ InRow /\ Keyed /\ FreshStart
  BY DEF IInv
<1>2. Numbers /\ SlotTypes /\ Frames /\ Contents /\ Reads
  BY <1>1 DEF Typed
<1>3. Frames'
  BY <1>2, FramesStep DEF Numbers
<1>4. Numbers' /\ SlotTypes' /\ Contents' /\ Reads'
  BY <1>1, <1>2, NumbersStep, SlotsStep, ContentsStep, ReadsStep
<1>5. Flags' /\ Control' /\ Once' /\ InRow' /\ Keyed' /\ FreshStart'
  BY <1>1, <1>2, FlagsStep, ControlStep, OnceStep, InRowStep, KeyedStep, FreshStep
<1> QED
  BY <1>3, <1>4, <1>5 DEF IInv, Typed

\* IInv holds in every behaviour.
THEOREM Invariant == Spec => []IInv
  BY Initially, Inductive, PTL DEF Spec

\* Sequences of one and of two elements
LEMMA ShortSeqs == ASSUME NEW S, NEW x \in S, NEW y \in S PROVE <<x>> \in Seq(S) /\ <<x, y>> \in Seq(S)
  OBVIOUS

\* The frames of the callback are sequences of parts.
LEMMA TodoType ==
  ASSUME Frames, made \in Nat, made <= MaxUnits
  PROVE  /\ todo \in Seq([type : {"SPS", "I", "P"}, parts : Seq(Parts)])
         /\ \A n \in 1..Len(todo) : todo[n].parts # <<>>
<1> DEFINE Made(f) == f \in [type : {"SPS", "I", "P"}, parts : Seq(Parts)] /\ f.parts # <<>>
<1>1. ASSUME NEW u \in Nat, u + 2 <= made, NEW t \in {"SPS", "I", "P"} PROVE Made(Frame1(t, u))
  <2>1. Part(u, FALSE) \in Parts
    BY <1>1, SlotsType DEF Part, Parts
  <2>2. <<Part(u, FALSE)>> \in Seq(Parts)
    BY <2>1, ShortSeqs, Zenon
  <2> QED
    BY <2>2, OnePart, Tuples DEF Frame1
<1>2. ASSUME NEW u \in Nat, u + 4 <= made PROVE Made(FrameI(u))
  <2>1. Part(u, TRUE) \in Parts /\ Part(u + 2, FALSE) \in Parts
    BY <1>2, SlotsType DEF Part, Parts
  <2>2. <<Part(u, TRUE), Part(u + 2, FALSE)>> \in Seq(Parts)
    BY <2>1, ShortSeqs, Zenon
  <2> QED
    BY <2>2, FrameParts, Tuples DEF FrameI
<1>3. ASSUME NEW f, Made(f)
      PROVE  /\ <<f>> \in Seq([type : {"SPS", "I", "P"}, parts : Seq(Parts)])
             /\ \A n \in 1..Len(<<f>>) : <<f>>[n].parts # <<>>
  BY <1>3
<1>4. ASSUME NEW f, Made(f), NEW g, Made(g)
      PROVE  /\ <<f, g>> \in Seq([type : {"SPS", "I", "P"}, parts : Seq(Parts)])
             /\ \A n \in 1..Len(<<f, g>>) : <<f, g>>[n].parts # <<>>
  BY <1>4
<1> HIDE DEF Made
<1>5. CASE todo = <<>>
  BY <1>5, EmptyTodo
<1>6. CASE \E u \in 0..made : made = u + 6 /\ todo = <<Frame1("SPS", u), FrameI(u + 2)>>
  <2>1. PICK u \in 0..made : made = u + 6 /\ todo = <<Frame1("SPS", u), FrameI(u + 2)>>
    BY <1>6
  <2>2. Made(Frame1("SPS", u)) /\ Made(FrameI(u + 2))
    BY <1>1, <1>2, <2>1
  <2> QED
    BY <1>4, <2>1, <2>2, Zenon
<1>7. CASE \E u \in 0..made : made = u + 4 /\ todo = <<FrameI(u)>>
  <2>1. PICK u \in 0..made : made = u + 4 /\ todo = <<FrameI(u)>>
    BY <1>7
  <2>2. Made(FrameI(u))
    BY <1>2, <2>1
  <2> QED
    BY <1>3, <2>1, <2>2, Zenon
<1>8. CASE \E u \in 0..made, t \in {"SPS", "I", "P"} : made = u + 2 /\ todo = <<Frame1(t, u)>>
  <2>1. PICK u \in 0..made, t \in {"SPS", "I", "P"} : made = u + 2 /\ todo = <<Frame1(t, u)>>
    BY <1>8
  <2>2. Made(Frame1(t, u))
    BY <1>1, <2>1
  <2> QED
    BY <1>3, <2>1, <2>2, Zenon
<1> QED
  BY <1>5, <1>6, <1>7, <1>8 DEF Frames

\* Every variable has its type.
THEOREM TypeCorrect == Spec => []TypeOK
<1>1. IInv => TypeOK
  <2> SUFFICES ASSUME IInv PROVE TypeOK
    OBVIOUS
  <2>1. /\ Numbers /\ Flags /\ SlotTypes /\ Frames /\ Reads
    BY DEF IInv, Typed
  <2>2. /\ todo \in Seq([type : {"SPS", "I", "P"}, parts : Seq(Parts)])
        /\ \A n \in 1..Len(todo) : todo[n].parts # <<>>
    BY <2>1, TodoType DEF Numbers
  <2>3. adding # "idle" => todo # <<>>
    BY <2>1 DEF Frames
  <2>4. made \in 0..MaxUnits /\ heard \subseteq 1..MaxUnits /\ starts \subseteq 0..MaxUnits
    BY <2>1, SlotsType DEF Numbers, Reads
  <2>5. {settled, overtaken} \subseteq BOOLEAN
    BY <2>1 DEF Flags
  <2> QED
    BY <2>1, <2>2, <2>3, <2>4, <2>5, Zenon DEF Numbers, Flags, SlotTypes, Reads, TypeOK
<1> QED
  BY <1>1, Invariant, PTL

\* When something is copied, from where
LEMMA Copied ==
  ASSUME IInv, [Next]_vars, ~UNCHANGED <<read, heard>>
  PROVE  /\ CopySlot /\ connected /\ Place = cur /\ (Half <=> off = 1) /\ off \in {0, 1} /\ cur \in Slot
         /\ data[cur].after \in Nat /\ read'.last = read.upto /\ read'.after = data[cur].after + off
         /\ read'.key = (data[cur].key /\ off = 0) /\ read'.new = fresh
         /\ read'.upto \in {data[cur].after + 1, data[cur].after + 2}
         /\ settled => full[cur]
         /\ UNCHANGED <<settled, overtaken>>
<1>1. CopySlot
  BY DEF Next, RecordProcess, LiveStart, LiveReset, LiveStop, LiveStopped, OnFrame, AddVid, AddPart, CopyPart,
     RtspLive, Attach, Connect, Disconnect, Cleared, Detach, ReadFrame, Scan, vars, history
<1>2. Contents /\ SlotTypes /\ Numbers /\ Control /\ Once
  BY DEF IInv, Typed
<1>3. connected /\ Place = cur /\ (Half <=> off = 1) /\ off \in {0, 1} /\ cur \in Slot
  BY <1>1, <1>2 DEF CopySlot, Control, Place, Half, Numbers
<1>4. settled => full[cur]
  BY <1>1, <1>2, <1>3 DEF CopySlot, Once
<1>5. PICK n \in {1, 2} : off < n /\ Copies(n)
  <2>1. Copies(2) \/ (off = 0 /\ Copies(1))
    BY <1>1 DEF CopySlot, history
  <2> QED
    BY <1>3, <2>1
<1>6. /\ data[cur].after \in Nat /\ read'.last = read.upto /\ read'.after = data[cur].after + off
      /\ read'.upto = data[cur].after + n
      /\ read'.key = (data[cur].key /\ off = 0) /\ read'.new = fresh
  BY <1>1, <1>2, <1>5, UnitsCopied
<1>7. UNCHANGED <<settled, overtaken>>
  BY <1>1 DEF CopySlot, timing
<1> QED
  BY <1>1, <1>3, <1>4, <1>5, <1>6, <1>7

\* The video comes in the order in which it was made.
THEOREM InOrder == Spec => []SettledInOrder
<1>1. SettledInOrder /\ IInv /\ [Next]_vars => SettledInOrder'
  <2> SUFFICES ASSUME SettledInOrder, IInv, [Next]_vars PROVE SettledInOrder'
    OBVIOUS
  <2>1. CASE read' = read
    <3>1. settled' /\ ~overtaken' => settled /\ ~overtaken
      BY DEF IInv, Flags, Next, RecordProcess, LiveStart, LiveReset, LiveStop, LiveStopped, OnFrame, AddVid, AddPart,
         CopyPart, Overtakes, RtspLive, Attach, Connect, Disconnect, Cleared, Detach, ReadFrame, Scan,
         CopySlot, vars, timing
    <3> QED
      BY <2>1, <3>1 DEF SettledInOrder
  <2>2. CASE read' # read
    <3> SUFFICES ASSUME settled, ~overtaken PROVE read'.last <= read'.after
      BY <2>2, Copied DEF SettledInOrder
    <3>1. read.upto <= data[cur].after + (IF Half THEN 1 ELSE 0)
      BY <2>2, Copied DEF IInv, InRow
    <3> QED
      BY <2>2, <3>1, Copied
  <2> QED
    BY <2>1, <2>2
<1> QED
  BY <1>1, Initially, Invariant, PTL DEF Spec

\* What follows a gap is the beginning of an I frame.
THEOREM Gaps == Spec => []GapsAtKeys
<1>1. GapsAtKeys /\ IInv /\ [Next]_vars => GapsAtKeys'
  <2> SUFFICES ASSUME GapsAtKeys, IInv, [Next]_vars PROVE GapsAtKeys'
    OBVIOUS
  <2>1. CASE read' = read
    <3>1. settled' /\ ~overtaken' => settled /\ ~overtaken
      BY DEF IInv, Flags, Next, RecordProcess, LiveStart, LiveReset, LiveStop, LiveStopped, OnFrame, AddVid, AddPart,
         CopyPart, Overtakes, RtspLive, Attach, Connect, Disconnect, Cleared, Detach, ReadFrame, Scan,
         CopySlot, vars, timing
    <3> QED
      BY <2>1, <3>1 DEF GapsAtKeys
  <2>2. CASE read' # read
    <3> SUFFICES ASSUME settled, ~overtaken PROVE read'.new \/ read'.key \/ read'.after = read'.last
      BY <2>2, Copied DEF GapsAtKeys
    <3>1. \/ fresh \/ (data[cur].key /\ ~Half)
          \/ read.upto = data[cur].after + (IF Half THEN 1 ELSE 0)
      BY <2>2, Copied DEF IInv, Keyed
    <3> QED
      BY <2>2, <3>1, Copied
  <2> QED
    BY <2>1, <2>2
<1> QED
  BY <1>1, Initially, Invariant, PTL DEF Spec

\* What a visit begins with is an I frame or its SPS.
THEOREM Starts == Spec => []StartsDecodable
<1>1. StartsDecodable /\ IInv /\ [Next]_vars => StartsDecodable'
  <2> SUFFICES ASSUME StartsDecodable, IInv, [Next]_vars PROVE StartsDecodable'
    OBVIOUS
  <2>0. starts \subseteq starts'
    BY FramesStep, StartsStep DEF IInv, Typed, Numbers, Reads
  <2>1. CASE UNCHANGED <<read, heard>>
    <3>1. settled' /\ ~overtaken' => settled /\ ~overtaken
      BY DEF IInv, Flags, Next, RecordProcess, LiveStart, LiveReset, LiveStop, LiveStopped, OnFrame, AddVid, AddPart,
         CopyPart, Overtakes, RtspLive, Attach, Connect, Disconnect, Cleared, Detach, ReadFrame, Scan,
         CopySlot, vars, timing
    <3> QED
      BY <2>0, <2>1, <3>1 DEF StartsDecodable
  <2>2. CASE ~UNCHANGED <<read, heard>>
    <3> SUFFICES ASSUME settled, ~overtaken, fresh PROVE read'.after \in starts'
      BY <2>2, Copied DEF StartsDecodable
    <3>1. ~Half /\ data[cur].after \in starts
      BY <2>2, Copied DEF IInv, FreshStart
    <3>2. read'.after = data[cur].after + off /\ off = 0 /\ data[cur].after \in Nat
      BY <2>2, <3>1, Copied
    <3> QED
      BY <2>0, <3>1, <3>2
  <2> QED
    BY <2>1, <2>2
<1> QED
  BY <1>1, Initially, Invariant, PTL DEF Spec

\* Nothing is handed out twice.
THEOREM Delivered == Spec => DeliveredOnce
<1>1. IInv /\ [Next]_vars =>
        [settled /\ read' # read => heard \cap ((read'.after + 1)..read'.upto) = {}]_vars
  <2> SUFFICES ASSUME IInv, [Next]_vars, settled, read' # read
               PROVE  heard \cap ((read'.after + 1)..read'.upto) = {}
    OBVIOUS
  <2>1. /\ data[cur].after + 2 \notin heard
        /\ data[cur].after + 1 \in heard => off = 1
    BY Copied DEF IInv, Once
  <2>2. ASSUME NEW k \in (read'.after + 1)..read'.upto PROVE k \notin heard
    <3>0. /\ data[cur].after \in Nat /\ off \in {0, 1} /\ read'.after = data[cur].after + off
          /\ read'.upto \in {data[cur].after + 1, data[cur].after + 2}
      BY Copied
    <3>1. k \in {data[cur].after + 1, data[cur].after + 2} /\ (off = 1 => k = data[cur].after + 2)
      BY <2>2, <3>0
    <3> QED
      BY <2>1, <3>1, Copied
  <2> QED
    BY <2>2
<1> QED
  BY <1>1, Invariant, PTL DEF Spec, DeliveredOnce
=============================================================================
