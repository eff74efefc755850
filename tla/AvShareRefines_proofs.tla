------------------------ MODULE AvShareRefines_proofs ------------------------
(* The ring implements the feed, for any number of slots, of units and of  *)
(* visits.  IInv of AvShare_proofs says what is in the ring; what is new   *)
(* here is that an I frame in it begins where the encoder has begun one.   *)
EXTENDS AvShareRefines, AvShare_proofs

\* A part that begins an I frame is behind a unit in starts.  The I frame that
\* is being added, or that its SPS announces, is the last that was made, and
\* begins four units before what has been made.
KeysBegin ==
  /\ \A i \in Slot : data[i].key => data[i].after \in starts
  /\ todo # <<>> /\ todo[1].type # "P" => made - 4 \in starts

\* When a part of a frame is written or given up, something is left to add only
\* of an I frame or its SPS.
LEMMA RestOfFrame ==
  ASSUME Frames, todo # <<>>, made \in Nat, todo' = Tail(todo) \/ Written, todo' # <<>>
  PROVE  todo[1].type # "P"
<1> SUFFICES ASSUME todo[1].type = "P" PROVE FALSE
  OBVIOUS
<1>1. PICK u \in Nat : todo[1].parts = <<Part(u, FALSE)>> /\ Tail(todo) = <<>>
  BY FrameCases
<1>2. Tail(todo[1].parts) = <<>>
  BY <1>1, Tuples, Zenon
<1> QED
  BY <1>1, <1>2 DEF Written

\* The first part of an I frame is added.
LEMMA KeyIsAhead ==
  ASSUME Frames, made \in Nat, KeyNext
  PROVE  Base = made - 4 /\ todo # <<>> /\ todo[1].type # "P"
<1>1. todo # <<>> /\ todo[1].parts[1].key
  BY DEF KeyNext
<1>2. ASSUME NEW u \in Nat, todo[1].parts = <<Part(u, FALSE)>> PROVE FALSE
  <2>1. todo[1].parts[1] = Part(u, FALSE)
    BY <1>2, Tuples, Zenon
  <2> QED
    BY <1>1, <2>1, FrameParts, Zenon
<1>3. PICK u \in Nat : Base = u /\ made = u + 4 /\ todo[1].type = "I"
  BY <1>1, <1>2, FrameCases
<1> QED
  BY <1>1, <1>3

\* KeysBegin is inductive beside the types.
LEMMA KeysStep == KeysBegin /\ Typed /\ [Next]_vars => KeysBegin'
<1> SUFFICES ASSUME KeysBegin, Typed, [Next]_vars PROVE KeysBegin'
  OBVIOUS
<1>0. Frames /\ Numbers /\ made \in Nat /\ starts \subseteq starts'
  BY FramesStep, StartsStep DEF Typed, Numbers, Reads
<1>1. CASE OnFrame
  <2>1. /\ UNCHANGED data
        /\ \/ /\ made' = made + 6 /\ starts' = starts \cup {made, made + 2}
           \/ todo' = <<Frame1("P", made)>>
    BY <1>1 DEF OnFrame, ring
  <2>2. ASSUME todo' = <<Frame1("P", made)>> PROVE todo'[1].type = "P"
    <3>1. todo'[1] = Frame1("P", made)
      BY <2>2, Tuples, Zenon
    <3> QED
      BY <3>1 DEF Frame1
  <2>3. made' = made + 6 => made' - 4 = made + 2
    BY <1>0
  <2> QED
    BY <1>0, <2>1, <2>2, <2>3 DEF KeysBegin
<1>2. CASE AddVid \/ AddPart
  <2>1. /\ UNCHANGED <<data, made>>
        /\ UNCHANGED todo \/ (todo # <<>> /\ todo' = Tail(todo))
    BY <1>0, <1>2 DEF AddVid, AddPart, ring, Frames
  <2>2. todo' # <<>> /\ todo' = Tail(todo) /\ todo # <<>> => todo[1].type # "P"
    BY <1>0, RestOfFrame
  <2> QED
    BY <1>0, <2>1, <2>2 DEF KeysBegin
<1>3. CASE CopyPart
  <2>1. /\ data' = [data EXCEPT ![next] = Part(Base, KeyNext)] /\ next \in Slot
        /\ made' = made /\ todo # <<>> /\ Written
    BY <1>0, <1>3, Filling DEF CopyPart, Numbers
  <2>2. data \in [Slot -> Parts]
    BY DEF Typed, SlotTypes
  <2>3. ASSUME NEW i \in Slot, data'[i].key PROVE data'[i].after \in starts'
    <3>1. CASE i = next
      <4>1. data'[i] = Part(Base, KeyNext)
        BY <2>1, <2>2, <3>1
      <4>2. KeyNext /\ data'[i].after = Base
        BY <2>3, <4>1 DEF Part
      <4> QED
        BY <1>0, <4>2, KeyIsAhead DEF KeysBegin
    <3>2. CASE i # next
      BY <1>0, <2>1, <2>2, <2>3, <3>2 DEF KeysBegin
    <3> QED
      BY <3>1, <3>2
  <2>4. todo' # <<>> => todo[1].type # "P"
    BY <1>0, <2>1, RestOfFrame
  <2> QED
    BY <1>0, <2>1, <2>3, <2>4 DEF KeysBegin
<1>4. CASE UNCHANGED <<data, made, todo>>
  BY <1>0, <1>4 DEF KeysBegin
<1> QED
  BY <1>1, <1>2, <1>3, <1>4 DEF Next, RecordProcess, LiveStart, LiveReset, LiveStop, LiveStopped, RtspLive, Attach,
     Connect, Disconnect, Cleared, Detach, ReadFrame, Scan, CopySlot, Record, vars, ring, encoder
-----------------------------------------------------------------------------
\* What the reader copies is a piece that the feed may hand out: new while the
\* visits are settled, and in order, decodable first, if it is not overtaken.
LEMMA CopyDelivers ==
  ASSUME IInv, KeysBegin, CopySlot, NEW n \in {1, 2}, off < n, Copies(n)
  PROVE  Feed!Deliver(data[cur].after + off, n - off) /\ data[cur].after + off \in 0..made
<1> DEFINE a == data[cur].after + off
<1>1. Typed /\ Flags /\ Control /\ Once /\ InRow /\ Keyed /\ FreshStart
  BY DEF IInv
<1>2. Contents /\ SlotTypes /\ Numbers /\ Reads
  BY <1>1 DEF Typed
<1>3. /\ data[cur].after \in Nat /\ data[cur].after + 2 <= made /\ made \in Nat
      /\ read'.last = read.upto /\ read'.after = a /\ read'.upto = data[cur].after + n
      /\ \A k : k \in heard' <=> k \in heard \/ k \in (a + 1)..(data[cur].after + n)
  BY <1>2, UnitsCopied DEF Numbers
<1>4. off \in {0, 1} /\ cur \in Slot /\ connected /\ Place = cur /\ (Half <=> off = 1)
  BY <1>1, <1>2 DEF CopySlot, Control, Place, Half, Numbers
<1>5. a + (n - off) = data[cur].after + n /\ a \in 0..made /\ a + (n - off) <= made
  BY <1>3, <1>4
<1>6. settled => full[cur]
  BY <1>1, <1>4 DEF Once, CopySlot
<1>7. ASSUME settled PROVE heard \cap ((a + 1)..(a + (n - off))) = {}
  <2>1. data[cur].after + 2 \notin heard /\ (data[cur].after + 1 \in heard => off = 1)
    BY <1>1, <1>4, <1>6, <1>7 DEF Once
  <2>2. ASSUME NEW k \in (a + 1)..(a + (n - off)) PROVE k \notin heard
    <3>1. k \in {data[cur].after + 1, data[cur].after + 2} /\ (off = 1 => k = data[cur].after + 2)
      BY <1>3, <1>4, <1>5, <2>2
    <3> QED
      BY <2>1, <3>1
  <2> QED
    BY <2>2
<1>8. ASSUME settled, ~overtaken
      PROVE  read.upto <= a /\ (a \in starts \/ (~fresh /\ a = read.upto))
  <2>1. read.upto <= a
    <3>1. read.upto <= data[cur].after + (IF Half THEN 1 ELSE 0)
      BY <1>1, <1>4, <1>6, <1>8 DEF InRow
    <3> QED
      BY <1>3, <1>4, <3>1
  <2>2. \/ fresh /\ ~Half
        \/ data[cur].key /\ ~Half
        \/ read.upto = data[cur].after + (IF Half THEN 1 ELSE 0)
    BY <1>1, <1>4, <1>6, <1>8 DEF Keyed
  <2>3. fresh => ~Half /\ data[cur].after \in starts
    BY <1>1, <1>4, <1>6, <1>8 DEF FreshStart
  <2>4. ~Half => a = data[cur].after
    BY <1>3, <1>4
  <2>5. data[cur].key => data[cur].after \in starts
    BY <1>4 DEF KeysBegin
  <2> QED
    BY <1>3, <1>4, <2>1, <2>2, <2>3, <2>4, <2>5
<1>9. heard' = heard \cup ((a + 1)..(a + (n - off)))
  BY <1>3, <1>5
<1>10. UNCHANGED <<made, starts, settled, overtaken>> /\ fresh' = FALSE
  BY DEF CopySlot, Copies, Record, encoder, timing
<1> QED
  BY <1>3, <1>5, <1>7, <1>8, <1>9, <1>10, Zenon DEF Feed!Deliver

\* Every step of the ring is a step of the feed or none.
LEMMA FeedStep ==
  ASSUME IInv, KeysBegin, [Next]_vars
  PROVE  [Feed!Next]_Feed!feed
<1> USE DEF Feed!feed
<1>0. settled \in BOOLEAN /\ overtaken \in BOOLEAN
  BY DEF IInv, Flags
<1>1. CASE OnFrame
  BY <1>1 DEF OnFrame, timing, Feed!Next, Feed!Make
<1>2. CASE Connect
  BY <1>2 DEF Connect, Record, encoder, timing, Feed!Next, Feed!Visit
<1>3. CASE CopyPart
  <2>1. UNCHANGED <<made, starts, heard, read, fresh, settled>> /\ (overtaken => overtaken')
    BY <1>3 DEF CopyPart, Overtakes, history
  <2> QED
    BY <1>0, <2>1 DEF Feed!Next, Feed!Break
<1>4. CASE Attach
  <2>1. UNCHANGED <<made, starts, heard, read, fresh, overtaken>> /\ (settled' => settled)
    BY <1>4 DEF Attach, Record, encoder, history
  <2> QED
    BY <1>0, <2>1 DEF Feed!Next, Feed!Break
<1>5. CASE CopySlot
  <2>1. CASE history' = history
    BY <1>5, <2>1 DEF CopySlot, Record, encoder, timing, history
  <2>2. CASE history' # history
    <3>1. PICK n \in {1, 2} : off < n /\ Copies(n)
      <4>1. Copies(2) \/ (off = 0 /\ Copies(1))
        BY <1>5, <2>2 DEF CopySlot
      <4>2. off \in {0, 1}
        BY DEF IInv, Typed, Numbers
      <4> QED
        BY <4>1, <4>2
    <3>2. Feed!Deliver(data[cur].after + off, n - off) /\ data[cur].after + off \in 0..made
      BY <1>5, <3>1, CopyDelivers
    <3>3. n - off \in {1, 2}
      BY <3>1 DEF IInv, Typed, Numbers
    <3> QED
      BY <3>2, <3>3 DEF Feed!Next
  <2> QED
    BY <2>1, <2>2
<1>6. CASE LiveStart \/ LiveReset \/ LiveStop \/ LiveStopped \/ AddVid \/ AddPart
  BY <1>6 DEF LiveStart, LiveReset, LiveStop, LiveStopped, AddVid, AddPart, encoder, history, timing
<1>7. CASE Disconnect \/ Cleared \/ Detach \/ ReadFrame \/ Scan
  BY <1>7 DEF Disconnect, Cleared, Detach, ReadFrame, Scan, Record, encoder, history, timing
<1>8. CASE UNCHANGED vars
  BY <1>8 DEF vars, encoder, history, timing
<1> QED
  BY <1>1, <1>2, <1>3, <1>4, <1>5, <1>6, <1>7, <1>8 DEF Next, RecordProcess, RtspLive

\* The ring of avshare.c keeps the promise of the feed, whatever the sizes are
\* and however record, its encoder and rtspLive interleave.
THEOREM AvShareImplementsFeed == Spec => ImplementsFeed
<1>1. Init => IInv /\ KeysBegin
  <2>1. Init => KeysBegin
    <3> SUFFICES ASSUME Init PROVE KeysBegin
      OBVIOUS
    <3>1. \A i \in Slot : ~data[i].key
      BY FrameParts DEF Init
    <3> QED
      BY <3>1 DEF Init, KeysBegin
  <2> QED
    BY <2>1, Initially
<1>2. IInv /\ KeysBegin /\ [Next]_vars => IInv' /\ KeysBegin'
  BY Inductive, KeysStep DEF IInv
<1>3. Init => Feed!Init
  BY DEF Init, Feed!Init
<1>4. IInv /\ KeysBegin /\ [Next]_vars => [Feed!Next]_Feed!feed
  BY FeedStep
<1> QED
  BY <1>1, <1>2, <1>3, <1>4, PTL DEF Spec, ImplementsFeed, Feed!Spec
-----------------------------------------------------------------------------
\* OnlyBehind, and the types it needs, are kept by the feed itself.
FeedInv == made \in Nat /\ read.upto \in Nat /\ Feed!OnlyBehind

LEMMA FeedKeeps == FeedInv /\ [Feed!Next]_Feed!feed => FeedInv'
<1> SUFFICES ASSUME FeedInv, [Feed!Next]_Feed!feed PROVE FeedInv'
  OBVIOUS
<1> USE DEF FeedInv, Feed!OnlyBehind
<1>1. CASE Feed!Make
  BY <1>1 DEF Feed!Make
<1>2. CASE Feed!Visit \/ Feed!Break
  BY <1>2 DEF Feed!Visit, Feed!Break
<1>3. ASSUME NEW a \in 0..made, NEW n \in {1, 2}, Feed!Deliver(a, n) PROVE FeedInv'
  BY <1>3 DEF Feed!Deliver
<1>4. CASE UNCHANGED Feed!feed
  BY <1>4 DEF Feed!feed
<1> QED
  BY <1>1, <1>2, <1>3, <1>4 DEF Feed!Next

\* A viewer never gets what has not been made; while the promise of the order
\* holds, all that was handed out lies behind the last piece.
THEOREM Behind == Spec => []Feed!OnlyBehind
<1>1. Feed!Init => FeedInv
  BY DEF Feed!Init, FeedInv, Feed!OnlyBehind
<1>2. Spec => Feed!Spec
  BY AvShareImplementsFeed DEF ImplementsFeed
<1>3. FeedInv => Feed!OnlyBehind
  BY DEF FeedInv
<1> QED
  BY <1>1, <1>2, <1>3, FeedKeeps, PTL DEF Feed!Spec
=============================================================================
