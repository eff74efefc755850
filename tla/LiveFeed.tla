------------------------------ MODULE LiveFeed ------------------------------
(***************************************************************************)
(* What the viewers of the live stream get, without the ring, the two      *)
(* processes and their threads: the encoder makes video, and pieces of it  *)
(* are handed out.  As long as no promise has been broken, a piece is      *)
(* behind all that came before it, a visit begins where a picture can be   *)
(* decoded, and so does what follows a gap.  AvShare implements this       *)
(* specification, which says when which promise may be broken.             *)
(***************************************************************************)
EXTENDS Naturals

VARIABLES
  made,    \* units the encoder has made
  starts,  \* the units before which an I frame or its SPS begins
  heard,   \* the units that have been handed out
  piece,   \* the last piece that was handed out: after what, up to what, and
           \* where the one before it ended
  fresh,   \* has nothing been handed out during this visit?
  promise  \* what still holds: "order", only "once", or "none"

feed == <<made, starts, heard, piece, fresh, promise>>

Init ==
  /\ made = 0 /\ starts = {} /\ heard = {} /\ piece = [last |-> 0, after |-> 0, upto |-> 0]
  /\ fresh = TRUE /\ promise = "order"

\* An I frame after its SPS, or any other frame
Make ==
  /\ \/ made' = made + 6 /\ starts' = starts \cup {made, made + 2}
     \/ made' = made + 2 /\ UNCHANGED starts
  /\ UNCHANGED <<heard, piece, fresh, promise>>

Visit ==
  /\ fresh' = TRUE
  /\ UNCHANGED <<made, starts, heard, piece, promise>>

\* A viewer comes back too soon, or the reader is overtaken in its search.
Break ==
  /\ promise' = "none" \/ (promise = "order" /\ promise' = "once")
  /\ UNCHANGED <<made, starts, heard, piece, fresh>>

\* A piece of one unit or two, after unit a, is handed out.
Deliver(a, n) ==
  /\ piece' = [last |-> piece.upto, after |-> a, upto |-> a + n] /\ fresh' = FALSE
  /\ a + n <= made
  /\ promise # "none" => heard \cap ((a + 1)..(a + n)) = {}
  /\ promise = "order" => /\ piece.upto <= a
                          /\ a \in starts \/ (~fresh /\ a = piece.upto)
  /\ heard' = heard \cup ((a + 1)..(a + n))
  /\ UNCHANGED <<made, starts, promise>>

Next == Make \/ Visit \/ Break \/ \E a \in 0..made, n \in {1, 2} : Deliver(a, n)

Spec == Init /\ [][Next]_feed
-----------------------------------------------------------------------------
\* Nothing that has not been made is handed out; and while the order is kept
\* nothing beyond the last piece, so that the next one is new to all viewers.
OnlyBehind ==
  /\ heard \subseteq 1..made
  /\ promise = "order" => heard \subseteq 1..piece.upto
=============================================================================
