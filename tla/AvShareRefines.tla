--------------------------- MODULE AvShareRefines ----------------------------
(* The ring of the live video implements the feed of LiveFeed.  Its promise *)
(* is broken by a viewer that comes back before record has noticed that the *)
(* last one has gone, and weakened when the reader is overtaken.            *)
EXTENDS AvShare

Feed == INSTANCE LiveFeed WITH
  piece   <- [last |-> read.last, after |-> read.after, upto |-> read.upto],
  promise <- IF ~settled THEN "none" ELSE IF overtaken THEN "once" ELSE "order"

\* Every step of the writer and of the reader is a step of the feed or none.
ImplementsFeed == Feed!Spec
=============================================================================
