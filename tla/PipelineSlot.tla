---------------------------- MODULE PipelineSlot ----------------------------
(***************************************************************************)
(* What the axis engine promises about pipeline updates: publications are  *)
(* numbered, and the RT thread only ever replaces the active pipeline by   *)
(* the one published last.  A publication may be skipped, but an older one *)
(* never becomes active, and none comes back.                              *)
(***************************************************************************)
EXTENDS Naturals

VARIABLES
    latest,   \* number of the last publication, 0 before the first
    current   \* number of the active pipeline, 0 for none

Init == latest = 0 /\ current = 0

Publish == latest' = latest + 1 /\ UNCHANGED current

Install ==
    /\ current # latest
    /\ current' = latest
    /\ UNCHANGED latest

Next == Publish \/ Install

Spec == Init /\ [][Next]_<<latest, current>>
=============================================================================
