---------------------------- MODULE LinearHistory ----------------------------
(***************************************************************************)
(* What a page shows behind its undo and redo buttons: a line of entries   *)
(* and a cursor.  A new entry goes behind the cursor and drops what was    *)
(* ahead of it; undo and redo move the cursor by one and change no entry.  *)
(* Both the position history of an actor and the versions of a scene are   *)
(* meant to be such a line, whatever fails or is cut off underneath.       *)
(***************************************************************************)
EXTENDS Naturals, Sequences

VARIABLES entries, cursor

Kept == SubSeq(entries, 1, cursor)

LineInit == entries = <<>> /\ cursor = 0

Push ==
    /\ cursor' = cursor + 1
    /\ Len(entries') = cursor'
    /\ SubSeq(entries', 1, cursor) = Kept

Back == cursor > 0 /\ cursor' = cursor - 1 /\ UNCHANGED entries

Forward == cursor < Len(entries) /\ cursor' = cursor + 1 /\ UNCHANGED entries

Prune == entries' = Kept /\ UNCHANGED cursor

Clear == entries' = <<>> /\ cursor' = 0

(* A line that no longer describes what is there is left for a new one.    *)
Restart == Len(entries') = 1 /\ cursor' = 1

LineNext == Push \/ Back \/ Forward \/ Prune \/ Clear \/ Restart

LineSpec == LineInit /\ [][LineNext]_<<entries, cursor>>
=============================================================================
