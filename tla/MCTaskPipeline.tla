--------------------------- MODULE MCTaskPipeline ---------------------------
(* Instances of TaskPipeline for TLC.                                      *)
EXTENDS TaskPipeline, TLC

CONSTANTS c1, c2, x, y, m1, n1, n2

(* Two chapters of one manga whose names become the same one; the second   *)
(* shows an image of the first in another place.                           *)
SharedImage ==
  (c1 :> {[name |-> n1, images |-> <<y, x>>]})
  @@ (c2 :> {[name |-> n1, images |-> <<x>>]})

(* One image for each chapter.                                             *)
OneEach ==
  (c1 :> {[name |-> n1, images |-> <<x>>]})
  @@ (c2 :> {[name |-> n2, images |-> <<y>>]})

SameManga == [c \in ChapterUrl |-> m1]

(* The second chapter was queued for a manga that could not be stored.     *)
Poisoned == (c1 :> m1) @@ (c2 :> NoManga)
=============================================================================
