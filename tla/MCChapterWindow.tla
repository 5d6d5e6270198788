--------------------------- MODULE MCChapterWindow ---------------------------
(* Instances of ChapterWindow for TLC.                                     *)
EXTENDS ChapterWindow, TLC

CONSTANTS n1, n2, n3, n4, n5, description

(* The name of the fourth chapter becomes that of the second, and the      *)
(* third has another one on its own page.                                  *)
Listed == <<n1, n2, n3, n2, n5>>
Rows == <<n1, n2, n4, n2, n5>>
=============================================================================
