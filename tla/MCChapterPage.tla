----------------------------- MODULE MCChapterPage -----------------------------
(* Instances of ChapterPage for TLC.                                       *)
EXTENDS ChapterPage

CONSTANTS x, y, z

(* Three images, the first of which is shown twice.                        *)
Repeated == <<x, y, x, z>>
=============================================================================
