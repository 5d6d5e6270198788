---------------------------- MODULE MCMangaIntake ----------------------------
(* Instances of MangaIntake for TLC.                                       *)
EXTENDS MangaIntake, TLC

CONSTANTS m1, m2, m3, ch1, ch2, ch3, t1, t2, t3, t4, n1, n2

Titles == (m1 :> t1) @@ (m2 :> t2) @@ (m3 :> t4)
Chapters == (m1 :> {ch1}) @@ (m2 :> {ch2}) @@ (m3 :> {ch3})

(* The page of ch1 does not give it the name its manga's page does.        *)
Names == (ch1 :> n1) @@ (ch2 :> n2) @@ (ch3 :> n2)
OtherNames == (ch1 :> n2) @@ (ch2 :> n2) @@ (ch3 :> n2)

Listed(t, m) == [title |-> t, manga |-> m]

(* Page 1 sometimes loads without entries.  The order changes between two  *)
(* requests, so that both manga can show up again on page 2, where m2 may  *)
(* be linked once more under another title.  On page 2 there may also be   *)
(* another manga, m3, under the title of m1.                               *)
Shifting ==
  <<{<<Listed(t1, m1), Listed(t2, m2)>>, <<>>},
    {<<Listed(t2, m2), Listed(t1, m1)>>, <<Listed(t3, m2), Listed(t2, m2)>>,
     <<Listed(t1, m3), Listed(t2, m2)>>}>>
=============================================================================
