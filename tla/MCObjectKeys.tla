----------------------------- MODULE MCObjectKeys -----------------------------
(* Instances of ObjectKeys for TLC.                                        *)
EXTENDS ObjectKeys, TLC

CONSTANTS c1, c2

Letters == {"a", "_"}
Chars == Letters \cup {" ", "tab", "nbsp", ":"}

(* Every name of one or two characters, and every character within one.    *)
SomeNames == UNION {[1..n -> Chars] : n \in 1..2}
  \cup {<<"a", ch, "a">> : ch \in Chars}

Urls == (<<c1, 1>> :> ".jpg") @@ (<<c2, 1>> :> ".WEBP")

Mimes ==
  (".jpg" :> "image/jpeg") @@ (".webp" :> "image/webp")
    @@ (".WEBP" :> "image/webp")
=============================================================================
