------------------------------ MODULE ObjectKeys ------------------------------
(***************************************************************************)
(* What an image is stored as and listed under: the chapter names and      *)
(* formats of query/img.go, and the two places of handleImage that use     *)
(* them, the object's key and the url in the chapter row.  The chapters    *)
(* here belong to one manga, and their rows exist.                         *)
(*                                                                         *)
(* A name is a sequence of characters, of which the code tells these       *)
(* kinds apart: those of \w (ASCII only), "." and "-", the blank, the other *)
(* white space of \s (ASCII, too), that which only strings.TrimSpace knows *)
(* for such, and the rest, which includes all letters of other scripts.    *)
(***************************************************************************)
EXTENDS Naturals, Sequences, FiniteSetsExt

CONSTANTS
  Chapter,    \* chapters of the manga
  Idx,        \* places in a chapter
  Char,       \* characters of names
  Word,       \* those of \w and ".", "-"
  Space,      \* those of \s but the blank
  Wide,       \* white space that is not of \s: of other widths, say
  Raw,        \* the names their pages may show
  Ext,        \* extensions of image urls
  UrlExt,     \* that of the url at each place
  MimeOf,     \* mime.TypeByExtension
  Body,       \* what a response may contain
  Convertible \* bodies that image.Decode reads and webp.Encode writes

Blank == " "
Webp == "image/webp"
Place == Chapter \X Idx
Jpegs == {"image/jpeg", "image/jpg", "image/png", "image/gif"}

ASSUME KeyAssumption ==
  /\ Word \subseteq Char /\ Space \subseteq Char /\ Wide \subseteq Char
  /\ "_" \in Word /\ Blank \in Char
  /\ Blank \notin Word \cup Space \cup Wide
  /\ Space \cap Word = {} /\ Wide \cap (Word \cup Space) = {}
  /\ Raw \subseteq Seq(Char)
  /\ UrlExt \in [Place -> Ext]
  /\ MimeOf \in [Ext -> STRING]
  /\ ".webp" \in Ext /\ MimeOf[".webp"] = Webp
  /\ Convertible \subseteq Body

VARIABLES
  name,    \* the name of each chapter on its page
  pc,      \* control of handleImage, for each place
  out,     \* imgBytes, ext and contentType
  objects, \* the objects of the bucket, by key
  listed   \* the urls in the chapter rows, which are keys after a prefix

vars == <<name, pc, out, objects, listed>>

NoImage == [bytes |-> "none", ext |-> "", type |-> ""]

Init ==
  /\ name \in [Chapter -> Raw]
  /\ pc = [p \in Place |-> "off"]
  /\ out = [p \in Place |-> NoImage]
  /\ objects = <<>>
  /\ listed = {}

-----------------------------------------------------------------------------
(* query/img.go.                                                           *)

Solid(s) == {i \in DOMAIN s : s[i] \notin Space \cup Wide \cup {Blank}}

TrimSpace(s) ==
  IF Solid(s) = {} THEN <<>> ELSE SubSeq(s, Min(Solid(s)), Max(Solid(s)))

(* The regular expression leaves the white space of \s, ReplaceAll takes   *)
(* the blank, and url.PathEscape the rest of it.  A character leaves a     *)
(* piece of one or, escaped, of more characters, told apart by the "%".    *)
Mut_SafeCharNoSpace(ch) == IF ch \in Word THEN <<ch>> ELSE <<"_">>
SafeChar(ch) ==
  IF ch \in Word THEN <<ch>>
  ELSE IF ch \in Space THEN <<"%", ch>> ELSE <<"_">>

SafeChapterNameToS3(raw) ==
  [i \in DOMAIN TrimSpace(raw) |-> SafeChar(TrimSpace(raw)[i])]

(* A body that was read to its end.  Nothing but the extension of the url  *)
(* says what it is; what cannot be converted is kept as it came.           *)
Mut_FilterImgRenames(ext, body) ==
  IF MimeOf[ext] \in Jpegs
  THEN [bytes |-> IF body \in Convertible THEN "webp" ELSE body,
        ext |-> ".webp", type |-> Webp]
  ELSE [bytes |-> body, ext |-> ext, type |-> MimeOf[ext]]
FilterImg(ext, body) ==
  IF MimeOf[ext] \in Jpegs /\ body \in Convertible
  THEN [bytes |-> "webp", ext |-> ".webp", type |-> Webp]
  ELSE [bytes |-> body, type |-> MimeOf[ext],
        ext |-> IF MimeOf[ext] = Webp THEN ".webp" ELSE ext]

-----------------------------------------------------------------------------
(* handleImage.                                                            *)

KeyOf(p) ==
  [chapter |-> SafeChapterNameToS3(name[p[1]]), idx |-> p[2],
   ext |-> out[p].ext]

FetchImage(p) ==
  /\ pc[p] = "off"
  /\ \E body \in Body :
       out' = [out EXCEPT ![p] = FilterImg(UrlExt[p], body)]
  /\ pc' = [pc EXCEPT ![p] = "upload"]
  /\ UNCHANGED <<name, objects, listed>>

UploadImgToS3(p) ==
  /\ pc[p] = "upload"
  /\ objects' = [k \in DOMAIN objects \cup {KeyOf(p)} |->
       IF k = KeyOf(p)
       THEN [bytes |-> out[p].bytes, type |-> out[p].type, place |-> p]
       ELSE objects[k]]
  /\ pc' = [pc EXCEPT ![p] = "list"]
  /\ UNCHANGED <<name, out, listed>>

Mut_UpdateListsUrlExt(p) ==
  /\ pc[p] = "list"
  /\ listed' = listed \cup {[KeyOf(p) EXCEPT !.ext = UrlExt[p]]}
  /\ pc' = [pc EXCEPT ![p] = "off"]
  /\ out' = [out EXCEPT ![p] = NoImage]
  /\ UNCHANGED <<name, objects>>
UpdateChapterImgByIndex(p) ==
  /\ pc[p] = "list"
  /\ listed' = listed \cup {KeyOf(p)}
  /\ pc' = [pc EXCEPT ![p] = "off"]
  /\ out' = [out EXCEPT ![p] = NoImage]
  /\ UNCHANGED <<name, objects>>

(* A statement or upload fails, or the process ends; the image is done     *)
(* again from its start, also when only its task could not be deleted.     *)
CutOff(p) ==
  /\ pc[p] # "off"
  /\ pc' = [pc EXCEPT ![p] = "off"]
  /\ out' = [out EXCEPT ![p] = NoImage]
  /\ UNCHANGED <<name, objects, listed>>

Next == \E p \in Place :
  FetchImage(p) \/ UploadImgToS3(p) \/ UpdateChapterImgByIndex(p) \/ CutOff(p)

Spec == Init /\ [][Next]_vars

-----------------------------------------------------------------------------
(* Properties.                                                             *)

MadeFor(p, image) == \E body \in Body : image = FilterImg(UrlExt[p], body)

(* Every variable keeps its shape, and a handler has an image from its     *)
(* fetch to its end.                                                       *)
TypeOK ==
  /\ name \in [Chapter -> Raw]
  /\ pc \in [Place -> {"off", "upload", "list"}]
  /\ DOMAIN out = Place
  /\ \A p \in Place :
       IF pc[p] = "off" THEN out[p] = NoImage ELSE MadeFor(p, out[p])
  /\ \A k \in DOMAIN objects :
       /\ DOMAIN k = {"chapter", "idx", "ext"}
       /\ objects[k].place \in Place

(* What SafeChapterNameToS3 does not tell apart: names of one length that  *)
(* differ only where both have "_" or something outside \w, ".", "-" and   *)
(* \s but the blank.  Names in another script are often of this kind.      *)
Blurred(ch) == ch = "_" \/ ch \notin Word \cup Space

Alike(raw1, raw2) ==
  LET s == TrimSpace(raw1)
      t == TrimSpace(raw2)
  IN  /\ DOMAIN s = DOMAIN t
      /\ \A i \in DOMAIN s : s[i] = t[i] \/ (Blurred(s[i]) /\ Blurred(t[i]))

(* An object is replaced only by an image of the same place, done again,   *)
(* or by that of another chapter at the same index whose name looks alike: *)
(* no other two images ever share a key.                                   *)
ReplacedByAlike ==
  [][\A k \in DOMAIN objects :
       LET p == objects[k].place
           q == objects'[k].place
       IN  p[2] = q[2] /\ Alike(name[p[1]], name[q[1]])]_vars

(* Every url in a row leads to an object, also when the image was fetched  *)
(* twice and converted only once, which gives it two extensions.           *)
ListedIsStored == listed \subseteq DOMAIN objects

(* An object has the content type of the extension it is listed with, and  *)
(* one that was made image/webp here really is: only a .webp url can put   *)
(* anything else under that type.                                          *)
RightlyLabelled ==
  \A k \in DOMAIN objects :
    /\ objects[k].type = MimeOf[k.ext]
    /\ objects[k].type = Webp /\ MimeOf[UrlExt[objects[k].place]] # Webp
         => objects[k].bytes = "webp"

(* What the proofs add: a key says for which chapter and place its object  *)
(* was made, and with what outcome; a handler past its upload has stored.  *)
Keyed ==
  \A k \in DOMAIN objects :
    LET p == objects[k].place IN
    /\ k.idx = p[2] /\ k.chapter = SafeChapterNameToS3(name[p[1]])
    /\ MadeFor(p, [bytes |-> objects[k].bytes, ext |-> k.ext,
                   type |-> objects[k].type])

Uploaded == \A p \in Place : pc[p] = "list" => KeyOf(p) \in DOMAIN objects

IInv == TypeOK /\ Keyed /\ Uploaded /\ ListedIsStored
=============================================================================
