--------------------------- MODULE ObjectKeysProofs ---------------------------
(***************************************************************************)
(* Theorems about ObjectKeys, for all names, formats and bodies.           *)
(***************************************************************************)
EXTENDS ObjectKeys, TLAPS

(* Two characters become the same piece only if both become "_".           *)
LEMMA SafeCharSame ==
  ASSUME NEW ch1, NEW ch2, SafeChar(ch1) = SafeChar(ch2)
  PROVE  ch1 = ch2 \/ (Blurred(ch1) /\ Blurred(ch2))
<1>1. CASE ch1 \in Word /\ ch2 \in Word
  BY <1>1 DEF SafeChar
<1>2. CASE ch1 \in Word /\ ch2 \notin Word
  <2>1. SafeChar(ch1) = <<ch1>>
    BY <1>2 DEF SafeChar
  <2>2. CASE ch2 \in Space
    BY <1>2, <2>1, <2>2 DEF SafeChar
  <2>3. CASE ch2 \notin Space
    <3>1. SafeChar(ch2) = <<"_">>
      BY <1>2, <2>3 DEF SafeChar
    <3>2. <<ch1>>[1] = <<"_">>[1]
      BY <2>1, <3>1
    <3>3. ch1 = "_"
      BY <3>2
    <3> QED
      BY <1>2, <2>3, <3>3 DEF Blurred
  <2> QED
    BY <2>2, <2>3
<1>3. CASE ch1 \notin Word /\ ch2 \in Word
  <2>1. SafeChar(ch2) = <<ch2>>
    BY <1>3 DEF SafeChar
  <2>2. CASE ch1 \in Space
    BY <1>3, <2>1, <2>2 DEF SafeChar
  <2>3. CASE ch1 \notin Space
    <3>1. SafeChar(ch1) = <<"_">>
      BY <1>3, <2>3 DEF SafeChar
    <3>2. <<ch2>>[1] = <<"_">>[1]
      BY <2>1, <3>1
    <3>3. ch2 = "_"
      BY <3>2
    <3> QED
      BY <1>3, <2>3, <3>3 DEF Blurred
  <2> QED
    BY <2>2, <2>3
<1>4. CASE ch1 \notin Word /\ ch2 \notin Word
  <2>1. CASE ch1 \in Space /\ ch2 \in Space
    BY <1>4, <2>1 DEF SafeChar
  <2>2. CASE ch1 \in Space /\ ch2 \notin Space
    BY <1>4, <2>2 DEF SafeChar
  <2>3. CASE ch1 \notin Space /\ ch2 \in Space
    BY <1>4, <2>3 DEF SafeChar
  <2>4. CASE ch1 \notin Space /\ ch2 \notin Space
    BY <1>4, <2>4 DEF Blurred
  <2> QED
    BY <2>1, <2>2, <2>3, <2>4
<1> QED
  BY <1>1, <1>2, <1>3, <1>4

(* The converse: what is blurred becomes "_".                              *)
LEMMA BlurredBecomesUnderscore ==
  ASSUME NEW ch, Blurred(ch)
  PROVE  SafeChar(ch) = <<"_">>
BY KeyAssumption DEF Blurred, SafeChar

(* SafeChapterNameToS3 gives two names one safe name exactly when they     *)
(* look alike, whatever the two names are.                                 *)
THEOREM CollideExactlyWhenAlike ==
  ASSUME NEW raw1, NEW raw2
  PROVE  SafeChapterNameToS3(raw1) = SafeChapterNameToS3(raw2)
           <=> Alike(raw1, raw2)
<1> DEFINE s == TrimSpace(raw1)
           t == TrimSpace(raw2)
<1>1. ASSUME SafeChapterNameToS3(raw1) = SafeChapterNameToS3(raw2)
      PROVE  Alike(raw1, raw2)
  <2> HIDE DEF s, t
  <2>1. [i \in DOMAIN s |-> SafeChar(s[i])] = [i \in DOMAIN t |-> SafeChar(t[i])]
    BY <1>1 DEF SafeChapterNameToS3, s, t
  <2>2. DOMAIN s = DOMAIN t
    BY <2>1
  <2>3. ASSUME NEW i \in DOMAIN s
        PROVE  s[i] = t[i] \/ (Blurred(s[i]) /\ Blurred(t[i]))
    <3>1. SafeChar(s[i]) = SafeChar(t[i])
      BY <2>1, <2>2
    <3> QED
      BY <3>1, SafeCharSame
  <2> QED
    BY <2>2, <2>3 DEF Alike, s, t
<1>2. ASSUME Alike(raw1, raw2)
      PROVE  SafeChapterNameToS3(raw1) = SafeChapterNameToS3(raw2)
  <2> HIDE DEF s, t
  <2>1. /\ DOMAIN s = DOMAIN t
        /\ \A i \in DOMAIN s : s[i] = t[i] \/ (Blurred(s[i]) /\ Blurred(t[i]))
    BY <1>2 DEF Alike, s, t
  <2>2. \A i \in DOMAIN s : SafeChar(s[i]) = SafeChar(t[i])
    BY <2>1, BlurredBecomesUnderscore
  <2>3. [i \in DOMAIN s |-> SafeChar(s[i])] = [i \in DOMAIN t |-> SafeChar(t[i])]
    BY <2>1, <2>2
  <2> QED
    BY <2>3 DEF SafeChapterNameToS3, s, t
<1> QED
  BY <1>1, <1>2

-----------------------------------------------------------------------------
(* The inductive invariant.                                                *)

(* It holds at the start.                                                  *)
LEMMA InitIInv == Init => IInv
<1> SUFFICES ASSUME Init PROVE IInv
  OBVIOUS
<1>1. DOMAIN objects = {}
  BY DEF Init
<1>2. \A p \in Place : pc[p] = "off" /\ out[p] = NoImage
  BY DEF Init
<1>3. TypeOK
  BY <1>1, <1>2 DEF Init, TypeOK
<1> QED
  BY <1>1, <1>2, <1>3 DEF Init, IInv, Keyed, Uploaded, ListedIsStored

(* A handler that only fetches or ends disturbs neither bucket nor rows.   *)
LEMMA HandlerIInv ==
  ASSUME IInv, NEW p \in Place, FetchImage(p) \/ CutOff(p)
  PROVE  IInv'
<1> USE DEF IInv, TypeOK
<1>1. UNCHANGED <<name, objects, listed>>
  BY DEF FetchImage, CutOff
<1>2. TypeOK'
  <2>1. CASE FetchImage(p)
    <3>1. PICK body \in Body :
            out' = [out EXCEPT ![p] = FilterImg(UrlExt[p], body)]
      BY <2>1 DEF FetchImage
    <3>2. MadeFor(p, out'[p])
      BY <3>1 DEF MadeFor
    <3>3. /\ pc[p] = "off" /\ pc' = [pc EXCEPT ![p] = "upload"]
          /\ DOMAIN out' = Place
          /\ \A q \in Place : q # p => out'[q] = out[q]
      BY <2>1, <3>1 DEF FetchImage
    <3>4. ASSUME NEW q \in Place
          PROVE  IF pc'[q] = "off" THEN out'[q] = NoImage
                 ELSE MadeFor(q, out'[q])
      BY <3>2, <3>3
    <3> QED
      BY <1>1, <3>3, <3>4 DEF MadeFor
  <2>2. CASE CutOff(p)
    BY <1>1, <2>2 DEF CutOff, MadeFor
  <2> QED
    BY <2>1, <2>2
<1>3. Keyed'
  BY <1>1 DEF Keyed, MadeFor
<1>4. Uploaded'
  BY <1>1 DEF Uploaded, KeyOf, FetchImage, CutOff
<1>5. ListedIsStored'
  BY <1>1 DEF ListedIsStored
<1> QED
  BY <1>2, <1>3, <1>4, <1>5

(* An upload puts the handler's image under its key and keeps the rest.    *)
LEMMA UploadIInv ==
  ASSUME IInv, NEW p \in Place, UploadImgToS3(p)
  PROVE  IInv'
<1> DEFINE key == KeyOf(p)
           object == [bytes |-> out[p].bytes, type |-> out[p].type, place |-> p]
<1>1. /\ DOMAIN objects' = DOMAIN objects \cup {key}
      /\ objects'[key] = object
      /\ \A k \in DOMAIN objects : k # key => objects'[k] = objects[k]
  BY DEF UploadImgToS3
<1>2. pc[p] = "upload" /\ pc' = [pc EXCEPT ![p] = "list"]
      /\ UNCHANGED <<name, out, listed>>
  BY DEF UploadImgToS3
<1>3. MadeFor(p, out[p])
  BY <1>2 DEF IInv, TypeOK
<1>4. /\ key.idx = p[2] /\ key.chapter = SafeChapterNameToS3(name[p[1]])
      /\ key.ext = out[p].ext /\ DOMAIN key = {"chapter", "idx", "ext"}
  BY DEF KeyOf
<1>5. out[p] = [bytes |-> out[p].bytes, ext |-> out[p].ext, type |-> out[p].type]
  BY <1>3 DEF MadeFor, FilterImg
<1>6. TypeOK'
  <2>1. /\ name' \in [Chapter -> Raw]
        /\ pc' \in [Place -> {"off", "upload", "list"}]
        /\ DOMAIN out' = Place
    BY <1>2 DEF IInv, TypeOK
  <2>2. ASSUME NEW q \in Place
        PROVE  IF pc'[q] = "off" THEN out'[q] = NoImage
               ELSE MadeFor(q, out'[q])
    BY <1>2, <1>3 DEF IInv, TypeOK
  <2>3. ASSUME NEW k \in DOMAIN objects'
        PROVE  DOMAIN k = {"chapter", "idx", "ext"} /\ objects'[k].place \in Place
    BY <1>1, <1>4 DEF IInv, TypeOK
  <2> QED
    BY <2>1, <2>2, <2>3 DEF TypeOK, MadeFor
<1>7. Keyed'
  <2> SUFFICES ASSUME NEW k \in DOMAIN objects'
      PROVE  LET q == objects'[k].place IN
             /\ k.idx = q[2] /\ k.chapter = SafeChapterNameToS3(name[q[1]])
             /\ MadeFor(q, [bytes |-> objects'[k].bytes, ext |-> k.ext,
                            type |-> objects'[k].type])
    BY <1>2 DEF Keyed, MadeFor
  <2>1. CASE k = key
    <3>1. objects'[k] = object
      BY <1>1, <2>1
    <3>2. /\ object.place = p /\ object.bytes = out[p].bytes
          /\ object.type = out[p].type
      OBVIOUS
    <3> QED
      BY <1>3, <1>4, <1>5, <2>1, <3>1, <3>2
  <2>2. CASE k # key
    BY <1>1, <2>2 DEF IInv, Keyed
  <2> QED
    BY <2>1, <2>2
<1>8. Uploaded'
  <2> SUFFICES ASSUME NEW q \in Place, pc'[q] = "list"
      PROVE  KeyOf(q) \in DOMAIN objects'
    BY <1>2 DEF Uploaded, KeyOf
  <2>1. q = p \/ pc[q] = "list"
    BY <1>2 DEF IInv, TypeOK
  <2> QED
    BY <1>1, <2>1 DEF IInv, Uploaded
<1>9. ListedIsStored'
  BY <1>1, <1>2 DEF IInv, ListedIsStored
<1> QED
  BY <1>6, <1>7, <1>8, <1>9 DEF IInv

(* A handler lists what it has stored.                                     *)
LEMMA ListIInv ==
  ASSUME IInv, NEW p \in Place, UpdateChapterImgByIndex(p)
  PROVE  IInv'
<1>1. /\ pc[p] = "list" /\ pc' = [pc EXCEPT ![p] = "off"]
      /\ out' = [out EXCEPT ![p] = NoImage]
      /\ listed' = listed \cup {KeyOf(p)}
      /\ UNCHANGED <<name, objects>>
  BY DEF UpdateChapterImgByIndex
<1>2. TypeOK'
  BY <1>1 DEF IInv, TypeOK, MadeFor
<1>3. Keyed'
  BY <1>1 DEF IInv, Keyed, MadeFor
<1>4. Uploaded'
  BY <1>1 DEF IInv, TypeOK, Uploaded, KeyOf
<1>5. ListedIsStored'
  BY <1>1 DEF IInv, Uploaded, ListedIsStored
<1> QED
  BY <1>2, <1>3, <1>4, <1>5 DEF IInv

(* Every step keeps the invariant.                                         *)
LEMMA NextIInv == IInv /\ [Next]_vars => IInv'
<1> SUFFICES ASSUME IInv, [Next]_vars PROVE IInv'
  OBVIOUS
<1>1. CASE UNCHANGED vars
  BY <1>1 DEF IInv, TypeOK, Keyed, Uploaded, ListedIsStored, KeyOf, MadeFor, vars
<1>2. CASE Next
  BY <1>2, HandlerIInv, UploadIInv, ListIInv DEF Next
<1> QED
  BY <1>1, <1>2

(* It holds in every reachable state.                                      *)
LEMMA Invariance == Spec => []IInv
BY InitIInv, NextIInv, PTL DEF Spec

(* The states of handleImage and the bucket keep their shape.              *)
THEOREM TypeCorrect == Spec => []TypeOK
<1>1. IInv => TypeOK
  BY DEF IInv
<1> QED
  BY <1>1, Invariance, PTL

(* No url in a row leads nowhere, whatever the images were and however     *)
(* often they were done again.                                             *)
THEOREM ListedAreStored == Spec => []ListedIsStored
<1>1. IInv => ListedIsStored
  BY DEF IInv
<1> QED
  BY <1>1, Invariance, PTL

(* The content type of an object is that of its extension, and what was    *)
(* labelled image/webp by FilterImg is.                                    *)
THEOREM LabelsAreRight == Spec => []RightlyLabelled
<1>1. ASSUME IInv, NEW k \in DOMAIN objects
      PROVE  /\ objects[k].type = MimeOf[k.ext]
             /\ objects[k].type = Webp /\ MimeOf[UrlExt[objects[k].place]] # Webp
                  => objects[k].bytes = "webp"
  <2> DEFINE p == objects[k].place
  <2>1. PICK body \in Body :
          [bytes |-> objects[k].bytes, ext |-> k.ext, type |-> objects[k].type]
            = FilterImg(UrlExt[p], body)
    BY <1>1 DEF IInv, Keyed, MadeFor
  <2>2. CASE MimeOf[UrlExt[p]] \in Jpegs /\ body \in Convertible
    BY <2>1, <2>2, KeyAssumption DEF FilterImg
  <2>3. CASE ~(MimeOf[UrlExt[p]] \in Jpegs /\ body \in Convertible)
    BY <2>1, <2>3, KeyAssumption DEF FilterImg
  <2> QED
    BY <2>2, <2>3
<1>2. IInv => RightlyLabelled
  BY <1>1 DEF RightlyLabelled
<1> QED
  BY <1>2, Invariance, PTL

(* An object is only ever replaced by an image of the same index of a      *)
(* chapter whose name looks alike.                                         *)
THEOREM ReplacedOnlyByAlike == Spec => ReplacedByAlike
<1> DEFINE Step == \A k \in DOMAIN objects :
             LET p == objects[k].place
                 q == objects'[k].place
             IN  p[2] = q[2] /\ Alike(name[p[1]], name[q[1]])
<1>1. ASSUME IInv, IInv', Next PROVE Step
  <2> SUFFICES ASSUME NEW k \in DOMAIN objects
      PROVE  LET p == objects[k].place
                 q == objects'[k].place
             IN  p[2] = q[2] /\ Alike(name[p[1]], name[q[1]])
    OBVIOUS
  <2> DEFINE p == objects[k].place
             q == objects'[k].place
  <2>1. k \in DOMAIN objects' /\ name' = name
    BY <1>1 DEF Next, FetchImage, UploadImgToS3, UpdateChapterImgByIndex, CutOff
  <2>2. k.idx = p[2] /\ k.chapter = SafeChapterNameToS3(name[p[1]])
    BY <1>1 DEF IInv, Keyed
  <2>3. k.idx = q[2] /\ k.chapter = SafeChapterNameToS3(name[q[1]])
    BY <1>1, <2>1 DEF IInv, Keyed
  <2>4. SafeChapterNameToS3(name[p[1]]) = SafeChapterNameToS3(name[q[1]])
    BY <2>2, <2>3
  <2>5. Alike(name[p[1]], name[q[1]])
    BY <2>4, CollideExactlyWhenAlike
  <2> QED
    BY <2>2, <2>3, <2>5
<1>2. IInv /\ IInv' /\ [Next]_vars => [Step]_vars
  BY <1>1
<1> QED
  BY <1>2, Invariance, PTL DEF Spec, ReplacedByAlike
=============================================================================
