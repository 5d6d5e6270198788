--------------------------- MODULE ProxyListProofs ---------------------------
(***************************************************************************)
(* Theorems about ProxyList, for every set of sources and every text they  *)
(* may answer with.                                                        *)
(***************************************************************************)
EXTENDS ProxyList, TLAPS

(* An accepted line gives an address.                                      *)
LEMMA AddrOfType ==
  ASSUME NEW t \in Type, NEW l \in Line
  PROVE  AddrOf(t, l) \in Addr
BY DEF AddrOf, AuthOf, Auth, Addr, Line

(* Appending keeps what is listed and lists the new element.               *)
LEMMA AppendLists ==
  ASSUME NEW S, NEW seq \in Seq(S), NEW a \in S
  PROVE  /\ IsListed(a, Append(seq, a))
         /\ \A b : IsListed(b, seq) => IsListed(b, Append(seq, a))
<1>1. Append(seq, a)[Len(seq) + 1] = a /\ Len(Append(seq, a)) = Len(seq) + 1
  OBVIOUS
<1>2. \A j \in 1..Len(seq) :
        j \in 1..Len(Append(seq, a)) /\ Append(seq, a)[j] = seq[j]
  OBVIOUS
<1>3. Len(seq) + 1 \in 1..Len(Append(seq, a))
  BY <1>1
<1> QED
  BY <1>1, <1>2, <1>3, Zenon DEF IsListed

(* A concatenation lists what either part lists.                           *)
LEMMA ConcatLists ==
  ASSUME NEW S, NEW seq \in Seq(S), NEW more \in Seq(S)
  PROVE  /\ \A b : IsListed(b, seq) => IsListed(b, seq \o more)
         /\ \A j \in 1..Len(more) : IsListed(more[j], seq \o more)
         /\ \A j \in 1..Len(seq) : (seq \o more)[j] = seq[j]
<1>1. Len(seq \o more) = Len(seq) + Len(more)
  OBVIOUS
<1>2. \A j \in 1..Len(seq) :
        j \in 1..Len(seq \o more) /\ (seq \o more)[j] = seq[j]
  OBVIOUS
<1>3. \A j \in 1..Len(more) :
        /\ Len(seq) + j \in 1..Len(seq \o more)
        /\ (seq \o more)[Len(seq) + j] = more[j]
  OBVIOUS
<1>4. ASSUME NEW b, IsListed(b, seq) PROVE IsListed(b, seq \o more)
  BY <1>2, <1>4, Zenon DEF IsListed
<1>5. ASSUME NEW j \in 1..Len(more) PROVE IsListed(more[j], seq \o more)
  BY <1>3, Zenon DEF IsListed
<1> QED
  BY <1>2, <1>4, <1>5

-----------------------------------------------------------------------------
(* The type invariant.                                                     *)

(* The types hold initially, and every step keeps them.                    *)
LEMMA TypeInit == Init => TypeOK
BY SourceAssumption DEF Init, TypeOK

(* One step per action; texts and addresses keep their types.              *)
LEMMA TypeStep == TypeOK /\ [Next]_vars => TypeOK'
<1> SUFFICES ASSUME TypeOK, [Next]_vars PROVE TypeOK'
  OBVIOUS
<1> USE SourceAssumption
<1>1. ASSUME NEW s \in Source, Answered(s) PROVE TypeOK'
  <2>1. PICK b \in Bodies[s] : body' = [body EXCEPT ![s] = b]
    BY <1>1 DEF Answered
  <2>2. b \in Seq(Line)
    BY <2>1
  <2>3. pos[s] = 1
    BY <1>1 DEF Answered, TypeOK
  <2>4. \A r \in Source : pos'[r] <= Len(body'[r]) + 1
    BY <1>1, <2>1, <2>2, <2>3 DEF Answered, TypeOK
  <2> QED
    BY <1>1, <2>1, <2>2, <2>4 DEF Answered, TypeOK
<1>2. ASSUME NEW s \in Source, FetchFails(s) PROVE TypeOK'
  BY <1>2 DEF FetchFails, TypeOK
<1>3. ASSUME NEW s \in Source, ScanLine(s) PROVE TypeOK'
  <2> DEFINE l == body[s][pos[s]]
  <2>1. l \in Line /\ TypeOf[s] \in Type
    BY <1>3 DEF ScanLine, TypeOK
  <2>2. AddrOf(TypeOf[s], l) \in Addr
    BY <2>1, AddrOfType
  <2>3. parsed' \in [Source -> Seq(Addr)]
    BY <1>3, <2>2 DEF ScanLine, TypeOK
  <2>4. /\ pos' \in [Source -> Nat \ {0}]
        /\ \A r \in Source : pos'[r] <= Len(body'[r]) + 1
    BY <1>3 DEF ScanLine, TypeOK
  <2> QED
    BY <1>3, <2>3, <2>4 DEF ScanLine, TypeOK
<1>4. ASSUME NEW s \in Source, ScanEnds(s) PROVE TypeOK'
  BY <1>4 DEF ScanEnds, TypeOK
<1>5. ASSUME NEW s \in Source, Merge(s) PROVE TypeOK'
  <2>1. phase = "fetch"
    BY <1>5 DEF Merge, TypeOK
  <2>2. all' \in Seq(Addr) /\ Len(all') \in Nat
    BY <1>5 DEF Merge, TypeOK
  <2> QED
    BY <1>5, <2>1, <2>2 DEF Merge, TypeOK
<1>6. CASE Wait
  BY <1>6 DEF Wait, sourceVars, TypeOK
<1>7. CASE KeepNext
  <2>1. all[next] \in Addr
    BY <1>7 DEF KeepNext, TypeOK
  <2> QED
    BY <1>7, <2>1 DEF KeepNext, sourceVars, TypeOK
<1>8. CASE Return
  BY <1>8 DEF Return, sourceVars, TypeOK
<1>9. CASE UNCHANGED vars
  BY <1>9 DEF vars, sourceVars, TypeOK
<1> QED
  BY <1>1, <1>2, <1>3, <1>4, <1>5, <1>6, <1>7, <1>8, <1>9
  DEF Next, SourceStep

-----------------------------------------------------------------------------
(* The inductive invariant.                                                *)

(* Nothing is read, merged or kept yet.                                    *)
LEMMA InvInit == Init => IInv
<1> SUFFICES ASSUME Init PROVE IInv
  OBVIOUS
<1>1. TypeOK
  BY TypeInit
<1> QED
  BY <1>1 DEF Init, IInv, NoRepeats, Parsed, Merged, Kept, AllKept

(* Steps of a source before its addresses are merged.                      *)
LEMMA ScanStep ==
  ASSUME IInv, TypeOK', NEW s \in Source,
         Answered(s) \/ FetchFails(s) \/ ScanLine(s) \/ ScanEnds(s)
  PROVE  IInv'
<1> USE DEF IInv
<1>1. UNCHANGED <<all, phase, next, list>>
  BY DEF Answered, FetchFails, ScanLine, ScanEnds
<1>2. NoRepeats' /\ Kept' /\ AllKept'
  BY <1>1 DEF NoRepeats, Kept, AllKept, IsListed
<1>3. ASSUME NEW r \in Source, NEW i \in 1..(pos'[r] - 1)
      PROVE  \/ Rejected(TypeOf[r], body'[r][i])
             \/ IsListed(AddrOf(TypeOf[r], body'[r][i]), parsed'[r])
  <2>1. CASE Answered(s)
    BY <2>1, <1>3 DEF Answered, TypeOK, Parsed
  <2>2. CASE FetchFails(s) \/ ScanEnds(s)
    BY <2>2, <1>3 DEF FetchFails, ScanEnds, Parsed
  <2>3. CASE ScanLine(s) /\ r # s
    BY <2>3, <1>3 DEF ScanLine, TypeOK, Parsed
  <2>4. CASE ScanLine(s) /\ r = s
    <3> DEFINE l == body[s][pos[s]]
               a == AddrOf(TypeOf[s], l)
    <3>1. l \in Line /\ a \in Addr
      <4>1. l \in Line
        BY <2>4 DEF ScanLine, TypeOK
      <4>2. TypeOf[s] \in Type
        BY SourceAssumption
      <4> QED
        BY <4>1, <4>2, AddrOfType
    <3>2. parsed[s] \in Seq(Addr)
      BY DEF TypeOK
    <3>3. /\ IsListed(a, Append(parsed[s], a))
          /\ \A b : IsListed(b, parsed[s]) => IsListed(b, Append(parsed[s], a))
      BY <3>1, <3>2, AppendLists
    <3>4. /\ parsed'[s] = IF Rejected(TypeOf[s], l) THEN parsed[s]
                          ELSE Append(parsed[s], a)
          /\ body' = body
          /\ i = pos[s] \/ i \in 1..(pos[s] - 1)
      <4>1. pos'[s] = pos[s] + 1 /\ pos[s] \in Nat \ {0}
        BY <2>4 DEF ScanLine, TypeOK
      <4>2. i = pos[s] \/ i \in 1..(pos[s] - 1)
        BY <1>3, <2>4, <4>1
      <4>3. parsed'[s] = IF Rejected(TypeOf[s], l) THEN parsed[s]
                         ELSE Append(parsed[s], a)
        BY <2>4, Zenon DEF ScanLine, TypeOK
      <4>4. body' = body
        BY <2>4 DEF ScanLine
      <4> QED
        BY <4>2, <4>3, <4>4
    <3> HIDE DEF a
    <3>5. CASE i = pos[s]
      BY <2>4, <3>3, <3>4, <3>5 DEF a
    <3>6. CASE i \in 1..(pos[s] - 1)
      <4>1. Rejected(TypeOf[s], body[s][i])
              \/ IsListed(AddrOf(TypeOf[s], body[s][i]), parsed[s])
        BY <3>6 DEF Parsed
      <4> QED
        BY <2>4, <3>3, <3>4, <4>1
    <3> QED
      BY <3>4, <3>5, <3>6
  <2> QED
    BY <2>1, <2>2, <2>3, <2>4
<1>4. Parsed'
  BY <1>3 DEF Parsed
<1>5. ASSUME NEW r \in Source, pc'[r] = "done", NEW j \in 1..Len(parsed'[r])
      PROVE  IsListed(parsed'[r][j], all)
  <2>1. CASE r = s
    <3>1. parsed'[s] = <<>>
      BY <1>5, <2>1
      DEF Answered, FetchFails, ScanLine, ScanEnds, TypeOK
    <3> QED
      BY <1>5, <2>1, <3>1
  <2>2. CASE r # s
    BY <1>5, <2>2
    DEF Answered, FetchFails, ScanLine, ScanEnds, TypeOK, Merged
  <2> QED
    BY <2>1, <2>2
<1>6. Merged'
  BY <1>1, <1>5 DEF Merged
<1> QED
  BY <1>2, <1>4, <1>6

(* A source appends what it parsed: nothing is taken out of the list.      *)
LEMMA MergeStep ==
  ASSUME IInv, TypeOK', NEW s \in Source, Merge(s)
  PROVE  IInv'
<1> USE DEF IInv
<1>1. all \in Seq(Addr) /\ parsed[s] \in Seq(Addr)
  BY DEF TypeOK
<1>2. /\ all' = all \o parsed[s]
      /\ UNCHANGED <<body, pos, parsed, phase, next, list>>
      /\ pc' = [pc EXCEPT ![s] = "done"]
  BY DEF Merge
<1>3. phase = "fetch" /\ next = 1
  BY DEF Merge, TypeOK
<1>4. NoRepeats' /\ Parsed' /\ Kept' /\ AllKept'
  BY <1>2, <1>3 DEF NoRepeats, Parsed, Kept, AllKept
<1>5. ASSUME NEW r \in Source, pc'[r] = "done", NEW j \in 1..Len(parsed[r])
      PROVE  IsListed(parsed[r][j], all')
  <2>1. CASE r = s
    BY <1>1, <1>2, <2>1, ConcatLists
  <2>2. CASE r # s
    <3>1. IsListed(parsed[r][j], all)
      BY <1>2, <1>5, <2>2 DEF Merged, TypeOK
    <3> QED
      BY <1>1, <1>2, <3>1, ConcatLists
  <2> QED
    BY <2>1, <2>2
<1>6. Merged'
  BY <1>2, <1>5 DEF Merged
<1> QED
  BY <1>4, <1>6

(* One turn of the last loop: what was kept stays, the next address is     *)
(* listed after it, and listed once.                                       *)
LEMMA KeepStep ==
  ASSUME IInv, TypeOK', KeepNext
  PROVE  IInv'
<1> USE DEF IInv
<1> DEFINE a == all[next]
<1>1. list \in Seq(Addr) /\ a \in Addr /\ next \in Nat \ {0}
  BY DEF KeepNext, TypeOK
<1>2. UNCHANGED <<pc, body, pos, parsed, all, phase>> /\ next' = next + 1
  BY DEF KeepNext, sourceVars
<1>3. list' = IF Seen(a) THEN list ELSE Append(list, a)
  BY DEF KeepNext
<1>4. /\ IsListed(a, Append(list, a))
      /\ \A b : IsListed(b, list) => IsListed(b, Append(list, a))
  BY <1>1, AppendLists
<1> HIDE DEF a
<1>5. IsListed(a, list')
  BY <1>3, <1>4 DEF Seen, IsListed
<1>6. \A b : IsListed(b, list) => IsListed(b, list')
  BY <1>3, <1>4
<1>7. Kept'
  <2> SUFFICES ASSUME NEW j \in 1..next PROVE IsListed(all[j], list')
    BY <1>1, <1>2 DEF Kept
  <2>1. CASE j = next
    BY <1>5, <2>1 DEF a
  <2>2. CASE j \in 1..(next - 1)
    BY <1>6, <2>2 DEF Kept
  <2> QED
    BY <1>1, <2>1, <2>2
<1>8. NoRepeats'
  <2>1. CASE Seen(a)
    BY <1>3, <2>1 DEF NoRepeats
  <2>2. CASE ~Seen(a)
    <3>1. list' = Append(list, a)
      BY <1>3, <2>2
    <3>2. /\ Len(list') = Len(list) + 1
          /\ list'[Len(list) + 1] = a
          /\ \A j \in 1..Len(list) : list'[j] = list[j] /\ list[j] # a
      BY <1>1, <2>2, <3>1 DEF Seen
    <3> QED
      BY <1>1, <3>2 DEF NoRepeats
  <2> QED
    BY <2>1, <2>2
<1>9. Parsed' /\ Merged' /\ AllKept'
  BY <1>2 DEF Parsed, Merged, AllKept, KeepNext
<1> QED
  BY <1>7, <1>8, <1>9

(* The steps of the sources and the last loop, put together.               *)
LEMMA InvStep == IInv /\ [Next]_vars => IInv'
<1> SUFFICES ASSUME IInv, [Next]_vars PROVE IInv'
  OBVIOUS
<1>1. TypeOK /\ TypeOK'
  BY TypeStep DEF IInv
<1>2. ASSUME NEW s \in Source, SourceStep(s) PROVE IInv'
  BY <1>1, <1>2, ScanStep, MergeStep DEF SourceStep
<1>3. CASE Wait
  BY <1>1, <1>3
  DEF Wait, sourceVars, IInv, NoRepeats, Parsed, Merged, Kept, AllKept
<1>4. CASE KeepNext
  BY <1>1, <1>4, KeepStep
<1>5. CASE Return
  BY <1>1, <1>5 DEF Return, sourceVars, TypeOK, IInv, NoRepeats, Parsed,
                    Merged, Kept, AllKept
<1>6. CASE UNCHANGED vars
  BY <1>1, <1>6 DEF vars, sourceVars, IInv, NoRepeats, Parsed, Merged, Kept,
                    AllKept
<1> QED
  BY <1>2, <1>3, <1>4, <1>5, <1>6 DEF Next

(* A line on its way through parsed and all has arrived in the end.        *)
LEMMA InvComplete == IInv => Complete
<1> SUFFICES ASSUME IInv, phase = "returned",
                    NEW s \in Source, NEW i \in 1..(pos[s] - 1),
                    ~Rejected(TypeOf[s], body[s][i])
             PROVE  IsListed(AddrOf(TypeOf[s], body[s][i]), list)
  BY DEF Complete
<1> DEFINE a == AddrOf(TypeOf[s], body[s][i])
<1>1. PICK j \in 1..Len(parsed[s]) : parsed[s][j] = a
  BY DEF IInv, Parsed, IsListed
<1>2. IsListed(a, all)
  BY <1>1 DEF IInv, TypeOK, Merged
<1>3. PICK k \in 1..Len(all) : all[k] = a
  BY <1>2 DEF IsListed
<1>4. k \in 1..(next - 1)
  BY <1>3 DEF IInv, TypeOK, AllKept
<1> QED
  BY <1>3, <1>4 DEF IInv, Kept

(* A line that names a proxy is accepted, and its address makes a client.  *)
LEMMA ProxyAccepted ==
  ASSUME NEW t \in Type, NEW l \in Line, NamesProxy(t, l)
  PROVE  ~Rejected(t, l) /\ CreateProxyClient(AddrOf(t, l))
<1>1. l.tail = <<"number">> /\ Len(l.tail) = 1 /\ l.tail[Len(l.tail)] = "number"
  BY DEF NamesProxy
<1>2. UrlParses(l) /\ HasColon(l)
  BY <1>1 DEF NamesProxy, UrlParses, HasColon
<1>3. AuthOf(l) # "password" /\ (AuthOf(l) # "none" => t = "http")
  BY DEF NamesProxy
<1>4. ~Rejected(t, l)
  BY <1>2, <1>3 DEF NamesProxy, Rejected, ColonFirst
<1>5. /\ AddrOf(t, l).tail = l.tail /\ AddrOf(t, l).host = l.host
      /\ AddrOf(t, l).auth = AuthOf(l) /\ AddrOf(t, l).blank = l.blank
  BY DEF AddrOf
<1>6. SplitsHostPort(AddrOf(t, l))
  BY <1>1, <1>3, <1>5 DEF NamesProxy, SplitsHostPort
<1>7. UrlParses(AddrOf(t, l))
  BY <1>1, <1>2, <1>5 DEF UrlParses
<1> QED
  BY <1>4, <1>6, <1>7 DEF CreateProxyClient

-----------------------------------------------------------------------------
(* Theorems.                                                               *)

(* The strengthening holds initially and is kept by every step.            *)
THEOREM InvariantHolds == Spec => []IInv
<1> QED
  BY InvInit, InvStep, PTL DEF Spec

(* The list GetTxtProxy returns repeats no address: what ListAssumption of *)
(* ProxyPool takes for granted.                                            *)
THEOREM ListHasNoRepeats == Spec => []NoRepeats
<1>1. IInv => NoRepeats
  BY DEF IInv
<1> QED
  BY <1>1, InvariantHolds, PTL

(* Whatever a source got to read is in the list it returns, in any         *)
(* interleaving of the sources.                                            *)
THEOREM ListIsComplete == Spec => []Complete
<1> QED
  BY InvComplete, InvariantHolds, PTL

(* No proxy named by its host and port is lost to the pool, whatever lines *)
(* the sources serve besides.                                              *)
THEOREM ProxiesAreOffered == Spec => []ProxiesOffered
<1>1. TypeOK /\ Complete => ProxiesOffered
  <2> SUFFICES ASSUME TypeOK, Complete, phase = "returned",
                      NEW s \in Source, NEW i \in 1..(pos[s] - 1),
                      NamesProxy(TypeOf[s], body[s][i])
               PROVE  \E j \in 1..Len(list) :
                        /\ list[j] = AddrOf(TypeOf[s], body[s][i])
                        /\ CreateProxyClient(list[j])
    BY DEF ProxiesOffered
  <2> DEFINE l == body[s][i]
  <2>1. l \in Line /\ TypeOf[s] \in Type
    <3>1. body[s] \in Seq(Line) /\ i \in 1..Len(body[s])
      BY DEF TypeOK
    <3>2. TypeOf[s] \in Type
      BY SourceAssumption
    <3> QED
      BY <3>1, <3>2
  <2>2. Rejected(TypeOf[s], l) \/ IsListed(AddrOf(TypeOf[s], l), list)
    BY DEF Complete
  <2> HIDE DEF l
  <2>3. NamesProxy(TypeOf[s], l)
    BY DEF l
  <2>4. ~Rejected(TypeOf[s], l) /\ CreateProxyClient(AddrOf(TypeOf[s], l))
    BY <2>1, <2>3, ProxyAccepted
  <2>5. PICK j \in 1..Len(list) : list[j] = AddrOf(TypeOf[s], l)
    BY <2>2, <2>4 DEF IsListed
  <2>6. list[j] = AddrOf(TypeOf[s], l) /\ CreateProxyClient(list[j])
    BY <2>4, <2>5
  <2> QED
    BY <2>6 DEF l
<1> QED
  BY <1>1, InvComplete, InvariantHolds, PTL DEF IInv

(* Every variable keeps its shape and the goroutines are waited for, in    *)
(* every call of GetTxtProxy.                                              *)
THEOREM TypeCorrect == Spec => []TypeOK
<1> QED
  BY TypeInit, TypeStep, PTL DEF Spec
=============================================================================
