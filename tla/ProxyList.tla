------------------------------ MODULE ProxyList ------------------------------
(***************************************************************************)
(* One call of GetTxtProxy: a goroutine for each source downloads a text   *)
(* and parses it line by line, its addresses are appended to one list      *)
(* under a mutex, and when all goroutines are done the list is rid of its  *)
(* repetitions.  ProxyPool takes any list that can come out of this.       *)
(*                                                                         *)
(* Of a line only what the parser and CreateProxyClient tell apart is      *)
(* kept: whether it is noise, has a scheme, or something no url may have,  *)
(* what credentials come before its host, and what follows the host, each  *)
(* part of it behind a colon.  Free text has the same shape.               *)
(***************************************************************************)
EXTENDS Naturals, Sequences

CONSTANTS
  Source,   \* the URLs proxies are fetched from
  TypeOf,   \* "socks5" or "http" for each of them
  Host,     \* what may stand in the place of a host name
  Six,      \* those that are an IPv6 address in brackets
  NoHost,   \* the empty host
  Bodies    \* the texts a source may answer with

Type == {"socks5", "http"}

(* auth: "user@" and "user:password@" in front of the host.                *)
(* tail: ":80" is <<"number">>, ":80:US" is <<"number", "word">>.          *)
(* blank: a space, or whatever else the host of a url cannot have.         *)
Auth == {"none", "user", "password"}
Parts == Seq({"number", "word"})

Line == [noise : BOOLEAN, url : BOOLEAN, blank : BOOLEAN,
         auth : Auth, host : Host \cup {NoHost}, tail : Parts]

Addr == [type : Type, blank : BOOLEAN,
         auth : Auth, host : Host \cup {NoHost}, tail : Parts]

ASSUME SourceAssumption ==
  /\ NoHost \notin Host /\ Six \subseteq Host
  /\ TypeOf \in [Source -> Type]
  /\ Bodies \in [Source -> SUBSET Seq(Line)]

VARIABLES
  pc,      \* control of the goroutine of each source
  body,    \* the text it was answered with
  pos,     \* the next line it scans
  parsed,  \* parsedProxies
  all,     \* allFetchedProxies
  phase,   \* control of GetTxtProxy
  next,    \* the element of all it looks at
  list     \* uniqueProxiesList; uniqueProxiesMap has the same elements

sourceVars == <<pc, body, pos, parsed>>
vars == <<sourceVars, all, phase, next, list>>

Init ==
  /\ pc = [s \in Source |-> "get"]
  /\ body = [s \in Source |-> <<>>]
  /\ pos = [s \in Source |-> 1]
  /\ parsed = [s \in Source |-> <<>>]
  /\ all = <<>>
  /\ phase = "fetch"
  /\ next = 1
  /\ list = <<>>

(* client.Do and a status of 200.                                          *)
Answered(s) ==
  /\ pc[s] = "get"
  /\ \E b \in Bodies[s] : body' = [body EXCEPT ![s] = b]
  /\ pc' = [pc EXCEPT ![s] = "scan"]
  /\ UNCHANGED <<pos, parsed, all, phase, next, list>>

(* A timeout, another error or another status: only logged.                *)
FetchFails(s) ==
  /\ pc[s] = "get"
  /\ pc' = [pc EXCEPT ![s] = "done"]
  /\ UNCHANGED <<body, pos, parsed, all, phase, next, list>>

(* url.Parse: only the last colon may begin a port, and only the one after *)
(* the bracket of an IPv6 address.                                         *)
UrlParses(x) ==
  /\ ~x.blank
  /\ x.tail # <<>> => x.tail[Len(x.tail)] = "number"
  /\ x.host \in Six => Len(x.tail) <= 1

(* The host of a URL comes without credentials; any other line is kept as  *)
(* it is.                                                                  *)
AuthOf(l) == IF l.url THEN "none" ELSE l.auth

(* A colon, but not in the first place.                                    *)
Mut_HasColonTwo(l) == Len(l.tail) > 1 \/ AuthOf(l) = "password" \/ l.host \in Six
HasColon(l) == l.tail # <<>> \/ AuthOf(l) = "password" \/ l.host \in Six
ColonFirst(l) == l.host = NoHost /\ AuthOf(l) = "none"

Rejected(t, l) ==
  \/ l.noise
  \/ l.url /\ ~UrlParses(l)
  \/ ~HasColon(l) \/ ColonFirst(l)
  \/ t = "socks5" /\ AuthOf(l) # "none"

AddrOf(t, l) ==
  [type |-> t, blank |-> l.blank,
   auth |-> AuthOf(l), host |-> l.host, tail |-> l.tail]

(* One turn of the loop of parseProxiesFromReader.                         *)
ScanLine(s) ==
  /\ pc[s] = "scan" /\ pos[s] <= Len(body[s])
  /\ pos' = [pos EXCEPT ![s] = @ + 1]
  /\ LET l == body[s][pos[s]] IN
     parsed' = [parsed EXCEPT ![s] =
       IF Rejected(TypeOf[s], l) THEN @ ELSE Append(@, AddrOf(TypeOf[s], l))]
  /\ UNCHANGED <<pc, body, all, phase, next, list>>

(* The text ends, or its reading does with an error: what was parsed so    *)
(* far is returned either way.                                             *)
ScanEnds(s) ==
  /\ pc[s] = "scan"
  /\ pc' = [pc EXCEPT ![s] = IF parsed[s] = <<>> THEN "done" ELSE "merge"]
  /\ UNCHANGED <<body, pos, parsed, all, phase, next, list>>

Mut_MergeOverwrites(s) ==
  /\ pc[s] = "merge"
  /\ all' = parsed[s]
  /\ pc' = [pc EXCEPT ![s] = "done"]
  /\ UNCHANGED <<body, pos, parsed, phase, next, list>>
Merge(s) ==
  /\ pc[s] = "merge"
  /\ all' = all \o parsed[s]
  /\ pc' = [pc EXCEPT ![s] = "done"]
  /\ UNCHANGED <<body, pos, parsed, phase, next, list>>

(* wg.Wait()                                                               *)
Wait ==
  /\ phase = "fetch" /\ \A s \in Source : pc[s] = "done"
  /\ phase' = "dedupe"
  /\ UNCHANGED <<sourceVars, all, next, list>>

Mut_SeenLast(a) == list # <<>> /\ list[Len(list)] = a
Seen(a) == \E j \in 1..Len(list) : list[j] = a

KeepNext ==
  /\ phase = "dedupe" /\ next <= Len(all)
  /\ list' = IF Seen(all[next]) THEN list ELSE Append(list, all[next])
  /\ next' = next + 1
  /\ UNCHANGED <<sourceVars, all, phase>>

(* The error it returns is always nil.                                     *)
Return ==
  /\ phase = "dedupe" /\ next > Len(all)
  /\ phase' = "returned"
  /\ UNCHANGED <<sourceVars, all, next, list>>

SourceStep(s) ==
  \/ Answered(s) \/ FetchFails(s) \/ ScanLine(s) \/ ScanEnds(s) \/ Merge(s)

Next == (\E s \in Source : SourceStep(s)) \/ Wait \/ KeepNext \/ Return

Spec == Init /\ [][Next]_vars

(* net.SplitHostPort: one colon, not counting those in brackets, and       *)
(* brackets only in the first place.                                       *)
SplitsHostPort(a) ==
  /\ Len(a.tail) + (IF a.auth = "password" THEN 1 ELSE 0) = 1
  /\ a.host \in Six => a.auth = "none" /\ a.tail # <<>>

(* Whether CreateProxyClient makes a client.                               *)
CreateProxyClient(a) ==
  /\ SplitsHostPort(a)
  /\ a.type = "http" => UrlParses(a)

-----------------------------------------------------------------------------
(* Properties.                                                             *)

(* Every variable keeps its shape, and nothing is appended any more when   *)
(* the list is being reduced.                                              *)
TypeOK ==
  /\ pc \in [Source -> {"get", "scan", "merge", "done"}]
  /\ body \in [Source -> Seq(Line)]
  /\ pos \in [Source -> Nat \ {0}]
  /\ \A s \in Source : pos[s] <= Len(body[s]) + 1
  /\ parsed \in [Source -> Seq(Addr)]
  /\ \A s \in Source : pc[s] = "get" => pos[s] = 1 /\ parsed[s] = <<>>
  /\ all \in Seq(Addr)
  /\ phase \in {"fetch", "dedupe", "returned"}
  /\ next \in 1..(Len(all) + 1)
  /\ list \in Seq(Addr)
  /\ phase # "fetch" => \A s \in Source : pc[s] = "done"
  /\ phase = "fetch" => next = 1

(* The list never holds an address twice, which the pool, keyed by         *)
(* address, relies on for filling up in one pass over the list.            *)
NoRepeats == \A i, j \in 1..Len(list) : list[i] = list[j] => i = j

(* No address is lost on the way through the goroutines: whatever line a   *)
(* source got to read before its text ended or broke off is in the result. *)
IsListed(a, seq) == \E j \in 1..Len(seq) : seq[j] = a

Complete ==
  phase = "returned" =>
    \A s \in Source : \A i \in 1..(pos[s] - 1) :
      LET l == body[s][i] IN
      Rejected(TypeOf[s], l) \/ IsListed(AddrOf(TypeOf[s], l), list)

(* Whatever else the sources serve, a line that names a proxy by host and  *)
(* port, as it is or as a url, gets through parser and list as an address  *)
(* CreateProxyClient makes a client of.  Credentials may come with a url,  *)
(* and a user without a password with an http proxy.                       *)
NamesProxy(t, l) ==
  /\ ~l.noise /\ ~l.blank
  /\ l.host # NoHost /\ l.tail = <<"number">>
  /\ \/ AuthOf(l) = "none"
     \/ t = "http" /\ AuthOf(l) = "user" /\ l.host \notin Six

ProxiesOffered ==
  phase = "returned" =>
    \A s \in Source : \A i \in 1..(pos[s] - 1) :
      NamesProxy(TypeOf[s], body[s][i]) =>
        \E j \in 1..Len(list) :
          list[j] = AddrOf(TypeOf[s], body[s][i]) /\ CreateProxyClient(list[j])

(* What the proofs add: where the lines of each source are on their way.   *)
Parsed ==
  \A s \in Source : \A i \in 1..(pos[s] - 1) :
    Rejected(TypeOf[s], body[s][i])
      \/ IsListed(AddrOf(TypeOf[s], body[s][i]), parsed[s])

Merged ==
  \A s \in Source : pc[s] = "done" =>
    \A j \in 1..Len(parsed[s]) : IsListed(parsed[s][j], all)

Kept == \A j \in 1..(next - 1) : IsListed(all[j], list)

AllKept == phase = "returned" => next = Len(all) + 1

IInv == TypeOK /\ NoRepeats /\ Parsed /\ Merged /\ Kept /\ AllKept
=============================================================================
