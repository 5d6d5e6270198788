----------------------------- MODULE MCProxyList -----------------------------
(* Instance of ProxyList for TLC: two lists of http proxies and one of     *)
(* socks5 proxies.                                                         *)
EXTENDS ProxyList, TLC

CONSTANTS s1, s2, s3, h1, h2, six

Types == (s1 :> "http") @@ (s2 :> "http") @@ (s3 :> "socks5")

Plain(h) ==
  [noise |-> FALSE, url |-> FALSE, blank |-> FALSE,
   auth |-> "none", host |-> h, tail |-> <<"number">>]
Url(h) == [Plain(h) EXCEPT !.url = TRUE, !.auth = "user"]
WithAuth(h, a) == [Plain(h) EXCEPT !.auth = a]
NoPort(h) == [Plain(h) EXCEPT !.tail = <<>>]
Country(h) == [Plain(h) EXCEPT !.tail = <<"number", "word">>]
Sentence(h) == [Plain(h) EXCEPT !.blank = TRUE, !.tail = <<"word">>]
Heading == [Plain(NoHost) EXCEPT !.noise = TRUE]

(* The first two have an address in common, which the second has twice;    *)
(* the third has the same host as a socks5 proxy.  Some lines have more    *)
(* parts than a proxy, fewer, or are a sentence with a colon.              *)
Texts ==
  (s1 :> {<<Heading, Plain(h1), WithAuth(h2, "password")>>,
          <<Country(h1), NoPort(h1), WithAuth(h1, "user")>>})
  @@ (s2 :> {<<Plain(h1), Url(h2), Plain(h1)>>,
             <<Sentence(h2), [Country(h2) EXCEPT !.url = TRUE], Plain(six)>>})
  @@ (s3 :> {<<WithAuth(h2, "user"), Plain(h1), Sentence(h1)>>,
             <<Url(h2), NoPort(six)>>})
=============================================================================
