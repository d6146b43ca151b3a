--------------------------- MODULE ConfigFlowProofs ---------------------------
(***************************************************************************)
(* The generator and the server, for every list of components and every    *)
(* file, with any number of sections.                                      *)
(***************************************************************************)
EXTENDS ConfigFlow, FiniteSetTheorems, SequenceTheorems, TLAPS

-----------------------------------------------------------------------------
(* Small sets *)

LEMMA FiniteWith == ASSUME NEW S, IsFiniteSet(S), NEW x PROVE IsFiniteSet(S \cup {x})
BY FS_AddElement

\* A finite set has at most one element if any two are the same.
LEMMA AtMostOne ==
  ASSUME NEW S, IsFiniteSet(S), NEW A
  PROVE  Cardinality(A \cap S) <= 1 <=> \A a, b \in A \cap S : a = b
<1> DEFINE T == A \cap S
<1>1. IsFiniteSet(T) /\ Cardinality(T) \in Nat
  <2>1. T \subseteq S OBVIOUS
  <2>2. IsFiniteSet(T) BY <2>1, FS_Subset
  <2> QED BY <2>2, FS_CardinalityType
<1> HIDE DEF T
<1>2. ASSUME Cardinality(T) <= 1, NEW a \in T, NEW b \in T, a # b PROVE FALSE
  <2>1. {a} \cup {b} \subseteq T OBVIOUS
  <2>2. IsFiniteSet({a}) /\ Cardinality({a}) = 1 BY FS_Singleton
  <2>3. b \notin {a} BY <1>2
  <2>4. Cardinality({a} \cup {b}) = 2 BY <2>2, <2>3, FS_AddElement
  <2>5. Cardinality({a} \cup {b}) <= Cardinality(T) BY <1>1, <2>1, FS_Subset
  <2> QED BY <1>1, <1>2, <2>4, <2>5
<1>3. ASSUME \A a, b \in T : a = b PROVE Cardinality(T) <= 1
  <2>1. CASE T = {} BY <2>1, FS_EmptySet
  <2>2. CASE T # {}
    <3>1. PICK a \in T : TRUE BY <2>2
    <3>2. T = {a} BY <1>3, <3>1
    <3> QED BY <3>2, FS_Singleton
  <2> QED BY <2>1, <2>2
<1> QED BY <1>2, <1>3 DEF T

LEMMA SmallSets ==
  /\ IsFiniteSet(Inbounds) /\ IsFiniteSet(Obfs) /\ IsFiniteSet(Layers) /\ IsFiniteSet(Framings)
  /\ IsFiniteSet(Layers \cup Framings)
  /\ IsFiniteSet(NonVless \cup {"xhttp"} \cup Experimental)
<1>0. IsFiniteSet({}) BY FS_EmptySet
<1>1. IsFiniteSet(Obfs)
  <2>1. Obfs = {} \cup {"gecko"} \cup {"salamander"} BY DEF Obfs
  <2> QED BY <1>0, <2>1, FiniteWith
<1>2. IsFiniteSet(Layers)
  <2>1. Layers = {} \cup {"reality"} \cup {"anytls"} \cup {"tls"} BY DEF Layers
  <2> QED BY <1>0, <2>1, FiniteWith
<1>3. IsFiniteSet(Framings)
  <2>1. Framings = {} \cup {"websocket"} \cup {"httpupgrade"} \cup {"grpc"} \cup {"xhttp"} BY DEF Framings
  <2> QED BY <1>0, <2>1, FiniteWith
<1>4. IsFiniteSet(Inbounds)
  <2> DEFINE S == {} \cup {"vless"} \cup {"shadowsocks-2022"} \cup {"shadowsocks-aead"} \cup {"trojan"}
             T == S \cup {"hysteria2"} \cup {"tuic"} \cup {"vmess"} \cup {"naive"} \cup {"snell"}
  <2>1. Inbounds = T BY DEF Inbounds
  <2>2. IsFiniteSet(S) BY <1>0, FiniteWith
  <2> HIDE DEF S
  <2>3. IsFiniteSet(T) BY <2>2, FiniteWith
  <2> QED BY <2>1, <2>3
<1>5. IsFiniteSet(NonVless)
  <2> DEFINE S == {} \cup {"shadowsocks"} \cup {"mixed"} \cup {"trojan"} \cup {"hysteria2"}
             T == S \cup {"tuic"} \cup {"vmess"} \cup {"wireguard"} \cup {"naive"} \cup {"snell"}
  <2>1. NonVless = T BY DEF NonVless
  <2>2. IsFiniteSet(S) BY <1>0, FiniteWith
  <2> HIDE DEF S
  <2>3. IsFiniteSet(T) BY <2>2, FiniteWith
  <2> QED BY <2>1, <2>3
<1>6. IsFiniteSet(Experimental)
  <2> DEFINE S == {} \cup {"lua"} \cup {"masque"} \cup {"trusttunnel"} \cup {"brook"} \cup {"vlite"}
             T == S \cup {"tor"} \cup {"ssh"} \cup {"juicity"} \cup {"mieru"}
             U == T \cup {"sudoku"} \cup {"vless_encryption"} \cup {"shadowquic"} \cup {"anytls_reality"}
  <2>1. Experimental = U BY DEF Experimental
  <2>2. IsFiniteSet(S) BY <1>0, FiniteWith
  <2> HIDE DEF S
  <2>3. IsFiniteSet(T) BY <2>2, FiniteWith
  <2> HIDE DEF T
  <2>4. IsFiniteSet(U) BY <2>3, FiniteWith
  <2> QED BY <2>1, <2>4
<1>7. IsFiniteSet(NonVless \cup {"xhttp"}) BY <1>5, FiniteWith
<1> QED BY <1>1, <1>2, <1>3, <1>4, <1>6, <1>7, FS_Union

-----------------------------------------------------------------------------
(* What is served *)

LEMMA ElementOf ==
  ASSUME NEW T, NEW p \in Seq(T) PROVE Len(p) \in Nat /\ \A i \in 1 .. Len(p) : p[i] \in T
OBVIOUS

LEMMA Wider == ASSUME NEW T, NEW U, T \subseteq U, NEW p \in Seq(T) PROVE p \in Seq(U)
OBVIOUS

\* The first section of an order, and that there is none before it.
LEMMA First ==
  ASSUME NEW T, NEW order \in Seq(T), NEW c, NEW else
  PROVE  \/ \E i \in 1 .. Len(order) :
              /\ FirstOf(c, order, else) = order[i] /\ order[i] \in DOMAIN c.on
              /\ \A j \in 1 .. Len(order) : order[j] \in DOMAIN c.on => i <= j
         \/ /\ FirstOf(c, order, else) = else
            /\ \A j \in 1 .. Len(order) : order[j] \notin DOMAIN c.on
<1> DEFINE at == {i \in 1 .. Len(order) : Has(c, {order[i]})}
<1>1. at = {i \in 1 .. Len(order) : order[i] \in DOMAIN c.on} BY DEF Has
<1>2. FirstOf(c, order, else) = IF at = {} THEN else ELSE order[CHOOSE i \in at : \A j \in at : i <= j]
  BY DEF FirstOf
<1>3. at \subseteq Nat OBVIOUS
<1> HIDE DEF at
<1>4. CASE at = {} BY <1>1, <1>2, <1>4
<1>5. CASE at # {}
  <2>1. \E i \in at : \A j \in at : i <= j
    <3>1. PICK i \in at : \A j \in at : ~(<<j, i>> \in OpToRel(<, Nat))
      BY <1>3, <1>5, NatLessThanWellFounded, WFMin
    <3>2. \A j \in at : i <= j
      <4>1. TAKE j \in at
      <4>2. i \in Nat /\ j \in Nat BY <1>3
      <4>3. ~(j < i) BY <3>1, <4>2 DEF OpToRel
      <4> QED BY <4>2, <4>3
    <3> QED BY <3>2
  <2> DEFINE f == CHOOSE i \in at : \A j \in at : i <= j
  <2>2. f \in at /\ \A j \in at : f <= j BY <2>1
  <2>3. FirstOf(c, order, else) = order[f] BY <1>2, <1>5
  <2> HIDE DEF f
  <2> QED BY <1>1, <2>2, <2>3
<1> QED BY <1>4, <1>5

\* The first section of two orders, one behind the other.
LEMMA FirstOfTwo ==
  ASSUME NEW T, NEW p \in Seq(T), NEW q \in Seq(T), NEW c, NEW else
  PROVE  \/ \E i \in 1 .. Len(p) :
              /\ FirstOf(c, p \o q, else) = p[i] /\ p[i] \in DOMAIN c.on
              /\ \A j \in 1 .. Len(p) : p[j] \in DOMAIN c.on => i <= j
         \/ /\ \A j \in 1 .. Len(p) : p[j] \notin DOMAIN c.on
            /\ \E i \in 1 .. Len(q) :
                 /\ FirstOf(c, p \o q, else) = q[i] /\ q[i] \in DOMAIN c.on
                 /\ \A j \in 1 .. Len(q) : q[j] \in DOMAIN c.on => i <= j
         \/ /\ FirstOf(c, p \o q, else) = else
            /\ \A j \in 1 .. Len(p) : p[j] \notin DOMAIN c.on
            /\ \A j \in 1 .. Len(q) : q[j] \notin DOMAIN c.on
<1> DEFINE s == p \o q   m == Len(p)   n == Len(q)   r == FirstOf(c, s, else)
<1>1. /\ s \in Seq(T) /\ Len(s) = m + n
      /\ \A i \in 1 .. m + n : s[i] = IF i <= m THEN p[i] ELSE q[i - m]
  BY ConcatProperties
<1>2. m \in Nat /\ n \in Nat OBVIOUS
<1>3. \/ \E i \in 1 .. m + n :
           /\ r = s[i] /\ s[i] \in DOMAIN c.on
           /\ \A j \in 1 .. m + n : s[j] \in DOMAIN c.on => i <= j
      \/ r = else /\ \A j \in 1 .. m + n : s[j] \notin DOMAIN c.on
  <2>1. s \in Seq(T) BY <1>1
  <2> HIDE DEF s
  <2> QED BY <1>1, <2>1, First
<1> HIDE DEF s, m, n, r
<1>4. \A i \in 1 .. m : s[i] = p[i] BY <1>1, <1>2
<1>5. ASSUME NEW i \in 1 .. n PROVE m + i \in 1 .. m + n /\ s[m + i] = q[i]
  <2> DEFINE k == m + i
  <2>1. k \in 1 .. m + n /\ ~(k <= m) /\ k - m = i BY <1>2
  <2> HIDE DEF k
  <2>2. s[k] = IF k <= m THEN p[k] ELSE q[k - m] BY <1>1, <2>1
  <2>3. s[k] = q[i] BY <2>1, <2>2
  <2> QED BY <2>1, <2>3 DEF k
<1>6. CASE r = else /\ \A j \in 1 .. m + n : s[j] \notin DOMAIN c.on
  <2>1. \A j \in 1 .. m : p[j] \notin DOMAIN c.on
    <3>1. \A j \in 1 .. m : j \in 1 .. m + n BY <1>2
    <3> QED BY <1>4, <1>6, <3>1
  <2>2. \A j \in 1 .. n : q[j] \notin DOMAIN c.on BY <1>5, <1>6
  <2> QED BY <1>6, <2>1, <2>2 DEF r, s, m, n
<1>7. ASSUME NEW i \in 1 .. m + n, r = s[i], s[i] \in DOMAIN c.on,
             \A j \in 1 .. m + n : s[j] \in DOMAIN c.on => i <= j
      PROVE  \/ \E k \in 1 .. m : /\ r = p[k] /\ p[k] \in DOMAIN c.on
                                  /\ \A j \in 1 .. m : p[j] \in DOMAIN c.on => k <= j
             \/ /\ \A j \in 1 .. m : p[j] \notin DOMAIN c.on
                /\ \E k \in 1 .. n : /\ r = q[k] /\ q[k] \in DOMAIN c.on
                                     /\ \A j \in 1 .. n : q[j] \in DOMAIN c.on => k <= j
  <2>1. \A j \in 1 .. m : j \in 1 .. m + n /\ (p[j] \in DOMAIN c.on => i <= j)
    <3>1. \A j \in 1 .. m : j \in 1 .. m + n BY <1>2
    <3> QED BY <1>4, <1>7, <3>1
  <2>2. \A j \in 1 .. n : q[j] \in DOMAIN c.on => i <= m + j BY <1>5, <1>7
  <2>3. CASE i <= m
    <3>1. i \in 1 .. m BY <1>2, <2>3
    <3> QED BY <1>4, <1>7, <2>1, <3>1
  <2>4. CASE ~(i <= m)
    <3> DEFINE k == i - m
    <3>1. k \in 1 .. n /\ i = m + k BY <1>2, <2>4
    <3>2. \A j \in 1 .. m : p[j] \notin DOMAIN c.on BY <1>2, <2>1, <2>4
    <3> HIDE DEF k
    <3>3. r = q[k] /\ q[k] \in DOMAIN c.on BY <1>5, <1>7, <3>1
    <3>4. \A j \in 1 .. n : q[j] \in DOMAIN c.on => k <= j BY <1>2, <2>2, <3>1
    <3> QED BY <3>1, <3>2, <3>3, <3>4
  <2> QED BY <2>3, <2>4
<1> QED BY <1>3, <1>6, <1>7 DEF r, s, m, n

\* The sections that are served without the TCP listener, and those with it, in
\* their orders.
AsideOrder == <<"hysteria2", "tuic", "quic", "kcp", "webtransport", "wireguard">>
Aside == {"hysteria2", "tuic", "quic", "kcp", "webtransport", "wireguard"}
ListenOrder ==
  <<"reality", "anytls", "shadowtls", "websocket", "httpupgrade", "grpc", "xhttp", "meek",
    "gdocsviewer", "tls", "shadowsocks", "mixed", "trojan", "vmess", "naive", "snell">>
Listen == {"reality", "anytls", "shadowtls", "websocket", "httpupgrade", "grpc", "xhttp", "meek",
           "gdocsviewer", "tls", "shadowsocks", "mixed", "trojan", "vmess", "naive", "snell"}

LEMMA Orders ==
  /\ AsideOrder \in Seq(Aside) /\ Len(AsideOrder) = 6
  /\ \A s \in Aside : \E i \in 1 .. 6 : AsideOrder[i] = s
  /\ ListenOrder \in Seq(Listen) /\ Len(ListenOrder) = 16
  /\ \A s \in Listen : \E i \in 1 .. 16 : ListenOrder[i] = s
  /\ ExperimentalOrder \in Seq(Experimental) /\ Len(ExperimentalOrder) = 13
  /\ \A s \in Experimental : \E i \in 1 .. 13 : ExperimentalOrder[i] = s
  /\ Sections = Aside \cup Listen \cup Experimental
<1>1. AsideOrder \in Seq(Aside) /\ Len(AsideOrder) = 6 BY DEF AsideOrder, Aside
<1>2. ListenOrder \in Seq(Listen) /\ Len(ListenOrder) = 16 BY DEF ListenOrder, Listen
<1>3. ExperimentalOrder \in Seq(Experimental) /\ Len(ExperimentalOrder) = 13
  BY DEF ExperimentalOrder, Experimental
<1>4. \A s \in Aside : \E i \in 1 .. 6 : AsideOrder[i] = s
  <2>1. /\ AsideOrder[1] = "hysteria2" /\ AsideOrder[2] = "tuic" /\ AsideOrder[3] = "quic"
        /\ AsideOrder[4] = "kcp" /\ AsideOrder[5] = "webtransport" /\ AsideOrder[6] = "wireguard"
    BY DEF AsideOrder
  <2> QED BY <2>1 DEF Aside
<1>5. \A s \in Listen : \E i \in 1 .. 16 : ListenOrder[i] = s
  <2>1. /\ ListenOrder[1] = "reality" /\ ListenOrder[2] = "anytls" /\ ListenOrder[3] = "shadowtls"
        /\ ListenOrder[4] = "websocket" /\ ListenOrder[5] = "httpupgrade" /\ ListenOrder[6] = "grpc"
        /\ ListenOrder[7] = "xhttp" /\ ListenOrder[8] = "meek" /\ ListenOrder[9] = "gdocsviewer"
        /\ ListenOrder[10] = "tls" /\ ListenOrder[11] = "shadowsocks" /\ ListenOrder[12] = "mixed"
        /\ ListenOrder[13] = "trojan" /\ ListenOrder[14] = "vmess" /\ ListenOrder[15] = "naive"
        /\ ListenOrder[16] = "snell"
    BY DEF ListenOrder
  <2> QED BY <2>1 DEF Listen
<1>6. \A s \in Experimental : \E i \in 1 .. 13 : ExperimentalOrder[i] = s
  <2> DEFINE E == ExperimentalOrder
  <2>1. /\ E[1] = "lua" /\ E[2] = "masque" /\ E[3] = "trusttunnel" /\ E[4] = "brook" /\ E[5] = "vlite"
        /\ E[6] = "tor" /\ E[7] = "ssh" /\ E[8] = "juicity" /\ E[9] = "mieru" /\ E[10] = "sudoku"
        /\ E[11] = "vless_encryption" /\ E[12] = "shadowquic" /\ E[13] = "anytls_reality"
    BY DEF ExperimentalOrder
  <2> HIDE DEF E
  <2>2. \A s \in Experimental : \E i \in 1 .. 13 : E[i] = s BY <2>1 DEF Experimental
  <2> QED BY <2>2 DEF E
<1>7. Sections = Aside \cup Listen \cup Experimental
  BY DEF Sections, VlessTransports, TlsLayers, StreamFramings, NonVless, Aside, Listen,
         Datagrams
<1> QED BY <1>1, <1>2, <1>3, <1>4, <1>5, <1>6, <1>7

\* A listener serves a section of its own if there is one, or an experimental one.
LEMMA ListenerServes ==
  ASSUME NEW c
  PROVE  \/ run_with_listener(c) \in DOMAIN c.on \cap Listen
         \/ run_with_listener(c) \in DOMAIN c.on \cap Experimental /\ DOMAIN c.on \cap Listen = {}
         \/ run_with_listener(c) = "raw" /\ DOMAIN c.on \cap (Listen \cup Experimental) = {}
<1> DEFINE p == ListenOrder   q == ExperimentalOrder   r == run_with_listener(c)
           T == Listen \cup Experimental
<1>1. r = FirstOf(c, p \o q, "raw") BY DEF run_with_listener, ListenOrder
<1>2. /\ p \in Seq(T) /\ Len(p) = 16 /\ (\A i \in 1 .. 16 : p[i] \in Listen)
      /\ \A s \in Listen : \E i \in 1 .. 16 : p[i] = s
  <2>1. p \in Seq(Listen) BY Orders
  <2>2. Len(p) = 16 BY Orders
  <2>3. \A i \in 1 .. Len(p) : p[i] \in Listen BY <2>1, ElementOf
  <2>4. p \in Seq(T) BY <2>1, Wider
  <2> QED BY <2>2, <2>3, <2>4, Orders
<1>3. /\ q \in Seq(T) /\ Len(q) = 13 /\ (\A i \in 1 .. 13 : q[i] \in Experimental)
      /\ \A s \in Experimental : \E i \in 1 .. 13 : q[i] = s
  <2>1. q \in Seq(Experimental) BY Orders
  <2>2. Len(q) = 13 BY Orders
  <2>3. \A i \in 1 .. Len(q) : q[i] \in Experimental BY <2>1, ElementOf
  <2>4. q \in Seq(T) BY <2>1, Wider
  <2> QED BY <2>2, <2>3, <2>4, Orders
<1> HIDE DEF p, q, r, T
<1>4. \/ \E i \in 1 .. 16 : r = p[i] /\ p[i] \in DOMAIN c.on
      \/ /\ \A j \in 1 .. 16 : p[j] \notin DOMAIN c.on
         /\ \E i \in 1 .. 13 : r = q[i] /\ q[i] \in DOMAIN c.on
      \/ /\ r = "raw" /\ \A j \in 1 .. 16 : p[j] \notin DOMAIN c.on
         /\ \A j \in 1 .. 13 : q[j] \notin DOMAIN c.on
  <2>1. p \in Seq(T) /\ q \in Seq(T) BY <1>2, <1>3
  <2>2. \/ \E i \in 1 .. Len(p) : FirstOf(c, p \o q, "raw") = p[i] /\ p[i] \in DOMAIN c.on
        \/ /\ \A j \in 1 .. Len(p) : p[j] \notin DOMAIN c.on
           /\ \E i \in 1 .. Len(q) : FirstOf(c, p \o q, "raw") = q[i] /\ q[i] \in DOMAIN c.on
        \/ /\ FirstOf(c, p \o q, "raw") = "raw" /\ \A j \in 1 .. Len(p) : p[j] \notin DOMAIN c.on
           /\ \A j \in 1 .. Len(q) : q[j] \notin DOMAIN c.on
    BY <2>1, FirstOfTwo
  <2> QED BY <1>1, <1>2, <1>3, <2>2
<1>5. (\A j \in 1 .. 16 : p[j] \notin DOMAIN c.on) => DOMAIN c.on \cap Listen = {} BY <1>2
<1>6. (\A j \in 1 .. 13 : q[j] \notin DOMAIN c.on) => DOMAIN c.on \cap Experimental = {} BY <1>3
<1>7. CASE \E i \in 1 .. 16 : r = p[i] /\ p[i] \in DOMAIN c.on BY <1>2, <1>7 DEF r
<1>8. CASE /\ \A j \in 1 .. 16 : p[j] \notin DOMAIN c.on
           /\ \E i \in 1 .. 13 : r = q[i] /\ q[i] \in DOMAIN c.on
  BY <1>3, <1>5, <1>8 DEF r
<1>9. CASE /\ r = "raw" /\ \A j \in 1 .. 16 : p[j] \notin DOMAIN c.on
           /\ \A j \in 1 .. 13 : q[j] \notin DOMAIN c.on
  BY <1>5, <1>6, <1>9 DEF r
<1> QED BY <1>4, <1>7, <1>8, <1>9

\* What has a loop of its own comes before the listener.
LEMMA ServedIs ==
  ASSUME NEW c
  PROVE  \/ Served(c) \in DOMAIN c.on \cap Aside
         \/ Served(c) = run_with_listener(c) /\ DOMAIN c.on \cap Aside = {}
<1> DEFINE p == AsideOrder   r == Served(c)   l == run_with_listener(c)
<1>1. r = FirstOf(c, p, l) BY DEF Served, run_until_shutdown, AsideOrder
<1>2. /\ p \in Seq(Aside) /\ Len(p) = 6 /\ (\A i \in 1 .. 6 : p[i] \in Aside)
      /\ \A s \in Aside : \E i \in 1 .. 6 : p[i] = s
  <2>1. p \in Seq(Aside) BY Orders
  <2>2. Len(p) = 6 BY Orders
  <2>3. \A i \in 1 .. Len(p) : p[i] \in Aside BY <2>1, ElementOf
  <2> QED BY <2>1, <2>2, <2>3, Orders
<1> HIDE DEF p, r, l
<1>3. p \in Seq(Aside) BY <1>2
<1>4. \/ \E i \in 1 .. Len(p) : FirstOf(c, p, l) = p[i] /\ p[i] \in DOMAIN c.on
      \/ FirstOf(c, p, l) = l /\ \A j \in 1 .. Len(p) : p[j] \notin DOMAIN c.on
  BY <1>3, First
<1>5. CASE \E i \in 1 .. Len(p) : FirstOf(c, p, l) = p[i] /\ p[i] \in DOMAIN c.on
  BY <1>1, <1>2, <1>5 DEF r
<1>6. CASE FirstOf(c, p, l) = l /\ \A j \in 1 .. Len(p) : p[j] \notin DOMAIN c.on
  <2>1. DOMAIN c.on \cap Aside = {} BY <1>2, <1>6
  <2> QED BY <1>1, <1>6, <2>1 DEF r, l
<1> QED BY <1>4, <1>5, <1>6

\* The sections an accepted file has beside each other.
LEMMA Beside ==
  ASSUME NEW c, validate(c), DOMAIN c.on \subseteq Sections,
         NEW s \in DOMAIN c.on, NEW t \in DOMAIN c.on, s # t
  PROVE  \/ {s, t} \subseteq {"reality", "anytls", "tls"}
         \/ s \in Experimental /\ t \in VlessTransports
         \/ t \in Experimental /\ s \in VlessTransports
<1> DEFINE D == DOMAIN c.on
<1>1. ASSUME NEW a \in D, NEW b \in D, a # b, a \in NonVless PROVE FALSE
  <2>1. \A u \in D : u \in NonVless \cup {"xhttp"} \cup Experimental => u = a
    <3>1. Cardinality(D \cap (NonVless \cup {"xhttp"} \cup Experimental)) <= 1
      BY DEF validate, AtMostOneInbound
    <3>2. \A u, v \in D \cap (NonVless \cup {"xhttp"} \cup Experimental) : u = v
      BY <3>1, SmallSets, AtMostOne
    <3> QED BY <1>1, <3>2
  <2>2. Alone(c)
    BY <1>1 DEF validate, ShadowsocksIsValid, MixedIsValid, TrojanIsValid, Hysteria2IsValid,
           TuicIsValid, VmessIsValid, WireGuardIsValid, NaiveIsValid, SnellIsValid, NonVless, Has
  <2>3. D \cap VlessTransports = {} BY <2>2 DEF Alone, check_non_vless_no_transports, Has
  <2> QED BY <1>1, <2>1, <2>3 DEF Sections
<1>2. s \notin NonVless /\ t \notin NonVless BY <1>1
<1>3. ~(s \in Experimental /\ t \in Experimental)
  <2>1. Cardinality(D \cap (NonVless \cup {"xhttp"} \cup Experimental)) <= 1
    BY DEF validate, AtMostOneInbound
  <2>2. \A u, v \in D \cap (NonVless \cup {"xhttp"} \cup Experimental) : u = v
    BY <2>1, SmallSets, AtMostOne
  <2> QED BY <2>2
<1>4. ASSUME NEW a \in D, NEW b \in D, a # b, a \in StreamFramings, b \in VlessTransports PROVE FALSE
  <2>1. check_framing_transport(c, a) BY <1>4 DEF validate, FramingsAreValid, Has
  <2>2. b \notin Datagrams \/ check_datagram_transport(c, b) BY DEF validate, DatagramsAreValid, Has
  <2> QED BY <1>4, <2>1, <2>2 DEF check_framing_transport, check_datagram_transport, Has, VlessTransports
<1>5. ASSUME NEW a \in D, NEW b \in D, a # b, a \in Datagrams, b \in VlessTransports PROVE FALSE
  <2>1. check_datagram_transport(c, a) BY <1>5 DEF validate, DatagramsAreValid, Has
  <2> QED BY <1>5, <2>1 DEF check_datagram_transport, Has, VlessTransports
<1>6. ASSUME NEW a \in D, NEW b \in D, a # b, a = "shadowtls", b \in VlessTransports PROVE FALSE
  <2>1. /\ ~Has(c, NonVless \cup StreamFramings \cup Datagrams)
        /\ ~Has(c, {"reality", "anytls", "tls"})
    BY <1>6 DEF validate, ShadowTlsIsValid, Has
  <2> QED BY <1>6, <2>1 DEF Has, VlessTransports, TlsLayers
<1>7. s \in VlessTransports \cup Experimental /\ t \in VlessTransports \cup Experimental
  BY <1>2 DEF Sections
<1>8. CASE s \in VlessTransports /\ t \in VlessTransports
  <2>1. s \in TlsLayers /\ t \in TlsLayers BY <1>4, <1>5, <1>8 DEF VlessTransports
  <2>2. s # "shadowtls" /\ t # "shadowtls" BY <1>6, <1>8
  <2> QED BY <2>1, <2>2 DEF TlsLayers
<1> QED BY <1>3, <1>7, <1>8

\* What an accepted file has beside the section that is served.
LEMMA AcceptedServes ==
  ASSUME NEW c, validate(c), DOMAIN c.on \subseteq Sections, NEW s \in DOMAIN c.on, s # Served(c)
  PROVE  \/ {s, Served(c)} \subseteq {"reality", "anytls", "tls"}
         \/ s \in Experimental /\ Served(c) \in VlessTransports
<1>1. DOMAIN c.on \subseteq Aside \cup Listen \cup Experimental BY Orders
<1>2. Served(c) \in DOMAIN c.on BY <1>1, ServedIs, ListenerServes
<1>3. ~(Served(c) \in Experimental /\ s \in VlessTransports)
  <2>1. SUFFICES ASSUME Served(c) \in Experimental, s \in VlessTransports PROVE FALSE OBVIOUS
  <2>2. Served(c) \notin Aside /\ Served(c) \notin Listen
    BY <2>1 DEF Experimental, Aside, Listen
  <2>3. DOMAIN c.on \cap Aside = {} /\ DOMAIN c.on \cap Listen = {}
    BY <1>2, <2>2, ServedIs, ListenerServes
  <2>4. s \in Experimental BY <1>1, <2>3
  <2> QED BY <2>1, <2>4 DEF Experimental, VlessTransports, TlsLayers, StreamFramings, Datagrams
<1>4. s # Served(c) OBVIOUS
<1> QED BY <1>2, <1>3, <1>4, Beside

-----------------------------------------------------------------------------
(* What the tools take a file for *)

\* Of two orders, the second is looked at if the first has nothing.
LEMMA Chain ==
  ASSUME NEW T, NEW p \in Seq(T), NEW q \in Seq(T), NEW c, NEW else
  PROVE  FirstOf(c, p \o q, else) = FirstOf(c, p, FirstOf(c, q, else))
<1> DEFINE m == Len(p)   n == Len(q)   D == DOMAIN c.on   y == FirstOf(c, q, else)
           x == FirstOf(c, p, y)   r == FirstOf(c, p \o q, else)
<1>0. m \in Nat /\ n \in Nat OBVIOUS
<1>1. \/ \E i \in 1 .. m : x = p[i] /\ p[i] \in D /\ \A j \in 1 .. m : p[j] \in D => i <= j
      \/ x = y /\ \A j \in 1 .. m : p[j] \notin D
  BY First
<1>2. \/ \E i \in 1 .. n : y = q[i] /\ q[i] \in D /\ \A j \in 1 .. n : q[j] \in D => i <= j
      \/ y = else /\ \A j \in 1 .. n : q[j] \notin D
  BY First
<1>3. \/ \E i \in 1 .. m : r = p[i] /\ p[i] \in D /\ \A j \in 1 .. m : p[j] \in D => i <= j
      \/ /\ \A j \in 1 .. m : p[j] \notin D
         /\ \E i \in 1 .. n : r = q[i] /\ q[i] \in D /\ \A j \in 1 .. n : q[j] \in D => i <= j
      \/ r = else /\ (\A j \in 1 .. m : p[j] \notin D) /\ (\A j \in 1 .. n : q[j] \notin D)
  BY FirstOfTwo
<1> HIDE DEF m, n, D, y, x, r
<1>4. CASE \A j \in 1 .. m : p[j] \notin D
  <2>1. x = y BY <1>1, <1>4
  <2>2. CASE \A j \in 1 .. n : q[j] \notin D
    <3>1. r = else BY <1>3, <1>4, <2>2
    <3>2. y = else BY <1>2, <2>2
    <3> QED BY <2>1, <3>1, <3>2 DEF x, r, y
  <2>3. CASE ~ \A j \in 1 .. n : q[j] \notin D
    <3>1. PICK i \in 1 .. n : y = q[i] /\ q[i] \in D /\ \A j \in 1 .. n : q[j] \in D => i <= j BY <1>2, <2>3
    <3>2. PICK k \in 1 .. n : r = q[k] /\ q[k] \in D /\ \A j \in 1 .. n : q[j] \in D => k <= j
      BY <1>3, <1>4, <2>3
    <3>3. i <= k /\ k <= i BY <3>1, <3>2
    <3>4. i = k BY <1>0, <3>1, <3>2, <3>3
    <3> QED BY <2>1, <3>1, <3>2, <3>4 DEF x, r, y
  <2> QED BY <2>2, <2>3
<1>5. CASE ~ \A j \in 1 .. m : p[j] \notin D
  <2>1. PICK i \in 1 .. m : x = p[i] /\ p[i] \in D /\ \A j \in 1 .. m : p[j] \in D => i <= j BY <1>1, <1>5
  <2>2. PICK k \in 1 .. m : r = p[k] /\ p[k] \in D /\ \A j \in 1 .. m : p[j] \in D => k <= j BY <1>3, <1>5
  <2>3. i <= k /\ k <= i BY <2>1, <2>2
  <2>4. i = k BY <1>0, <2>1, <2>2, <2>3
  <2> QED BY <2>1, <2>2, <2>4 DEF x, r, y
<1> QED BY <1>4, <1>5

\* An order of a set finds a section of it if there is one, and prefers its first
\* and then its second.
LEMMA Finds ==
  ASSUME NEW T, NEW p \in Seq(T), NEW c, NEW else,
         \A t \in T : \E i \in 1 .. Len(p) : p[i] = t
  PROVE  /\ \/ FirstOf(c, p, else) \in DOMAIN c.on \cap T
            \/ FirstOf(c, p, else) = else /\ DOMAIN c.on \cap T = {}
         /\ Len(p) >= 2 /\ p[1] \in DOMAIN c.on => FirstOf(c, p, else) = p[1]
         /\ Len(p) >= 2 /\ p[1] \notin DOMAIN c.on /\ p[2] \in DOMAIN c.on => FirstOf(c, p, else) = p[2]
<1> DEFINE m == Len(p)   D == DOMAIN c.on   x == FirstOf(c, p, else)
<1>1. m \in Nat /\ \A i \in 1 .. m : p[i] \in T OBVIOUS
<1>2. \/ \E i \in 1 .. m : x = p[i] /\ p[i] \in D /\ \A j \in 1 .. m : p[j] \in D => i <= j
      \/ x = else /\ \A j \in 1 .. m : p[j] \notin D
  BY First
<1>3. \A t \in T : \E i \in 1 .. m : p[i] = t OBVIOUS
<1> HIDE DEF m, D, x
<1>4. x \in D \cap T \/ (x = else /\ D \cap T = {}) BY <1>1, <1>2, <1>3
<1>5. ASSUME m >= 2, p[1] \in D PROVE x = p[1]
  <2>1. 1 \in 1 .. m BY <1>1, <1>5
  <2>2. PICK i \in 1 .. m : x = p[i] /\ \A j \in 1 .. m : p[j] \in D => i <= j BY <1>2, <1>5, <2>1
  <2>3. i <= 1 BY <1>5, <2>1, <2>2
  <2>4. i = 1 BY <1>1, <2>3
  <2> QED BY <2>2, <2>4
<1>6. ASSUME m >= 2, p[1] \notin D, p[2] \in D PROVE x = p[2]
  <2>1. 2 \in 1 .. m BY <1>1, <1>6
  <2>2. PICK i \in 1 .. m : x = p[i] /\ p[i] \in D /\ \A j \in 1 .. m : p[j] \in D => i <= j
    BY <1>2, <1>6, <2>1
  <2>3. i <= 2 BY <1>6, <2>1, <2>2
  <2>4. i # 1 BY <1>6, <2>2
  <2>5. i = 2 BY <1>1, <2>3, <2>4
  <2> QED BY <2>2, <2>5
<1> QED BY <1>4, <1>5, <1>6 DEF m, D, x

\* The order of the tools: all but the experimental protocols and TLS.
ToolOrder ==
  <<"reality", "anytls", "websocket", "httpupgrade", "grpc", "xhttp", "meek",
    "gdocsviewer", "quic", "kcp", "webtransport", "shadowtls", "vmess", "shadowsocks",
    "trojan", "hysteria2", "tuic", "mixed", "wireguard", "naive", "snell">>
ImportOrder ==
  <<"reality", "anytls", "websocket", "httpupgrade", "grpc", "xhttp", "meek",
    "gdocsviewer", "quic", "kcp", "webtransport", "shadowtls", "vmess", "shadowsocks",
    "trojan", "hysteria2", "tuic", "mixed", "wireguard", "naive", "snell", "tls">>
Usual == VlessTransports \cup NonVless

LEMMA ToolOrders ==
  /\ ToolOrder \in Seq(Usual \ {"tls"}) /\ Len(ToolOrder) = 21
  /\ ToolOrder[1] = "reality" /\ ToolOrder[2] = "anytls"
  /\ \A t \in Usual \ {"tls"} : \E i \in 1 .. 21 : ToolOrder[i] = t
  /\ ImportOrder \in Seq(Usual) /\ Len(ImportOrder) = 22
  /\ ImportOrder[1] = "reality" /\ ImportOrder[2] = "anytls"
  /\ \A t \in Usual : \E i \in 1 .. 22 : ImportOrder[i] = t
<1> DEFINE U == {"reality", "anytls", "websocket", "httpupgrade", "grpc", "xhttp", "meek",
                 "gdocsviewer", "quic", "kcp", "webtransport", "shadowtls", "vmess", "shadowsocks",
                 "trojan", "hysteria2", "tuic", "mixed", "wireguard", "naive", "snell"}
<1>1. Usual \ {"tls"} = U /\ Usual = U \cup {"tls"}
  BY DEF Usual, VlessTransports, TlsLayers, StreamFramings, Datagrams, NonVless
<1>2. ToolOrder \in Seq(U) /\ Len(ToolOrder) = 21 BY DEF ToolOrder
<1>3. ImportOrder \in Seq(U \cup {"tls"}) /\ Len(ImportOrder) = 22 BY DEF ImportOrder
<1>4. \A t \in U : \E i \in 1 .. 21 : ToolOrder[i] = t
  <2> DEFINE o == ToolOrder
  <2>1. /\ o[1] = "reality" /\ o[2] = "anytls" /\ o[3] = "websocket" /\ o[4] = "httpupgrade" /\ o[5] = "grpc"
        /\ o[6] = "xhttp" /\ o[7] = "meek" /\ o[8] = "gdocsviewer" /\ o[9] = "quic" /\ o[10] = "kcp"
        /\ o[11] = "webtransport" /\ o[12] = "shadowtls" /\ o[13] = "vmess" /\ o[14] = "shadowsocks"
        /\ o[15] = "trojan" /\ o[16] = "hysteria2" /\ o[17] = "tuic" /\ o[18] = "mixed"
        /\ o[19] = "wireguard" /\ o[20] = "naive" /\ o[21] = "snell"
    BY DEF ToolOrder
  <2> HIDE DEF o
  <2>2. \A t \in U : \E i \in 1 .. 21 : o[i] = t BY <2>1
  <2> QED BY <2>2 DEF o
<1>5. \A t \in U \cup {"tls"} : \E i \in 1 .. 22 : ImportOrder[i] = t
  <2> DEFINE o == ImportOrder
  <2>1. /\ o[1] = "reality" /\ o[2] = "anytls" /\ o[3] = "websocket" /\ o[4] = "httpupgrade" /\ o[5] = "grpc"
        /\ o[6] = "xhttp" /\ o[7] = "meek" /\ o[8] = "gdocsviewer" /\ o[9] = "quic" /\ o[10] = "kcp"
        /\ o[11] = "webtransport" /\ o[12] = "shadowtls" /\ o[13] = "vmess" /\ o[14] = "shadowsocks"
        /\ o[15] = "trojan" /\ o[16] = "hysteria2" /\ o[17] = "tuic" /\ o[18] = "mixed"
        /\ o[19] = "wireguard" /\ o[20] = "naive" /\ o[21] = "snell" /\ o[22] = "tls"
    BY DEF ImportOrder
  <2> HIDE DEF o
  <2>2. \A t \in U \cup {"tls"} : \E i \in 1 .. 22 : o[i] = t BY <2>1
  <2> QED BY <2>2 DEF o
<1>6. ToolOrder[1] = "reality" /\ ToolOrder[2] = "anytls" BY DEF ToolOrder
<1>7. ImportOrder[1] = "reality" /\ ImportOrder[2] = "anytls" BY DEF ImportOrder
<1> QED BY <1>1, <1>2, <1>3, <1>4, <1>5, <1>6, <1>7

\* The export finds TLS last, behind the experimental protocols; the import does not
\* know these; the server prefers the same two TLS layers.
LEMMA Detected ==
  ASSUME NEW c
  PROVE  /\ \/ detect_profile(c) \in DOMAIN c.on \cap (Usual \ {"tls"})
            \/ /\ detect_profile(c) \in DOMAIN c.on \cap Experimental
               /\ DOMAIN c.on \cap (Usual \ {"tls"}) = {}
            \/ /\ detect_profile(c) = "tls" /\ "tls" \in DOMAIN c.on
               /\ DOMAIN c.on \cap ((Usual \ {"tls"}) \cup Experimental) = {}
            \/ detect_profile(c) = "raw" /\ DOMAIN c.on \cap Sections = {}
         /\ "reality" \in DOMAIN c.on => detect_profile(c) = "reality"
         /\ "reality" \notin DOMAIN c.on /\ "anytls" \in DOMAIN c.on => detect_profile(c) = "anytls"
<1> DEFINE D == DOMAIN c.on   U == Usual \ {"tls"}   T == Sections
           p == ToolOrder   q == ExperimentalOrder   s == <<"tls">>
           z == FirstOf(c, s, "raw")   y == FirstOf(c, q, z)   x == FirstOf(c, p, y)
<1>0. Sections = U \cup Experimental \cup {"tls"} /\ "tls" \in Sections
  BY DEF Usual, Sections, VlessTransports, TlsLayers
<1>1. p \in Seq(U) /\ q \in Seq(Experimental) /\ s \in Seq({"tls"}) /\ Len(s) = 1 /\ s[1] = "tls"
      /\ Len(p) = 21 /\ Len(q) = 13 /\ p[1] = "reality" /\ p[2] = "anytls"
  BY Orders, ToolOrders
<1>2. /\ \A t \in U : \E i \in 1 .. Len(p) : p[i] = t
      /\ \A t \in Experimental : \E i \in 1 .. Len(q) : q[i] = t
  BY <1>1, Orders, ToolOrders
<1>3. detect_profile(c) = FirstOf(c, (p \o q) \o s, "raw") BY DEF detect_profile, ToolOrder
<1>4. \A t \in {"tls"} : \E i \in 1 .. Len(s) : s[i] = t BY <1>1
<1> HIDE DEF D, U, T, p, q, s
<1>5. detect_profile(c) = x
  <2>1. p \in Seq(T) /\ q \in Seq(T) /\ s \in Seq(T)
    <3>1. U \subseteq T /\ Experimental \subseteq T /\ {"tls"} \subseteq T BY <1>0 DEF T
    <3> QED BY <1>1, <3>1, Wider
  <2>2. p \o q \in Seq(T) BY <2>1, ConcatProperties
  <2>3. FirstOf(c, (p \o q) \o s, "raw") = FirstOf(c, p \o q, z)
    <3> DEFINE w == p \o q
    <3>1. w \in Seq(T) /\ s \in Seq(T) BY <2>1, <2>2
    <3> HIDE DEF w
    <3>2. FirstOf(c, w \o s, "raw") = FirstOf(c, w, FirstOf(c, s, "raw")) BY <3>1, Chain
    <3> QED BY <3>2 DEF w
  <2>4. FirstOf(c, p \o q, z) = x BY <2>1, Chain
  <2> QED BY <1>3, <2>3, <2>4
<1> HIDE DEF x, y, z
<1>6. z \in D \cap {"tls"} \/ (z = "raw" /\ D \cap {"tls"} = {})
  BY <1>1, <1>4, Finds DEF z, D
<1>7. y \in D \cap Experimental \/ (y = z /\ D \cap Experimental = {})
  <2>1. q \in Seq(Experimental) BY <1>1
  <2> QED BY <1>2, <2>1, Finds DEF y, D
<1>8. /\ x \in D \cap U \/ (x = y /\ D \cap U = {})
      /\ "reality" \in D => x = "reality"
      /\ "reality" \notin D /\ "anytls" \in D => x = "anytls"
  <2>1. p \in Seq(U) BY <1>1
  <2>2. /\ x \in D \cap U \/ (x = y /\ D \cap U = {})
        /\ Len(p) >= 2 /\ p[1] \in D => x = p[1]
        /\ Len(p) >= 2 /\ p[1] \notin D /\ p[2] \in D => x = p[2]
    BY <1>2, <2>1, Finds DEF x, D
  <2> QED BY <1>1, <2>2
<1> QED BY <1>0, <1>5, <1>6, <1>7, <1>8 DEF D, U

LEMMA ActiveIs ==
  ASSUME NEW c
  PROVE  /\ \/ active_profile_id(c) \in DOMAIN c.on \cap Usual
            \/ active_profile_id(c) = "raw" /\ DOMAIN c.on \cap Usual = {}
         /\ "reality" \in DOMAIN c.on => active_profile_id(c) = "reality"
         /\ "reality" \notin DOMAIN c.on /\ "anytls" \in DOMAIN c.on => active_profile_id(c) = "anytls"
<1> DEFINE p == ImportOrder
<1>1. /\ p \in Seq(Usual) /\ Len(p) = 22 /\ p[1] = "reality" /\ p[2] = "anytls"
      /\ \A t \in Usual : \E i \in 1 .. 22 : p[i] = t
  BY ToolOrders
<1>2. active_profile_id(c) = FirstOf(c, p, "raw") BY DEF active_profile_id, ImportOrder
<1> HIDE DEF p
<1>3. p \in Seq(Usual) /\ \A t \in Usual : \E i \in 1 .. Len(p) : p[i] = t BY <1>1
<1> DEFINE x == FirstOf(c, p, "raw")
<1>4. /\ x \in DOMAIN c.on \cap Usual \/ (x = "raw" /\ DOMAIN c.on \cap Usual = {})
      /\ Len(p) >= 2 /\ p[1] \in DOMAIN c.on => x = p[1]
      /\ Len(p) >= 2 /\ p[1] \notin DOMAIN c.on /\ p[2] \in DOMAIN c.on => x = p[2]
  BY <1>3, Finds
<1> HIDE DEF x
<1> QED BY <1>1, <1>2, <1>4 DEF x

LEMMA ListenerPrefers ==
  ASSUME NEW c
  PROVE  /\ "reality" \in DOMAIN c.on => run_with_listener(c) = "reality"
         /\ "reality" \notin DOMAIN c.on /\ "anytls" \in DOMAIN c.on => run_with_listener(c) = "anytls"
<1> DEFINE p == ListenOrder   q == ExperimentalOrder   T == Listen \cup Experimental
<1>1. p \in Seq(Listen) /\ q \in Seq(Experimental) /\ Len(p) = 16 /\ p[1] = "reality" /\ p[2] = "anytls"
  BY Orders DEF ListenOrder
<1>2. \A t \in Listen : \E i \in 1 .. 16 : p[i] = t BY Orders
<1>3. run_with_listener(c) = FirstOf(c, p \o q, "raw") BY DEF run_with_listener, ListenOrder
<1> HIDE DEF p, q
<1>4. p \in Seq(T) /\ q \in Seq(T) BY <1>1, Wider
<1>5. run_with_listener(c) = FirstOf(c, p, FirstOf(c, q, "raw")) BY <1>3, <1>4, Chain
<1> DEFINE y == FirstOf(c, q, "raw")   x == FirstOf(c, p, y)
<1>6. p \in Seq(Listen) /\ \A t \in Listen : \E i \in 1 .. Len(p) : p[i] = t BY <1>1, <1>2
<1> HIDE DEF y
<1>7. /\ Len(p) >= 2 /\ p[1] \in DOMAIN c.on => x = p[1]
      /\ Len(p) >= 2 /\ p[1] \notin DOMAIN c.on /\ p[2] \in DOMAIN c.on => x = p[2]
  BY <1>6, Finds
<1> HIDE DEF x
<1> QED BY <1>1, <1>5, <1>7 DEF x, y

\* The tools take an accepted file for what the server serves.
LEMMA ToolsSee ==
  ASSUME NEW c, validate(c), DOMAIN c.on \subseteq Sections
  PROVE  /\ \/ detect_profile(c) = Served(c)
            \/ Served(c) = "tls" /\ detect_profile(c) \in Experimental
         /\ active_profile_id(c) = Served(c) \/ Served(c) \in Experimental
<1> DEFINE D == DOMAIN c.on   S == Served(c)   d == detect_profile(c)   a == active_profile_id(c)
<1>0. /\ Sections = Usual \cup Experimental /\ Usual \cap Experimental = {} /\ "raw" \notin Sections
      /\ VlessTransports \subseteq Usual /\ {"reality", "anytls", "tls"} \cap Aside = {}
      /\ {"reality", "anytls", "tls"} \cap Experimental = {}
  BY DEF Usual, Sections, Experimental, VlessTransports, TlsLayers, StreamFramings, Datagrams, NonVless, Aside
<1>1. S \in D \/ (S = "raw" /\ D = {}) 
  <2>1. Sections = Aside \cup Listen \cup Experimental BY Orders
  <2> QED BY <2>1, ServedIs, ListenerServes
<1>2. \/ d \in D \cap (Usual \ {"tls"})
      \/ d \in D \cap Experimental /\ D \cap (Usual \ {"tls"}) = {}
      \/ d = "tls" /\ d \in D
      \/ d = "raw" /\ D = {}
  BY Detected
<1>3. /\ "reality" \in D => d = "reality" /\ a = "reality"
      /\ "reality" \notin D /\ "anytls" \in D => d = "anytls" /\ a = "anytls"
  BY Detected, ActiveIs
<1>4. S \in {"reality", "anytls", "tls"} =>
        /\ "reality" \in D => S = "reality"
        /\ "reality" \notin D /\ "anytls" \in D => S = "anytls"
  <2>1. S \in {"reality", "anytls", "tls"} => S = run_with_listener(c) BY <1>0, ServedIs
  <2> QED BY <2>1, ListenerPrefers
<1>5. \A t \in D : t # S => \/ {t, S} \subseteq {"reality", "anytls", "tls"}
                            \/ t \in Experimental /\ S \in VlessTransports
  BY AcceptedServes
<1>6. a \in D \cap Usual \/ (a = "raw" /\ D \cap Usual = {}) BY ActiveIs
<1> HIDE DEF D, S, d, a
<1>7. d = S \/ (S = "tls" /\ d \in Experimental)
  <2>1. CASE D = {} BY <1>1, <1>2, <2>1
  <2>2. CASE D # {} /\ d # S
    <3>1. d \in D /\ S \in D BY <1>1, <1>2, <2>2
    <3>2. CASE {d, S} \subseteq {"reality", "anytls", "tls"} BY <1>3, <1>4, <2>2, <3>1, <3>2
    <3>3. CASE d \in Experimental /\ S \in VlessTransports BY <1>0, <1>2, <3>1, <3>3
    <3> QED BY <1>5, <2>2, <3>1, <3>2, <3>3
  <2> QED BY <2>1, <2>2
<1>8. a = S \/ S \in Experimental
  <2>1. CASE D = {} BY <1>1, <1>6, <2>1
  <2>2. CASE D # {} /\ a # S /\ S \notin Experimental
    <3>1. S \in D \cap Usual BY <1>0, <1>1, <2>2 DEF D
    <3>2. a \in D /\ a \notin Experimental BY <1>0, <1>6, <3>1
    <3>3. {a, S} \subseteq {"reality", "anytls", "tls"} BY <1>5, <2>2, <3>2
    <3> QED BY <1>3, <1>4, <2>2, <3>1, <3>2, <3>3
  <2> QED BY <2>1, <2>2
<1> QED BY <1>7, <1>8 DEF S, d, a

\* The networks of the endpoint model, for a profile that is not experimental.
LEMMA ModelNetworks ==
  ASSUME NEW c, NEW p \in Usual \cup {"raw"}, NEW v \in BOOLEAN
  PROVE  build_endpoint_model(c, p, v).payload =
           IF Is(c, p, {"noudp"}) /\ p \in {"shadowsocks", "hysteria2"} THEN {"tcp"}
           ELSE IF p \in NonVless THEN protocol_profile(p).payload
           ELSE IF v /\ p \notin {"meek", "gdocsviewer"} THEN {"tcp"} ELSE Both
<1> DEFINE sec == resolve_outer_security(c, p)
           m == CASE IsVless(p) -> vless_profile(p, sec, v)
                  [] p \in NonVless -> protocol_profile(p)
                  [] OTHER -> experimental_profile(p)
           quiet == Is(c, p, {"noudp"}) /\ p \in {"shadowsocks", "hysteria2"}
           more == (IF Is(c, p, {"salamander", "gecko"}) THEN {c.on[p]} ELSE {})
                   \cup (IF Is(c, p, {"outbound"}) THEN {"routed"} ELSE {})
                   \cup (IF p = "naive" THEN {"padding"} ELSE {})
                   \cup (IF has_configured_fallback_destination(c, p) THEN {"fallback"} ELSE {})
           e == [m EXCEPT !.payload = IF quiet THEN {"tcp"} ELSE @, !.components = @ \cup more]
<1>1. build_endpoint_model(c, p, v) = e BY DEF build_endpoint_model
<1>2. ~(IsVless(p) /\ p \in NonVless)
  BY DEF IsVless, NonVless, VlessTransports, TlsLayers, StreamFramings, Datagrams
<1> HIDE DEF sec, more
<1>3. CASE p \in NonVless
  <2>1. m = protocol_profile(p) BY <1>2, <1>3
  <2> HIDE DEF m, quiet
  <2>2. e.payload = IF quiet THEN {"tcp"} ELSE m.payload BY <2>1 DEF protocol_profile
  <2> QED BY <1>1, <1>3, <2>1, <2>2 DEF quiet
<1>4. CASE p \notin NonVless
  <2>1. IsVless(p) BY <1>4 DEF IsVless, Usual
  <2>2. m = vless_profile(p, sec, v) BY <1>2, <2>1
  <2>3. ~quiet BY <1>4 DEF NonVless
  <2> DEFINE w == v /\ p \notin {"meek", "gdocsviewer"}
  <2>4. \E tr, co : m = vless_model(w, tr, sec, co)
    BY <2>2 DEF vless_profile
  <2> HIDE DEF m, quiet
  <2>5. PICK tr, co : m = vless_model(w, tr, sec, co) BY <2>4
  <2>6. w \in BOOLEAN OBVIOUS
  <2> HIDE DEF w
  <2>7. e.payload = m.payload BY <2>3, <2>5 DEF vless_model
  <2>8. m.payload = IF w THEN {"tcp"} ELSE Both BY <2>5 DEF vless_model
  <2> QED BY <1>1, <1>4, <2>3, <2>7, <2>8 DEF w, quiet
<1> QED BY <1>3, <1>4

\* The networks the two tools find, where they agree on the profile.
LEMMA NetworksAgree ==
  ASSUME NEW c, NEW p \in Usual \cup {"raw"}
  PROVE  \/ build_endpoint_model(c, p, Flow(c) = "vision").payload = payload_networks_for(c, p)
         \/ IsVless(p) /\ c.user = "mute"
         \/ p \in {"quic", "webtransport"} /\ (Is(c, p, {"noudp"}) \/ active_flow(c) = "vision")
         \/ p \in {"meek", "gdocsviewer"} /\ active_flow(c) = "vision"
<1> DEFINE v == Flow(c) = "vision"   n == build_endpoint_model(c, p, v).payload
<1>1. v <=> active_flow(c) = "vision" BY DEF Flow, active_flow
<1>2. n = IF Is(c, p, {"noudp"}) /\ p \in {"shadowsocks", "hysteria2"} THEN {"tcp"}
          ELSE IF p \in NonVless THEN protocol_profile(p).payload
          ELSE IF v /\ p \notin {"meek", "gdocsviewer"} THEN {"tcp"} ELSE Both
  <2>1. v \in BOOLEAN OBVIOUS
  <2> HIDE DEF v
  <2> QED BY <2>1, ModelNetworks
<1> HIDE DEF v, n
<1>3. CASE p \in NonVless
  <2>1. protocol_profile(p).payload = CASE p \in {"vmess", "mixed", "naive", "snell"} -> {"tcp"}
                                        [] p = "wireguard" -> {"ip"}
                                        [] OTHER -> Both
    BY DEF protocol_profile
  <2>2. CASE p \in {"shadowsocks", "hysteria2"}
    <3>1. protocol_profile(p).payload = Both BY <2>1, <2>2
    <3>2. payload_networks_for(c, p) = IF Is(c, p, {"noudp"}) THEN {"tcp"} ELSE Both
      BY <2>2 DEF payload_networks_for
    <3> QED BY <1>2, <1>3, <2>2, <3>1, <3>2 DEF n, v
  <2>3. CASE p \in {"trojan", "tuic"}
    <3>1. protocol_profile(p).payload = Both BY <2>1, <2>3
    <3>2. payload_networks_for(c, p) = Both BY <2>3 DEF payload_networks_for
    <3> QED BY <1>2, <1>3, <2>3, <3>1, <3>2 DEF n, v
  <2>4. CASE p \in {"vmess", "mixed", "naive", "snell"}
    <3>1. protocol_profile(p).payload = {"tcp"} BY <2>1, <2>4
    <3>2. payload_networks_for(c, p) = {"tcp"} BY <2>4 DEF payload_networks_for
    <3> QED BY <1>2, <1>3, <2>4, <3>1, <3>2 DEF n, v
  <2>5. CASE p = "wireguard"
    <3>1. protocol_profile(p).payload = {"ip"} BY <2>1, <2>5
    <3>2. payload_networks_for(c, p) = {"ip"} BY <2>5 DEF payload_networks_for
    <3> QED BY <1>2, <1>3, <2>5, <3>1, <3>2 DEF n, v
  <2> QED BY <1>3, <2>2, <2>3, <2>4, <2>5 DEF NonVless
<1>4. CASE p \notin NonVless /\ p \notin {"quic", "webtransport"}
  <2>1. IsVless(p) BY <1>4 DEF IsVless, Usual
  <2>2. p \notin {"mixed", "vmess", "naive", "snell", "wireguard", "quic", "webtransport", "hysteria2",
                  "shadowsocks", "trojan", "tuic"}
    BY <1>4 DEF NonVless
  <2>3. payload_networks_for(c, p) =
          IF active_flow(c) = "vision" \/ ~active_user_udp(c) THEN {"tcp"} ELSE Both
    BY <2>2 DEF payload_networks_for
  <2>4. n = IF v /\ p \notin {"meek", "gdocsviewer"} THEN {"tcp"} ELSE Both BY <1>2, <1>4, <2>2
  <2>5. ~active_user_udp(c) => c.user = "mute" BY DEF active_user_udp
  <2> QED BY <1>1, <2>1, <2>3, <2>4, <2>5 DEF n, v
<1>5. CASE p \in {"quic", "webtransport"}
  <2>1. p \notin NonVless BY <1>5 DEF NonVless
  <2>2. payload_networks_for(c, p) = IF Is(c, p, {"noudp"}) THEN {"tcp"} ELSE Both
    BY <1>5 DEF payload_networks_for
  <2>3. n = IF v THEN {"tcp"} ELSE Both BY <1>2, <1>5, <2>1
  <2> QED BY <1>1, <1>5, <2>2, <2>3 DEF n, v
<1> QED BY <1>3, <1>4, <1>5

-----------------------------------------------------------------------------
(* What the client tools build, and what a running server needs *)

\* What is served of an accepted file, and what else the file may have.
LEMMA Main ==
  ASSUME NEW c, validate(c), DOMAIN c.on \subseteq Sections
  PROVE  /\ Served(c) \in DOMAIN c.on \/ (Served(c) = "raw" /\ DOMAIN c.on = {})
         /\ \A t \in DOMAIN c.on : t = Served(c) \/ t \in {"anytls", "tls"} \cup Experimental
<1> DEFINE D == DOMAIN c.on   S == Served(c)
<1>1. S \in D \/ (S = "raw" /\ D = {})
  <2>1. Sections = Aside \cup Listen \cup Experimental BY Orders
  <2> QED BY <2>1, ServedIs, ListenerServes
<1>2. ASSUME NEW t \in D, t # S, t \notin {"anytls", "tls"} \cup Experimental PROVE FALSE
  <2>1. {t, S} \subseteq {"reality", "anytls", "tls"} BY <1>2, AcceptedServes
  <2>2. t = "reality" BY <1>2, <2>1
  <2>3. S = run_with_listener(c) BY <2>1, ServedIs DEF Aside
  <2> QED BY <1>2, <2>2, <2>3, ListenerPrefers
<1> QED BY <1>1, <1>2

\* The same of a single remark.
LEMMA MainIs ==
  ASSUME NEW c, validate(c), DOMAIN c.on \subseteq Sections,
         NEW t, t \notin {"anytls", "tls"} \cup Experimental, NEW Q
  PROVE  Is(c, t, Q) => t = Served(c)
BY Main DEF Is, Has

\* What a section of VLESS is turned into.
LEMMA SectionParsed ==
  ASSUME NEW s \in VlessTransports, NEW q
  PROVE  /\ Parsed(s, q).sec =
              IF s \in StreamFramings THEN IF q \in TlsTable THEN "tls" ELSE "none"
              ELSE IF s \in {"quic", "webtransport"} THEN "tls" ELSE IF s = "kcp" THEN "none" ELSE s
         /\ Parsed(s, q).path = IF s = "xhttp" /\ q = "bare" THEN "p" ELSE "/p"
         /\ Parsed(s, q).host <=> s \in {"websocket", "httpupgrade", "xhttp", "meek", "webtransport"} /\ q = "host"
<1> USE DEF Parsed, Under, Plain, StreamFramings
<1>1. CASE s = "reality" BY <1>1 DEF parse_reality_config
<1>2. CASE s = "anytls" BY <1>2 DEF parse_anytls_config
<1>3. CASE s = "tls" BY <1>3 DEF parse_tls_config
<1>4. CASE s = "shadowtls" BY <1>4 DEF parse_shadowtls_config
<1>5. CASE s = "websocket" BY <1>5 DEF parse_ws_config, Within
<1>6. CASE s = "httpupgrade" BY <1>6 DEF parse_httpupgrade_config, Within
<1>7. CASE s = "grpc" BY <1>7 DEF parse_grpc_config, Within
<1>8. CASE s = "xhttp" BY <1>8 DEF parse_xhttp_config, Within
<1>9. CASE s = "meek" BY <1>9 DEF parse_meek_config, Within
<1>10. CASE s = "gdocsviewer" BY <1>10 DEF parse_gdocsviewer_config, Within
<1>11. CASE s = "quic" BY <1>11 DEF parse_quic_config
<1>12. CASE s = "kcp" BY <1>12 DEF parse_kcp_config
<1>13. CASE s = "webtransport" BY <1>13 DEF parse_webtransport_config
<1> QED BY <1>1, <1>2, <1>3, <1>4, <1>5, <1>6, <1>7, <1>8, <1>9, <1>10, <1>11, <1>12, <1>13
       DEF VlessTransports, TlsLayers, Datagrams

\* What a running server of VLESS listens for.
LEMMA VlessListens ==
  ASSUME NEW c, validate(c), DOMAIN c.on \subseteq Sections, NEW s, s = Served(c), IsVless(s)
  PROVE  /\ Listening(c).proto = "vless" /\ Listening(c).wire = Wire(s)
         /\ Listening(c).sec =
              IF s \in StreamFramings THEN IF Is(c, s, TlsTable) THEN "tls" ELSE "none"
              ELSE IF s \in {"quic", "webtransport"} THEN "tls" ELSE IF s \in {"kcp", "raw"} THEN "none" ELSE s
         /\ Listening(c).path = IF s = "xhttp" /\ Is(c, s, {"bare"}) THEN "p" ELSE "/p"
         /\ Listening(c).host <=>
              s \in {"websocket", "httpupgrade", "xhttp", "meek", "webtransport"} /\ Is(c, s, {"host"})
         /\ Listening(c).known <=> has_vless_users(c) /\ ~Is(c, "reality", {"noshort"})
<1> DEFINE l == Listening(c)   p == IF s = "raw" THEN Plain ELSE Parsed(s, c.on[s])
<1>1. /\ l.proto = "vless" /\ l.wire = Wire(s) /\ l.sec = p.sec /\ l.path = p.path /\ l.host = p.host
      /\ l.known = (has_vless_users(c) /\ ~Is(c, "reality", {"noshort"}))
  BY DEF Listening
<1> HIDE DEF l
<1>2. CASE s = "raw"
  <2>1. p.sec = "none" /\ p.path = "/p" /\ p.host = FALSE BY <1>2 DEF Plain
  <2>2. s \notin StreamFramings BY <1>2 DEF StreamFramings
  <2> HIDE DEF p
  <2> QED BY <1>1, <1>2, <2>1, <2>2 DEF l
<1>3. CASE s # "raw"
  <2> DEFINE q == c.on[s]
  <2>1. s \in VlessTransports BY <1>3 DEF IsVless
  <2>2. s \in DOMAIN c.on BY <1>3, Main
  <2>3. \A Q : Is(c, s, Q) <=> q \in Q BY <2>2 DEF Is, Has
  <2>4. p = Parsed(s, q) BY <1>3
  <2> HIDE DEF p, q
  <2>5. /\ p.sec = IF s \in StreamFramings THEN IF q \in TlsTable THEN "tls" ELSE "none"
                   ELSE IF s \in {"quic", "webtransport"} THEN "tls" ELSE IF s = "kcp" THEN "none" ELSE s
        /\ p.path = IF s = "xhttp" /\ q = "bare" THEN "p" ELSE "/p"
        /\ p.host <=> s \in {"websocket", "httpupgrade", "xhttp", "meek", "webtransport"} /\ q = "host"
    BY <2>1, <2>4, SectionParsed
  <2>6. /\ Is(c, s, TlsTable) <=> q \in TlsTable
        /\ Is(c, s, {"bare"}) <=> q = "bare"
        /\ Is(c, s, {"host"}) <=> q = "host"
    BY <2>3
  <2> QED BY <1>1, <1>3, <2>5, <2>6 DEF l
<1> QED BY <1>2, <1>3

\* What another protocol's server listens for.
LEMMA OtherListens ==
  ASSUME NEW c, NEW s, s = Served(c), ~IsVless(s)
  PROVE  /\ Listening(c).proto = s
         /\ Listening(c).obfs = IF Is(c, "hysteria2", {"salamander", "gecko"}) THEN c.on["hysteria2"] ELSE "none"
BY DEF Listening

\* The endpoint model of a profile of VLESS.
LEMMA VlessEndpoint ==
  ASSUME NEW c, NEW p, IsVless(p), NEW v \in BOOLEAN
  PROVE  LET e == build_endpoint_model(c, p, v)
         IN /\ e.protocol = "vless" /\ e.sec = resolve_outer_security(c, p)
            /\ e.transport = IF p \in TlsLayers \cup {"raw"} THEN "raw" ELSE p
            /\ "anytls" \in e.components <=> p = "anytls"
            /\ "shadowtls" \in e.components <=> p = "shadowtls"
<1> DEFINE sec == resolve_outer_security(c, p)
           m == CASE IsVless(p) -> vless_profile(p, sec, v)
                  [] p \in NonVless -> protocol_profile(p)
                  [] OTHER -> experimental_profile(p)
           quiet == Is(c, p, {"noudp"}) /\ p \in {"shadowsocks", "hysteria2"}
           more == (IF Is(c, p, {"salamander", "gecko"}) THEN {c.on[p]} ELSE {})
                   \cup (IF Is(c, p, {"outbound"}) THEN {"routed"} ELSE {})
                   \cup (IF p = "naive" THEN {"padding"} ELSE {})
                   \cup (IF has_configured_fallback_destination(c, p) THEN {"fallback"} ELSE {})
           e == [m EXCEPT !.payload = IF quiet THEN {"tcp"} ELSE @, !.components = @ \cup more]
           tr == IF p \in TlsLayers \cup {"raw"} THEN "raw" ELSE p
           co == IF p \in {"anytls", "shadowtls"} THEN {p} ELSE {}
           w == v /\ p \notin {"meek", "gdocsviewer"}
<1>1. build_endpoint_model(c, p, v) = e BY DEF build_endpoint_model
<1>2. p \notin NonVless
  BY DEF IsVless, NonVless, VlessTransports, TlsLayers, StreamFramings, Datagrams
<1>3. "anytls" \notin more /\ "shadowtls" \notin more
  <2>1. Is(c, p, {"salamander", "gecko"}) => c.on[p] \in {"salamander", "gecko"} BY DEF Is
  <2> QED BY <2>1
<1> HIDE DEF sec, more
<1>4. m = vless_model(w, tr, sec, co)
  <2>1. m = vless_profile(p, sec, v) BY <1>2
  <2>2. CASE p \in {"reality", "tls", "raw"} BY <2>1, <2>2 DEF vless_profile, TlsLayers
  <2>3. CASE p \in {"anytls", "shadowtls"} BY <2>1, <2>3 DEF vless_profile, TlsLayers
  <2>4. CASE p \in {"meek", "gdocsviewer"} BY <2>1, <2>4 DEF vless_profile, TlsLayers
  <2>5. CASE p \notin {"reality", "tls", "raw", "anytls", "shadowtls", "meek", "gdocsviewer"}
    BY <2>1, <2>5 DEF vless_profile, TlsLayers
  <2> QED BY <2>2, <2>3, <2>4, <2>5
<1>5. w \in BOOLEAN OBVIOUS
<1>6. /\ "anytls" \in co <=> p = "anytls"
      /\ "shadowtls" \in co <=> p = "shadowtls"
  OBVIOUS
<1> HIDE DEF m, quiet, tr, co, w
<1>7. /\ m.protocol = "vless" /\ m.sec = sec /\ m.transport = tr
      /\ m.components = co \cup (IF w THEN {"vision"} ELSE {})
      /\ e.protocol = m.protocol /\ e.sec = m.sec /\ e.transport = m.transport
      /\ e.components = m.components \cup more
  BY <1>4 DEF vless_model
<1> HIDE DEF e
<1>8. /\ "anytls" \in e.components <=> p = "anytls"
      /\ "shadowtls" \in e.components <=> p = "shadowtls"
  BY <1>3, <1>5, <1>6, <1>7
<1> QED BY <1>1, <1>7, <1>8 DEF sec, tr

\* The endpoint model of a protocol of its own.
LEMMA OtherEndpoint ==
  ASSUME NEW c, NEW p \in NonVless, NEW v
  PROVE  build_endpoint_model(c, p, v).protocol = p /\ "anytls" \notin build_endpoint_model(c, p, v).components
<1> DEFINE m == CASE IsVless(p) -> vless_profile(p, resolve_outer_security(c, p), v)
                  [] p \in NonVless -> protocol_profile(p)
                  [] OTHER -> experimental_profile(p)
           quiet == Is(c, p, {"noudp"}) /\ p \in {"shadowsocks", "hysteria2"}
           more == (IF Is(c, p, {"salamander", "gecko"}) THEN {c.on[p]} ELSE {})
                   \cup (IF Is(c, p, {"outbound"}) THEN {"routed"} ELSE {})
                   \cup (IF p = "naive" THEN {"padding"} ELSE {})
                   \cup (IF has_configured_fallback_destination(c, p) THEN {"fallback"} ELSE {})
           e == [m EXCEPT !.payload = IF quiet THEN {"tcp"} ELSE @, !.components = @ \cup more]
<1>1. build_endpoint_model(c, p, v) = e BY DEF build_endpoint_model
<1>2. ~IsVless(p) BY DEF IsVless, NonVless, VlessTransports, TlsLayers, StreamFramings, Datagrams
<1>3. "anytls" \notin more
  <2>1. Is(c, p, {"salamander", "gecko"}) => c.on[p] \in {"salamander", "gecko"} BY DEF Is
  <2> QED BY <2>1
<1>4. m = protocol_profile(p) BY <1>2
<1> HIDE DEF m, quiet, more
<1>5. e.protocol = p /\ e.components = {} \cup more BY <1>4 DEF protocol_profile
<1> HIDE DEF e
<1> QED BY <1>1, <1>3, <1>5

\* What the export knows of a file.
LEMMA ValuesAre ==
  ASSUME NEW c, NEW p, p = detect_profile(c)
  PROVE  LET v == resolve_client_values(c)
         IN /\ v.endpoint = build_endpoint_model(c, p, Flow(c) = "vision")
            /\ v.uuid = IF p # "vmess" /\ ~has_vless_users(c) THEN "default" ELSE "own"
            /\ v.keys = IF Is(c, "reality", {"noshort", "badkey"}) THEN "default" ELSE "own"
            /\ v.xhttp_host = Is(c, "xhttp", {"host"})
BY DEF resolve_client_values

LEMMA ExperimentalEndpoint ==
  ASSUME NEW c, NEW p \in Experimental, NEW v PROVE build_endpoint_model(c, p, v).protocol = p
<1>1. ~IsVless(p) /\ p \notin NonVless
  BY DEF IsVless, NonVless, VlessTransports, TlsLayers, StreamFramings, Datagrams, Experimental
<1> DEFINE m == CASE IsVless(p) -> vless_profile(p, resolve_outer_security(c, p), v)
                  [] p \in NonVless -> protocol_profile(p)
                  [] OTHER -> experimental_profile(p)
<1>2. m = experimental_profile(p) BY <1>1
<1> HIDE DEF m
<1>3. \A x, y : [m EXCEPT !.payload = x, !.components = y].protocol = p BY <1>2 DEF experimental_profile
<1> QED BY <1>3 DEF build_endpoint_model, m

\* The client of VLESS over something, in each of the formats.
LEMMA ExportedVless ==
  ASSUME NEW c, NEW f \in ClientFormat, NEW v, v = resolve_client_values(c), ~IsSimple(v),
         NEW k, k = generate_client_config(f, c), k # NoClient
  PROVE  LET t == v.endpoint.transport
         IN /\ k.proto = "vless" /\ ~k.verify /\ k.cred = Cred(v) /\ k.path = "/p"
            /\ k.host = (v.xhttp_host /\ t = "xhttp")
            /\ k.wire = IF t = "kcp" /\ f \in {"singbox", "hiddify"} THEN "raw"
                        ELSE IF t = "xhttp" /\ f = "singbox" THEN "http"
                        ELSE IF t \in {"meek", "gdocsviewer"} /\ f = "xray" THEN "raw" ELSE t
            /\ k.sec = IF "shadowtls" \in v.endpoint.components /\ (f = "singbox" \/ (f = "hiddify" /\ t # "xhttp"))
                       THEN "shadowtls" ELSE v.endpoint.sec
<1> DEFINE e == v.endpoint   t == e.transport   host == v.xhttp_host /\ t = "xhttp"
           sw == CASE t = "kcp" -> "raw" [] t = "xhttp" -> "http" [] OTHER -> t
           xw == IF t \in {"meek", "gdocsviewer"} THEN "raw" ELSE t
           sb == singbox_format(v)   xr == xray_format(v)   mi == mihomo_format(v)
<1>1. k = IF f = "mihomo" THEN mi ELSE IF f = "singbox" THEN sb ELSE IF f = "xray" THEN xr
          ELSE IF t = "xhttp" THEN xr ELSE sb
  <2>1. k = CASE f = "mihomo" -> mi [] f = "singbox" -> sb [] f = "xray" -> xr [] OTHER -> hiddify_format(v)
    BY DEF generate_client_config
  <2>2. hiddify_format(v) = IF t = "xhttp" THEN xr ELSE sb BY DEF hiddify_format
  <2> HIDE DEF mi, sb, xr, t
  <2> QED BY <2>1, <2>2
<1>2. mi = [Client("vless", t, e.sec, Cred(v), TRUE) EXCEPT !.host = host] BY DEF mihomo_format
<1>3. sb = [Client("vless", sw, singbox_tls(v), Cred(v), enabled_payload_network_field(v)) EXCEPT !.host = host]
  BY DEF singbox_format
<1>4. xr = [Client("vless", xw, e.sec, Cred(v), TRUE) EXCEPT !.host = host] BY DEF xray_format
<1>5. sw = IF t = "kcp" THEN "raw" ELSE IF t = "xhttp" THEN "http" ELSE t OBVIOUS
<1>6. singbox_tls(v) = IF "shadowtls" \in e.components THEN "shadowtls" ELSE e.sec BY DEF singbox_tls
<1>0. xw = IF t \in {"meek", "gdocsviewer"} THEN "raw" ELSE t OBVIOUS
<1> HIDE DEF mi, sb, xr, sw, xw, host, e, t
<1>7. /\ mi.proto = "vless" /\ mi.wire = t /\ mi.sec = e.sec /\ mi.cred = Cred(v) /\ mi.path = "/p" /\ mi.host = host
      /\ sb.proto = "vless" /\ sb.wire = sw /\ sb.sec = singbox_tls(v) /\ sb.cred = Cred(v) /\ sb.path = "/p"
      /\ sb.host = host
      /\ xr.proto = "vless" /\ xr.wire = xw /\ xr.sec = e.sec /\ xr.cred = Cred(v) /\ xr.path = "/p" /\ xr.host = host
      /\ ~mi.verify /\ ~sb.verify /\ ~xr.verify
  <2>1. /\ mi.proto = "vless" /\ mi.wire = t /\ mi.sec = e.sec /\ mi.cred = Cred(v) /\ mi.path = "/p"
        /\ mi.host = host /\ ~mi.verify
    BY <1>2 DEF Client
  <2>2. /\ sb.proto = "vless" /\ sb.wire = sw /\ sb.sec = singbox_tls(v) /\ sb.cred = Cred(v) /\ sb.path = "/p"
        /\ sb.host = host /\ ~sb.verify
    BY <1>3 DEF Client
  <2>3. /\ xr.proto = "vless" /\ xr.wire = xw /\ xr.sec = e.sec /\ xr.cred = Cred(v) /\ xr.path = "/p"
        /\ xr.host = host /\ ~xr.verify
    BY <1>4 DEF Client
  <2> QED BY <2>1, <2>2, <2>3
<1>8. k.proto = "vless" /\ ~k.verify /\ k.cred = Cred(v) /\ k.path = "/p" /\ k.host = host
  BY <1>1, <1>7
<1>9. k.wire = IF t = "kcp" /\ f \in {"singbox", "hiddify"} THEN "raw"
               ELSE IF t = "xhttp" /\ f = "singbox" THEN "http"
               ELSE IF t \in {"meek", "gdocsviewer"} /\ f = "xray" THEN "raw" ELSE t
  BY <1>0, <1>1, <1>5, <1>7 DEF ClientFormat
<1>10. k.sec = IF "shadowtls" \in e.components /\ (f = "singbox" \/ (f = "hiddify" /\ t # "xhttp"))
               THEN "shadowtls" ELSE e.sec
  BY <1>1, <1>6, <1>7 DEF ClientFormat
<1> QED BY <1>8, <1>9, <1>10 DEF host, e, t

\* The client of a protocol of its own, or of AnyTLS, in every format.
LEMMA ExportedSimple ==
  ASSUME NEW c, NEW f \in ClientFormat, NEW v, v = resolve_client_values(c), IsSimple(v),
         NEW k, k = generate_client_config(f, c), k # NoClient
  PROVE  k = simple_outbound(v)
BY DEF generate_client_config, mihomo_format, singbox_format, xray_format, hiddify_format

\* An exported client of a protocol of its own.
LEMMA OtherExported ==
  ASSUME NEW c, validate(c), DOMAIN c.on \subseteq Sections, NEW s \in NonVless, s = Served(c),
         NEW f \in ClientFormat, NEW k, k = generate_client_config(f, c), k # NoClient, detect_profile(c) = s
  PROVE  Fits(c, k) <=> ~Lossy(c, f)
<1> DEFINE v == resolve_client_values(c)
<1>1. v.endpoint.protocol = s /\ "anytls" \notin v.endpoint.components BY ValuesAre, OtherEndpoint
<1>2. ~IsVless(s) /\ s # "vless" /\ s # "anytls"
  BY DEF IsVless, NonVless, VlessTransports, TlsLayers, StreamFramings, Datagrams
<1>3. IsSimple(v) BY <1>1, <1>2 DEF IsSimple
<1>4. k = simple_outbound(v) BY <1>3, ExportedSimple
<1> HIDE DEF v
<1>5. /\ k.proto = s /\ k.cred = (IF s = "wireguard" THEN "swapped" ELSE "own") /\ k.obfs = "none"
      /\ ~k.verify
  BY <1>1, <1>4 DEF simple_outbound, Client
<1>6. /\ Listening(c).proto = s
      /\ Listening(c).obfs = IF Is(c, "hysteria2", {"salamander", "gecko"}) THEN c.on["hysteria2"] ELSE "none"
  BY <1>2, OtherListens
<1>7. Is(c, "hysteria2", {"salamander", "gecko"}) => c.on["hysteria2"] # "none" BY DEF Is
<1>8. Fits(c, k) <=> s # "wireguard" /\ ~Is(c, "hysteria2", {"salamander", "gecko"})
  <2>1. Fits(c, k) <=> k.proto = s /\ k.cred = "own" /\ k.obfs = Listening(c).obfs
    BY <1>2, <1>5, <1>6 DEF Fits
  <2> QED BY <1>5, <1>6, <1>7, <2>1
<1>9. Lossy(c, f) <=> s = "wireguard" \/ Is(c, "hysteria2", {"salamander", "gecko"})
  <2>1. ~Is(c, "reality", {"noshort"})
    <3>1. "reality" \notin {"anytls", "tls"} \cup Experimental /\ s # "reality" BY DEF NonVless, Experimental
    <3> QED BY <3>1, MainIs
  <2>2. s \notin {"meek", "gdocsviewer", "kcp", "shadowtls", "xhttp", "websocket", "httpupgrade"} BY DEF NonVless
  <2> QED BY <1>2, <2>1, <2>2 DEF Lossy
<1> QED BY <1>8, <1>9

\* An exported client of AnyTLS.
LEMMA AnyTlsExported ==
  ASSUME NEW c, validate(c), DOMAIN c.on \subseteq Sections, Served(c) = "anytls", detect_profile(c) = "anytls",
         NEW f \in ClientFormat, NEW k, k = generate_client_config(f, c), k # NoClient
  PROVE  Fits(c, k) <=> ~Lossy(c, f)
<1> DEFINE v == resolve_client_values(c)   b == Flow(c) = "vision"
<1>1. b \in BOOLEAN /\ IsVless("anytls") BY DEF IsVless, VlessTransports, TlsLayers
<1>2. v.endpoint = build_endpoint_model(c, "anytls", b) BY ValuesAre
<1> HIDE DEF b
<1>3. "anytls" \in v.endpoint.components
  <2>1. "anytls" \in build_endpoint_model(c, "anytls", b).components <=> "anytls" = "anytls"
    BY <1>1, VlessEndpoint
  <2> QED BY <1>2, <2>1, Zenon
<1>4. k = simple_outbound(v) BY <1>3, ExportedSimple DEF IsSimple
<1> HIDE DEF v
<1>5. k.proto = "anytls" /\ ~k.verify BY <1>3, <1>4 DEF simple_outbound, Client
<1>6. Fits(c, k) BY <1>5 DEF Fits
<1>7. ~Is(c, "reality", {"noshort"}) /\ ~Is(c, "hysteria2", {"salamander", "gecko"})
  <2>1. {"reality", "hysteria2"} \cap ({"anytls", "tls"} \cup Experimental) = {} BY DEF Experimental
  <2> QED BY <2>1, MainIs
<1> QED BY <1>6, <1>7 DEF Lossy

\* An exported client of VLESS.
LEMMA VlessExported ==
  ASSUME NEW c, new(c), DOMAIN c.on \subseteq Sections, NEW s, IsVless(s), s # "anytls", s = Served(c),
         detect_profile(c) = s,
         NEW f \in ClientFormat, NEW k, k = generate_client_config(f, c), k # NoClient
  PROVE  Fits(c, k) <=> ~Lossy(c, f)
<1> DEFINE v == resolve_client_values(c)   e == v.endpoint   b == Flow(c) = "vision"
           t == e.transport   l == Listening(c)
<1>0. validate(c) BY DEF new
<1>1. b \in BOOLEAN /\ e = build_endpoint_model(c, s, b) BY ValuesAre
<1>2. /\ v.uuid = IF s # "vmess" /\ ~has_vless_users(c) THEN "default" ELSE "own"
      /\ v.keys = IF Is(c, "reality", {"noshort", "badkey"}) THEN "default" ELSE "own"
      /\ v.xhttp_host = Is(c, "xhttp", {"host"})
  BY ValuesAre
<1> HIDE DEF b, e
<1>3. /\ e.protocol = "vless" /\ e.sec = resolve_outer_security(c, s)
      /\ e.transport = IF s \in TlsLayers \cup {"raw"} THEN "raw" ELSE s
      /\ "anytls" \notin e.components
      /\ "shadowtls" \in e.components <=> s = "shadowtls"
  <2> DEFINE m == build_endpoint_model(c, s, b)
  <2>1. /\ m.protocol = "vless" /\ m.sec = resolve_outer_security(c, s)
        /\ m.transport = IF s \in TlsLayers \cup {"raw"} THEN "raw" ELSE s
        /\ "anytls" \in m.components <=> s = "anytls"
        /\ "shadowtls" \in m.components <=> s = "shadowtls"
    BY <1>1, VlessEndpoint
  <2>2. e = m BY <1>1
  <2> HIDE DEF m
  <2> QED BY <2>1, <2>2
<1>4. ~IsSimple(v) BY <1>3 DEF IsSimple, e
<1>5. /\ k.proto = "vless" /\ ~k.verify /\ k.cred = Cred(v) /\ k.path = "/p"
      /\ k.host = (v.xhttp_host /\ t = "xhttp")
      /\ k.wire = IF t = "kcp" /\ f \in {"singbox", "hiddify"} THEN "raw"
                  ELSE IF t = "xhttp" /\ f = "singbox" THEN "http"
                  ELSE IF t \in {"meek", "gdocsviewer"} /\ f = "xray" THEN "raw" ELSE t
      /\ k.sec = IF "shadowtls" \in e.components /\ (f = "singbox" \/ (f = "hiddify" /\ t # "xhttp"))
                 THEN "shadowtls" ELSE e.sec
  BY <1>4, ExportedVless DEF e
<1>6. /\ l.proto = "vless" /\ l.wire = Wire(s)
      /\ l.sec = IF s \in StreamFramings THEN IF Is(c, s, TlsTable) THEN "tls" ELSE "none"
                 ELSE IF s \in {"quic", "webtransport"} THEN "tls" ELSE IF s \in {"kcp", "raw"} THEN "none" ELSE s
      /\ l.path = IF s = "xhttp" /\ Is(c, s, {"bare"}) THEN "p" ELSE "/p"
      /\ l.host <=> s \in {"websocket", "httpupgrade", "xhttp", "meek", "webtransport"} /\ Is(c, s, {"host"})
      /\ l.known <=> has_vless_users(c) /\ ~Is(c, "reality", {"noshort"})
  BY <1>0, VlessListens
\* A format that would write a carrier it does not have gives no client.
<1>7. /\ e.transport \in {"meek", "gdocsviewer"} => f = "xray"
      /\ e.transport # "webtransport"
  <2>1. validate_client_format_support(f, v) BY DEF generate_client_config
  <2> HIDE DEF v
  <2> QED BY <1>3, <2>1 DEF validate_client_format_support, e
<1>8. /\ Is(c, "reality", {"noshort"}) => s = "reality"
      /\ ~Is(c, "reality", {"badkey"}) /\ ~Is(c, "hysteria2", {"salamander", "gecko"})
  <2>1. {"reality", "hysteria2"} \cap ({"anytls", "tls"} \cup Experimental) = {} BY DEF Experimental
  <2>2. s # "hysteria2" BY DEF IsVless, VlessTransports, TlsLayers, StreamFramings, Datagrams
  <2>3. ~Is(c, "reality", {"badkey"})
    <3> SUFFICES ASSUME Is(c, "reality", {"badkey"}) PROVE FALSE OBVIOUS
    <3>1. "reality" \in DOMAIN c.on /\ c.on["reality"] = "badkey" BY DEF Is, Has
    <3>2. Parsed("reality", "badkey").ok BY <3>1 DEF new
    <3> QED BY <3>2 DEF Parsed, parse_reality_config, Plain
  <2> QED BY <1>0, <2>1, <2>2, <2>3, MainIs
<1>9. s \in {"raw", "reality", "tls", "shadowtls", "websocket", "httpupgrade", "grpc", "xhttp", "meek",
            "gdocsviewer", "quic", "kcp"}
  <2>1. s # "webtransport" BY <1>3, <1>7 DEF TlsLayers
  <2> QED BY <2>1 DEF IsVless, VlessTransports, TlsLayers, StreamFramings, Datagrams
<1>10. /\ t = Wire(s) /\ t = IF s \in {"raw", "reality", "tls", "shadowtls"} THEN "raw" ELSE s
       /\ s \in {"meek", "gdocsviewer"} => f = "xray"
  <2>1. t = IF s \in {"raw", "reality", "tls", "shadowtls"} THEN "raw" ELSE s BY <1>3, <1>9 DEF TlsLayers
  <2>2. Wire(s) = IF s \in {"raw", "reality", "tls", "shadowtls"} THEN "raw" ELSE s
    BY <1>9 DEF Wire, TlsLayers, NonVless
  <2> QED BY <1>7, <2>1, <2>2
<1> DEFINE noWire == \/ s = "kcp" /\ f \in {"singbox", "hiddify"}
                     \/ s = "xhttp" /\ f = "singbox"
                     \/ s \in {"meek", "gdocsviewer"}
           noSec == s = "shadowtls" /\ f \in {"mihomo", "xray"}
           noHost == s \in {"websocket", "httpupgrade"} /\ Is(c, s, {"host"})
           noPath == s = "xhttp" /\ Is(c, s, {"bare"})
           noCred == ~has_vless_users(c) \/ Is(c, "reality", {"noshort"})
<1> HIDE DEF t, l, v
<1>11. k.wire = l.wire <=> ~noWire BY <1>5, <1>6, <1>9, <1>10
<1>12. k.cred = "own" /\ l.known <=> ~noCred
  <2>1. Cred(v) = IF e.sec = "reality" /\ v.keys = "default" THEN "default" ELSE v.uuid BY DEF Cred, e
  <2>2. s = "reality" => e.sec = "reality" BY <1>3 DEF resolve_outer_security, StreamFramings
  <2>3. Is(c, "reality", {"noshort", "badkey"}) <=> Is(c, "reality", {"noshort"}) BY <1>8 DEF Is
  <2>4. v.uuid = IF ~has_vless_users(c) THEN "default" ELSE "own" BY <1>2, <1>9
  <2> QED BY <1>2, <1>5, <1>6, <1>8, <2>1, <2>2, <2>3, <2>4
<1>13. l.wire \in {"quic", "webtransport"} \/ k.sec = l.sec <=> ~noSec
  <2>1. CASE s \in {"raw", "kcp"}
    <3>1. e.sec = "none" BY <1>3, <2>1 DEF resolve_outer_security, StreamFramings
    <3>2. l.sec = "none" BY <1>6, <2>1 DEF StreamFramings
    <3> QED BY <1>3, <1>5, <2>1, <3>1, <3>2
  <2>2. CASE s \in {"reality", "tls"}
    <3>1. e.sec = s BY <1>3, <2>2 DEF resolve_outer_security, StreamFramings
    <3>2. l.sec = s BY <1>6, <2>2 DEF StreamFramings
    <3> QED BY <1>3, <1>5, <2>2, <3>1, <3>2
  <2>3. CASE s = "shadowtls"
    <3>1. e.sec = "tls" BY <1>3, <2>3 DEF resolve_outer_security, StreamFramings
    <3>2. l.sec = s BY <1>6, <2>3 DEF StreamFramings
    <3>3. t = "raw" /\ l.wire = "raw" BY <1>6, <1>10, <2>3
    <3> QED BY <1>3, <1>5, <2>3, <3>1, <3>2, <3>3 DEF ClientFormat
  <2>4. CASE s = "quic"
    <3>1. l.wire = "quic" BY <1>6, <1>10, <2>4
    <3> QED BY <2>4, <3>1
  <2>5. CASE s \in StreamFramings
    <3>1. s \notin {"reality", "anytls", "tls", "quic", "webtransport", "shadowtls", "trojan", "hysteria2", "tuic",
                    "naive"}
      BY <2>5 DEF StreamFramings
    <3>2. e.sec = IF Is(c, s, TlsTable) THEN "tls" ELSE "none"
      BY <1>3, <2>5, <3>1 DEF resolve_outer_security
    <3> QED BY <1>3, <1>5, <1>6, <2>5, <3>1, <3>2
  <2> QED BY <1>9, <2>1, <2>2, <2>3, <2>4, <2>5 DEF StreamFramings
<1>14. l.path = "/p" /\ k.path = "/p" <=> ~noPath BY <1>5, <1>6
<1>15. s \notin {"meek", "gdocsviewer"} => ((l.host => k.host) <=> ~noHost)
  <2>1. k.host <=> Is(c, "xhttp", {"host"}) /\ t = "xhttp" BY <1>2, <1>5 DEF Is, Has
  <2> QED BY <1>6, <1>9, <1>10, <2>1
<1>16. Fits(c, k) <=> /\ k.wire = l.wire /\ k.cred = "own" /\ l.known
                      /\ l.wire \in {"quic", "webtransport"} \/ k.sec = l.sec
                      /\ l.path = "/p" /\ k.path = "/p" /\ (l.host => k.host)
  BY <1>5, <1>6 DEF Fits, l
<1>17. Lossy(c, f) <=> noWire \/ noCred \/ noSec \/ noPath \/ noHost
  <2>1. s # "wireguard" BY <1>9
  <2> QED BY <1>8, <2>1 DEF Lossy
<1> HIDE DEF noWire, noSec, noHost, noPath, noCred
<1>18. s \in {"meek", "gdocsviewer"} => noWire BY DEF noWire
<1> QED BY <1>11, <1>12, <1>13, <1>14, <1>15, <1>16, <1>17, <1>18

\* An exported client can use the server of an accepted file exactly when nothing
\* it needs is lost on the way.
LEMMA ExportFits ==
  ASSUME NEW c, new(c), DOMAIN c.on \subseteq Sections,
         NEW f \in ClientFormat, NEW k, k = generate_client_config(f, c), k # NoClient
  PROVE  Fits(c, k) <=> ~Lossy(c, f)
<1> DEFINE s == Served(c)   p == detect_profile(c)   v == resolve_client_values(c)
<1>1. validate(c) BY DEF new
<1>2. p \notin Experimental
  <2>1. validate_client_format_support(f, v) BY DEF generate_client_config
  <2>2. v.endpoint = build_endpoint_model(c, p, Flow(c) = "vision") BY ValuesAre
  <2> HIDE DEF v, p
  <2>3. v.endpoint.protocol \in {"vless", "vmess", "shadowsocks", "trojan", "hysteria2", "tuic", "wireguard"}
    BY <2>1 DEF validate_client_format_support
  <2>4. p \in Experimental => v.endpoint.protocol = p BY <2>2, ExperimentalEndpoint
  <2> QED BY <2>3, <2>4 DEF Experimental
<1>3. p = s BY <1>1, <1>2, ToolsSee
<1>4. IsVless(s) \/ s \in NonVless
  <2>1. s \in Sections \cup {"raw"} BY <1>1, Main
  <2> QED BY <1>2, <1>3, <2>1 DEF IsVless, Sections
<1> HIDE DEF s, p, v
<1>5. CASE s \in NonVless BY <1>1, <1>3, <1>5, OtherExported DEF s, p
<1>6. CASE s = "anytls" BY <1>1, <1>3, <1>6, AnyTlsExported DEF s, p
<1>7. CASE IsVless(s) /\ s # "anytls" BY <1>3, <1>7, VlessExported DEF s, p
<1> QED BY <1>4, <1>5, <1>6, <1>7

\* The client wrongcl builds of an accepted file that it calls adaptable.
LEMMA AdaptFits ==
  ASSUME NEW c, new(c), DOMAIN c.on \subseteq Sections, Served(c) \notin Experimental,
         NEW r, r = build_wrongcl_adapt_plan(c), r.adaptable
  PROVE  LET incomplete == \/ IsVless(Served(c)) /\ ~has_vless_users(c)
                           \/ Is(c, "reality", {"noshort"}) \/ Is(c, "wireguard", {"noip"})
         IN  /\ r.ok <=> ~incomplete
             /\ r.ok /\ (\A s \in {"websocket", "httpupgrade", "xhttp"} : ~Is(c, s, {"bare"})) =>
                  (Fits(c, r.strict) <=> ~SelfSigned(c))
<1> DEFINE s == Served(c)   h == import_resolution_hint(c)   k == build_wrongcl_import_spec(c, s, FALSE)
           l == Listening(c)
           incomplete == \/ IsVless(s) /\ ~has_vless_users(c)
                         \/ Is(c, "reality", {"noshort"}) \/ Is(c, "wireguard", {"noip"})
<1>0. validate(c) BY DEF new
<1>1. h.profile = s BY <1>0, ToolsSee DEF import_resolution_hint
<1>2. build_wrongcl_capability_view(c, h) /\ r.strict = k /\ (r.ok <=> k # NoClient)
  BY <1>1 DEF build_wrongcl_adapt_plan
<1> HIDE DEF h
<1>3. /\ s # "vmess"
      /\ s = "wireguard" => ~Is(c, s, {"nokey", "nopeers"})
      /\ s = "hysteria2" => ~Is(c, s, {"salamander", "gecko", "badobfs", "shortobfs", "badsizes"})
  BY <1>1, <1>2 DEF build_wrongcl_capability_view, wrongcl_profile_implemented, wrongcl_missing_fields,
     wrongcl_local_runtime_gap
<1>4. s \in DOMAIN c.on \/ s = "raw" BY <1>0, Main
<1>5. s \in VlessTransports \cup NonVless \cup {"raw"} BY <1>4 DEF Sections
<1>6. /\ \A Q : Is(c, "reality", Q) => s = "reality"
      /\ \A Q : Is(c, "wireguard", Q) => s = "wireguard"
      /\ \A Q : Is(c, "hysteria2", Q) => s = "hysteria2"
  <2>1. {"reality", "wireguard", "hysteria2"} \cap ({"anytls", "tls"} \cup Experimental) = {} BY DEF Experimental
  <2> QED BY <1>0, <2>1, MainIs
<1>7. s = "reality" => ~Is(c, "reality", {"badkey"})
  <2> SUFFICES ASSUME Is(c, "reality", {"badkey"}) PROVE FALSE OBVIOUS
  <2>1. "reality" \in DOMAIN c.on /\ c.on["reality"] = "badkey" BY DEF Is, Has
  <2>2. Parsed("reality", "badkey").ok BY <2>1 DEF new
  <2> QED BY <2>2 DEF Parsed, parse_reality_config, Plain
\* What validate refuses leaves wrongcl nothing to miss.
<1>8. Buildable(c, s, FALSE) <=> ~incomplete
  <2> HIDE DEF k, l
  <2>1. CASE s = "reality"
    <3>1. Buildable(c, s, FALSE) <=> has_vless_users(c) /\ ~Is(c, "reality", {"badkey"}) /\ ~Is(c, "reality", {"noshort"})
      BY <2>1 DEF Buildable, vless_proxy_spec, reality_spec
    <3>2. IsVless(s) BY <2>1 DEF IsVless, VlessTransports, TlsLayers
    <3> QED BY <1>6, <1>7, <2>1, <3>1, <3>2
  <2>2. CASE IsVless(s) /\ s # "reality"
    <3>1. s \notin {"trojan", "hysteria2", "tuic", "mixed", "naive", "wireguard", "shadowsocks", "snell"}
      BY <2>2 DEF IsVless, VlessTransports, TlsLayers, StreamFramings, Datagrams
    <3>2. Buildable(c, s, FALSE) <=> has_vless_users(c) BY <2>2, <3>1 DEF Buildable, vless_proxy_spec
    <3> QED BY <1>6, <2>2, <3>1, <3>2
  <2>3. CASE s \in NonVless
    <3>1. ~IsVless(s) /\ s # "raw" /\ s # "reality"
      BY <2>3 DEF IsVless, NonVless, VlessTransports, TlsLayers, StreamFramings, Datagrams
    <3>2. Has(c, {s}) BY <1>4, <3>1 DEF Has
    <3>3. CASE s = "trojan"
      <4>1. ~Is(c, "trojan", {"empty", "nobody"}) BY <1>0, <3>2, <3>3 DEF validate, TrojanIsValid
      <4> QED BY <1>6, <3>1, <3>3, <4>1 DEF Buildable, trojan_proxy_spec
    <3>4. CASE s = "hysteria2"
      <4>1. ~Is(c, "hysteria2", {"empty", "nobody", "badobfs", "shortobfs", "badsizes"})
        BY <1>0, <3>2, <3>4 DEF validate, Hysteria2IsValid
      <4>2. ~Is(c, "hysteria2", {"salamander", "gecko", "badobfs", "shortobfs", "badsizes", "empty", "nobody"})
        BY <1>3, <3>4, <4>1 DEF Is
      <4> QED BY <1>6, <3>1, <3>4, <4>2 DEF Buildable, hysteria2_proxy_spec
    <3>5. CASE s = "tuic"
      <4>1. ~Is(c, "tuic", {"nobody", "badcc", "empty", "baduuid"}) BY <1>0, <3>2, <3>5 DEF validate, TuicIsValid
      <4>2. ~Is(c, "tuic", {"nobody", "empty"}) BY <4>1 DEF Is
      <4> QED BY <1>6, <3>1, <3>5, <4>2 DEF Buildable, tuic_proxy_spec
    <3>6. CASE s = "mixed" BY <1>6, <3>1, <3>2, <3>6 DEF Buildable, mixed_proxy_spec
    <3>7. CASE s = "naive"
      <4>1. ~Is(c, "naive", {"nobody", "badcred", "badheader"}) BY <1>0, <3>2, <3>7 DEF validate, NaiveIsValid
      <4>2. ~Is(c, "naive", {"nobody", "badcred"}) BY <4>1 DEF Is
      <4> QED BY <1>6, <3>1, <3>7, <4>2 DEF Buildable, naive_proxy_spec
    <3>8. CASE s = "wireguard"
      <4>1. ~Is(c, "wireguard", {"nopeers", "noforwards", "badkey", "badcidr", "badaddress"})
        BY <1>0, <3>2, <3>8 DEF validate, WireGuardIsValid
      <4>2. ~Is(c, "wireguard", {"nokey", "nopeers"}) BY <1>3, <3>8
      <4>3. Buildable(c, s, FALSE) <=>
              ~Is(c, "wireguard", {"nopeers", "badkey", "noip"}) /\ ~Is(c, "wireguard", {"nokey"})
        BY <3>1, <3>8 DEF Buildable, wireguard_proxy_spec
      <4>4. Buildable(c, s, FALSE) <=> ~Is(c, "wireguard", {"noip"}) BY <4>1, <4>2, <4>3 DEF Is
      <4> QED BY <1>6, <3>1, <3>8, <4>4
    <3>9. CASE s = "shadowsocks" BY <1>6, <3>1, <3>2, <3>9 DEF Buildable, shadowsocks_proxy_spec
    <3>10. CASE s = "snell"
      <4>1. ~Is(c, "snell", {"nopsk", "badversion"}) BY <1>0, <3>2, <3>10 DEF validate, SnellIsValid
      <4> QED BY <1>6, <3>1, <3>10, <4>1 DEF Buildable, snell_proxy_spec
    <3> QED BY <1>3, <2>3, <3>3, <3>4, <3>5, <3>6, <3>7, <3>8, <3>9, <3>10 DEF NonVless
  <2> QED BY <1>5, <2>1, <2>2, <2>3 DEF IsVless
<1>9. Buildable(c, s, FALSE) =>
        /\ k.proto = (IF IsVless(s) THEN "vless" ELSE s) /\ k.wire = Wire(s) /\ k.sec = tls_spec(c, s)
        /\ k.verify = ~insecure_skip_verify(c, s)
        /\ k.cred = "own" /\ k.path = TransportPath(c, s) /\ k.obfs = "none"
        /\ k.host = (s \in VlessTransports /\ Is(c, s, {"host"}))
  BY DEF build_wrongcl_import_spec, Client
<1>10. k # NoClient <=> Buildable(c, s, FALSE)
  <2>1. ~Buildable(c, s, FALSE) => k = NoClient BY DEF build_wrongcl_import_spec
  <2> HIDE DEF k
  <2>2. NoClient.proto = "none" BY DEF NoClient
  <2>3. s # "none"
    BY <1>5 DEF NonVless, VlessTransports, TlsLayers, StreamFramings, Datagrams
  <2>4. Buildable(c, s, FALSE) => k.proto # "none" BY <1>9, <2>3
  <2> QED BY <2>1, <2>2, <2>4
<1> HIDE DEF k
\* What the server has signed itself is what the client has to trust and cannot.
<1>11. ASSUME ~incomplete PROVE (k.verify => Trusted(c)) <=> ~SelfSigned(c)
  <2>1. k.verify = ~insecure_skip_verify(c, s) BY <1>8, <1>9, <1>11
  <2> HIDE DEF incomplete, l
  <2>2. \A Q : Is(c, s, Q) <=> s \in DOMAIN c.on /\ c.on[s] \in Q BY DEF Is, Has
  <2>3. SelfSigned(c) <=> \/ s \in {"tls", "trojan"} /\ ~Is(c, s, {"cert", "insecure"})
                          \/ /\ s \in {"websocket", "httpupgrade", "grpc", "xhttp"}
                             /\ Is(c, s, TlsTable \ {"cert", "insecure"})
    BY DEF SelfSigned
  <2>4. Trusted(c) <=> Is(c, s, {"cert"}) BY DEF Trusted
  <2>5. insecure_skip_verify(c, s) <=>
          (tls_spec(c, s) = "tls" => s \in {"meek", "gdocsviewer", "naive"} \/ Is(c, s, {"insecure"}))
    BY DEF insecure_skip_verify
  <2> HIDE DEF s
  <2>6. CASE s \in {"tls", "trojan"}
    <3>1. tls_spec(c, s) = "tls" BY <2>6 DEF tls_spec, StreamFramings
    <3>2. Is(c, s, {"cert", "insecure"}) <=> Is(c, s, {"cert"}) \/ Is(c, s, {"insecure"}) BY <2>2
    <3> QED BY <2>1, <2>3, <2>4, <2>5, <2>6, <3>1, <3>2
  <2>7. CASE s \in {"websocket", "httpupgrade", "grpc", "xhttp"}
    <3>1. tls_spec(c, s) = IF Is(c, s, TlsTable) THEN "tls" ELSE "none"
      BY <2>7 DEF tls_spec, StreamFramings
    <3>2. Is(c, s, TlsTable \ {"cert", "insecure"}) <=>
            Is(c, s, TlsTable) /\ ~Is(c, s, {"cert"}) /\ ~Is(c, s, {"insecure"})
      BY <2>2
    <3> QED BY <2>1, <2>3, <2>4, <2>5, <2>7, <3>1, <3>2
  <2>8. CASE s \notin {"tls", "trojan", "websocket", "httpupgrade", "grpc", "xhttp"}
    <3>1. tls_spec(c, s) = "tls" => s \in {"meek", "gdocsviewer", "naive"}
      BY <2>8 DEF tls_spec, StreamFramings
    <3> QED BY <2>1, <2>3, <2>5, <2>8, <3>1
  <2> QED BY <2>6, <2>7, <2>8
<1>12. ASSUME ~incomplete, \A t \in {"websocket", "httpupgrade", "xhttp"} : ~Is(c, t, {"bare"})
       PROVE  Fits(c, k) <=> (k.verify => Trusted(c))
  <2>1. /\ k.proto = (IF IsVless(s) THEN "vless" ELSE s) /\ k.wire = Wire(s) /\ k.sec = tls_spec(c, s)
        /\ k.cred = "own" /\ k.path = TransportPath(c, s) /\ k.obfs = "none"
        /\ k.host = (s \in VlessTransports /\ Is(c, s, {"host"}))
    BY <1>8, <1>9, <1>12
  <2>2. CASE s \in NonVless
    <3>1. ~IsVless(s) /\ s # "vless" /\ s # "anytls"
      BY <2>2 DEF IsVless, NonVless, VlessTransports, TlsLayers, StreamFramings, Datagrams
    <3>2. l.proto = s /\ l.obfs = "none"
      <4>1. ~Is(c, "hysteria2", {"salamander", "gecko"}) BY <1>3, <1>6 DEF Is
      <4> QED BY <3>1, <4>1, OtherListens
    <3> HIDE DEF l
    <3> QED BY <2>1, <3>1, <3>2 DEF Fits, l
  <2>3. CASE IsVless(s)
    <3>1. /\ l.proto = "vless" /\ l.wire = Wire(s)
          /\ l.sec = IF s \in StreamFramings THEN IF Is(c, s, TlsTable) THEN "tls" ELSE "none"
                     ELSE IF s \in {"quic", "webtransport"} THEN "tls" ELSE IF s \in {"kcp", "raw"} THEN "none" ELSE s
          /\ l.path = IF s = "xhttp" /\ Is(c, s, {"bare"}) THEN "p" ELSE "/p"
          /\ l.host <=> s \in {"websocket", "httpupgrade", "xhttp", "meek", "webtransport"} /\ Is(c, s, {"host"})
          /\ l.known <=> has_vless_users(c) /\ ~Is(c, "reality", {"noshort"})
      BY <1>0, <2>3, VlessListens
    <3> HIDE DEF l
    <3>2. l.known BY <1>12, <2>3, <3>1
    <3>3. k.path = "/p" /\ l.path = "/p" BY <1>12, <2>1, <3>1 DEF TransportPath
    <3>4. l.host => k.host
      BY <2>1, <3>1 DEF VlessTransports, StreamFramings, Datagrams
    <3>5. l.wire \in {"quic", "webtransport"} \/ k.sec = l.sec
      <4>1. CASE s \in StreamFramings
        <5>1. s \notin {"tls", "trojan", "naive", "reality", "anytls", "shadowtls"} BY <4>1 DEF StreamFramings
        <5> QED BY <2>1, <3>1, <4>1, <5>1 DEF tls_spec
      <4>2. CASE s \in TlsLayers
        <5>1. k.sec = s BY <2>1, <4>2 DEF tls_spec, TlsLayers, StreamFramings
        <5>2. l.sec = s BY <3>1, <4>2 DEF TlsLayers, StreamFramings
        <5> QED BY <5>1, <5>2
      <4>3. CASE s \in {"kcp", "raw"}
        <5>1. k.sec = "none" BY <2>1, <4>3 DEF tls_spec, StreamFramings
        <5>2. l.sec = "none" BY <3>1, <4>3 DEF StreamFramings
        <5> QED BY <5>1, <5>2
      <4>4. CASE s \in {"quic", "webtransport"} BY <3>1, <4>4 DEF Wire, TlsLayers, NonVless
      <4> QED BY <2>3, <4>1, <4>2, <4>3, <4>4 DEF IsVless, VlessTransports, Datagrams
    <3> QED BY <2>1, <2>3, <3>1, <3>2, <3>3, <3>4, <3>5 DEF Fits, l
  <2> QED BY <1>5, <2>2, <2>3 DEF IsVless
<1> QED BY <1>2, <1>8, <1>10, <1>12, <1>11

-----------------------------------------------------------------------------
(* What a list of components stands for *)

Known == Inbounds \cup Layers \cup Framings \cup Obfs \cup {"vision", "raw", "tcp"}
Parts ==
  [ok : BOOLEAN, inbound : Inbounds \cup {"none"}, tls_layer : Layers \cup {"none"},
   framing : Framings \cup {"none"}, obfs : Obfs \cup {"none"}, vision : BOOLEAN]

\* v is the one element that the tokens D have of S, or none.
Stands(D, S, v) == D \cap S = IF v = "none" THEN {} ELSE {v}

\* The set is what the tokens D ask for.
Describes(D, s) ==
  /\ s \in Parts /\ s.ok /\ D \subseteq Known
  /\ Stands(D, Inbounds, s.inbound) /\ Stands(D, Layers, s.tls_layer)
  /\ Stands(D, Framings, s.framing) /\ Stands(D, Obfs, s.obfs)
  /\ s.vision <=> "vision" \in D

\* The tokens D cannot go together, whatever comes with them.
Clash(D) ==
  \/ ~(D \subseteq Known)
  \/ \E S \in {Inbounds, Layers, Framings, Obfs} : \E a, b \in D \cap S : a # b

LEMMA Apart ==
  /\ Inbounds \cap Layers = {} /\ Inbounds \cap Framings = {} /\ Inbounds \cap Obfs = {}
  /\ Layers \cap Framings = {} /\ Layers \cap Obfs = {} /\ Framings \cap Obfs = {}
  /\ \A x \in {"vision", "raw", "tcp", "none"} :
       x \notin Inbounds /\ x \notin Layers /\ x \notin Framings /\ x \notin Obfs
  /\ "vision" # "raw" /\ "vision" # "tcp"
BY DEF Inbounds, Layers, Framings, Obfs

LEMMA StartDescribes == Describes({}, Empty)
BY DEF Describes, Stands, Empty, Parts

\* One more token of a part: the part is set, or the token does not fit.
LEMMA PartSet ==
  ASSUME NEW D, NEW S, NEW v, NEW w \in S, Stands(D, S, v), "none" \notin S
  PROVE  /\ v \in {"none", w} => Stands(D \cup {w}, S, w)
         /\ v \notin {"none", w} => \E a, b \in (D \cup {w}) \cap S : a # b
BY DEF Stands

LEMMA OtherPart ==
  ASSUME NEW D, NEW S, NEW v, NEW w, w \notin S, Stands(D, S, v)
  PROVE  Stands(D \cup {w}, S, v)
BY DEF Stands

LEMMA AddToken ==
  ASSUME NEW D, NEW s, Describes(D, s), NEW token
  PROVE  /\ component_add(s, token).ok => Describes(D \cup {token}, component_add(s, token))
         /\ ~component_add(s, token).ok => Clash(D \cup {token})
<1> DEFINE n == component_add(s, token)   E == D \cup {token}
<1>1. s \in Parts /\ s.ok BY DEF Describes
<1>2. D \subseteq Known /\ (s.vision <=> "vision" \in D) BY DEF Describes
<1>3. /\ Stands(D, Inbounds, s.inbound) /\ Stands(D, Layers, s.tls_layer)
      /\ Stands(D, Framings, s.framing) /\ Stands(D, Obfs, s.obfs)
  BY DEF Describes
<1>4. CASE token \in Inbounds
  <2>1. n = Set(s, "inbound", token) BY <1>4 DEF component_add, set_inbound, Inbounds
  <2>2. /\ n \in Parts /\ n.inbound = token /\ n.tls_layer = s.tls_layer /\ n.framing = s.framing
        /\ n.obfs = s.obfs /\ n.vision = s.vision /\ (n.ok <=> s.inbound \in {"none", token})
    BY <1>1, <1>4, <2>1 DEF Set, Parts
  <2> HIDE DEF n
  <2>3. E \subseteq Known /\ ("vision" \in E <=> "vision" \in D) BY <1>2, <1>4, Apart DEF Known
  <2>4. Stands(E, Layers, s.tls_layer) /\ Stands(E, Framings, s.framing) /\ Stands(E, Obfs, s.obfs)
    BY <1>3, <1>4, Apart, OtherPart
  <2>5. n.ok => Describes(E, n)
    <3>1. n.ok => Stands(E, Inbounds, n.inbound) BY <1>3, <1>4, <2>2, Apart, PartSet
    <3> QED BY <1>2, <2>2, <2>3, <2>4, <3>1 DEF Describes
  <2>6. ~n.ok => Clash(E)
    <3>1. "none" \notin Inbounds /\ Stands(D, Inbounds, s.inbound) BY <1>3, Apart
    <3>2. s.inbound \notin {"none", token} => \E a, b \in (D \cup {token}) \cap Inbounds : a # b
      BY <1>4, <3>1 DEF Stands
    <3> QED BY <2>2, <3>2 DEF Clash
  <2> QED BY <2>5, <2>6 DEF n
<1>5. CASE token \in Layers
  <2>1. n = Set(s, "tls_layer", token) BY <1>5 DEF component_add, set_tls_layer, Layers
  <2>2. /\ n \in Parts /\ n.inbound = s.inbound /\ n.tls_layer = token /\ n.framing = s.framing
        /\ n.obfs = s.obfs /\ n.vision = s.vision /\ (n.ok <=> s.tls_layer \in {"none", token})
    BY <1>1, <1>5, <2>1 DEF Set, Parts
  <2> HIDE DEF n
  <2>3. E \subseteq Known /\ ("vision" \in E <=> "vision" \in D) BY <1>2, <1>5, Apart DEF Known
  <2>4. Stands(E, Inbounds, s.inbound) /\ Stands(E, Framings, s.framing) /\ Stands(E, Obfs, s.obfs)
    BY <1>3, <1>5, Apart, OtherPart
  <2>5. n.ok => Describes(E, n)
    <3>1. n.ok => Stands(E, Layers, n.tls_layer) BY <1>3, <1>5, <2>2, Apart, PartSet
    <3> QED BY <1>2, <2>2, <2>3, <2>4, <3>1 DEF Describes
  <2>6. ~n.ok => Clash(E)
    <3>1. "none" \notin Layers /\ Stands(D, Layers, s.tls_layer) BY <1>3, Apart
    <3>2. s.tls_layer \notin {"none", token} => \E a, b \in (D \cup {token}) \cap Layers : a # b
      BY <1>5, <3>1 DEF Stands
    <3> QED BY <2>2, <3>2 DEF Clash
  <2> QED BY <2>5, <2>6 DEF n
<1>6. CASE token \in Framings
  <2>1. n = Set(s, "framing", token) BY <1>6 DEF component_add, set_framing, Framings
  <2>2. /\ n \in Parts /\ n.inbound = s.inbound /\ n.tls_layer = s.tls_layer /\ n.framing = token
        /\ n.obfs = s.obfs /\ n.vision = s.vision /\ (n.ok <=> s.framing \in {"none", token})
    BY <1>1, <1>6, <2>1 DEF Set, Parts
  <2> HIDE DEF n
  <2>3. E \subseteq Known /\ ("vision" \in E <=> "vision" \in D) BY <1>2, <1>6, Apart DEF Known
  <2>4. Stands(E, Inbounds, s.inbound) /\ Stands(E, Layers, s.tls_layer) /\ Stands(E, Obfs, s.obfs)
    BY <1>3, <1>6, Apart, OtherPart
  <2>5. n.ok => Describes(E, n)
    <3>1. n.ok => Stands(E, Framings, n.framing) BY <1>3, <1>6, <2>2, Apart, PartSet
    <3> QED BY <1>2, <2>2, <2>3, <2>4, <3>1 DEF Describes
  <2>6. ~n.ok => Clash(E)
    <3>1. "none" \notin Framings /\ Stands(D, Framings, s.framing) BY <1>3, Apart
    <3>2. s.framing \notin {"none", token} => \E a, b \in (D \cup {token}) \cap Framings : a # b
      BY <1>6, <3>1 DEF Stands
    <3> QED BY <2>2, <3>2 DEF Clash
  <2> QED BY <2>5, <2>6 DEF n
<1>7. CASE token \in Obfs
  <2>1. n = Set(s, "obfs", token) BY <1>7 DEF component_add, set_hysteria_obfs, Obfs
  <2>2. /\ n \in Parts /\ n.inbound = s.inbound /\ n.tls_layer = s.tls_layer /\ n.framing = s.framing
        /\ n.obfs = token /\ n.vision = s.vision /\ (n.ok <=> s.obfs \in {"none", token})
    BY <1>1, <1>7, <2>1 DEF Set, Parts
  <2> HIDE DEF n
  <2>3. E \subseteq Known /\ ("vision" \in E <=> "vision" \in D) BY <1>2, <1>7, Apart DEF Known
  <2>4. Stands(E, Inbounds, s.inbound) /\ Stands(E, Layers, s.tls_layer) /\ Stands(E, Framings, s.framing)
    BY <1>3, <1>7, Apart, OtherPart
  <2>5. n.ok => Describes(E, n)
    <3>1. n.ok => Stands(E, Obfs, n.obfs) BY <1>3, <1>7, <2>2, Apart, PartSet
    <3> QED BY <1>2, <2>2, <2>3, <2>4, <3>1 DEF Describes
  <2>6. ~n.ok => Clash(E)
    <3>1. "none" \notin Obfs /\ Stands(D, Obfs, s.obfs) BY <1>3, Apart
    <3>2. s.obfs \notin {"none", token} => \E a, b \in (D \cup {token}) \cap Obfs : a # b
      BY <1>7, <3>1 DEF Stands
    <3> QED BY <2>2, <3>2 DEF Clash
  <2> QED BY <2>5, <2>6 DEF n
<1>8. CASE token \in {"vision", "raw", "tcp"}
  <2>1. n = IF token = "vision" THEN [s EXCEPT !.vision = TRUE] ELSE s BY <1>8 DEF component_add
  <2>2. /\ n \in Parts /\ n.inbound = s.inbound /\ n.tls_layer = s.tls_layer /\ n.framing = s.framing
        /\ n.obfs = s.obfs /\ n.ok /\ n.vision = (s.vision \/ token = "vision")
    BY <1>1, <2>1 DEF Parts
  <2> HIDE DEF n
  <2>3. E \subseteq Known /\ ("vision" \in E <=> "vision" \in D \/ token = "vision") BY <1>2, <1>8 DEF Known
  <2>4. /\ Stands(E, Inbounds, s.inbound) /\ Stands(E, Layers, s.tls_layer)
        /\ Stands(E, Framings, s.framing) /\ Stands(E, Obfs, s.obfs)
    BY <1>3, <1>8, Apart, OtherPart
  <2> QED BY <1>2, <2>2, <2>3, <2>4 DEF Describes, n
<1>9. CASE token \notin Known
  <2>1. Clash(E) BY <1>9 DEF Clash
  <2>2. n = [s EXCEPT !.ok = FALSE]
    BY <1>9 DEF component_add, Known, Inbounds, Layers, Framings, Obfs
  <2>3. ~n.ok BY <1>1, <2>2 DEF Parts
  <2> QED BY <2>1, <2>3
<1> QED BY <1>4, <1>5, <1>6, <1>7, <1>8, <1>9 DEF Known

\* One, for the sets it is said of.
LEMMA OneMeans ==
  /\ One(Inbounds) <=> \A a, b \in asked \cap Inbounds : a = b
  /\ One(Obfs) <=> \A a, b \in asked \cap Obfs : a = b
  /\ One(Layers \cup Framings) <=> \A a, b \in asked \cap (Layers \cup Framings) : a = b
<1>1. One(Inbounds) <=> \A a, b \in asked \cap Inbounds : a = b BY SmallSets, AtMostOne DEF One
<1>2. One(Obfs) <=> \A a, b \in asked \cap Obfs : a = b BY SmallSets, AtMostOne DEF One
<1>3. One(Layers \cup Framings) <=> \A a, b \in asked \cap (Layers \cup Framings) : a = b
  BY SmallSets, AtMostOne DEF One
<1> QED BY <1>1, <1>2, <1>3

\* Tokens that clash are not cooperative.
LEMMA ClashRefuses == ASSUME NEW D, D \subseteq asked, Clash(D) PROVE ~Cooperative
<1> SUFFICES ASSUME Cooperative PROVE FALSE OBVIOUS
<1>1. asked \subseteq Known BY DEF Cooperative, Known
<1>2. One(Inbounds) /\ One(Obfs) /\ One(Layers \cup Framings) BY DEF Cooperative
<1>3. PICK S \in {Inbounds, Layers, Framings, Obfs} : \E a, b \in D \cap S : a # b
  BY <1>1 DEF Clash
<1> QED BY <1>2, <1>3, OneMeans

\* The set of a list that is complete: VLESS with its layer or framing, or another
\* inbound by itself.
Ready(A, s) ==
  /\ s \in Parts
  /\ \/ /\ s.inbound = "vless" /\ (s.tls_layer = "none" \/ s.framing = "none")
        /\ s.vision => s.tls_layer # "none"
        /\ Stands(A, Layers, s.tls_layer) /\ Stands(A, Framings, s.framing)
        /\ s.vision <=> "vision" \in A
        /\ A \cap (Inbounds \ {"vless"}) = {} /\ A \cap Obfs = {}
     \/ /\ s.inbound \in Inbounds \ {"vless"} /\ A \cap Inbounds = {s.inbound}
        /\ A \cap (Layers \cup Framings \cup {"vision"}) = {}
        /\ s.inbound = "hysteria2" => s.obfs \in Obfs
        /\ A \cap Obfs # {} => s.inbound = "hysteria2" /\ A \cap Obfs = {s.obfs}

\* What validate makes of a set.
LEMMA Completed ==
  ASSUME NEW s \in Parts, s.ok
  PROVE  /\ component_validate(s) \in Parts
         /\ component_validate(s).inbound = IF Layered(s) THEN "vless" ELSE s.inbound
         /\ component_validate(s).tls_layer = s.tls_layer
         /\ component_validate(s).framing = s.framing
         /\ component_validate(s).vision = s.vision
         /\ component_validate(s).obfs =
              IF component_validate(s).inbound = "hysteria2" /\ s.obfs = "none" THEN "gecko" ELSE s.obfs
         /\ component_validate(s).ok <=>
              /\ component_validate(s).inbound # "none"
              /\ Layered(s) => s.inbound \in {"none", "vless"}
              /\ s.obfs # "none" => component_validate(s).inbound = "hysteria2"
              /\ s.tls_layer = "none" \/ s.framing = "none"
              /\ s.vision => s.tls_layer # "none"
<1>1. "vless" \in Inbounds /\ "gecko" \in Obfs BY DEF Inbounds, Obfs
<1> QED BY <1>1 DEF component_validate, Parts, Layered

\* A list is complete exactly if it is cooperative.
LEMMA CompleteIsCooperative ==
  ASSUME NEW s, Describes(asked, s)
  PROVE  /\ component_validate(s).ok <=> Cooperative
         /\ component_validate(s).ok => Ready(asked, component_validate(s))
<1> DEFINE n == component_validate(s)
<1>1. s \in Parts /\ s.ok /\ asked \subseteq Known /\ (s.vision <=> "vision" \in asked) BY DEF Describes
<1>2. /\ Stands(asked, Inbounds, s.inbound) /\ Stands(asked, Layers, s.tls_layer)
      /\ Stands(asked, Framings, s.framing) /\ Stands(asked, Obfs, s.obfs)
  BY DEF Describes
<1>3. /\ n \in Parts /\ n.inbound = IF Layered(s) THEN "vless" ELSE s.inbound
      /\ n.tls_layer = s.tls_layer /\ n.framing = s.framing /\ n.vision = s.vision
      /\ n.obfs = IF n.inbound = "hysteria2" /\ s.obfs = "none" THEN "gecko" ELSE s.obfs
      /\ n.ok <=> /\ n.inbound # "none"
                  /\ Layered(s) => s.inbound \in {"none", "vless"}
                  /\ s.obfs # "none" => n.inbound = "hysteria2"
                  /\ s.tls_layer = "none" \/ s.framing = "none"
                  /\ s.vision => s.tls_layer # "none"
  BY <1>1, Completed
<1> HIDE DEF n
<1>4. One(Inbounds) /\ One(Obfs) BY <1>2, OneMeans DEF Stands
<1>5. One(Layers \cup Framings) <=> s.tls_layer = "none" \/ s.framing = "none"
  <2>1. CASE s.tls_layer = "none" \/ s.framing = "none" BY <1>2, <2>1, OneMeans DEF Stands
  <2>2. CASE s.tls_layer # "none" /\ s.framing # "none"
    <3>1. s.tls_layer \in asked \cap Layers /\ s.framing \in asked \cap Framings BY <1>2, <2>2 DEF Stands
    <3> QED BY <2>2, <3>1, OneMeans, Apart
  <2> QED BY <2>1, <2>2
<1>6. Layered(s) <=> asked \cap (Layers \cup Framings \cup {"vision"}) # {}
  BY <1>1, <1>2 DEF Layered, Stands
<1>7. asked \cap (Inbounds \ {"vless"}) = {} <=> s.inbound \in {"none", "vless"}
  BY <1>2 DEF Stands
<1>8. asked \cap Obfs # {} <=> s.obfs # "none" BY <1>2 DEF Stands
<1>9. asked \cap Layers # {} <=> s.tls_layer # "none" BY <1>2 DEF Stands
<1>10. asked \cap (Inbounds \cup Layers \cup Framings) # {} <=>
         s.inbound # "none" \/ s.tls_layer # "none" \/ s.framing # "none"
  BY <1>2 DEF Stands
<1>11. "hysteria2" \in asked <=> s.inbound = "hysteria2"
  <2>1. "hysteria2" \in Inbounds BY DEF Inbounds
  <2> QED BY <1>2, <2>1 DEF Stands
<1>12. Cooperative <=>
         /\ s.tls_layer = "none" \/ s.framing = "none"
         /\ s.inbound # "none" \/ s.tls_layer # "none" \/ s.framing # "none"
         /\ Layered(s) => s.inbound \in {"none", "vless"}
         /\ s.obfs # "none" => s.inbound = "hysteria2"
         /\ s.vision => s.tls_layer # "none"
  BY <1>1, <1>4, <1>5, <1>6, <1>7, <1>8, <1>9, <1>10, <1>11 DEF Cooperative, Known
<1>13. n.ok <=> Cooperative
  BY <1>3, <1>12 DEF Layered
<1>14. ASSUME n.ok PROVE Ready(asked, n)
  <2>1. CASE n.inbound = "vless"
    <3>1. s.obfs = "none" BY <1>3, <1>14, <2>1
    <3>2. s.inbound \in {"none", "vless"} BY <1>3, <1>14, <2>1
    <3>3. asked \cap (Inbounds \ {"vless"}) = {} /\ asked \cap Obfs = {} BY <1>7, <1>8, <3>1, <3>2
    <3> QED BY <1>1, <1>2, <1>3, <1>14, <2>1, <3>3 DEF Ready
  <2>2. CASE n.inbound # "vless"
    <3>1. ~Layered(s) /\ n.inbound = s.inbound /\ s.inbound # "none" BY <1>3, <1>14, <2>2
    <3>2. n.inbound \in Inbounds \ {"vless"} /\ asked \cap Inbounds = {n.inbound}
      BY <1>1, <1>2, <2>2, <3>1 DEF Parts, Stands
    <3>3. asked \cap (Layers \cup Framings \cup {"vision"}) = {} BY <1>6, <3>1
    <3>4. n.inbound = "hysteria2" => n.obfs \in Obfs BY <1>1, <1>3 DEF Parts, Obfs
    <3>5. asked \cap Obfs # {} => n.inbound = "hysteria2" /\ asked \cap Obfs = {n.obfs}
      BY <1>2, <1>3, <1>8, <1>14 DEF Stands
    <3> QED BY <1>3, <3>2, <3>3, <3>4, <3>5 DEF Ready
  <2> QED BY <2>1, <2>2
<1> QED BY <1>13, <1>14 DEF n

-----------------------------------------------------------------------------
(* What is rendered *)

LEMMA SingleServed ==
  ASSUME NEW c
  PROVE  /\ DOMAIN c.on = {} => Served(c) = "raw"
         /\ \A s \in Sections : DOMAIN c.on = {s} => Served(c) = s
<1>1. Sections = Aside \cup Listen \cup Experimental BY Orders
<1> QED BY <1>1, ServedIs, ListenerServes

\* What the generator says of a section, where it has the arguments it needs.
Fine == {"plain", "dest", "gecko", "salamander", "badpsk"}

\* A file with one section of VLESS and a user, or of another protocol and none.
Single(c, s) ==
  /\ DOMAIN c.on = {s} /\ c.on[s] \in Fine
  /\ \/ s \in TlsLayers \cup Framings /\ c.user \in {"plain", "vision"}
     \/ s \in NonVless /\ c.user = "nobody"

LEMMA SingleIsValid == ASSUME NEW c, NEW s \in Sections, Single(c, s) PROVE validate(c)
<1> DEFINE q == c.on[s]
<1>1. \A S : Has(c, S) <=> s \in S BY DEF Has, Single
<1>2. \A t, Q : Is(c, t, Q) <=> t = s /\ q \in Q BY <1>1 DEF Is
<1>3. q \in Fine BY DEF Single
<1> HIDE DEF q
<1>4. AtMostOneInbound(c)
  <2>1. \A a, b \in DOMAIN c.on \cap (NonVless \cup {"xhttp"} \cup Experimental) : a = b BY DEF Single
  <2> QED BY <2>1, SmallSets, AtMostOne DEF AtMostOneInbound
<1>5. UsersAreValid(c) BY DEF Single, UsersAreValid
<1>6. Framings \subseteq StreamFramings /\ "meek" \notin Framings /\ "gdocsviewer" \notin Framings
  BY DEF Framings, StreamFramings
<1>7. CASE s \in NonVless /\ c.user = "nobody"
  <2>1. s \notin VlessTransports
    BY <1>7 DEF NonVless, VlessTransports, TlsLayers, StreamFramings, Datagrams
  <2>2. Alone(c) BY <1>1, <1>7, <2>1 DEF Alone, check_non_vless_no_users, has_vless_users,
                                      check_non_vless_no_transports
  <2>3. ShadowsocksIsValid(c) /\ MixedIsValid(c) /\ TrojanIsValid(c)
    BY <1>2, <1>3, <2>2 DEF ShadowsocksIsValid, MixedIsValid, TrojanIsValid, Fine
  <2>4. \A t : s = t => ~Has(c, NonVless \ {t}) BY <1>1
  <2>5. Hysteria2IsValid(c) /\ TuicIsValid(c) /\ VmessIsValid(c)
    BY <1>1, <1>2, <1>3, <2>2, <2>4 DEF Hysteria2IsValid, TuicIsValid, VmessIsValid, Fine
  <2>6. WireGuardIsValid(c) /\ NaiveIsValid(c) /\ SnellIsValid(c)
    BY <1>1, <1>2, <1>3, <2>2, <2>4 DEF WireGuardIsValid, NaiveIsValid, SnellIsValid, Fine
  <2>7. FramingsAreValid(c) /\ DatagramsAreValid(c) /\ ShadowTlsIsValid(c)
    BY <1>1, <2>1 DEF FramingsAreValid, DatagramsAreValid, ShadowTlsIsValid, VlessTransports, TlsLayers
  <2> QED BY <1>4, <1>5, <2>3, <2>5, <2>6, <2>7 DEF validate
<1>8. CASE s \in TlsLayers \cup Framings /\ c.user \in {"plain", "vision"}
  <2>1. s \notin NonVless /\ s \notin Datagrams
    BY <1>8 DEF NonVless, TlsLayers, Framings, Datagrams
  <2>2. has_vless_users(c) BY <1>8 DEF has_vless_users
  <2>3. /\ ShadowsocksIsValid(c) /\ MixedIsValid(c) /\ TrojanIsValid(c) /\ Hysteria2IsValid(c)
        /\ TuicIsValid(c) /\ VmessIsValid(c) /\ WireGuardIsValid(c) /\ NaiveIsValid(c) /\ SnellIsValid(c)
    BY <1>1, <2>1 DEF ShadowsocksIsValid, MixedIsValid, TrojanIsValid, Hysteria2IsValid, TuicIsValid,
           VmessIsValid, WireGuardIsValid, NaiveIsValid, SnellIsValid, NonVless
  <2>4. DatagramsAreValid(c) BY <1>1, <2>1 DEF DatagramsAreValid
  <2>5. FramingsAreValid(c)
    <3> SUFFICES ASSUME NEW t \in StreamFramings, Has(c, {t})
                 PROVE  check_framing_transport(c, t) /\ ~Is(c, t, {"early", "badkey"})
      BY <2>2 DEF FramingsAreValid
    <3>1. t = s BY <1>1
    <3>2. ~Is(c, t, {"early", "badkey"}) BY <1>2, <1>3 DEF Fine
    <3>3. s \notin TlsLayers /\ s \notin {"quic", "kcp"} BY <3>1 DEF TlsLayers, StreamFramings
    <3> QED BY <1>1, <2>1, <3>1, <3>2, <3>3 DEF check_framing_transport
  <2>6. ShadowTlsIsValid(c)
    <3> SUFFICES ASSUME s = "shadowtls"
                 PROVE  /\ ~Has(c, NonVless \cup StreamFramings \cup Datagrams)
                        /\ ~Has(c, {"reality", "anytls", "tls"})
      BY <1>1, <2>2 DEF ShadowTlsIsValid
    <3> QED BY <1>1, <2>1 DEF StreamFramings
  <2> QED BY <1>4, <1>5, <2>3, <2>4, <2>5, <2>6 DEF validate
<1> QED BY <1>7, <1>8 DEF Single

\* Every section of the generator can be parsed, but Shadowsocks with a key that
\* does not fit its method.
LEMMA FineIsParsed ==
  ASSUME NEW s \in Layers \cup Framings \cup NonVless, NEW q \in Fine, s = "shadowsocks" => q # "badpsk"
  PROVE  Parsed(s, q).ok
<1>0. \A sec : Under(sec, q).ok BY DEF Under, Plain, Fine
<1>1. parse_reality_config(q).ok /\ parse_anytls_config(q).ok /\ parse_tls_config(q).ok
  BY <1>0 DEF parse_reality_config, parse_anytls_config, parse_tls_config, Plain, Fine
<1>2. \A sec : /\ [Under(sec, q) EXCEPT !.host = q = "host"].ok
               /\ [Under(sec, q) EXCEPT !.ok = q \notin {"badtoken", "badcert"}].ok
  BY <1>0 DEF Under, Plain, Fine
<1>3. Within(q).ok /\ [Within(q) EXCEPT !.host = q = "host"].ok
  BY <1>0, <1>2 DEF Within
<1>4. [Within(q) EXCEPT !.host = q = "host", !.path = IF q = "bare" THEN "p" ELSE "/p"].ok
  BY <1>0 DEF Within, Under, Plain, Fine
<1>5. /\ parse_ws_config(q).ok /\ parse_httpupgrade_config(q).ok /\ parse_grpc_config(q).ok
      /\ parse_xhttp_config(q).ok
  BY <1>3, <1>4 DEF parse_ws_config, parse_httpupgrade_config, parse_grpc_config, parse_xhttp_config
<1>6. q # "badpsk" => parse_shadowsocks_config(q).ok BY DEF parse_shadowsocks_config, Plain
<1>7. /\ parse_mixed_config(q).ok /\ parse_trojan_config(q).ok /\ parse_hysteria2_config(q).ok
      /\ parse_tuic_config(q).ok /\ parse_vmess_handler_config(q).ok /\ parse_wireguard_config(q).ok
      /\ parse_naive_config(q).ok /\ parse_snell_config(q).ok
  BY <1>0, <1>2 DEF parse_mixed_config, parse_trojan_config, parse_hysteria2_config, parse_tuic_config,
         parse_vmess_handler_config, parse_wireguard_config, parse_naive_config, parse_snell_config, Plain
<1>8. CASE s \in Layers BY <1>1, <1>8 DEF Parsed, Layers
<1>9. CASE s \in Framings BY <1>5, <1>9 DEF Parsed, Framings
<1>10. CASE s \in NonVless BY <1>6, <1>7, <1>10 DEF Parsed, NonVless
<1> QED BY <1>8, <1>9, <1>10

LEMMA EmptyIsValid ==
  ASSUME NEW c, DOMAIN c.on = {}, c.user \in {"plain", "vision"} PROVE validate(c)
<1>1. \A S : ~Has(c, S) BY DEF Has
<1>2. AtMostOneInbound(c)
  <2>1. \A a, b \in DOMAIN c.on \cap (NonVless \cup {"xhttp"} \cup Experimental) : a = b OBVIOUS
  <2> QED BY <2>1, SmallSets, AtMostOne DEF AtMostOneInbound
<1>3. UsersAreValid(c) BY DEF UsersAreValid
<1> QED BY <1>1, <1>2, <1>3 DEF validate, ShadowsocksIsValid, MixedIsValid, TrojanIsValid, Hysteria2IsValid,
      TuicIsValid, VmessIsValid, WireGuardIsValid, NaiveIsValid, SnellIsValid, FramingsAreValid,
      DatagramsAreValid, ShadowTlsIsValid

\* The section that a set is rendered to.
SectionOf(s) ==
  IF s.inbound = "vless" THEN IF s.tls_layer # "none" THEN s.tls_layer ELSE s.framing
  ELSE IF s.inbound \in {"shadowsocks-2022", "shadowsocks-aead"} THEN "shadowsocks" ELSE s.inbound

LEMMA RenderedVless ==
  ASSUME NEW s \in Parts, s.inbound = "vless", s.tls_layer = "none" \/ s.framing = "none", NEW a
  PROVE  /\ render_config(s, a).user = IF s.vision THEN "vision" ELSE "plain"
         /\ IF SectionOf(s) = "none" THEN DOMAIN render_config(s, a).on = {}
            ELSE /\ DOMAIN render_config(s, a).on = {SectionOf(s)}
                 /\ render_config(s, a).on[SectionOf(s)] \in {"dest", "plain"}
<1> DEFINE t == SectionOf(s)   c == render_config(s, a)
           on == IF s.tls_layer # "none" THEN Only(s.tls_layer, "dest")
                 ELSE IF s.framing # "none" THEN Only(s.framing, "plain") ELSE <<>>
           u == IF s.vision THEN "vision" ELSE "plain"
<1>1. c = render_vless(s) BY DEF render_config
<1>2. c = File(on, u) BY <1>1 DEF render_vless
<1>3. CASE t = "none"
  <2>1. s.tls_layer = "none" /\ s.framing = "none" BY <1>3 DEF SectionOf
  <2>2. on = <<>> BY <2>1
  <2> HIDE DEF on, u, c
  <2>3. DOMAIN on = {} BY <2>2
  <2>4. c.on = on /\ c.user = u BY <1>2 DEF File
  <2> QED BY <1>3, <2>3, <2>4 DEF u, c
<1>4. CASE t # "none"
  <2>1. on = Only(t, "dest") \/ on = Only(t, "plain")
    <3>1. CASE s.tls_layer # "none"
      <4>1. t = s.tls_layer BY <3>1 DEF SectionOf
      <4>2. on = Only(s.tls_layer, "dest") BY <3>1
      <4> QED BY <4>1, <4>2
    <3>2. CASE s.tls_layer = "none"
      <4>1. t = s.framing BY <3>2 DEF SectionOf
      <4>2. on = Only(s.framing, "plain") BY <1>4, <3>2, <4>1
      <4> QED BY <4>1, <4>2
    <3> QED BY <3>1, <3>2
  <2> HIDE DEF on, t, u, c
  <2>2. DOMAIN on = {t} /\ on[t] \in {"dest", "plain"} BY <2>1 DEF Only
  <2>3. c.on = on /\ c.user = u BY <1>2 DEF File
  <2> QED BY <1>4, <2>2, <2>3 DEF t, u, c
<1> QED BY <1>3, <1>4

LEMMA RenderedOther ==
  ASSUME NEW s \in Parts, s.inbound \in Inbounds \ {"vless"}, s.inbound = "hysteria2" => s.obfs \in Obfs,
         NEW a \in Arguments
  PROVE  /\ render_config(s, a).user = "nobody"
         /\ SectionOf(s) \in NonVless /\ DOMAIN render_config(s, a).on = {SectionOf(s)}
         /\ \/ render_config(s, a).on[SectionOf(s)] \in Fine
            \/ /\ SectionOf(s) = "shadowsocks" /\ a.method = "unknown"
               /\ render_config(s, a).on[SectionOf(s)] = "badmethod"
            \/ /\ SectionOf(s) = "tuic" /\ a.congestion = "unknown"
               /\ render_config(s, a).on[SectionOf(s)] = "badcc"
         /\ SectionOf(s) # "shadowsocks" => render_config(s, a).on[SectionOf(s)] # "badpsk"
         /\ SectionOf(s) = "hysteria2" => render_config(s, a).on[SectionOf(s)] = s.obfs
<1> DEFINE t == SectionOf(s)   c == render_config(s, a)
<1>1. a.method \in {"exact", "upper", "unknown"} /\ a.congestion \in {"exact", "unknown"}
  BY DEF Arguments
<1>2. t \in NonVless BY DEF SectionOf, Inbounds, NonVless
<1>3. CASE s.inbound \in {"shadowsocks-2022", "shadowsocks-aead"}
  <2> DEFINE q == IF s.inbound = "shadowsocks-aead" \/ a.method = "exact" THEN "plain"
                  ELSE IF a.method = "upper" THEN "badpsk" ELSE "badmethod"
  <2>1. t = "shadowsocks" BY <1>3 DEF SectionOf
  <2>2. c = render_shadowsocks(s, a) BY <1>3 DEF render_config
  <2>3. c = File(Only(t, q), "nobody") BY <2>1, <2>2 DEF render_shadowsocks
  <2>4. q \in {"plain", "badpsk"} \/ (q = "badmethod" /\ a.method = "unknown") BY <1>1
  <2> HIDE DEF q, t, c
  <2>5. DOMAIN c.on = {t} /\ c.on[t] = q /\ c.user = "nobody" BY <2>3 DEF File, Only
  <2> QED BY <1>2, <2>1, <2>4, <2>5 DEF t, c, Fine
<1>4. CASE s.inbound = "tuic"
  <2> DEFINE q == IF a.congestion = "exact" THEN "plain" ELSE "badcc"
  <2>1. t = "tuic" BY <1>4 DEF SectionOf
  <2>2. c = render_tuic(a) BY <1>4 DEF render_config
  <2>3. c = File(Only(t, q), "nobody") BY <2>1, <2>2 DEF render_tuic
  <2>4. q = "plain" \/ (q = "badcc" /\ a.congestion = "unknown") BY <1>1
  <2> HIDE DEF q, t, c
  <2>5. DOMAIN c.on = {t} /\ c.on[t] = q /\ c.user = "nobody" BY <2>3 DEF File, Only
  <2> QED BY <1>2, <2>1, <2>4, <2>5 DEF t, c, Fine
<1>5. CASE s.inbound = "hysteria2"
  <2>1. t = "hysteria2" BY <1>5 DEF SectionOf
  <2>2. c = render_hysteria2(s) BY <1>5 DEF render_config
  <2>3. c = File(Only(t, s.obfs), "nobody") BY <2>1, <2>2 DEF render_hysteria2
  <2>4. s.obfs \in {"gecko", "salamander"} BY <1>5 DEF Obfs
  <2> HIDE DEF t, c
  <2>5. DOMAIN c.on = {t} /\ c.on[t] = s.obfs /\ c.user = "nobody" BY <2>3 DEF File, Only
  <2> QED BY <1>2, <2>1, <2>4, <2>5 DEF t, c, Fine
<1>6. CASE s.inbound \in {"trojan", "vmess", "naive", "snell"}
  <2>1. t = s.inbound BY <1>6 DEF SectionOf
  <2>2. PICK q \in {"plain", "dest"} : c = File(Only(t, q), "nobody")
    BY <1>6, <2>1 DEF render_config, render_trojan, render_vmess_inbound, render_naive, render_snell
  <2> HIDE DEF t, c
  <2>3. DOMAIN c.on = {t} /\ c.on[t] = q /\ c.user = "nobody" BY <2>2 DEF File, Only
  <2> QED BY <1>2, <1>6, <2>1, <2>2, <2>3 DEF t, c, Fine
<1> QED BY <1>3, <1>4, <1>5, <1>6 DEF Inbounds

\* What a complete set is rendered to has known sections only, and is valid unless
\* a name that does not exist was asked for.
LEMMA RenderedIsValid ==
  ASSUME NEW A, NEW s, Ready(A, s), NEW a \in Arguments
  PROVE  /\ DOMAIN render_config(s, a).on \subseteq Sections
         /\ validate(render_config(s, a)) \/ "unknown" \in {a.method, a.congestion}
<1> DEFINE t == SectionOf(s)   c == render_config(s, a)
<1>0. s \in Parts BY DEF Ready
<1>1. CASE s.inbound = "vless"
  <2>1. s.tls_layer = "none" \/ s.framing = "none" BY <1>1 DEF Ready
  <2>2. /\ c.user = IF s.vision THEN "vision" ELSE "plain"
        /\ IF t = "none" THEN DOMAIN c.on = {} ELSE DOMAIN c.on = {t} /\ c.on[t] \in {"dest", "plain"}
    BY <1>0, <1>1, <2>1, RenderedVless
  <2>3. t # "none" => t \in Layers \cup Framings
    BY <1>0, <1>1 DEF SectionOf, Parts
  <2> HIDE DEF t, c
  <2>4. Layers \cup Framings \subseteq Sections /\ Layers \subseteq TlsLayers
    BY DEF Layers, Framings, Sections, VlessTransports, TlsLayers, StreamFramings
  <2>5. c.user \in {"plain", "vision"} BY <2>2
  <2>6. CASE t = "none" BY <2>2, <2>5, <2>6, EmptyIsValid DEF c
  <2>7. CASE t # "none"
    <3>1. t \in Sections /\ Single(c, t) BY <2>2, <2>3, <2>4, <2>5, <2>7 DEF Single, Fine
    <3>2. validate(c) BY <3>1, SingleIsValid
    <3> QED BY <3>1, <3>2 DEF Single, c
  <2> QED BY <2>6, <2>7
<1>2. CASE s.inbound # "vless"
  <2>1. s.inbound \in Inbounds \ {"vless"} /\ (s.inbound = "hysteria2" => s.obfs \in Obfs)
    BY <1>2 DEF Ready
  <2>2. /\ c.user = "nobody" /\ t \in NonVless /\ DOMAIN c.on = {t}
        /\ c.on[t] \in Fine \/ "unknown" \in {a.method, a.congestion}
    BY <1>0, <2>1, RenderedOther
  <2> HIDE DEF t, c
  <2>3. t \in Sections BY <2>2 DEF Sections
  <2>4. c.on[t] \in Fine => Single(c, t) BY <2>2 DEF Single
  <2>5. c.on[t] \in Fine => validate(c) BY <2>3, <2>4, SingleIsValid
  <2> QED BY <2>2, <2>3, <2>5 DEF c
<1> QED BY <1>1, <1>2

\* A server starts from what was rendered, and serves what was asked for.
LEMMA RenderedIsServed ==
  ASSUME NEW s, Ready(asked, s), NEW a \in Arguments, validate(render_config(s, a)),
         file = render_config(s, a), ~Is(file, "shadowsocks", {"badpsk"})
  PROVE  /\ new(file)
         /\ asked \cap Layers # {} => Served(file) \in asked
         /\ asked \cap Framings # {} => Served(file) \in asked
         /\ asked \cap {"trojan", "hysteria2", "tuic", "vmess", "naive", "snell"} # {} =>
              Served(file) \in asked
         /\ "vision" \in asked <=> file.user = "vision"
         /\ asked \cap Obfs # {} => file.on["hysteria2"] \in asked
<1> DEFINE t == SectionOf(s)
<1>0. s \in Parts /\ file = render_config(s, a) BY DEF Ready
<1>1. CASE s.inbound = "vless"
  <2>1. /\ s.tls_layer = "none" \/ s.framing = "none"
        /\ Stands(asked, Layers, s.tls_layer) /\ Stands(asked, Framings, s.framing)
        /\ s.vision <=> "vision" \in asked
        /\ asked \cap (Inbounds \ {"vless"}) = {} /\ asked \cap Obfs = {}
    BY <1>1 DEF Ready
  <2>2. /\ file.user = IF s.vision THEN "vision" ELSE "plain"
        /\ IF t = "none" THEN DOMAIN file.on = {}
           ELSE DOMAIN file.on = {t} /\ file.on[t] \in {"dest", "plain"}
    BY <1>0, <1>1, <2>1, RenderedVless
  <2>3. t # "none" => t \in asked \cap (Layers \cup Framings)
    BY <1>1, <2>1 DEF SectionOf, Stands
  <2>4. t = "none" => asked \cap Layers = {} /\ asked \cap Framings = {}
    BY <1>1, <2>1 DEF SectionOf, Stands
  <2> HIDE DEF t
  <2>5. Layers \cup Framings \subseteq Sections /\ "shadowsocks" \notin Layers \cup Framings
    BY DEF Layers, Framings, Sections, VlessTransports, TlsLayers, StreamFramings
  <2>6. t # "none" => Served(file) = t BY <2>2, <2>3, <2>5, SingleServed
  <2>7. \A u \in DOMAIN file.on : Parsed(u, file.on[u]).ok
    <3> SUFFICES ASSUME NEW u \in DOMAIN file.on PROVE Parsed(u, file.on[u]).ok OBVIOUS
    <3>1. u = t /\ t # "none" /\ file.on[u] \in Fine BY <2>2 DEF Fine
    <3>2. u \in Layers \cup Framings \cup NonVless /\ u # "shadowsocks" BY <2>3, <2>5, <3>1
    <3> QED BY <3>1, <3>2, FineIsParsed
  <2>8. add(file) BY <2>2 DEF add
  <2>9. new(file) BY <1>0, <2>7, <2>8 DEF new
  <2>10. asked \cap {"trojan", "hysteria2", "tuic", "vmess", "naive", "snell"} = {}
    BY <2>1 DEF Inbounds
  <2> QED BY <2>1, <2>2, <2>3, <2>4, <2>6, <2>9, <2>10
<1>2. CASE s.inbound # "vless"
  <2>1. /\ s.inbound \in Inbounds \ {"vless"} /\ (s.inbound = "hysteria2" => s.obfs \in Obfs)
        /\ asked \cap Inbounds = {s.inbound}
        /\ asked \cap (Layers \cup Framings \cup {"vision"}) = {}
        /\ asked \cap Obfs # {} => s.inbound = "hysteria2" /\ asked \cap Obfs = {s.obfs}
    BY <1>2 DEF Ready
  <2>2. /\ file.user = "nobody" /\ t \in NonVless /\ DOMAIN file.on = {t}
        /\ \/ file.on[t] \in Fine
           \/ t = "shadowsocks" /\ file.on[t] = "badmethod"
           \/ t = "tuic" /\ file.on[t] = "badcc"
        /\ t # "shadowsocks" => file.on[t] # "badpsk"
        /\ t = "hysteria2" => file.on[t] = s.obfs
    BY <1>0, <2>1, RenderedOther
  <2>3. t # "shadowsocks" => t = s.inbound BY <1>2 DEF SectionOf
  <2>4. s.inbound = "hysteria2" => t = "hysteria2" BY DEF SectionOf
  <2>5. s.inbound \in {"trojan", "hysteria2", "tuic", "vmess", "naive", "snell"} => t = s.inbound
    BY DEF SectionOf
  <2> HIDE DEF t
  <2>6. Served(file) = t
    <3>1. t \in Sections BY <2>2 DEF Sections
    <3> QED BY <2>2, <3>1, SingleServed
  <2>7. \A S, u : Is(file, u, S) <=> u = t /\ file.on[u] \in S BY <2>2 DEF Is, Has
  <2>8. ~(t = "shadowsocks" /\ file.on[t] = "badmethod") /\ ~(t = "tuic" /\ file.on[t] = "badcc")
    <3>1. ShadowsocksIsValid(file) /\ TuicIsValid(file) BY <1>0 DEF validate
    <3>2. Has(file, {t}) BY <2>2 DEF Has
    <3> QED BY <2>7, <3>1, <3>2 DEF ShadowsocksIsValid, TuicIsValid
  <2>9. file.on[t] \in Fine /\ file.on[t] # "badpsk" BY <2>2, <2>7, <2>8
  <2>10. Parsed(t, file.on[t]).ok BY <2>2, <2>9, FineIsParsed
  <2>11. add(file) BY <2>2 DEF add
  <2>12. new(file) BY <1>0, <2>2, <2>10, <2>11 DEF new
  <2>13. asked \cap {"trojan", "hysteria2", "tuic", "vmess", "naive", "snell"} # {} =>
          s.inbound \in {"trojan", "hysteria2", "tuic", "vmess", "naive", "snell"} /\ s.inbound \in asked
    BY <2>1 DEF Inbounds
  <2>14. asked \cap Obfs # {} => file.on["hysteria2"] \in asked
    BY <2>1, <2>2, <2>4
  <2>15. "vision" \notin asked /\ asked \cap Layers = {} /\ asked \cap Framings = {} BY <2>1
  <2> QED BY <2>2, <2>5, <2>6, <2>12, <2>13, <2>14, <2>15
<1> QED BY <1>1, <1>2

-----------------------------------------------------------------------------
(* The invariant *)

Tokens(q) == {q[i] : i \in 1 .. Len(q)}

\* The generator's set describes the tokens added so far, which with the ones to
\* come are all that the list asks for; a set that has been accepted is complete.
GeneratorInv ==
  /\ args \in Arguments
  /\ items \in Seq(Items) /\ todo \in Seq(Known \cup Items)
  /\ gen = "parsing" => \E D \in SUBSET asked : asked = D \cup Tokens(todo) /\ Describes(D, set)
  /\ gen \in {"opened", "done"} =>
       Ready(asked, set) /\ Cooperative /\ validate(render_config(set, args))
  /\ gen = "done" => file = render_config(set, args)

\* What the server has loaded it had accepted; the WireGuard process is there only
\* for a file that serves it, runs only while the server does, and its keys are
\* there no longer, unless it failed to start.
ServerInv ==
  /\ Readable(file) => DOMAIN file.on \subseteq Sections
  /\ server \in {"starting", "waiting", "up"} => new(conf) /\ DOMAIN conf.on \subseteq Sections
  /\ server \in {"starting", "waiting"} \/ helper # "none" => Served(conf) = "wireguard"
  /\ server \in {"down", "refused", "starting"} => helper = "none"
  /\ helper = "run" => server \in {"waiting", "up"}
  /\ keyfile => helper # "none" /\ (server \in {"waiting", "up"} \/ helper = "failed")

\* What an item is expanded to.
LEMMA ExpandedIs == ASSUME NEW i \in Items PROVE expand_cluster(i) \in Seq(Known \cup Items)
<1>1. /\ i \in {"httpupgrade", "grpc", "xhttp"} => i \in Known
      /\ {"vless", "reality", "vision", "anytls", "tls", "websocket", "hysteria2", "gecko", "salamander",
          "shadowsocks-2022", "trojan"} \subseteq Known
  BY DEF Known, Inbounds, Layers, Framings, Obfs
<1> DEFINE T == Known \cup Items
<1>2. {"vless", "reality", "vision", "anytls", "tls", "websocket", "hysteria2", "gecko", "salamander",
       "shadowsocks-2022", "trojan", i} \subseteq T
  BY <1>1
<1> HIDE DEF T
<1>3. /\ <<"vless", "reality", "vision">> \in Seq(T) /\ <<"vless", "anytls", "vision">> \in Seq(T)
      /\ <<"vless", "tls", "vision">> \in Seq(T) /\ <<"vless", "websocket">> \in Seq(T)
      /\ <<"vless", i>> \in Seq(T)
  BY <1>2
<1>4. /\ <<"hysteria2", "gecko">> \in Seq(T) /\ <<"hysteria2", "salamander">> \in Seq(T)
      /\ <<"shadowsocks-2022">> \in Seq(T) /\ <<"trojan">> \in Seq(T)
      /\ <<"vless">> \in Seq(T) /\ <<i>> \in Seq(T)
  BY <1>2
<1> QED BY <1>3, <1>4 DEF expand_cluster, T

\* The tokens of two sequences, and of what is left of one.
LEMMA TokensOfBoth == ASSUME NEW T, NEW p \in Seq(T), NEW q \in Seq(T)
                      PROVE  Tokens(p \o q) = Tokens(p) \cup Tokens(q)
<1> DEFINE s == p \o q   m == Len(p)   n == Len(q)
<1>1. m \in Nat /\ n \in Nat /\ Len(s) = m + n BY ConcatProperties
<1>2. \A i \in 1 .. m + n : s[i] = IF i <= m THEN p[i] ELSE q[i - m] BY ConcatProperties
<1> HIDE DEF s, m, n
<1>3. ASSUME NEW x \in Tokens(s) PROVE x \in Tokens(p) \cup Tokens(q)
  <2>1. PICK i \in 1 .. m + n : x = s[i] BY <1>1, <1>3 DEF Tokens
  <2>2. CASE i <= m
    <3>1. i \in 1 .. m BY <1>1, <2>1, <2>2
    <3> QED BY <1>2, <2>1, <2>2, <3>1 DEF Tokens, m
  <2>3. CASE ~(i <= m)
    <3>1. i - m \in 1 .. n BY <1>1, <2>1, <2>3
    <3> QED BY <1>2, <2>1, <2>3, <3>1 DEF Tokens, n
  <2> QED BY <2>2, <2>3
<1>4. ASSUME NEW x \in Tokens(p) PROVE x \in Tokens(s)
  <2>1. PICK i \in 1 .. m : x = p[i] BY <1>4 DEF Tokens, m
  <2>2. i \in 1 .. m + n /\ i <= m BY <1>1, <2>1
  <2>3. x = s[i] BY <1>2, <2>1, <2>2
  <2> QED BY <1>1, <2>2, <2>3 DEF Tokens
<1>5. ASSUME NEW x \in Tokens(q) PROVE x \in Tokens(s)
  <2>1. PICK i \in 1 .. n : x = q[i] BY <1>5 DEF Tokens, n
  <2>2. m + i \in 1 .. m + n /\ ~(m + i <= m) /\ (m + i) - m = i BY <1>1, <2>1
  <2>3. x = s[m + i] BY <1>2, <2>1, <2>2
  <2> QED BY <1>1, <2>2, <2>3 DEF Tokens
<1> QED BY <1>3, <1>4, <1>5 DEF s

LEMMA TokensOfTail == ASSUME NEW T, NEW p \in Seq(T), p # <<>>
                      PROVE  /\ Tail(p) \in Seq(T) /\ Head(p) \in T
                             /\ Tokens(p) = {Head(p)} \cup Tokens(Tail(p))
<1> DEFINE s == Tail(p)   n == Len(p)
<1>1. n \in Nat /\ n >= 1 /\ Head(p) = p[1] /\ s \in Seq(T) /\ Len(s) = n - 1 /\ Head(p) \in T
  BY HeadTailProperties, EmptySeq
<1>2. \A i \in 1 .. n - 1 : s[i] = p[i + 1] BY HeadTailProperties
<1> HIDE DEF s, n
<1>3. ASSUME NEW x \in Tokens(p) PROVE x \in {Head(p)} \cup Tokens(s)
  <2>1. PICK i \in 1 .. n : x = p[i] BY <1>3 DEF Tokens, n
  <2>2. CASE i = 1 BY <1>1, <2>1, <2>2
  <2>3. CASE i # 1
    <3>1. i - 1 \in 1 .. n - 1 /\ (i - 1) + 1 = i BY <1>1, <2>1, <2>3
    <3> QED BY <1>1, <1>2, <2>1, <3>1 DEF Tokens
  <2> QED BY <2>2, <2>3
<1>4. Head(p) \in Tokens(p)
  <2>1. 1 \in 1 .. n BY <1>1
  <2> QED BY <1>1, <2>1 DEF Tokens, n
<1>5. ASSUME NEW x \in Tokens(s) PROVE x \in Tokens(p)
  <2>1. PICK i \in 1 .. n - 1 : x = s[i] BY <1>1, <1>5 DEF Tokens
  <2>2. i + 1 \in 1 .. n BY <1>1, <2>1
  <2> QED BY <1>2, <2>1, <2>2 DEF Tokens, n
<1> QED BY <1>1, <1>3, <1>4, <1>5 DEF s

LEMMA NoTokens == Tokens(<<>>) = {}
BY DEF Tokens

\* While it parses, what the generator has left of its list is described.
LEMMA ParsedIs ==
  ASSUME GeneratorInv, gen = "parsing"
  PROVE  /\ todo # <<>> =>
              LET s == component_add(set, Head(todo)) IN
              /\ s.ok => \E D \in SUBSET asked : asked = D \cup Tokens(Tail(todo)) /\ Describes(D, s)
              /\ ~s.ok => ~Cooperative
         /\ todo = <<>> => Describes(asked, set)
<1>1. PICK D \in SUBSET asked : asked = D \cup Tokens(todo) /\ Describes(D, set) BY DEF GeneratorInv
<1>2. todo \in Seq(Known \cup Items) BY DEF GeneratorInv
<1>3. ASSUME todo # <<>>
      PROVE  LET s == component_add(set, Head(todo)) IN
             /\ s.ok => \E E \in SUBSET asked : asked = E \cup Tokens(Tail(todo)) /\ Describes(E, s)
             /\ ~s.ok => ~Cooperative
  <2> DEFINE s == component_add(set, Head(todo))   E == D \cup {Head(todo)}
  <2>1. Tokens(todo) = {Head(todo)} \cup Tokens(Tail(todo)) BY <1>2, <1>3, TokensOfTail
  <2>2. (s.ok => Describes(E, s)) /\ (~s.ok => Clash(E)) BY <1>1, AddToken
  <2> HIDE DEF s
  <2>3. asked = E \cup Tokens(Tail(todo)) /\ E \in SUBSET asked BY <1>1, <2>1
  <2>4. Clash(E) => ~Cooperative BY <2>3, ClashRefuses
  <2> QED BY <2>2, <2>3, <2>4 DEF s
<1>4. todo = <<>> => Describes(asked, set)
  <2>1. todo = <<>> => asked = D BY <1>1, NoTokens
  <2> QED BY <1>1, <2>1
<1> QED BY <1>3, <1>4

LEMMA GeneratorHolds == Spec => []GeneratorInv
<1>1. Init => GeneratorInv
  <2> SUFFICES ASSUME Init PROVE GeneratorInv OBVIOUS
  <2>1. todo = <<>> /\ asked = {} /\ set = Empty /\ gen \in {"idle", "parsing"} BY DEF Init
  <2>2. args \in Arguments BY DEF Init, Arguments, Defaults
  <2>3. items \in Seq(Items)
    <3>1. CASE items = <<>> BY <3>1
    <3>2. CASE items \in Lists
      <4>1. PICK n \in 1 .. MaxItems : items \in [1 .. n -> Items] BY <3>2 DEF Lists
      <4>2. n \in Nat BY <4>1, ConfigAssumption
      <4> QED BY <4>1, <4>2
    <3> QED BY <3>1, <3>2 DEF Init
  <2>4. todo \in Seq(Known \cup Items) BY <2>1
  <2>5. {} \in SUBSET asked /\ asked = {} \cup Tokens(todo) BY <2>1, NoTokens
  <2>6. Describes({}, set) BY <2>1, StartDescribes
  <2> QED BY <2>1, <2>2, <2>3, <2>4, <2>5, <2>6 DEF GeneratorInv
<1>2. GeneratorInv /\ [Next]_vars => GeneratorInv'
  <2> SUFFICES ASSUME GeneratorInv, [Next]_vars PROVE GeneratorInv' OBVIOUS
  <2>0. args \in Arguments /\ items \in Seq(Items) /\ todo \in Seq(Known \cup Items) BY DEF GeneratorInv
  <2>1. CASE UNCHANGED <<genVars, file>>
    BY <2>1 DEF genVars, GeneratorInv, Cooperative, One
  <2>2. CASE ExpandItem
    <3> DEFINE tokens == expand_cluster(Head(items))
    <3>1. gen = "parsing" /\ gen' = "parsing" /\ items # <<>> /\ set' = set /\ args' = args
          /\ items' = Tail(items) /\ todo' = todo \o tokens /\ asked' = asked \cup Tokens(tokens)
      BY <2>2 DEF ExpandItem, Tokens
    <3>2. items' \in Seq(Items) /\ Head(items) \in Items BY <2>0, <3>1, TokensOfTail
    <3>3. tokens \in Seq(Known \cup Items) BY <3>2, ExpandedIs
    <3> HIDE DEF tokens
    <3>4. todo' \in Seq(Known \cup Items) /\ Tokens(todo') = Tokens(todo) \cup Tokens(tokens)
      <4>1. todo \o tokens \in Seq(Known \cup Items) BY <2>0, <3>3, ConcatProperties
      <4>2. Tokens(todo \o tokens) = Tokens(todo) \cup Tokens(tokens) BY <2>0, <3>3, TokensOfBoth
      <4> QED BY <3>1, <4>1, <4>2
    <3>5. PICK D \in SUBSET asked : asked = D \cup Tokens(todo) /\ Describes(D, set)
      BY <3>1 DEF GeneratorInv
    <3>6. D \in SUBSET asked' /\ asked' = D \cup Tokens(todo') /\ Describes(D, set')
      BY <3>1, <3>4, <3>5
    <3> QED BY <2>0, <3>1, <3>2, <3>4, <3>6 DEF GeneratorInv
  <2>3. CASE Add
    <3> DEFINE s == component_add(set, Head(todo))
    <3>1. /\ gen = "parsing" /\ todo # <<>> /\ set' = s /\ todo' = Tail(todo)
          /\ gen' = IF s.ok THEN gen ELSE "refused"
          /\ items' = items /\ asked' = asked /\ args' = args
      BY <2>3 DEF Add
    <3>2. s.ok => \E D \in SUBSET asked : asked = D \cup Tokens(Tail(todo)) /\ Describes(D, s)
      BY <3>1, ParsedIs
    <3>3. Tail(todo) \in Seq(Known \cup Items) BY <2>0, <3>1, TokensOfTail
    <3> HIDE DEF s
    <3>4. gen' = "parsing" => \E D \in SUBSET asked' : asked' = D \cup Tokens(todo') /\ Describes(D, set')
      BY <3>1, <3>2
    <3>5. gen' \in {"parsing", "refused"} BY <3>1
    <3> QED BY <2>0, <3>1, <3>3, <3>4, <3>5 DEF GeneratorInv
  <2>4. CASE Open
    <3> DEFINE s == component_validate(set)
    <3>1. gen = "parsing" /\ todo = <<>> /\ set' = s /\ todo' = todo /\ items' = items /\ asked' = asked
          /\ args' = args
      BY <2>4 DEF Open
    <3>2. \/ gen' = "refused"
          \/ gen' = "opened" /\ s.ok /\ validate(render_config(s, args))
      BY <2>4 DEF Open, validate_rendered
    <3>3. Describes(asked, set) BY <3>1, ParsedIs
    <3>4. s.ok => Cooperative /\ Ready(asked, s) BY <3>3, CompleteIsCooperative
    <3> HIDE DEF s
    <3>5. Cooperative => Cooperative' BY <3>1 DEF Cooperative, One
    <3> QED BY <2>0, <3>1, <3>2, <3>4, <3>5 DEF GeneratorInv
  <2>5. CASE write_private_file
    <3>1. /\ gen = "opened" /\ items' = items /\ todo' = todo /\ set' = set /\ asked' = asked /\ args' = args
          /\ gen' = "failed" \/ (gen' = "done" /\ file' = render_config(set, args))
      BY <2>5 DEF write_private_file
    <3>2. Ready(asked, set) /\ Cooperative /\ validate(render_config(set, args)) BY <3>1 DEF GeneratorInv
    <3>3. Cooperative' BY <3>1, <3>2 DEF Cooperative, One
    <3> QED BY <2>0, <3>1, <3>2, <3>3 DEF GeneratorInv
  <2>6. CASE load_config \/ request_shutdown \/ StartHelper \/ HelperExits \/ wait_for_helper_start
    BY <2>1, <2>6 DEF load_config, request_shutdown, StartHelper, HelperExits, wait_for_helper_start
  <2>7. CASE Stop \/ AcceptFails \/ Adapt \/ \E f \in ClientFormat : Export(f)
    BY <2>1, <2>7 DEF Stop, AcceptFails, Adapt, Export
  <2>8. CASE UNCHANGED vars BY <2>1, <2>8 DEF vars, genVars
  <2> QED BY <2>2, <2>3, <2>4, <2>5, <2>6, <2>7, <2>8 DEF Next
<1> QED BY <1>1, <1>2, PTL DEF Spec

LEMMA ServerHolds == Spec => []ServerInv
<1>1. Init => ServerInv
  <2> SUFFICES ASSUME Init PROVE ServerInv OBVIOUS
  <2>1. server = "down" /\ helper = "none" /\ keyfile = FALSE BY DEF Init
  <2>2. Readable(file) => DOMAIN file.on \subseteq Sections
    <3>1. CASE file \in Written BY <3>1, ConfigAssumption
    <3>2. CASE file = Missing BY <3>2 DEF Readable
    <3>3. CASE file = File(<<>>, "plain")
      <4>1. file.on = <<>> BY <3>3 DEF File
      <4> QED BY <4>1
    <3> QED BY <3>1, <3>2, <3>3 DEF Init
  <2> QED BY <2>1, <2>2 DEF ServerInv
<1>2. ServerInv /\ GeneratorInv /\ [Next]_vars => ServerInv'
  <2> SUFFICES ASSUME ServerInv, GeneratorInv, [Next]_vars PROVE ServerInv' OBVIOUS
  <2>1. CASE file' = Blank /\ UNCHANGED serverVars
    BY <2>1 DEF ServerInv, serverVars, Readable
  <2>2. CASE UNCHANGED <<file, serverVars>> BY <2>2 DEF ServerInv, serverVars, Readable
  <2>3. CASE write_private_file
    <3>1. CASE gen' = "failed" BY <2>3, <3>1, <2>2 DEF write_private_file
    <3>2. CASE file' = render_config(set, args) /\ gen = "opened" /\ UNCHANGED serverVars
      <4>1. Ready(asked, set) /\ args \in Arguments BY <3>2 DEF GeneratorInv
      <4>2. DOMAIN file'.on \subseteq Sections BY <3>2, <4>1, RenderedIsValid
      <4> QED BY <3>2, <4>2 DEF ServerInv, serverVars
    <3> QED BY <2>3, <3>1, <3>2 DEF write_private_file
  <2>4. CASE load_config
    <3>1. helper' = "none" /\ keyfile' = keyfile /\ ~keyfile /\ file' = file
      BY <2>4 DEF load_config, ServerInv
    <3>2. CASE server' = "refused" BY <2>4, <3>1, <3>2 DEF ServerInv, Readable
    <3>3. CASE server' # "refused"
      <4>1. Readable(file) /\ new(file) /\ conf' = file BY <2>4, <3>3, Zenon DEF load_config
      <4>2. server' \in {"starting", "up"} /\ (server' = "starting" => Served(file) = "wireguard")
        BY <2>4, <4>1 DEF load_config
      <4> QED BY <3>1, <4>1, <4>2 DEF ServerInv, Readable
    <3> QED BY <3>2, <3>3
  <2>5. CASE request_shutdown BY <2>5 DEF request_shutdown, ServerInv, Readable
  <2>6. CASE StartHelper BY <2>6 DEF StartHelper, ServerInv, Readable
  <2>7. CASE HelperExits BY <2>7 DEF HelperExits, ServerInv, Readable
  <2>8. CASE wait_for_helper_start BY <2>8 DEF wait_for_helper_start, ServerInv, Readable
  <2>9. CASE Stop BY <2>9 DEF Stop, terminate_child, ServerInv, Readable
  <2>10. CASE AcceptFails
    <3>1. Served(conf) # "wireguard"
      <4>1. Served(conf) = run_with_listener(conf) BY <2>10 DEF AcceptFails, Served
      <4>2. "wireguard" \notin Listen \cup Experimental \cup {"raw"} BY DEF Listen, Experimental
      <4> QED BY <4>1, <4>2, ListenerServes
    <3>2. helper = "none" BY <3>1 DEF ServerInv
    <3> QED BY <2>10, <3>2 DEF AcceptFails, ServerInv, Readable
  <2>11. CASE \E f \in ClientFormat : Export(f) BY <2>11, <2>2 DEF Export
  <2>12. CASE Adapt BY <2>12, <2>2 DEF Adapt
  <2>13. CASE ExpandItem BY <2>13, <2>2 DEF ExpandItem
  <2>14. CASE Add BY <2>14, <2>2 DEF Add
  <2>15. CASE Open BY <2>15, <2>1, <2>2 DEF Open
  <2>16. CASE UNCHANGED vars BY <2>16, <2>2 DEF vars, serverVars
  <2> QED BY <2>3, <2>4, <2>5, <2>6, <2>7, <2>8, <2>9, <2>10, <2>11, <2>12, <2>13, <2>14, <2>15, <2>16 DEF Next
<1> QED BY <1>1, <1>2, GeneratorHolds, PTL DEF Spec

\* What a tool left behind is what it makes of the file it read; a server that runs
\* has read a file.
ToolInv ==
  /\ out.tool \in ClientFormat /\ Readable(out.of) => out.result = generate_client_config(out.tool, out.of)
  /\ out.tool = "adapt" => out.result = build_wrongcl_adapt_plan(out.of)
  /\ server \in {"starting", "waiting", "up"} => Readable(conf)

LEMMA ToolHolds == Spec => []ToolInv
<1>1. Init => ToolInv
  <2> SUFFICES ASSUME Init PROVE ToolInv OBVIOUS
  <2>1. out.tool = "none" /\ server = "down" BY DEF Init
  <2> QED BY <2>1 DEF ToolInv, ClientFormat
<1>2. ToolInv /\ [Next]_vars => ToolInv'
  <2> SUFFICES ASSUME ToolInv, [Next]_vars PROVE ToolInv' OBVIOUS
  <2>1. CASE UNCHANGED <<out, server, conf>> BY <2>1 DEF ToolInv, Readable, Missing, Blank
  <2>2. CASE load_config
    <3>1. out' = out BY <2>2 DEF load_config
    <3>2. server' \in {"starting", "waiting", "up"} => Readable(conf')
      <4> SUFFICES ASSUME server' \in {"starting", "waiting", "up"} PROVE Readable(conf') OBVIOUS
      <4>1. server' # "refused" OBVIOUS
      <4>2. Readable(file) /\ conf' = file BY <2>2, <4>1, Zenon DEF load_config
      <4> QED BY <4>2
    <3> QED BY <3>1, <3>2 DEF ToolInv, Readable, Missing, Blank
  <2>3. CASE UNCHANGED <<out, conf>> /\ server \in {"starting", "waiting", "up"}
    BY <2>3 DEF ToolInv, Readable, Missing, Blank
  <2>4. CASE Adapt
    <3>1. /\ out' = [tool |-> "adapt", of |-> file, result |-> build_wrongcl_adapt_plan(file)]
          /\ server' = server /\ conf' = conf
      BY <2>4 DEF Adapt, serverVars
    <3>2. out'.tool = "adapt" /\ out'.result = build_wrongcl_adapt_plan(out'.of) BY <3>1
    <3> QED BY <3>1, <3>2 DEF ToolInv, ClientFormat, Readable, Missing, Blank
  <2>5. ASSUME NEW f \in ClientFormat, Export(f) PROVE ToolInv'
    <3>1. /\ out' = [tool |-> f, of |-> file,
                     result |-> IF Readable(file) THEN generate_client_config(f, file)
                                ELSE [DefaultClient(f) EXCEPT !.cred = "default"]]
          /\ server' = server /\ conf' = conf
      BY <2>5 DEF Export, serverVars
    <3>2. /\ out'.tool = f /\ out'.of = file
          /\ Readable(file) => out'.result = generate_client_config(f, file)
      BY <3>1
    <3>3. f # "adapt" BY DEF ClientFormat
    <3> QED BY <3>1, <3>2, <3>3 DEF ToolInv, Readable, Missing, Blank
  <2>6. CASE ExpandItem \/ Add \/ Open \/ write_private_file
    BY <2>1, <2>6 DEF ExpandItem, Add, Open, write_private_file, serverVars
  <2>7. CASE request_shutdown \/ StartHelper \/ HelperExits \/ wait_for_helper_start
    BY <2>1, <2>3, <2>7 DEF request_shutdown, StartHelper, HelperExits, wait_for_helper_start
  <2>8. CASE Stop \/ AcceptFails BY <2>3, <2>8 DEF Stop, AcceptFails
  <2>9. CASE UNCHANGED vars BY <2>1, <2>9 DEF vars
  <2> QED BY <2>2, <2>4, <2>5, <2>6, <2>7, <2>8, <2>9 DEF Next
<1> QED BY <1>1, <1>2, PTL DEF Spec

-----------------------------------------------------------------------------
(* The theorems *)

\* HelperIsGone: whatever ends the server (a signal, the end of the WireGuard
\* process, a listener that fails, a start that fails), it leaves no such process,
\* nor its keys unless it could not be started.
THEOREM HelpersEnd == Spec => []HelperIsGone
<1>1. ServerInv => HelperIsGone BY DEF ServerInv, HelperIsGone
<1> QED BY <1>1, ServerHolds, PTL

\* AcceptedIsServed, for files with any number of sections: what the order of the
\* handlers hides of an accepted file is a second TLS layer or an experimental
\* protocol.
THEOREM NothingIsHidden == Spec => []AcceptedIsServed
<1>1. ServerInv => AcceptedIsServed
  <2> SUFFICES ASSUME ServerInv, server = "up", NEW s \in DOMAIN conf.on, s # Served(conf)
               PROVE  \/ {s, Served(conf)} \subseteq {"reality", "anytls", "tls"}
                      \/ s \in Experimental /\ Served(conf) \in VlessTransports
    BY DEF AcceptedIsServed
  <2>1. validate(conf) /\ DOMAIN conf.on \subseteq Sections BY DEF ServerInv, new
  <2> QED BY <2>1, AcceptedServes
<1> QED BY <1>1, ServerHolds, PTL

\* GeneratedIsServed, for lists of any length and of any items.
THEOREM GeneratedServes == Spec => []GeneratedIsServed
<1>1. GeneratorInv => GeneratedIsServed
  <2> SUFFICES ASSUME GeneratorInv, gen = "done", ~Is(file, "shadowsocks", {"badpsk"}) PROVE GeneratedIsServed
    BY DEF GeneratedIsServed
  <2>1. /\ args \in Arguments /\ Ready(asked, set) /\ validate(render_config(set, args))
        /\ file = render_config(set, args)
    BY DEF GeneratorInv
  <2> QED BY <2>1, RenderedIsServed DEF GeneratedIsServed
<1> QED BY <1>1, GeneratorHolds, PTL

\* RefusedBeforeWriting, for lists of any length, order and items: the file changes
\* only for a list that goes together, and such a list is refused only for a name
\* that does not exist.
THEOREM RefusedUnwritten == Spec => RefusedBeforeWriting
<1> DEFINE A == /\ file' # file => Cooperative
                /\ gen' = "refused" /\ gen # "refused" =>
                     ~Cooperative \/ "unknown" \in {args.method, args.congestion}
<1>1. GeneratorInv /\ [Next]_vars => [A]_vars
  <2> SUFFICES ASSUME GeneratorInv, Next PROVE A OBVIOUS
  <2>1. CASE ExpandItem BY <2>1 DEF ExpandItem
  <2>2. CASE Add
    <3>1. gen = "parsing" /\ todo # <<>> /\ file' = file BY <2>2 DEF Add
    <3>2. gen' = "refused" => ~component_add(set, Head(todo)).ok BY <2>2 DEF Add
    <3>3. ~component_add(set, Head(todo)).ok => ~Cooperative BY <3>1, ParsedIs
    <3> QED BY <3>1, <3>2, <3>3
  <2>3. CASE Open
    <3> DEFINE s == component_validate(set)
    <3>1. gen = "parsing" /\ todo = <<>> /\ args \in Arguments BY <2>3 DEF Open, GeneratorInv
    <3>2. Describes(asked, set) BY <3>1, ParsedIs
    <3>3. (s.ok <=> Cooperative) /\ (s.ok => Ready(asked, s)) BY <3>2, CompleteIsCooperative
    <3>4. IF s.ok /\ validate(render_config(s, args)) THEN gen' = "opened" ELSE gen' = "refused" /\ file' = file
      BY <2>3 DEF Open, validate_rendered
    <3> HIDE DEF s
    <3>5. s.ok => validate(render_config(s, args)) \/ "unknown" \in {args.method, args.congestion}
      BY <3>1, <3>3, RenderedIsValid
    <3> QED BY <3>3, <3>4, <3>5
  <2>4. CASE write_private_file BY <2>4 DEF write_private_file, GeneratorInv
  <2>5. CASE load_config \/ request_shutdown \/ StartHelper \/ HelperExits \/ wait_for_helper_start
    BY <2>5 DEF load_config, request_shutdown, StartHelper, HelperExits, wait_for_helper_start, genVars
  <2>6. CASE Stop \/ AcceptFails \/ Adapt \/ \E f \in ClientFormat : Export(f)
    BY <2>6 DEF Stop, AcceptFails, Adapt, Export, genVars
  <2> QED BY <2>1, <2>2, <2>3, <2>4, <2>5, <2>6 DEF Next
<1> QED BY <1>1, GeneratorHolds, PTL DEF Spec, RefusedBeforeWriting

\* ToolsAgree, for files with any number of sections: what the export and the import
\* take an accepted file for, by their own orders of its sections, is what the server
\* serves of it, and they agree on its networks.
THEOREM ToolsSeeTheServer == Spec => []ToolsAgree
<1>1. ServerInv => ToolsAgree
  <2> SUFFICES ASSUME ServerInv, server = "up" PROVE ToolsAgree BY DEF ToolsAgree
  <2> DEFINE S == Served(conf)   d == detect_profile(conf)   a == active_profile_id(conf)
  <2>1. validate(conf) /\ DOMAIN conf.on \subseteq Sections BY DEF ServerInv, new
  <2>2. /\ d = S \/ (S = "tls" /\ d \in Experimental)
        /\ a = S \/ S \in Experimental
    BY <2>1, ToolsSee
  <2>3. resolve_client_values(conf).endpoint.payload =
          build_endpoint_model(conf, d, Flow(conf) = "vision").payload
    BY DEF resolve_client_values
  <2>4. import_resolution_hint(conf).networks = payload_networks_for(conf, a)
    BY DEF import_resolution_hint
  <2>5. d \in Usual \cup {"raw"} \cup Experimental
    <3>1. "tls" \in Usual BY DEF Usual, VlessTransports, TlsLayers
    <3> QED BY <3>1, Detected
  <2> HIDE DEF S, d, a
  <2>6. CASE d \in Experimental BY <2>2, <2>6 DEF ToolsAgree, S, d, a
  <2>7. CASE d \notin Experimental
    <3>1. d = S /\ a = S /\ d \in Usual \cup {"raw"} BY <2>2, <2>5, <2>7
    <3>2. \/ build_endpoint_model(conf, d, Flow(conf) = "vision").payload = payload_networks_for(conf, d)
          \/ IsVless(d) /\ conf.user = "mute"
          \/ d \in {"quic", "webtransport"} /\ (Is(conf, d, {"noudp"}) \/ active_flow(conf) = "vision")
          \/ d \in {"meek", "gdocsviewer"} /\ active_flow(conf) = "vision"
      BY <3>1, NetworksAgree
    <3>3. \/ resolve_client_values(conf).endpoint.payload = import_resolution_hint(conf).networks
          \/ IsVless(S) /\ conf.user = "mute"
          \/ S \in {"quic", "webtransport"} /\ (Is(conf, S, {"noudp"}) \/ active_flow(conf) = "vision")
          \/ S \in {"meek", "gdocsviewer"} /\ active_flow(conf) = "vision"
      BY <2>3, <2>4, <3>1, <3>2
    <3> QED BY <2>2, <3>3 DEF ToolsAgree, S, d, a
  <2> QED BY <2>6, <2>7
<1> QED BY <1>1, ServerHolds, PTL

\* ExportConnects, for files with any number of sections and any remarks: the client
\* that generate_client_config writes for the file of a running server can use it,
\* in each of the four formats, exactly when the format can say what it needs.
THEOREM ExportsConnect == Spec => []ExportConnects
<1>1. ServerInv /\ ToolInv => ExportConnects
  <2> SUFFICES ASSUME ServerInv, ToolInv, server = "up", out.tool \in ClientFormat, out.of = conf,
                      out.result # NoClient
               PROVE  Fits(conf, out.result) <=> ~Lossy(conf, out.tool)
    BY DEF ExportConnects
  <2>1. new(conf) /\ DOMAIN conf.on \subseteq Sections BY DEF ServerInv
  <2>2. out.result = generate_client_config(out.tool, conf) BY DEF ToolInv
  <2> QED BY <2>1, <2>2, ExportFits
<1> QED BY <1>1, ServerHolds, ToolHolds, PTL

\* AdaptedConnects, for files with any number of sections and any remarks: of the
\* file of a running server that it calls adaptable, build_wrongcl_adapt_plan makes a
\* client unless something is missing that it does not look for, and the client can
\* use the server exactly when it need not trust what the server has signed itself.
THEOREM AdaptationsConnect == Spec => []AdaptedConnects
<1>1. ServerInv /\ ToolInv => AdaptedConnects
  <2> SUFFICES ASSUME ServerInv, ToolInv, server = "up", out.tool = "adapt", out.of = conf,
                      out.result.adaptable, Served(conf) \notin Experimental
               PROVE  AdaptedConnects
    BY DEF AdaptedConnects
  <2>1. new(conf) /\ DOMAIN conf.on \subseteq Sections BY DEF ServerInv
  <2>2. out.result = build_wrongcl_adapt_plan(conf) BY DEF ToolInv
  <2> QED BY <2>1, <2>2, AdaptFits DEF AdaptedConnects
<1> QED BY <1>1, ServerHolds, ToolHolds, PTL

=============================================================================
