-------------------------- MODULE AdmissionProofs --------------------------
(***************************************************************************)
(* The handlers of the server, whatever the length of a message and of the *)
(* body behind it: nobody is served unproved, no byte is lost on the way   *)
(* to a relay or a fallback destination, and how a request is cut into     *)
(* packets decides nothing.                                                *)
(***************************************************************************)
EXTENDS Admission, FiniteSetTheorems, SequenceTheorems, TLAPS

-----------------------------------------------------------------------------
(* What the handlers have in common *)

Fails == {"drop", "refuse", "wire", "plain", "mixed", "blank"}

\* The steps of a handler.
ReadSteps ==
  [op : {"read"}, how : {"once", "second", "until", "exact", "record"}, timed : BOOLEAN,
   over : {"keep", "spoil"}, fragile : BOOLEAN, fail : Fails]
Steps ==
  ReadSteps
    \cup [op : {"check"}, what : Merits \cup {"tcp", "streamed"}, fail : Fails]
    \cup [op : {"count", "reply", "dial"}, fail : Fails]
    \cup [op : {"packets"}, cmd : {"udp", "mux"}, rights : SUBSET Merits, fail : Fails]
    \cup [op : {"relay"}, raw : RelayFunctions, vision : RelayFunctions, passes : BOOLEAN, fail : Fails]

\* A handler ends with its relay.
Ends(p) == Len(p) > 0 /\ \A i \in 1 .. Len(p) : p[i].op = "relay" <=> i = Len(p)

Checks(p, i, what) == p[i].op = "check" /\ p[i].what = what

\* It looks at every handshake and password, and at the user, before it counts,
\* dials or relays datagrams, and asks for the right to datagrams everywhere or
\* nowhere.
ServingOps == {"count", "dial", "packets"}
Vouched(p) ==
  \A i \in 1 .. Len(p) : p[i].op \in ServingOps =>
    /\ \A j \in 1 .. Len(p) : Checks(p, j, "hello") \/ Checks(p, j, "password") => j < i
    /\ (\E j \in 1 .. i - 1 : Checks(p, j, "cred")) \/ p = handle_sing_stream_socks
    /\ \A k \in 1 .. Len(p) : p[i].op = "packets" /\ p[k].op = "packets" /\ p[k].rights # {} =>
         "udp" \in p[i].rights

Exact(p) == \A i \in 1 .. Len(p) : p[i].op = "read" => p[i].how = "exact"

\* It gives the relay what it read too far, or reads nothing too far.
Passing(p) ==
  /\ p[Len(p)].raw.initial = "forward" /\ p[Len(p)].vision.initial \in {"forward", "drop"}
  /\ p[Len(p)].passes \/ Exact(p)

ReadsOf(p, k) == Cardinality({i \in 1 .. k : p[i].op = "read"})
Keeps(p) == \A i \in 1 .. Len(p) : p[i].op = "read" => p[i].how # "record" /\ p[i].over # "spoil"

\* It falls back with all that it has read, as it came or decrypted from the
\* first message inside TLS.
Handing(p) ==
  (p \notin SpiderHandlers /\ \A i \in 1 .. Len(p) : ~Checks(p, i, "password")) =>
    \A i \in 1 .. Len(p) : p[i].fail \notin {"drop", "refuse"} =>
      /\ p[i].fail = "wire" \/ (p[i].fail = "plain" /\ ReadsOf(p, i) = 2)
      /\ Keeps(p)

Sound(p) == p \in Seq(Steps) /\ Ends(p) /\ Vouched(p) /\ Passing(p) /\ Handing(p)

\* If the protocol delimits its request, it reads to the end of it.
Framing(p) ==
  \A i \in 1 .. Len(p) : p[i].op = "read" => p[i].how \in {"until", "exact"} /\ ~p[i].fragile

-----------------------------------------------------------------------------
(* Handlers put together *)

\* The steps of which an opening is made, those that may follow it, those that
\* ask for the right to datagrams or for none, that never fall back, that fall
\* back with the bytes as they came, and that read whole messages.
Openers == {s \in Steps : s.op \in {"read", "check"}}
Later   == {s \in Steps : s.op = "check" => s.what \notin {"hello", "password"}}
Asking  == {s \in Steps : s.op = "packets" => "udp" \in s.rights}
Free    == {s \in Steps : s.op = "packets" => s.rights = {}}
Closers == {s \in Steps : s.fail \in {"drop", "refuse"}}
Wirers  == {s \in Steps : s.fail \in {"drop", "refuse", "wire"}
                          /\ (s.op = "read" => s.how # "record" /\ s.over # "spoil")}
Framers == {s \in Steps : s.op = "read" => s.how \in {"until", "exact"} /\ ~s.fragile}

\* The elements of two sequences, one behind the other.
LEMMA Elements ==
  ASSUME NEW T, NEW p \in Seq(T), NEW q \in Seq(T)
  PROVE  /\ p \o q \in Seq(T) /\ Len(p \o q) = Len(p) + Len(q)
         /\ \A i \in 1 .. Len(p) : (p \o q)[i] = p[i]
         /\ \A i \in 1 .. Len(q) : (p \o q)[Len(p) + i] = q[i]
         /\ \A i \in 1 .. Len(p) + Len(q) :
              i \in 1 .. Len(p) \/ \E j \in 1 .. Len(q) : i = Len(p) + j
<1>1. /\ p \o q \in Seq(T) /\ Len(p \o q) = Len(p) + Len(q)
      /\ \A i \in 1 .. Len(p) + Len(q) : (p \o q)[i] = IF i <= Len(p) THEN p[i] ELSE q[i - Len(p)]
  BY ConcatProperties
<1>2. Len(p) \in Nat /\ Len(q) \in Nat OBVIOUS
<1> DEFINE s == p \o q   m == Len(p)   n == Len(q)
<1> HIDE DEF s, m, n
<1>3. \A i \in 1 .. m : s[i] = p[i] BY <1>1, <1>2 DEF s, m, n
<1>4. ASSUME NEW i \in 1 .. n PROVE s[m + i] = q[i]
  <2>1. m + i \in 1 .. m + n /\ ~(m + i <= m) /\ m + i - m = i BY <1>2 DEF m, n
  <2> QED BY <1>1, <2>1 DEF s, m, n
<1>5. ASSUME NEW i \in 1 .. m + n PROVE i \in 1 .. m \/ \E j \in 1 .. n : i = m + j
  <2>1. CASE i <= m BY <2>1, <1>2 DEF m, n
  <2>2. CASE ~(i <= m)
    <3>1. i - m \in 1 .. n /\ i = m + (i - m) BY <2>2, <1>2 DEF m, n
    <3> QED BY <3>1
  <2> QED BY <2>1, <2>2
<1> QED BY <1>1, <1>3, <1>4, <1>5 DEF s, m, n

\* The elements of a sequence.
LEMMA ElementOf ==
  ASSUME NEW T, NEW p \in Seq(T)
  PROVE  Len(p) \in Nat /\ \A i \in 1 .. Len(p) : p[i] \in T
OBVIOUS

LEMMA InFront ==
  ASSUME NEW T, NEW p \in Seq(T), NEW q \in Seq(T), Len(p) > 0
  PROVE  p \o q \in Seq(T) /\ Len(p \o q) > 0 /\ (p \o q)[1] = p[1]
<1>1. /\ p \o q \in Seq(T) /\ Len(p \o q) = Len(p) + Len(q)
      /\ \A i \in 1 .. Len(p) : (p \o q)[i] = p[i]
  BY Elements
<1>2. Len(p) \in Nat /\ Len(q) \in Nat BY ElementOf
<1> QED BY <1>1, <1>2

LEMMA Wider == ASSUME NEW T, NEW U, T \subseteq U, NEW p \in Seq(T) PROVE p \in Seq(U)
OBVIOUS

\* The relay that ends the second part ends the whole.
LEMMA EndsBehind ==
  ASSUME NEW p \in Seq(Steps), \A i \in 1 .. Len(p) : p[i].op # "relay",
         NEW q \in Seq(Steps), Ends(q)
  PROVE  Ends(p \o q) /\ (p \o q)[Len(p \o q)] = q[Len(q)]
<1> DEFINE s == p \o q   m == Len(p)   n == Len(q)
<1>0. p \in Seq(Steps) /\ q \in Seq(Steps) OBVIOUS
<1>1. /\ Len(s) = m + n /\ \A i \in 1 .. m : s[i] = p[i]
      /\ \A i \in 1 .. n : s[m + i] = q[i]
      /\ \A i \in 1 .. m + n : i \in 1 .. m \/ \E j \in 1 .. n : i = m + j
  BY <1>0, Elements
<1>2. m \in Nat /\ n \in Nat BY ElementOf
<1>3. n > 0 /\ \A i \in 1 .. n : q[i].op = "relay" <=> i = n BY DEF Ends
<1>4. \A i \in 1 .. m : p[i].op # "relay" OBVIOUS
<1> HIDE DEF s, m, n
<1>5. ASSUME NEW i \in 1 .. m + n PROVE s[i].op = "relay" <=> i = m + n
  <2>1. CASE i \in 1 .. m BY <1>1, <1>2, <1>3, <1>4, <2>1
  <2>2. ASSUME NEW j \in 1 .. n, i = m + j PROVE s[i].op = "relay" <=> i = m + n
    <3>1. s[i] = q[j] BY <1>1, <2>2
    <3>2. i = m + n <=> j = n BY <1>2, <2>2
    <3> QED BY <1>3, <3>1, <3>2
  <2> QED BY <1>1, <2>1, <2>2
<1>6. s[m + n] = q[n] BY <1>1, <1>2, <1>3
<1>7. m + n > 0 BY <1>2, <1>3
<1> QED BY <1>1, <1>5, <1>6, <1>7 DEF Ends, s, m, n

\* An opening that looks at who the client is, or a second part that begins with
\* it, makes a handler that serves nobody unproved.
LEMMA VouchedBehind ==
  ASSUME NEW p \in Seq(Openers), NEW q \in Seq(Later), q \in Seq(Asking) \/ q \in Seq(Free),
         \/ \E i \in 1 .. Len(p) : Checks(p, i, "cred")
         \/ Len(q) > 0 /\ Checks(q, 1, "cred")
         \/ p \o q = handle_sing_stream_socks
  PROVE  Vouched(p \o q)
<1> DEFINE s == p \o q   m == Len(p)   n == Len(q)
<1>0. p \in Seq(Steps) /\ q \in Seq(Steps)
  <2>1. Openers \subseteq Steps /\ Later \subseteq Steps BY DEF Openers, Later
  <2> QED BY <2>1, Wider
<1>1. /\ Len(s) = m + n /\ \A i \in 1 .. m : s[i] = p[i]
      /\ \A i \in 1 .. n : s[m + i] = q[i]
      /\ \A i \in 1 .. m + n : i \in 1 .. m \/ \E j \in 1 .. n : i = m + j
  BY <1>0, Elements
<1>2. m \in Nat /\ n \in Nat BY <1>0, ElementOf
<1>3. \A i \in 1 .. m : p[i] \in Openers BY ElementOf
<1>4. \A i \in 1 .. n : q[i] \in Later BY ElementOf
<1>5. (\A i \in 1 .. n : q[i] \in Asking) \/ (\A i \in 1 .. n : q[i] \in Free) BY ElementOf
<1> HIDE DEF s, m, n
<1> SUFFICES ASSUME NEW i \in 1 .. m + n, s[i].op \in ServingOps
             PROVE  /\ \A j \in 1 .. m + n : Checks(s, j, "hello") \/ Checks(s, j, "password") => j < i
                    /\ (\E j \in 1 .. i - 1 : Checks(s, j, "cred")) \/ s = handle_sing_stream_socks
                    /\ \A k \in 1 .. m + n : s[i].op = "packets" /\ s[k].op = "packets" /\ s[k].rights # {} =>
                         "udp" \in s[i].rights
  BY <1>1 DEF Vouched, s, m, n
<1>6. i \notin 1 .. m BY <1>1, <1>3 DEF Openers, ServingOps
<1>7. PICK b \in 1 .. n : i = m + b /\ s[i] = q[b] BY <1>1, <1>6
<1>8. \A j \in 1 .. m + n : Checks(s, j, "hello") \/ Checks(s, j, "password") => j < i
  <2> SUFFICES ASSUME NEW j \in 1 .. m + n, Checks(s, j, "hello") \/ Checks(s, j, "password")
               PROVE  j < i
    OBVIOUS
  <2>1. \A c \in 1 .. n : j # m + c BY <1>1, <1>4 DEF Checks, Later
  <2>2. j \in 1 .. m BY <1>1, <2>1
  <2> QED BY <1>2, <1>7, <2>2
<1>9. (\E j \in 1 .. i - 1 : Checks(s, j, "cred")) \/ s = handle_sing_stream_socks
  <2>1. ASSUME NEW j \in 1 .. m, Checks(p, j, "cred") PROVE j \in 1 .. i - 1 /\ Checks(s, j, "cred")
    <3>1. j \in 1 .. i - 1 BY <1>2, <1>7
    <3> QED BY <1>1, <2>1, <3>1 DEF Checks
  <2>2. ASSUME n > 0, Checks(q, 1, "cred") PROVE m + 1 \in 1 .. i - 1 /\ Checks(s, m + 1, "cred")
    <3>1. s[m + 1] = q[1] BY <1>1, <1>2, <2>2
    <3>2. b # 1 BY <1>7, <2>2 DEF Checks, ServingOps
    <3>3. m + 1 \in 1 .. i - 1 BY <1>2, <1>7, <3>2
    <3> QED BY <2>2, <3>1, <3>3 DEF Checks
  <2> QED BY <2>1, <2>2 DEF s, m, n
<1>10. \A k \in 1 .. m + n : s[i].op = "packets" /\ s[k].op = "packets" /\ s[k].rights # {} =>
         "udp" \in s[i].rights
  <2> SUFFICES ASSUME NEW k \in 1 .. m + n, s[i].op = "packets", s[k].op = "packets", s[k].rights # {}
               PROVE  "udp" \in s[i].rights
    OBVIOUS
  <2>1. k \notin 1 .. m BY <1>1, <1>3 DEF Openers
  <2>2. PICK c \in 1 .. n : s[k] = q[c] BY <1>1, <2>1
  <2> QED BY <1>5, <1>7, <2>2 DEF Asking, Free
<1> QED BY <1>8, <1>9, <1>10

\* A relay step that passes the body on.
Passes(c) ==
  c.passes /\ c.raw.initial = "forward" /\ c.vision.initial \in {"forward", "drop"}

\* An opening and what serves the client behind it.
LEMMA Composed ==
  ASSUME NEW p \in Seq(Openers), NEW q \in Seq(Later), q \in Seq(Asking) \/ q \in Seq(Free),
         Ends(q), Passes(q[Len(q)]),
         \/ \E i \in 1 .. Len(p) : Checks(p, i, "cred")
         \/ Checks(q, 1, "cred")
         \/ p \o q = handle_sing_stream_socks
  PROVE  p \o q \in Seq(Steps) /\ Ends(p \o q) /\ Vouched(p \o q) /\ Passing(p \o q)
<1>1. p \in Seq(Steps) /\ q \in Seq(Steps)
  <2>1. Openers \subseteq Steps /\ Later \subseteq Steps BY DEF Openers, Later
  <2> QED BY <2>1, Wider
<1>2. p \o q \in Seq(Steps) BY <1>1, Elements
<1>3. \A i \in 1 .. Len(p) : p[i].op # "relay"
  <2>1. \A i \in 1 .. Len(p) : p[i] \in Openers BY ElementOf
  <2> QED BY <2>1 DEF Openers
<1>4. Ends(p \o q) /\ (p \o q)[Len(p \o q)] = q[Len(q)] BY <1>1, <1>3, EndsBehind
<1>5. Len(q) > 0 BY DEF Ends
<1>6. Vouched(p \o q) BY <1>5, VouchedBehind
<1> QED BY <1>2, <1>4, <1>6 DEF Passing, Passes

\* Three ways to fall back as a whole: never, with the bytes as they came, or
\* behind a password, where nothing is claimed.
LEMMA Fallbacks ==
  ASSUME NEW s \in Seq(Steps),
         s \in Seq(Closers) \/ s \in Seq(Wirers) \/ \E i \in 1 .. Len(s) : Checks(s, i, "password")
  PROVE  Handing(s)
<1>1. CASE s \in Seq(Closers)
  <2>1. \A i \in 1 .. Len(s) : s[i] \in Closers BY <1>1, ElementOf
  <2> QED BY <2>1 DEF Closers, Handing
<1>2. CASE s \in Seq(Wirers)
  <2>1. \A i \in 1 .. Len(s) : s[i] \in Wirers BY <1>2, ElementOf
  <2> QED BY <2>1 DEF Wirers, Handing, Keeps
<1>3. CASE \E i \in 1 .. Len(s) : Checks(s, i, "password")
  BY <1>3 DEF Handing
<1> QED BY <1>1, <1>2, <1>3

\* The relay functions that handlers end with pass the body on, but relay_vision.
Forwarders == {r \in RelayFunctions : r.initial = "forward"}

LEMMA Forwarding ==
  /\ relay_raw \in Forwarders /\ relay_reality \in Forwarders
  /\ relay_reality_vision \in Forwarders /\ relay_anytls_raw \in Forwarders
  /\ relay_anytls_vision \in Forwarders /\ relay_sing_raw \in Forwarders
  /\ relay_sing_vision \in Forwarders /\ relay_quic_raw \in Forwarders
  /\ relay_quic_vision \in Forwarders /\ relay_wt_raw \in Forwarders
  /\ relay_wt_vision \in Forwarders /\ relay_grpc_raw \in Forwarders
  /\ relay_grpc_vision \in Forwarders /\ relay_xhttp_raw \in Forwarders
  /\ relay_xhttp_vision \in Forwarders /\ relay_ws_raw \in Forwarders
  /\ relay_ws_vision \in Forwarders /\ relay_shadowtls_raw \in Forwarders
  /\ relay_shadowtls_vision \in Forwarders /\ relay_shadowsocks \in Forwarders
  /\ relay_snell \in Forwarders /\ relay_vmess \in Forwarders
  /\ relay_naive \in Forwarders /\ relay_hysteria2_tcp \in Forwarders
  /\ relay_tuic_tcp \in Forwarders /\ relay_brook \in Forwarders
  /\ relay_vision \in RelayFunctions /\ relay_vision.initial = "drop"
<1>1. /\ relay_raw.initial = "forward"
      /\ relay_reality.initial = "forward"
      /\ relay_reality_vision.initial = "forward"
      /\ relay_anytls_raw.initial = "forward"
      /\ relay_anytls_vision.initial = "forward"
      /\ relay_sing_raw.initial = "forward"
      /\ relay_sing_vision.initial = "forward"
  BY DEF TwoThreads, OneLoop, relay_raw, relay_reality, relay_reality_vision,
         relay_anytls_raw, relay_anytls_vision, relay_sing_raw, relay_sing_vision
<1>2. /\ relay_quic_raw.initial = "forward"
      /\ relay_quic_vision.initial = "forward"
      /\ relay_wt_raw.initial = "forward"
      /\ relay_wt_vision.initial = "forward"
      /\ relay_grpc_raw.initial = "forward"
      /\ relay_grpc_vision.initial = "forward"
      /\ relay_xhttp_raw.initial = "forward"
  BY DEF TwoThreads, OneLoop, relay_quic_raw, relay_quic_vision, relay_wt_raw,
         relay_wt_vision, relay_grpc_raw, relay_grpc_vision, relay_xhttp_raw
<1>3. /\ relay_xhttp_vision.initial = "forward"
      /\ relay_ws_raw.initial = "forward"
      /\ relay_ws_vision.initial = "forward"
      /\ relay_shadowtls_raw.initial = "forward"
      /\ relay_shadowtls_vision.initial = "forward"
      /\ relay_shadowsocks.initial = "forward"
      /\ relay_snell.initial = "forward"
  BY DEF TwoThreads, OneLoop, relay_xhttp_vision, relay_ws_raw, relay_ws_vision,
         relay_shadowtls_raw, relay_shadowtls_vision, relay_shadowsocks,
         relay_snell
<1>4. /\ relay_vmess.initial = "forward"
      /\ relay_naive.initial = "forward"
      /\ relay_hysteria2_tcp.initial = "forward"
      /\ relay_tuic_tcp.initial = "forward"
      /\ relay_brook.initial = "forward"
  BY DEF TwoThreads, OneLoop, relay_vmess, relay_naive, relay_hysteria2_tcp,
         relay_tuic_tcp, relay_brook
<1>5. relay_vision.initial = "drop" BY DEF TwoThreads, relay_vision
<1> QED BY <1>1, <1>2, <1>3, <1>4, <1>5 DEF Forwarders, RelayFunctions

\* The steps of a service: it does not fall back, asks for the right to
\* datagrams, and the last step is the relay.
Servers == {s \in Later \cap Asking \cap Closers \cap Wirers : s.op # "relay"}
Serves(q) ==
  /\ Len(q) > 0 /\ q \in Seq(Later \cap Asking \cap Closers \cap Wirers)
  /\ Ends(q) /\ Passes(q[Len(q)])

LEMMA ServesBehind ==
  ASSUME NEW p \in Seq(Servers), NEW q, Serves(q)
  PROVE  /\ Serves(p \o q)
         /\ Len(p) > 0 => (p \o q)[1] = p[1]
<1> DEFINE T == Later \cap Asking \cap Closers \cap Wirers
<1>1. Servers \subseteq T /\ T \subseteq Steps BY DEF Servers, Later
<1>2. p \in Seq(T) /\ q \in Seq(T) BY <1>1, Wider DEF Serves
<1>3. p \in Seq(Steps) /\ q \in Seq(Steps) BY <1>1, <1>2, Wider
<1>4. \A i \in 1 .. Len(p) : p[i].op # "relay"
  <2>1. \A i \in 1 .. Len(p) : p[i] \in Servers BY ElementOf
  <2> QED BY <2>1 DEF Servers
<1>5. Ends(p \o q) /\ (p \o q)[Len(p \o q)] = q[Len(q)] BY <1>3, <1>4, EndsBehind DEF Serves
<1> HIDE DEF T
<1>6. /\ p \o q \in Seq(T) /\ Len(p \o q) = Len(p) + Len(q)
      /\ \A i \in 1 .. Len(p) : (p \o q)[i] = p[i]
  BY <1>2, Elements
<1>7. Len(p) \in Nat /\ Len(q) \in Nat BY <1>2, ElementOf
<1>8. Len(p) > 0 => (p \o q)[1] = p[1] BY <1>6, <1>7
<1>9. Len(p \o q) > 0 BY <1>5 DEF Ends
<1> QED BY <1>5, <1>6, <1>8, <1>9 DEF Serves, T

\* decode_vless_request and the steps that follow it.
LEMMA ServeServes ==
  ASSUME NEW raw \in Forwarders, NEW vision \in Forwarders \cup {relay_vision}
  PROVE  Serves(Serve(raw, vision)) /\ Checks(Serve(raw, vision), 1, "cred")
<1> DEFINE d == <<Demand("cred", "drop")>>
           c == <<Count>>
           v == <<Demand("streamed", "drop")>>
           t == <<Reply, Packets("udp", {"udp"}), Dial("drop"), Carry(raw, vision, TRUE)>>
<1>1. /\ d \in Seq(Servers) /\ c \in Seq(Servers) /\ v \in Seq(Servers)
      /\ Len(d) = 1 /\ d[1] = Demand("cred", "drop")
  BY DEF Demand, Count, Servers, Later, Asking, Closers, Wirers, Steps, ReadSteps, Fails, Merits
<1>2. Serves(t)
  <2>1. /\ raw \in RelayFunctions /\ vision \in RelayFunctions /\ raw.initial = "forward"
        /\ vision.initial \in {"forward", "drop"}
    BY Forwarding DEF Forwarders
  <2>2. t \in Seq(Later \cap Asking \cap Closers \cap Wirers)
    BY <2>1 DEF Reply, Packets, Dial, Carry, Later, Asking, Closers, Wirers, Steps, ReadSteps, Fails, Merits
  <2>3. Ends(t) /\ Passes(t[Len(t)]) /\ Len(t) > 0
    BY <2>1 DEF Reply, Packets, Dial, Carry, Ends, Passes
  <2> QED BY <2>2, <2>3 DEF Serves
<1>3. Serve(raw, vision) = ((d \o c) \o v) \o t
  BY DEF Serve, decode_vless_request, validate_vless_command
<1> HIDE DEF d, c, v, t
<1> DEFINE e == d \o c
           f == e \o v
<1>4. e \in Seq(Servers) /\ Len(e) > 0 /\ e[1] = d[1]
  <2>1. d \in Seq(Servers) /\ c \in Seq(Servers) /\ Len(d) > 0 BY <1>1
  <2> QED BY <2>1, InFront
<1> HIDE DEF e
<1>5. f \in Seq(Servers) /\ Len(f) > 0 /\ f[1] = e[1] BY <1>1, <1>4, InFront
<1> HIDE DEF f
<1>6. Serves(f \o t) /\ (f \o t)[1] = f[1] BY <1>2, <1>5, ServesBehind
<1>7. Serve(raw, vision) = f \o t BY <1>3 DEF e, f
<1> QED BY <1>1, <1>4, <1>5, <1>6, <1>7 DEF Checks, Demand

\* An opening that falls back in one of three ways, and a service behind it.
LEMMA SoundBehind ==
  ASSUME NEW p \in Seq(Openers), NEW q, Serves(q),
         \/ \E i \in 1 .. Len(p) : Checks(p, i, "cred")
         \/ Checks(q, 1, "cred")
         \/ p \o q = handle_sing_stream_socks,
         p \in Seq(Closers) \/ p \in Seq(Wirers) \/ \E i \in 1 .. Len(p) : Checks(p, i, "password")
  PROVE  Sound(p \o q)
<1> DEFINE T == Later \cap Asking \cap Closers \cap Wirers
<1>1. T \subseteq Later /\ T \subseteq Asking /\ T \subseteq Closers /\ T \subseteq Wirers OBVIOUS
<1>2. q \in Seq(T) BY DEF Serves
<1>3. q \in Seq(Later) /\ q \in Seq(Asking) /\ q \in Seq(Closers) /\ q \in Seq(Wirers)
  BY <1>1, <1>2, Wider
<1>4. p \o q \in Seq(Steps) /\ Ends(p \o q) /\ Vouched(p \o q) /\ Passing(p \o q)
  BY <1>3, Composed DEF Serves
<1>5. \/ p \o q \in Seq(Closers) \/ p \o q \in Seq(Wirers)
      \/ \E i \in 1 .. Len(p \o q) : Checks(p \o q, i, "password")
  <2>1. CASE p \in Seq(Closers) BY <1>3, <2>1, Elements
  <2>2. CASE p \in Seq(Wirers) BY <1>3, <2>2, Elements
  <2>3. ASSUME NEW i \in 1 .. Len(p), Checks(p, i, "password")
        PROVE  i \in 1 .. Len(p \o q) /\ Checks(p \o q, i, "password")
    <3>1. Openers \subseteq Steps /\ Later \subseteq Steps BY DEF Openers, Later
    <3>2. p \in Seq(Steps) /\ q \in Seq(Steps) BY <1>3, <3>1, Wider
    <3>3. Len(p \o q) = Len(p) + Len(q) /\ (p \o q)[i] = p[i] BY <3>2, Elements
    <3>4. Len(p) \in Nat /\ Len(q) \in Nat BY <3>2, ElementOf
    <3> QED BY <2>3, <3>3, <3>4 DEF Checks
  <2> QED BY <2>1, <2>2, <2>3
<1>6. Handing(p \o q) BY <1>4, <1>5, Fallbacks
<1> QED BY <1>4, <1>6 DEF Sound

\* Openings that never fall back.
Quiet == Openers \cap Closers

LEMMA QuietOpening ==
  ASSUME NEW p \in Seq(Quiet), NEW q, Serves(q), Checks(q, 1, "cred")
  PROVE  Sound(p \o q)
<1>1. Quiet \subseteq Openers /\ Quiet \subseteq Closers BY DEF Quiet
<1>2. p \in Seq(Openers) /\ p \in Seq(Closers) BY <1>1, Wider
<1> QED BY <1>2, SoundBehind

\* The variants of a read step.
LEMMA ReadVariants ==
  ASSUME NEW r \in ReadSteps, NEW fail \in Fails
  PROVE  /\ Fragile(r) \in ReadSteps /\ Fragile(r).fail = r.fail
         /\ Spoils(r) \in ReadSteps /\ Spoils(r).fail = r.fail
         /\ Else(r, fail) \in ReadSteps /\ Else(r, fail).fail = fail
         /\ Else(r, fail).how = r.how /\ Else(r, fail).over = r.over
BY DEF Else, Spoils, Fragile, ReadSteps

LEMMA Readers ==
  ASSUME NEW how \in {"once", "second", "until", "exact", "record"}, NEW timed \in BOOLEAN
  PROVE  /\ Read(how, timed) \in ReadSteps /\ Read(how, timed).fail = "drop"
         /\ Read(how, timed).how = how /\ Read(how, timed).over = "keep"
BY DEF Read, ReadSteps, Fails

LEMMA ReadersOpen == \A r \in ReadSteps : r \in Openers /\ (r.fail \in {"drop", "refuse"} => r \in Quiet)
BY DEF ReadSteps, Openers, Closers, Quiet, Steps

\* The carriers of VLESS that never fall back.
LEMMA CarriersAreSound ==
  /\ Sound(handle_connection) /\ Sound(handle_tls_connection)
  /\ Sound(handle_vless_over_httpupgrade_raw) /\ Sound(handle_vless_over_httpupgrade_tls)
<1>1. /\ <<Read("once", TRUE)>> \in Seq(Quiet) /\ <<Read("once", FALSE)>> \in Seq(Quiet)
      /\ accept_tls \in Seq(Quiet)
  BY DEF Read, Demand, accept_tls, Quiet, Openers, Closers, Steps, ReadSteps, Fails, Merits
<1>2. Sound(handle_connection)
  BY <1>1, ServeServes, Forwarding, QuietOpening DEF handle_connection
<1>3. Sound(handle_tls_connection)
  <2>1. accept_tls \o <<Read("once", FALSE)>> \in Seq(Quiet) BY <1>1, Elements
  <2> QED BY <2>1, ServeServes, Forwarding, QuietOpening DEF handle_tls_connection
<1>4. Sound(handle_vless_over_httpupgrade_raw)
  <2>1. <<stream_read_upgrade, parse_httpupgrade_request, read_first_vless_chunk>> \in Seq(Quiet)
    BY DEF Read, Demand, stream_read_upgrade, parse_httpupgrade_request, read_first_vless_chunk,
           Quiet, Openers, Closers, Steps, ReadSteps, Fails, Merits
  <2> QED BY <2>1, ServeServes, Forwarding, QuietOpening DEF handle_vless_over_httpupgrade_raw
<1>5. Sound(handle_vless_over_httpupgrade_tls)
  <2> DEFINE f == Fragile(Read("second", FALSE))
  <2>0. f \in Quiet
    <3>1. Read("second", FALSE) \in ReadSteps /\ Read("second", FALSE).fail = "drop" BY Readers
    <3>2. f \in ReadSteps /\ f.fail = "drop" BY <3>1, ReadVariants DEF Fails
    <3> QED BY <3>2, ReadersOpen
  <2> HIDE DEF f
  <2>1. <<Read("until", FALSE), Demand("path", "drop"), f>> \in Seq(Quiet)
    BY <2>0 DEF Read, Demand, Quiet, Openers, Closers, Steps, ReadSteps, Fails, Merits
  <2>2. accept_tls \o <<Read("until", FALSE), Demand("path", "drop"), f>> \in Seq(Quiet)
    BY <1>1, <2>1, Elements
  <2> QED BY <2>2, ServeServes, Forwarding, QuietOpening
       DEF f, handle_vless_over_httpupgrade_tls, read_tls_httpupgrade_headers,
           parse_httpupgrade_request, read_first_vless_chunk
<1> QED BY <1>2, <1>3, <1>4, <1>5

\* The same over WebSocket.
LEMMA WsServes == Serves(handle_vless_over_ws) /\ Checks(handle_vless_over_ws, 1, "cred")
<1> DEFINE d == <<Demand("cred", "drop")>>
           v == <<Demand("streamed", "drop")>>
           t == <<Reply, Packets("udp", {"udp"}), Packets("mux", {"udp"}), Dial("drop"),
                  Carry(relay_ws_raw, relay_ws_vision, TRUE)>>
<1>1. /\ d \in Seq(Servers) /\ v \in Seq(Servers)
      /\ Len(d) = 1 /\ d[1] = Demand("cred", "drop")
  BY DEF Demand, Servers, Later, Asking, Closers, Wirers, Steps, ReadSteps, Fails, Merits
<1>2. Serves(t)
  <2>1. /\ relay_ws_raw \in RelayFunctions /\ relay_ws_raw.initial = "forward"
        /\ relay_ws_vision \in RelayFunctions /\ relay_ws_vision.initial = "forward"
    BY Forwarding DEF Forwarders
  <2>2. t \in Seq(Later \cap Asking \cap Closers \cap Wirers)
    BY <2>1 DEF Reply, Packets, Dial, Carry, Later, Asking, Closers, Wirers, Steps, ReadSteps, Fails,
                Merits
  <2>3. Ends(t) /\ Passes(t[Len(t)]) /\ Len(t) > 0
    BY <2>1 DEF Reply, Packets, Dial, Carry, Ends, Passes
  <2> QED BY <2>2, <2>3 DEF Serves
<1>3. handle_vless_over_ws = (d \o v) \o t
  BY DEF handle_vless_over_ws, decode_vless_request, validate_vless_command
<1> HIDE DEF d, v, t
<1> DEFINE e == d \o v
<1>4. e \in Seq(Servers) /\ Len(e) > 0 /\ e[1] = d[1]
  <2>1. d \in Seq(Servers) /\ v \in Seq(Servers) /\ Len(d) > 0 BY <1>1
  <2> QED BY <2>1, InFront
<1> HIDE DEF e
<1>5. Serves(e \o t) /\ (e \o t)[1] = e[1] BY <1>2, <1>4, ServesBehind
<1>6. handle_vless_over_ws = e \o t BY <1>3 DEF e
<1> QED BY <1>1, <1>4, <1>5, <1>6 DEF Checks, Demand

LEMMA WsHandlersAreSound == Sound(handle_ws_tls) /\ Sound(handle_ws_raw)
<1> DEFINE f == Fragile(Read("once", FALSE))
           o == Spoils(Read("once", FALSE))
           u == Spoils(Read("until", FALSE))
<1>1. f \in Quiet /\ o \in Quiet /\ u \in Quiet
  <2>1. /\ Read("once", FALSE) \in ReadSteps /\ Read("once", FALSE).fail = "drop"
        /\ Read("until", FALSE) \in ReadSteps /\ Read("until", FALSE).fail = "drop"
    BY Readers
  <2>2. f \in ReadSteps /\ f.fail = "drop" BY <2>1, ReadVariants DEF Fails
  <2>3. o \in ReadSteps /\ o.fail = "drop" BY <2>1, ReadVariants DEF Fails
  <2>4. u \in ReadSteps /\ u.fail = "drop" BY <2>1, ReadVariants DEF Fails
  <2> QED BY <2>2, <2>3, <2>4, ReadersOpen
<1> HIDE DEF f, o, u
<1>2. /\ <<Read("until", FALSE), Demand("hello", "drop"), o, Demand("path", "drop")>> \in Seq(Quiet)
      /\ <<f>> \in Seq(Quiet)
      /\ <<u, Demand("path", "drop")>> \in Seq(Quiet)
      /\ <<Read("once", FALSE)>> \in Seq(Quiet)
  BY <1>1 DEF Read, Demand, Quiet, Openers, Closers, Steps, ReadSteps, Fails, Merits
<1>3. upgrade_ws_tls \in Seq(Quiet) /\ upgrade_ws_raw \in Seq(Quiet)
  BY <1>2 DEF upgrade_ws_tls, upgrade_ws_raw, stream_read_upgrade, o, u
<1>4. upgrade_ws_tls \o <<f>> \in Seq(Quiet) /\ upgrade_ws_raw \o <<Read("once", FALSE)>> \in Seq(Quiet)
  BY <1>2, <1>3, Elements
<1> QED BY <1>4, WsServes, QuietOpening DEF handle_ws_tls, handle_ws_raw, f

\* REALITY and ShadowTLS fall back with the bytes as they came.
LEMMA DisguisedAreSound == Sound(handle_reality_connection) /\ Sound(handle_shadowtls_connection)
<1>1. Sound(handle_shadowtls_connection)
  <2>1. /\ accept_shadowtls_stream \in Seq(Openers \cap Wirers)
        /\ <<Read("once", FALSE)>> \in Seq(Openers \cap Wirers)
    BY DEF accept_shadowtls_stream, Read, Demand, Openers, Wirers, Steps, ReadSteps, Fails, Merits
  <2> DEFINE p == accept_shadowtls_stream \o <<Read("once", FALSE)>>
  <2>2. p \in Seq(Openers \cap Wirers) BY <2>1, Elements
  <2> HIDE DEF p
  <2>3. p \in Seq(Openers) /\ p \in Seq(Wirers)
    <3>1. Openers \cap Wirers \subseteq Openers /\ Openers \cap Wirers \subseteq Wirers OBVIOUS
    <3> QED BY <2>2, <3>1, Wider
  <2> QED BY <2>3, ServeServes, Forwarding, SoundBehind DEF handle_shadowtls_connection, p
<1>2. Sound(handle_reality_connection)
  <2> DEFINE f == Spoils(Else(Read("record", TRUE), "wire"))
             p == accept_reality \o <<Read("once", FALSE)>>
             q == Serve(relay_reality, relay_reality_vision)
  <2>1. f \in Openers
    <3>1. Read("record", TRUE) \in ReadSteps BY Readers
    <3>2. Else(Read("record", TRUE), "wire") \in ReadSteps BY <3>1, ReadVariants DEF Fails
    <3>3. f \in ReadSteps BY <3>2, ReadVariants DEF Fails
    <3> QED BY <3>3, ReadersOpen
  <2> HIDE DEF f
  <2>2. <<f, Demand("hello", "wire")>> \in Seq(Openers) /\ <<Read("once", FALSE)>> \in Seq(Openers)
    BY <2>1 DEF Read, Demand, Openers, Steps, ReadSteps, Fails, Merits
  <2>3. p \in Seq(Openers) BY <2>2, Elements DEF accept_reality, f
  <2>4. Serves(q) /\ Checks(q, 1, "cred") BY ServeServes, Forwarding
  <2>5. q \in Seq(Later) /\ q \in Seq(Asking) /\ Ends(q) /\ Passes(q[Len(q)])
    <3> DEFINE T == Later \cap Asking \cap Closers \cap Wirers
    <3>1. T \subseteq Later /\ T \subseteq Asking /\ q \in Seq(T) BY <2>4 DEF Serves
    <3>2. q \in Seq(Later) /\ q \in Seq(Asking) BY <3>1, Wider
    <3> QED BY <2>4, <3>2 DEF Serves
  <2>6. handle_reality_connection = p \o q BY DEF handle_reality_connection
  <2> HIDE DEF p, q
  <2>7. /\ p \o q \in Seq(Steps) /\ Ends(p \o q) /\ Vouched(p \o q) /\ Passing(p \o q)
    BY <2>3, <2>4, <2>5, Composed
  <2>8. Handing(handle_reality_connection) BY DEF Handing, SpiderHandlers
  <2> QED BY <2>6, <2>7, <2>8 DEF Sound
<1> QED BY <1>1, <1>2

Asks(p, what) == \E i \in 1 .. Len(p) : Checks(p, i, what)

LEMMA AsksStill ==
  ASSUME NEW T, NEW p \in Seq(T), NEW q \in Seq(T), NEW what, Asks(p, what) \/ Asks(q, what)
  PROVE  Asks(p \o q, what)
<1> DEFINE s == p \o q   m == Len(p)   n == Len(q)
<1>1. /\ Len(s) = m + n /\ \A i \in 1 .. m : s[i] = p[i]
      /\ \A i \in 1 .. n : s[m + i] = q[i]
  BY Elements
<1>2. m \in Nat /\ n \in Nat BY ElementOf
<1> HIDE DEF s, m, n
<1>3. ASSUME NEW i \in 1 .. m, Checks(p, i, what) PROVE i \in 1 .. m + n /\ Checks(s, i, what)
  <2>1. i \in 1 .. m + n BY <1>2
  <2> QED BY <1>1, <1>3, <2>1 DEF Checks
<1>4. ASSUME NEW i \in 1 .. n, Checks(q, i, what) PROVE m + i \in 1 .. m + n /\ Checks(s, m + i, what)
  <2>1. m + i \in 1 .. m + n BY <1>2
  <2> QED BY <1>1, <1>4, <2>1 DEF Checks
<1>5. Asks(s, what) BY <1>1, <1>3, <1>4 DEF Asks, s, m, n
<1> QED BY <1>5 DEF s

\* The handlers behind the AnyTLS password.
LEMMA AnyTlsHandlersAreSound ==
  Sound(handle_anytls_connection) /\ Sound(handle_sing_stream_socks) /\ Sound(handle_sing_stream_vless)
<1> DEFINE b == Else(Read("until", TRUE), "blank")
           x == Else(Read("exact", FALSE), "mixed")
           a == accept_anytls
           r == <<Read("once", FALSE)>>
           c == complete_settings_handshake
           d == decode_vless_request
<1>1. b \in Openers /\ x \in Openers
  <2>1. Read("until", TRUE) \in ReadSteps /\ Read("exact", FALSE) \in ReadSteps BY Readers
  <2>2. b \in ReadSteps BY <2>1, ReadVariants DEF Fails
  <2>3. x \in ReadSteps BY <2>1, ReadVariants DEF Fails
  <2> QED BY <2>2, <2>3, ReadersOpen
<1> HIDE DEF b, x
<1>2. a \in Seq(Openers) /\ Asks(a, "password")
  <2> DEFINE e == <<b, Demand("hello", "blank"), x, Demand("password", "mixed")>>
  <2>1. a = e BY DEF accept_anytls, b, x
  <2>2. e \in Seq(Openers) BY <1>1 DEF Demand, Openers, Steps, ReadSteps, Fails, Merits
  <2>3. Len(e) = 4 /\ e[4] = Demand("password", "mixed") OBVIOUS
  <2>4. Demand("password", "mixed").op = "check" /\ Demand("password", "mixed").what = "password"
    BY DEF Demand
  <2> HIDE DEF e
  <2>5. Asks(e, "password") BY <2>3, <2>4 DEF Asks, Checks
  <2> QED BY <2>1, <2>2, <2>5
<1>3. /\ r \in Seq(Openers) /\ c \in Seq(Openers) /\ d \in Seq(Openers) /\ Asks(d, "cred")
  BY DEF Read, Demand, complete_settings_handshake, decode_vless_request, Openers, Steps, ReadSteps,
         Fails, Merits, Asks, Checks
<1>4. Sound(handle_anytls_connection)
  <2> DEFINE p == a \o r
  <2>1. p \in Seq(Openers) /\ Asks(p, "password") BY <1>2, <1>3, Elements, AsksStill
  <2> HIDE DEF p
  <2> DEFINE q == Serve(relay_anytls_raw, relay_anytls_vision)
  <2>2. Serves(q) /\ Checks(q, 1, "cred") BY ServeServes, Forwarding
  <2> HIDE DEF q
  <2>3. Sound(p \o q) BY <2>1, <2>2, SoundBehind DEF Asks
  <2> QED BY <2>3 DEF handle_anytls_connection, p, q
<1> DEFINE s == a \o c
<1>5. handle_sing_anytls_session = s BY DEF handle_sing_anytls_session
<1>6. s \in Seq(Openers) /\ Asks(s, "password") BY <1>2, <1>3, Elements, AsksStill
<1> HIDE DEF a, c, s
<1>7. Sound(handle_sing_stream_socks)
  <2> DEFINE q == <<Read("once", FALSE), Demand("header", "drop"), Dial("drop"),
                    Reply, Count, Carry(relay_sing_raw, relay_sing_raw, TRUE)>>
  <2>1. Serves(q)
    <3>1. relay_sing_raw \in RelayFunctions /\ relay_sing_raw.initial = "forward"
      BY Forwarding DEF Forwarders
    <3>2. q \in Seq(Later \cap Asking \cap Closers \cap Wirers)
      BY <3>1 DEF Read, Demand, Reply, Count, Dial, Carry, Later, Asking, Closers, Wirers, Steps,
                  ReadSteps, Fails, Merits
    <3>3. Ends(q) /\ Passes(q[Len(q)]) /\ Len(q) > 0
      BY <3>1 DEF Read, Demand, Reply, Count, Dial, Carry, Ends, Passes
    <3> QED BY <3>2, <3>3 DEF Serves
  <2>2. handle_sing_stream_socks = s \o q BY <1>5 DEF handle_sing_stream_socks
  <2> HIDE DEF q
  <2>3. Sound(s \o q) BY <1>6, <2>1, <2>2, SoundBehind DEF Asks
  <2> QED BY <2>2, <2>3
<1>8. Sound(handle_sing_stream_vless)
  <2> DEFINE e == s \o r
             p == e \o d
             q == <<Count, Demand("streamed", "refuse"), Reply, Demand("tcp", "drop"), Dial("drop"),
                    Carry(relay_sing_raw, relay_sing_vision, TRUE)>>
  <2>1. Serves(q)
    <3>1. /\ relay_sing_raw \in RelayFunctions /\ relay_sing_raw.initial = "forward"
          /\ relay_sing_vision \in RelayFunctions /\ relay_sing_vision.initial = "forward"
      BY Forwarding DEF Forwarders
    <3>2. q \in Seq(Later \cap Asking \cap Closers \cap Wirers)
      BY <3>1 DEF Demand, Reply, Count, Dial, Carry, Later, Asking, Closers, Wirers, Steps,
                  ReadSteps, Fails, Merits
    <3>3. Ends(q) /\ Passes(q[Len(q)]) /\ Len(q) > 0
      BY <3>1 DEF Demand, Reply, Count, Dial, Carry, Ends, Passes
    <3> QED BY <3>2, <3>3 DEF Serves
  <2>2. handle_sing_stream_vless = p \o q BY <1>5 DEF handle_sing_stream_vless
  <2> HIDE DEF r, d, q
  <2>3. e \in Seq(Openers) /\ Asks(e, "password") BY <1>3, <1>6, Elements, AsksStill
  <2> HIDE DEF e
  <2>4. p \in Seq(Openers) /\ Asks(p, "password") /\ Asks(p, "cred") BY <1>3, <2>3, Elements, AsksStill
  <2> HIDE DEF p
  <2>5. Sound(p \o q) BY <2>1, <2>4, SoundBehind DEF Asks
  <2> QED BY <2>2, <2>5
<1> QED BY <1>4, <1>7, <1>8

LEMMA QuietProved ==
  ASSUME NEW p \in Seq(Quiet), Asks(p, "cred"), NEW q, Serves(q)
  PROVE  Sound(p \o q)
<1>1. Quiet \subseteq Openers /\ Quiet \subseteq Closers BY DEF Quiet
<1>2. p \in Seq(Openers) /\ p \in Seq(Closers) BY <1>1, Wider
<1> QED BY <1>2, SoundBehind DEF Asks

\* The carriers whose streams are multiplexed or are QUIC streams.
LEMMA StreamsAreSound ==
  /\ Sound(handle_vless_over_grpc) /\ Sound(handle_vless_over_xhttp)
  /\ Sound(handle_vless_over_quic) /\ Sound(handle_vless_over_webtransport)
<1> DEFINE r == <<Read("once", FALSE)>>
           d == decode_vless_request
           v == validate_vless_command
           e == r \o d
           p == e \o v
           counted_(raw, vision) ==
             <<Count, Reply, Packets("udp", {"udp"}), Dial("drop"), Carry(raw, vision, TRUE)>>
           uncounted(raw, vision) ==
             <<Reply, Packets("udp", {"udp", "udp_relay"}), Dial("drop"), Carry(raw, vision, TRUE)>>
<1>1. r \in Seq(Quiet) /\ d \in Seq(Quiet) /\ v \in Seq(Quiet) /\ Asks(d, "cred")
  BY DEF Read, Demand, decode_vless_request, validate_vless_command, Quiet, Openers, Closers, Steps,
         ReadSteps, Fails, Merits, Asks, Checks
<1>2. /\ handle_vless_over_grpc = p \o counted_(relay_grpc_raw, relay_grpc_vision)
      /\ handle_vless_over_xhttp = p \o counted_(relay_xhttp_raw, relay_xhttp_vision)
      /\ handle_vless_over_quic = p \o uncounted(relay_quic_raw, relay_quic_vision)
      /\ handle_vless_over_webtransport = p \o uncounted(relay_wt_raw, relay_wt_vision)
  BY DEF handle_vless_over_grpc, handle_vless_over_xhttp, handle_vless_over_quic,
         handle_vless_over_webtransport
<1> HIDE DEF r, d, v
<1>3. e \in Seq(Quiet) /\ Asks(e, "cred") BY <1>1, Elements, AsksStill
<1> HIDE DEF e
<1>4. p \in Seq(Quiet) /\ Asks(p, "cred") BY <1>1, <1>3, Elements, AsksStill
<1> HIDE DEF p
<1>5. ASSUME NEW raw \in Forwarders, NEW vision \in Forwarders
      PROVE  Serves(counted_(raw, vision)) /\ Serves(uncounted(raw, vision))
  <2>1. /\ raw \in RelayFunctions /\ vision \in RelayFunctions /\ raw.initial = "forward"
        /\ vision.initial = "forward"
    BY DEF Forwarders
  <2>2. /\ counted_(raw, vision) \in Seq(Later \cap Asking \cap Closers \cap Wirers)
        /\ uncounted(raw, vision) \in Seq(Later \cap Asking \cap Closers \cap Wirers)
    BY <2>1 DEF Count, Reply, Packets, Dial, Carry, Later, Asking, Closers, Wirers, Steps, ReadSteps,
                Fails, Merits
  <2>3. LET q == counted_(raw, vision) IN Ends(q) /\ Passes(q[Len(q)]) /\ Len(q) > 0
    BY <2>1 DEF Count, Reply, Packets, Dial, Carry, Ends, Passes
  <2>4. LET q == uncounted(raw, vision) IN Ends(q) /\ Passes(q[Len(q)]) /\ Len(q) > 0
    BY <2>1 DEF Reply, Packets, Dial, Carry, Ends, Passes
  <2> QED BY <2>2, <2>3, <2>4 DEF Serves
<1> HIDE DEF counted_, uncounted
<1> QED BY <1>2, <1>4, <1>5, Forwarding, QuietProved

\* Steps that read no further than their message.
Exacts == {s \in Steps : s.op = "read" => s.how = "exact"}

\* The mixed proxy: SOCKS reads exactly, HTTP passes on what it read too far.
LEMMA MixedAreSound ==
  Sound(handle_mixed_socks4) /\ Sound(handle_mixed_socks5) /\ Sound(handle_mixed_http)
<1> DEFINE q(passes) == <<Dial("refuse"), Reply, Carry(relay_raw, relay_raw, passes)>>
<1>0. relay_raw \in RelayFunctions /\ relay_raw.initial = "forward" BY Forwarding DEF Forwarders
<1>1. ASSUME NEW passes \in BOOLEAN
      PROVE  /\ q(passes) \in Seq(Later) /\ q(passes) \in Seq(Asking) /\ q(passes) \in Seq(Closers)
             /\ q(passes) \in Seq(Wirers) /\ q(passes) \in Seq(Exacts)
             /\ q(passes) \in Seq(Later \cap Asking \cap Closers \cap Wirers)
             /\ Ends(q(passes)) /\ Len(q(passes)) > 0
             /\ LET c == q(passes)[Len(q(passes))] IN
                  c.raw.initial = "forward" /\ c.vision.initial = "forward" /\ c.passes = passes
  <2>1. /\ q(passes) \in Seq(Later) /\ q(passes) \in Seq(Asking) /\ q(passes) \in Seq(Closers)
        /\ q(passes) \in Seq(Wirers) /\ q(passes) \in Seq(Exacts)
        /\ q(passes) \in Seq(Later \cap Asking \cap Closers \cap Wirers)
    BY <1>0 DEF Dial, Reply, Carry, Later, Asking, Closers, Wirers, Exacts, Steps, ReadSteps, Fails
  <2>2. Ends(q(passes)) BY DEF Dial, Reply, Carry, Ends
  <2>3. LET c == q(passes)[Len(q(passes))] IN
          c.raw.initial = "forward" /\ c.vision.initial = "forward" /\ c.passes = passes
    BY <1>0 DEF Dial, Reply, Carry
  <2> QED BY <2>1, <2>2, <2>3 DEF Ends
<1>2. Proxied(TRUE) = q(TRUE) /\ Proxied(FALSE) = q(FALSE) BY DEF Proxied
<1> HIDE DEF q
<1>3. Sound(handle_mixed_http)
  <2>1. Serves(q(TRUE)) BY <1>1 DEF Serves, Passes
  <2> DEFINE f == Else(Read("until", TRUE), "refuse")
             p == <<f, Demand("cred", "refuse"), Demand("header", "refuse")>>
  <2>2. f \in Quiet
    <3>1. Read("until", TRUE) \in ReadSteps BY Readers
    <3>2. f \in ReadSteps /\ f.fail = "refuse" BY <3>1, ReadVariants DEF Fails
    <3> QED BY <3>2, ReadersOpen
  <2> HIDE DEF f
  <2>3. p \in Seq(Quiet) BY <2>2 DEF Demand, Quiet, Openers, Closers, Steps, ReadSteps, Fails, Merits
  <2>4. Asks(p, "cred") BY DEF Demand, Asks, Checks
  <2>5. accept_http_request = p
    BY DEF accept_http_request, read_http_head, authenticate_http_basic, f
  <2> HIDE DEF p
  <2> QED BY <1>2, <2>1, <2>3, <2>4, <2>5, QuietProved DEF handle_mixed_http
<1>4. ASSUME NEW p \in Seq(Quiet \cap Exacts), Asks(p, "cred") PROVE Sound(p \o q(FALSE))
  <2>1. p \in Seq(Openers) /\ p \in Seq(Closers) /\ p \in Seq(Exacts) /\ p \in Seq(Steps)
    <3>1. /\ Quiet \cap Exacts \subseteq Openers /\ Quiet \cap Exacts \subseteq Closers
          /\ Quiet \cap Exacts \subseteq Exacts /\ Quiet \cap Exacts \subseteq Steps
      BY DEF Quiet, Openers
    <3> QED BY <3>1, Wider
  <2>2. q(FALSE) \in Seq(Steps)
    <3>1. Later \subseteq Steps BY DEF Later
    <3> QED BY <1>1, <3>1, Wider
  <2> DEFINE s == p \o q(FALSE)
  <2>3. \A i \in 1 .. Len(p) : p[i].op # "relay"
    <3>1. \A i \in 1 .. Len(p) : p[i] \in Openers BY <2>1, ElementOf
    <3> QED BY <3>1 DEF Openers
  <2>4. s \in Seq(Steps) BY <2>1, <2>2, Elements
  <2>5. s \in Seq(Closers) BY <1>1, <2>1, Elements
  <2>6. s \in Seq(Exacts) BY <1>1, <2>1, Elements
  <2>7. Ends(s) /\ s[Len(s)] = q(FALSE)[Len(q(FALSE))] BY <1>1, <2>1, <2>2, <2>3, EndsBehind
  <2>8. Vouched(s) BY <1>1, <1>4, <2>1, VouchedBehind DEF Asks
  <2> HIDE DEF s
  <2>9. Exact(s)
    <3>1. \A i \in 1 .. Len(s) : s[i] \in Exacts BY <2>6, ElementOf
    <3> QED BY <3>1 DEF Exact, Exacts
  <2>10. Passing(s) BY <1>1, <2>7, <2>9 DEF Passing
  <2>11. Handing(s) BY <2>4, <2>5, Fallbacks
  <2>12. Sound(s) BY <2>4, <2>7, <2>8, <2>10, <2>11 DEF Sound
  <2> QED BY <2>12 DEF s
<1>5. Sound(handle_mixed_socks4)
  <2>1. accept_socks4_connect \in Seq(Quiet \cap Exacts)
    BY DEF accept_socks4_connect, Read, Demand, Quiet, Openers, Closers, Exacts, Steps, ReadSteps,
           Fails, Merits
  <2>2. Asks(accept_socks4_connect, "cred") BY DEF accept_socks4_connect, Read, Demand, Asks, Checks
  <2> QED BY <1>2, <1>4, <2>1, <2>2 DEF handle_mixed_socks4
<1>6. Sound(handle_mixed_socks5)
  <2> DEFINE n == negotiate_socks_auth
             a == authenticate_socks_userpass
             t == <<Read("exact", TRUE), Demand("tcp", "refuse"), Demand("header", "refuse")>>
             e == n \o a
  <2>1. n \in Seq(Quiet \cap Exacts) /\ a \in Seq(Quiet \cap Exacts) /\ t \in Seq(Quiet \cap Exacts)
    BY DEF negotiate_socks_auth, authenticate_socks_userpass, Read, Demand, Quiet, Openers, Closers,
           Exacts, Steps, ReadSteps, Fails, Merits
  <2>2. Asks(a, "cred") BY DEF authenticate_socks_userpass, Read, Demand, Asks, Checks
  <2>3. accept_socks5_connect = e \o t BY DEF accept_socks5_connect
  <2> HIDE DEF n, a, t
  <2>4. e \in Seq(Quiet \cap Exacts) /\ Asks(e, "cred") BY <2>1, <2>2, Elements, AsksStill
  <2> HIDE DEF e
  <2>5. e \o t \in Seq(Quiet \cap Exacts) /\ Asks(e \o t, "cred") BY <2>1, <2>4, Elements, AsksStill
  <2> QED BY <1>2, <1>4, <2>3, <2>5 DEF handle_mixed_socks5
<1> QED BY <1>3, <1>5, <1>6

\* Trojan falls back with the decrypted stream, from its first byte.
LEMMA TrojanIsSound == Sound(handle_trojan_connection)
<1> DEFINE f == Else(Read("until", FALSE), "plain")
           p == <<Read("until", FALSE), Demand("hello", "drop"), f, Demand("cred", "plain"),
                  Demand("header", "plain")>>
           q == <<Count, Packets("udp", {}), Dial("drop"), Carry(relay_anytls_raw, relay_anytls_raw, TRUE)>>
           s == p \o q
<1>1. f \in ReadSteps /\ f.fail = "plain" /\ f.op = "read" /\ f.how = "until" /\ f.over = "keep"
  <2>1. /\ Read("until", FALSE) \in ReadSteps /\ Read("until", FALSE).how = "until"
        /\ Read("until", FALSE).over = "keep"
    BY Readers
  <2>2. /\ f \in ReadSteps /\ f.fail = "plain" /\ f.how = "until" /\ f.over = "keep"
    BY <2>1, ReadVariants DEF Fails
  <2> QED BY <2>2 DEF ReadSteps
<1>2. handle_trojan_connection = s BY DEF handle_trojan_connection, trojan_read_request
<1> HIDE DEF f
<1>3. p \in Seq(Openers)
  BY <1>1 DEF Read, Demand, Openers, Steps, ReadSteps, Fails, Merits
<1>4. relay_anytls_raw \in RelayFunctions /\ relay_anytls_raw.initial = "forward"
  BY Forwarding DEF Forwarders
<1>5. q \in Seq(Later) /\ q \in Seq(Free)
  BY <1>4 DEF Count, Packets, Dial, Carry, Later, Free, Steps, Fails, Merits
<1>6. Ends(q) /\ Passes(q[Len(q)])
  BY <1>4 DEF Count, Packets, Dial, Carry, Ends, Passes
<1>7. /\ Len(p) = 5 /\ Checks(p, 4, "cred")
      /\ p[1].op = "read" /\ p[1].how = "until" /\ p[1].over = "keep" /\ p[1].fail = "drop"
      /\ p[2].op = "check" /\ p[2].fail = "drop"
      /\ p[3] = f
      /\ p[4].op = "check" /\ p[4].fail = "plain"
      /\ p[5].op = "check" /\ p[5].fail = "plain"
  BY DEF Read, Demand, Checks
<1>8. /\ Len(q) = 4 /\ \A i \in 1 .. 4 : q[i].op # "read" /\ q[i].fail = "drop"
  BY DEF Count, Packets, Dial, Carry
<1> HIDE DEF p, q
<1>9. s \in Seq(Steps) /\ Ends(s) /\ Vouched(s) /\ Passing(s)
  <2>1. \E i \in 1 .. Len(p) : Checks(p, i, "cred") BY <1>7
  <2> QED BY <1>3, <1>5, <1>6, <2>1, Composed
<1>10. /\ Len(s) = 9 /\ \A i \in 1 .. 5 : s[i] = p[i]
       /\ \A i \in 1 .. 4 : s[5 + i] = q[i]
  <2>1. p \in Seq(Steps) /\ q \in Seq(Steps)
    <3>1. Openers \subseteq Steps /\ Later \subseteq Steps BY DEF Openers, Later
    <3> QED BY <1>3, <1>5, <3>1, Wider
  <2>2. /\ Len(s) = Len(p) + Len(q) /\ \A i \in 1 .. Len(p) : s[i] = p[i]
        /\ \A i \in 1 .. Len(q) : s[Len(p) + i] = q[i]
    BY <2>1, Elements
  <2> QED BY <1>7, <1>8, <2>2
<1> HIDE DEF s
<1>11. \A i \in 6 .. 9 : s[i].op # "read" /\ s[i].fail = "drop"
  <2> SUFFICES ASSUME NEW i \in 6 .. 9 PROVE s[i].op # "read" /\ s[i].fail = "drop" OBVIOUS
  <2>1. i - 5 \in 1 .. 4 /\ i = 5 + (i - 5) OBVIOUS
  <2>2. s[i] = q[i - 5] BY <1>10, <2>1
  <2> QED BY <1>8, <2>1, <2>2
<1>12. Keeps(s)
  <2>1. ASSUME NEW i \in 1 .. 9, s[i].op = "read" PROVE s[i].how # "record" /\ s[i].over # "spoil"
    <3>1. i \in 1 .. 5 BY <1>11, <2>1
    <3>2. i \in {1, 3} BY <1>7, <1>10, <2>1, <3>1
    <3> QED BY <1>1, <1>7, <1>10, <3>2
  <2> QED BY <1>10, <2>1 DEF Keeps
<1>13. \A i \in 3 .. 5 : ReadsOf(s, i) = 2
  <2> SUFFICES ASSUME NEW i \in 3 .. 5 PROVE ReadsOf(s, i) = 2 OBVIOUS
  <2>1. {k \in 1 .. i : s[k].op = "read"} = {1, 3}
    <3>1. ASSUME NEW k \in 1 .. i, s[k].op = "read" PROVE k \in {1, 3}
      BY <1>7, <1>10, <3>1
    <3>2. s[1].op = "read" /\ s[3].op = "read" BY <1>1, <1>7, <1>10
    <3> QED BY <3>1, <3>2
  <2>2. Cardinality({1, 3}) = 2
    <3>1. IsFiniteSet({1}) /\ Cardinality({1}) = 1 BY FS_Singleton
    <3>2. Cardinality({1} \cup {3}) = 2 BY <3>1, FS_AddElement
    <3>3. {1} \cup {3} = {1, 3} OBVIOUS
    <3> QED BY <3>2, <3>3
  <2> QED BY <2>1, <2>2 DEF ReadsOf
<1>14. ASSUME NEW i \in 1 .. 9, s[i].fail \notin {"drop", "refuse"}
       PROVE  s[i].fail = "plain" /\ i \in 3 .. 5
  <2>1. i \in 1 .. 5 BY <1>11, <1>14
  <2> QED BY <1>1, <1>7, <1>10, <1>14, <2>1
<1>15. Handing(s) BY <1>10, <1>12, <1>13, <1>14 DEF Handing
<1> QED BY <1>2, <1>9, <1>15 DEF Sound

\* Those that are written out step by step.
LEMMA TuplesAreSound ==
  /\ Sound(handle_shadowsocks_connection) /\ Sound(handle_snell_connection)
  /\ Sound(handle_vmess_connection) /\ Sound(handle_naive_request)
  /\ Sound(handle_hysteria2_tcp) /\ Sound(handle_tuic_tcp) /\ Sound(handle_brook_connection)
<1>0. /\ relay_shadowsocks \in RelayFunctions /\ relay_shadowsocks.initial = "forward"
      /\ relay_snell \in RelayFunctions /\ relay_snell.initial = "forward"
      /\ relay_vmess \in RelayFunctions /\ relay_vmess.initial = "forward"
      /\ relay_naive \in RelayFunctions /\ relay_naive.initial = "forward"
      /\ relay_hysteria2_tcp \in RelayFunctions /\ relay_hysteria2_tcp.initial = "forward"
      /\ relay_tuic_tcp \in RelayFunctions /\ relay_tuic_tcp.initial = "forward"
      /\ relay_brook \in RelayFunctions /\ relay_brook.initial = "forward"
  BY Forwarding DEF Forwarders
<1>1. /\ handle_shadowsocks_connection \in Seq(Closers) /\ handle_snell_connection \in Seq(Closers)
      /\ handle_vmess_connection \in Seq(Closers) /\ handle_naive_request \in Seq(Closers)
      /\ handle_hysteria2_tcp \in Seq(Closers) /\ handle_tuic_tcp \in Seq(Closers)
      /\ handle_brook_connection \in Seq(Closers)
  BY <1>0 DEF handle_shadowsocks_connection, handle_snell_connection, handle_vmess_connection,
              handle_naive_request, handle_hysteria2_tcp, handle_tuic_tcp, handle_brook_connection,
              Read, Demand, Count, Reply, Dial, Carry, Closers, Steps, ReadSteps, Fails, Merits
<1>2. ASSUME NEW s \in Seq(Closers), Ends(s), Vouched(s), Passing(s) PROVE Sound(s)
  <2>1. Closers \subseteq Steps BY DEF Closers
  <2>2. s \in Seq(Steps) BY <2>1, Wider
  <2>3. Handing(s) BY <2>2, Fallbacks
  <2> QED BY <1>2, <2>2, <2>3 DEF Sound
<1>3. Sound(handle_shadowsocks_connection)
  <2>1. Ends(handle_shadowsocks_connection)
    BY DEF handle_shadowsocks_connection, Read, Demand, Dial, Carry, Ends
  <2>2. Vouched(handle_shadowsocks_connection)
    BY DEF handle_shadowsocks_connection, Read, Demand, Dial, Carry, Vouched, Checks, ServingOps
  <2>3. Passing(handle_shadowsocks_connection)
    BY <1>0 DEF handle_shadowsocks_connection, Read, Demand, Dial, Carry, Passing
  <2> QED BY <1>1, <1>2, <2>1, <2>2, <2>3
<1>4. Sound(handle_snell_connection)
  <2>1. Ends(handle_snell_connection)
    BY DEF handle_snell_connection, Read, Demand, Dial, Carry, Ends
  <2>2. Vouched(handle_snell_connection)
    BY DEF handle_snell_connection, Read, Demand, Dial, Carry, Vouched, Checks, ServingOps
  <2>3. Passing(handle_snell_connection)
    BY <1>0 DEF handle_snell_connection, Read, Demand, Dial, Carry, Passing
  <2> QED BY <1>1, <1>2, <2>1, <2>2, <2>3
<1>5. Sound(handle_vmess_connection)
  <2>1. Ends(handle_vmess_connection)
    BY DEF handle_vmess_connection, Read, Demand, Count, Reply, Dial, Carry, Ends
  <2>2. Vouched(handle_vmess_connection)
    <3> DEFINE p == handle_vmess_connection
    <3>1. /\ Len(p) = 9 /\ p[2].op = "check" /\ p[2].what = "cred"
          /\ \A i \in {1, 4, 7, 9} : p[i].op \in {"read", "reply", "relay"}
          /\ p[3].op = "count" /\ p[8].op = "dial"
          /\ \A i \in {5, 6} : p[i].op = "check" /\ p[i].what \in {"header", "tcp"}
      BY DEF handle_vmess_connection, Read, Demand, Count, Reply, Dial, Carry
    <3> HIDE DEF p
    <3>2. 1 .. Len(p) = {1, 2, 3, 4, 5, 6, 7, 8, 9} BY <3>1
    <3>3. \A j \in 1 .. Len(p) : ~Checks(p, j, "hello") /\ ~Checks(p, j, "password") /\ p[j].op # "packets"
      BY <3>1, <3>2 DEF Checks
    <3>4. \A i \in 1 .. Len(p) : p[i].op \in ServingOps => 2 \in 1 .. i - 1
      BY <3>1, <3>2 DEF ServingOps
    <3>5. Checks(p, 2, "cred") BY <3>1 DEF Checks
    <3>6. Vouched(p) BY <3>3, <3>4, <3>5 DEF Vouched
    <3> QED BY <3>6 DEF p
  <2>3. Passing(handle_vmess_connection)
    BY <1>0 DEF handle_vmess_connection, Read, Demand, Count, Reply, Dial, Carry, Passing, Exact
  <2> QED BY <1>1, <1>2, <2>1, <2>2, <2>3
<1>6. Sound(handle_naive_request)
  <2>1. Ends(handle_naive_request)
    BY DEF handle_naive_request, Read, Demand, Count, Reply, Dial, Carry, Ends
  <2>2. Vouched(handle_naive_request)
    BY DEF handle_naive_request, Read, Demand, Count, Reply, Dial, Carry, Vouched, Checks, ServingOps
  <2>3. Passing(handle_naive_request)
    BY <1>0 DEF handle_naive_request, Read, Demand, Count, Reply, Dial, Carry, Passing, Exact
  <2> QED BY <1>1, <1>2, <2>1, <2>2, <2>3
<1>7. Sound(handle_hysteria2_tcp)
  <2>1. Ends(handle_hysteria2_tcp)
    BY DEF handle_hysteria2_tcp, Read, Demand, Count, Reply, Dial, Carry, Ends
  <2>2. Vouched(handle_hysteria2_tcp)
    <3> DEFINE s == handle_hysteria2_tcp
    <3>1. Len(s) = 8 BY DEF handle_hysteria2_tcp
    <3>2. /\ s[1].op = "read" /\ s[2].op = "check" /\ s[2].what = "cred" /\ s[5].what = "header"
          /\ s[3].op = "count" /\ s[4].op = "read" /\ s[5].op = "check" /\ s[6].op = "dial"
          /\ s[7].op = "reply" /\ s[8].op = "relay"
      BY DEF handle_hysteria2_tcp, Read, Demand, Count, Reply, Dial, Carry
    <3> HIDE DEF s
    <3>3. \A i \in 1 .. 8 : s[i].op \in ServingOps => i > 2 /\ s[i].op # "packets" BY <3>2 DEF ServingOps
    <3>4. Checks(s, 2, "cred") BY <3>2 DEF Checks
    <3>5. \A i \in 1 .. 8 : ~Checks(s, i, "hello") /\ ~Checks(s, i, "password") BY <3>2 DEF Checks
    <3>6. \A i \in 1 .. 8 : i > 2 => 2 \in 1 .. i - 1 OBVIOUS
    <3>7. Vouched(s) BY <3>1, <3>3, <3>4, <3>5, <3>6 DEF Vouched
    <3> QED BY <3>7 DEF s
  <2>3. Passing(handle_hysteria2_tcp)
    BY <1>0 DEF handle_hysteria2_tcp, Read, Demand, Count, Reply, Dial, Carry, Passing
  <2> QED BY <1>1, <1>2, <2>1, <2>2, <2>3
<1>8. Sound(handle_tuic_tcp)
  <2>1. Ends(handle_tuic_tcp)
    BY DEF handle_tuic_tcp, Read, Demand, Count, Dial, Carry, Ends
  <2>2. Vouched(handle_tuic_tcp)
    BY DEF handle_tuic_tcp, Read, Demand, Count, Dial, Carry, Vouched, Checks, ServingOps
  <2>3. Passing(handle_tuic_tcp)
    BY <1>0 DEF handle_tuic_tcp, Read, Demand, Count, Dial, Carry, Passing
  <2> QED BY <1>1, <1>2, <2>1, <2>2, <2>3
<1>9. Sound(handle_brook_connection)
  <2>1. Ends(handle_brook_connection)
    BY DEF handle_brook_connection, Read, Demand, Reply, Dial, Carry, Ends
  <2>2. Vouched(handle_brook_connection)
    BY DEF handle_brook_connection, Read, Demand, Reply, Dial, Carry, Vouched, Checks, ServingOps
  <2>3. Passing(handle_brook_connection)
    BY <1>0 DEF handle_brook_connection, Read, Demand, Reply, Dial, Carry, Passing, Exact
  <2> QED BY <1>1, <1>2, <2>1, <2>2, <2>3
<1> QED BY <1>3, <1>4, <1>5, <1>6, <1>7, <1>8, <1>9

LEMMA HandlersAreSound == \A p \in AllHandlers : Sound(p)
  BY CarriersAreSound, WsHandlersAreSound, DisguisedAreSound, AnyTlsHandlersAreSound,
     StreamsAreSound, MixedAreSound, TrojanIsSound, TuplesAreSound
  DEF AllHandlers

LEMMA FramedHandlersRead == \A p \in FramedHandlers : Framing(p)
<1>1. ASSUME NEW s \in Seq(Framers) PROVE Framing(s)
  <2>1. \A i \in 1 .. Len(s) : s[i] \in Framers BY ElementOf
  <2> QED BY <2>1 DEF Framing, Framers
<1>2. /\ Framing(handle_shadowsocks_connection) /\ Framing(handle_snell_connection)
      /\ Framing(handle_vmess_connection) /\ Framing(handle_naive_request)
  BY DEF handle_shadowsocks_connection, handle_snell_connection, handle_vmess_connection,
         handle_naive_request, Read, Demand, Count, Reply, Dial, Carry, Framing
<1>3. /\ Framing(handle_hysteria2_tcp) /\ Framing(handle_tuic_tcp) /\ Framing(handle_brook_connection)
  BY DEF handle_hysteria2_tcp, handle_tuic_tcp, handle_brook_connection,
         Read, Demand, Count, Reply, Dial, Carry, Framing
<1>4. /\ relay_raw \in RelayFunctions /\ relay_anytls_raw \in RelayFunctions
  BY Forwarding DEF Forwarders
<1>5. /\ Proxied(TRUE) \in Seq(Framers) /\ Proxied(FALSE) \in Seq(Framers)
  BY <1>4 DEF Proxied, Dial, Reply, Carry, Framers, Steps, Fails
<1>6. Framing(handle_mixed_socks4)
  <2>1. accept_socks4_connect \in Seq(Framers)
    BY DEF accept_socks4_connect, Read, Demand, Framers, Steps, ReadSteps, Fails, Merits
  <2>2. accept_socks4_connect \o Proxied(FALSE) \in Seq(Framers) BY <1>5, <2>1, Elements
  <2> QED BY <1>1, <2>2 DEF handle_mixed_socks4
<1>7. Framing(handle_mixed_socks5)
  <2> DEFINE n == negotiate_socks_auth
             a == authenticate_socks_userpass
             t == <<Read("exact", TRUE), Demand("tcp", "refuse"), Demand("header", "refuse")>>
             e == n \o a
  <2>1. n \in Seq(Framers) /\ a \in Seq(Framers) /\ t \in Seq(Framers)
    BY DEF negotiate_socks_auth, authenticate_socks_userpass, Read, Demand, Framers, Steps, ReadSteps,
           Fails, Merits
  <2>2. accept_socks5_connect = e \o t BY DEF accept_socks5_connect
  <2> HIDE DEF n, a, t
  <2>3. e \in Seq(Framers) BY <2>1, Elements
  <2> HIDE DEF e
  <2>4. e \o t \in Seq(Framers) BY <2>1, <2>3, Elements
  <2>5. accept_socks5_connect \o Proxied(FALSE) \in Seq(Framers) BY <1>5, <2>2, <2>4, Elements
  <2> QED BY <1>1, <2>5 DEF handle_mixed_socks5
<1>8. ASSUME NEW fail \in Fails, NEW timed \in BOOLEAN PROVE Else(Read("until", timed), fail) \in Framers
  <2> DEFINE r == Read("until", timed)   f == Else(r, fail)
  <2>1. r \in ReadSteps /\ r.how = "until" /\ r.fragile = FALSE BY Readers DEF Read
  <2>2. f \in ReadSteps /\ f.how = "until" /\ f.fragile = FALSE BY <2>1, ReadVariants DEF Else, Read
  <2> HIDE DEF f
  <2>3. f \in Framers BY <2>2 DEF Framers, Steps
  <2> QED BY <2>3 DEF f
<1>9. Framing(handle_mixed_http)
  <2> DEFINE f == Else(Read("until", TRUE), "refuse")
             p == <<f, Demand("cred", "refuse"), Demand("header", "refuse")>>
  <2>1. f \in Framers BY <1>8 DEF Fails
  <2> HIDE DEF f
  <2>2. p \in Seq(Framers) BY <2>1 DEF Demand, Framers, Steps, ReadSteps, Fails, Merits
  <2>3. accept_http_request = p
    BY DEF accept_http_request, read_http_head, authenticate_http_basic, f
  <2> HIDE DEF p
  <2>4. p \o Proxied(TRUE) \in Seq(Framers) BY <1>5, <2>2, Elements
  <2> QED BY <1>1, <2>3, <2>4 DEF handle_mixed_http
<1>10. Framing(handle_trojan_connection)
  <2> DEFINE f == Else(Read("until", FALSE), "plain")
             p == <<Read("until", FALSE), Demand("hello", "drop"), f, Demand("cred", "plain"),
                    Demand("header", "plain")>>
             q == <<Count, Packets("udp", {}), Dial("drop"),
                    Carry(relay_anytls_raw, relay_anytls_raw, TRUE)>>
  <2>1. f \in Framers BY <1>8 DEF Fails
  <2>2. handle_trojan_connection = p \o q BY DEF handle_trojan_connection, trojan_read_request
  <2> HIDE DEF f
  <2>3. p \in Seq(Framers) BY <2>1 DEF Read, Demand, Framers, Steps, ReadSteps, Fails, Merits
  <2>4. q \in Seq(Framers) BY <1>4 DEF Count, Packets, Dial, Carry, Framers, Steps, Fails, Merits
  <2> HIDE DEF p, q
  <2>5. p \o q \in Seq(Framers) BY <2>3, <2>4, Elements
  <2> QED BY <1>1, <2>2, <2>5
<1> QED BY <1>2, <1>3, <1>6, <1>7, <1>9, <1>10 DEF FramedHandlers

-----------------------------------------------------------------------------
(* The inductive invariant *)

\* The handler has read every message before its place, an exact one no more
\* than that, and holds what it has read.
ReadInv ==
  /\ taken >= MsgLen * ReadsOf(h, pc - 1)
  /\ Exact(h) => taken <= MsgLen * ReadsOf(h, pc)
  /\ Keeps(h) => held = taken

\* The request has what the checks before the handler's place ask for.
PassedInv ==
  \A i \in 1 .. pc - 1 : h[i].op = "check" /\ h[i].what \notin {"tcp", "streamed"} =>
    h[i].what \in req.has

\* A connection was counted and dialled, and datagrams are relayed, by a step at
\* or before the handler's place.
ServedInv ==
  /\ counted => \E i \in 1 .. pc : h[i].op = "count"
  /\ dialled # "no" => \E i \in 1 .. pc : h[i].op = "dial"
  /\ ended = "packets" => h[pc].op = "packets" /\ h[pc].rights \subseteq req.has

IInv ==
  /\ TypeOK /\ ReadInv /\ PassedInv /\ ServedInv
  /\ BodyIsPassed /\ FallbackIsWhole /\ SplitIsHarmless

-----------------------------------------------------------------------------
(* Messages *)

\* The number of messages a handler has read at a step.
LEMMA ReadsCount ==
  ASSUME NEW p \in Seq(Steps), NEW k \in 1 .. Len(p)
  PROVE  /\ ReadsOf(p, k) \in Nat /\ ReadsOf(p, k - 1) \in Nat
         /\ p[k].op = "read" => ReadsOf(p, k) = ReadsOf(p, k - 1) + 1
         /\ p[k].op # "read" => ReadsOf(p, k) = ReadsOf(p, k - 1)
<1> DEFINE S(n) == {i \in 1 .. n : p[i].op = "read"}
<1>1. k \in Nat /\ k - 1 \in Nat BY ElementOf
<1>2. \A n \in Nat : IsFiniteSet(S(n)) /\ Cardinality(S(n)) \in Nat
  <2> SUFFICES ASSUME NEW n \in Nat PROVE IsFiniteSet(S(n)) /\ Cardinality(S(n)) \in Nat OBVIOUS
  <2>1. IsFiniteSet(1 .. n) BY FS_Interval
  <2>2. S(n) \subseteq 1 .. n OBVIOUS
  <2>3. IsFiniteSet(S(n)) BY <2>1, <2>2, FS_Subset
  <2> QED BY <2>3, FS_CardinalityType
<1>3. p[k].op = "read" => S(k) = S(k - 1) \cup {k} BY <1>1
<1>4. p[k].op # "read" => S(k) = S(k - 1) BY <1>1
<1>5. k \notin S(k - 1) BY <1>1
<1>6. /\ ReadsOf(p, k) = Cardinality(S(k)) /\ ReadsOf(p, k - 1) = Cardinality(S(k - 1)) BY DEF ReadsOf
<1> HIDE DEF S
<1>7. Cardinality(S(k - 1) \cup {k}) = Cardinality(S(k - 1)) + 1 BY <1>1, <1>2, <1>5, FS_AddElement
<1> QED BY <1>1, <1>2, <1>3, <1>4, <1>6, <1>7

LEMMA ReadsGrow ==
  ASSUME NEW p \in Seq(Steps), NEW k \in 1 .. Len(p), k + 1 \in 1 .. Len(p)
  PROVE  ReadsOf(p, k) <= ReadsOf(p, k + 1) /\ ReadsOf(p, k + 1) \in Nat
<1>1. k + 1 - 1 = k BY ElementOf
<1>2. /\ ReadsOf(p, k + 1) \in Nat /\ ReadsOf(p, k) \in Nat
      /\ p[k + 1].op = "read" => ReadsOf(p, k + 1) = ReadsOf(p, k) + 1
      /\ p[k + 1].op # "read" => ReadsOf(p, k + 1) = ReadsOf(p, k)
  BY <1>1, ReadsCount
<1> QED BY <1>2

\* Lengths of messages.
LEMMA Lengths ==
  /\ \A a \in Nat : MsgLen * a \in Nat
  /\ \A a, b \in Nat : a <= b => MsgLen * a <= MsgLen * b
  /\ MsgLen * (2 - 1) = MsgLen
  /\ MsgLen \in Nat /\ MsgLen > 0
<1>1. MsgLen \in Nat /\ MsgLen > 0 /\ MsgLen * (2 - 1) = MsgLen BY AdmissionAssumption
<1>2. ASSUME NEW a \in Nat PROVE MsgLen * a \in Nat BY <1>1
<1>3. ASSUME NEW a \in Nat, NEW b \in Nat, a <= b PROVE MsgLen * a <= MsgLen * b
  <2> DEFINE d == b - a
  <2>1. d \in Nat /\ b = a + d BY <1>3
  <2> HIDE DEF d
  <2>2. MsgLen * b = MsgLen * a + MsgLen * d BY <1>1, <2>1
  <2> QED BY <1>1, <1>2, <2>1, <2>2
<1> QED BY <1>1, <1>2, <1>3

\* What is known of the handler at its place.
LEMMA AtPlace ==
  ASSUME TypeOK
  PROVE  /\ Sound(h) /\ h \in Seq(Steps) /\ Len(h) \in Nat /\ pc \in Nat /\ pc > 0
         /\ \A i \in 1 .. Len(h) : h[i] \in Steps
         /\ h[pc].op # "relay" => pc + 1 \in 1 .. Len(h)
         /\ h[pc].op = "relay" => pc = Len(h)
         /\ MsgEnd = MsgLen * ReadsOf(h, pc) /\ MsgEnd \in Nat
         /\ Total \in Nat
<1>1. Sound(h) BY HandlersAreSound, AdmissionAssumption DEF TypeOK
<1>2. h \in Seq(Steps) /\ Ends(h) /\ pc \in 1 .. Len(h) BY <1>1 DEF Sound, TypeOK
<1>3. Len(h) \in Nat /\ \A i \in 1 .. Len(h) : h[i] \in Steps BY <1>2, ElementOf
<1>4. h[pc].op = "relay" <=> pc = Len(h) BY <1>2 DEF Ends
<1>5. pc \in Nat /\ pc > 0 /\ (h[pc].op # "relay" => pc + 1 \in 1 .. Len(h)) BY <1>2, <1>3, <1>4
<1>6. ReadsOf(h, pc) \in Nat /\ ReadsOf(h, Len(h)) \in Nat
  <2>1. Len(h) \in 1 .. Len(h) BY <1>2, <1>3
  <2> QED BY <1>2, <2>1, ReadsCount
<1>7. MsgEnd = MsgLen * ReadsOf(h, pc) /\ Total = MsgLen * ReadsOf(h, Len(h)) + Body
  BY DEF MsgEnd, Total, Reads, ReadsOf
<1>8. MsgLen * ReadsOf(h, pc) \in Nat /\ MsgLen * ReadsOf(h, Len(h)) \in Nat BY <1>6, Lengths
<1>9. Total \in Nat BY <1>7, <1>8, AdmissionAssumption
<1> QED BY <1>1, <1>2, <1>3, <1>4, <1>5, <1>7, <1>8, <1>9

-----------------------------------------------------------------------------
(* Steps *)

LEMMA InvInit == Init => IInv
<1> SUFFICES ASSUME Init PROVE IInv OBVIOUS
<1>1. Sound(h) BY HandlersAreSound, AdmissionAssumption DEF Init
<1>2. h \in Seq(Steps) /\ Len(h) > 0 BY <1>1 DEF Sound, Ends
<1>3. Len(h) \in Nat /\ 1 \in 1 .. Len(h) /\ Len(h) \in 1 .. Len(h)
  <2>1. Len(h) \in Nat BY <1>2, ElementOf
  <2> QED BY <1>2, <2>1
<1>4. ReadsOf(h, 1) \in Nat /\ ReadsOf(h, Len(h)) \in Nat BY <1>2, <1>3, ReadsCount
<1>5. ReadsOf(h, 0) = 0
  <2>1. {i \in 1 .. 0 : h[i].op = "read"} = {} OBVIOUS
  <2> QED BY <2>1, FS_EmptySet DEF ReadsOf
<1>6. Total \in Nat
  <2>1. Total = MsgLen * ReadsOf(h, Len(h)) + Body BY DEF Total, Reads, ReadsOf
  <2>2. MsgLen * ReadsOf(h, Len(h)) \in Nat BY <1>4, Lengths
  <2> QED BY <2>1, <2>2, AdmissionAssumption
<1>7. TypeOK
  <2>1. h \in Handlers /\ req \in Requests /\ pc \in 1 .. Len(h) BY <1>3 DEF Init
  <2>2. sent \in 0 .. Total /\ taken \in 0 .. sent /\ held \in 0 .. taken BY <1>6 DEF Init
  <2>3. /\ {closed, spoilt, late, counted} \subseteq BOOLEAN
        /\ told \in {"nothing", "success", "error"} /\ dialled \in {"no", "up", "failed"}
        /\ ended \in {"no", "drop", "fallback", "packets", "relay"}
    BY DEF Init
  <2> QED BY <2>1, <2>2, <2>3 DEF TypeOK
<1>8. ReadInv
  <2>1. MsgLen * 0 = 0 BY Lengths
  <2>2. MsgLen * ReadsOf(h, 1) \in Nat BY <1>4, Lengths
  <2>3. pc = 1 /\ taken = 0 /\ held = 0 BY DEF Init
  <2>4. pc - 1 = 0 BY <2>3
  <2> QED BY <1>5, <2>1, <2>2, <2>3, <2>4 DEF ReadInv
<1>9. PassedInv /\ ServedInv BY DEF Init, PassedInv, ServedInv
<1>10. BodyIsPassed /\ FallbackIsWhole /\ SplitIsHarmless
  BY DEF Init, BodyIsPassed, FallbackIsWhole, WholeFallback, SplitIsHarmless
<1> QED BY <1>7, <1>8, <1>9, <1>10 DEF IInv

\* The handler and the request stay what they are.
LEMMA SameRequest == [Next]_vars => h' = h /\ req' = req
BY DEF Next, vars, Reading, Serving, ClientSend, ClientClose, Take, Parse, TakeShort, TakeEof,
       TakeTimeout, TakeWouldBlock, Check, Track, Answer, Datagrams, Connect, Relay

\* What a read does with b units taken.
LEMMA TakeCases ==
  ASSUME TypeOK, Take
  PROVE  \E b \in Arrived :
           /\ taken' = b /\ b \in Nat /\ taken < b /\ b <= sent
           /\ h[pc].how = "exact" => b <= MsgEnd
           /\ \/ b >= MsgEnd /\ Complete(b)
              \/ b < MsgEnd /\ h[pc].how \in {"until", "exact"} /\ held' = b /\ Stay /\ UNCHANGED spoilt
              \/ /\ b < MsgEnd /\ h[pc].how = "record" /\ Stay /\ UNCHANGED spoilt
                 /\ held' = IF taken = MsgStart THEN b ELSE held
              \/ /\ b < MsgEnd /\ h[pc].how \in {"once", "second"}
                 /\ Fail(h[pc].fail, b, b) /\ held' = b /\ UNCHANGED <<pc, spoilt>>
<1>1. h[pc].how \in {"once", "second", "until", "exact", "record"}
  <2>1. h[pc] \in Steps /\ h[pc].op = "read" BY AtPlace DEF Take, At, TypeOK
  <2> QED BY <2>1 DEF Steps, ReadSteps
<1>2. sent \in Nat /\ taken \in Nat /\ MsgEnd \in Nat
  <2>1. Total \in Nat /\ MsgEnd \in Nat BY AtPlace
  <2> QED BY <2>1 DEF TypeOK
<1> DEFINE how == h[pc].how
<1>3. PICK b \in Arrived :
        /\ how = "exact" => b <= MsgEnd
        /\ taken' = b
        /\ CASE b >= MsgEnd -> Complete(b)
             [] b < MsgEnd /\ how \in {"until", "exact"} -> held' = b /\ Stay /\ UNCHANGED spoilt
             [] b < MsgEnd /\ how = "record" ->
                  held' = (IF taken = MsgStart THEN b ELSE held) /\ Stay /\ UNCHANGED spoilt
             [] b < MsgEnd /\ how \in {"once", "second"} ->
                  Fail(h[pc].fail, b, b) /\ held' = b /\ UNCHANGED <<pc, spoilt>>
  BY DEF Take
<1> HIDE DEF how
<1>4. b \in Nat /\ taken < b /\ b <= sent BY <1>2 DEF Arrived
<1>5. CASE b >= MsgEnd
  <2>1. ~(b < MsgEnd) BY <1>2, <1>4, <1>5
  <2>2. Complete(b) BY <1>3, <1>5, <2>1
  <2> QED BY <1>3, <1>4, <1>5, <2>2 DEF how
<1>6. CASE ~(b >= MsgEnd)
  <2>1. b < MsgEnd BY <1>2, <1>4, <1>6
  <2>2. CASE how \in {"until", "exact"}
    <3>1. how # "record" /\ how \notin {"once", "second"} BY <2>2
    <3>2. held' = b /\ Stay /\ UNCHANGED spoilt BY <1>3, <1>6, <2>1, <2>2, <3>1
    <3> QED BY <1>3, <1>4, <2>1, <2>2, <3>2 DEF how
  <2>3. CASE how = "record"
    <3>1. how \notin {"until", "exact"} /\ how \notin {"once", "second"} BY <2>3
    <3>2. held' = (IF taken = MsgStart THEN b ELSE held) /\ Stay /\ UNCHANGED spoilt
      BY <1>3, <1>6, <2>1, <2>3, <3>1
    <3> QED BY <1>3, <1>4, <2>1, <2>3, <3>2 DEF how
  <2>4. CASE how \in {"once", "second"}
    <3>1. how \notin {"until", "exact"} /\ how # "record" BY <2>4
    <3>2. Fail(h[pc].fail, b, b) /\ held' = b /\ UNCHANGED <<pc, spoilt>>
      BY <1>3, <1>6, <2>1, <2>4, <3>1
    <3> QED BY <1>3, <1>4, <2>1, <2>4, <3>2 DEF how
  <2> QED BY <1>1, <2>2, <2>3, <2>4 DEF how
<1> QED BY <1>5, <1>6

LEMMA TypeStep == ASSUME TypeOK, [Next]_vars PROVE TypeOK'
<1>1. h' = h /\ req' = req BY SameRequest
<1>2. /\ Len(h) \in Nat /\ pc \in Nat /\ pc > 0
      /\ h[pc].op # "relay" => pc + 1 \in 1 .. Len(h)
      /\ MsgEnd \in Nat /\ Total \in Nat
  BY AtPlace
<1>3. Total' = Total BY <1>1 DEF Total, Reads
<1> USE DEF TypeOK
<1> HIDE DEF MsgEnd, Total
<1>4. CASE UNCHANGED vars BY <1>1, <1>3, <1>4 DEF vars
<1>5. CASE ClientSend BY <1>1, <1>2, <1>3, <1>5 DEF ClientSend
<1>6. CASE ClientClose BY <1>1, <1>2, <1>3, <1>6 DEF ClientClose
<1>7. CASE Take
  <2>1. PICK b \in Arrived :
          /\ taken' = b
          /\ \/ b >= MsgEnd /\ Complete(b)
             \/ held' = b /\ Stay /\ UNCHANGED spoilt
             \/ held' = (IF taken = MsgStart THEN b ELSE held) /\ Stay /\ UNCHANGED spoilt
             \/ Fail(h[pc].fail, b, b) /\ held' = b /\ UNCHANGED <<pc, spoilt>>
    BY <1>7, TakeCases
  <2>2. b \in Nat /\ taken < b /\ b <= sent /\ taken \in Nat /\ sent \in Nat BY <1>2 DEF Arrived
  <2>3. UNCHANGED <<sent, closed, late, dialled, counted>> /\ h[pc].op = "read" /\ ended = "no"
    BY <1>7 DEF Take, client, At
  <2>4. CASE b >= MsgEnd /\ Complete(b) BY <1>1, <1>2, <1>3, <2>1, <2>2, <2>3, <2>4 DEF Complete, Step
  <2>5. CASE held' = b /\ Stay /\ UNCHANGED spoilt
    BY <1>1, <1>2, <1>3, <2>1, <2>2, <2>3, <2>5 DEF Stay
  <2>6. CASE held' = (IF taken = MsgStart THEN b ELSE held) /\ Stay /\ UNCHANGED spoilt
    BY <1>1, <1>2, <1>3, <2>1, <2>2, <2>3, <2>6 DEF Stay
  <2>7. CASE Fail(h[pc].fail, b, b) /\ held' = b /\ UNCHANGED <<pc, spoilt>>
    BY <1>1, <1>2, <1>3, <2>1, <2>2, <2>3, <2>7 DEF Fail
  <2> QED BY <2>1, <2>4, <2>5, <2>6, <2>7
<1>8. CASE Parse BY <1>1, <1>2, <1>3, <1>8 DEF Parse, At, Complete, Step, client
<1>9. CASE TakeShort BY <1>1, <1>2, <1>3, <1>9 DEF TakeShort, Fail, client
<1>10. CASE TakeEof BY <1>1, <1>2, <1>3, <1>10 DEF TakeEof, Fail, client
<1>11. CASE TakeTimeout BY <1>1, <1>2, <1>3, <1>11 DEF TakeTimeout, Fail, client
<1>12. CASE TakeWouldBlock BY <1>1, <1>2, <1>3, <1>12 DEF TakeWouldBlock, Fail, client
<1>13. CASE Check BY <1>1, <1>2, <1>3, <1>13 DEF Check, At, Step, Fail, client
<1>14. CASE Track BY <1>1, <1>2, <1>3, <1>14 DEF Track, At, Step, client
<1>15. CASE Answer BY <1>1, <1>2, <1>3, <1>15 DEF Answer, At, client
<1>16. CASE Datagrams BY <1>1, <1>2, <1>3, <1>16 DEF Datagrams, At, Step, Fail, client
<1>17. CASE Connect BY <1>1, <1>2, <1>3, <1>17 DEF Connect, At, Step, Fail, client
<1>18. CASE Relay BY <1>1, <1>2, <1>3, <1>18 DEF Relay, At, client
<1> QED BY <1>4, <1>5, <1>6, <1>7, <1>8, <1>9, <1>10, <1>11, <1>12, <1>13, <1>14, <1>15, <1>16,
           <1>17, <1>18 DEF Next, Reading, Serving

\* A step that goes on behind a message that has been read.
LEMMA ReadMoves ==
  ASSUME TypeOK, h' = h, pc' = pc + 1, h[pc].op # "relay",
         taken' \in Nat, taken' >= MsgEnd, Exact(h) => taken' <= MsgEnd, Keeps(h) => held' = taken'
  PROVE  ReadInv'
<1>1. /\ h \in Seq(Steps) /\ pc \in Nat /\ pc + 1 \in 1 .. Len(h) /\ pc \in 1 .. Len(h)
      /\ MsgEnd = MsgLen * ReadsOf(h, pc)
  BY AtPlace DEF TypeOK
<1>2. pc' - 1 = pc BY <1>1
<1>3. ReadsOf(h, pc) <= ReadsOf(h, pc + 1) /\ ReadsOf(h, pc + 1) \in Nat /\ ReadsOf(h, pc) \in Nat
  BY <1>1, ReadsGrow, ReadsCount
<1>4. /\ MsgLen * ReadsOf(h, pc) <= MsgLen * ReadsOf(h, pc + 1)
      /\ MsgLen * ReadsOf(h, pc) \in Nat /\ MsgLen * ReadsOf(h, pc + 1) \in Nat
  BY <1>3, Lengths
<1> DEFINE m == MsgLen * ReadsOf(h, pc)   n == MsgLen * ReadsOf(h, pc + 1)
<1>5. taken' >= m BY <1>1
<1>6. Exact(h) => taken' <= m BY <1>1
<1>7. m \in Nat /\ n \in Nat /\ m <= n BY <1>4
<1> HIDE DEF m, n
<1>8. Exact(h) => taken' <= n BY <1>6, <1>7
<1> QED BY <1>2, <1>5, <1>8 DEF ReadInv, m, n

\* A step that stays with its message.
LEMMA ReadStays ==
  ASSUME TypeOK, ReadInv, h' = h, pc' = pc,
         taken' \in Nat, taken' >= taken, Exact(h) => taken' <= MsgEnd, Keeps(h) => held' = taken'
  PROVE  ReadInv'
<1>1. /\ h \in Seq(Steps) /\ pc \in 1 .. Len(h) /\ MsgEnd = MsgLen * ReadsOf(h, pc)
  BY AtPlace DEF TypeOK
<1>2. ReadsOf(h, pc - 1) \in Nat BY <1>1, ReadsCount
<1> DEFINE m == MsgLen * ReadsOf(h, pc - 1)
<1>3. m \in Nat /\ taken >= m BY <1>2, Lengths DEF ReadInv
<1>4. taken \in Nat
  <2>1. Total \in Nat BY AtPlace
  <2> QED BY <2>1 DEF TypeOK
<1> HIDE DEF m
<1>5. taken' >= m BY <1>3, <1>4
<1> QED BY <1>1, <1>5 DEF ReadInv, m

\* Where no message is read, those before the place are all there are.
LEMMA BetweenMessages ==
  ASSUME TypeOK, ReadInv, h[pc].op # "read" PROVE taken >= MsgEnd /\ (Exact(h) => taken <= MsgEnd)
<1>1. /\ h \in Seq(Steps) /\ pc \in 1 .. Len(h) /\ MsgEnd = MsgLen * ReadsOf(h, pc)
  BY AtPlace DEF TypeOK
<1>2. ReadsOf(h, pc) = ReadsOf(h, pc - 1) BY <1>1, ReadsCount
<1> QED BY <1>1, <1>2 DEF ReadInv

LEMMA ReadStep == ASSUME TypeOK, ReadInv, [Next]_vars PROVE ReadInv'
<1>1. h' = h BY SameRequest
<1>2. taken \in Nat /\ MsgEnd \in Nat
  <2>1. Total \in Nat /\ MsgEnd \in Nat BY AtPlace
  <2> QED BY <2>1 DEF TypeOK
<1>3. Keeps(h) => held = taken BY DEF ReadInv
<1>4. Exact(h) => taken <= MsgEnd
  <2>1. MsgEnd = MsgLen * ReadsOf(h, pc) BY AtPlace
  <2> QED BY <2>1 DEF ReadInv
<1>5. CASE UNCHANGED <<pc, taken, held>>
  <2>1. taken' >= taken BY <1>2, <1>5
  <2> QED BY <1>1, <1>2, <1>3, <1>4, <1>5, <2>1, ReadStays
<1>6. CASE Take
  <2>1. PICK b \in Arrived :
          /\ taken' = b /\ b \in Nat /\ taken < b /\ b <= sent
          /\ h[pc].how = "exact" => b <= MsgEnd
          /\ \/ b >= MsgEnd /\ Complete(b)
             \/ b < MsgEnd /\ h[pc].how \in {"until", "exact"} /\ held' = b /\ Stay /\ UNCHANGED spoilt
             \/ /\ b < MsgEnd /\ h[pc].how = "record" /\ Stay /\ UNCHANGED spoilt
                /\ held' = IF taken = MsgStart THEN b ELSE held
             \/ /\ b < MsgEnd /\ h[pc].how \in {"once", "second"}
                /\ Fail(h[pc].fail, b, b) /\ held' = b /\ UNCHANGED <<pc, spoilt>>
    BY <1>6, TakeCases
  <2>2. h[pc].op = "read" /\ pc \in 1 .. Len(h) BY <1>6 DEF Take, At, TypeOK
  <2>3. Exact(h) => b <= MsgEnd BY <2>1, <2>2 DEF Exact
  <2>4. Keeps(h) => h[pc].how # "record" /\ h[pc].over # "spoil" BY <2>2 DEF Keeps
  <2>5. CASE b >= MsgEnd /\ Complete(b)
    <3>1. pc' = pc + 1 /\ (Keeps(h) => held' = taken') BY <2>1, <2>4, <2>5 DEF Complete, Step
    <3>2. h[pc].op # "relay" BY <2>2
    <3> QED BY <1>1, <2>1, <2>3, <2>5, <3>1, <3>2, ReadMoves
  <2>6. CASE ~(b >= MsgEnd /\ Complete(b))
    <3>1. pc' = pc /\ (Keeps(h) => held' = taken') BY <2>1, <2>4, <2>6 DEF Stay
    <3>2. taken' >= taken BY <1>2, <2>1
    <3> QED BY <1>1, <2>1, <2>3, <3>1, <3>2, ReadStays
  <2> QED BY <2>5, <2>6
<1>7. CASE Parse
  <2>1. /\ h[pc].op = "read" /\ pc \in 1 .. Len(h) /\ taken >= MsgEnd /\ taken' = taken
        /\ pc' = pc + 1 /\ held' = IF h[pc].over = "spoil" THEN MsgEnd ELSE taken
    BY <1>7 DEF Parse, At, Complete, Step, TypeOK
  <2>2. Keeps(h) => held' = taken' BY <2>1 DEF Keeps
  <2>3. h[pc].op # "relay" BY <2>1
  <2> QED BY <1>1, <1>2, <1>4, <2>1, <2>2, <2>3, ReadMoves
<1>8. CASE pc' = pc + 1 /\ taken' = taken /\ held' = held /\ h[pc].op \notin {"read", "relay"}
  <2>1. taken >= MsgEnd BY <1>8, BetweenMessages
  <2> QED BY <1>1, <1>2, <1>3, <1>4, <1>8, <2>1, ReadMoves
<1>9. CASE Serving
  BY <1>5, <1>8, <1>9 DEF Serving, Check, Track, Answer, Datagrams, Connect, Relay, At, Step, Fail
<1>10. CASE ClientSend \/ ClientClose \/ TakeShort \/ TakeEof \/ TakeTimeout \/ TakeWouldBlock
            \/ UNCHANGED vars
  BY <1>5, <1>10 DEF ClientSend, ClientClose, TakeShort, TakeEof, TakeTimeout, TakeWouldBlock, vars
<1> QED BY <1>6, <1>7, <1>9, <1>10 DEF Next, Reading

\* A check that is passed is met, and no other step goes on at a check.
LEMMA Moves ==
  ASSUME TypeOK, [Next]_vars
  PROVE  \/ pc' = pc
         \/ pc' = pc + 1 /\ (h[pc].op = "check" => Meets(h[pc].what))
<1>1. CASE ClientSend \/ ClientClose \/ TakeShort \/ TakeEof \/ TakeTimeout \/ TakeWouldBlock
           \/ UNCHANGED vars
  BY <1>1 DEF ClientSend, ClientClose, TakeShort, TakeEof, TakeTimeout, TakeWouldBlock, vars
<1>2. CASE Parse BY <1>2 DEF Parse, At, Complete, Step
<1>3. CASE Check
  <2>1. CASE Meets(h[pc].what) BY <1>3, <2>1 DEF Check, Step
  <2>2. CASE ~Meets(h[pc].what) BY <1>3, <2>2 DEF Check
  <2> QED BY <2>1, <2>2
<1>4. CASE Track \/ Answer \/ Datagrams \/ Connect \/ Relay
  BY <1>4 DEF Track, Answer, Datagrams, Connect, Relay, At, Step
<1>5. CASE Take
  <2>1. \E b \in Arrived : Complete(b) \/ Stay \/ UNCHANGED <<pc, spoilt>> BY <1>5, TakeCases
  <2> QED BY <1>5, <2>1 DEF Complete, Step, Stay, Take, At
<1> QED BY <1>1, <1>2, <1>3, <1>4, <1>5 DEF Next, Reading, Serving

\* How a connection ends: at a failing step, with its datagrams, or in the relay.
LEMMA Outcomes ==
  ASSUME TypeOK, [Next]_vars
  PROVE  \/ UNCHANGED <<ended, seen>>
         \/ \E f \in {h[pc].fail, "drop"} : Fail(f, held', taken')
         \/ ended' = "packets" /\ Datagrams /\ pc' = pc
         \/ ended' = "relay" /\ Relay
<1>1. CASE ClientSend \/ ClientClose \/ UNCHANGED vars BY <1>1 DEF ClientSend, ClientClose, vars
<1>2. CASE Take
  <2>1. \E b \in Arrived :
          taken' = b /\ (Complete(b) \/ Stay \/ (Fail(h[pc].fail, b, b) /\ held' = b))
    BY <1>2, TakeCases
  <2> QED BY <2>1 DEF Complete, Step, Stay
<1>3. CASE Parse BY <1>3 DEF Parse, Complete, Step
<1>4. CASE TakeShort \/ TakeEof \/ TakeTimeout \/ TakeWouldBlock
  <2>1. Fail(h[pc].fail, held, taken) /\ held' = held /\ taken' = taken
    BY <1>4 DEF TakeShort, TakeEof, TakeTimeout, TakeWouldBlock
  <2> QED BY <2>1
<1>5. CASE Check
  <2>1. Step \/ Fail(h[pc].fail, held, taken) BY <1>5 DEF Check
  <2>2. held' = held /\ taken' = taken BY <1>5 DEF Check
  <2> QED BY <2>1, <2>2 DEF Step
<1>6. CASE Track \/ Answer BY <1>6 DEF Track, Answer, Step
<1>7. CASE Datagrams
  <2>1. Step \/ (ended' = "packets" /\ pc' = pc) \/ Fail("drop", held, taken)
    BY <1>7, Zenon DEF Datagrams
  <2>2. held' = held /\ taken' = taken BY <1>7 DEF Datagrams
  <2> QED BY <1>7, <2>1, <2>2 DEF Step
<1>8. CASE Connect
  <2>1. Step \/ Fail(h[pc].fail, held, taken) BY <1>8 DEF Connect
  <2>2. held' = held /\ taken' = taken BY <1>8 DEF Connect
  <2> QED BY <2>1, <2>2 DEF Step
<1>9. CASE Relay BY <1>9 DEF Relay
<1> QED BY <1>1, <1>2, <1>3, <1>4, <1>5, <1>6, <1>7, <1>8, <1>9 DEF Next, Reading, Serving

\* A connection that has ended is over.
LEMMA OverIsOver == ASSUME [Next]_vars, ended # "no" PROVE UNCHANGED vars
BY DEF Next, Reading, Serving, ClientSend, ClientClose, Take, Parse, TakeShort, TakeEof,
       TakeTimeout, TakeWouldBlock, Check, Track, Answer, Datagrams, Connect, Relay, At

LEMMA PassedStep == ASSUME TypeOK, PassedInv, [Next]_vars PROVE PassedInv'
<1>1. h' = h /\ req' = req BY SameRequest
<1>2. pc \in Nat BY AtPlace
<1>3. CASE pc' = pc BY <1>1, <1>3 DEF PassedInv
<1>4. CASE pc' = pc + 1 /\ (h[pc].op = "check" => Meets(h[pc].what))
  <2> SUFFICES ASSUME NEW i \in 1 .. pc' - 1, h[i].op = "check", h[i].what \notin {"tcp", "streamed"}
               PROVE  h[i].what \in req.has
    BY <1>1 DEF PassedInv
  <2>1. i \in 1 .. pc - 1 \/ i = pc BY <1>2, <1>4
  <2>2. CASE i = pc BY <1>4, <2>2 DEF Meets
  <2> QED BY <2>1, <2>2 DEF PassedInv
<1> QED BY <1>3, <1>4, Moves

LEMMA ServedStep == ASSUME TypeOK, ServedInv, [Next]_vars PROVE ServedInv'
<1>1. h' = h /\ req' = req BY SameRequest
<1>2. pc \in Nat /\ pc > 0 BY AtPlace
<1>3. pc' = pc \/ pc' = pc + 1 BY Moves
<1>4. pc' \in Nat /\ pc \in 1 .. pc' /\ 1 .. pc \subseteq 1 .. pc' BY <1>2, <1>3
<1>5. counted' = counted \/ h[pc].op = "count"
  BY DEF Next, Reading, Serving, ClientSend, ClientClose, Take, Parse, TakeShort, TakeEof,
         TakeTimeout, TakeWouldBlock, Check, Track, Answer, Datagrams, Connect, Relay, At, vars
<1>6. dialled' = dialled \/ h[pc].op = "dial"
  BY DEF Next, Reading, Serving, ClientSend, ClientClose, Take, Parse, TakeShort, TakeEof,
         TakeTimeout, TakeWouldBlock, Check, Track, Answer, Datagrams, Connect, Relay, At, vars
<1>7. counted' => \E i \in 1 .. pc' : h[i].op = "count"
  BY <1>4, <1>5 DEF ServedInv
<1>8. dialled' # "no" => \E i \in 1 .. pc' : h[i].op = "dial"
  BY <1>4, <1>6 DEF ServedInv
<1>9. ended' = "packets" => h[pc'].op = "packets" /\ h[pc'].rights \subseteq req.has
  <2> SUFFICES ASSUME ended' = "packets" PROVE h[pc'].op = "packets" /\ h[pc'].rights \subseteq req.has
    OBVIOUS
  <2>1. CASE ended # "no" BY <2>1, OverIsOver DEF vars, ServedInv
  <2>2. CASE ended = "no"
    <3>1. Datagrams /\ pc' = pc BY <2>2, Outcomes DEF Fail
    <3>2. h[pc].op = "packets" BY <3>1 DEF Datagrams, At
    <3>3. ~Step BY <2>2 DEF Step
    <3>4. ~Fail("drop", held, taken) BY DEF Fail
    <3>5. h[pc].rights \subseteq req.has
      <4> DEFINE same == req.cmd = h[pc].cmd   may == h[pc].rights \subseteq req.has
      <4>1. CASE ~same BY <3>1, <3>3, <4>1 DEF Datagrams
      <4>2. CASE same /\ ~may BY <3>1, <3>4, <4>2 DEF Datagrams
      <4> QED BY <4>1, <4>2
    <3> QED BY <3>1, <3>2, <3>5
  <2> QED BY <2>1, <2>2
<1> QED BY <1>1, <1>7, <1>8, <1>9 DEF ServedInv

LEMMA BodyStep == ASSUME TypeOK, ReadInv, BodyIsPassed, [Next]_vars PROVE BodyIsPassed'
<1>1. h' = h /\ req' = req BY SameRequest
<1>2. CASE UNCHANGED <<ended, seen>> BY <1>1, <1>2 DEF BodyIsPassed
<1>3. CASE ended' # "relay" BY <1>3 DEF BodyIsPassed
<1>4. CASE Relay
  <2> SUFFICES ASSUME ~(req.vision /\ h[Len(h)].vision.initial = "drop") PROVE seen'.held = seen'.next
    BY <1>1 DEF BodyIsPassed
  <2>1. h[pc].op = "relay" BY <1>4 DEF Relay, At
  <2>2. pc = Len(h) /\ Sound(h) BY <2>1, AtPlace
  <2>3. /\ h[pc].raw.initial = "forward" /\ h[pc].vision.initial \in {"forward", "drop"}
        /\ h[pc].passes \/ Exact(h)
    BY <2>2 DEF Sound, Passing
  <2> DEFINE rel == IF req.vision THEN h[pc].vision ELSE h[pc].raw
             kept == IF h[pc].passes /\ rel.initial = "forward" THEN taken ELSE MsgEnd
  <2>4. rel.initial = "forward" BY <2>2, <2>3
  <2>5. seen' = [from |-> MsgEnd, next |-> taken, form |-> "plain", rest |-> "plain", held |-> kept]
    BY <1>4 DEF Relay
  <2> HIDE DEF kept, rel
  <2>6. seen'.held = kept /\ seen'.next = taken BY <2>5
  <2>7. CASE h[pc].passes BY <2>4, <2>6, <2>7 DEF kept
  <2>8. CASE ~h[pc].passes
    <3>1. taken >= MsgEnd /\ taken <= MsgEnd BY <2>1, <2>3, <2>8, BetweenMessages
    <3>2. taken \in Nat /\ MsgEnd \in Nat
      <4>1. Total \in Nat /\ MsgEnd \in Nat BY AtPlace
      <4> QED BY <4>1 DEF TypeOK
    <3>3. taken = MsgEnd BY <3>1, <3>2
    <3>4. kept = MsgEnd BY <2>8 DEF kept
    <3> QED BY <2>6, <3>3, <3>4
  <2> QED BY <2>7, <2>8
<1> QED BY <1>2, <1>3, <1>4, Outcomes DEF Fail

LEMMA FallbackStep ==
  ASSUME TypeOK, ReadInv, ReadInv', FallbackIsWhole, [Next]_vars PROVE FallbackIsWhole'
<1>1. h' = h /\ req' = req BY SameRequest
<1>2. Asked("password")' = Asked("password") BY <1>1 DEF Asked
<1> SUFFICES ASSUME h \notin SpiderHandlers, ~Asked("password"), ended' = "fallback"
             PROVE  /\ seen'.held = seen'.next /\ seen'.form = seen'.rest
                    /\ seen'.form = "wire" => seen'.from = 0
                    /\ seen'.form = "plain" => seen'.from = MsgLen
  BY <1>1, <1>2 DEF FallbackIsWhole, WholeFallback
<1>3. CASE UNCHANGED <<ended, seen>> BY <1>3 DEF FallbackIsWhole, WholeFallback
<1>4. CASE \E f \in {h[pc].fail, "drop"} : Fail(f, held', taken')
  <2>1. PICK f \in {h[pc].fail, "drop"} : Fail(f, held', taken') BY <1>4
  <2>2. f \notin {"drop", "refuse"} /\ seen' = Handed(f, held', taken') BY <2>1 DEF Fail
  <2>3. f = h[pc].fail BY <2>1, <2>2
  <2>4. pc \in 1 .. Len(h) BY DEF TypeOK
  <2>5. Handing(h) BY AtPlace DEF Sound
  <2>6. \A i \in 1 .. Len(h) : ~Checks(h, i, "password") BY DEF Asked, Checks
  <2>7. /\ f = "wire" \/ (f = "plain" /\ ReadsOf(h, pc) = 2)
        /\ Keeps(h)
    BY <2>2, <2>3, <2>4, <2>5, <2>6 DEF Handing
  <2>8. held' = taken' BY <1>1, <2>7 DEF ReadInv
  <2>9. CASE f = "wire"
    <3>1. seen' = [from |-> 0, held |-> held', next |-> taken', form |-> "wire", rest |-> "wire"]
      BY <2>2, <2>9 DEF Handed
    <3> QED BY <2>8, <3>1
  <2>10. CASE f = "plain" /\ ReadsOf(h, pc) = 2
    <3>1. seen' = [from |-> MsgStart, held |-> held', next |-> taken', form |-> "plain", rest |-> "plain"]
      BY <2>2, <2>10 DEF Handed
    <3>2. MsgStart = MsgLen
      <4>1. Reads(pc) = 2 BY <2>10 DEF Reads, ReadsOf
      <4>2. MsgStart = MsgLen * (2 - 1) BY <4>1 DEF MsgStart
      <4> QED BY <4>2, Lengths
    <3> HIDE DEF MsgStart
    <3> QED BY <2>8, <3>1, <3>2
  <2> QED BY <2>7, <2>9, <2>10
<1> QED BY <1>3, <1>4, Outcomes

LEMMA SplitStep == ASSUME TypeOK, SplitIsHarmless, [Next]_vars PROVE SplitIsHarmless'
<1>1. h' = h /\ req' = req BY SameRequest
<1> SUFFICES ASSUME h \in FramedHandlers, Acceptable', ended' = "drop"
             PROVE  closed' \/ late' \/ dialled' = "failed"
  BY <1>1 DEF SplitIsHarmless
<1>2. CASE UNCHANGED vars
  <2>1. Acceptable' <=> Acceptable BY <1>2 DEF Acceptable, Meets, vars
  <2> QED BY <1>1, <1>2, <2>1 DEF vars, SplitIsHarmless
<1>3. CASE ended # "no" BY <1>2, <1>3, OverIsOver
<1> SUFFICES ASSUME ended = "no", Next PROVE closed' \/ late' \/ dialled' = "failed"
  BY <1>2, <1>3
<1>4. pc \in 1 .. Len(h) BY DEF TypeOK
<1>5. h[pc].op = "read" => h[pc].how \in {"until", "exact"} /\ ~h[pc].fragile
  BY <1>4, FramedHandlersRead DEF Framing
<1>6. CASE ClientSend \/ ClientClose BY <1>6 DEF ClientSend, ClientClose
<1>7. CASE Take
  <2>1. h[pc].how \in {"until", "exact"} BY <1>5, <1>7 DEF Take, At
  <2>2. \E b \in Arrived : Complete(b) \/ Stay \/ h[pc].how \in {"once", "second"}
    BY <1>7, TakeCases
  <2> QED BY <2>1, <2>2 DEF Complete, Step, Stay
<1>8. CASE Parse BY <1>8 DEF Parse, Complete, Step
<1>9. CASE TakeShort BY <1>5, <1>9 DEF TakeShort, At
<1>10. CASE TakeEof BY <1>10 DEF TakeEof, client
<1>11. CASE TakeTimeout BY <1>11 DEF TakeTimeout
<1>12. CASE TakeWouldBlock BY <1>5, <1>12 DEF TakeWouldBlock, At
<1>13. CASE Check
  <2>1. h[pc].op = "check" /\ spoilt' = spoilt BY <1>13 DEF Check, At
  <2>2. \A i \in 1 .. Len(h) : h[i].op = "check" => Meets(h[i].what)
    <3>1. Acceptable BY <1>1, <2>1 DEF Acceptable, Meets
    <3> QED BY <3>1 DEF Acceptable
  <2>3. Meets(h[pc].what) BY <1>4, <2>1, <2>2
  <2> QED BY <1>13, <2>3 DEF Check, Step
<1>14. CASE Track \/ Answer BY <1>14 DEF Track, Answer, Step
<1>15. CASE Datagrams
  <2> DEFINE same == req.cmd = h[pc].cmd   may == h[pc].rights \subseteq req.has
  <2>1. ~same \/ may BY <1>1, <1>4, <1>15 DEF Acceptable, Datagrams, At
  <2>2. CASE ~same BY <1>15, <2>2 DEF Datagrams, Step
  <2>3. CASE same /\ may BY <1>15, <2>3 DEF Datagrams
  <2> QED BY <2>1, <2>2, <2>3
<1>16. CASE Connect BY <1>16 DEF Connect, Step
<1>17. CASE Relay BY <1>17 DEF Relay
<1> QED BY <1>6, <1>7, <1>8, <1>9, <1>10, <1>11, <1>12, <1>13, <1>14, <1>15, <1>16, <1>17
       DEF Next, Reading, Serving

-----------------------------------------------------------------------------
(* Theorems *)

LEMMA InvStep == IInv /\ [Next]_vars => IInv'
<1> SUFFICES ASSUME IInv, [Next]_vars PROVE IInv' OBVIOUS
<1>1. TypeOK' BY TypeStep DEF IInv
<1>2. ReadInv' BY ReadStep DEF IInv
<1>3. PassedInv' BY PassedStep DEF IInv
<1>4. ServedInv' BY ServedStep DEF IInv
<1>5. BodyIsPassed' BY BodyStep DEF IInv
<1>6. FallbackIsWhole' BY <1>2, FallbackStep DEF IInv
<1>7. SplitIsHarmless' BY SplitStep DEF IInv
<1> QED BY <1>1, <1>2, <1>3, <1>4, <1>5, <1>6, <1>7 DEF IInv

\* The inductive invariant of a connection, from its first byte to the relay.
THEOREM Invariance == Spec => []IInv
BY InvInit, InvStep, PTL DEF Spec

\* The handler's place, its counts of units and its results stay in their types.
THEOREM TypeCorrect == Spec => []TypeOK
<1>1. IInv => TypeOK BY DEF IInv
<1> QED BY <1>1, Invariance, PTL

\* What a handler counts, dials or relays lies behind the checks that vouch for it.
LEMMA ServedIsVouched == IInv => OnlyAdmitted
<1> SUFFICES ASSUME IInv PROVE OnlyAdmitted OBVIOUS
<1>1. TypeOK /\ PassedInv /\ ServedInv BY DEF IInv
<1>2. Vouched(h) /\ pc \in Nat /\ Len(h) \in Nat /\ pc \in 1 .. Len(h)
  BY <1>1, AtPlace DEF Sound, TypeOK
<1>3. ASSUME counted \/ dialled # "no" \/ ended = "packets"
      PROVE  /\ \A what \in {"hello", "password"} : Asked(what) => what \in req.has
             /\ "cred" \in req.has \/ h = handle_sing_stream_socks
  <2>1. PICK i \in 1 .. pc : h[i].op \in ServingOps
    BY <1>1, <1>2, <1>3 DEF ServedInv, ServingOps
  <2>2. i \in 1 .. Len(h) /\ \A j \in 1 .. Len(h) : j < i => j \in 1 .. pc - 1 BY <1>2
  <2>3. 1 .. i - 1 \subseteq 1 .. pc - 1 BY <1>2
  <2>4. ASSUME NEW what \in {"hello", "password"}, Asked(what) PROVE what \in req.has
    <3>1. PICK j \in 1 .. Len(h) : Checks(h, j, what) BY <2>4 DEF Asked, Checks
    <3>2. j \in 1 .. pc - 1 BY <1>2, <2>1, <2>2, <2>4, <3>1 DEF Vouched
    <3>3. h[j].op = "check" /\ h[j].what = what BY <3>1 DEF Checks
    <3> QED BY <1>1, <2>4, <3>2, <3>3 DEF PassedInv
  <2>5. "cred" \in req.has \/ h = handle_sing_stream_socks
    <3>1. (\E j \in 1 .. i - 1 : Checks(h, j, "cred")) \/ h = handle_sing_stream_socks
      BY <1>2, <2>1, <2>2 DEF Vouched
    <3>2. ASSUME NEW j \in 1 .. i - 1, Checks(h, j, "cred") PROVE "cred" \in req.has
      BY <1>1, <2>3, <3>2 DEF PassedInv, Checks
    <3> QED BY <3>1, <3>2
  <2> QED BY <2>4, <2>5
<1>4. ASSUME ended = "packets", AsksRights PROVE "udp" \in req.has
  <2>1. h[pc].op = "packets" /\ h[pc].rights \subseteq req.has BY <1>1, <1>4 DEF ServedInv
  <2>2. PICK k \in 1 .. Len(h) : h[k].op = "packets" /\ h[k].rights # {} BY <1>4 DEF AsksRights
  <2>3. "udp" \in h[pc].rights BY <1>2, <2>1, <2>2 DEF Vouched, ServingOps
  <2> QED BY <2>1, <2>3
<1> QED BY <1>3, <1>4 DEF OnlyAdmitted

\* Every handler of the server counts, dials and relays datagrams only for a client
\* that has passed its handshake, its password and the look-up of its user, and
\* datagrams only with the right to them.
THEOREM NobodyUnproved == Spec => []OnlyAdmitted
BY ServedIsVouched, Invariance, PTL

\* However the request and the bytes behind it come in, the relay gets all that its
\* handler has read beyond the request.
THEOREM BodiesArePassed == Spec => []BodyIsPassed
<1>1. IInv => BodyIsPassed BY DEF IInv
<1> QED BY <1>1, Invariance, PTL

\* A fallback destination gets the connection, or its decrypted stream, from the
\* first byte, without a gap and in one form, at whatever step the handler fails.
THEOREM FallbacksAreWhole == Spec => []FallbackIsWhole
<1>1. IInv => FallbackIsWhole BY DEF IInv
<1> QED BY <1>1, Invariance, PTL

\* A handler whose protocol delimits its request drops a good one only when the
\* client ends or goes silent, or the target cannot be reached, for every length of
\* a message and every way it is cut.
THEOREM SplitsAreHarmless == Spec => []SplitIsHarmless
<1>1. IInv => SplitIsHarmless BY DEF IInv
<1> QED BY <1>1, Invariance, PTL

=============================================================================
