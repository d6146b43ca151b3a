---------------------------- MODULE ServerConfig ----------------------------
(***************************************************************************)
(* The configuration file of the server: which files it accepts, and what  *)
(* it then serves.                                                         *)
(*                                                                         *)
(* A configuration is [on, user, flow]: on maps each section of the file   *)
(* to what is remarkable about it ("plain" if nothing is), user is what is *)
(* remarkable about [[users]], flow the flow for users without their own.  *)
(* Values of fields are left out but for the cases the code tells apart.   *)
(***************************************************************************)
EXTENDS Naturals, FiniteSets, Sequences, TLC

(* ------------------------------ the sections ---------------------------- *)
\* dest: with a fallback destination (where TLS is an option: and so with TLS)
\* badcert: a certificate that is no PEM.  bare: a path without its slash.
\* host: only requests for one host.       noudp: UDP is switched off.
\* cert: a certificate that clients trust, without which the server signs its own.
\* insecure: its TLS table tells clients not to verify (the server ignores that).
RealityServerConfig == {"plain", "dest", "noshort", "badkey"}
AnyTlsServerConfig  == {"plain", "dest", "badcert"}
TlsServerConfig     == {"plain", "dest", "badcert", "cert", "insecure"}
ShadowsocksServerConfig == {"plain", "noudp", "badmethod", "longprefix", "badpsk"}
MixedServerConfig   == {"plain", "creds", "half", "badcreds"}
TrojanServerConfig  == {"plain", "users", "empty", "nobody", "dest", "badcert", "cert", "insecure"}
WebSocketServerConfig   == {"plain", "tls", "dest", "badcert", "cert", "insecure", "bare", "host"}
HttpUpgradeServerConfig == {"plain", "tls", "dest", "badcert", "cert", "insecure", "bare", "host", "early"}
GrpcServerConfig        == {"plain", "tls", "dest", "badcert", "cert", "insecure"}
XhttpServerConfig       == {"plain", "tls", "dest", "badcert", "cert", "insecure", "bare", "host"}
MeekServerConfig        == {"plain", "tls", "dest", "badcert", "bare", "host"}
GdocsViewerServerConfig == {"plain", "tls", "dest", "badcert", "bare", "badkey"}
WireGuardServerConfig == {"plain", "outbound", "nopeers", "noforwards", "badkey", "badcidr",
                          "badaddress", "nokey", "noip"}
Hysteria2ServerConfig == {"plain", "users", "empty", "nobody", "salamander", "gecko", "badobfs",
                          "shortobfs", "badsizes", "noudp", "dest", "badcert"}
TuicServerConfig  == {"plain", "nobody", "badcc", "empty", "baduuid", "dest", "badcert"}
QuicServerConfig  == {"plain", "dest", "noudp", "badcert"}
KcpServerConfig   == {"plain", "badmtu"}
WebTransportServerConfig == {"plain", "dest", "noudp", "bare", "host", "badcert"}
VmessServerConfig == {"plain", "nobody", "baduuid", "twice"}
NaiveServerConfig == {"plain", "nobody", "badcred", "badheader", "badtoken", "dest", "badcert"}
SnellServerConfig == {"plain", "nopsk", "badversion"}
ShadowTlsServerConfig == {"plain", "dest", "badcert"}

Experimental ==
  {"lua", "masque", "trusttunnel", "brook", "vlite", "tor", "ssh", "juicity", "mieru",
   "sudoku", "vless_encryption", "shadowquic", "anytls_reality"}

\* nobody: no user; mute: may not use UDP; twice: two users with one e-mail.
UserConfig == {"nobody", "plain", "vision", "mute", "badid", "badflow", "twice"}

Config ==
  [reality |-> RealityServerConfig, anytls |-> AnyTlsServerConfig, tls |-> TlsServerConfig,
   shadowsocks |-> ShadowsocksServerConfig, mixed |-> MixedServerConfig,
   trojan |-> TrojanServerConfig, websocket |-> WebSocketServerConfig,
   httpupgrade |-> HttpUpgradeServerConfig, grpc |-> GrpcServerConfig,
   xhttp |-> XhttpServerConfig, meek |-> MeekServerConfig,
   gdocsviewer |-> GdocsViewerServerConfig, wireguard |-> WireGuardServerConfig,
   hysteria2 |-> Hysteria2ServerConfig, tuic |-> TuicServerConfig, quic |-> QuicServerConfig,
   kcp |-> KcpServerConfig, webtransport |-> WebTransportServerConfig,
   shadowtls |-> ShadowTlsServerConfig, vmess |-> VmessServerConfig,
   naive |-> NaiveServerConfig, snell |-> SnellServerConfig] @@ [s \in Experimental |-> {"plain"}]

(* ------------------------------- validate ------------------------------- *)
Has(c, S)   == DOMAIN c.on \cap S # {}
Is(c, s, Q) == Has(c, {s}) /\ c.on[s] \in Q

has_vless_users(c) == c.user # "nobody"

Datagrams == {"quic", "kcp", "webtransport"}
StreamFramings == {"websocket", "httpupgrade", "grpc", "xhttp", "meek", "gdocsviewer"}
TlsLayers == {"reality", "anytls", "tls", "shadowtls"}
VlessTransports == TlsLayers \cup StreamFramings \cup Datagrams
NonVless == {"shadowsocks", "mixed", "trojan", "hysteria2", "tuic", "vmess", "wireguard",
             "naive", "snell"}
Sections == VlessTransports \cup NonVless \cup Experimental

UsersAreValid(c) == c.user \notin {"badid", "badflow"}

AtMostOneInbound(c) ==
  Cardinality(DOMAIN c.on \cap (NonVless \cup {"xhttp"} \cup Experimental)) <= 1

check_non_vless_no_users(c) == ~has_vless_users(c)
check_non_vless_no_transports(c) == ~Has(c, VlessTransports)
Alone(c) == check_non_vless_no_users(c) /\ check_non_vless_no_transports(c)

ShadowsocksIsValid(c) ==
  Has(c, {"shadowsocks"}) => Alone(c) /\ ~Is(c, "shadowsocks", {"badmethod", "longprefix"})
MixedIsValid(c) ==
  Has(c, {"mixed"}) => Alone(c) /\ ~Is(c, "mixed", {"half", "badcreds"})
TrojanIsValid(c) ==
  Has(c, {"trojan"}) => Alone(c) /\ ~Is(c, "trojan", {"empty", "nobody"})
\* The list the code tests here leaves out tuic, which the count excludes.
Hysteria2IsValid(c) ==
  Has(c, {"hysteria2"}) =>
    /\ Alone(c) /\ ~Has(c, NonVless \ {"hysteria2", "tuic"})
    /\ ~Is(c, "hysteria2", {"empty", "nobody", "badobfs", "shortobfs", "badsizes"})
TuicIsValid(c) ==
  Has(c, {"tuic"}) =>
    /\ Alone(c) /\ ~Has(c, NonVless \ {"tuic"})
    /\ ~Is(c, "tuic", {"nobody", "badcc", "empty", "baduuid"})
VmessIsValid(c) ==
  Has(c, {"vmess"}) => Alone(c) /\ ~Is(c, "vmess", {"nobody", "baduuid", "twice"})
WireGuardIsValid(c) ==
  Has(c, {"wireguard"}) =>
    /\ Alone(c) /\ ~Has(c, NonVless \ {"wireguard"})
    /\ ~Is(c, "wireguard", {"nopeers", "noforwards", "badkey", "badcidr", "badaddress"})
NaiveIsValid(c) ==
  Has(c, {"naive"}) =>
    /\ Alone(c) /\ ~Has(c, NonVless \ {"naive"})
    /\ ~Is(c, "naive", {"nobody", "badcred", "badheader"})
SnellIsValid(c) ==
  Has(c, {"snell"}) =>
    /\ Alone(c) /\ ~Has(c, NonVless \ {"snell"})
    /\ ~Is(c, "snell", {"nopsk", "badversion"})

\* Mutant: a framing carrier is accepted below a TLS layer.
check_framing_transport_Layered(c, s) ==
  ~Has(c, NonVless \cup (StreamFramings \ {s}) \cup {"quic", "kcp"})

check_framing_transport(c, s) ==
  /\ ~Has(c, NonVless \cup (StreamFramings \ {s}) \cup {"quic", "kcp"})
  /\ ~Has(c, TlsLayers)

FramingsAreValid(c) ==
  \A s \in StreamFramings : Has(c, {s}) =>
    /\ check_framing_transport(c, s)
    /\ s \in {"websocket", "httpupgrade"} \/ has_vless_users(c)
    /\ ~Is(c, s, {"early", "badkey"})

check_datagram_transport(c, s) ==
  /\ ~Has(c, NonVless \cup StreamFramings)
  /\ ~Has(c, TlsLayers \cup (Datagrams \ {s}))
  /\ has_vless_users(c)

DatagramsAreValid(c) == \A s \in Datagrams : Has(c, {s}) => check_datagram_transport(c, s)

ShadowTlsIsValid(c) ==
  Has(c, {"shadowtls"}) =>
    /\ ~Has(c, NonVless \cup StreamFramings \cup Datagrams)
    /\ ~Has(c, {"reality", "anytls", "tls"})
    /\ has_vless_users(c)

validate(c) ==
  /\ UsersAreValid(c) /\ AtMostOneInbound(c)
  /\ ShadowsocksIsValid(c) /\ MixedIsValid(c) /\ TrojanIsValid(c) /\ Hysteria2IsValid(c)
  /\ TuicIsValid(c) /\ VmessIsValid(c) /\ WireGuardIsValid(c) /\ NaiveIsValid(c)
  /\ SnellIsValid(c) /\ FramingsAreValid(c) /\ DatagramsAreValid(c) /\ ShadowTlsIsValid(c)

(* -------------------- what a section is turned into --------------------- *)
\* ok: it could be parsed.  sec, path, host: what a client has to use; "/p" is a
\* path that a request can have, "p" one without the slash, which none has.
Plain == [ok |-> TRUE, sec |-> "none", path |-> "/p", host |-> FALSE]
Under(sec, q) == [Plain EXCEPT !.ok = q # "badcert", !.sec = sec]
\* TLS where it is an option of the section
TlsTable  == {"tls", "dest", "badcert", "cert", "insecure"}
Within(q) == Under(IF q \in TlsTable THEN "tls" ELSE "none", q)

parse_reality_config(q) == [Plain EXCEPT !.ok = q # "badkey", !.sec = "reality"]
parse_anytls_config(q)  == Under("anytls", q)
parse_tls_config(q)     == Under("tls", q)
parse_shadowtls_config(q)   == Under("shadowtls", q)
parse_shadowsocks_config(q) == [Plain EXCEPT !.ok = q # "badpsk"]
parse_mixed_config(q)   == Plain
parse_trojan_config(q)  == Under("tls", q)
parse_ws_config(q)      == [Within(q) EXCEPT !.host = q = "host"]
parse_httpupgrade_config(q) == [Within(q) EXCEPT !.host = q = "host"]
parse_grpc_config(q)    == Within(q)
\* The path is taken as it stands.
parse_xhttp_config(q)   ==
  [Within(q) EXCEPT !.host = q = "host", !.path = IF q = "bare" THEN "p" ELSE "/p"]
parse_meek_config(q)    == [Within(q) EXCEPT !.host = q = "host"]
parse_gdocsviewer_config(q) == Within(q)
parse_wireguard_config(q)   == Plain
parse_hysteria2_config(q)   == Under("tls", q)
parse_tuic_config(q)    == Under("tls", q)
parse_quic_config(q)    == Under("tls", q)
parse_kcp_config(q)     == [Plain EXCEPT !.ok = q # "badmtu"]
parse_webtransport_config(q) == [Under("tls", q) EXCEPT !.host = q = "host"]
parse_vmess_handler_config(q) == Plain
parse_naive_config(q)   == [Under("tls", q) EXCEPT !.ok = q \notin {"badtoken", "badcert"}]
parse_snell_config(q)   == Plain

Parsed(s, q) ==
  CASE s = "reality" -> parse_reality_config(q)
    [] s = "anytls" -> parse_anytls_config(q)
    [] s = "tls" -> parse_tls_config(q)
    [] s = "shadowtls" -> parse_shadowtls_config(q)
    [] s = "shadowsocks" -> parse_shadowsocks_config(q)
    [] s = "mixed" -> parse_mixed_config(q)
    [] s = "trojan" -> parse_trojan_config(q)
    [] s = "websocket" -> parse_ws_config(q)
    [] s = "httpupgrade" -> parse_httpupgrade_config(q)
    [] s = "grpc" -> parse_grpc_config(q)
    [] s = "xhttp" -> parse_xhttp_config(q)
    [] s = "meek" -> parse_meek_config(q)
    [] s = "gdocsviewer" -> parse_gdocsviewer_config(q)
    [] s = "wireguard" -> parse_wireguard_config(q)
    [] s = "hysteria2" -> parse_hysteria2_config(q)
    [] s = "tuic" -> parse_tuic_config(q)
    [] s = "quic" -> parse_quic_config(q)
    [] s = "kcp" -> parse_kcp_config(q)
    [] s = "webtransport" -> parse_webtransport_config(q)
    [] s = "vmess" -> parse_vmess_handler_config(q)
    [] s = "naive" -> parse_naive_config(q)
    [] s = "snell" -> parse_snell_config(q)
    [] OTHER -> Plain

\* MemoryValidator::add refuses the second user with an e-mail.
add(c) == c.user # "twice"

new(c) == validate(c) /\ (\A s \in DOMAIN c.on : Parsed(s, c.on[s]).ok) /\ add(c)

(* ----------------------------- what is served --------------------------- *)
\* The first section of order that the file has, or else.
FirstOf(c, order, else) ==
  LET at == {i \in 1..Len(order) : Has(c, {order[i]})}
  IN  IF at = {} THEN else ELSE order[CHOOSE i \in at : \A j \in at : i <= j]

ExperimentalOrder ==
  <<"lua", "masque", "trusttunnel", "brook", "vlite", "tor", "ssh", "juicity", "mieru",
    "sudoku", "vless_encryption", "shadowquic", "anytls_reality">>

\* The order in which a connection is given to a handler.
run_with_listener(c) ==
  FirstOf(c, <<"reality", "anytls", "shadowtls", "websocket", "httpupgrade", "grpc", "xhttp",
               "meek", "gdocsviewer", "tls", "shadowsocks", "mixed", "trojan", "vmess", "naive",
               "snell">> \o ExperimentalOrder, "raw")

run_until_shutdown(c) ==
  FirstOf(c, <<"hysteria2", "tuic", "quic", "kcp", "webtransport", "wireguard">>,
          run_with_listener(c))

Served(c) == run_until_shutdown(c)
IsVless(s) == s \in VlessTransports \cup {"raw"}

\* What a client needs to be served: the protocol, what carries it, the security
\* around it, and the rest of the section.
Wire(s) == IF s \in TlsLayers \cup NonVless THEN "raw" ELSE s
Listening(c) ==
  LET s == Served(c)
      p == IF s = "raw" THEN Plain ELSE Parsed(s, c.on[s])
  IN  [proto |-> IF IsVless(s) THEN "vless" ELSE s, wire |-> Wire(s), sec |-> p.sec,
       path |-> p.path, host |-> p.host,
       obfs |-> IF Is(c, "hysteria2", {"salamander", "gecko"}) THEN c.on["hysteria2"] ELSE "none",
       \* whether any client is known to it at all
       known |-> IF IsVless(s) THEN has_vless_users(c) /\ ~Is(c, "reality", {"noshort"})
                 ELSE TRUE]
=============================================================================
