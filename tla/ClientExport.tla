---------------------------- MODULE ClientExport ----------------------------
(***************************************************************************)
(* What the client tools make of a configuration file: the profile they    *)
(* take it for, the endpoint model, and the client configurations of the   *)
(* four formats.  None of them validates the file.                         *)
(*                                                                         *)
(* A client is [proto, wire, sec, verify, cred, path, host, obfs, udp]:    *)
(* what it speaks over which carrier under which security; verify: whether *)
(* it has to trust the server's certificate; cred: "own" if it has         *)
(* the credentials of the file, "default" those built in, "swapped" the    *)
(* server's own private key with the public key of the peer; path, host,   *)
(* obfs: the carrier's; udp: whether it sends datagrams.                   *)
(***************************************************************************)
EXTENDS ServerConfig

detect_profile(c) ==
  FirstOf(c, <<"reality", "anytls", "websocket", "httpupgrade", "grpc", "xhttp", "meek",
               "gdocsviewer", "quic", "kcp", "webtransport", "shadowtls", "vmess", "shadowsocks",
               "trojan", "hysteria2", "tuic", "mixed", "wireguard", "naive", "snell">>
             \o ExperimentalOrder \o <<"tls">>, "raw")

resolve_outer_security(c, p) ==
  CASE p = "reality" -> "reality"
    [] p \in {"anytls", "tls", "quic", "webtransport", "shadowtls", "trojan", "hysteria2",
              "tuic", "naive"} -> "tls"
    [] p \in StreamFramings -> IF Is(c, p, TlsTable) THEN "tls" ELSE "none"
    [] OTHER -> "none"

\* A profile with a dest of its own, or in its tls table.
has_configured_fallback_destination(c, p) ==
  /\ p \in VlessTransports \cup {"trojan", "hysteria2", "tuic", "naive"}
  /\ p # "kcp" /\ Is(c, p, {"dest"})

(* --------------------------- endpoint/model.rs -------------------------- *)
Both == {"tcp", "udp"}

vless_model(vision, transport, sec, camouflage) ==
  [protocol |-> "vless", payload |-> IF vision THEN {"tcp"} ELSE Both,
   transport |-> transport, sec |-> sec,
   components |-> camouflage \cup (IF vision THEN {"vision"} ELSE {})]

\* The profiles that are VLESS with a carrier or a security layer.
vless_profile(p, sec, vision) ==
  CASE p \in {"reality", "tls", "raw"} -> vless_model(vision, "raw", sec, {})
    [] p \in {"anytls", "shadowtls"} -> vless_model(vision, "raw", sec, {p})
    [] p \in {"meek", "gdocsviewer"} -> vless_model(FALSE, p, sec, {})
    [] OTHER -> vless_model(vision, p, sec, {})

\* The protocols of their own.
protocol_profile(p) ==
  [protocol |-> p,
   payload |-> CASE p \in {"vmess", "mixed", "naive", "snell"} -> {"tcp"}
                 [] p = "wireguard" -> {"ip"}
                 [] OTHER -> Both,
   transport |-> CASE p \in {"shadowsocks", "trojan", "snell"} -> "raw"
                   [] p \in {"hysteria2", "tuic"} -> "quic"
                   [] p = "naive" -> "h2connect"
                   [] OTHER -> "none",
   sec |-> IF p \in {"trojan", "hysteria2", "tuic", "naive"} THEN "tls" ELSE "none",
   components |-> {}]

experimental_profile(p) ==
  [protocol |-> p,
   payload |-> IF p \in {"masque", "brook", "vlite", "juicity", "mieru", "shadowquic"}
               THEN Both ELSE {"tcp"},
   transport |-> IF p \in {"masque", "juicity", "shadowquic"} THEN "quic" ELSE "raw",
   sec |-> CASE p \in {"masque", "juicity", "shadowquic"} -> "tls"
             [] p = "anytls_reality" -> "reality"
             [] OTHER -> "none",
   components |-> {}]

build_endpoint_model(c, p, vision) ==
  LET m == CASE IsVless(p) -> vless_profile(p, resolve_outer_security(c, p), vision)
             [] p \in NonVless -> protocol_profile(p)
             [] OTHER -> experimental_profile(p)
      quiet == Is(c, p, {"noudp"}) /\ p \in {"shadowsocks", "hysteria2"}
      more == (IF Is(c, p, {"salamander", "gecko"}) THEN {c.on[p]} ELSE {})
              \cup (IF Is(c, p, {"outbound"}) THEN {"routed"} ELSE {})
              \cup (IF p = "naive" THEN {"padding"} ELSE {})
              \cup (IF has_configured_fallback_destination(c, p) THEN {"fallback"} ELSE {})
  IN  [m EXCEPT !.payload = IF quiet THEN {"tcp"} ELSE @, !.components = @ \cup more]

(* -------------------------- endpoint/registry.rs ------------------------ *)
\* forbids: the layers the protocol may not have; allows: its components.
Descriptor(forbids, allows) == [forbids |-> forbids, allows |-> allows]

vless_descriptor == Descriptor({}, {"anytls", "shadowtls", "vision", "fallback"})
tcp_descriptor(proto) ==
  IF proto = "trojan" THEN Descriptor({}, {"fallback"}) ELSE Descriptor({"sec"}, {})
quic_descriptor(proto) ==
  Descriptor({}, {"fallback"} \cup (IF proto = "hysteria2" THEN {"salamander", "gecko"} ELSE {}))
service_descriptor(proto) ==
  CASE proto = "mixed" -> Descriptor({"transport", "sec"}, {})
    [] proto = "wireguard" -> Descriptor({"transport", "sec"}, {"routed"})
    [] proto = "naive" -> Descriptor({}, {"padding", "fallback"})
    [] proto = "snell" -> Descriptor({"sec"}, {})
experimental_descriptor(proto) ==
  IF proto \in {"masque", "juicity", "shadowquic", "anytls_reality"}
  THEN Descriptor({}, {}) ELSE Descriptor({"sec"}, {})

protocol_descriptor(proto) ==
  CASE proto = "vless" -> vless_descriptor
    [] proto \in {"vmess", "shadowsocks", "trojan"} -> tcp_descriptor(proto)
    [] proto \in {"hysteria2", "tuic"} -> quic_descriptor(proto)
    [] proto \in {"mixed", "wireguard", "naive", "snell"} -> service_descriptor(proto)
    [] OTHER -> experimental_descriptor(proto)

(* ------------------------- client_config/profile.rs --------------------- *)
Flow(c) == CASE c.user = "vision" -> "vision" [] OTHER -> c.flow

\* What is the same in all formats.
resolve_client_values(c) ==
  LET p == detect_profile(c)
  IN  [endpoint |-> build_endpoint_model(c, p, Flow(c) = "vision"),
       uuid |-> IF p # "vmess" /\ ~has_vless_users(c) THEN "default" ELSE "own",
       keys |-> IF Is(c, "reality", {"noshort", "badkey"}) THEN "default" ELSE "own",
       xhttp_host |-> Is(c, "xhttp", {"host"})]

validate_component_support(e, d) == e.components \subseteq d.allows

\* Mutant: the formats without a writer for Meek and Google Docs are not refused.
validate_client_format_support_AnyCarrier(f, v) ==
  LET e == v.endpoint IN
  /\ e.protocol \in {"vless", "vmess", "shadowsocks", "trojan", "hysteria2", "tuic", "wireguard"}
  /\ e.protocol \in {"wireguard", "hysteria2", "tuic"} => f # "xray"

validate_client_format_support(f, v) ==
  LET e == v.endpoint
      d == protocol_descriptor(e.protocol)
  IN  /\ "transport" \in d.forbids => e.transport = "none"
      /\ "sec" \in d.forbids => e.sec = "none"
      /\ validate_component_support(e, d)
      /\ e.protocol \in {"vless", "vmess", "shadowsocks", "trojan", "hysteria2", "tuic",
                         "wireguard"}
      /\ e.protocol = "vless" =>
           /\ e.transport \in {"meek", "gdocsviewer"} => f = "xray"
           /\ e.transport # "webtransport"
           /\ "anytls" \in e.components => f \in {"mihomo", "singbox"}
      /\ e.protocol \in {"wireguard", "hysteria2", "tuic"} => f # "xray"

(* --------------------------- client_config/mod.rs ----------------------- *)
\* Every format switches the verification of certificates off.
Client(proto, wire, sec, cred, udp) ==
  [proto |-> proto, wire |-> wire, sec |-> sec, verify |-> FALSE, cred |-> cred, path |-> "/p",
   host |-> FALSE, obfs |-> "none", udp |-> udp]

\* The protocols of their own are written alike by every format, and so is AnyTLS,
\* which needs no user.  No format writes the obfuscation of Hysteria2.
\* And none limits them to TCP.
simple_outbound(v) ==
  LET e == v.endpoint IN
  IF "anytls" \in e.components THEN Client("anytls", "raw", "tls", "own", TRUE)
  ELSE Client(e.protocol, "raw", e.sec, IF e.protocol = "wireguard" THEN "swapped" ELSE "own",
              TRUE)

IsSimple(v) == v.endpoint.protocol # "vless" \/ "anytls" \in v.endpoint.components

Cred(v) == IF v.endpoint.sec = "reality" /\ v.keys = "default" THEN "default" ELSE v.uuid

mihomo_format(v) ==
  LET e == v.endpoint IN
  IF IsSimple(v) THEN simple_outbound(v)
  ELSE [Client("vless", e.transport, e.sec, Cred(v), TRUE)
          EXCEPT !.host = v.xhttp_host /\ e.transport = "xhttp"]

singbox_tls(v) == IF "shadowtls" \in v.endpoint.components THEN "shadowtls" ELSE v.endpoint.sec

enabled_payload_network_field(v) == "udp" \in v.endpoint.payload

\* sing-box has no carrier for mKCP, and its "http" carrier for XHTTP.
singbox_format(v) ==
  LET t == v.endpoint.transport IN
  IF IsSimple(v) THEN simple_outbound(v)
  ELSE [Client("vless", CASE t = "kcp" -> "raw" [] t = "xhttp" -> "http" [] OTHER -> t,
               singbox_tls(v), Cred(v), enabled_payload_network_field(v))
          EXCEPT !.host = v.xhttp_host /\ t = "xhttp"]

xray_format(v) ==
  LET t == v.endpoint.transport IN
  IF IsSimple(v) THEN simple_outbound(v)
  ELSE [Client("vless", IF t \in {"meek", "gdocsviewer"} THEN "raw" ELSE t,
               v.endpoint.sec, Cred(v), TRUE) EXCEPT !.host = v.xhttp_host /\ t = "xhttp"]

hiddify_format(v) ==
  IF ~IsSimple(v) /\ v.endpoint.transport = "xhttp" THEN xray_format(v) ELSE singbox_format(v)

ClientFormat == {"mihomo", "singbox", "xray", "hiddify"}

NoClient == [proto |-> "none"]

generate_client_config(f, c) ==
  LET v == resolve_client_values(c) IN
  IF ~validate_client_format_support(f, v) THEN NoClient ELSE
  CASE f = "mihomo" -> mihomo_format(v)
    [] f = "singbox" -> singbox_format(v)
    [] f = "xray" -> xray_format(v)
    [] OTHER -> hiddify_format(v)

(* ------------------------------ the meeting ----------------------------- *)
\* A certificate the server has signed itself is trusted by nobody.
Trusted(c) == Is(c, Served(c), {"cert"})

\* Whether the server of c lets this client use it, and the client wants to.
Fits(c, k) ==
  LET l == Listening(c) IN
  /\ k.verify => Trusted(c)
  /\ CASE k.proto = "anytls" -> Served(c) = "anytls"
       [] k.proto # "anytls" /\ l.proto # "vless" ->
            k.proto = l.proto /\ k.cred = "own" /\ k.obfs = l.obfs
       [] OTHER ->
            /\ k.proto = "vless" /\ k.wire = l.wire /\ k.cred = "own" /\ l.known
            /\ l.wire \in {"quic", "webtransport"} \/ k.sec = l.sec
            /\ l.path = "/p" /\ k.path = "/p" /\ (l.host => k.host)
=============================================================================
