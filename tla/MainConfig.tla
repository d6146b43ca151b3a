----------------------------- MODULE MainConfig -----------------------------
(***************************************************************************)
(* generate-main-config: a list of protocol components, as the user writes *)
(* it, is turned into one configuration file, or refused.                  *)
(***************************************************************************)
EXTENDS ServerConfig

(* ------------------------------ the presets ----------------------------- *)
\* An item of the list: a preset, or a component that stands for itself.
expand_cluster(item) ==
  CASE item \in {"reality", "reality-vision"} -> <<"vless", "reality", "vision">>
    [] item \in {"anytls", "anytls-vision"} -> <<"vless", "anytls", "vision">>
    [] item = "tls-vision" -> <<"vless", "tls", "vision">>
    [] item \in {"ws-tcp", "websocket"} -> <<"vless", "websocket">>
    [] item \in {"httpupgrade", "grpc", "xhttp"} -> <<"vless", item>>
    [] item \in {"hysteria2", "hysteria2-gecko"} -> <<"hysteria2", "gecko">>
    [] item = "hysteria2-salamander" -> <<"hysteria2", "salamander">>
    [] item = "shadowsocks" -> <<"shadowsocks-2022">>
    [] item = "trojan-tls" -> <<"trojan">>
    [] item = "vless-raw" -> <<"vless">>
    [] OTHER -> <<item>>

(* ---------------------------- the components ---------------------------- *)
Empty == [ok |-> TRUE, inbound |-> "none", tls_layer |-> "none", framing |-> "none",
          obfs |-> "none", vision |-> FALSE]

\* A second value for the same part is refused.
Set(set, part, value) ==
  [set EXCEPT ![part] = value, !.ok = @ /\ set[part] \in {"none", value}]

set_inbound(set, v)       == Set(set, "inbound", v)
set_tls_layer(set, v)     == Set(set, "tls_layer", v)
set_framing(set, v)       == Set(set, "framing", v)
set_hysteria_obfs(set, v) == Set(set, "obfs", v)

component_add(set, token) ==
  CASE token \in {"vless", "shadowsocks-2022", "shadowsocks-aead", "trojan", "hysteria2", "tuic",
                  "vmess", "naive", "snell"} -> set_inbound(set, token)
    [] token \in {"reality", "anytls", "tls"} -> set_tls_layer(set, token)
    [] token \in {"websocket", "httpupgrade", "grpc", "xhttp"} -> set_framing(set, token)
    [] token = "vision" -> [set EXCEPT !.vision = TRUE]
    [] token \in {"gecko", "salamander"} -> set_hysteria_obfs(set, token)
    [] token \in {"raw", "tcp"} -> set
    [] OTHER -> [set EXCEPT !.ok = FALSE]

Layered(set) == set.tls_layer # "none" \/ set.framing # "none" \/ set.vision

\* Mutant: vision is accepted without a TLS layer.
component_validate_AnyVision(set) ==
  LET inbound == IF Layered(set) THEN "vless" ELSE set.inbound IN
  [set EXCEPT
     !.inbound = inbound,
     !.ok = /\ @ /\ inbound # "none" /\ (Layered(set) => set.inbound \in {"none", "vless"})
            /\ (set.obfs # "none" => inbound = "hysteria2")
            /\ (set.tls_layer = "none" \/ set.framing = "none")]

\* Mutant: the default obfuscation replaces the one asked for.
component_validate_Gecko(set) ==
  LET inbound == IF Layered(set) THEN "vless" ELSE set.inbound IN
  [set EXCEPT
     !.inbound = inbound, !.obfs = IF inbound = "hysteria2" THEN "gecko" ELSE @,
     !.ok = /\ @ /\ inbound # "none" /\ (Layered(set) => set.inbound \in {"none", "vless"})
            /\ (set.obfs # "none" => inbound = "hysteria2")
            /\ (set.tls_layer = "none" \/ set.framing = "none")
            /\ (set.vision => set.tls_layer # "none")]

\* Completes the set: VLESS if a part of it is there, gecko for Hysteria2.
component_validate(set) ==
  LET inbound == IF Layered(set) THEN "vless" ELSE set.inbound IN
  [set EXCEPT
     !.inbound = inbound,
     !.obfs = IF inbound = "hysteria2" /\ @ = "none" THEN "gecko" ELSE @,
     !.ok = /\ @ /\ inbound # "none" /\ (Layered(set) => set.inbound \in {"none", "vless"})
            /\ (set.obfs # "none" => inbound = "hysteria2")
            /\ (set.tls_layer = "none" \/ set.framing = "none")
            /\ (set.vision => set.tls_layer # "none")]

(* ------------------------------ the rendering --------------------------- *)
\* method: the Shadowsocks method asked for: one of the two that a key is made for
\* ("exact"), one of those in other letters ("upper"), or none ("unknown");
\* congestion likewise.
Arguments == [method : {"exact", "upper", "unknown"}, congestion : {"exact", "unknown"}]
Defaults  == [method |-> "exact", congestion |-> "exact"]

File(on, user) == [on |-> on, user |-> user, flow |-> ""]
Only(s, q)     == [x \in {s} |-> q]

render_vless(set) ==
  File(IF set.tls_layer # "none" THEN Only(set.tls_layer, "dest")
       ELSE IF set.framing # "none" THEN Only(set.framing, "plain") ELSE <<>>,
       IF set.vision THEN "vision" ELSE "plain")

\* psk_for_method compares the name letter by letter, Method::parse does not.
render_shadowsocks(set, args) ==
  File(Only("shadowsocks",
            IF set.inbound = "shadowsocks-aead" \/ args.method = "exact" THEN "plain"
            ELSE IF args.method = "upper" THEN "badpsk" ELSE "badmethod"), "nobody")
render_trojan == File(Only("trojan", "dest"), "nobody")
render_hysteria2(set) == File(Only("hysteria2", set.obfs), "nobody")
render_tuic(args) ==
  File(Only("tuic", IF args.congestion = "exact" THEN "plain" ELSE "badcc"), "nobody")
render_vmess_inbound == File(Only("vmess", "plain"), "nobody")
render_naive == File(Only("naive", "dest"), "nobody")
render_snell == File(Only("snell", "plain"), "nobody")

render_config(set, args) ==
  CASE set.inbound = "vless" -> render_vless(set)
    [] set.inbound \in {"shadowsocks-2022", "shadowsocks-aead"} -> render_shadowsocks(set, args)
    [] set.inbound = "trojan" -> render_trojan
    [] set.inbound = "hysteria2" -> render_hysteria2(set)
    [] set.inbound = "tuic" -> render_tuic(args)
    [] set.inbound = "vmess" -> render_vmess_inbound
    [] set.inbound = "naive" -> render_naive
    [] set.inbound = "snell" -> render_snell

\* Only validate: the sections are not parsed.
validate_rendered(c) == validate(c)
=============================================================================
