--------------------------- MODULE WrongclImport ----------------------------
(***************************************************************************)
(* What the client of the same project, wrongcl, makes of a server's file: *)
(* the profile and the networks it infers, whether it says that it can use *)
(* the server, and the client configuration it then builds.                *)
(***************************************************************************)
EXTENDS ClientExport

\* It knows none of the experimental protocols.
active_profile_id(c) ==
  FirstOf(c, <<"reality", "anytls", "websocket", "httpupgrade", "grpc", "xhttp", "meek",
               "gdocsviewer", "quic", "kcp", "webtransport", "shadowtls", "vmess", "shadowsocks",
               "trojan", "hysteria2", "tuic", "mixed", "wireguard", "naive", "snell", "tls">>,
          "raw")

active_user_udp(c) == c.user # "mute"
active_flow(c)     == IF c.user = "vision" THEN "vision" ELSE c.flow

\* Mutant: the udp switch of a section is not looked at.
payload_networks_for_Always(c, p) ==
  CASE p \in {"mixed", "vmess", "naive", "snell"} -> {"tcp"}
    [] p = "wireguard" -> {"ip"}
    [] p \in {"quic", "webtransport", "hysteria2", "shadowsocks", "trojan", "tuic"} -> Both
    [] OTHER -> IF active_flow(c) = "vision" \/ ~active_user_udp(c) THEN {"tcp"} ELSE Both

payload_networks_for(c, p) ==
  CASE p \in {"mixed", "vmess", "naive", "snell"} -> {"tcp"}
    [] p = "wireguard" -> {"ip"}
    [] p \in {"quic", "webtransport", "hysteria2", "shadowsocks"} ->
         IF Is(c, p, {"noudp"}) THEN {"tcp"} ELSE Both
    [] p \in {"trojan", "tuic"} -> Both
    [] OTHER -> IF active_flow(c) = "vision" \/ ~active_user_udp(c) THEN {"tcp"} ELSE Both

base_carriers_for(p, networks) ==
  CASE p \in {"quic", "kcp", "webtransport", "hysteria2", "tuic", "wireguard"} -> {"udp"}
    [] p = "shadowsocks" /\ "udp" \in networks -> {"tcp", "udp"}
    [] OTHER -> {"tcp"}

import_resolution_hint(c) ==
  LET p == active_profile_id(c)
      n == payload_networks_for(c, p)
  IN  [profile |-> p, networks |-> n, carriers |-> base_carriers_for(p, n)]

(* ---------------------------- wrongcl_support.rs ------------------------ *)
wrongcl_profile_implemented(p) == p # "vmess"

\* What the client needs and a server's file need not have.
wrongcl_missing_fields(c, p) ==
  IF p = "wireguard" /\ Is(c, p, {"nokey", "nopeers"}) THEN {"private-key"} ELSE {}

wrongcl_local_runtime_gap(c, p, networks) ==
  \/ p = "hysteria2" /\ Is(c, p, {"salamander", "gecko", "badobfs", "shortobfs", "badsizes"})
  \/ "udp" \in networks /\ p \in {"kcp", "mixed", "wireguard", "naive", "snell"}
  \/ "ip" \in networks /\ p # "wireguard"

\* Mutant: a missing field is no obstacle.
build_wrongcl_capability_view_Eager(c, r) ==
  wrongcl_profile_implemented(r.profile) /\ ~wrongcl_local_runtime_gap(c, r.profile, r.networks)

\* config_adaptable
build_wrongcl_capability_view(c, r) ==
  /\ wrongcl_profile_implemented(r.profile)
  /\ wrongcl_missing_fields(c, r.profile) = {}
  /\ ~wrongcl_local_runtime_gap(c, r.profile, r.networks)

(* ---------------------------- import_config.rs -------------------------- *)
\* The parts of a specification say whether they could be built.
vless_proxy_spec(c) == has_vless_users(c)
trojan_proxy_spec(c) == ~Is(c, "trojan", {"empty", "nobody"})
hysteria2_proxy_spec(c) ==
  ~Is(c, "hysteria2", {"salamander", "gecko", "badobfs", "shortobfs", "badsizes",
                       "empty", "nobody"})
tuic_proxy_spec(c)  == ~Is(c, "tuic", {"nobody", "empty"})
mixed_proxy_spec(c) == Has(c, {"mixed"})
naive_proxy_spec(c) == ~Is(c, "naive", {"nobody", "badcred"})
\* In a draft the key may be missing.
wireguard_proxy_spec(c, draft) ==
  /\ ~Is(c, "wireguard", {"nopeers", "badkey", "noip"})
  /\ draft \/ ~Is(c, "wireguard", {"nokey"})
shadowsocks_proxy_spec(c) == Has(c, {"shadowsocks"})
snell_proxy_spec(c) == ~Is(c, "snell", {"nopsk", "badversion"})

reality_spec(c, draft) ==
  ~Is(c, "reality", {"badkey"}) /\ (draft \/ ~Is(c, "reality", {"noshort"}))

Buildable(c, p, draft) ==
  CASE p = "reality" -> vless_proxy_spec(c) /\ reality_spec(c, draft)
    [] p # "reality" /\ IsVless(p) -> vless_proxy_spec(c)
    [] p = "trojan" -> trojan_proxy_spec(c)
    [] p = "hysteria2" -> hysteria2_proxy_spec(c)
    [] p = "tuic" -> tuic_proxy_spec(c)
    [] p = "mixed" -> mixed_proxy_spec(c)
    [] p = "naive" -> naive_proxy_spec(c)
    [] p = "wireguard" -> wireguard_proxy_spec(c, draft)
    [] p = "shadowsocks" -> shadowsocks_proxy_spec(c)
    [] p = "snell" -> snell_proxy_spec(c)
    [] OTHER -> FALSE

\* The security of the carriers with an optional tls table, and of the others.
tls_spec(c, p) ==
  CASE p \in StreamFramings -> IF Is(c, p, TlsTable) THEN "tls" ELSE "none"
    [] p \in {"tls", "trojan", "naive"} -> "tls"
    [] p \in {"reality", "anytls", "shadowtls"} -> p
    [] OTHER -> "none"

\* A table of TLS settings without this field has the certificate verified; what
\* is made up for Meek, Google Docs and Naive has it set.
insecure_skip_verify(c, p) ==
  tls_spec(c, p) = "tls" => p \in {"meek", "gdocsviewer", "naive"} \/ Is(c, p, {"insecure"})

\* The paths of WebSocket, HTTPUpgrade and XHTTP are taken as they stand.
TransportPath(c, p) ==
  IF p \in {"websocket", "httpupgrade", "xhttp"} /\ Is(c, p, {"bare"}) THEN "p" ELSE "/p"

build_wrongcl_import_spec(c, p, draft) ==
  IF ~Buildable(c, p, draft) THEN NoClient
  ELSE [Client(IF IsVless(p) THEN "vless" ELSE p, Wire(p), tls_spec(c, p),
               IF draft /\ (Is(c, "reality", {"noshort"}) \/ Is(c, "wireguard", {"nokey"}))
               THEN "blank" ELSE "own",
               ~(p \in {"quic", "webtransport", "hysteria2"} /\ Is(c, p, {"noudp"})))
          EXCEPT !.verify = ~insecure_skip_verify(c, p), !.path = TransportPath(c, p),
                 !.host = p \in VlessTransports /\ Is(c, p, {"host"})]

\* An adaptable file of which no strict client can be built is an error, which
\* takes the inspection and the draft with it.
build_wrongcl_adapt_plan(c) ==
  LET r == import_resolution_hint(c)
      adaptable == build_wrongcl_capability_view(c, r)
      strict == build_wrongcl_import_spec(c, r.profile, FALSE)
  IN  [ok |-> adaptable => strict # NoClient, adaptable |-> adaptable,
       draft |-> IF wrongcl_profile_implemented(r.profile)
                 THEN build_wrongcl_import_spec(c, r.profile, TRUE) ELSE NoClient,
       strict |-> IF adaptable THEN strict ELSE NoClient]
=============================================================================
