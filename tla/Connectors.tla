----------------------------- MODULE Connectors -----------------------------
(***************************************************************************)
(* Eval-client's connectors (crates/evaluator-client/src/transport) and    *)
(* the server's side of the same connection, each as the messages it sends *)
(* and awaits, in order, up to the answer to the request.                  *)
(*                                                                         *)
(* A message has a kind, the path, password or flow it carries, and the    *)
(* layers it is wrapped in.                                                *)
(***************************************************************************)
EXTENDS Naturals, Sequences

Out(what, key) == [out |-> TRUE, what |-> what, key |-> key, in |-> {}]
In(what, key)  == [out |-> FALSE, what |-> what, key |-> key, in |-> {}]
Inside(layer, d) == [k \in DOMAIN d |-> [d[k] EXCEPT !.in = @ \cup {layer}]]

(* ------------------------------- the client ----------------------------- *)
build_vless_header(flow) == Out("vless header", flow)

connect_raw(flow) == <<build_vless_header(flow), In("vless response", "")>>

\* complete_io up to the end of the handshake: nothing is sent before that.
tls_handshake(hello, flight) == <<Out("hello", hello), In("flight", flight), Out("finished", "")>>
tls_handshake_sync == tls_handshake("tls", "tls")
WithTls(tls, d) == IF tls THEN tls_handshake_sync \o Inside("tls", d) ELSE d

connect_tls(flow) == WithTls(TRUE, connect_raw(flow))

ws_upgrade_handshake(path)   == <<Out("upgrade", path), In("101", "")>>
http_upgrade_handshake(path) == <<Out("upgrade", path), In("101", "")>>

connect_ws(tls, flow) ==
  WithTls(tls, ws_upgrade_handshake("/eval") \o Inside("ws frame", connect_raw(flow)))

connect_httpupgrade(tls, flow) ==
  WithTls(tls, http_upgrade_handshake("/eval") \o connect_raw(flow))

\* The status is awaited before the header is sent.
grpc_handshake(flow) ==
  Inside("h2", <<Out("post", "/EvalService/Tun"), In("200", "")>>
              \o Inside("hunk", connect_raw(flow)))
connect_grpc(tls, flow) == WithTls(tls, grpc_handshake(flow))

xhttp_handshake(flow) == Inside("h2", <<Out("post", "/eval"), In("200", "")>> \o connect_raw(flow))
connect_xhttp(tls, flow) == WithTls(tls, xhttp_handshake(flow))

\* QUIC with ALPN h3, one bidirectional stream.
quic_handshake(flow) == tls_handshake("h3", "h3") \o Inside("stream", connect_raw(flow))
connect_quic(flow)   == quic_handshake(flow)

connect_webtransport(flow) ==
  tls_handshake("h3", "h3") \o <<Out("connect", "/eval"), In("200", "")>>
    \o Inside("stream", connect_raw(flow))

\* Packets of the kcp crate behind a 16-bit FNV-1a of seed and data.
mkcp_seal(seed, d) == Inside("fnv header", Inside("kcp packet", Inside(seed, d)))
connect_kcp(flow)  == mkcp_seal("eval-kcp-seed", connect_raw(flow))

connect_vmess ==
  <<Out("auth id", ""), Out("vmess header", "tcp"), In("vmess response", "")>>

\* A hello sealed for the server's public key; its flight is checked against the
\* certificate key before the client's Finished.
connect_reality(flow) == tls_handshake("reality", "reality") \o Inside("tls", connect_raw(flow))

\* The proof is derived from the TLS exporter, its halves are exchanged.
connect_shadowtls(flow) ==
  WithTls(TRUE, <<In("challenge", "eval-stls-pass"), Out("response", "eval-stls-pass")>>
                \o connect_raw(flow))

connect_anytls(flow) ==
  WithTls(TRUE, <<Out("password", "eval-anytls-pass"), Out("padding length", "")>>
                \o connect_raw(flow))

(* ------------------------------- the server ----------------------------- *)
AnswerVless(flow) == <<In("vless header", flow), Out("vless response", "")>>

AcceptTls(hello, d) ==
  <<In("hello", hello), Out("flight", hello), In("finished", "")>> \o Inside("tls", d)

AnswerUpgrade(path) == <<In("upgrade", path), Out("101", "")>>

handle_grpc_request_stream(path, d) ==
  Inside("h2", <<In("post", path), Out("200", "")>> \o Inside("hunk", d))

handle_xhttp_request_stream(path, d) == Inside("h2", <<In("post", path), Out("200", "")>> \o d)

\* The endpoint's own handshake: what follows is on streams.
AcceptQuic(d) == <<In("hello", "h3"), Out("flight", "h3"), In("finished", "")>> \o d
handle_quic_connection(d) == AcceptQuic(Inside("stream", d))
handle_webtransport_session(path, d) ==
  AcceptQuic(<<In("connect", path), Out("200", "")>> \o Inside("stream", d))

\* AES-128-GCM under the seed, segments of Xray's mKCP within.
KcpPacketMask(seed, d) == Inside("aes-gcm packet", Inside("xray segment", Inside(seed, d)))

\* ShadowTLS v3: the session id of the hello is an HMAC, the handshake is that of
\* the server behind, and the records after it carry HMACs.
AcceptShadowTls(password, d) ==
  <<In("hello", password), Out("flight", "tls"), In("finished", "")>> \o Inside("hmac record", d)

AcceptAnyTls(password, d) ==
  AcceptTls("tls", <<In("password", password), In("padding length", "")>> \o d)

AnswerVmess == <<In("auth id", ""), In("vmess header", "tcp"), Out("vmess response", "")>>

\* What a server that listens for at speaks, its section holding the setting.
Serving(at, setting, flow) ==
  LET vless == AnswerVless(flow)
      inner == CASE at.wire = "websocket"   -> AnswerUpgrade(setting) \o Inside("ws frame", vless)
                 [] at.wire = "httpupgrade" -> AnswerUpgrade(setting) \o vless
                 [] at.wire = "grpc"  -> handle_grpc_request_stream(setting, vless)
                 [] at.wire = "xhttp" -> handle_xhttp_request_stream(setting, vless)
                 [] at.wire = "kcp"   -> KcpPacketMask(setting, vless)
                 [] OTHER -> vless
  IN CASE at.proto = "vmess"        -> AnswerVmess
       [] at.wire = "quic"          -> handle_quic_connection(vless)
       [] at.wire = "webtransport"  -> handle_webtransport_session(setting, vless)
       [] at.sec = "shadowtls"      -> AcceptShadowTls(setting, vless)
       [] at.sec = "anytls"         -> AcceptAnyTls(setting, vless)
       [] at.sec \in {"tls", "reality"} /\ at.wire \notin {"quic", "webtransport"} ->
            AcceptTls(at.sec, inner)
       [] OTHER -> inner

(* -------------------------------- agreement ----------------------------- *)
\* At every point one side sends what the other awaits: neither is left waiting,
\* and neither is told what it does not understand.
Agree(c, s) ==
  /\ Len(c) = Len(s)
  /\ \A k \in DOMAIN c : s[k] = [c[k] EXCEPT !.out = ~@]
=============================================================================
