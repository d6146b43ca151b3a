--------------------------- MODULE AdmissionSteps ---------------------------
(***************************************************************************)
(* The connection handlers of the server up to the relay, each as the      *)
(* sequence of steps it takes.  Module Admission gives them their meaning. *)
(*                                                                         *)
(* A read step obtains the next message of the client:                     *)
(*   once     one read; a message that comes in two pieces is refused      *)
(*   second   one more read if fewer than 18 bytes are at hand             *)
(*   until    reads on until the message is complete, and may take more    *)
(*   exact    reads on, and takes no more                                  *)
(*   record   one read for the record header, then exactly the rest        *)
(* timed: a silent client ends it.  (A socket timeout is WouldBlock: the   *)
(* loops that retry WouldBlock have no timeout.)                           *)
(* fragile: it reads an AnyTlsStream, and the WouldBlock that one returns  *)
(* for a TLS record that has come in part is passed on as an error.        *)
(* over: "spoil" if bytes taken beyond the message cannot be used.         *)
(*                                                                         *)
(* fail, of any step: "drop" closes, "refuse" answers with an error, the   *)
(* others pass the connection on to the fallback destination, if there is  *)
(* one: "wire" with the bytes held so far, "plain" with the decrypted ones *)
(* and decrypting the rest, "mixed" with the decrypted ones and the rest   *)
(* as it comes, "blank" with nothing but the rest.                         *)
(***************************************************************************)
EXTENDS RelayKinds, Sequences

Read(how, timed) == [op |-> "read", how |-> how, timed |-> timed, over |-> "keep",
                     fragile |-> FALSE, fail |-> "drop"]
Else(step, fail) == [step EXCEPT !.fail = fail]
Spoils(step)     == [step EXCEPT !.over = "spoil"]
Fragile(step)    == [step EXCEPT !.fragile = TRUE]

Demand(what, fail) == [op |-> "check", what |-> what, fail |-> fail]
Count  == [op |-> "count", fail |-> "drop"]
Reply  == [op |-> "reply", fail |-> "drop"]
\* cmd goes to a relay of its own if the request has the rights.
Packets(cmd, rights) == [op |-> "packets", cmd |-> cmd, rights |-> rights, fail |-> "drop"]
Dial(fail)  == [op |-> "dial", fail |-> fail]
\* passes: the bytes taken beyond the last message are given to the relay.
Carry(raw, vision, passes) ==
  [op |-> "relay", raw |-> raw, vision |-> vision, passes |-> passes, fail |-> "drop"]

(* ------------------------------ vless.rs -------------------------------- *)
\* Mutant: the user is not looked up.
decode_vless_request_Trusts == <<>>

decode_vless_request == <<Demand("cred", "drop")>>

validate_vless_command == <<Demand("streamed", "drop")>>

\* Mutant: the rest of the first read is not given to the relay.
Serve_HeaderOnly(raw, vision) ==
  decode_vless_request \o <<Count>> \o validate_vless_command
    \o <<Reply, Packets("udp", {"udp"}), Dial("drop"), Carry(raw, vision, FALSE)>>

\* What most handlers do with a VLESS header.
Serve(raw, vision) ==
  decode_vless_request \o <<Count>> \o validate_vless_command
    \o <<Reply, Packets("udp", {"udp"}), Dial("drop"), Carry(raw, vision, TRUE)>>

handle_connection == <<Read("once", TRUE)>> \o Serve(relay_raw, relay_vision)

(* --------------------- tls.rs, reality.rs, anytls.rs -------------------- *)
accept_tls == <<Read("until", TRUE), Demand("hello", "drop")>>

handle_tls_connection ==
  accept_tls \o <<Read("once", FALSE)>> \o Serve(relay_anytls_raw, relay_anytls_vision)

accept_reality ==
  <<Spoils(Else(Read("record", TRUE), "wire")), Demand("hello", "wire")>>

handle_reality_connection ==
  accept_reality \o <<Read("once", FALSE)>> \o Serve(relay_reality, relay_reality_vision)

accept_anytls == <<Else(Read("until", TRUE), "blank"), Demand("hello", "blank"),
                   Else(Read("exact", FALSE), "mixed"), Demand("password", "mixed")>>

handle_anytls_connection ==
  accept_anytls \o <<Read("once", FALSE)>> \o Serve(relay_anytls_raw, relay_anytls_vision)

complete_settings_handshake == <<Read("exact", FALSE), Demand("path", "drop")>>

handle_sing_anytls_session == accept_anytls \o complete_settings_handshake

\* A stream of such a session: its first chunk has to hold the whole request.
handle_sing_stream_socks ==
  handle_sing_anytls_session
    \o <<Read("once", FALSE), Demand("header", "drop"), Dial("drop"),
         Reply, Count, Carry(relay_sing_raw, relay_sing_raw, TRUE)>>

\* relay_sing_udp answers a UDP request with the end of the stream.
handle_sing_stream_vless ==
  handle_sing_anytls_session \o <<Read("once", FALSE)>> \o decode_vless_request
    \o <<Count, Demand("streamed", "refuse"), Reply, Demand("tcp", "drop"), Dial("drop"),
         Carry(relay_sing_raw, relay_sing_vision, TRUE)>>

(* ----------------------------- shadowtls.rs ----------------------------- *)
accept_shadowtls_stream == <<Read("exact", TRUE), Demand("hello", "wire")>>

handle_shadowtls_connection ==
  accept_shadowtls_stream \o <<Read("once", FALSE)>>
    \o Serve(relay_shadowtls_raw, relay_shadowtls_vision)

(* --------------------- websocket.rs, httpupgrade.rs --------------------- *)
\* The bytes behind the upgrade request are taken for the payload of a frame.
upgrade_ws_tls == <<Read("until", FALSE), Demand("hello", "drop"),
                    Spoils(Read("once", FALSE)), Demand("path", "drop")>>

stream_read_upgrade == Read("until", FALSE)

upgrade_ws_raw == <<Spoils(stream_read_upgrade), Demand("path", "drop")>>

handle_vless_over_ws ==
  decode_vless_request \o validate_vless_command
    \o <<Reply, Packets("udp", {"udp"}), Packets("mux", {"udp"}), Dial("drop"),
         Carry(relay_ws_raw, relay_ws_vision, TRUE)>>

handle_ws_tls == upgrade_ws_tls \o <<Fragile(Read("once", FALSE))>> \o handle_vless_over_ws
handle_ws_raw == upgrade_ws_raw \o <<Read("once", FALSE)>> \o handle_vless_over_ws

read_tls_httpupgrade_headers == Read("until", FALSE)

read_first_vless_chunk == Read("second", FALSE)

parse_httpupgrade_request == Demand("path", "drop")

handle_vless_over_httpupgrade_raw ==
  <<stream_read_upgrade, parse_httpupgrade_request, read_first_vless_chunk>>
    \o Serve(relay_raw, relay_vision)

handle_vless_over_httpupgrade_tls ==
  accept_tls \o <<read_tls_httpupgrade_headers, parse_httpupgrade_request,
                  Fragile(read_first_vless_chunk)>>
    \o Serve(relay_anytls_raw, relay_anytls_vision)

(* ------- one stream of grpc.rs, xhttp.rs, quic.rs, webtransport.rs, ----- *)
(* ------- request_transport.rs                                             *)
handle_vless_over_grpc ==
  <<Read("once", FALSE)>> \o decode_vless_request \o validate_vless_command
    \o <<Count, Reply, Packets("udp", {"udp"}), Dial("drop"),
         Carry(relay_grpc_raw, relay_grpc_vision, TRUE)>>

handle_vless_over_xhttp ==
  <<Read("once", FALSE)>> \o decode_vless_request \o validate_vless_command
    \o <<Count, Reply, Packets("udp", {"udp"}), Dial("drop"),
         Carry(relay_xhttp_raw, relay_xhttp_vision, TRUE)>>

handle_vless_over_quic ==
  <<Read("once", FALSE)>> \o decode_vless_request \o validate_vless_command
    \o <<Reply, Packets("udp", {"udp", "udp_relay"}), Dial("drop"),
         Carry(relay_quic_raw, relay_quic_vision, TRUE)>>

handle_vless_over_webtransport ==
  <<Read("once", FALSE)>> \o decode_vless_request \o validate_vless_command
    \o <<Reply, Packets("udp", {"udp", "udp_relay"}), Dial("drop"),
         Carry(relay_wt_raw, relay_wt_vision, TRUE)>>

(* -------------- shadowsocks.rs, snell.rs, vmess, trojan, naive ---------- *)
handle_shadowsocks_connection ==
  <<Read("until", TRUE), Demand("cred", "drop"), Demand("header", "drop"), Dial("drop"),
    Carry(relay_shadowsocks, relay_shadowsocks, TRUE)>>

handle_snell_connection ==
  <<Read("until", TRUE), Demand("cred", "drop"), Demand("header", "drop"),
    Demand("tcp", "refuse"), Dial("drop"), Carry(relay_snell, relay_snell, TRUE)>>

\* The authentication id, then the header it is the key to; read_exact retries the
\* timeout of the socket.
handle_vmess_connection ==
  <<Read("exact", FALSE), Demand("cred", "drop"), Count,
    Read("exact", FALSE), Demand("header", "drop"), Demand("tcp", "drop"), Reply,
    Dial("drop"), Carry(relay_vmess, relay_vmess, FALSE)>>

\* Mutant: the fallback copies from the socket instead of the TLS stream.
trojan_read_request_Raw ==
  <<Read("until", FALSE), Demand("hello", "drop"),
    Else(Read("until", FALSE), "mixed"), Demand("cred", "mixed"), Demand("header", "mixed")>>

trojan_read_request ==
  <<Read("until", FALSE), Demand("hello", "drop"),
    Else(Read("until", FALSE), "plain"), Demand("cred", "plain"), Demand("header", "plain")>>

handle_trojan_connection ==
  trojan_read_request \o <<Count, Packets("udp", {}), Dial("drop"),
                           Carry(relay_anytls_raw, relay_anytls_raw, TRUE)>>

\* A CONNECT request of an h2 connection: its headers come as one frame.
handle_naive_request ==
  <<Read("exact", FALSE), Demand("tcp", "refuse"), Demand("header", "refuse"),
    Demand("cred", "refuse"), Dial("refuse"), Reply, Count,
    Carry(relay_naive, relay_naive, FALSE)>>

(* --------------------- mixed_proxy.rs under mixed.rs -------------------- *)
accept_socks4_connect ==
  <<Read("exact", TRUE), Demand("tcp", "refuse"), Demand("header", "refuse"),
    Demand("cred", "refuse")>>

negotiate_socks_auth == <<Read("exact", TRUE), Demand("path", "refuse")>>

authenticate_socks_userpass == <<Read("exact", TRUE), Demand("cred", "refuse")>>

accept_socks5_connect ==
  negotiate_socks_auth \o authenticate_socks_userpass
    \o <<Read("exact", TRUE), Demand("tcp", "refuse"), Demand("header", "refuse")>>

\* Mutant: the head is expected in one packet.
read_http_head_Once == Else(Read("once", TRUE), "refuse")

read_http_head == Else(Read("until", TRUE), "refuse")

authenticate_http_basic == Demand("cred", "refuse")

accept_http_request == <<read_http_head, authenticate_http_basic, Demand("header", "refuse")>>

Proxied(passes) == <<Dial("refuse"), Reply, Carry(relay_raw, relay_raw, passes)>>

handle_mixed_socks4 == accept_socks4_connect \o Proxied(FALSE)
handle_mixed_socks5 == accept_socks5_connect \o Proxied(FALSE)
handle_mixed_http   == accept_http_request \o Proxied(TRUE)

(* ------------- hysteria2.rs, tuic.rs, experimental.rs (brook) ----------- *)
\* The connection authenticates, then a stream of it asks for a target.
handle_hysteria2_tcp ==
  <<Read("until", FALSE), Demand("cred", "refuse"), Count,
    Read("until", FALSE), Demand("header", "drop"), Dial("refuse"), Reply,
    Carry(relay_hysteria2_tcp, relay_hysteria2_tcp, TRUE)>>

handle_tuic_tcp ==
  <<Read("exact", FALSE), Demand("cred", "drop"), Count,
    Read("until", FALSE), Demand("header", "drop"), Dial("drop"),
    Carry(relay_tuic_tcp, relay_tuic_tcp, TRUE)>>

handle_brook_connection ==
  <<Read("exact", FALSE), Demand("cred", "refuse"), Read("exact", FALSE),
    Demand("tcp", "refuse"), Demand("header", "refuse"), Dial("refuse"), Reply,
    Carry(relay_brook, relay_brook, FALSE)>>

AllHandlers ==
  {handle_connection, handle_tls_connection, handle_reality_connection,
   handle_anytls_connection, handle_sing_stream_socks, handle_sing_stream_vless,
   handle_shadowtls_connection, handle_ws_tls, handle_ws_raw,
   handle_vless_over_httpupgrade_raw, handle_vless_over_httpupgrade_tls,
   handle_vless_over_grpc, handle_vless_over_xhttp, handle_vless_over_quic,
   handle_vless_over_webtransport, handle_shadowsocks_connection,
   handle_snell_connection, handle_vmess_connection, handle_trojan_connection,
   handle_naive_request, handle_mixed_socks4, handle_mixed_socks5,
   handle_mixed_http, handle_hysteria2_tcp, handle_tuic_tcp,
   handle_brook_connection}

\* Those whose protocol delimits its request.
FramedHandlers ==
  {handle_shadowsocks_connection, handle_snell_connection, handle_vmess_connection,
   handle_trojan_connection, handle_naive_request, handle_mixed_socks4,
   handle_mixed_socks5, handle_mixed_http, handle_hysteria2_tcp, handle_tuic_tcp,
   handle_brook_connection}

\* Those that read the socket itself, under its timeout, to the last message.
TimedHandlers ==
  {handle_connection, handle_shadowsocks_connection, handle_snell_connection,
   handle_mixed_socks4, handle_mixed_socks5, handle_mixed_http}

\* Those that hand a connection they do not accept to another server as a whole.
SpiderHandlers == {handle_reality_connection, handle_anytls_connection}
=============================================================================
