----------------------------- MODULE RelayKinds -----------------------------
(***************************************************************************)
(* The relay functions of the server, each as a record of what it does     *)
(* when it reads, finds nothing to read, meets the end of a stream or      *)
(* fails.  Module Relay gives the records their meaning.                   *)
(*                                                                         *)
(*   engine    "threads": one thread per direction, joined at the end;     *)
(*             "loop": one thread that polls the two sides in turn         *)
(*   first     the side the loop polls first                               *)
(*   blocks    a read of the client waits until the client does something: *)
(*             the socket has no timeout, the channel read is recv()       *)
(*   upDrain, downDrain                                                    *)
(*             the loop stays with a side until that side is idle          *)
(*   upEof     a loop at the client's end of stream: "stop" leaves it,     *)
(*             "half" carries on with the downlink, "linger" carries on    *)
(*             until a turn finds nothing to do, "ignore" does not see it, *)
(*             "either" carries on at a Close frame, which is echoed, and  *)
(*             leaves at the end of the connection below                   *)
(*   upFin, downFin                                                        *)
(*             who is told when the uplink or the downlink ends            *)
(*   downEnd   the loop leaves at the target's end "now", or "afterUp":    *)
(*             only once it has polled the client again                    *)
(*   errFin    the directions in which an error ends a thread as the end   *)
(*             of stream does; elsewhere it returns without the shutdown   *)
(*   upIdle, downIdle                                                      *)
(*             a read timeout (in a loop, a read that finds nothing)       *)
(*             "end"s the direction or is "retry"ed                        *)
(*   shared    a done flag lets the end of a direction stop the other      *)
(*   ends      an error ("error": try_join!) or any end ("any": both       *)
(*             sockets are shut down both ways) of a direction ends the    *)
(*             other, or only its own ("own")                              *)
(*   eofBreaks the write half of the client fails once its end was read    *)
(*   stalls    a write to a client that does not read fails: the socket    *)
(*             does not block, or not for long                             *)
(*   cuts      client reads are framed, and a timeout inside a frame, or   *)
(*             the end of a TLS record, loses the bytes already read       *)
(*   misreads  after such a loss the rest of the frame is taken for the    *)
(*             head of another one, and nothing needs to notice            *)
(*   holds     the uplink reads the socket before it drains the plaintext  *)
(*             the TLS connection already holds: what came with the header *)
(*             waits there for the client's next record                    *)
(*   initial   what becomes of the bytes read along with the header        *)
(*   packets   "none", or for UDP whether length-prefixed packets are      *)
(*             reassembled across reads ("whole") or looked for in each    *)
(*             read on its own ("perRead")                                 *)
(***************************************************************************)

TwoThreads ==
  [engine |-> "threads", first |-> "down", blocks |-> TRUE, upDrain |-> TRUE,
   downDrain |-> TRUE, upEof |-> "half", upFin |-> {"target"}, downFin |-> {},
   downEnd |-> "now", errFin |-> {"up", "down"}, upIdle |-> "retry", downIdle |-> "retry",
   shared |-> FALSE, ends |-> "own", eofBreaks |-> FALSE, stalls |-> FALSE,
   cuts |-> FALSE, misreads |-> FALSE, holds |-> FALSE, initial |-> "forward", packets |-> "none"]

OneLoop == [TwoThreads EXCEPT !.engine = "loop", !.upFin = {}, !.upEof = "stop"]

(* ------------------------------ relay.rs -------------------------------- *)
\* Mutant: the end of the uplink shuts the client down as well.
relay_raw_ShutsBoth == [TwoThreads EXCEPT !.upFin = {"client", "target"},
                          !.downFin = {"client"}, !.downIdle = "end"]

relay_raw == [TwoThreads EXCEPT !.downFin = {"client"}, !.downIdle = "end"]

\* At the end of the downlink the write side of the target is shut down, and
\* the body read along with the request header is not passed on.
relay_vision == [TwoThreads EXCEPT !.downFin = {"target"}, !.downIdle = "end",
                                   !.initial = "drop"]

relay_udp == [TwoThreads EXCEPT !.upFin = {}, !.upIdle = "end", !.shared = TRUE,
                                !.packets = "whole"]

\* Over TCP, REALITY or AnyTLS: a client read waits 200 ms at most.
relay_packetaddr_udp_stream ==
  [OneLoop EXCEPT !.first = "up", !.blocks = FALSE, !.upDrain = FALSE,
                  !.packets = "whole"]

\* The same loop over a WebSocket without TLS, whose socket has no timeout, over
\* one with TLS, and over ShadowTLS.
packetaddr_over_ws == [relay_packetaddr_udp_stream EXCEPT !.blocks = TRUE]

packetaddr_over_ws_tls ==
  [relay_packetaddr_udp_stream EXCEPT !.blocks = TRUE, !.cuts = TRUE, !.misreads = TRUE]

packetaddr_over_shadowtls == [relay_packetaddr_udp_stream EXCEPT !.cuts = TRUE]

(* ------------------------- reality.rs, tls.rs --------------------------- *)
relay_reality == [OneLoop EXCEPT !.first = "up", !.blocks = FALSE, !.upDrain = FALSE,
                                 !.downDrain = FALSE, !.holds = TRUE]

relay_reality_vision == [TwoThreads EXCEPT !.downFin = {"target"}]

relay_reality_udp == [OneLoop EXCEPT !.first = "up", !.upDrain = FALSE,
                                     !.downDrain = FALSE, !.packets = "whole"]

spider_fallback == [TwoThreads EXCEPT !.downFin = {"client"}, !.downIdle = "end"]

(* ------------------------------ anytls.rs ------------------------------- *)
relay_anytls_raw == [TwoThreads EXCEPT !.downFin = {"client", "target"}, !.holds = TRUE]

relay_anytls_vision ==
  [OneLoop EXCEPT !.blocks = FALSE, !.upEof = "half", !.upFin = {"target"},
                  !.downEnd = "afterUp", !.holds = TRUE]

relay_anytls_udp == [OneLoop EXCEPT !.first = "up", !.upDrain = FALSE,
                                    !.downDrain = FALSE, !.packets = "whole"]

relay_sing_raw == [OneLoop EXCEPT !.blocks = FALSE, !.upDrain = FALSE,
                     !.downDrain = FALSE, !.upFin = {"client", "target"},
                     !.downFin = {"client"}]

relay_sing_vision == [relay_sing_raw EXCEPT !.upDrain = TRUE, !.downDrain = TRUE,
                                            !.downEnd = "afterUp"]

\* The client's 30 s timeout of the handshake stays set.
anytls_fallback == [TwoThreads EXCEPT !.downFin = {"client"}, !.upIdle = "end",
                                      !.downIdle = "end"]

(* ------------------ quic.rs, webtransport.rs: recv() bridges ------------ *)
relay_quic_raw == [OneLoop EXCEPT !.upDrain = FALSE, !.upFin = {"target"},
                                  !.eofBreaks = TRUE]

relay_quic_vision ==
  [OneLoop EXCEPT !.upEof = "half", !.upFin = {"target"}, !.downEnd = "afterUp",
                  !.eofBreaks = TRUE]

relay_quic_udp == [OneLoop EXCEPT !.first = "up", !.upDrain = FALSE,
                     !.downDrain = FALSE, !.eofBreaks = TRUE, !.packets = "perRead"]

relay_wt_raw == [OneLoop EXCEPT !.upDrain = FALSE, !.upFin = {"target"},
                                !.eofBreaks = TRUE]

relay_wt_vision ==
  [OneLoop EXCEPT !.upEof = "half", !.upFin = {"target"}, !.downEnd = "afterUp",
                  !.eofBreaks = TRUE]

relay_wt_udp == [OneLoop EXCEPT !.first = "up", !.upDrain = FALSE,
                   !.downDrain = FALSE, !.eofBreaks = TRUE, !.packets = "perRead"]

(* --------------------------- grpc.rs, xhttp.rs -------------------------- *)
\* Between the TLS connection, which does not block, and the socket of the h2
\* server behind it.
tls_relay == [OneLoop EXCEPT !.first = "up", !.blocks = FALSE, !.upDrain = FALSE,
                             !.downDrain = FALSE, !.stalls = TRUE]

\* The writer is dropped with the downlink thread, which ends the h2 response.
relay_grpc_raw == [TwoThreads EXCEPT !.downFin = {"client"}, !.downIdle = "end"]

relay_grpc_vision ==
  [OneLoop EXCEPT !.upEof = "half", !.upFin = {"target"}, !.downEnd = "afterUp"]

relay_grpc_udp == [OneLoop EXCEPT !.first = "up", !.upDrain = FALSE,
                                  !.downDrain = FALSE, !.packets = "perRead"]

relay_xhttp_raw == [TwoThreads EXCEPT !.downFin = {"client"}, !.downIdle = "end"]

relay_xhttp_vision ==
  [OneLoop EXCEPT !.upEof = "half", !.upFin = {"target"}, !.downEnd = "afterUp",
                  !.eofBreaks = TRUE]

relay_xhttp_udp == [OneLoop EXCEPT !.first = "up", !.upDrain = FALSE,
                      !.downDrain = FALSE, !.eofBreaks = TRUE, !.packets = "perRead"]

(* ----------------------------- websocket.rs ----------------------------- *)
\* Without TLS the socket has no timeout once the connection is upgraded.  Over
\* TLS a read also returns with nothing at the end of a record, inside a frame
\* too: read_exact then forgets what it has of the frame.
OverTls(r) == [r EXCEPT !.cuts = TRUE, !.misreads = TRUE]

relay_ws_raw == [OneLoop EXCEPT !.upDrain = FALSE, !.upFin = {"target"},
                                !.downFin = {"client"}]

relay_ws_raw_tls == OverTls(relay_ws_raw)

\* A Close frame of the client is echoed, and the downlink goes on.
relay_ws_vision ==
  [OneLoop EXCEPT !.upEof = "either", !.upFin = {"client", "target"},
                  !.downFin = {"client"}, !.downEnd = "afterUp"]

relay_ws_vision_tls == OverTls(relay_ws_vision)

relay_ws_udp == [OneLoop EXCEPT !.first = "up", !.upDrain = FALSE,
                                !.packets = "whole"]

relay_ws_udp_tls == OverTls(relay_ws_udp)

relay_ws_mux_udp == [OneLoop EXCEPT !.first = "up", !.upDrain = FALSE,
                                    !.packets = "whole"]

\* A read that finds nothing ends this relay.
relay_ws_mux_udp_tls == [relay_ws_mux_udp EXCEPT !.upIdle = "end"]

(* ----------------------------- shadowtls.rs ----------------------------- *)
relay_shadowtls_raw == [TwoThreads EXCEPT !.downFin = {"client", "target"}]

relay_shadowtls_vision ==
  [OneLoop EXCEPT !.blocks = FALSE, !.upEof = "half", !.upFin = {"target"},
                  !.downFin = {"client"}, !.downEnd = "afterUp", !.cuts = TRUE]

\* UnexpectedEof is handled as "nothing to read".
relay_shadowtls_udp ==
  [OneLoop EXCEPT !.first = "up", !.blocks = FALSE, !.upDrain = FALSE,
     !.downDrain = FALSE, !.upEof = "ignore", !.cuts = TRUE, !.packets = "whole"]

proxy_bidirectional == [TwoThreads EXCEPT !.downFin = {"client"}, !.errFin = {}]

(* ---------------- shadowsocks.rs, snell.rs, vmess, trojan --------------- *)
\* The reader holds a clone of the client's socket: dropping the writer at the
\* end of the downlink tells the client nothing.
relay_shadowsocks == TwoThreads

relay_snell == TwoThreads

\* The 1 s read timeout of the client is retried by the chunk reader's caller.
relay_vmess == [TwoThreads EXCEPT !.downFin = {"client"}, !.errFin = {"up"},
                                  !.cuts = TRUE, !.misreads = TRUE, !.stalls = TRUE]

relay_trojan_udp ==
  [OneLoop EXCEPT !.blocks = FALSE, !.upDrain = FALSE, !.downDrain = FALSE,
                  !.upEof = "linger", !.packets = "whole"]

(* ------- naive.rs, hysteria2.rs, tuic.rs: async halves; experimental.rs -- *)
\* join!: a half that fails drops its ends of the two streams.
relay_naive == [TwoThreads EXCEPT !.downFin = {"client"}]

\* try_join!: a half that fails cancels the other.
relay_hysteria2_tcp == [TwoThreads EXCEPT !.downFin = {"client"}, !.ends = "error"]

relay_tuic_tcp == [TwoThreads EXCEPT !.downFin = {"client"}, !.ends = "error"]

\* Both ends shut down both sockets, both ways.
relay_brook == [TwoThreads EXCEPT !.upFin = {"client", "target"},
                                  !.downFin = {"client", "target"}, !.ends = "any"]

RelayFunctions ==
  {relay_raw, relay_vision, relay_udp, relay_packetaddr_udp_stream,
   packetaddr_over_ws, packetaddr_over_ws_tls, packetaddr_over_shadowtls,
   relay_reality, relay_reality_vision, relay_reality_udp, spider_fallback,
   relay_anytls_raw, relay_anytls_vision, relay_anytls_udp, relay_sing_raw,
   relay_sing_vision, anytls_fallback, relay_quic_raw, relay_quic_vision,
   relay_quic_udp, relay_wt_raw, relay_wt_vision, relay_wt_udp, relay_grpc_raw,
   relay_grpc_vision, relay_grpc_udp, relay_xhttp_raw, relay_xhttp_vision,
   relay_xhttp_udp, relay_ws_raw, relay_ws_raw_tls, relay_ws_vision,
   relay_ws_vision_tls, relay_ws_udp, relay_ws_udp_tls, relay_ws_mux_udp,
   relay_ws_mux_udp_tls, relay_shadowtls_raw, relay_shadowtls_vision,
   relay_shadowtls_udp, proxy_bidirectional, relay_shadowsocks, relay_snell,
   relay_vmess, relay_trojan_udp, relay_naive, relay_hysteria2_tcp,
   relay_tuic_tcp, relay_brook, tls_relay}

=============================================================================
