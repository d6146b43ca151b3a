------------------------------ MODULE Evaluation ------------------------------
(***************************************************************************)
(* The evaluator: eval-server starts a proxy and three targets for each    *)
(* protocol in turn and tells eval-client, over a control channel of one   *)
(* JSON message a line, to measure through it; at the end each gives its   *)
(* verdict, on the server's stacks and on the client's clusters            *)
(* (crates/evaluator-server and crates/evaluator-client).                  *)
(*                                                                         *)
(* Of a measurement the loss is kept, which decides the verdicts, and the  *)
(* flow of the upload, which can block.  Either process works through its  *)
(* messages in order; sending to a process that has gone has no effect.    *)
(***************************************************************************)
EXTENDS ServerConfig, Connectors, SequencesExt

CONSTANTS
  Plans,     \* how the two programs are called
  Room,      \* chunks that a tunnel holds in one direction
  MaxFlaws   \* protocols that lose packets or whose targets do not start

ASSUME EvaluationAssumption ==
  /\ Plans \subseteq [token : BOOLEAN, stacks : Seq(STRING), protocols : Seq(STRING),
                      clusters : Seq(Seq(STRING))]
  /\ Room \in Nat \ {0} /\ MaxFlaws \in Nat

VARIABLES
  plan,      \* the call: token, requested stacks, requested protocols, clusters
  srv,       \* serve_client: "auth", "select", "test", "ready", "result", "summary", "over"
  list,      \* the protocols it goes through
  i,         \* the place in that list
  results,   \* the losses it was told
  cli,       \* run_evaluation: where it waits or what it measures; "done", "failed"
  testing,   \* the protocol it was told to test
  measured,  \* its results
  toServer, toClient,  \* messages on their way
  verdict,   \* the stack summary the client has received
  skipped,   \* places of the list whose targets could not be started
  up         \* the upload: its tunnel, its target, and whether its time is over

srvVars == <<srv, list, i, results, skipped>>
cliVars == <<cli, testing, measured, verdict, up>>
vars == <<plan, srvVars, cliVars, toServer, toClient>>

(* ------------------------------- the lists ------------------------------ *)
DEFAULT_PROTOCOLS ==
  <<"reality", "anytls", "tls", "raw", "ws", "ws+tls", "httpupgrade", "httpupgrade+tls", "grpc",
    "grpc+tls", "xhttp", "xhttp+tls", "quic", "kcp", "webtransport", "shadowtls", "vmess">>

STACKS ==
  [tier1 |-> <<"reality">>, tier2 |-> <<"reality">>, tier3 |-> <<"ws+tls">>,
   tier4 |-> <<"shadowtls">>, postquantum |-> <<"reality">>, legacy |-> <<"vmess">>]
STACK_NAMES == <<"tier1", "tier2", "tier3", "tier4", "postquantum", "legacy">>

\* The calls an instance looks at: every protocol; every stack; stacks, one of them
\* unknown; stacks while the client asks for a cluster of its own; names that mean
\* nothing; a wrong token.
Call(stacks, protocols, clusters) ==
  [token |-> TRUE, stacks |-> stacks, protocols |-> protocols, clusters |-> clusters]
SomeCalls ==
  {Call(<<>>, <<>>, <<>>),
   Call(<<"all">>, <<>>, <<>>),
   Call(<<"tier1", "tier9", "tier3", "postquantum">>, <<>>, <<>>),
   Call(<<"tier3", "legacy">>, <<>>, << <<"raw", "vmess">>, <<"vmess", "kcp">> >>),
   Call(<<"tier9">>, <<>>, <<>>),
   Call(<<>>, <<"raw", "hysteria2">>, <<>>),
   [Call(<<>>, <<"raw">>, <<>>) EXCEPT !.token = FALSE]}

\* The elements of s at the places K, in order.
InOrder(s, K) ==
  [n \in 1 .. Cardinality(K) |-> s[CHOOSE k \in K : Cardinality({j \in K : j <= k}) = n]]

\* Every element of a sequence of sequences, at its first place.
Merged(ss) ==
  LET flat == FlattenSeq(ss)
  IN InOrder(flat, {k \in DOMAIN flat : \A j \in 1 .. k - 1 : flat[j] # flat[k]})

Everything == {<<>>, <<"">>, <<"all">>}
resolve_protocols(requested) == IF requested \in Everything THEN DEFAULT_PROTOCOLS ELSE requested

\* Unknown names are passed over.
ProtocolsOf(names) ==
  Merged([k \in DOMAIN names |-> IF names[k] \in DOMAIN STACKS THEN STACKS[names[k]] ELSE <<>>])
resolve_stacks(requested) ==
  IF requested \in Everything THEN [names |-> DOMAIN STACKS, protocols |-> ProtocolsOf(STACK_NAMES)]
  ELSE [names |-> Range(requested) \cap DOMAIN STACKS, protocols |-> ProtocolsOf(requested)]

\* run_orchestrator: stacks, where any are asked for, take the place of protocols.
Stacks == IF plan.stacks # <<>> THEN resolve_stacks(plan.stacks).names ELSE {}
ServerList ==
  IF plan.stacks # <<>> THEN resolve_stacks(plan.stacks).protocols
  ELSE resolve_protocols(plan.protocols)

union(clusters) == Merged(clusters)

(* ------------------------ one protocol, at both ends -------------------- *)
Section(p) ==
  CASE p \in {"ws", "ws+tls"} -> "websocket"
    [] p = "httpupgrade+tls" -> "httpupgrade"
    [] p = "grpc+tls"  -> "grpc"
    [] p = "xhttp+tls" -> "xhttp"
    [] OTHER -> p
OverTls == {"ws+tls", "httpupgrade+tls", "grpc+tls", "xhttp+tls"}

\* Fault: the TLS of the carriers is left out of the file.
build_proxy_config_bare(p) ==
  [flow |-> "none", user |-> IF p = "reality" THEN "vision" ELSE IF p = "vmess" THEN "nobody" ELSE "plain",
   on |-> IF p = "raw" THEN [s \in {} |-> "plain"] ELSE [s \in {Section(p)} |-> "plain"]]

\* The file of the proxy; every protocol that is not on the list is a panic.
build_proxy_config(p) ==
  [flow |-> "none", user |-> IF p = "reality" THEN "vision" ELSE IF p = "vmess" THEN "nobody" ELSE "plain",
   on |-> IF p = "raw" THEN [s \in {} |-> "plain"]
          ELSE [s \in {Section(p)} |-> IF p \in OverTls THEN "tls" ELSE "plain"]]

\* The path, password or seed of the section.
Setting(p) ==
  CASE p \in {"ws", "ws+tls", "httpupgrade", "httpupgrade+tls", "xhttp", "xhttp+tls", "webtransport"} -> "/eval"
    [] p \in {"grpc", "grpc+tls"} -> "/EvalService/Tun"
    [] p = "kcp"       -> "eval-kcp-seed"
    [] p = "anytls"    -> "eval-anytls-pass"
    [] p = "shadowtls" -> "eval-stls-pass"
    [] OTHER -> ""

\* The client asks for Vision where REALITY is in the name.
connect_for_protocol(p) ==
  LET flow == IF p = "reality" THEN "vision" ELSE "plain"
      tls  == p \in OverTls
  IN CASE p = "raw"  -> connect_raw(flow)
       [] p = "tls"  -> connect_tls(flow)
       [] p \in {"ws", "ws+tls"} -> connect_ws(tls, flow)
       [] p \in {"httpupgrade", "httpupgrade+tls"} -> connect_httpupgrade(tls, flow)
       [] p \in {"grpc", "grpc+tls"} -> connect_grpc(tls, flow)
       [] p \in {"xhttp", "xhttp+tls"} -> connect_xhttp(tls, flow)
       [] p = "reality" -> connect_reality(flow)
       [] p = "anytls"  -> connect_anytls(flow)
       [] p = "quic" -> connect_quic(flow)
       [] p = "kcp"  -> connect_kcp(flow)
       [] p = "webtransport" -> connect_webtransport(flow)
       [] p = "shadowtls" -> connect_shadowtls(flow)
       [] p = "vmess" -> connect_vmess

\* The connector and the proxy of p speak the same, down to the secrets and the
\* order of messages.
Understood(p) ==
  \E c \in {build_proxy_config(p)} : \E at \in {Listening(c)} :
    Agree(connect_for_protocol(p), Serving(at, Setting(p), c.user))

\* Two are not: their connectors frame kcp packets in their own way, and look for a
\* ShadowTLS exchange inside TLS where the server speaks version 3.
Strangers == {"kcp", "shadowtls"}

(* -------------------------------- messages ------------------------------ *)
Msg(type, of) == [type |-> type, of |-> of]
Says(m)     == toClient' = IF cli \in {"done", "failed"} THEN toClient ELSE Append(toClient, m)
Tells(m)    == toServer' = IF srv = "over" THEN toServer ELSE Append(toServer, m)
Hears(type) == toServer # <<>> /\ Head(toServer).type = type
ClientGone  == toServer = <<>> /\ cli \in {"done", "failed"}
Reads(type) == toClient # <<>> /\ Head(toClient).type = type
ServerGone  == toClient = <<>> /\ srv = "over"

(* ------------------------------ serve_client ---------------------------- *)
\* How many protocols have gone wrong so far that need not have (for the bound).
Flaws == Cardinality(skipped)
         + Len(SelectSeq(measured, LAMBDA m : m.loss # "none" /\ m.protocol \notin Strangers))

Known(p) == p \in Range(DEFAULT_PROTOCOLS)

Authenticate ==
  /\ srv = "auth" /\ Hears("auth") /\ toServer' = Tail(toServer)
  /\ IF plan.token THEN Says(Msg("auth_ok", "")) /\ srv' = "select"
     ELSE Says(Msg("auth_err", "")) /\ srv' = "over"
  /\ UNCHANGED <<plan, list, i, results, skipped, cliVars>>

\* An empty selection leaves the choice to the server.
Select ==
  /\ srv = "select" /\ Hears("select_protocols") /\ toServer' = Tail(toServer)
  /\ list' = IF Head(toServer).of = <<>> THEN ServerList ELSE Head(toServer).of
  /\ i' = 1 /\ srv' = "test"
  /\ UNCHANGED <<plan, results, skipped, toClient, cliVars>>

\* Targets and proxy are started and the client is told; without its targets a
\* protocol is passed over, and one that is not known takes the process down.
StartTest ==
  /\ srv = "test" /\ i <= Len(list)
  /\ \/ Known(list[i]) /\ Says(Msg("test_config", list[i])) /\ srv' = "ready"
        /\ UNCHANGED <<i, skipped>>
     \/ ~Known(list[i]) /\ srv' = "over"
        /\ UNCHANGED <<i, skipped, toClient>>
     \/ Flaws < MaxFlaws /\ i' = i + 1 /\ skipped' = skipped \cup {i}
        /\ UNCHANGED <<srv, toClient>>
  /\ UNCHANGED <<plan, list, results, toServer, cliVars>>

WaitReady ==
  /\ srv = "ready" /\ Hears("ready") /\ toServer' = Tail(toServer)
  /\ Says(Msg("start", list[i])) /\ srv' = "result"
  /\ UNCHANGED <<plan, list, i, results, skipped, cliVars>>

\* Fault: the newest result comes first.
WaitResult_newest ==
  /\ srv = "result" /\ Hears("result") /\ toServer' = Tail(toServer)
  /\ results' = <<Head(toServer).of>> \o results
  /\ Says(Msg(IF i < Len(list) THEN "next" ELSE "done", ""))
  /\ i' = i + 1 /\ srv' = "test"
  /\ UNCHANGED <<plan, list, skipped, cliVars>>

\* The loss is noted, the proxy goes with the end of the turn.
WaitResult ==
  /\ srv = "result" /\ Hears("result") /\ toServer' = Tail(toServer)
  /\ results' = Append(results, Head(toServer).of)
  /\ Says(Msg(IF i < Len(list) THEN "next" ELSE "done", ""))
  /\ i' = i + 1 /\ srv' = "test"
  /\ UNCHANGED <<plan, list, skipped, cliVars>>

\* A client that has gone ends the loop, or the handshake before it.
NoticeEnd ==
  /\ ClientGone
  /\ \/ srv \in {"auth", "select"} /\ srv' = "over"
     \/ srv \in {"ready", "result"} /\ srv' = "summary"
  /\ UNCHANGED <<plan, list, i, results, skipped, toServer, toClient, cliVars>>

\* Results are matched with protocols by their places.  A stack fails by a
\* protocol that has a result and lost packets.
proto_results == [k \in 1 .. (IF Len(results) < Len(list) THEN Len(results) ELSE Len(list)) |->
                    [protocol |-> list[k], loss |-> results[k]]]
failing(s) == {p \in Range(STACKS[s]) :
                 \E r \in Range(proto_results) : r.protocol = p /\ r.loss # "none"}

Summarise ==
  /\ srv = "summary" \/ (srv = "test" /\ i > Len(list))
  /\ IF Stacks = {} THEN UNCHANGED toClient
     ELSE Says(Msg("stack_summary", {s \in Stacks : failing(s) = {}}))
  /\ srv' = "over"
  /\ UNCHANGED <<plan, list, i, results, skipped, toServer, cliVars>>

serve_client ==
  Authenticate \/ Select \/ StartTest \/ WaitReady \/ WaitResult \/ NoticeEnd \/ Summarise

(* ----------------------------- run_evaluation --------------------------- *)
Idle == [pipe |-> <<>>, target |-> "scan", late |-> FALSE]
ClientStep(at) == cli' = at /\ UNCHANGED <<plan, srvVars>>

SendAuth ==
  /\ cli = "connect" /\ Tells(Msg("auth", ""))
  /\ ClientStep("auth") /\ UNCHANGED <<testing, measured, verdict, up, toClient>>

RecvAuth ==
  /\ cli = "auth" /\ toClient # <<>> /\ toClient' = Tail(toClient)
  /\ IF Reads("auth_ok")
     THEN Tells(Msg("select_protocols", union(plan.clusters))) /\ ClientStep("loop")
     ELSE ClientStep("failed") /\ UNCHANGED toServer
  /\ UNCHANGED <<testing, measured, verdict, up>>

RecvLoop ==
  /\ cli = "loop" /\ toClient # <<>> /\ toClient' = Tail(toClient)
  /\ \/ Reads("test_config") /\ Tells(Msg("ready", "")) /\ ClientStep("start")
        /\ testing' = Head(toClient).of
     \/ Reads("next") /\ ClientStep("loop") /\ UNCHANGED <<toServer, testing>>
     \/ Reads("done") /\ ClientStep("last") /\ UNCHANGED <<toServer, testing>>
     \/ Reads("stack_summary") /\ ClientStep("failed") /\ UNCHANGED <<toServer, testing>>
  /\ UNCHANGED <<measured, verdict, up>>

RecvStart ==
  /\ cli = "start" /\ Reads("start") /\ toClient' = Tail(toClient)
  /\ ClientStep("latency")
  /\ UNCHANGED <<testing, measured, verdict, up, toServer>>

\* The pings are answered or not; a lost one only lowers their number.  Here and
\* below the step is the return of the connector and of its reads and writes: they
\* return with an error after a limit of their own only where testing is Limited.
run_latency_test ==
  /\ cli = "latency" /\ ClientStep("bandwidth")
  /\ UNCHANGED <<testing, measured, verdict, up, toServer, toClient>>

\* Two connections, or no bandwidth.
run_bandwidth_test ==
  /\ cli = "bandwidth"
  /\ \/ Understood(testing) /\ ClientStep("upload")
     \/ ClientStep("loss")
  /\ UNCHANGED <<testing, measured, verdict, up, toServer, toClient>>

\* Chunks are written until the time is over, then the trigger; a write waits
\* for room in the tunnel.
run_upload_phase ==
  /\ cli = "upload" /\ Len(up.pipe) < Room
  /\ \/ ~up.late /\ up' = [up EXCEPT !.pipe = Append(@, "data")] /\ ClientStep("upload")
     \/ up.late /\ up' = [up EXCEPT !.pipe = Append(@, "BW_DOWNLOAD")] /\ ClientStep("download")
  /\ UNCHANGED <<testing, measured, verdict, toServer, toClient>>

UploadTimeOver ==
  /\ cli = "upload" /\ ~up.late /\ up' = [up EXCEPT !.late = TRUE]
  /\ ClientStep("upload") /\ UNCHANGED <<testing, measured, verdict, toServer, toClient>>

\* The trigger cannot be written, or its time limit is over; the download goes on.
UploadFails ==
  /\ cli = "upload" /\ up.late /\ ClientStep("download")
  /\ UNCHANGED <<testing, measured, verdict, up, toServer, toClient>>

\* The download's own connection is read until the time is over, whatever comes.
run_download_phase ==
  /\ cli = "download" /\ ClientStep("loss") /\ up' = Idle
  /\ UNCHANGED <<testing, measured, verdict, toServer, toClient>>

\* Packets are sent and awaited one by one; without a connection all are lost.
run_packet_loss_test ==
  /\ cli = "loss"
  /\ \E loss \in {"none", "some"} :
       /\ loss = "none" => Understood(testing)
       /\ loss = "some" /\ testing \notin Strangers => Flaws < MaxFlaws
       /\ measured' = Append(measured, [protocol |-> testing, loss |-> loss])
  /\ ClientStep("report") /\ UNCHANGED <<testing, verdict, up, toServer, toClient>>

SendResult ==
  /\ cli = "report" /\ Tells(Msg("result", Last(measured).loss))
  /\ ClientStep("loop") /\ UNCHANGED <<testing, measured, verdict, up, toClient>>

\* After the last protocol a summary, or the end of the connection.
RecvLast ==
  /\ cli = "last" /\ (toClient # <<>> \/ ServerGone)
  /\ IF toClient # <<>> THEN verdict' = Head(toClient).of /\ toClient' = Tail(toClient)
     ELSE UNCHANGED <<verdict, toClient>>
  /\ ClientStep("done") /\ UNCHANGED <<testing, measured, up, toServer>>

ServerLost ==
  /\ ServerGone /\ cli \in {"auth", "loop", "start"}
  /\ ClientStep("failed") /\ UNCHANGED <<testing, measured, verdict, up, toServer, toClient>>

\* The client is stopped, or loses its connection.
ClientDies ==
  /\ cli \notin {"done", "failed"}
  /\ ClientStep("failed") /\ toClient' = <<>> /\ UNCHANGED <<testing, measured, verdict, up, toServer>>

\* What waits for the control channel only, and what waits for the proxy.
Dialogue == SendAuth \/ RecvAuth \/ RecvLoop \/ RecvStart \/ SendResult \/ RecvLast \/ ServerLost
Answered ==
  run_latency_test \/ run_bandwidth_test \/ run_upload_phase \/ run_download_phase \/ run_packet_loss_test

run_evaluation == Dialogue \/ Answered \/ UploadFails

\* Protocols whose connectors give up connecting, reading and writing: timeouts of
\* the bare socket, or a count of polls.  The others retry WouldBlock or await a
\* future for as long as it takes.
Limited == {"raw", "ws", "httpupgrade", "kcp"}

\* The client's own verdict: a cluster fails by a protocol that lost packets or
\* has no result.
cluster_failing(c) ==
  {p \in Range(c) : ~ \E m \in Range(measured) : m.protocol = p /\ m.loss = "none"}

(* -------------------------- the bandwidth target ------------------------ *)
\* Fault: the download starts with the connection.
TargetReads_eager ==
  /\ cli \in {"upload", "download"} /\ up.target = "scan" /\ up.pipe # <<>>
  /\ up' = [up EXCEPT !.pipe = Tail(@), !.target = "send"]
  /\ UNCHANGED <<plan, srvVars, cli, testing, measured, verdict, toServer, toClient>>

\* What comes is thrown away up to the trigger, and from then on not read.
TargetReads ==
  /\ cli \in {"upload", "download"} /\ up.target = "scan" /\ up.pipe # <<>>
  /\ up' = [up EXCEPT !.pipe = Tail(@),
                      !.target = IF Head(up.pipe) = "BW_DOWNLOAD" THEN "send" ELSE "scan"]
  /\ UNCHANGED <<plan, srvVars, cli, testing, measured, verdict, toServer, toClient>>

spawn_bandwidth_target == TargetReads

(* ------------------------------ specification --------------------------- *)
Init ==
  /\ plan \in Plans
  /\ srv = "auth" /\ list = <<>> /\ i = 0 /\ results = <<>> /\ skipped = {}
  /\ cli = "connect" /\ testing = "" /\ measured = <<>> /\ verdict = {} /\ up = Idle
  /\ toServer = <<>> /\ toClient = <<>>

Next ==
  serve_client \/ run_evaluation \/ spawn_bandwidth_target \/ UploadTimeOver \/ ClientDies

Spec == Init /\ [][Next]_vars

\* Either process goes on with its own work, and the clock does.  The proxy and the
\* targets owe the client nothing, so what waits for them is owed where the
\* connector has limits only.
FairSpec ==
  /\ Spec /\ WF_vars(serve_client) /\ WF_vars(Dialogue) /\ WF_vars(UploadTimeOver)
  /\ WF_vars(testing \in Limited /\ (Answered \/ UploadFails))

(* ------------------------------- properties ----------------------------- *)
\* The two programs take turns: one message at most is on its way to the server
\* and two to the client, which reads none once it has ended; the tunnel of an
\* upload never holds more than it has room for.
TypeOK ==
  /\ srv \in {"auth", "select", "test", "ready", "result", "summary", "over"}
  /\ cli \in {"connect", "auth", "loop", "start", "latency", "bandwidth", "upload", "download",
              "loss", "report", "last", "done", "failed"}
  /\ skipped \subseteq DOMAIN list
  /\ Len(toServer) <= 1 /\ Len(toClient) <= 2 /\ (cli \in {"done", "failed"} => toClient = <<>>)
  /\ up \in [pipe : Seq({"data", "BW_DOWNLOAD"}), target : {"scan", "send"}, late : BOOLEAN]
  /\ Len(up.pipe) <= Room

\* The proxy of the protocol under test starts from its file and knows its user,
\* and the connector speaks what that proxy speaks: the result is about that
\* protocol.  It leaves the Strangers open, which ZeroLossLocally is about.
EvaluatedIsServed ==
  srv \in {"ready", "result"} =>
    LET c == build_proxy_config(list[i])
    IN /\ new(c) /\ Listening(c).known
       /\ list[i] \notin Strangers => Understood(list[i])

\* docs/evaluator.md: "All 17 protocols at 0% loss locally", where nothing is lost
\* on the way.  Instances without flaws are such runs.
ZeroLossLocally == \A m \in Range(measured) : m.loss = "none"

\* The place among the results of the protocol at place j of the list, were all
\* of them measured but those that were passed over.
Place(j) == Cardinality((1 .. j) \ skipped)

\* A client that ends well has measured every protocol of the list whose targets
\* were started, and the server notes the same losses.  It is shown PASS for a
\* stack only if every protocol of it lost nothing, as for its own clusters,
\* provided the protocols were all on the list and all started: a stack that the
\* client's clusters leave out passes untested, and a protocol passed over shifts
\* the losses of those behind it.
VerdictIsEarned ==
  cli = "done" =>
    /\ Len(measured) = Place(Len(list))
    /\ \A j \in DOMAIN list \ skipped : measured[Place(j)].protocol = list[j]
    /\ [k \in DOMAIN measured |-> measured[k].loss] = results
    /\ skipped = {} => \A s \in verdict : cluster_failing(STACKS[s]) \cap Range(list) = {}

\* The proxy answers, or drops, what the client asks through it, and the bandwidth
\* target reads.
ProxyAnswers == WF_vars(Answered) /\ WF_vars(spawn_bandwidth_target)

Over      == srv = "over" /\ cli \in {"done", "failed"}
Measuring == cli \in {"latency", "bandwidth", "upload", "download", "loss"}

\* Both programs end, whatever is lost, as long as the proxy answers: no side waits
\* for a message that is not coming, and the upload is not stuck behind its own
\* download.  If it does not, they end all the same, unless the client hangs in a
\* connector that is not Limited.
EvaluationEnds ==
  /\ ProxyAnswers => <>Over
  /\ <>Over \/ <>[](Measuring /\ testing \notin Limited)
=============================================================================
