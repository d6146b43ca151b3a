----------------------------- MODULE ConfigFlow -----------------------------
(***************************************************************************)
(* A configuration file between the programs that write and read it: the   *)
(* generator, the server, the export of client configurations, and the     *)
(* import into wrongcl.                                                    *)
(***************************************************************************)
EXTENDS WrongclImport, MainConfig, SequencesExt

CONSTANTS Items,    \* what the user may put into the list for the generator
          MaxItems, \* the longest list
          Written   \* the files that somebody may have written by hand

ASSUME ConfigAssumption ==
  MaxItems \in Nat /\ \A c \in Written : DOMAIN c.on \subseteq Sections

VARIABLES items,   \* the items of its list the generator has yet to expand
          todo,    \* the tokens it has yet to add
          set,     \* its ComponentSet
          gen,     \* idle, parsing, opened (file truncated), done, refused, failed (to write)
          asked,   \* the tokens its list stands for
          args,    \* the other arguments it was given
          file,    \* the file on disk: a configuration, or Missing, or Blank
          server,  \* down, refused (to start), starting or waiting (for WireGuard), up, stopped
          conf,    \* the configuration it has loaded
          helper,  \* the WireGuard process: none, failed (to start), run, dead
          keyfile, \* whether the file with its keys is there
          shutdown,\* the ShutdownSignal
          out      \* what a client tool made of which file: [tool, of, result]

vars == <<items, todo, set, gen, asked, args, file, server, conf, helper, keyfile, shutdown, out>>
genVars == <<items, todo, set, gen, asked, args>>
serverVars == <<server, conf, helper, keyfile, shutdown>>

Missing == [user |-> "missing"]
Blank   == [user |-> "blank"]
Readable(c) == c \notin {Missing, Blank}

(* --------------------------- what may be on disk ------------------------ *)
Stanzas == UNION {{s :> q : q \in Config[s]} : s \in Sections}
Files ==
  [on : {<<>>} \cup Stanzas, user : UserConfig, flow : {""}]
  \cup [on : {<<>>} \cup Stanzas, user : {"plain", "mute"}, flow : {"vision"}]
  \cup [on : {p @@ (s :> "plain") : p \in Stanzas, s \in Sections},
        user : {"nobody", "plain"}, flow : {""}]

\* Every preset and every component.
AllItems ==
  {"reality", "reality-vision", "anytls", "anytls-vision", "tls-vision", "ws-tcp", "websocket",
   "httpupgrade", "grpc", "xhttp", "hysteria2", "hysteria2-gecko", "hysteria2-salamander",
   "shadowsocks", "trojan-tls", "vless-raw"}
  \cup {"vless", "shadowsocks-2022", "shadowsocks-aead", "trojan", "tuic", "vmess", "naive",
        "snell", "tls", "vision", "gecko", "salamander", "raw", "anytls-reality"}
Lists == UNION {[1..n -> Items] : n \in 1..MaxItems}

Init ==
  /\ set = Empty /\ server = "down" /\ conf = Missing /\ shutdown = FALSE
  /\ helper = "none" /\ keyfile = FALSE
  /\ out = [tool |-> "none"] /\ todo = <<>> /\ asked = {}
  /\ \/ gen = "idle" /\ items = <<>> /\ args = Defaults /\ file \in Written
     \/ /\ gen = "parsing" /\ items \in Lists /\ args \in Arguments
        /\ file \in {Missing, File(<<>>, "plain")}

(* ------------------------------ the generator --------------------------- *)
\* The list is expanded as a whole before a token of it is looked at.
ExpandItem ==
  /\ gen = "parsing" /\ items # <<>>
  /\ LET tokens == expand_cluster(Head(items)) IN
       /\ todo' = todo \o tokens
       /\ asked' = asked \cup {tokens[i] : i \in 1..Len(tokens)}
  /\ items' = Tail(items)
  /\ UNCHANGED <<set, gen, args, file, serverVars, out>>

\* One token; the first that does not fit ends the program.
Add ==
  /\ gen = "parsing" /\ items = <<>> /\ todo # <<>>
  /\ LET s == component_add(set, Head(todo)) IN
       /\ set' = s /\ gen' = IF s.ok THEN gen ELSE "refused"
  /\ todo' = Tail(todo)
  /\ UNCHANGED <<items, asked, args, file, serverVars, out>>

\* Everything is checked before the file is opened, and so truncated.
Open ==
  /\ gen = "parsing" /\ items = <<>> /\ todo = <<>>
  /\ LET s == component_validate(set) IN
       /\ set' = s
       /\ IF s.ok /\ validate_rendered(render_config(s, args))
          THEN gen' = "opened" /\ file' = Blank
          ELSE gen' = "refused" /\ UNCHANGED file
  /\ UNCHANGED <<items, todo, asked, args, serverVars, out>>

write_private_file ==
  /\ gen = "opened"
  /\ \/ gen' = "done" /\ file' = render_config(set, args)
     \/ gen' = "failed" /\ UNCHANGED file
  /\ UNCHANGED <<items, todo, set, asked, args, serverVars, out>>

(* -------------------------------- the server ---------------------------- *)
load_config ==
  /\ server = "down"
  /\ server' = IF ~Readable(file) \/ ~new(file) THEN "refused"
               ELSE IF Served(file) = "wireguard" THEN "starting" ELSE "up"
  /\ conf' = IF server' = "refused" THEN conf ELSE file
  /\ UNCHANGED <<genVars, file, helper, keyfile, shutdown, out>>

request_shutdown ==
  /\ server \in {"starting", "waiting", "up"} /\ ~shutdown /\ shutdown' = TRUE
  /\ UNCHANGED <<genVars, file, server, conf, helper, keyfile, out>>

\* The WireGuard process is built, given its keys in a file, and started; each of
\* these may fail.
StartHelper ==
  /\ server = "starting"
  /\ \/ server' = "stopped" /\ UNCHANGED <<helper, keyfile>>
     \/ server' = "stopped" /\ helper' = "failed" /\ keyfile' = TRUE
     \/ server' = "waiting" /\ helper' = "run" /\ keyfile' = TRUE
  /\ UNCHANGED <<genVars, file, conf, shutdown, out>>

HelperExits ==
  /\ helper = "run" /\ helper' = "dead"
  /\ UNCHANGED <<genVars, file, server, conf, keyfile, shutdown, out>>

wait_for_helper_start ==
  /\ server = "waiting"
  /\ IF helper = "dead" THEN server' = "stopped" /\ keyfile' = FALSE
     ELSE server' = "up" /\ UNCHANGED keyfile
  /\ UNCHANGED <<genVars, file, conf, helper, shutdown, out>>

\* Asked to end, then killed.
terminate_child(h) == IF h = "run" THEN "dead" ELSE h

\* Mutant: the process and its keys are left behind.
Stop_Leaves ==
  /\ server = "up" /\ (shutdown \/ helper = "dead") /\ server' = "stopped"
  /\ UNCHANGED <<genVars, file, conf, shutdown, helper, keyfile, out>>

\* Mutant: the loop waits for the WireGuard process only.
Stop_Helper ==
  /\ server = "up" /\ helper = "dead" /\ server' = "stopped"
  /\ keyfile' = FALSE
  /\ UNCHANGED <<genVars, file, conf, shutdown, helper, out>>

\* The loop sees the signal, or that the WireGuard process has ended.
Stop ==
  /\ server = "up" /\ (shutdown \/ helper = "dead") /\ server' = "stopped"
  /\ helper' = terminate_child(helper) /\ keyfile' = FALSE
  /\ UNCHANGED <<genVars, file, conf, shutdown, out>>

\* The loop over the TCP listener cannot accept any more.
AcceptFails ==
  /\ server = "up" /\ run_until_shutdown(conf) = run_with_listener(conf)
  /\ server' = "stopped"
  /\ UNCHANGED <<genVars, file, conf, helper, keyfile, shutdown, out>>

(* --------------------------------- the tools ---------------------------- *)
\* A file that cannot be read is taken for no file: the defaults are exported.
DefaultClient(f) ==
  generate_client_config(f, [on |-> <<>>, user |-> "vision", flow |-> ""])

Export(f) ==
  /\ out.tool = "none"
  /\ out' = [tool |-> f, of |-> file, result |-> IF Readable(file) THEN generate_client_config(f, file)
                                    ELSE [DefaultClient(f) EXCEPT !.cred = "default"]]
  /\ UNCHANGED <<genVars, file, serverVars>>

Adapt ==
  /\ out.tool = "none" /\ Readable(file)
  /\ out' = [tool |-> "adapt", of |-> file, result |-> build_wrongcl_adapt_plan(file)]
  /\ UNCHANGED <<genVars, file, serverVars>>

Next ==
  \/ ExpandItem \/ Add \/ Open \/ write_private_file
  \/ load_config \/ request_shutdown \/ StartHelper \/ HelperExits \/ wait_for_helper_start
  \/ Stop \/ AcceptFails
  \/ (\E f \in ClientFormat : Export(f)) \/ Adapt

Spec == Init /\ [][Next]_vars
\* The loops of the server test the signal between accepts, at least every 200 ms,
\* and the start of the WireGuard process is given three seconds.
FairSpec == Spec /\ WF_vars(StartHelper) /\ WF_vars(wait_for_helper_start) /\ WF_vars(Stop)

(* -------------------------------- properties ---------------------------- *)
\* What the list asks for, whatever its order and however often it says it: at
\* most one inbound, TLS layer, framing and obfuscation, the last with Hysteria2,
\* the two before only with VLESS and not together, vision only with a TLS layer.
One(S) == Cardinality(asked \cap S) <= 1
Inbounds == {"vless", "shadowsocks-2022", "shadowsocks-aead", "trojan", "hysteria2", "tuic",
             "vmess", "naive", "snell"}
Layers == {"reality", "anytls", "tls"}
Framings == {"websocket", "httpupgrade", "grpc", "xhttp"}
Obfs == {"gecko", "salamander"}
Cooperative ==
  /\ asked \subseteq Inbounds \cup Layers \cup Framings \cup Obfs \cup {"vision", "raw", "tcp"}
  /\ One(Inbounds) /\ One(Obfs) /\ One(Layers \cup Framings)
  /\ asked \cap (Inbounds \cup Layers \cup Framings) # {}
  /\ asked \cap (Layers \cup Framings \cup {"vision"}) # {} =>
       asked \cap (Inbounds \ {"vless"}) = {}
  /\ asked \cap Obfs # {} => "hysteria2" \in asked
  /\ "vision" \in asked => asked \cap Layers # {}

\* A list that does not go together is refused, in whatever order it is written,
\* before the file is touched; one that does is refused only for a method or a
\* congestion control that do not exist.
RefusedBeforeWriting ==
  [][/\ file' # file => Cooperative
     /\ gen' = "refused" /\ gen # "refused" =>
          ~Cooperative \/ "unknown" \in {args.method, args.congestion}]_vars

\* The server starts from a generated file, and serves what was asked for.
\* (A method name in other letters is accepted by the generator, which then makes
\* a key that does not fit it.)
GeneratedIsServed ==
  gen = "done" /\ ~Is(file, "shadowsocks", {"badpsk"}) =>
    /\ new(file)
    /\ asked \cap Layers # {} => Served(file) \in asked
    /\ asked \cap Framings # {} => Served(file) \in asked
    /\ asked \cap {"trojan", "hysteria2", "tuic", "vmess", "naive", "snell"} # {} =>
         Served(file) \in asked
    /\ "vision" \in asked <=> file.user = "vision"
    /\ asked \cap Obfs # {} => file.on["hysteria2"] \in asked

\* A running server serves every section of its file: an accepted file has one,
\* but for the pairs the checks let through (two TLS layers, of which the first is
\* served, and an experimental protocol beside any VLESS transport, which hides it).
AcceptedIsServed ==
  server = "up" =>
    \A s \in DOMAIN conf.on : s # Served(conf) =>
      \/ {s, Served(conf)} \subseteq {"reality", "anytls", "tls"}
      \/ s \in Experimental /\ Served(conf) \in VlessTransports

\* The client tools take a running server's file for what the server serves (but
\* TLS beside an experimental protocol for the latter, and wrongcl takes every
\* experimental protocol for VLESS), and agree on the networks it carries, unless a
\* user, QUIC or WebTransport has UDP switched off, which only wrongcl looks at, or
\* Vision runs over a polled carrier, where only wrongcl sees it, or over QUIC or
\* WebTransport, where only the export does.
ToolsAgree ==
  server = "up" =>
    /\ \/ detect_profile(conf) = Served(conf)
       \/ Served(conf) = "tls" /\ detect_profile(conf) \in Experimental
    /\ active_profile_id(conf) = Served(conf) \/ Served(conf) \in Experimental
    /\ \/ resolve_client_values(conf).endpoint.payload = import_resolution_hint(conf).networks
       \/ detect_profile(conf) \in Experimental
       \/ IsVless(Served(conf)) /\ conf.user = "mute"
       \/ Served(conf) \in {"quic", "webtransport"} /\ Is(conf, Served(conf), {"noudp"})
       \/ Served(conf) \in {"quic", "webtransport"} /\ active_flow(conf) = "vision"
       \/ Served(conf) \in {"meek", "gdocsviewer"} /\ active_flow(conf) = "vision"

\* What the formats cannot say or get wrong.
Lossy(c, f) ==
  LET s == Served(c) IN
  \/ IsVless(s) /\ s # "anytls" /\ ~has_vless_users(c)
  \/ Is(c, "reality", {"noshort"})
  \/ s = "wireguard" \/ Is(c, "hysteria2", {"salamander", "gecko"})
  \/ s \in {"meek", "gdocsviewer"}
  \/ s = "kcp" /\ f \in {"singbox", "hiddify"}
  \/ s = "shadowtls" /\ f \in {"mihomo", "xray"}
  \/ s = "xhttp" /\ (f = "singbox" \/ Is(c, s, {"bare"}))
  \/ s \in {"websocket", "httpupgrade"} /\ Is(c, s, {"host"})

\* An exported client can use the running server exactly when the format can say
\* what the server needs.
ExportConnects ==
  server = "up" /\ out.tool \in ClientFormat /\ out.of = conf /\ out.result # NoClient =>
    (Fits(conf, out.result) <=> ~Lossy(conf, out.tool))

\* The certificate is the server's own, and the table of TLS settings, which wrongcl
\* copies, does not say that this must be ignored.
SelfSigned(c) ==
  LET s == Served(c) IN
  \/ s \in {"tls", "trojan"} /\ ~Is(c, s, {"cert", "insecure"})
  \/ s \in {"websocket", "httpupgrade", "grpc", "xhttp"} /\ Is(c, s, TlsTable \ {"cert", "insecure"})

\* wrongcl gets a whole plan for every running server's file it calls adaptable,
\* unless users, a short id or a tunnel address are missing, which it does not look
\* for; and, paths without their slash apart, the plan's client can use the server
\* exactly when it need not trust a certificate that the server has signed itself.
AdaptedConnects ==
  server = "up" /\ out.tool = "adapt" /\ out.of = conf /\ out.result.adaptable
    /\ Served(conf) \notin Experimental =>
    LET incomplete == \/ IsVless(Served(conf)) /\ ~has_vless_users(conf)
                      \/ Is(conf, "reality", {"noshort"}) \/ Is(conf, "wireguard", {"noip"})
        bare == \E s \in {"websocket", "httpupgrade", "xhttp"} : Is(conf, s, {"bare"})
    IN  /\ out.result.ok <=> ~incomplete
        /\ out.result.ok /\ ~bare => (Fits(conf, out.result.strict) <=> ~SelfSigned(conf))

\* A server that has stopped leaves no WireGuard process, and no file with its keys
\* unless the process could not be started, which returns before it is removed.
HelperIsGone == server = "stopped" => helper # "run" /\ (keyfile => helper = "failed")

\* A server that is told to stop stops.
ShutdownStops == shutdown ~> (server = "stopped")
=============================================================================
