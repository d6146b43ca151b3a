----------------------------- MODULE RelayProofs -----------------------------
(* Proofs about Relay, for every relay function of the server and every      *)
(* length of the two streams.                                                *)
EXTENDS Relay, TLAPS

-----------------------------------------------------------------------------
(* What the relay functions have in common *)

\* The traits the argument rests on: a function whose downlink may outlive its
\* uplink does not tell the client that the uplink has ended, the write half of
\* a thread does not fail for that reason, and only packet relays share a flag.
Sound(r) ==
  /\ r.first \in {"up", "down"} /\ r.packets \in {"none", "whole", "perRead"}
  /\ r.upFin \subseteq Peers /\ r.downFin \subseteq Peers
  /\ r.engine = "threads" /\ r.ends # "any" => "client" \notin r.upFin
  /\ r.engine = "threads" => ~r.eofBreaks
  /\ r.engine # "threads" /\ r.upEof \notin {"stop", "ignore", "either"} => "client" \notin r.upFin
  /\ r.engine = "threads" => r.upEof = "half"
  /\ r.shared => r.packets # "none"
  /\ r.holds \in BOOLEAN /\ r.misreads \in BOOLEAN
  /\ r.holds => r.packets = "none" /\ ~r.cuts /\ ~r.eofBreaks
  /\ r.misreads => r.cuts
  /\ r.upEof = "either" => ~r.holds

LEMMA FunctionsAreSound == \A r \in RelayFunctions : Sound(r)
<1>a. /\ Sound(relay_packetaddr_udp_stream) /\ Sound(packetaddr_over_ws)
      /\ Sound(packetaddr_over_ws_tls) /\ Sound(packetaddr_over_shadowtls)
  BY DEF Sound, Peers, TwoThreads, OneLoop, relay_packetaddr_udp_stream,
         packetaddr_over_ws, packetaddr_over_ws_tls, packetaddr_over_shadowtls
<1>b. /\ Sound(relay_ws_raw_tls) /\ Sound(relay_ws_vision_tls)
      /\ Sound(relay_ws_udp_tls) /\ Sound(relay_ws_mux_udp_tls)
  BY DEF Sound, Peers, TwoThreads, OneLoop, OverTls, relay_ws_raw, relay_ws_vision,
         relay_ws_udp, relay_ws_mux_udp, relay_ws_raw_tls, relay_ws_vision_tls,
         relay_ws_udp_tls, relay_ws_mux_udp_tls
<1>1. /\ Sound(relay_raw) /\ Sound(relay_vision) /\ Sound(relay_udp)
      /\ Sound(relay_reality) /\ Sound(relay_reality_vision)
  BY DEF Sound, Peers, TwoThreads, OneLoop, relay_raw, relay_vision, relay_udp,
         relay_reality, relay_reality_vision
<1>2. /\ Sound(relay_reality_udp) /\ Sound(spider_fallback)
      /\ Sound(relay_anytls_raw) /\ Sound(relay_anytls_vision)
      /\ Sound(relay_anytls_udp) /\ Sound(relay_sing_raw)
  BY DEF Sound, Peers, TwoThreads, OneLoop, relay_reality_udp, spider_fallback,
         relay_anytls_raw, relay_anytls_vision, relay_anytls_udp, relay_sing_raw
<1>3. /\ Sound(relay_sing_vision) /\ Sound(anytls_fallback)
      /\ Sound(relay_quic_raw) /\ Sound(relay_quic_vision)
      /\ Sound(relay_quic_udp) /\ Sound(relay_wt_raw)
  BY DEF Sound, Peers, TwoThreads, OneLoop, relay_sing_vision, anytls_fallback,
         relay_quic_raw, relay_quic_vision, relay_quic_udp, relay_wt_raw,
         relay_sing_raw
<1>4. /\ Sound(relay_wt_vision) /\ Sound(relay_wt_udp)
      /\ Sound(relay_grpc_raw) /\ Sound(relay_grpc_vision)
      /\ Sound(relay_grpc_udp) /\ Sound(relay_xhttp_raw)
  BY DEF Sound, Peers, TwoThreads, OneLoop, relay_wt_vision, relay_wt_udp,
         relay_grpc_raw, relay_grpc_vision, relay_grpc_udp, relay_xhttp_raw
<1>5. /\ Sound(relay_xhttp_vision) /\ Sound(relay_xhttp_udp)
      /\ Sound(relay_ws_raw) /\ Sound(relay_ws_vision)
      /\ Sound(relay_ws_udp) /\ Sound(relay_ws_mux_udp)
  BY DEF Sound, Peers, TwoThreads, OneLoop, relay_xhttp_vision, relay_xhttp_udp,
         relay_ws_raw, relay_ws_vision, relay_ws_udp, relay_ws_mux_udp
<1>6. /\ Sound(relay_shadowtls_raw) /\ Sound(relay_shadowtls_vision)
      /\ Sound(relay_shadowtls_udp) /\ Sound(proxy_bidirectional)
      /\ Sound(relay_shadowsocks) /\ Sound(relay_snell)
  BY DEF Sound, Peers, TwoThreads, OneLoop, relay_shadowtls_raw,
         relay_shadowtls_vision, relay_shadowtls_udp, proxy_bidirectional,
         relay_shadowsocks, relay_snell
<1>7. /\ Sound(relay_vmess) /\ Sound(relay_trojan_udp)
      /\ Sound(relay_naive) /\ Sound(relay_hysteria2_tcp)
      /\ Sound(relay_tuic_tcp) /\ Sound(relay_brook)
  BY DEF Sound, Peers, TwoThreads, OneLoop, relay_vmess, relay_trojan_udp,
         relay_naive, relay_hysteria2_tcp, relay_tuic_tcp, relay_brook
<1>8. /\ Sound(tls_relay)
  BY DEF Sound, Peers, TwoThreads, OneLoop, tls_relay
<1> QED BY <1>a, <1>b, <1>1, <1>2, <1>3, <1>4, <1>5, <1>6, <1>7, <1>8 DEF RelayFunctions

LEMMA RelIsSound == ASSUME TypeOK PROVE Sound(rel)
BY FunctionsAreSound, RelayAssumption DEF TypeOK

-----------------------------------------------------------------------------
(* The inductive invariant *)

\* Before the relay starts nothing has happened to it.
StartInv == at = "start" => taken = 0 /\ tGot = <<>> /\ cGot = 0 /\ told = {}
                            /\ up = "run" /\ down = "run" /\ ~torn

\* An end of stream was read at the end of a stream that stays ended.
EofInv ==
  /\ up = "eof" => "client" \in closed /\ taken = sent
  /\ down = "eof" => "target" \in closed /\ cGot = dSent

\* While the relay runs, the client is told of an end only by the end of the
\* downlink, or by the echo of its own Close frame; a loop leaves the downlink only at its end of stream, and tells
\* the target only of the end of the client's stream.
TellInv == ~Over =>
  /\ "client" \in told => down # "run" \/ (rel.upEof = "either" /\ up = "eof")
  /\ ~Threads => down \in {"run", "eof"} /\ up \in {"run", "eof", "held"}
  /\ ~Threads /\ "target" \in told => up \in {"eof", "held"}

\* AnswerIsWhole, for the end of the downlink too.
AnswerInv ==
  HalfCloses /\ Orderly /\ rel.packets = "none" =>
    /\ "client" \in told \/ down # "run" => "target" \in closed /\ cGot = dSent
    /\ "target" \in told /\ up = "run" => down # "run"

\* RequestIsWhole, for the end of the uplink too.
RequestInv ==
  /\ Orderly /\ rel.packets = "none" /\ rel.initial = "forward" /\ "target" \notin closed
  => /\ ~rel.holds => tGot = Units(0, taken)
     /\ "target" \in told \/ up # "run" =>
          "client" \in closed /\ taken = sent /\ (up = "held" \/ tGot = Units(0, taken))

\* UplinkIsPrefix, with the place the relay has come to.
PrefixInv ==
  rel.packets # "perRead" /\ rel.initial = "forward" /\ ~(torn /\ rel.misreads) =>
    /\ tGot = Units(0, Len(tGot)) /\ Len(tGot) <= taken
    /\ rel.packets = "none" /\ ~rel.holds /\ up = "run" /\ ~Over /\ ~torn => Len(tGot) = taken

IInv == TypeOK /\ StartInv /\ EofInv /\ TellInv /\ AnswerInv /\ RequestInv /\ PrefixInv

-----------------------------------------------------------------------------
(* The invariant is inductive *)

\* Runs of units.
LEMMA UnitsType ==
  ASSUME NEW a \in Nat, NEW b \in Nat, NEW c \in Nat, b <= c
  PROVE  Units(a, b) \in Seq(0..c)
<1>1. b <= a => Units(a, b) = <<>> BY DEF Units
<1>2. a <= b => b - a \in Nat BY DEF Units
<1>3. \A i \in 1..(b - a) : a + i \in 0..c OBVIOUS
<1> QED BY <1>1, <1>2, <1>3 DEF Units

LEMMA UnitsLen ==
  ASSUME NEW a \in Nat, NEW b \in Nat
  PROVE  /\ a <= b => Len(Units(a, b)) = b - a
         /\ b <= a => Units(a, b) = <<>>
BY DEF Units

LEMMA FirstUnits == \A b \in Nat : Len(Units(0, b)) = b
BY DEF Units

LEMMA UnitsConcat ==
  ASSUME NEW a \in Nat, NEW b \in Nat, a <= b
  PROVE  Units(0, a) \o Units(a, b) = Units(0, b)
BY DEF Units

LEMMA HalvesBelow == \A b \in Nat : 2 * (b \div 2) \in 0..b
OBVIOUS

\* What the target is given keeps its type.
LEMMA PassedType ==
  ASSUME TypeOK, NEW b \in Nat, taken <= b, b <= sent
  PROVE  Passed(b) \subseteq Seq(0..MaxUp)
<1>1. Len(tGot) \in Nat /\ sent \in 0..MaxUp /\ taken \in Nat /\ tGot \in Seq(0..MaxUp)
  BY RelayAssumption DEF TypeOK
<1>a. MaxUp \in Nat BY RelayAssumption
<1>2. b <= MaxUp /\ 2 * (b \div 2) \in Nat /\ 2 * (b \div 2) <= MaxUp BY <1>1, <1>a, HalvesBelow
<1>3. Units(PassedFrom, b) \in Seq(0..MaxUp) BY <1>1, <1>2, <1>a, UnitsType DEF PassedFrom
<1>4. Units(Len(tGot), 2 * (b \div 2)) \in Seq(0..MaxUp) BY <1>1, <1>2, <1>a, UnitsType
<1>5. b - taken \in Nat BY <1>1
<1>6. Units(taken, taken + 2 * ((b - taken) \div 2)) \in Seq(0..MaxUp)
  <2> DEFINE e == taken + 2 * ((b - taken) \div 2)
  <2>1. e \in Nat /\ e <= MaxUp BY <1>1, <1>2, <1>5, <1>a, HalvesBelow
  <2> QED BY <1>1, <1>a, <2>1, UnitsType
<1>7. Append(tGot, 0) \in Seq(0..MaxUp) BY <1>1, RelayAssumption
<1>8. rel.packets \in {"none", "whole", "perRead"} BY RelIsSound DEF Sound
<1>b. CASE torn BY <1>1, <1>7, <1>b DEF Passed
<1>9. CASE ~torn /\ rel.packets = "none" BY <1>1, <1>3, <1>9 DEF Passed
<1>10. CASE ~torn /\ rel.packets = "whole" BY <1>1, <1>4, <1>10 DEF Passed
<1>11. CASE ~torn /\ rel.packets = "perRead"
  <2> DEFINE u == Units(taken, taken + 2 * ((b - taken) \div 2))
  <2>1. Passed(b) = IF taken % 2 = 0 THEN {tGot \o u} ELSE {tGot, Append(tGot, 0)}
    BY <1>11 DEF Passed
  <2>2. u \in Seq(0..MaxUp) BY <1>6
  <2> HIDE DEF u
  <2>3. tGot \o u \in Seq(0..MaxUp) BY <2>2, <1>1
  <2> QED BY <1>1, <1>7, <2>1, <2>3
<1> QED BY <1>b, <1>8, <1>9, <1>10, <1>11

\* A relay that reassembles packets, or has none, passes a run of units on.
LEMMA PassedRun ==
  ASSUME TypeOK, NEW b \in Nat, taken <= b, ~torn, rel.packets # "perRead",
         tGot = Units(0, Len(tGot)), Len(tGot) <= taken,
         rel.packets = "none" /\ ~rel.holds => Len(tGot) = taken,
         NEW t \in Passed(b)
  PROVE  t = Units(0, Len(t)) /\ Len(t) <= b /\ (rel.packets = "none" => t = Units(0, b) /\ Len(t) = b)
<1> DEFINE n == Len(tGot)  e == 2 * (b \div 2)
<1>1. n \in Nat /\ taken \in Nat /\ e \in Nat /\ e <= b
  BY HalvesBelow, RelayAssumption DEF TypeOK
<1>a. tGot = Units(0, n) /\ n <= taken /\ tGot \in Seq(0..MaxUp) BY DEF TypeOK
<1>b. rel.packets = "none" => t = tGot \o Units(n, b) BY DEF Passed, PassedFrom
<1>c. rel.packets = "whole" => t = tGot \o Units(n, e) BY DEF Passed
<1> HIDE DEF n, e
<1>2. CASE rel.packets = "none"
  <2>0. n <= b BY <1>1, <1>a
  <2>1. t = Units(0, b) BY <1>1, <1>2, <1>a, <1>b, <2>0, UnitsConcat
  <2> QED BY <2>1, FirstUnits
<1>3. CASE rel.packets = "whole"
  <2>2. CASE n <= e
    <3>1. t = Units(0, e) BY <1>1, <1>3, <1>a, <1>c, <2>2, UnitsConcat
    <3> QED BY <1>1, <1>3, <3>1, FirstUnits
  <2>3. CASE e <= n
    <3>1. Units(n, e) = <<>> /\ tGot \o <<>> = tGot BY <1>1, <1>a, <2>3, UnitsLen
    <3>2. t = tGot BY <1>3, <1>c, <3>1
    <3> QED BY <1>1, <1>3, <1>a, <3>2, FirstUnits
  <2> QED BY <1>1, <2>2, <2>3
<1> QED BY <1>2, <1>3, RelIsSound DEF Sound

LEMMA UnitsPrefix ==
  ASSUME NEW a \in Nat, NEW b \in Nat, a <= b
  PROVE  IsPrefix(Units(0, a), Units(0, b))
BY DEF Units, IsPrefix

\* The first chunk: k of the b units that have left the socket.
LEMMA StartReads ==
  ASSUME TypeOK, Start
  PROVE  \E b \in 0..sent, k \in 0..sent :
           /\ k <= b /\ taken' = b /\ (~rel.holds => k = b)
           /\ \/ /\ k = 0 \/ rel.initial = "drop"
                 /\ at' = rel.first /\ UNCHANGED <<tGot, told, up, down>>
              \/ /\ TargetTakes /\ tGot' \in Passed(k)
                 /\ at' = rel.first /\ UNCHANGED <<told, up, down>>
              \/ ~TargetTakes /\ Leave("error", "stopped") /\ UNCHANGED tGot
<1> DEFINE S(b, k) ==
      /\ taken' = b
      /\ CASE k = 0 \/ rel.initial = "drop" -> at' = rel.first /\ UNCHANGED <<tGot, told, up, down>>
           [] OTHER -> IF TargetTakes
                       THEN tGot' \in Passed(k) /\ at' = rel.first /\ UNCHANGED <<told, up, down>>
                       ELSE Leave("error", "stopped") /\ UNCHANGED tGot
<1>1. \E b \in 0..sent : \E k \in (IF rel.holds THEN 0..b ELSE {b}) : S(b, k) BY DEF Start
<1>2. PICK b \in 0..sent : \E k \in (IF rel.holds THEN 0..b ELSE {b}) : S(b, k) BY <1>1
<1>3. PICK k \in (IF rel.holds THEN 0..b ELSE {b}) : S(b, k) BY <1>2
<1>4. sent \in Nat BY RelayAssumption DEF TypeOK
<1>5. k \in 0..sent /\ k <= b /\ (~rel.holds => k = b) BY <1>2, <1>3, <1>4
<1> HIDE DEF TypeOK, Start
<1> QED BY <1>3, <1>5

\* The variables keep their types.
LEMMA TypeStep == ASSUME TypeOK, StartInv, [Next]_vars PROVE TypeOK'
<1>a. Sound(rel) BY RelIsSound
<1> USE RelayAssumption DEF TypeOK, Peers, Ends, env, Threads, Over
<1>1. CASE Environment
  <2> USE <1>1 DEF Environment
  <2>1. CASE ClientSend BY <2>1 DEF ClientSend
  <2>2. CASE ClientClose BY <2>2 DEF ClientClose
  <2>3. CASE ClientReset BY <2>3 DEF ClientReset
  <2>4. CASE TargetSend BY <2>4 DEF TargetSend
  <2>5. CASE TargetClose BY <2>5 DEF TargetClose
  <2>6. CASE TargetReset BY <2>6 DEF TargetReset
  <2> QED BY <2>1, <2>2, <2>3, <2>4, <2>5, <2>6
<1>2. CASE Start
  <2>1. PICK b \in 0..sent, k \in 0..sent :
          k <= b /\ taken' = b /\ (UNCHANGED tGot \/ tGot' \in Passed(k))
    <3> HIDE DEF TypeOK
    <3> QED BY <1>2, StartReads
  <2>2. tGot' \in Seq(0..MaxUp)
    <3>1. k \in Nat /\ k <= sent BY <2>1
    <3>2. taken = 0 BY <1>2 DEF Start, StartInv
    <3> QED BY <2>1, <3>1, <3>2, PassedType
  <2>3. at' \in {"start", "up", "down", "over"} /\ up' \in Ends /\ down' \in Ends /\ told' \subseteq Peers
    BY <1>2, <1>a DEF Start, Leave, Sound
  <2> QED BY <1>2, <2>1, <2>2, <2>3 DEF Start
<1>3. CASE UpRead
  <2>1. PICK b \in (taken + 1)..sent : taken' = b /\ (UNCHANGED tGot \/ tGot' \in Passed(b))
    BY <1>3, <1>a DEF Sound, UpRead
  <2>2. tGot' \in Seq(0..MaxUp)
    <3>1. b \in Nat /\ taken <= b /\ b <= sent BY <2>1
    <3> QED BY <2>1, <3>1, PassedType
  <2>3. taken' \in 0..sent' /\ UNCHANGED <<rel, env, cGot, torn>> BY <1>3, <2>1 DEF UpRead
  <2>4. at' \in {"start", "up", "down", "over"} /\ up' \in Ends /\ down' \in Ends /\ told' \subseteq Peers
    BY <1>3, <1>a DEF Sound, UpRead, UpTurn, UpEnds, UpPolled, Leave, Cancels, ErrorTells
  <2> QED BY <2>2, <2>3, <2>4
<1>4. CASE UpEof
  BY <1>4, <1>a DEF Sound, UpEof, UpTurn, UpEnds, UpPolled, Leave, Cancels
<1>5. CASE UpError
  BY <1>5, <1>a DEF Sound, UpError, UpTurn, UpEnds, Leave, Cancels, ErrorTells
<1>6. CASE UpNothing
  BY <1>6, <1>a DEF Sound, UpNothing, UpIdle, UpTurn, UpPolled, Leave
<1>7. CASE UpSkip
  BY <1>7, <1>a DEF Sound, UpSkip, UpPolled, Leave
<1>8. CASE UpCut
  <2>1. taken' = sent /\ torn' = TRUE /\ UNCHANGED <<rel, env, tGot, cGot>> BY <1>8 DEF UpCut
  <2>2. at' \in {"start", "up", "down", "over"} /\ up' \in Ends /\ down' \in Ends /\ told' \subseteq Peers
    BY <1>8 DEF UpCut, UpPolled, Leave
  <2> QED BY <2>1, <2>2
<1>9. CASE UpTimeout
  BY <1>9, <1>a DEF Sound, UpTimeout, UpIdle, UpTurn, UpEnds, Leave, Cancels
<1>10. CASE DownRead
  <2>1. cGot' \in 0..dSent' /\ UNCHANGED <<rel, env, taken, tGot, torn>> BY <1>10 DEF DownRead
  <2>2. at' \in {"start", "up", "down", "over"} /\ up' \in Ends /\ down' \in Ends /\ told' \subseteq Peers
    BY <1>10, <1>a DEF Sound, DownRead, DownEnds, Leave, Cancels, ErrorTells
  <2> QED BY <2>1, <2>2
<1>11. CASE DownEof
  BY <1>11, <1>a DEF Sound, DownEof, DownTurn, DownEnds, Leave, Cancels
<1>12. CASE DownError
  BY <1>12, <1>a DEF Sound, DownError, DownTurn, DownEnds, Leave, Cancels, ErrorTells
<1>13. CASE DownNothing
  BY <1>13, <1>a DEF Sound, DownNothing, DownIdle, DownTurn, Leave
<1>14. CASE DownStop
  BY <1>14, <1>a DEF Sound, DownStop, DownIdle, DownTurn, DownEnds, Leave, Cancels
<1>15. CASE DownTimeout
  BY <1>15, <1>a DEF Sound, DownTimeout, DownIdle, DownTurn, DownEnds, Leave, Cancels
<1>16. CASE DownStalls
  BY <1>16, <1>a DEF Sound, DownStalls, DownTurn, DownEnds, Leave, Cancels, ErrorTells
<1>17. CASE Join
  BY <1>17, <1>a DEF Sound, Join, Leave
<1>18. CASE UNCHANGED vars BY <1>18 DEF vars
<1> QED BY <1>1, <1>2, <1>3, <1>4, <1>5, <1>6, <1>7, <1>8, <1>9, <1>10, <1>11,
     <1>12, <1>13, <1>14, <1>15, <1>16, <1>17, <1>18 DEF Next, Uplink, Downlink

\* The end of the request.
LEMMA RequestStep == ASSUME IInv, [Next]_vars PROVE RequestInv'
<1> USE DEF IInv, TypeOK, StartInv, EofInv, TellInv, RequestInv, Orderly, Peers, env, Threads, Over
<1>a. Sound(rel) BY RelIsSound DEF IInv
<1>1. CASE Environment
  BY <1>1, <1>a DEF Sound, Environment, ClientSend, ClientClose, ClientReset,
       TargetSend, TargetClose, TargetReset, Aligned
<1>2. CASE Start
  <2> SUFFICES ASSUME Orderly', rel.packets = "none", rel.initial = "forward", "target" \notin closed
               PROVE  (~rel.holds => tGot' = Units(0, taken')) /\ told' = {} /\ up' = "run"
    BY <1>2 DEF Start
  <2>1. PICK b \in 0..sent, k \in 0..sent :
          /\ k <= b /\ taken' = b /\ (~rel.holds => k = b)
          /\ \/ /\ k = 0 \/ rel.initial = "drop"
                /\ at' = rel.first /\ UNCHANGED <<tGot, told, up, down>>
             \/ /\ TargetTakes /\ tGot' \in Passed(k)
                /\ at' = rel.first /\ UNCHANGED <<told, up, down>>
             \/ ~TargetTakes /\ Leave("error", "stopped") /\ UNCHANGED tGot
    <3>1. TypeOK OBVIOUS
    <3> HIDE DEF TypeOK
    <3> QED BY <1>2, <3>1, StartReads
  <2>2. TargetTakes /\ taken = 0 /\ tGot = <<>> /\ told = {} /\ up = "run" /\ ~torn
    BY <1>2 DEF Start, TargetTakes
  <2>3. CASE k = 0 /\ UNCHANGED <<tGot, told, up, down>> BY <2>1, <2>2, <2>3 DEF Units
  <2>4. CASE tGot' \in Passed(k) /\ UNCHANGED <<told, up>>
    <3>1. tGot' = <<>> \o Units(0, k) BY <2>2, <2>4 DEF Passed, PassedFrom
    <3> QED BY <2>1, <2>2, <2>4, <3>1 DEF Units
  <2> QED BY <2>1, <2>2, <2>3, <2>4
<1>3. CASE UpRead
  <2> SUFFICES ASSUME Orderly', rel.packets = "none", rel.initial = "forward", "target" \notin closed
               PROVE  (~rel.holds => tGot' = Units(0, taken')) /\ told' = told /\ up' = "run" /\ "target" \notin told
    BY <1>3 DEF UpRead
  <2>1. PICK b \in (taken + 1)..sent :
          /\ taken' = b
          /\ IF TargetTakes THEN tGot' \in Passed(b) ELSE UNCHANGED tGot
    BY <1>3 DEF UpRead
  <2>2. Orderly /\ ~torn /\ (~rel.holds => tGot = Units(0, taken)) BY <1>3 DEF UpRead, UpTurn
  <2>3. TargetTakes BY <2>1, <2>2, <1>3 DEF TargetTakes, UpRead, UpTurn
  <2>4. ~rel.holds => tGot' = Units(0, b)
    <3> SUFFICES ASSUME ~rel.holds PROVE tGot' = Units(0, b) OBVIOUS
    <3>1. b \in Nat /\ taken \in Nat /\ taken <= b BY <2>1, RelayAssumption
    <3>2. tGot' = tGot \o Units(taken, b) BY <2>1, <2>2, <2>3 DEF Passed, PassedFrom
    <3> QED BY <2>2, <3>1, <3>2, UnitsConcat
  <2>5. told' = told /\ up' = "run"
    BY <1>3, <1>a, <2>3 DEF Sound, UpRead, UpTurn, UpPolled, Leave
  <2> QED BY <2>1, <2>3, <2>4, <2>5 DEF TargetTakes
<1>4. CASE UpEof
  <2> SUFFICES ASSUME Orderly', rel.packets = "none", rel.initial = "forward", "target" \notin closed
               PROVE  /\ UNCHANGED <<tGot, taken, sent, closed, rel>>
                      /\ ~rel.holds => tGot = Units(0, taken)
                      /\ "client" \in closed /\ taken = sent /\ (up' \in {"held", "run"} \/ tGot = Units(0, taken))
                      /\ up' = "run" => told' = told
    BY <1>4 DEF UpEof, UpTurn
  <2>1. UNCHANGED <<tGot, taken, sent, closed, rel>> /\ "client" \in closed /\ taken = sent /\ up = "run" /\ ~torn
    BY <1>4 DEF UpEof, UpTurn
  <2>2. ~rel.holds => tGot = Units(0, taken) BY <1>4 DEF UpEof, UpTurn
  <2>3. up' \in {"eof", "held", "run"} /\ (up' = "run" => told' = told)
    BY <1>4, <1>a DEF Sound, UpEof, UpTurn, UpEnds, UpPolled, Leave, Cancels
  <2>4. up' = "eof" => ~(rel.holds /\ Len(tGot) < taken)
    BY <1>4, <1>a DEF Sound, UpEof, UpTurn, UpEnds, UpPolled, Leave, Cancels
  <2>5. tGot = Units(0, Len(tGot)) /\ Len(tGot) <= taken /\ Len(tGot) \in Nat /\ taken \in Nat
    BY <2>1, RelayAssumption DEF PrefixInv
  <2>6. up' = "eof" /\ rel.holds => Len(tGot) = taken BY <2>4, <2>5
  <2> QED BY <2>1, <2>2, <2>3, <2>5, <2>6
<1>5. CASE UpError
  BY <1>5, <1>a DEF Sound, UpError, UpTurn, UpEnds, Leave, Cancels, ErrorTells
<1>6. CASE UpNothing
  BY <1>6, <1>a DEF Sound, UpNothing, UpIdle, UpTurn, UpPolled, Leave
<1>7. CASE UpSkip
  BY <1>7, <1>a DEF Sound, UpSkip, UpPolled, Leave
<1>8. CASE UpCut
  BY <1>8, <1>a DEF Sound, UpCut, UpTurn, UpPolled, Leave
<1>9. CASE UpTimeout
  BY <1>9, <1>a DEF Sound, UpTimeout, UpIdle, UpTurn, UpEnds, Leave, Cancels
<1>10. CASE DownRead
  BY <1>10, <1>a DEF Sound, DownRead, DownTurn, ClientTakes, DownEnds, Leave,
       Cancels, ErrorTells
<1>11. CASE DownEof
  BY <1>11, <1>a DEF Sound, DownEof, DownTurn, DownEnds, Leave, Cancels
<1>12. CASE DownError
  BY <1>12, <1>a DEF Sound, DownError, DownTurn, DownEnds, Leave, Cancels,
       ErrorTells
<1>13. CASE DownNothing
  BY <1>13, <1>a DEF Sound, DownNothing, DownIdle, DownTurn, Leave
<1>14. CASE DownStop
  BY <1>14, <1>a DEF Sound, DownStop, DownIdle, DownTurn, DownEnds, Leave, Cancels
<1>15. CASE DownTimeout
  BY <1>15, <1>a DEF Sound, DownTimeout, DownIdle, DownTurn, DownEnds, Leave,
       Cancels
<1>16. CASE DownStalls
  BY <1>16, <1>a DEF Sound, DownStalls, DownTurn, DownEnds, Leave, Cancels,
       ErrorTells
<1>17. CASE Join
  BY <1>17, <1>a DEF Sound, Join, Leave
<1>18. CASE UNCHANGED vars BY <1>18 DEF vars
<1> QED BY <1>1, <1>2, <1>3, <1>4, <1>5, <1>6, <1>7, <1>8, <1>9, <1>10, <1>11,
     <1>12, <1>13, <1>14, <1>15, <1>16, <1>17, <1>18 DEF Next, Uplink, Downlink

\* The request so far.
LEMMA PrefixStep == ASSUME IInv, [Next]_vars PROVE PrefixInv'
<1> USE DEF IInv, TypeOK, StartInv, EofInv, PrefixInv, env, Threads, Over
<1>a. Sound(rel) BY RelIsSound DEF IInv
<1>1. CASE Environment
  BY <1>1, <1>a DEF Sound, Environment, ClientSend, ClientClose, ClientReset,
       TargetSend, TargetClose, TargetReset, Aligned
<1>2. CASE Start
  <2> SUFFICES ASSUME rel.packets # "perRead", rel.initial = "forward"
               PROVE  /\ tGot' = Units(0, Len(tGot')) /\ Len(tGot') <= taken'
                      /\ rel.packets = "none" /\ ~rel.holds /\ at' # "over" => Len(tGot') = taken'
    BY <1>2 DEF Start
  <2>1. PICK b \in 0..sent, k \in 0..sent :
          /\ k <= b /\ taken' = b /\ (~rel.holds => k = b)
          /\ \/ k = 0 /\ tGot' = tGot
             \/ tGot' \in Passed(k)
             \/ at' = "over" /\ tGot' = tGot
    <3>1. TypeOK OBVIOUS
    <3> HIDE DEF TypeOK
    <3> QED BY <1>2, <3>1, StartReads DEF Leave
  <2>2. b \in Nat /\ k \in Nat /\ taken = 0 /\ tGot = <<>> /\ ~torn BY <1>2, <2>1, RelayAssumption DEF Start
  <2>3. tGot = Units(0, 0) /\ Len(tGot) = 0 BY <2>2 DEF Units
  <2>4. CASE tGot' = tGot /\ (k = 0 \/ at' = "over") BY <2>1, <2>2, <2>3, <2>4
  <2>5. CASE tGot' \in Passed(k)
    <3>1. TypeOK /\ taken <= k /\ tGot = Units(0, Len(tGot)) /\ Len(tGot) <= taken /\ Len(tGot) = taken
      BY <2>2, <2>3
    <3> HIDE DEF TypeOK
    <3>2. tGot' = Units(0, Len(tGot')) /\ Len(tGot') <= k /\ (rel.packets = "none" => Len(tGot') = k)
      BY <2>2, <2>5, <3>1, PassedRun
    <3>3. Len(tGot') \in Nat BY <2>5, <3>1, <2>2, PassedType, RelayAssumption DEF TypeOK
    <3> QED BY <2>1, <2>2, <3>2, <3>3
  <2> QED BY <2>1, <2>4, <2>5
<1>3. CASE UpRead
  <2> SUFFICES ASSUME rel.packets # "perRead", rel.initial = "forward", ~(torn /\ rel.misreads)
               PROVE  /\ tGot' = Units(0, Len(tGot')) /\ Len(tGot') <= taken'
                      /\ rel.packets = "none" /\ ~rel.holds /\ up' = "run" /\ at' # "over" => Len(tGot') = taken'
    BY <1>3 DEF UpRead
  <2>1. PICK b \in (taken + 1)..sent :
          taken' = b /\ (tGot' \in Passed(b) \/ (tGot' = tGot /\ ~(up' = "run" /\ at' # "over")))
    BY <1>3 DEF UpRead, UpEnds, Leave
  <2>2. b \in Nat /\ taken \in Nat /\ taken <= b /\ ~torn BY <1>3, <2>1, RelayAssumption DEF UpRead
  <2>3. /\ tGot = Units(0, Len(tGot)) /\ Len(tGot) <= taken /\ Len(tGot) \in Nat
        /\ rel.packets = "none" /\ ~rel.holds => Len(tGot) = taken
    BY <1>3, <2>2 DEF UpRead, UpTurn
  <2>4. CASE tGot' \in Passed(b)
    <3>1. TypeOK OBVIOUS
    <3> HIDE DEF TypeOK
    <3> QED BY <2>1, <2>2, <2>3, <2>4, <3>1, PassedRun
  <2>5. CASE tGot' = tGot /\ ~(up' = "run" /\ at' # "over") BY <2>1, <2>2, <2>3, <2>5
  <2> QED BY <2>1, <2>4, <2>5
<1>4. CASE UpEof
  BY <1>4, <1>a DEF Sound, UpEof, UpTurn, UpEnds, UpPolled, Leave, Cancels
<1>5. CASE UpError
  BY <1>5, <1>a DEF Sound, UpError, UpTurn, UpEnds, Leave, Cancels, ErrorTells
<1>6. CASE UpNothing
  BY <1>6, <1>a DEF Sound, UpNothing, UpIdle, UpTurn, UpPolled, Leave
<1>7. CASE UpSkip
  BY <1>7, <1>a DEF Sound, UpSkip, UpPolled, Leave
<1>8. CASE UpCut
  BY <1>8, <1>a DEF Sound, UpCut, UpTurn, UpPolled, Leave
<1>9. CASE UpTimeout
  BY <1>9, <1>a DEF Sound, UpTimeout, UpIdle, UpTurn, UpEnds, Leave, Cancels
<1>10. CASE DownRead
  BY <1>10, <1>a DEF Sound, DownRead, DownTurn, ClientTakes, DownEnds, Leave,
       Cancels, ErrorTells
<1>11. CASE DownEof
  BY <1>11, <1>a DEF Sound, DownEof, DownTurn, DownEnds, Leave, Cancels
<1>12. CASE DownError
  BY <1>12, <1>a DEF Sound, DownError, DownTurn, DownEnds, Leave, Cancels,
       ErrorTells
<1>13. CASE DownNothing
  BY <1>13, <1>a DEF Sound, DownNothing, DownIdle, DownTurn, Leave
<1>14. CASE DownStop
  BY <1>14, <1>a DEF Sound, DownStop, DownIdle, DownTurn, DownEnds, Leave, Cancels
<1>15. CASE DownTimeout
  BY <1>15, <1>a DEF Sound, DownTimeout, DownIdle, DownTurn, DownEnds, Leave,
       Cancels
<1>16. CASE DownStalls
  BY <1>16, <1>a DEF Sound, DownStalls, DownTurn, DownEnds, Leave, Cancels,
       ErrorTells
<1>17. CASE Join
  BY <1>17, <1>a DEF Sound, Join, Leave
<1>18. CASE UNCHANGED vars BY <1>18 DEF vars
<1> QED BY <1>1, <1>2, <1>3, <1>4, <1>5, <1>6, <1>7, <1>8, <1>9, <1>10, <1>11,
     <1>12, <1>13, <1>14, <1>15, <1>16, <1>17, <1>18 DEF Next, Uplink, Downlink

\* Nothing returns to the start.
LEMMA StartStep == ASSUME IInv, [Next]_vars PROVE StartInv'
<1> USE DEF IInv, TypeOK, StartInv, env, Threads, Over
<1>a. Sound(rel) BY RelIsSound DEF IInv
<1>1. CASE Environment
  BY <1>1, <1>a DEF Sound, Environment, ClientSend, ClientClose, ClientReset,
       TargetSend, TargetClose, TargetReset, Aligned
<1>2. CASE Start
  BY <1>2, <1>a DEF Sound, Start, Leave, TargetTakes, Passed
<1>3. CASE UpRead
  BY <1>3, <1>a DEF Sound, UpRead, UpTurn, TargetTakes, Passed, UpEnds, UpPolled,
       Leave, Cancels, ErrorTells
<1>4. CASE UpEof
  BY <1>4, <1>a DEF Sound, UpEof, UpTurn, UpEnds, UpPolled, Leave, Cancels
<1>5. CASE UpError
  BY <1>5, <1>a DEF Sound, UpError, UpTurn, UpEnds, Leave, Cancels, ErrorTells
<1>6. CASE UpNothing
  BY <1>6, <1>a DEF Sound, UpNothing, UpIdle, UpTurn, UpPolled, Leave
<1>7. CASE UpSkip
  BY <1>7, <1>a DEF Sound, UpSkip, UpPolled, Leave
<1>8. CASE UpCut
  BY <1>8, <1>a DEF Sound, UpCut, UpTurn, UpPolled, Leave
<1>9. CASE UpTimeout
  BY <1>9, <1>a DEF Sound, UpTimeout, UpIdle, UpTurn, UpEnds, Leave, Cancels
<1>10. CASE DownRead
  BY <1>10, <1>a DEF Sound, DownRead, DownTurn, ClientTakes, DownEnds, Leave,
       Cancels, ErrorTells
<1>11. CASE DownEof
  BY <1>11, <1>a DEF Sound, DownEof, DownTurn, DownEnds, Leave, Cancels
<1>12. CASE DownError
  BY <1>12, <1>a DEF Sound, DownError, DownTurn, DownEnds, Leave, Cancels,
       ErrorTells
<1>13. CASE DownNothing
  BY <1>13, <1>a DEF Sound, DownNothing, DownIdle, DownTurn, Leave
<1>14. CASE DownStop
  BY <1>14, <1>a DEF Sound, DownStop, DownIdle, DownTurn, DownEnds, Leave, Cancels
<1>15. CASE DownTimeout
  BY <1>15, <1>a DEF Sound, DownTimeout, DownIdle, DownTurn, DownEnds, Leave,
       Cancels
<1>16. CASE DownStalls
  BY <1>16, <1>a DEF Sound, DownStalls, DownTurn, DownEnds, Leave, Cancels,
       ErrorTells
<1>17. CASE Join
  BY <1>17, <1>a DEF Sound, Join, Leave
<1>18. CASE UNCHANGED vars BY <1>18 DEF vars
<1> QED BY <1>1, <1>2, <1>3, <1>4, <1>5, <1>6, <1>7, <1>8, <1>9, <1>10, <1>11,
     <1>12, <1>13, <1>14, <1>15, <1>16, <1>17, <1>18 DEF Next, Uplink, Downlink

\* What ends a stream stays its end.
LEMMA EofStep == ASSUME IInv, [Next]_vars PROVE EofInv'
<1> USE DEF IInv, TypeOK, StartInv, EofInv, env, Threads, Over
<1>1. CASE Environment
  BY <1>1 DEF Environment, ClientSend, ClientClose, ClientReset, TargetSend,
       TargetClose, TargetReset, Aligned
<1>2. CASE Start
  BY <1>2 DEF Start, Leave, TargetTakes, Passed
<1>3. CASE UpRead
  BY <1>3 DEF UpRead, UpTurn, TargetTakes, Passed, UpEnds, UpPolled, Leave,
       Cancels, ErrorTells
<1>4. CASE UpEof
  BY <1>4 DEF UpEof, UpTurn, UpEnds, UpPolled, Leave, Cancels
<1>5. CASE UpError
  BY <1>5 DEF UpError, UpTurn, UpEnds, Leave, Cancels, ErrorTells
<1>6. CASE UpNothing
  BY <1>6 DEF UpNothing, UpIdle, UpTurn, UpPolled, Leave
<1>7. CASE UpSkip
  BY <1>7 DEF UpSkip, UpPolled, Leave
<1>8. CASE UpCut
  BY <1>8 DEF UpCut, UpTurn, UpPolled, Leave
<1>9. CASE UpTimeout
  BY <1>9 DEF UpTimeout, UpIdle, UpTurn, UpEnds, Leave, Cancels
<1>10. CASE DownRead
  BY <1>10 DEF DownRead, DownTurn, ClientTakes, DownEnds, Leave, Cancels,
       ErrorTells
<1>11. CASE DownEof
  BY <1>11 DEF DownEof, DownTurn, DownEnds, Leave, Cancels
<1>12. CASE DownError
  BY <1>12 DEF DownError, DownTurn, DownEnds, Leave, Cancels, ErrorTells
<1>13. CASE DownNothing
  BY <1>13 DEF DownNothing, DownIdle, DownTurn, Leave
<1>14. CASE DownStop
  BY <1>14 DEF DownStop, DownIdle, DownTurn, DownEnds, Leave, Cancels
<1>15. CASE DownTimeout
  BY <1>15 DEF DownTimeout, DownIdle, DownTurn, DownEnds, Leave, Cancels
<1>16. CASE DownStalls
  BY <1>16 DEF DownStalls, DownTurn, DownEnds, Leave, Cancels, ErrorTells
<1>17. CASE Join
  BY <1>17 DEF Join, Leave
<1>18. CASE UNCHANGED vars BY <1>18 DEF vars
<1> QED BY <1>1, <1>2, <1>3, <1>4, <1>5, <1>6, <1>7, <1>8, <1>9, <1>10, <1>11,
     <1>12, <1>13, <1>14, <1>15, <1>16, <1>17, <1>18 DEF Next, Uplink, Downlink

\* Who is told of what.
LEMMA TellStep == ASSUME IInv, [Next]_vars PROVE TellInv'
<1> USE DEF IInv, TypeOK, StartInv, EofInv, TellInv, Peers, env, Threads, Over
<1>a. Sound(rel) BY RelIsSound DEF IInv
<1>1. CASE Environment
  BY <1>1, <1>a DEF Sound, Environment, ClientSend, ClientClose, ClientReset,
       TargetSend, TargetClose, TargetReset, Aligned
<1>2. CASE Start
  BY <1>2, <1>a DEF Sound, Start, Leave, TargetTakes, Passed
<1>3. CASE UpRead
  BY <1>3, <1>a DEF Sound, UpRead, UpTurn, TargetTakes, Passed, UpEnds, UpPolled,
       Leave, Cancels, ErrorTells
<1>4. CASE UpEof
  BY <1>4, <1>a DEF Sound, UpEof, UpTurn, UpEnds, UpPolled, Leave, Cancels
<1>5. CASE UpError
  BY <1>5, <1>a DEF Sound, UpError, UpTurn, UpEnds, Leave, Cancels, ErrorTells
<1>6. CASE UpNothing
  BY <1>6, <1>a DEF Sound, UpNothing, UpIdle, UpTurn, UpPolled, Leave
<1>7. CASE UpSkip
  BY <1>7, <1>a DEF Sound, UpSkip, UpPolled, Leave
<1>8. CASE UpCut
  BY <1>8, <1>a DEF Sound, UpCut, UpTurn, UpPolled, Leave
<1>9. CASE UpTimeout
  BY <1>9, <1>a DEF Sound, UpTimeout, UpIdle, UpTurn, UpEnds, Leave, Cancels
<1>10. CASE DownRead
  BY <1>10, <1>a DEF Sound, DownRead, DownTurn, ClientTakes, DownEnds, Leave,
       Cancels, ErrorTells
<1>11. CASE DownEof
  BY <1>11, <1>a DEF Sound, DownEof, DownTurn, DownEnds, Leave, Cancels
<1>12. CASE DownError
  BY <1>12, <1>a DEF Sound, DownError, DownTurn, DownEnds, Leave, Cancels,
       ErrorTells
<1>13. CASE DownNothing
  BY <1>13, <1>a DEF Sound, DownNothing, DownIdle, DownTurn, Leave
<1>14. CASE DownStop
  BY <1>14, <1>a DEF Sound, DownStop, DownIdle, DownTurn, DownEnds, Leave, Cancels
<1>15. CASE DownTimeout
  BY <1>15, <1>a DEF Sound, DownTimeout, DownIdle, DownTurn, DownEnds, Leave,
       Cancels
<1>16. CASE DownStalls
  BY <1>16, <1>a DEF Sound, DownStalls, DownTurn, DownEnds, Leave, Cancels,
       ErrorTells
<1>17. CASE Join
  BY <1>17, <1>a DEF Sound, Join, Leave
<1>18. CASE UNCHANGED vars BY <1>18 DEF vars
<1> QED BY <1>1, <1>2, <1>3, <1>4, <1>5, <1>6, <1>7, <1>8, <1>9, <1>10, <1>11,
     <1>12, <1>13, <1>14, <1>15, <1>16, <1>17, <1>18 DEF Next, Uplink, Downlink

\* The end of the answer.
LEMMA AnswerStep == ASSUME IInv, [Next]_vars PROVE AnswerInv'
<1> USE DEF IInv, TypeOK, StartInv, EofInv, TellInv, AnswerInv, HalfCloses, Orderly, Peers, env, Threads, Over
<1>a. Sound(rel) BY RelIsSound DEF IInv
<1>1. CASE Environment
  BY <1>1, <1>a DEF Sound, Environment, ClientSend, ClientClose, ClientReset,
       TargetSend, TargetClose, TargetReset, Aligned
<1>2. CASE Start
  BY <1>2, <1>a DEF Sound, Start, Leave, TargetTakes, Passed
<1>3. CASE UpRead
  BY <1>3, <1>a DEF Sound, UpRead, UpTurn, TargetTakes, Passed, UpEnds, UpPolled,
       Leave, Cancels, ErrorTells
<1>4. CASE UpEof
  BY <1>4, <1>a DEF Sound, UpEof, UpTurn, UpEnds, UpPolled, Leave, Cancels
<1>5. CASE UpError
  BY <1>5, <1>a DEF Sound, UpError, UpTurn, UpEnds, Leave, Cancels, ErrorTells
<1>6. CASE UpNothing
  BY <1>6, <1>a DEF Sound, UpNothing, UpIdle, UpTurn, UpPolled, Leave
<1>7. CASE UpSkip
  BY <1>7, <1>a DEF Sound, UpSkip, UpPolled, Leave
<1>8. CASE UpCut
  BY <1>8, <1>a DEF Sound, UpCut, UpTurn, UpPolled, Leave
<1>9. CASE UpTimeout
  BY <1>9, <1>a DEF Sound, UpTimeout, UpIdle, UpTurn, UpEnds, Leave, Cancels
<1>10. CASE DownRead
  BY <1>10, <1>a DEF Sound, DownRead, DownTurn, ClientTakes, DownEnds, Leave,
       Cancels, ErrorTells
<1>11. CASE DownEof
  BY <1>11, <1>a DEF Sound, DownEof, DownTurn, DownEnds, Leave, Cancels
<1>12. CASE DownError
  BY <1>12, <1>a DEF Sound, DownError, DownTurn, DownEnds, Leave, Cancels,
       ErrorTells
<1>13. CASE DownNothing
  BY <1>13, <1>a DEF Sound, DownNothing, DownIdle, DownTurn, Leave
<1>14. CASE DownStop
  BY <1>14, <1>a DEF Sound, DownStop, DownIdle, DownTurn, DownEnds, Leave, Cancels
<1>15. CASE DownTimeout
  BY <1>15, <1>a DEF Sound, DownTimeout, DownIdle, DownTurn, DownEnds, Leave,
       Cancels
<1>16. CASE DownStalls
  BY <1>16, <1>a DEF Sound, DownStalls, DownTurn, DownEnds, Leave, Cancels,
       ErrorTells
<1>17. CASE Join
  BY <1>17, <1>a DEF Sound, Join, Leave
<1>18. CASE UNCHANGED vars BY <1>18 DEF vars
<1> QED BY <1>1, <1>2, <1>3, <1>4, <1>5, <1>6, <1>7, <1>8, <1>9, <1>10, <1>11,
     <1>12, <1>13, <1>14, <1>15, <1>16, <1>17, <1>18 DEF Next, Uplink, Downlink

-----------------------------------------------------------------------------
(* The theorems *)

LEMMA InvInit == Init => IInv
<1> SUFFICES ASSUME Init PROVE IInv OBVIOUS
<1>1. TypeOK
  <2>1. <<>> \in Seq(0..MaxUp) OBVIOUS
  <2>2. 0 \in 0..MaxUp /\ 0 \in 0..MaxDown /\ 0 \in 0..0 BY RelayAssumption
  <2> QED BY <2>1, <2>2 DEF Init, TypeOK, Peers, Ends
<1>2. StartInv /\ EofInv BY DEF Init, StartInv, EofInv
<1>3. TellInv /\ AnswerInv BY DEF Init, TellInv, AnswerInv
<1>4. RequestInv /\ PrefixInv BY DEF Init, RequestInv, PrefixInv, Units
<1> QED BY <1>1, <1>2, <1>3, <1>4 DEF IInv

\* IInv is inductive and holds in every reachable state.
THEOREM Invariance == Spec => []IInv
<1>1. IInv /\ [Next]_vars => IInv'
  BY TypeStep, StartStep, EofStep, TellStep, AnswerStep, RequestStep, PrefixStep DEF IInv
<1> QED BY InvInit, <1>1, PTL DEF Spec

\* Type correctness, for every relay function.
THEOREM TypeCorrect == Spec => []TypeOK
<1>1. IInv => TypeOK BY DEF IInv
<1> QED BY Invariance, <1>1, PTL

\* A relay whose downlink may outlive its uplink shows the client the end of the
\* answer only when the target has ended it and all of it has been delivered.
THEOREM AnswersAreWhole == Spec => []AnswerIsWhole
<1>1. IInv => AnswerIsWhole BY DEF IInv, AnswerInv, AnswerIsWhole
<1> QED BY Invariance, <1>1, PTL

\* No relay that passes the body on makes a request look complete when it is not,
\* unless a TLS connection still holds its body when the client ends it, and what
\* the target has is at any time a prefix of what the client sent, unless a frame
\* reader has lost its place.
THEOREM RequestsArrive == Spec => []RequestArrives
<1>1. IInv => RequestIsWhole BY DEF IInv, RequestInv, RequestIsWhole
<1>2. IInv => UplinkIsPrefix
  <2> SUFFICES ASSUME IInv, rel.packets # "perRead", rel.initial = "forward", ~(torn /\ rel.misreads)
               PROVE  IsPrefix(tGot, Units(0, sent))
    BY DEF UplinkIsPrefix
  <2>1. tGot = Units(0, Len(tGot)) /\ Len(tGot) <= taken BY DEF IInv, PrefixInv
  <2>2. Len(tGot) \in Nat /\ sent \in Nat /\ taken <= sent /\ taken \in Nat
    BY RelayAssumption DEF IInv, TypeOK
  <2> QED BY <2>1, <2>2, UnitsPrefix
<1>3. IInv => RequestArrives BY <1>1, <1>2 DEF RequestArrives
<1> QED BY Invariance, <1>3, PTL

=============================================================================
