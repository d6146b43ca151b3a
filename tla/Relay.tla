-------------------------------- MODULE Relay --------------------------------
(***************************************************************************)
(* One proxied connection: a client, a target, and the relay function that *)
(* carries bytes between them, chosen from RelayKinds.  Two threads or one *)
(* polling loop; what each does at a chunk, a read timeout, an end of      *)
(* stream or an error is the relay's record.                               *)
(*                                                                         *)
(* The client's stream is the units 1, 2, ...: half a packet where the     *)
(* relay carries UDP, half a frame where a timeout can cut one, a run of   *)
(* bytes otherwise.  A read takes any non-empty run of what has arrived.   *)
(* Responses only need counting.  Closing a socket both ways at the end of *)
(* the relay function tells both peers.                                    *)
(***************************************************************************)
EXTENDS RelayKinds, Naturals, Sequences, SequencesExt

CONSTANTS
  Relays,    \* the relay functions an instance looks at
  MaxUp,     \* units the client sends
  MaxDown    \* units the target sends

ASSUME RelayAssumption == Relays \subseteq RelayFunctions /\ MaxUp \in Nat /\ MaxDown \in Nat

VARIABLES
  rel,       \* the relay function serving this connection
  sent,      \* units the client has sent
  taken,     \* units the relay has read from the client
  tGot,      \* units the target has received, in order
  dSent,     \* units the target has sent
  cGot,      \* units of them the client has received
  closed,    \* peers that have ended their sending side
  gone,      \* peers that have reset the connection
  told,      \* peers that have been shown an end of stream
  at,        \* the step of the relay: "start", then the side a loop polls
  up, down,  \* each direction: "run", or why it ended
  torn       \* a timeout has lost the first half of a frame

env  == <<sent, dSent, closed, gone>>
vars == <<rel, sent, taken, tGot, dSent, cGot, closed, gone, told, at, up, down, torn>>

Peers == {"client", "target"}
Ends  == {"run", "eof", "held", "idle", "stalled", "error", "stopped"}

Threads == rel.engine = "threads"
Over == at = "over"

Init ==
  /\ rel \in Relays
  /\ sent = 0 /\ taken = 0 /\ tGot = <<>>
  /\ dSent = 0 /\ cGot = 0
  /\ closed = {} /\ gone = {} /\ told = {}
  /\ at = "start" /\ up = "run" /\ down = "run"
  /\ torn = FALSE

(* ------------------------------- the peers ------------------------------ *)
\* A client of a packet or a framed stream ends it between two packets.
Aligned == (rel.packets = "none" /\ ~rel.cuts) \/ sent % 2 = 0

ClientSend ==
  /\ "client" \notin closed \cup gone /\ sent < MaxUp
  /\ sent' = sent + 1
  /\ UNCHANGED <<dSent, closed, gone>>

ClientClose ==
  /\ "client" \notin closed \cup gone /\ Aligned
  /\ closed' = closed \cup {"client"}
  /\ UNCHANGED <<sent, dSent, gone>>

ClientReset ==
  /\ "client" \notin gone
  /\ gone' = gone \cup {"client"}
  /\ UNCHANGED <<sent, dSent, closed>>

TargetSend ==
  /\ "target" \notin closed \cup gone /\ dSent < MaxDown
  /\ dSent' = dSent + 1
  /\ UNCHANGED <<sent, closed, gone>>

\* A UDP target has no end of stream.
TargetClose ==
  /\ "target" \notin closed \cup gone /\ rel.packets = "none"
  /\ closed' = closed \cup {"target"}
  /\ UNCHANGED <<sent, dSent, gone>>

TargetReset ==
  /\ "target" \notin gone /\ rel.packets = "none"
  /\ gone' = gone \cup {"target"}
  /\ UNCHANGED <<sent, dSent, closed>>

Environment ==
  /\ ~Over
  /\ \/ ClientSend \/ ClientClose \/ ClientReset
     \/ TargetSend \/ TargetClose \/ TargetReset
  /\ UNCHANGED <<rel, taken, tGot, cGot, told, at, up, down, torn>>

(* ------------------------------ the uplink ------------------------------ *)
Units(a, b) == [i \in 1..(b - a) |-> a + i]

\* What the TLS connection holds is passed on first.
PassedFrom == IF rel.holds THEN Len(tGot) ELSE taken

\* What the target may have once the units up to b are read in one chunk.  A
\* packet relay that looks for packets in each read on its own loses the packet
\* a read ends in, and takes the rest of it for the head of a new one; so does a
\* frame reader that has lost its place.
Passed(b) ==
  CASE torn -> {tGot, Append(tGot, 0)}
    [] ~torn /\ rel.packets = "none"  -> {tGot \o Units(PassedFrom, b)}
    [] ~torn /\ rel.packets = "whole" -> {tGot \o Units(Len(tGot), 2 * (b \div 2))}
    [] ~torn /\ rel.packets = "perRead" ->
         IF taken % 2 = 0 THEN {tGot \o Units(taken, taken + 2 * ((b - taken) \div 2))}
                          ELSE {tGot, Append(tGot, 0)}

\* The relay function returns: its sockets and streams are dropped.
Leave(u, d) ==
  /\ at' = "over" /\ told' = Peers
  /\ up' = u /\ down' = d

\* A direction ends for reason why and tells who: its thread stops, and with it
\* the other one or the loop where the function says so.
Cancels(why) == rel.ends = "any" \/ (rel.ends = "error" /\ why = "error")

UpEnds(why, who) ==
  IF Threads /\ ~Cancels(why)
  THEN up' = why /\ told' = told \cup who /\ UNCHANGED <<at, down>>
  ELSE Leave(why, IF down = "run" THEN "stopped" ELSE down)

DownEnds(why, who) ==
  IF Threads /\ ~Cancels(why)
  THEN down' = why /\ told' = told \cup who /\ UNCHANGED <<at, up>>
  ELSE Leave(IF up = "run" THEN "stopped" ELSE up, why)

ErrorTells(dir, who) == IF dir \in rel.errFin THEN who ELSE {}

TargetTakes == "target" \notin gone \cup told

\* Mutant: the bytes that came with the header are not passed on.
Start_Drops ==
  /\ at = "start"
  /\ \E b \in 0..sent : (rel.cuts => b % 2 = 0) /\ taken' = b
  /\ at' = rel.first
  /\ UNCHANGED <<rel, env, tGot, cGot, told, up, down, torn>>

\* The bytes read along with the request header: the relay's first chunk.  Of
\* the b units that have left the socket the handler has read k.
Start ==
  /\ at = "start"
  /\ \E b \in 0..sent : \E k \in (IF rel.holds THEN 0..b ELSE {b}) :
       /\ rel.cuts => b % 2 = 0
       /\ taken' = b
       /\ CASE k = 0 \/ rel.initial = "drop" -> at' = rel.first /\ UNCHANGED <<tGot, told, up, down>>
            [] OTHER -> IF TargetTakes
                        THEN tGot' \in Passed(k) /\ at' = rel.first /\ UNCHANGED <<told, up, down>>
                        ELSE Leave("error", "stopped") /\ UNCHANGED tGot
  /\ UNCHANGED <<rel, env, cGot, torn>>

UpTurn == at \in {"up", "down"} /\ up = "run" /\ (Threads \/ at = "up")

\* The loop has polled the client: on to the target, or out of the loop.
UpPolled(u, who) ==
  IF down # "run" THEN Leave(u, down)
  ELSE at' = "down" /\ up' = u /\ told' = told \cup who /\ UNCHANGED down

UpRead ==
  /\ UpTurn /\ "client" \notin gone /\ (torn => rel.misreads)
  /\ \E b \in (taken + 1)..sent :
       /\ rel.cuts /\ ~torn => b = taken + 2
       /\ taken' = b
       /\ IF TargetTakes
          THEN /\ tGot' \in Passed(b)
               /\ IF Threads /\ rel.shared /\ down # "run" THEN UpEnds("stopped", {})
                  ELSE IF Threads \/ rel.upDrain THEN UNCHANGED <<at, up, down, told>>
                  ELSE UpPolled("run", {})
          ELSE UpEnds("error", ErrorTells("up", rel.upFin)) /\ UNCHANGED tGot
  /\ UNCHANGED <<rel, env, cGot, torn>>

\* The client's end of stream, everything before it read.  What the TLS connection
\* holds at that time is not passed on any more.
UpEof ==
  /\ UpTurn /\ "client" \in closed \ gone /\ taken = sent /\ (torn => rel.upEof = "ignore")
  /\ LET why == IF rel.holds /\ Len(tGot) < taken THEN "held" ELSE "eof"
     IN  IF Threads THEN UpEnds(why, rel.upFin)
         ELSE CASE rel.upEof = "stop" -> Leave(why, "stopped")
                [] rel.upEof = "ignore" -> UpPolled("run", {})
                [] rel.upEof = "either" -> Leave(why, "stopped") \/ UpPolled(why, rel.upFin)
                [] OTHER -> UpPolled(why, rel.upFin)
  /\ UNCHANGED <<rel, env, taken, tGot, cGot, torn>>

\* A reset, or whatever follows the place a frame was lost at.
UpError ==
  /\ UpTurn
  /\ \/ "client" \in gone
     \/ torn /\ (taken < sent \/ ("client" \in closed /\ rel.upEof # "ignore"))
  /\ UpEnds("error", ErrorTells("up", rel.upFin))
  /\ UNCHANGED <<rel, env, taken, tGot, cGot, torn>>

UpIdle == UpTurn /\ taken = sent /\ "client" \notin closed \cup gone

\* Mutant: a poll that finds nothing tries the client again.
UpNothing_Stays ==
  /\ UpIdle /\ ~Threads /\ ~rel.blocks
  /\ UNCHANGED vars

\* A poll that finds nothing.
UpNothing ==
  /\ UpIdle /\ ~Threads /\ ~rel.blocks
  /\ UpPolled("run", {})
  /\ UNCHANGED <<rel, env, taken, tGot, cGot, torn>>

\* Past the client's end every poll returns at once with nothing.
UpSkip ==
  /\ ~Threads /\ at = "up" /\ up \in {"eof", "held"}
  /\ UpPolled(up, {})
  /\ UNCHANGED <<rel, env, taken, tGot, cGot, torn>>

UpTimeout ==
  /\ UpIdle /\ rel.upIdle = "end"
  /\ UpEnds("idle", rel.upFin)
  /\ UNCHANGED <<rel, env, taken, tGot, cGot, torn>>

\* The timeout strikes, or the record ends, after half a frame: the bytes read so
\* far are dropped.
UpCut ==
  /\ UpTurn /\ rel.cuts /\ ~torn /\ sent = taken + 1 /\ "client" \notin gone
  /\ torn' = TRUE /\ taken' = sent
  /\ IF Threads THEN UNCHANGED <<at, up, down, told>> ELSE UpPolled("run", {})
  /\ UNCHANGED <<rel, env, tGot, cGot>>

(* ----------------------------- the downlink ----------------------------- *)
DownTurn == at \in {"up", "down"} /\ down = "run" /\ (Threads \/ at = "down")

\* After the echo of a Close frame the frames are still written.
ClientTakes ==
  /\ "client" \notin gone /\ ~(rel.eofBreaks /\ up = "eof")
  /\ "client" \in told => rel.upEof = "either" /\ up = "eof"

DownRead ==
  /\ DownTurn /\ "target" \notin gone
  /\ \E n \in (cGot + 1)..dSent :
       IF ClientTakes
       THEN /\ cGot' = n
            /\ at' = IF Threads \/ rel.downDrain THEN at ELSE "up"
            /\ UNCHANGED <<up, down, told>>
       ELSE DownEnds("error", ErrorTells("down", rel.downFin)) /\ UNCHANGED cGot
  /\ UNCHANGED <<rel, env, taken, tGot, torn>>

DownEof ==
  /\ DownTurn /\ "target" \in closed \ gone /\ cGot = dSent
  /\ IF Threads \/ rel.downEnd = "now" THEN DownEnds("eof", rel.downFin)
     ELSE at' = "up" /\ down' = "eof" /\ UNCHANGED <<up, told>>
  /\ UNCHANGED <<rel, env, taken, tGot, cGot, torn>>

DownError ==
  /\ DownTurn /\ "target" \in gone
  /\ DownEnds("error", ErrorTells("down", rel.downFin))
  /\ UNCHANGED <<rel, env, taken, tGot, cGot, torn>>

\* A write to a client that has stopped reading is given up.
DownStalls ==
  /\ DownTurn /\ rel.stalls /\ cGot < dSent /\ "client" \notin gone
  /\ DownEnds("stalled", ErrorTells("down", rel.downFin))
  /\ UNCHANGED <<rel, env, taken, tGot, cGot, torn>>

DownIdle == DownTurn /\ cGot = dSent /\ "target" \notin closed \cup gone

\* A poll that finds nothing; past the client's end a lingering loop leaves.
DownNothing ==
  /\ DownIdle /\ ~Threads
  /\ IF rel.upEof = "linger" /\ up = "eof" THEN Leave(up, "stopped")
     ELSE at' = "up" /\ UNCHANGED <<up, down, told>>
  /\ UNCHANGED <<rel, env, taken, tGot, cGot, torn>>

DownTimeout ==
  /\ DownIdle /\ Threads /\ rel.downIdle = "end"
  /\ DownEnds("idle", rel.downFin)
  /\ UNCHANGED <<rel, env, taken, tGot, cGot, torn>>

\* Mutant: the done flag is looked at only when a packet arrives.
DownStop_Never == FALSE /\ UNCHANGED vars

\* A read timeout of the target lets the thread see that the other is done.
DownStop ==
  /\ DownIdle /\ Threads /\ rel.shared /\ up # "run"
  /\ DownEnds("stopped", {})
  /\ UNCHANGED <<rel, env, taken, tGot, cGot, torn>>

\* Both threads have ended and are joined.
Join ==
  /\ Threads /\ ~Over /\ up # "run" /\ down # "run"
  /\ Leave(up, down)
  /\ UNCHANGED <<rel, env, taken, tGot, cGot, torn>>

Uplink   == UpEof \/ UpError \/ UpNothing \/ UpSkip \/ UpCut
Downlink == DownEof \/ DownError \/ DownNothing \/ DownStop

Next ==
  \/ Environment
  \/ Start
  \/ UpRead \/ Uplink \/ UpTimeout
  \/ DownRead \/ Downlink \/ DownTimeout \/ DownStalls
  \/ Join

Spec == Init /\ [][Next]_vars

\* Each thread, or the loop, takes its steps when it can: the scheduler runs it
\* and its reads return, if only because of their short timeouts.  No idle timeout
\* has to be waited for, and the peers owe nothing: a chunk that was read is also
\* written, and no socket of a target has a write timeout.
FairSpec ==
  /\ Spec
  /\ WF_vars(Start) /\ WF_vars(Uplink) /\ WF_vars(Downlink) /\ WF_vars(Join)

\* The peer takes what is written to it: the premise of whatever a relay owes.
TargetReads == WF_vars(UpRead)
ClientReads == WF_vars(DownRead)

-----------------------------------------------------------------------------
TypeOK ==
  /\ rel \in Relays
  /\ sent \in 0..MaxUp /\ taken \in 0..sent /\ tGot \in Seq(0..MaxUp)
  /\ dSent \in 0..MaxDown /\ cGot \in 0..dSent
  /\ closed \subseteq Peers /\ gone \subseteq Peers /\ told \subseteq Peers
  /\ at \in {"start", "up", "down", "over"}
  /\ up \in Ends /\ down \in Ends /\ torn \in BOOLEAN

\* Nothing but ends of stream has happened: no reset, no timeout that ends a
\* direction, no frame lost to one, no client that has stopped reading.
Orderly == gone = {} /\ ~torn /\ {up, down} \cap {"idle", "stalled"} = {}

\* Relays whose downlink goes on after the client's end of stream.
HalfCloses == \/ Threads /\ rel.ends # "any"
              \/ ~Threads /\ rel.upEof = "half" /\ ~rel.eofBreaks

\* A client may end its request and wait for the answer: such a relay shows it
\* the end of the answer only once the target has ended it and all of it has
\* been delivered.
AnswerIsWhole ==
  HalfCloses /\ Orderly /\ rel.packets = "none" /\ "client" \in told =>
    "target" \in closed /\ cGot = dSent

\* The target is shown an end of stream only after every unit of the client's
\* stream, and its end, or once the target has itself ended: no relay that
\* passes the request's body on makes a request look complete when it is not.  The
\* exception is a request whose body the TLS connection holds when the client ends
\* it: relay_reality, relay_anytls_raw and relay_anytls_vision read the socket
\* first, meet its end and never pass the body on.
RequestIsWhole ==
  /\ Orderly /\ up # "held" /\ rel.packets = "none" /\ rel.initial = "forward"
  /\ "target" \in told /\ "target" \notin closed
  => "client" \in closed /\ tGot = Units(0, sent)

\* Whatever happens, what a target receives is a prefix of what the client sent:
\* nothing is skipped, repeated or reordered.  UDP relays that look for packets
\* in each read on its own, relay_vision, which drops the body that came with the
\* header, and the frame readers of VMess and of WebSocket over TLS, once they
\* have lost their place in a frame, do not give this.
UplinkIsPrefix ==
  /\ rel.packets # "perRead" /\ rel.initial = "forward" /\ ~(torn /\ rel.misreads)
  => IsPrefix(tGot, Units(0, sent))

\* The uplink neither changes a request nor cuts it short.
RequestArrives == RequestIsWhole /\ UplinkIsPrefix

\* The relay can look at the target whatever the client does.
Polls == Threads \/ ~rel.blocks

\* What the target sends reaches the client, or the downlink ends: a silent
\* client does not hold back its own answer.
AnswerArrives ==
  \A n \in 1..MaxDown :
    (Polls /\ dSent >= n) ~> (cGot >= n \/ down # "run" \/ Over)

\* The end of the target's stream reaches the client without its doing anything:
\* a client that reads on to the end of the answer is not left waiting.
EndArrives ==
  (Polls /\ (Threads => "client" \in rel.downFin) /\ "target" \in closed)
    ~> ("client" \in told \/ gone # {} \/ down = "stalled")

\* The downlink is live: neither an answer nor its end waits for the client to send,
\* as long as the client reads.  In a loop the target has to read as well: a write
\* to one that does not keeps the loop from the downlink.
DownlinkArrives ==
  ClientReads /\ ([]Threads \/ TargetReads) => AnswerArrives /\ EndArrives

\* When both sides have ended, the relay function returns, as long as they still
\* take what is written to them: no thread, socket or connection count outlives
\* its connection.
RelayReturns ==
  ClientReads /\ TargetReads =>
    (rel.upEof # "ignore" /\ ((closed = Peers) \/ (rel.packets # "none" /\ "client" \in closed)))
      ~> Over
=============================================================================
