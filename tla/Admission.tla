------------------------------ MODULE Admission ------------------------------
(***************************************************************************)
(* One connection from its first byte to the relay: the client sends its   *)
(* messages in pieces, goes silent or closes, and a handler of             *)
(* AdmissionSteps reads, checks, answers and dials, until it hands the     *)
(* connection to a relay function, to a fallback destination, or ends it.  *)
(*                                                                         *)
(* The client's stream is the units 1, 2, ...: MsgLen for each message the *)
(* handler reads, then Body units for the target.                          *)
(***************************************************************************)
EXTENDS AdmissionSteps, Naturals, FiniteSets

CONSTANTS
  Handlers,  \* the handlers an instance looks at
  MsgLen,    \* units of a message: the pieces it may arrive in
  Body       \* units the client sends behind its last message

ASSUME AdmissionAssumption == Handlers \subseteq AllHandlers /\ MsgLen \in Nat \ {0} /\ Body \in Nat

VARIABLES
  h,         \* the handler
  req,       \* what the client asks for and what it is entitled to
  pc,        \* the step the handler is at
  sent,      \* units the client has sent
  closed,    \* the client has ended its stream
  taken,     \* units read from the client
  held,      \* of those, the ones an error returns for the fallback
  spoilt,    \* bytes read too far have been lost or misread
  late,      \* a read has timed out
  told,      \* the handler's answer: "nothing", "success", "error"
  dialled,   \* "no", "up", "failed"
  counted,   \* the connection is counted for a user
  ended,     \* "no", "drop", "fallback", "packets", "relay"
  seen       \* what a fallback destination or the relay is given

vars == <<h, req, pc, sent, closed, taken, held, spoilt, late, told, dialled,
          counted, ended, seen>>

Merits == {"hello", "password", "path", "cred", "header", "udp", "udp_relay", "dest"}

\* The requests: everything in order, or one thing missing.  dest: the server
\* has a fallback destination.
Requests ==
  { [cmd |-> c, vision |-> v, has |-> Merits \ m] :
      c \in {"tcp", "udp", "mux"}, v \in BOOLEAN,
      m \in {{}, {"dest"}} \cup {{x} : x \in Merits \ {"dest"}}
             \cup {{x, "dest"} : x \in {"hello", "password", "cred"}} }

Nothing == [from |-> 0, held |-> 0, next |-> 0, form |-> "none", rest |-> "none"]

Init ==
  /\ h \in Handlers /\ req \in Requests /\ pc = 1
  /\ sent = 0 /\ closed = FALSE /\ taken = 0 /\ held = 0
  /\ spoilt = FALSE /\ late = FALSE
  /\ told = "nothing" /\ dialled = "no" /\ counted = FALSE
  /\ ended = "no" /\ seen = Nothing

client == <<sent, closed>>

Reads(k)  == Cardinality({i \in 1..k : h[i].op = "read"})
MsgStart  == MsgLen * (Reads(pc) - 1)
MsgEnd    == MsgLen * Reads(pc)
Total     == MsgLen * Reads(Len(h)) + Body

At(op) == ended = "no" /\ h[pc].op = op

ClientSend ==
  /\ ~closed /\ sent < Total /\ ended = "no"
  /\ sent' = sent + 1
  /\ UNCHANGED <<h, req, pc, closed, taken, held, spoilt, late, told, dialled, counted, ended, seen>>

ClientClose ==
  /\ ~closed /\ ended = "no"
  /\ closed' = TRUE
  /\ UNCHANGED <<h, req, pc, sent, taken, held, spoilt, late, told, dialled, counted, ended, seen>>

(* -------------------------------- failing ------------------------------- *)
\* What a fallback destination is given: the units from + 1 .. upTo in one form,
\* then the units behind t as the relay reads them.
Handed(fail, upTo, t) ==
  CASE fail = "wire"  -> [from |-> 0, held |-> upTo, next |-> t, form |-> "wire", rest |-> "wire"]
    [] fail = "plain" -> [from |-> MsgStart, held |-> upTo, next |-> t, form |-> "plain", rest |-> "plain"]
    [] fail = "mixed" -> [from |-> MsgStart, held |-> upTo, next |-> t, form |-> "plain", rest |-> "wire"]
    [] fail = "blank" -> [from |-> t, held |-> t, next |-> t, form |-> "wire", rest |-> "wire"]

\* The handler gives up at its current step, holding upTo of the t units taken.
Fail(fail, upTo, t) ==
  /\ told' = IF fail = "refuse" THEN "error" ELSE told
  /\ IF fail \notin {"drop", "refuse"} /\ "dest" \in req.has
     THEN ended' = "fallback" /\ seen' = Handed(fail, upTo, t)
     ELSE ended' = "drop" /\ UNCHANGED seen

Step == pc' = pc + 1 /\ UNCHANGED <<told, ended, seen>>
Stay == UNCHANGED <<pc, told, ended, seen>>

(* -------------------------------- reading ------------------------------- *)
\* The message is complete: on to the next step.
Complete(b) ==
  /\ held' = IF h[pc].over = "spoil" THEN MsgEnd ELSE b
  /\ spoilt' = (spoilt \/ (h[pc].over = "spoil" /\ b > MsgEnd))
  /\ Step

Arrived == (taken + 1)..sent

Take ==
  /\ At("read") /\ taken < MsgEnd
  /\ \E b \in Arrived :
       /\ h[pc].how = "exact" => b <= MsgEnd
       /\ h[pc].how = "record" /\ taken > MsgStart => b <= MsgEnd
       /\ taken' = b
       /\ CASE b >= MsgEnd -> Complete(b)
            [] b < MsgEnd /\ h[pc].how \in {"until", "exact"} ->
                 held' = b /\ Stay /\ UNCHANGED spoilt
            \* What read_exact takes is not in the buffer an error returns.
            [] b < MsgEnd /\ h[pc].how = "record" ->
                 held' = (IF taken = MsgStart THEN b ELSE held) /\ Stay /\ UNCHANGED spoilt
            [] b < MsgEnd /\ h[pc].how \in {"once", "second"} ->
                 Fail(h[pc].fail, b, b) /\ held' = b /\ UNCHANGED <<pc, spoilt>>
  /\ UNCHANGED <<h, req, client, late, dialled, counted>>

\* A message that came along with the one before it needs no read.
Parse ==
  /\ At("read") /\ taken >= MsgEnd
  /\ Complete(taken)
  /\ UNCHANGED <<h, req, client, taken, late, dialled, counted>>

\* 18 bytes or more are at hand and no more is read: the header is cut.
TakeShort ==
  /\ At("read") /\ h[pc].how = "second" /\ MsgStart < taken /\ taken < MsgEnd
  /\ Fail(h[pc].fail, held, taken)
  /\ UNCHANGED <<h, req, pc, client, taken, held, spoilt, late, dialled, counted>>

\* Mutant: a read of nothing is tried again.
TakeEof_Retries ==
  /\ At("read") /\ taken < MsgEnd /\ closed /\ taken = sent /\ h[pc].how # "until"
  /\ Fail(h[pc].fail, held, taken)
  /\ UNCHANGED <<h, req, pc, client, taken, held, spoilt, late, dialled, counted>>

\* The client's end of stream inside the message.
TakeEof ==
  /\ At("read") /\ taken < MsgEnd /\ closed /\ taken = sent
  /\ Fail(h[pc].fail, held, taken)
  /\ UNCHANGED <<h, req, pc, client, taken, held, spoilt, late, dialled, counted>>

TakeTimeout ==
  /\ At("read") /\ taken < MsgEnd /\ ~closed /\ taken = sent /\ h[pc].timed
  /\ Fail(h[pc].fail, held, taken)
  /\ late' = TRUE
  /\ UNCHANGED <<h, req, pc, client, taken, held, spoilt, dialled, counted>>

\* The TLS record of the message has come in part.
TakeWouldBlock ==
  /\ At("read") /\ taken < MsgEnd /\ h[pc].fragile /\ taken < sent
  /\ Fail(h[pc].fail, held, taken)
  /\ UNCHANGED <<h, req, pc, client, taken, held, spoilt, late, dialled, counted>>

(* --------------------------- the other steps ---------------------------- *)
Meets(what) ==
  CASE what = "tcp"      -> req.cmd = "tcp"
    [] what = "streamed" -> ~(req.cmd = "udp" /\ req.vision)
    [] OTHER             -> what \in req.has /\ ~spoilt

Check ==
  /\ At("check")
  /\ IF Meets(h[pc].what) THEN Step ELSE Fail(h[pc].fail, held, taken) /\ UNCHANGED pc
  /\ UNCHANGED <<h, req, client, taken, held, spoilt, late, dialled, counted>>

Track ==
  /\ At("count")
  /\ counted' = TRUE
  /\ Step
  /\ UNCHANGED <<h, req, client, taken, held, spoilt, late, dialled>>

Answer ==
  /\ At("reply")
  /\ told' = "success" /\ pc' = pc + 1
  /\ UNCHANGED <<h, req, client, taken, held, spoilt, late, dialled, counted, ended, seen>>

Datagrams ==
  /\ At("packets")
  /\ CASE req.cmd # h[pc].cmd -> Step
       [] req.cmd = h[pc].cmd /\ h[pc].rights \subseteq req.has ->
            ended' = "packets" /\ UNCHANGED <<pc, told, seen>>
       [] OTHER -> Fail("drop", held, taken) /\ UNCHANGED pc
  /\ UNCHANGED <<h, req, client, taken, held, spoilt, late, dialled, counted>>

Connect ==
  /\ At("dial")
  /\ \/ dialled' = "up" /\ Step
     \/ dialled' = "failed" /\ Fail(h[pc].fail, held, taken) /\ UNCHANGED pc
  /\ UNCHANGED <<h, req, client, taken, held, spoilt, late, counted>>

\* The relay starts with the units taken beyond the last message, if they are
\* passed on, and reads the client from where the handler stopped.
Relay ==
  /\ At("relay")
  /\ ended' = "relay"
  /\ LET rel == IF req.vision THEN h[pc].vision ELSE h[pc].raw IN
     seen' = [from |-> MsgEnd, next |-> taken, form |-> "plain", rest |-> "plain",
              held |-> IF h[pc].passes /\ rel.initial = "forward" THEN taken ELSE MsgEnd]
  /\ UNCHANGED <<h, req, pc, client, taken, held, spoilt, late, told, dialled, counted>>

Reading == Take \/ Parse \/ TakeShort \/ TakeEof
Serving == Check \/ Track \/ Answer \/ Datagrams \/ Connect \/ Relay

Next ==
  \/ ClientSend \/ ClientClose
  \/ Reading \/ TakeTimeout \/ TakeWouldBlock
  \/ Serving

Spec == Init /\ [][Next]_vars

\* The handler's thread runs, its reads return what has arrived and its timers
\* fire.  The client owes nothing.
FairSpec ==
  /\ Spec
  /\ WF_vars(Reading) /\ WF_vars(TakeTimeout) /\ WF_vars(Serving)

-----------------------------------------------------------------------------
TypeOK ==
  /\ h \in Handlers /\ req \in Requests /\ pc \in 1..Len(h)
  /\ sent \in 0..Total /\ taken \in 0..sent /\ held \in 0..taken
  /\ {closed, spoilt, late, counted} \subseteq BOOLEAN
  /\ told \in {"nothing", "success", "error"}
  /\ dialled \in {"no", "up", "failed"}
  /\ ended \in {"no", "drop", "fallback", "packets", "relay"}

\* What the handler asks of a request at all.
Asked(what) == \E i \in 1..Len(h) : h[i].op = "check" /\ h[i].what = what
AsksRights == \E i \in 1..Len(h) : h[i].op = "packets" /\ h[i].rights # {}

\* No target is contacted, no datagram relayed, and no user charged with a
\* connection for a client that did not prove who it is: by its handshake or
\* password where the handler asks for one, and by a user's credential (the SOCKS
\* streams of an AnyTLS session have the password only); datagrams need the
\* user's own permission wherever users have one.
OnlyAdmitted ==
  /\ counted \/ dialled # "no" \/ ended = "packets" =>
       /\ \A what \in {"hello", "password"} : Asked(what) => what \in req.has
       /\ "cred" \in req.has \/ h = handle_sing_stream_socks
  /\ ended = "packets" /\ AsksRights => "udp" \in req.has

\* The relay is given every unit the client sent for the target that the handler
\* has already read: bytes that follow the request in the same packet are not
\* lost.  (relay_vision, the relay of two handlers, drops them by itself.)
BodyIsPassed ==
  ended = "relay" /\ ~(req.vision /\ h[Len(h)].vision.initial = "drop") =>
    seen.held = seen.next

\* A fallback destination is given the connection from its first byte, or its
\* decrypted stream from the first byte after the handshake, without a gap and
\* in one form: it can answer as if the client had called it.
WholeFallback ==
  ended = "fallback" =>
    /\ seen.held = seen.next /\ seen.form = seen.rest
    /\ seen.form = "wire" => seen.from = 0
    /\ seen.form = "plain" => seen.from = MsgLen

FallbackIsWhole == h \notin SpiderHandlers /\ ~Asked("password") => WholeFallback

Acceptable ==
  \A i \in 1..Len(h) :
    /\ h[i].op = "check" => Meets(h[i].what)
    /\ h[i].op = "packets" => req.cmd # h[i].cmd \/ h[i].rights \subseteq req.has

\* Where the protocol frames its own request, how the client's bytes are cut into
\* packets decides nothing: a good request of a patient client is refused only
\* because its target cannot be reached.  (The VLESS carriers expect the header
\* in one read.)
SplitIsHarmless ==
  h \in FramedHandlers /\ Acceptable /\ ended = "drop" => closed \/ late \/ dialled = "failed"

\* A client that has ended its stream is not kept.
SettlesAfterClose == closed ~> (ended # "no")

\* The handlers with a socket timeout under every read are not held by a client
\* that goes silent: their thread ends or gets to the relay.
SilentIsDropped == (h \in TimedHandlers) ~> (ended # "no")

\* No handler is kept for ever by a client that closes, nor a timed one by a
\* client that says nothing.
Settles == SettlesAfterClose /\ SilentIsDropped
=============================================================================
