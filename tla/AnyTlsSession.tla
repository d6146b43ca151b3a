---------------------------- MODULE AnyTlsSession ----------------------------
(***************************************************************************)
(* A sing-anytls session: many streams over one TLS connection.  The       *)
(* reader loop owns the connection, reads the client's frames and writes   *)
(* the frames that the stream threads queue for it; each stream has a      *)
(* thread that opens its target and relays (crates/anytls, session.rs and  *)
(* stream.rs; crates/server, handler/anytls.rs).                           *)
(*                                                                         *)
(* The server numbers streams by their SYN frames, and so does the client; *)
(* the two agree while the reader has not lost its place.  A chunk of the  *)
(* client is <<stream, number>>, so that a misplaced one can be told; its  *)
(* SYN and its FIN carry no chunk and are told by <<stream, 0>>.           *)
(* A read that times out inside a frame loses its place: from then on any  *)
(* frame may be read, one for each frame still on the wire.                *)
(***************************************************************************)
EXTENDS Naturals, Sequences, FiniteSets

CONSTANTS
  Sids,         \* stream ids the client uses: 1, 2, ...
  Openings,     \* what the first PSH of a stream may hold
  MaxStreams,   \* SYN frames
  MaxFrames,    \* frames the client sends
  MaxWire,      \* of them on the wire at once
  MaxDown       \* chunks one target answers with

ASSUME AnyTlsAssumption ==
  /\ MaxStreams \in Nat /\ MaxFrames \in Nat /\ MaxWire \in Nat /\ MaxDown \in Nat
  /\ \A o \in Openings : o.type # 0 => o.req = "none"

VARIABLES
  client,    \* "open", "shut" after the end of its stream, "gone" after a reset
  asked,     \* the client's streams: sid, chunks pushed, FIN sent, SYN's place
  wire,      \* frames of the client that the reader has not taken
  nsent,     \* how many it has sent
  reader,    \* the reader loop: "settings", "header", "body", "lost", "ended"
  frame,     \* the frame whose header was read last
  cut,       \* a timeout has lost part of a frame
  handle,    \* SingSession.streams: the stream each sid belongs to, 0 for none
  stream,    \* the SingStreams in the order of their creation
  jobs,      \* WriteJobs queued for the reader loop
  got        \* frames the client has received (like asked, kept only until a
             \* reset or until the reader loses its place)

clientVars == <<client, asked, nsent>>
vars == <<clientVars, wire, reader, frame, cut, handle, stream, jobs, got>>

Ids  == 1 .. Len(stream)
Junk == <<0, 0>>
\* WASTE stands for every frame that no stream sees: padding, an unknown
\* command, and a heart request, whose answer the loop writes itself.
Commands == {"SYN", "PSH", "FIN", "WASTE", "ALERT"}
Frame(cmd, sid, data) == [cmd |-> cmd, sid |-> sid, data |-> data]
WithBody == {"PSH", "WASTE", "ALERT"}
NoFrame  == Frame("WASTE", 0, Junk)

(* ------------------------- what a stream opens with --------------------- *)
\* A SOCKS address by its type byte, the length of its domain and the length
\* of the first chunk; or type 0 and the VLESS request.
Socks(type, dom, len) == [type |-> type, dom |-> dom, len |-> len, req |-> "none"]
Vless(req) == [type |-> 0, dom |-> 0, len |-> 40, req |-> req]
EmptyChunk == Socks(0, 0, 0)

\* Bytes the address takes; 0 where it is refused.
parse_socks_addr(o) ==
  LET size == [t \in {1, 3, 4} |-> CASE t = 1 -> 7 [] t = 3 -> 4 + o.dom [] t = 4 -> 19]
  IN IF o.type \in {1, 3, 4} /\ o.len >= size[o.type] THEN size[o.type] ELSE 0

VlessRequests == {"tcp", "vision", "udp", "udpVision", "refused"}
AllOpenings ==
  {Socks(1, 0, 12), Socks(3, 2, 6), Socks(3, 2, 5), EmptyChunk} \cup {Vless(r) : r \in VlessRequests}

(* ------------------------------- SingStream ----------------------------- *)
NewStream(sid) ==
  [sid |-> sid, queue |-> <<>>, at |-> "first", opening |-> EmptyChunk,
   tgot |-> <<>>, tread |-> 0, eof |-> FALSE, failed |-> FALSE]

\* The sender of the stream's channel is gone: the handle was dropped.
Dropped(i) == handle[stream[i].sid] # i

\* read_chunk and try_read_chunk give a chunk first, and the end of the
\* stream only when the channel is empty.
read_chunk(i) == stream[i].queue # <<>>
is_closed(i) == stream[i].queue = <<>> /\ Dropped(i)

(* ------------------------------ SessionWriter --------------------------- *)
Alive == reader # "ended"
Job(i, cmd, n) == [cmd |-> cmd, sid |-> stream[i].sid, i |-> i, n |-> n]

\* What a thread queues is refused once the loop has returned.
send_frame(js) == jobs' = IF Alive THEN jobs \o js ELSE jobs

send_psh(i, n)         == Job(i, "PSH", n)
send_fin(i)            == Job(i, "FIN", 0)
send_synack(i)         == Job(i, "SYNACK", 0)
send_synack_error(i)   == Job(i, "SYNACK_ERROR", 0)

(* ------------------------------- SingSession ---------------------------- *)
\* Fault: every frame that is written takes the handle.
apply_outgoing_stream_state_any ==
  LET ended == {jobs[k].sid : k \in 1 .. Len(jobs)}
  IN [s \in Sids |-> IF s \in ended THEN 0 ELSE handle[s]]

\* The stream table after the queued frames are written: a FIN of a stream
\* thread takes the handle of its sid.
apply_outgoing_stream_state ==
  LET ended == {jobs[k].sid : k \in {k \in 1 .. Len(jobs) : jobs[k].cmd = "FIN"}}
  IN [s \in Sids |-> IF s \in ended THEN 0 ELSE handle[s]]

\* Fault: an id that is in use keeps its first stream.
create_stream_once(h, sid) == IF h[sid] = 0 THEN [h EXCEPT ![sid] = Len(stream) + 1] ELSE h

create_stream(h, sid) == [h EXCEPT ![sid] = Len(stream) + 1]
close_stream(h, sid)  == [h EXCEPT ![sid] = 0]

deliver_data(h, sid, data) ==
  IF h[sid] # 0 /\ stream[h[sid]].at # "done"
  THEN [stream EXCEPT ![h[sid]].queue = Append(@, data)]
  ELSE stream

(* ------------------------------- the reader ----------------------------- *)
\* Every queued frame is written; a write fails only to a client that is gone.
CanWrite == jobs = <<>> \/ client # "gone"
write_frame(fs) == got' = IF client = "gone" \/ cut THEN <<>> ELSE got \o fs
Forget == asked' = <<>> /\ got' = <<>>
Written == write_frame(jobs) /\ jobs' = <<>>
drain_write_jobs == CanWrite /\ Written /\ handle' = apply_outgoing_stream_state

\* Fault: the stream threads hold the table, which outlives the loop.
Return_shared ==
  /\ reader' = "ended" /\ UNCHANGED handle
  /\ jobs' = <<>> /\ wire' = <<>> /\ frame' = NoFrame
  /\ UNCHANGED <<clientVars, cut, stream>>

\* The loop returns: the table, the channels and the connection go with it.
Return ==
  /\ reader' = "ended"
  /\ handle' = [s \in Sids |-> 0]
  /\ jobs' = <<>> /\ wire' = <<>> /\ frame' = NoFrame
  /\ UNCHANGED <<clientVars, cut, stream>>

\* A read of the settings waits for the rest of them however long it takes.
read_exact == wire # <<>>

\* The server's own settings are no stream's answer and are left out of got.
complete_settings_handshake ==
  /\ reader = "settings" /\ read_exact
  /\ wire' = Tail(wire) /\ reader' = "header"
  /\ UNCHANGED <<clientVars, frame, cut, handle, stream, jobs, got>>

Garbage ==
  {Frame(c, s, Junk) : c \in Commands \ (IF Len(stream) < MaxStreams THEN {} ELSE {"SYN"}),
                       s \in Sids}

ReadHeader ==
  /\ reader = "header" /\ wire # <<>>
  /\ frame' \in IF cut THEN Garbage ELSE {Head(wire)}
  /\ wire' = Tail(wire) /\ reader' = "body"
  /\ drain_write_jobs
  /\ UNCHANGED <<clientVars, cut, stream>>

\* try_read_exact: the rest of a header or a body does not come within the timeout.  What was
\* read of it is in a buffer that is given up; a body is then made up from
\* the frames that follow.
TimeoutInside ==
  /\ ~cut
  /\ \/ reader = "header" /\ wire # <<>> /\ reader' = "header"
     \/ reader = "body" /\ frame.cmd \in WithBody /\ reader' = "lost"
  /\ cut' = TRUE /\ Forget
  /\ CanWrite /\ jobs' = <<>> /\ handle' = apply_outgoing_stream_state
  /\ UNCHANGED <<client, nsent, wire, frame, stream>>

ReadLostBody ==
  /\ reader = "lost" /\ wire # <<>>
  /\ wire' = Tail(wire) /\ frame' = [frame EXCEPT !.data = Junk] /\ reader' = "body"
  /\ drain_write_jobs
  /\ UNCHANGED <<clientVars, cut, stream>>

\* Fault: the loop waits for a frame before it writes.
Poll_waiting ==
  /\ reader = "lost" /\ jobs # <<>>
  /\ drain_write_jobs
  /\ UNCHANGED <<clientVars, wire, reader, frame, cut, stream>>

\* Nothing arrives within the timeout: the loop still writes what is queued.
Poll ==
  /\ reader \in {"header", "lost"} /\ jobs # <<>>
  /\ drain_write_jobs
  /\ UNCHANGED <<clientVars, wire, reader, frame, cut, stream>>

\* The body is there, what is queued is written, the frame is carried out.
session_reader_loop ==
  /\ reader = "body" /\ CanWrite
  /\ LET h == apply_outgoing_stream_state
     IN \/ /\ frame.cmd = "SYN"
           /\ handle' = create_stream(h, frame.sid)
           /\ stream' = Append(stream, NewStream(frame.sid))
        \/ /\ frame.cmd = "PSH"
           /\ handle' = h
           /\ stream' = deliver_data(h, frame.sid, frame.data)
        \/ /\ frame.cmd = "FIN"
           /\ handle' = close_stream(h, frame.sid)
           /\ UNCHANGED stream
        \/ /\ frame.cmd = "WASTE"
           /\ handle' = h
           /\ UNCHANGED stream
  /\ Written /\ reader' = "header" /\ frame' = NoFrame
  /\ UNCHANGED <<clientVars, wire, cut>>

ReadAlert == reader = "body" /\ frame.cmd = "ALERT" /\ CanWrite /\ write_frame(jobs) /\ Return

\* The end of the client's stream, or an error of a read or a write.  The end
\* seen at a header still lets the queued frames out.
ReaderFails ==
  /\ \/ client = "shut" /\ wire = <<>> /\ reader = "header" /\ write_frame(jobs)
     \/ client = "shut" /\ wire = <<>> /\ reader \in {"settings", "lost"} /\ UNCHANGED got
     \/ client = "gone" /\ reader # "ended" /\ UNCHANGED got
  /\ Return

Reading == complete_settings_handshake \/ ReadHeader \/ ReadLostBody \/ Poll
             \/ session_reader_loop \/ ReadAlert \/ ReaderFails

(* ---------------------------- a stream's thread ------------------------- *)
IsVision(i) == stream[i].opening.req = "vision"

\* Of a thread that has returned, what it read and whether it failed are kept.
Over(i) == [NewStream(stream[i].sid) EXCEPT !.at = "done", !.tread = stream[i].tread]
Done(i)   == stream' = [stream EXCEPT ![i] = Over(i)]
Failed(i) == stream' = [stream EXCEPT ![i] = [Over(i) EXCEPT !.failed = TRUE]]

\* A thread that queues frames and goes on is stopped by a queue that is gone.
SendAndGo(i, js, s) ==
  /\ send_frame(js)
  /\ IF Alive THEN stream' = [stream EXCEPT ![i] = s] ELSE Done(i)

ThreadFrame == UNCHANGED <<clientVars, wire, reader, frame, cut, handle, got>>

\* The first chunk of the stream says what to open.
handle_sing_stream(i) ==
  /\ stream[i].at = "first" /\ read_chunk(i)
  /\ \E o \in Openings :
          LET s == [stream[i] EXCEPT !.queue = Tail(@), !.opening = o, !.at = "connect",
                                     !.tgot = <<Head(stream[i].queue)>>]
          IN \/ /\ o.len = 0
                /\ send_frame(<<send_synack_error(i)>>) /\ Done(i)
             \/ /\ o.type # 0
                /\ IF parse_socks_addr(o) = 0 THEN Failed(i)
                   ELSE stream' = [stream EXCEPT ![i] = s]
                /\ UNCHANGED jobs
             \/ /\ o.req = "refused"
                /\ Failed(i) /\ UNCHANGED jobs
             \/ /\ o.req = "udpVision"
                /\ send_frame(<<send_synack_error(i)>>) /\ Done(i)
             \/ /\ o.req = "udp"
                /\ send_frame(<<send_synack(i), send_psh(i, 0), send_fin(i)>>) /\ Done(i)
             \/ /\ o.req \in {"tcp", "vision"}
                /\ SendAndGo(i, <<send_synack(i), send_psh(i, 0)>>, s)
  /\ ThreadFrame

\* A stream that ends before its first chunk.
EndsUnopened(i) ==
  /\ stream[i].at = "first" /\ is_closed(i)
  /\ send_frame(<<send_fin(i)>>) /\ Done(i)
  /\ ThreadFrame

\* The target is reached or not, and the client told.
Connect(i) ==
  /\ stream[i].at = "connect"
  /\ \/ Failed(i) /\ UNCHANGED jobs
     \/ LET o == stream[i].opening
            s == [stream[i] EXCEPT !.at = "initial", !.opening = IF IsVision(i) THEN o ELSE EmptyChunk]
        IN IF o.type = 0
           THEN stream' = [stream EXCEPT ![i] = s] /\ UNCHANGED jobs
           ELSE SendAndGo(i, <<send_synack(i)>>,
                          [s EXCEPT !.tgot = IF o.len > parse_socks_addr(o) THEN @ ELSE <<>>])
  /\ ThreadFrame

\* What came with the address is written to the target.
WriteInitial(i) ==
  /\ stream[i].at = "initial"
  /\ stream' = [stream EXCEPT ![i].at = "down"] \/ Failed(i)
  /\ UNCHANGED jobs
  /\ ThreadFrame

\* The target's side of the relay loop: a chunk, its end, a timeout, an error.
\* relay_sing_vision reads until a timeout, relay_sing_raw once.
RelayDown(i) ==
  /\ stream[i].at = "down"
  /\ \/ /\ stream[i].tread < MaxDown
        /\ SendAndGo(i, <<send_psh(i, stream[i].tread + 1)>>,
                     [stream[i] EXCEPT !.tread = @ + 1, !.at = IF IsVision(i) THEN "down" ELSE "up"])
     \/ /\ ~IsVision(i)
        /\ send_frame(<<send_fin(i)>>) /\ Done(i)
     \/ /\ IsVision(i)
        /\ stream' = [stream EXCEPT ![i].at = "up", ![i].eof = TRUE]
        /\ UNCHANGED jobs
     \/ stream' = [stream EXCEPT ![i].at = "up"] /\ UNCHANGED jobs
     \/ Failed(i) /\ UNCHANGED jobs
  /\ ThreadFrame

\* The client's side: relay_sing_vision takes every chunk, relay_sing_raw one.
RelayUp(i) ==
  /\ stream[i].at = "up"
  /\ \/ /\ read_chunk(i)
        /\ \/ /\ stream' = [stream EXCEPT ![i].queue = Tail(@),
                                           ![i].tgot = Append(@, Head(stream[i].queue)),
                                           ![i].at = IF IsVision(i) THEN "up" ELSE "down"]
           \/ Failed(i)
        /\ UNCHANGED jobs
     \/ /\ ~read_chunk(i) /\ (is_closed(i) \/ stream[i].eof)
        /\ send_frame(<<send_fin(i)>>) /\ Done(i)
     \/ /\ ~read_chunk(i) /\ ~is_closed(i) /\ ~stream[i].eof
        /\ stream' = [stream EXCEPT ![i].at = "down"] /\ UNCHANGED jobs
  /\ ThreadFrame

StreamThread(i) ==
  \/ handle_sing_stream(i) \/ EndsUnopened(i) \/ Connect(i)
  \/ WriteInitial(i) \/ RelayDown(i) \/ RelayUp(i)

(* ------------------------------- the client ----------------------------- *)
ClientFrame == UNCHANGED <<reader, frame, cut, handle, stream, jobs, got>>
Sends(f) ==
  /\ client = "open" /\ ~cut /\ nsent < MaxFrames /\ Len(wire) < MaxWire
  /\ wire' = Append(wire, f) /\ nsent' = nsent + 1
  /\ UNCHANGED client /\ ClientFrame

SawFin(k)  == \E n \in DOMAIN got : got[n].cmd = "FIN" /\ got[n].i = k
Newest(k)  == \A j \in DOMAIN asked : asked[j].sid = asked[k].sid => j <= k

\* A stream id is used again with care when the server's FIN for it has come.
\* New ids are taken in order.
ClientSyn(s) ==
  /\ Len(asked) < MaxStreams
  /\ s \in 1 .. 1 + Cardinality({asked[j].sid : j \in DOMAIN asked})
  /\ asked' = Append(asked,
       [sid |-> s, pushed |-> 0, fin |-> FALSE, mark |-> Len(got),
        careful |-> \A j \in DOMAIN asked : asked[j].sid = s => SawFin(j)])
  /\ Sends(Frame("SYN", s, <<Len(asked) + 1, 0>>))

ClientPsh(k) ==
  /\ Newest(k) /\ ~asked[k].fin
  /\ asked' = [asked EXCEPT ![k].pushed = @ + 1]
  /\ Sends(Frame("PSH", asked[k].sid, <<k, asked[k].pushed + 1>>))

ClientFin(k) ==
  /\ Newest(k) /\ ~asked[k].fin
  /\ asked' = [asked EXCEPT ![k].fin = TRUE]
  /\ Sends(Frame("FIN", asked[k].sid, <<k, 0>>))

ClientOther(c) == Sends(Frame(c, 0, Junk)) /\ UNCHANGED asked

ClientShut ==
  /\ client = "open" /\ client' = "shut"
  /\ UNCHANGED <<asked, nsent, wire>> /\ ClientFrame

ClientReset ==
  /\ client # "gone" /\ reader # "ended" /\ client' = "gone" /\ wire' = <<>> /\ Forget
  /\ UNCHANGED <<nsent, reader, frame, cut, handle, stream, jobs>>

Client ==
  \/ \E s \in Sids : ClientSyn(s)
  \/ \E k \in DOMAIN asked : ClientPsh(k) \/ ClientFin(k)
  \/ \E c \in {"WASTE", "ALERT"} : ClientOther(c)
  \/ ClientShut \/ ClientReset

Init ==
  /\ client = "open" /\ asked = <<>> /\ nsent = 0
  /\ wire = <<Frame("SETTINGS", 0, Junk)>>
  /\ reader = "settings" /\ frame = NoFrame /\ cut = FALSE
  /\ handle = [s \in Sids |-> 0]
  /\ stream = <<>> /\ jobs = <<>> /\ got = <<>>

Next == Client \/ Reading \/ TimeoutInside \/ \E i \in Ids : StreamThread(i)

Spec == Init /\ [][Next]_vars

\* The step writes to the target, and write_all returns when the target likes: its
\* socket has a read timeout only.
Writes(i) == \/ stream[i].at = "initial" /\ stream[i].tgot # <<>>
             \/ stream[i].at = "up" /\ read_chunk(i)

\* The loop polls every 100 ms, a thread's reads and connects time out.  Nothing is
\* owed where queued frames have to be written first.
FairSpec ==
  /\ Spec /\ WF_vars(jobs = <<>> /\ Reading)
  /\ \A i \in 1 .. MaxStreams : WF_vars(i \in Ids /\ ~Writes(i) /\ StreamThread(i))

\* The targets, and the client, take what is written to them.
TargetsRead ==
  \A i \in 1 .. MaxStreams : WF_vars(i \in Ids /\ Writes(i) /\ StreamThread(i))
ClientReads == WF_vars(jobs # <<>> /\ Reading)

(* ------------------------------ properties ------------------------------ *)
Running == {i \in Ids : stream[i].at # "done"}

TypeOK ==
  /\ client \in {"open", "shut", "gone"} /\ nsent \in 0 .. MaxFrames
  /\ reader \in {"settings", "header", "body", "lost", "ended"} /\ cut \in BOOLEAN
  /\ handle \in [Sids -> 0 .. Len(stream)]
  /\ \A i \in Ids : stream[i].sid \in Sids
                     /\ stream[i].at \in {"first", "connect", "initial", "down", "up", "done"}

\* While the reader has kept its place, a target gets the chunks of its own
\* stream, in order and without a gap, whatever ids are used twice and
\* whatever the other streams do (deliver_data, read_chunk, try_read_chunk).
OwnBytes ==
  ~cut => \A i \in Ids :
    LET first == IF stream[i].tgot = <<>> THEN 0 ELSE stream[i].tgot[1][2] - 1
    IN /\ first \in {0, 1}
       /\ \A n \in DOMAIN stream[i].tgot : stream[i].tgot[n] = <<i, n + first>>

\* What the client has received on the id of its k-th stream since the SYN.
Mine(k) == {n \in asked[k].mark + 1 .. Len(got) : got[n].sid = asked[k].sid}

\* What the client receives on an id since its SYN is that stream's answer:
\* SYNACK first, the target's chunks in order, all of them when FIN comes,
\* and nothing after FIN (send_psh, send_fin, drain_write_jobs).
AnswerIsOwn ==
  ~cut => \A k \in DOMAIN asked : (Newest(k) /\ asked[k].careful) =>
    \A n \in Mine(k) :
      /\ got[n].i = k
      /\ got[n].cmd = "FIN" =>
           /\ \A m \in Mine(k) : m <= n
           /\ \A d \in 1 .. stream[k].tread : \E m \in Mine(k) : got[m].cmd = "PSH" /\ got[m].n = d
      /\ got[n].cmd = "SYNACK" => \A m \in Mine(k) : n <= m
      /\ got[n].cmd = "PSH" =>
           /\ \E m \in Mine(k) : m < n /\ got[m].cmd = "SYNACK"
           /\ \A m \in Mine(k) : got[m].cmd = "PSH" /\ m < n => got[m].n < got[n].n
           /\ got[n].n > 1 => \E m \in Mine(k) : m < n /\ got[m].cmd = "PSH" /\ got[m].n = got[n].n - 1

\* No stream's bytes end up in another, in either direction.
StreamsDoNotMix == OwnBytes /\ AnswerIsOwn

\* A stream that neither side has ended keeps its handle, so what the client
\* sends still reaches it: the late FIN of an earlier stream with the same id
\* does not take it, provided the client used the id again with care
\* (drain_write_jobs, apply_outgoing_stream_state).
LiveKeepsHandle ==
  (~cut /\ Alive) => \A i \in Running \cap DOMAIN asked :
    (Newest(i) /\ asked[i].careful /\ ~asked[i].fin) => handle[stream[i].sid] = i

\* Once the session is over every stream's thread ends: the dropped table
\* closes its channel and the dropped queue refuses its frames.  A target that
\* stops reading keeps the thread that writes to it, with the session long gone.
ThreadsEnd == TargetsRead => (reader = "ended" ~> Running = {})

\* A stream whose opening has been sent is answered, with SYNACK, an error or
\* FIN, unless the session ends first, the id was used again, or the stream
\* fails: a refused address, an unreachable target or a reset one is only logged.
\* A client that does not read what it is sent stops the loop, and gets nothing.
Answered ==
  ClientReads => \A k \in 1 .. MaxStreams :
    (k \in DOMAIN asked /\ asked[k].pushed > 0) ~>
      (\/ ~Alive \/ cut \/ k \notin DOMAIN asked \/ ~Newest(k) \/ ~asked[k].careful
       \/ k \in Ids /\ stream[k].failed
       \/ \E n \in DOMAIN got : got[n].i = k)
=============================================================================
