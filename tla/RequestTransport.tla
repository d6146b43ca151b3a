------------------------- MODULE RequestTransport -------------------------
(***************************************************************************)
(* The polling request transport shared by the Meek and Google Docs Viewer *)
(* carriers (crates/server/src/handler/request_transport.rs): a registry   *)
(* of sessions keyed by a client-chosen id, HTTP handler threads that post *)
(* a body and poll a response, and one VLESS session thread per session,   *)
(* which in raw mode splits into an uplink and a downlink thread.          *)
(*                                                                         *)
(* Data is abstracted to positions: a POST body is one unit numbered by    *)
(* the order in which the session accepted it (spoilt marks the ones whose *)
(* packets a UDP relay loses), a downlink byte is numbered by the order in *)
(* which the session thread handed it to the session.  The                 *)
(* outgoing mutex is held across two model steps only by a thread that has *)
(* decided to wait on the condition variable (pc "park"); every other      *)
(* critical section is one step.                                           *)
(***************************************************************************)
EXTENDS Naturals, Sequences, FiniteSets

CONSTANTS
    Ids,          \* session ids clients use
    Handlers,     \* HTTP connection threads
    NoOne,        \* "no handler": the roundtrip lock is free
    Transport,    \* "meek" never waits for a response, "gdocsviewer" polls
    Modes,        \* relay modes a VLESS request may ask for
    IdleTimeout,  \* FALSE models idle_timeout = 0 (sessions never expire)
    ChanCap,      \* capacity of the incoming sync_channel (64 in the code)
    MaxResp,      \* max_response_bytes
    MaxBuffered,  \* max_buffered_response_bytes
    MaxChunk,     \* most bytes one downlink write hands over
    MaxSessions,  \* bound: sessions created in a behaviour
    MaxUp,        \* bound: bodies posted in a behaviour
    MaxDown       \* bound: downlink bytes in a behaviour

ASSUME RequestTransportAssumption ==
    /\ NoOne \notin Handlers
    /\ Ids # {}
    /\ Transport \in {"meek", "gdocsviewer"}
    /\ Modes \subseteq {"raw", "vision", "udp"}
    /\ IdleTimeout \in BOOLEAN
    /\ {ChanCap, MaxResp, MaxBuffered, MaxChunk, MaxSessions} \subseteq Nat \ {0}
    /\ {MaxUp, MaxDown} \subseteq Nat

Sessions == 1..MaxSessions

VARIABLES
    registry,  \* sessions map: id -> session, 0 when absent
    count,     \* sessions created so far: 1..count exist
    owner,     \* the id a session was created under
    closed,    \* RequestSession.closed
    tx,        \* incoming_tx still holds the sender
    rx,        \* the receiver half is alive
    chan,      \* bodies in the sync_channel
    accepted,  \* bodies ever put into the channel
    toTarget,  \* bodies relayed to the target, in order
    spoilt,    \* those of them a UDP relay could not take whole packets from
    fresh,     \* last_activity is younger than idle_timeout
    out,       \* OutgoingState.buffer
    pushed,    \* downlink bytes ever appended to out
    replies,   \* downlink bytes returned by finished roundtrips, in order
    wait,      \* handlers waiting on outgoing_cv, not yet notified
    rt,        \* holder of roundtrip_lock
    main,      \* pc of the session thread
    up,        \* pc of the raw uplink thread
    down,      \* pc of the raw downlink thread
    push,      \* pc of the push_outgoing call in progress
    chunk,     \* bytes that call hands over
    hpc,       \* pc of an HTTP handler
    hs,        \* the session it leased
    hbody,     \* it carries a non-empty body
    hdata,     \* the response it drained
    posts      \* bodies posted so far (bounded by MaxUp)

regVars  == <<registry, count, owner>>
upVars   == <<tx, rx, chan, accepted, toTarget, spoilt>>
downVars == <<out, pushed, replies>>
thrVars  == <<main, up, down, push, chunk>>
hVars    == <<hpc, hs, hbody, hdata, posts>>
vars == <<regVars, closed, upVars, fresh, downVars, wait, rt, thrVars, hVars>>

MainPC == {"none", "header", "respond", "connect", "join", "v_down", "v_push",
           "v_up", "v_up_eof", "u_read", "u_recv", "u_push", "remove", "done"}
HandlerPC == {"idle", "enter", "send", "sending", "read", "polling", "reply"}

\* The numbers n+1 .. n+k in order.
Run(n, k) == [i \in 1..k |-> n + i]

Init ==
    /\ registry = [i \in Ids |-> 0]
    /\ count = 0
    /\ owner = [s \in Sessions |-> CHOOSE i \in Ids : TRUE]
    /\ closed = [s \in Sessions |-> FALSE]
    /\ tx = [s \in Sessions |-> FALSE]
    /\ rx = [s \in Sessions |-> FALSE]
    /\ chan = [s \in Sessions |-> <<>>]
    /\ accepted = [s \in Sessions |-> 0]
    /\ toTarget = [s \in Sessions |-> <<>>]
    /\ spoilt = [s \in Sessions |-> {}]
    /\ fresh = [s \in Sessions |-> FALSE]
    /\ out = [s \in Sessions |-> <<>>]
    /\ pushed = [s \in Sessions |-> 0]
    /\ replies = [s \in Sessions |-> <<>>]
    /\ wait = [s \in Sessions |-> {}]
    /\ rt = [s \in Sessions |-> NoOne]
    /\ main = [s \in Sessions |-> "none"]
    /\ up = [s \in Sessions |-> "none"]
    /\ down = [s \in Sessions |-> "none"]
    /\ push = [s \in Sessions |-> "none"]
    /\ chunk = [s \in Sessions |-> 0]
    /\ hpc = [h \in Handlers |-> "idle"]
    /\ hs = [h \in Handlers |-> 1]
    /\ hbody = [h \in Handlers |-> FALSE]
    /\ hdata = [h \in Handlers |-> <<>>]
    /\ posts = 0

-----------------------------------------------------------------------------
(* RequestSession primitives *)

\* The outgoing mutex is free: nobody sits between the test and the wait.
OutgoingFree(s) == push[s] # "park"

\* outgoing_cv.notify_all on every session of S: pollers and a parked pusher
\* become runnable; a pusher at "park" is not waiting yet and misses it.
NotifyAll(S) ==
    /\ wait' = [s \in Sessions |-> IF s \in S THEN {} ELSE wait[s]]
    /\ push' = [s \in Sessions |->
                    IF s \in S /\ push[s] = "parked" THEN "check" ELSE push[s]]

\* RequestSession::close on every session of S: sets the flag, drops the
\* registered sender, notifies; a session already closed is left alone.  Its
\* touch() is not kept: a closed session expires whatever its age.
Close(S) ==
    LET X == {s \in S : ~closed[s]} IN
    /\ closed' = [s \in Sessions |-> closed[s] \/ s \in X]
    /\ tx' = [s \in Sessions |-> tx[s] /\ s \notin X]
    /\ NotifyAll(X)

\* recv() fails: the channel is empty and every sender, clones included, is gone.
Disconnected(s) ==
    /\ chan[s] = <<>>
    /\ ~tx[s]
    /\ \A h \in Handlers : ~(hpc[h] = "sending" /\ hs[h] = s)

-----------------------------------------------------------------------------
(* RequestSessionRegistry *)

\* Sessions cleanup_locked drops: the closed ones and, unless idle_timeout is
\* zero, those idle for longer than the timeout.
Expired == {i \in Ids : /\ registry[i] # 0
                        /\ \/ closed[registry[i]]
                           \/ IdleTimeout /\ ~fresh[registry[i]]}

\* Mutant: cleanup forgets the sessions it drops without closing them.
CleanupClosed_DropsOnly == {}

\* What cleanup_locked closes among the sessions it drops.
CleanupClosed == {registry[i] : i \in Expired}

\* A request for id i arrives: acquire cleans up, then leases the open session
\* of that id or creates one and spawns its thread.
Acquire(h, i, body) ==
    LET kept == [j \in Ids |-> IF j \in Expired THEN 0 ELSE registry[j]]
        new  == count + 1
        s    == IF kept[i] # 0 THEN kept[i] ELSE new IN
    /\ hpc[h] = "idle"
    /\ body => posts < MaxUp
    /\ s \in Sessions
    /\ posts' = IF body THEN posts + 1 ELSE posts
    /\ hpc' = [hpc EXCEPT ![h] = "enter"]
    /\ hs' = [hs EXCEPT ![h] = s]
    /\ hbody' = [hbody EXCEPT ![h] = body]
    /\ LET X == {x \in CleanupClosed : ~closed[x]} IN
       /\ closed' = [x \in Sessions |-> closed[x] \/ x \in X]
       /\ tx' = [x \in Sessions |-> (tx[x] /\ x \notin X) \/ (x = s /\ s = new)]
       /\ NotifyAll(X)
    /\ registry' = [kept EXCEPT ![i] = s]
    /\ IF s = new
       THEN /\ count' = new
            /\ owner' = [owner EXCEPT ![s] = i]
            /\ rx' = [rx EXCEPT ![s] = TRUE]
            /\ fresh' = [fresh EXCEPT ![s] = TRUE]
            /\ main' = [main EXCEPT ![s] = "header"]
       ELSE UNCHANGED <<count, owner, rx, fresh, main>>
    /\ UNCHANGED <<chan, accepted, toTarget, spoilt, downVars, rt, up, down, chunk, hdata>>

\* registry.remove(session_id) at the end of the session thread: whatever
\* session the map holds under that id is dropped and closed.
Remove(s) ==
    LET x == registry[owner[s]] IN
    /\ main[s] = "remove"
    /\ main' = [main EXCEPT ![s] = "done"]
    /\ registry' = [registry EXCEPT ![owner[s]] = 0]
    /\ Close(IF x = 0 THEN {} ELSE {x})
    /\ UNCHANGED <<count, owner, rx, chan, accepted, toTarget, spoilt, fresh, downVars,
                   rt, up, down, chunk, hVars>>

\* The idle timeout of a session elapses; only the registry's cleanup looks.
IdleElapsed(s) ==
    /\ IdleTimeout
    /\ registry[owner[s]] = s
    /\ fresh[s]
    /\ fresh' = [fresh EXCEPT ![s] = FALSE]
    /\ UNCHANGED <<regVars, closed, upVars, downVars, wait, rt, thrVars, hVars>>

-----------------------------------------------------------------------------
(* submit_roundtrip, run by an HTTP handler *)

\* Mutant: submit_roundtrip without the roundtrip lock.
LockRoundtrip_NoLock(h) ==
    LET s == hs[h] IN
    /\ hpc[h] = "enter"
    /\ rt' = [rt EXCEPT ![s] = h]
    /\ fresh' = [fresh EXCEPT ![s] = TRUE]
    /\ hpc' = [hpc EXCEPT ![h] = IF hbody[h] THEN "send" ELSE "read"]
    /\ hbody' = [hbody EXCEPT ![h] = FALSE]
    /\ UNCHANGED <<regVars, closed, upVars, downVars, wait, thrVars, hs, hdata, posts>>

LockRoundtrip(h) ==
    LET s == hs[h] IN
    /\ hpc[h] = "enter"
    /\ rt[s] = NoOne
    /\ rt' = [rt EXCEPT ![s] = h]
    /\ fresh' = [fresh EXCEPT ![s] = TRUE]
    /\ hpc' = [hpc EXCEPT ![h] = IF hbody[h] THEN "send" ELSE "read"]
    /\ hbody' = [hbody EXCEPT ![h] = FALSE]
    /\ UNCHANGED <<regVars, closed, upVars, downVars, wait, thrVars, hs, hdata, posts>>

\* The roundtrip fails with BrokenPipe and releases the lock.
Abandon(h) ==
    /\ hpc' = [hpc EXCEPT ![h] = "idle"]
    /\ rt' = [rt EXCEPT ![hs[h]] = NoOne]

\* send_incoming, first half: clone the sender out of its mutex.
CloneSender(h) ==
    /\ hpc[h] = "send"
    /\ \/ /\ tx[hs[h]]
          /\ hpc' = [hpc EXCEPT ![h] = "sending"]
          /\ UNCHANGED rt
       \/ /\ ~tx[hs[h]]
          /\ Abandon(h)
    /\ UNCHANGED <<regVars, closed, upVars, fresh, downVars, wait, thrVars,
                   hs, hbody, hdata, posts>>

\* Mutant: try_send, which drops the body of a full channel and reports success.
SendBody_TrySend(h) ==
    LET s == hs[h] IN
    /\ hpc[h] = "sending"
    /\ rx[s]
    /\ IF Len(chan[s]) < ChanCap
       THEN chan' = [chan EXCEPT ![s] = Append(@, accepted[s] + 1)]
       ELSE UNCHANGED chan
    /\ accepted' = [accepted EXCEPT ![s] = @ + 1]
    /\ hpc' = [hpc EXCEPT ![h] = "read"]
    /\ UNCHANGED <<regVars, closed, tx, rx, toTarget, spoilt, fresh, downVars, wait, rt, thrVars,
                   hs, hbody, hdata, posts>>

\* send_incoming, second half: the blocking send into the bounded channel.
SendBody(h) ==
    LET s == hs[h] IN
    /\ hpc[h] = "sending"
    /\ \/ /\ rx[s]
          /\ Len(chan[s]) < ChanCap
          /\ chan' = [chan EXCEPT ![s] = Append(@, accepted[s] + 1)]
          /\ accepted' = [accepted EXCEPT ![s] = @ + 1]
          /\ hpc' = [hpc EXCEPT ![h] = "read"]
          /\ UNCHANGED rt
       \/ /\ ~rx[s]
          /\ Abandon(h)
          /\ UNCHANGED <<chan, accepted>>
    /\ UNCHANGED <<regVars, closed, tx, rx, toTarget, spoilt, fresh, downVars, wait, thrVars,
                   hs, hbody, hdata, posts>>

\* drain_buffer and the notification after it.
Drain(h) ==
    LET s == hs[h]
        n == IF Len(out[s]) < MaxResp THEN Len(out[s]) ELSE MaxResp IN
    /\ hdata' = [hdata EXCEPT ![h] = SubSeq(out[s], 1, n)]
    /\ out' = [out EXCEPT ![s] = SubSeq(@, n + 1, Len(@))]
    /\ NotifyAll({s})
    /\ hpc' = [hpc EXCEPT ![h] = "reply"]

\* The caller of submit_roundtrip waits for a response: the document viewer
\* passes a poll_wait, Meek passes zero.
Polls == Transport = "gdocsviewer"

\* What the wait_timeout_while predicate tests.
KeepsPolling(s) == out[s] = <<>> /\ ~closed[s]

\* read_outgoing takes the mutex and either drains or starts to poll.
ReadOutgoing(h) ==
    LET s == hs[h] IN
    /\ hpc[h] = "read"
    /\ OutgoingFree(s)
    /\ \/ /\ Polls
          /\ KeepsPolling(s)
          /\ wait' = [wait EXCEPT ![s] = @ \cup {h}]
          /\ hpc' = [hpc EXCEPT ![h] = "polling"]
          /\ UNCHANGED <<out, push, hdata>>
       \/ /\ ~Polls \/ ~KeepsPolling(s)
          /\ Drain(h)
    /\ UNCHANGED <<regVars, closed, upVars, fresh, pushed, replies, rt,
                   main, up, down, chunk, hs, hbody, posts>>

\* A notified poller relocks and tests the predicate again.
PollWake(h) ==
    LET s == hs[h] IN
    /\ hpc[h] = "polling"
    /\ h \notin wait[s]
    /\ OutgoingFree(s)
    /\ \/ /\ KeepsPolling(s)
          /\ wait' = [wait EXCEPT ![s] = @ \cup {h}]
          /\ UNCHANGED <<out, push, hdata, hpc>>
       \/ /\ ~KeepsPolling(s)
          /\ Drain(h)
    /\ UNCHANGED <<regVars, closed, upVars, fresh, pushed, replies, rt,
                   main, up, down, chunk, hs, hbody, posts>>

\* poll_wait elapses: the poller returns with whatever is there.
PollTimeout(h) ==
    /\ hpc[h] = "polling"
    /\ OutgoingFree(hs[h])
    /\ Drain(h)
    /\ UNCHANGED <<regVars, closed, upVars, fresh, pushed, replies, rt,
                   main, up, down, chunk, hs, hbody, posts>>

\* submit_roundtrip returns Ok: the lock is released, the response is written.
Reply(h) ==
    LET s == hs[h] IN
    /\ hpc[h] = "reply"
    /\ hpc' = [hpc EXCEPT ![h] = "idle"]
    /\ rt' = [rt EXCEPT ![s] = NoOne]
    /\ replies' = [replies EXCEPT ![s] = @ \o hdata[h]]
    /\ hdata' = [hdata EXCEPT ![h] = <<>>]
    /\ UNCHANGED <<regVars, closed, upVars, fresh, out, pushed, wait, thrVars,
                   hs, hbody, posts>>

-----------------------------------------------------------------------------
(* push_outgoing, run by the session thread or the raw downlink thread *)

\* Where the caller continues after a successful write.
MainAfterPush == [respond |-> "connect", v_push |-> "v_down", u_push |-> "u_read"]

\* Mutant: the failed session thread keeps its stream.
PushFails_KeepsStream(s) ==
    /\ push' = [push EXCEPT ![s] = "none"]
    /\ IF down[s] = "push"
       THEN down' = [down EXCEPT ![s] = "done"] /\ UNCHANGED main
       ELSE main' = [main EXCEPT ![s] = "remove"] /\ UNCHANGED down
    /\ UNCHANGED <<rx, chan>>

\* The caller's error path: write_all(..)? ends the session thread and drops
\* the stream, the raw downlink thread just ends.
PushFails(s) ==
    /\ push' = [push EXCEPT ![s] = "none"]
    /\ IF down[s] = "push"
       THEN /\ down' = [down EXCEPT ![s] = "done"]
            /\ UNCHANGED <<main, rx, chan>>
       ELSE /\ main' = [main EXCEPT ![s] = "remove"]
            /\ rx' = [rx EXCEPT ![s] = FALSE]
            /\ chan' = [chan EXCEPT ![s] = <<>>]
            /\ UNCHANGED down

\* The buffer has room and the session is open: append the whole chunk.
PushAppends(s) ==
    /\ fresh' = [fresh EXCEPT ![s] = TRUE]
    /\ out' = [out EXCEPT ![s] = @ \o Run(pushed[s], chunk[s])]
    /\ pushed' = [pushed EXCEPT ![s] = @ + chunk[s]]
    /\ wait' = [wait EXCEPT ![s] = {}]
    /\ push' = [push EXCEPT ![s] = "none"]
    /\ IF down[s] = "push"
       THEN down' = [down EXCEPT ![s] = "run"] /\ UNCHANGED main
       ELSE main' = [main EXCEPT ![s] = MainAfterPush[@]] /\ UNCHANGED down

\* Mutant: the limit is tested with > instead of >=.
BufferFull_OffByOne(s) == Len(out[s]) > MaxBuffered

BufferFull(s) == Len(out[s]) >= MaxBuffered

PushCheck(s) ==
    /\ push[s] = "check"
    /\ \/ /\ BufferFull(s) /\ ~closed[s]
          /\ push' = [push EXCEPT ![s] = "park"]
          /\ UNCHANGED <<main, down, rx, chan, fresh, out, pushed, wait>>
       \/ /\ closed[s]
          /\ PushFails(s)
          /\ UNCHANGED <<fresh, out, pushed, wait>>
       \/ /\ ~BufferFull(s) /\ ~closed[s]
          /\ PushAppends(s)
          /\ UNCHANGED <<rx, chan>>
    /\ UNCHANGED <<regVars, closed, tx, accepted, toTarget, spoilt, replies, rt, up, chunk, hVars>>

\* Condvar::wait releases the mutex and starts waiting.
PushPark(s) ==
    /\ push[s] = "park"
    /\ push' = [push EXCEPT ![s] = "parked"]
    /\ UNCHANGED <<regVars, closed, upVars, fresh, downVars, wait, rt,
                   main, up, down, chunk, hVars>>

-----------------------------------------------------------------------------
(* handle_vless_over_request_stream *)

\* The session thread returns an error: its stream is dropped.
ThreadFails(s) ==
    /\ main' = [main EXCEPT ![s] = "remove"]
    /\ rx' = [rx EXCEPT ![s] = FALSE]
    /\ chan' = [chan EXCEPT ![s] = <<>>]

\* The first read: the VLESS header arrives and decodes, does not decode, or
\* the session is closed first.  On success the response header is written.
ReadHeader(s) ==
    /\ main[s] = "header"
    /\ \/ /\ chan[s] # <<>>
          /\ chan' = [chan EXCEPT ![s] = Tail(@)]
          /\ main' = [main EXCEPT ![s] = "respond"]
          /\ push' = [push EXCEPT ![s] = "check"]
          /\ chunk' = [chunk EXCEPT ![s] = 1]
          /\ UNCHANGED rx
       \/ /\ chan[s] # <<>> \/ Disconnected(s)
          /\ ThreadFails(s)
          /\ UNCHANGED <<push, chunk>>
    /\ UNCHANGED <<regVars, closed, tx, accepted, toTarget, spoilt, fresh, downVars, wait, rt,
                   up, down, hVars>>

\* What a relay makes of the body it hands on.  Raw and Vision relays pass it on
\* byte by byte; the UDP relay gives every read to a packet reader of its own, so a
\* packet that is cut by the end of a body is dropped and what the next body begins
\* with is misread: such a body arrives spoilt.
Spoils(s, udp) ==
    \/ UNCHANGED spoilt
    \/ udp /\ spoilt' = [spoilt EXCEPT ![s] = @ \cup {Len(toTarget[s]) + 1}]

\* The target is connected and gets the body that followed the header, or the
\* connection, the command check or that first write fails.
Connect(s, mode) ==
    /\ main[s] = "connect"
    /\ \/ /\ main' = [main EXCEPT ![s] =
                        [raw |-> "join", vision |-> "v_down", udp |-> "u_read"][mode]]
          /\ toTarget' = [toTarget EXCEPT ![s] = Append(@, 1)]
          /\ Spoils(s, mode = "udp")
          /\ IF mode = "raw"
             THEN /\ up' = [up EXCEPT ![s] = "run"]
                  /\ down' = [down EXCEPT ![s] = "run"]
             ELSE UNCHANGED <<up, down>>
          /\ UNCHANGED <<rx, chan>>
       \/ /\ ThreadFails(s)
          /\ UNCHANGED <<toTarget, spoilt, up, down>>
    /\ UNCHANGED <<regVars, closed, tx, accepted, fresh, downVars, wait, rt,
                   push, chunk, hVars>>

-----------------------------------------------------------------------------
(* relay_request_stream_raw *)

\* The uplink thread forwards one body, or the target refuses it.
UpForward(s) ==
    /\ up[s] = "run"
    /\ chan[s] # <<>>
    /\ \/ /\ toTarget' = [toTarget EXCEPT ![s] = Append(@, Head(chan[s]))]
          /\ chan' = [chan EXCEPT ![s] = Tail(@)]
          /\ UNCHANGED <<up, rx>>
       \/ /\ up' = [up EXCEPT ![s] = "broken"]
          /\ rx' = [rx EXCEPT ![s] = FALSE]
          /\ chan' = [chan EXCEPT ![s] = <<>>]
          /\ UNCHANGED toTarget
    /\ UNCHANGED <<regVars, closed, tx, accepted, spoilt, fresh, downVars, wait, rt,
                   main, down, push, chunk, hVars>>

\* Mutant: the reader reports end of stream as soon as the session is closed,
\* with bodies still queued.
UpEof_OnClosed(s) ==
    /\ up[s] = "run"
    /\ closed[s]
    /\ up' = [up EXCEPT ![s] = "eof"]
    /\ rx' = [rx EXCEPT ![s] = FALSE]
    /\ UNCHANGED <<regVars, closed, tx, chan, accepted, toTarget, spoilt, fresh, downVars,
                   wait, rt, main, down, push, chunk, hVars>>

\* The uplink reads end of stream and shuts the target's write side down.
UpEof(s) ==
    /\ up[s] = "run"
    /\ Disconnected(s)
    /\ up' = [up EXCEPT ![s] = "eof"]
    /\ rx' = [rx EXCEPT ![s] = FALSE]
    /\ UNCHANGED <<regVars, closed, tx, chan, accepted, toTarget, spoilt, fresh, downVars,
                   wait, rt, main, down, push, chunk, hVars>>

\* The bytes of all sessions so far (bounded by MaxDown).
Produced == Cardinality({b \in Sessions \X (1..MaxDown) : b[2] <= pushed[b[1]]})

\* The downlink thread reads k bytes from the target and calls push_outgoing.
DownRead(s, k) ==
    /\ down[s] = "run"
    /\ Produced + k <= MaxDown
    /\ down' = [down EXCEPT ![s] = "push"]
    /\ push' = [push EXCEPT ![s] = "check"]
    /\ chunk' = [chunk EXCEPT ![s] = k]
    /\ UNCHANGED <<regVars, closed, upVars, fresh, downVars, wait, rt, main, up, hVars>>

\* The target closes, fails or stays silent past its read timeout.
DownEof(s) ==
    /\ down[s] = "run"
    /\ down' = [down EXCEPT ![s] = "done"]
    /\ UNCHANGED <<regVars, closed, upVars, fresh, downVars, wait, rt,
                   main, up, push, chunk, hVars>>

\* Both threads are joined and the session is closed.
Join(s) ==
    /\ main[s] = "join"
    /\ up[s] \in {"eof", "broken"}
    /\ down[s] = "done"
    /\ main' = [main EXCEPT ![s] = "remove"]
    /\ Close({s})
    /\ UNCHANGED <<regVars, rx, chan, accepted, toTarget, spoilt, fresh, downVars, rt,
                   up, down, chunk, hVars>>

-----------------------------------------------------------------------------
(* relay_request_stream_vision and relay_request_stream_udp: one thread that *)
(* alternates between a timed read of the target and a blocking client read  *)

\* Timed read of the target: data is pushed, a timeout or an end of stream
\* hands over to the client read; an I/O error ends the thread.
LoopDown(s, k) ==
    /\ \/ /\ main[s] \in {"v_down", "u_recv"}
          /\ Produced + k <= MaxDown
          /\ main' = [main EXCEPT ![s] = IF @ = "v_down" THEN "v_push" ELSE "u_push"]
          /\ push' = [push EXCEPT ![s] = "check"]
          /\ chunk' = [chunk EXCEPT ![s] = k]
          /\ UNCHANGED <<rx, chan>>
       \/ /\ main[s] = "v_down"
          /\ main' = [main EXCEPT ![s] = "v_up_eof"]
          /\ UNCHANGED <<push, chunk, rx, chan>>
       \/ /\ main[s] \in {"v_down", "u_recv"}
          /\ main' = [main EXCEPT ![s] = IF @ = "v_down" THEN "v_up" ELSE "u_read"]
          /\ UNCHANGED <<push, chunk, rx, chan>>
       \/ /\ main[s] \in {"v_down", "u_recv"}
          /\ ThreadFails(s)
          /\ UNCHANGED <<push, chunk>>
    /\ UNCHANGED <<regVars, closed, tx, accepted, toTarget, spoilt, fresh, downVars, wait, rt,
                   up, down, hVars>>

\* Blocking client read: a body goes to the target (or that write fails).  The
\* Vision loop keeps reading until end of stream, the UDP loop turns to recv.
LoopUp(s) ==
    /\ main[s] \in {"v_up", "v_up_eof", "u_read"}
    /\ chan[s] # <<>>
    /\ \/ /\ toTarget' = [toTarget EXCEPT ![s] = Append(@, Head(chan[s]))]
          /\ chan' = [chan EXCEPT ![s] = Tail(@)]
          /\ Spoils(s, main[s] = "u_read")
          /\ main' = [main EXCEPT ![s] = IF @ = "u_read" THEN "u_recv" ELSE @]
          /\ UNCHANGED rx
       \/ /\ ThreadFails(s)
          /\ UNCHANGED <<toTarget, spoilt>>
    /\ UNCHANGED <<regVars, closed, tx, accepted, fresh, downVars, wait, rt,
                   up, down, push, chunk, hVars>>

\* The client read returns 0: the loop ends with client.close() and drops the
\* stream, except that Vision goes on while the target has not ended.
LoopEof(s) ==
    /\ Disconnected(s)
    /\ \/ /\ main[s] = "v_up"
          /\ main' = [main EXCEPT ![s] = "v_down"]
          /\ UNCHANGED <<closed, tx, rx, wait, push>>
       \/ /\ main[s] \in {"v_up_eof", "u_read"}
          /\ main' = [main EXCEPT ![s] = "remove"]
          /\ rx' = [rx EXCEPT ![s] = FALSE]
          /\ Close({s})
    /\ UNCHANGED <<regVars, chan, accepted, toTarget, spoilt, fresh, downVars, rt,
                   up, down, chunk, hVars>>

-----------------------------------------------------------------------------

HandlerStep(h) ==
    \/ LockRoundtrip(h)
    \/ CloneSender(h)
    \/ SendBody(h)
    \/ ReadOutgoing(h)
    \/ PollWake(h)
    \/ PollTimeout(h)
    \/ Reply(h)

SessionStep(s) ==
    \/ \E mode \in Modes : Connect(s, mode)
    \/ UpForward(s)
    \/ LoopUp(s)
    \/ PushCheck(s)
    \/ PushPark(s)
    \/ ReadHeader(s)
    \/ UpEof(s)
    \/ Join(s)
    \/ LoopEof(s)
    \/ Remove(s)

\* Reads of the target, which only the target's behaviour drives.
TargetStep(s) ==
    \/ \E k \in 1..MaxChunk : DownRead(s, k) \/ LoopDown(s, k)
    \/ DownEof(s)

Next ==
    \/ \E h \in Handlers, i \in Ids, body \in BOOLEAN : Acquire(h, i, body)
    \/ \E h \in Handlers : HandlerStep(h)
    \/ \E s \in Sessions : SessionStep(s) \/ TargetStep(s) \/ IdleElapsed(s)

Spec == Init /\ [][Next]_vars

-----------------------------------------------------------------------------
(* Properties *)

TypeRegistry ==
    /\ registry \in [Ids -> 0..MaxSessions]
    /\ count \in 0..MaxSessions
    /\ owner \in [Sessions -> Ids]

TypeFlags ==
    /\ closed \in [Sessions -> BOOLEAN]
    /\ tx \in [Sessions -> BOOLEAN]
    /\ rx \in [Sessions -> BOOLEAN]
    /\ fresh \in [Sessions -> BOOLEAN]

TypeStreams ==
    /\ chan \in [Sessions -> Seq(Nat)]
    /\ accepted \in [Sessions -> Nat]
    /\ toTarget \in [Sessions -> Seq(Nat)]
    /\ out \in [Sessions -> Seq(Nat)]
    /\ pushed \in [Sessions -> Nat]
    /\ replies \in [Sessions -> Seq(Nat)]
    /\ chunk \in [Sessions -> 0..MaxChunk]

TypeSpoilt == spoilt \in [Sessions -> SUBSET Nat]

TypeThreads ==
    /\ wait \in [Sessions -> SUBSET Handlers]
    /\ rt \in [Sessions -> Handlers \cup {NoOne}]
    /\ main \in [Sessions -> MainPC]
    /\ up \in [Sessions -> {"none", "run", "eof", "broken"}]
    /\ down \in [Sessions -> {"none", "run", "push", "done"}]
    /\ push \in [Sessions -> {"none", "check", "park", "parked"}]

TypeHandlers ==
    /\ hpc \in [Handlers -> HandlerPC]
    /\ hs \in [Handlers -> Sessions]
    /\ hbody \in [Handlers -> BOOLEAN]
    /\ hdata \in [Handlers -> Seq(Nat)]
    /\ posts \in Nat

\* Every variable has the shape its declaration says.
TypeOK ==
    /\ TypeRegistry /\ TypeFlags /\ TypeStreams
    /\ TypeSpoilt /\ TypeThreads /\ TypeHandlers

\* acquire and cleanup_locked: every session that is still open is the one the
\* registry holds under its id, so no id ever has two open sessions and no open
\* session is out of the reach of the idle cleanup.
NoOrphanSession ==
    \A s \in 1..count : ~closed[s] => registry[owner[s]] = s

\* Where a Vision relay is.
Vision == {"v_down", "v_push", "v_up", "v_up_eof"}

\* The header body the session thread has taken but not yet relayed.
Held(s) == IF main[s] \in {"respond", "connect"} THEN 1 ELSE 0

\* send_incoming and the relays: the target receives a prefix of the bodies the
\* session accepted, in acceptance order and without gaps or repeats, and while
\* the reader lives every accepted body is either relayed, held or queued.  Only a
\* UDP relay may spoil one (a packet cut across two bodies is dropped).
UplinkInOrder ==
    \A s \in Sessions :
        /\ toTarget[s] = Run(0, Len(toTarget[s]))
        /\ spoilt[s] \subseteq 1..Len(toTarget[s])
        /\ spoilt[s] # {} => up[s] = "none" /\ main[s] \notin Vision
        /\ rx[s] =>
            /\ chan[s] = Run(Len(toTarget[s]) + Held(s), Len(chan[s]))
            /\ accepted[s] = Len(toTarget[s]) + Held(s) + Len(chan[s])

\* The raw uplink half-closes the target only after relaying every body whose
\* POST was accepted, even if the session was closed with bodies still queued
\* or with a handler still blocked in the channel's send.
EofAfterEveryBody ==
    \A s \in Sessions : up[s] = "eof" => Len(toTarget[s]) = accepted[s]

\* The response drained by the roundtrip in progress.
InReply(s) == IF rt[s] = NoOne THEN <<>> ELSE hdata[rt[s]]

\* roundtrip_lock and drain_buffer: the responses, in the order the roundtrips
\* finish, followed by what is buffered, are the downlink bytes in order.
DownlinkInOrder ==
    \A s \in Sessions : replies[s] \o InReply(s) \o out[s] = Run(0, pushed[s])

\* push_outgoing tests before it appends a whole chunk: the buffer overshoots
\* max_buffered_response_bytes by less than one chunk.
BufferBound ==
    \A s \in Sessions : Len(out[s]) < MaxBuffered + MaxChunk

\* The thread that owns the receiver will read it: it is about to, writes to the
\* target what it read before, or is in a read of the target, which is timed, or
\* in a push that does not wait.
WillReceive(s) ==
    \/ main[s] \in {"header", "connect", "v_down", "v_up", "v_up_eof", "u_read", "u_recv"}
    \/ up[s] = "run"
    \/ main[s] \in {"respond", "v_push", "u_push"} /\ push[s] = "check"

\* A Vision or UDP relay, one thread for both directions, waits for a response to
\* be fetched.
Wedged(s) == main[s] \in {"v_push", "u_push"} /\ push[s] \in {"park", "parked"}

\* Two POSTs of a session, the channel and the threads behind it do not wait for
\* each other in a circle: the roundtrip lock is held by a request of the session
\* that is past it, and one that holds it in front of a full channel has a living
\* reader, which waits for the target at most.  The exception is Wedged: there the
\* request that holds the lock waits for the relay, the relay for the next request
\* to fetch its response, and only the expiry of the session ends it.
RoundtripAdvances ==
    /\ \A s \in Sessions :
          rt[s] # NoOne => hs[rt[s]] = s /\ hpc[rt[s]] \notin {"idle", "enter"}
    /\ \A h \in Handlers :
          hpc[h] = "sending" /\ rx[hs[h]] => WillReceive(hs[h]) \/ Wedged(hs[h])

\* A session with its threads, locks, channel and buffer implements the two
\* ordered pipes of RequestPipe.
Pipe == INSTANCE RequestPipe WITH
            taken <- accepted,
            target <- toTarget,
            ended <- [s \in Sessions |-> up[s] = "eof"],
            produced <- pushed,
            answered <- replies

ImplementsPipe == Pipe!PipeSpec

=============================================================================
