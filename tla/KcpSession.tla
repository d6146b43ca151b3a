---------------------------- MODULE KcpSession ----------------------------
(***************************************************************************)
(* One mKCP session of the VLESS + KCP carrier                             *)
(* (crates/server/src/handler/kcp.rs and kcp/xray_session.rs): the         *)
(* protocol engine, driven by the UDP receive loop and by the periodic     *)
(* update loop, and the session's relay thread(s), connected to the engine *)
(* by the unbounded channel incoming and the bounded channel vless_tx.     *)
(*                                                                         *)
(* The client and the UDP network are the environment: packets are lost,   *)
(* duplicated, delayed and reordered.  Whatever the client may have said   *)
(* may arrive at any time: any uplink segment, any acknowledgement that    *)
(* knows no more than the client has received, a ping, a close bit, a      *)
(* terminate.  Segment payloads are their positions:                       *)
(* uplink segment n carries n; downlink chunk n is the n-th the relay read *)
(* from the target, chunk 0 being the VLESS response header.               *)
(*                                                                         *)
(* Time is abstracted to flags: a timer set at some event may be found     *)
(* elapsed at any later update.                                            *)
(***************************************************************************)
EXTENDS Naturals, Sequences, FiniteSets, FiniteSetsExt

CONSTANTS
    Modes,          \* relay modes a VLESS request may ask for
    RecvWindow,     \* recv_window_size, in segments
    SendBuffer,     \* send_buffer_size, in segments
    SendInflight,   \* send_inflight_size (also the initial control_window)
    StartupWindow,  \* STARTUP_REMOTE_WINDOW (32 in the code)
    ClientWindow,   \* receive window the client announces
    OutCap,         \* capacity of vless_tx (8 in the code)
    Wrap,           \* sequence numbers are modulo Wrap (2^32 in the code)
    MaxUp,          \* bound: uplink segments the client sends
    MaxDown         \* bound: downlink chunks the relay produces

ASSUME KcpAssumption ==
    /\ Modes \subseteq {"raw", "vision", "udp"}
    /\ {RecvWindow, SendBuffer, SendInflight, StartupWindow, ClientWindow, OutCap}
          \subseteq Nat \ {0}
    /\ {MaxUp, MaxDown} \subseteq Nat
    /\ Wrap \in Nat /\ 2 * (MaxUp + RecvWindow) < Wrap /\ 2 * (MaxDown + ClientWindow + StartupWindow) < Wrap

VARIABLES
    live,        \* "none" before the first packet, "live" in the table, then "gone"
    st,          \* XrayKcpSession.state
    old,         \* elapsed timers: "idle" (last_incoming), "state" (state_begin)
    appClosed,   \* app_write_closed
    recvNext,    \* recv_next_number
    recvBuf,     \* numbers in recv_packets
    ackq,        \* numbers in pending_acks
    incoming,    \* frames in the channel to the relay
    enq,         \* chunks accepted by enqueue_application_data, in order
    nextSend,    \* next_send_number: enq[nextSend + 1 ..] is pending_send_chunks
    win,         \* send_window: number -> "new", "sent", or "late" (past its timeout)
    remoteNext,  \* remote_next_number
    outq,        \* chunks in the vless_tx channel
    relay,       \* pc of the relay thread
    up,          \* pc of the raw upload thread
    held,        \* chunk the relay is trying to write (a sequence of at most one)
    produced,    \* chunks the relay has read so far
    toTarget,    \* frames written to the target
    cGot,        \* client: downlink numbers received
    flight       \* downlink numbers in the network

engVars  == <<st, old, appClosed>>
recvVars == <<recvNext, recvBuf, ackq, incoming>>
sendVars == <<enq, nextSend, win, remoteNext>>
thrVars  == <<relay, up, held, produced, toTarget>>
envVars  == <<cGot, flight>>
vars == <<live, engVars, recvVars, sendVars, outq, thrVars, envVars>>

States == {"Active", "ReadyToClose", "PeerClosed", "Terminating", "PeerTerminating",
           "Terminated"}
RelayPC == {"none", "header", "respond", "connect", "down", "push", "join",
            "v_down", "v_push", "v_up", "v_last", "u_read", "u_recv", "u_push", "done"}
SegStatus == {"new", "sent", "late"}

\* The numbers n .. n+k-1 in order.
Run(n, k) == [i \in 1..k |-> n + i - 1]

Init ==
    /\ live = "none"
    /\ st = "Active" /\ old = {} /\ appClosed = FALSE
    /\ recvNext = 0 /\ recvBuf = {} /\ ackq = {} /\ incoming = <<>>
    /\ enq = <<>> /\ nextSend = 0 /\ win = <<>> /\ remoteNext = StartupWindow
    /\ outq = <<>>
    /\ relay = "none" /\ up = "none" /\ held = <<>> /\ produced = 0 /\ toTarget = <<>>
    /\ cGot = {} /\ flight = {}

-----------------------------------------------------------------------------
(* Sequence numbers *)

\* u32::wrapping_sub.
WrappingSub(a, b) == (a + Wrap - b) % Wrap

\* seq_lt: a is before b in the half circle.
SeqLt(a, b) == a # b /\ 2 * WrappingSub(a, b) >= Wrap

FirstMissing(S) == Min((0..Cardinality(S)) \ S)

-----------------------------------------------------------------------------
(* XrayKcpSession: state changes.  set_state restarts the state timer. *)

\* mark_application_write_closed.
OnWriteClosed(s) ==
    CASE s = "Active" -> "ReadyToClose"
      [] s = "PeerClosed" -> "Terminating"
      [] s = "PeerTerminating" -> "Terminated"
      [] OTHER -> s

\* handle_option with the close bit set.
OnCloseOption(s) ==
    CASE s = "ReadyToClose" -> "Terminating"
      [] s = "Active" -> "PeerClosed"
      [] OTHER -> s

\* process_cmd_segment for cmd 2.
OnTerminate(s) ==
    CASE s \in {"Active", "PeerClosed"} -> "PeerTerminating"
      [] s = "ReadyToClose" -> "Terminating"
      [] s = "Terminating" -> "Terminated"
      [] OTHER -> s

\* The timers that are still elapsed when the state goes from a to b.
TimersAfter(T, a, b) == IF a = b THEN T ELSE T \ {"state"}

CanAccept(s) == s \in {"Active", "ReadyToClose"}

\* update_first_unacked.
FirstUnacked(w, next) == IF DOMAIN w = {} THEN next ELSE Min(DOMAIN w)

\* Mutant: the cumulative acknowledgement also drops the next expected number.
RemoveSent_OffByOne(w, next, numbers) ==
    [n \in {m \in DOMAIN w : ~SeqLt(m, next + 1) /\ m \notin numbers} |-> w[n]]

\* remove_sent_before followed by the removal of the acknowledged numbers.
RemoveSent(w, next, numbers) ==
    [n \in {m \in DOMAIN w : ~SeqLt(m, next) /\ m \notin numbers} |-> w[n]]

-----------------------------------------------------------------------------
(* run_kcp_endpoint: the receive loop feeds one segment to the session.  *)

\* The session is looked up, or created together with its relay thread.  A
\* packet for a session already removed would create a new one: not followed.
Received ==
    /\ live \in {"none", "live"}
    /\ live' = "live"
    /\ relay' = IF live = "none" THEN "header" ELSE relay
    /\ UNCHANGED <<outq, up, held, produced, toTarget, envVars>>

\* The engine state after a segment whose option has the close bit iff opt.
\* Any packet restarts the idle timer.
Option(s, opt) == IF opt THEN OnCloseOption(s) ELSE s
EnterState(s) == st' = s /\ old' = TimersAfter(old \ {"idle"}, st, s)

\* take_received: promoted frames go to the relay unless it dropped its reader.
Deliver(frames) ==
    incoming' = IF relay = "done" \/ up \in {"eof", "broken"} THEN incoming
                ELSE incoming \o frames

\* Mutant: the acknowledgement is queued before the window is tested.
RecvData_AcksFirst(n, opt) ==
    LET buf  == recvBuf \cup {n}
        k    == Min({j \in 0..Cardinality(buf) : recvNext + j \notin buf}) IN
    /\ Received
    /\ EnterState(Option(st, opt))
    /\ ackq' = ackq \cup {n}
    /\ IF WrappingSub(n, recvNext) >= RecvWindow
       THEN UNCHANGED <<recvBuf, recvNext, incoming>>
       ELSE /\ recvBuf' = {m \in buf : m >= recvNext + k}
            /\ recvNext' = recvNext + k
            /\ Deliver(Run(recvNext, k))
    /\ UNCHANGED <<appClosed, sendVars>>

\* Mutant: a segment is promoted as it arrives, in whatever order that is.
RecvData_NoReorder(n, opt) ==
    /\ Received
    /\ EnterState(Option(st, opt))
    /\ IF WrappingSub(n, recvNext) >= RecvWindow
       THEN UNCHANGED recvVars
       ELSE /\ ackq' = ackq \cup {n}
            /\ recvNext' = n + 1
            /\ Deliver(<<n>>)
            /\ UNCHANGED recvBuf
    /\ UNCHANGED <<appClosed, sendVars>>

\* process_data_segment with promote_received: a number below recv_next or
\* beyond the window is ignored (and not acknowledged).
RecvData(n, opt) ==
    LET buf  == recvBuf \cup {n}
        k    == Min({j \in 0..Cardinality(buf) : recvNext + j \notin buf}) IN
    /\ Received
    /\ EnterState(Option(st, opt))
    /\ IF WrappingSub(n, recvNext) >= RecvWindow
       THEN UNCHANGED recvVars
       ELSE /\ ackq' = ackq \cup {n}
            /\ recvBuf' = {m \in buf : m >= recvNext + k}
            /\ recvNext' = recvNext + k
            /\ Deliver(Run(recvNext, k))
    /\ UNCHANGED <<appClosed, sendVars>>

\* process_ack_segment: cumulative and selective acknowledgement, window update.
RecvAck(next, numbers, opt) ==
    /\ next <= FirstMissing(cGot)
    /\ Received
    /\ EnterState(Option(st, opt))
    /\ remoteNext' = Max({remoteNext, next + ClientWindow})
    /\ win' = RemoveSent(win, next, numbers)
    /\ UNCHANGED <<appClosed, recvVars, enq, nextSend>>

\* process_cmd_segment: a ping or a terminate; cumulative acknowledgement only.
RecvCmd(terminate, next, opt) ==
    LET s == Option(st, opt) IN
    /\ next <= FirstMissing(cGot)
    /\ Received
    /\ EnterState(IF terminate THEN OnTerminate(s) ELSE s)
    /\ win' = RemoveSent(win, next, {})
    /\ UNCHANGED <<appClosed, recvVars, enq, nextSend, remoteNext>>

-----------------------------------------------------------------------------
(* run_kcp_update_loop *)

\* Mutant: ReadyToClose has no time limit.
ChecksClose_NoLimit(s, timers, closing, drained) ==
    LET a == IF s = "Active" /\ "idle" \in timers THEN "ReadyToClose" ELSE s
        b == IF closing /\ drained /\ a = "ReadyToClose" THEN "Terminating" ELSE a
    IN  IF b = "PeerTerminating" /\ "state" \in timers THEN "Terminating" ELSE b

\* The state after the close checks at the start of flush.
ChecksClose(s, timers, closing, drained) ==
    LET a == IF s = "Active" /\ "idle" \in timers THEN "ReadyToClose" ELSE s
        b == IF closing /\ drained /\ a = "ReadyToClose" THEN "Terminating" ELSE a
        T == TimersAfter(timers, s, b)
    IN  IF b \in {"PeerTerminating", "ReadyToClose"} /\ "state" \in T
        THEN "Terminating" ELSE b

\* fill_send_window moves pending chunks into the window.
Filled(queue) ==
    LET k == Min({Len(queue) - nextSend,
                  IF Cardinality(DOMAIN win) < SendBuffer
                  THEN SendBuffer - Cardinality(DOMAIN win) ELSE 0}) IN
    [n \in DOMAIN win \cup nextSend..(nextSend + k - 1) |->
        IF n \in DOMAIN win THEN win[n] ELSE "new"]

\* The segments flush_send_window may transmit: those never sent and, as the
\* code tests it, those whose retransmission timeout has not elapsed.
Due(w) == {n \in DOMAIN w : w[n] # "late"}

\* flush_send_window: at most cwnd * 20 of them, in order.
Transmitted(w, next) ==
    LET room == WrappingSub(remoteNext, FirstUnacked(w, next))
        cwnd == Min({SendInflight, room}) IN
    {n \in Due(w) : Cardinality({m \in Due(w) : m < n}) < 20 * cwnd}

\* Drains the relay's output into the engine, notices a relay that has gone,
\* flushes, and removes a terminated session together with its channels.
Update ==
    LET queue   == IF CanAccept(st) THEN enq \o outq ELSE enq
        gone    == relay = "done"
        s1      == IF gone THEN OnWriteClosed(st) ELSE st
        T1      == TimersAfter(old, st, s1)
        closing == appClosed \/ gone \/ (s1 = "Active" /\ "idle" \in T1)
        drained == nextSend = Len(queue) /\ DOMAIN win = {}
        s2      == IF s1 = "Terminated" THEN s1 ELSE ChecksClose(s1, T1, closing, drained)
        T2      == TimersAfter(T1, s1, s2)
        s3      == IF s2 = "Terminating" /\ "state" \in T2 THEN "Terminated" ELSE s2
        w       == IF s1 = "Terminated" THEN win ELSE Filled(queue)
        next    == nextSend + Cardinality(DOMAIN w \ DOMAIN win)
        sends   == s2 \notin {"Terminating", "Terminated"}
        tx      == IF sends THEN Transmitted(w, next) ELSE {}
    IN
    /\ live = "live"
    /\ outq' = <<>>
    /\ enq' = queue
    /\ appClosed' = closing
    /\ st' = s3
    /\ old' = TimersAfter(T2, s2, s3)
    /\ nextSend' = next
    /\ win' = [n \in DOMAIN w |-> IF n \in tx THEN "sent" ELSE w[n]]
    /\ flight' = flight \cup tx
    /\ ackq' = IF sends THEN {} ELSE ackq
    /\ live' = IF s3 = "Terminated" THEN "gone" ELSE "live"
    /\ UNCHANGED <<recvNext, recvBuf, incoming, remoteNext, thrVars, cGot>>

\* A timer elapses: 30 s without a packet, the current state's limit, or the
\* retransmission timeout of a transmitted segment.
TimerElapses(t) ==
    /\ live = "live"
    /\ \/ t = "idle" /\ st = "Active"
       \/ t = "state" /\ st \in {"ReadyToClose", "PeerTerminating", "Terminating"}
    /\ t \notin old
    /\ old' = old \cup {t}
    /\ UNCHANGED <<live, st, appClosed, recvVars, sendVars, outq, thrVars, envVars>>

RtoElapses(n) ==
    /\ live = "live"
    /\ n \in DOMAIN win
    /\ win[n] = "sent"
    /\ win' = [win EXCEPT ![n] = "late"]
    /\ UNCHANGED <<live, engVars, recvVars, enq, nextSend, remoteNext, outq, thrVars, envVars>>

-----------------------------------------------------------------------------
(* handle_vless_over_kcp *)

relayRest == <<live, engVars, recvNext, recvBuf, ackq, sendVars, envVars>>

\* The relay thread ends: its reader and writer are dropped.
RelayEnds == relay' = "done" /\ held' = <<>> /\ incoming' = <<>>

\* incoming is disconnected and drained: reads return 0 from now on.
ReadsEof == live = "gone" /\ incoming = <<>>

\* try_send into vless_tx succeeds.
HasRoom == live = "live" /\ Len(outq) < OutCap

\* The first frame decodes into a request, or it does not, or the session ends.
ReadHeader ==
    /\ relay = "header"
    /\ \/ /\ incoming # <<>>
          /\ incoming' = Tail(incoming)
          /\ relay' = "respond"
          /\ held' = <<0>>
          /\ produced' = 1
       \/ /\ incoming # <<>> \/ ReadsEof
          /\ RelayEnds
          /\ UNCHANGED produced
    /\ UNCHANGED <<relayRest, outq, up, toTarget>>

\* Mutant: write_all, which gives up on WouldBlock.
WriteRetrying_Drops ==
    /\ relay \in {"respond", "push"}
    /\ live = "live"
    /\ outq' = IF HasRoom THEN outq \o held ELSE outq
    /\ held' = <<>>
    /\ relay' = IF relay = "respond" THEN "connect" ELSE "down"
    /\ UNCHANGED <<relayRest, incoming, up, produced, toTarget>>

\* A write that is retried while the channel is full: the response header and,
\* in relay_kcp_raw, every chunk.
WriteRetrying ==
    /\ relay \in {"respond", "push"}
    /\ \/ /\ HasRoom
          /\ outq' = outq \o held
          /\ held' = <<>>
          /\ relay' = IF relay = "respond" THEN "connect" ELSE "down"
          /\ UNCHANGED incoming
       \/ /\ live = "gone"
          /\ IF relay = "respond"
             THEN RelayEnds
             ELSE relay' = "join" /\ held' = <<>> /\ UNCHANGED incoming
          /\ UNCHANGED outq
    /\ UNCHANGED <<relayRest, up, produced, toTarget>>

\* The target is connected and given the rest of the first frame, or not.
Connect(mode) ==
    /\ relay = "connect"
    /\ \/ /\ relay' = [raw |-> "down", vision |-> "v_down", udp |-> "u_read"][mode]
          /\ up' = IF mode = "raw" THEN "run" ELSE up
          /\ toTarget' = <<0>>
          /\ UNCHANGED <<held, incoming>>
       \/ /\ RelayEnds
          /\ UNCHANGED <<up, toTarget>>
    /\ UNCHANGED <<relayRest, outq, produced>>

\* relay_kcp_raw, upload thread: a frame goes to the target, the target refuses
\* it, or the reader is at its end.
UpForward ==
    /\ up = "run"
    /\ incoming # <<>>
    /\ \/ /\ toTarget' = Append(toTarget, Head(incoming))
          /\ incoming' = Tail(incoming)
          /\ UNCHANGED up
       \/ /\ up' = "broken"
          /\ incoming' = <<>>
          /\ UNCHANGED toTarget
    /\ UNCHANGED <<relayRest, outq, relay, held, produced>>

UpEof ==
    /\ up = "run"
    /\ ReadsEof
    /\ up' = "eof"
    /\ UNCHANGED <<relayRest, incoming, outq, relay, held, produced, toTarget>>

\* relay_kcp_raw, download loop: a chunk is read, or the target ends.
DownRead ==
    /\ relay = "down"
    /\ \/ /\ produced < MaxDown
          /\ held' = <<produced>>
          /\ produced' = produced + 1
          /\ relay' = "push"
       \/ /\ relay' = "join"
          /\ UNCHANGED <<held, produced>>
    /\ UNCHANGED <<relayRest, incoming, outq, up, toTarget>>

\* up.join(): the writer stays alive until the upload thread has ended.
Join ==
    /\ relay = "join"
    /\ up \in {"eof", "broken"}
    /\ RelayEnds
    /\ UNCHANGED <<relayRest, outq, up, produced, toTarget>>

\* relay_kcp_vision, download half: a chunk is read and written with write_all,
\* and is lost when the channel is full.
VisionDown ==
    /\ relay = "v_down"
    /\ \/ /\ produced < MaxDown
          /\ produced' = produced + 1
          /\ \/ HasRoom /\ outq' = Append(outq, produced) /\ UNCHANGED relay
             \/ live = "live" /\ ~HasRoom /\ relay' = "v_up" /\ UNCHANGED outq
             \/ live = "gone" /\ relay' = "done" /\ UNCHANGED outq
       \/ /\ relay' \in {"v_up", "v_last", "done"}  \* timeout, end of stream, error
          /\ UNCHANGED <<produced, outq>>
    /\ incoming' = IF relay' = "done" THEN <<>> ELSE incoming
    /\ UNCHANGED <<relayRest, up, held, toTarget>>

\* relay_kcp_udp, download half: a full channel, an empty datagram or an error
\* ends the relay.
UdpDown ==
    /\ relay = "u_recv"
    /\ \/ /\ produced < MaxDown
          /\ produced' = produced + 1
          /\ \/ HasRoom /\ outq' = Append(outq, produced) /\ relay' = "u_read"
             \/ ~HasRoom /\ relay' = "done" /\ UNCHANGED outq
       \/ /\ relay' \in {"u_read", "done"}
          /\ UNCHANGED <<produced, outq>>
    /\ incoming' = IF relay' = "done" THEN <<>> ELSE incoming
    /\ UNCHANGED <<relayRest, up, held, toTarget>>

\* Upload half of the two loops: a frame is forwarded (or the write fails); with
\* nothing to read within 50 ms, or at the end, they turn to the target.
LoopUp ==
    /\ relay \in {"v_up", "v_last", "u_read"}
    /\ \/ /\ incoming # <<>>
          /\ incoming' = Tail(incoming)
          /\ toTarget' = Append(toTarget, Head(incoming))
          /\ relay' = IF relay = "u_read" THEN "u_recv" ELSE relay
       \/ /\ incoming # <<>>
          /\ incoming' = <<>>
          /\ relay' = "done"
          /\ UNCHANGED toTarget
       \/ /\ incoming = <<>>
          /\ relay' = CASE relay = "v_up" -> "v_down"
                         [] relay = "v_last" -> "done"
                         [] OTHER -> IF live = "gone" THEN "done" ELSE "u_recv"
          /\ UNCHANGED <<incoming, toTarget>>
    /\ UNCHANGED <<relayRest, outq, up, held, produced>>

-----------------------------------------------------------------------------
(* The network (external) *)

\* A downlink segment arrives; a duplicate of it may still be in the network.
Arrives(n) ==
    /\ n \in flight
    /\ cGot' = cGot \cup {n}
    /\ flight' \in {flight, flight \ {n}}
    /\ UNCHANGED <<live, engVars, recvVars, sendVars, outq, thrVars>>

Lost(n) ==
    /\ n \in flight
    /\ flight' = flight \ {n}
    /\ UNCHANGED <<live, engVars, recvVars, sendVars, outq, thrVars, cGot>>

-----------------------------------------------------------------------------

Input ==
    \E opt \in BOOLEAN :
        \/ \E n \in 0..MaxUp - 1 : RecvData(n, opt)
        \/ \E next \in 0..Cardinality(cGot) :
              \/ \E numbers \in SUBSET cGot : RecvAck(next, numbers, opt)
              \/ \E terminate \in BOOLEAN : RecvCmd(terminate, next, opt)

RelayStep ==
    \/ ReadHeader \/ WriteRetrying \/ (\E mode \in Modes : Connect(mode)) \/ Join
    \/ VisionDown \/ UdpDown \/ LoopUp

Network == \E n \in flight : Arrives(n) \/ Lost(n)

Timers ==
    \/ \E t \in {"idle", "state"} : TimerElapses(t)
    \/ \E n \in DOMAIN win : RtoElapses(n)

Next == Input \/ Update \/ Timers \/ RelayStep \/ UpForward \/ UpEof \/ DownRead \/ Network

Spec == Init /\ [][Next]_vars

\* Fairness: the update task runs every tti, threads run, a state's time limit
\* passes.  Nothing is assumed of the client, the target or the network: the steps
\* that connect or write to a TCP target, which has no write timeout, may wait for
\* ever.
Fairness ==
    /\ WF_vars(Update)
    /\ WF_vars(TimerElapses("state"))
    /\ WF_vars(relay \notin {"connect", "v_up", "v_last"} /\ RelayStep)
    /\ WF_vars(UpEof)

FairSpec == Spec /\ Fairness

\* The same over a network that loses only so often: a segment that is sent
\* again and again eventually arrives.
LossySpec == FairSpec /\ \A n \in 0..MaxDown : SF_vars(Arrives(n))

-----------------------------------------------------------------------------
(* Properties *)

TypeOK ==
    /\ live \in {"none", "live", "gone"}
    /\ st \in States /\ old \subseteq {"idle", "state"} /\ appClosed \in BOOLEAN
    /\ recvNext \in Nat /\ recvBuf \subseteq Nat /\ ackq \subseteq Nat
    /\ incoming \in Seq(Nat) /\ enq \in Seq(Nat) /\ toTarget \in Seq(Nat)
    /\ nextSend \in 0..Len(enq) /\ remoteNext \in Nat
    /\ DOMAIN win \subseteq 0..nextSend - 1 /\ Cardinality(DOMAIN win) <= SendBuffer
    /\ \A n \in DOMAIN win : win[n] \in SegStatus
    /\ outq \in Seq(Nat) /\ Len(outq) <= OutCap
    /\ relay \in RelayPC /\ up \in {"none", "run", "eof", "broken"}
    /\ held \in Seq(Nat) /\ Len(held) <= 1 /\ produced \in 0..MaxDown + 1
    /\ cGot \subseteq Nat /\ flight \subseteq Nat

ReaderAlive == relay \notin {"none", "done"} /\ up \notin {"eof", "broken"}

\* Frames the relay has taken out of the channel.
Taken == IF relay \in {"respond", "connect"} THEN <<0>> ELSE toTarget

\* recv_packets and promote_received: out of a network that loses, repeats and
\* reorders, the target gets a prefix of the client's stream, and as long as
\* somebody reads, every promoted segment is relayed or waits in the channel.
UplinkInOrder ==
    /\ toTarget = Run(0, Len(toTarget))
    /\ ReaderAlive => Taken \o incoming = Run(0, recvNext)

\* A segment the client is told to forget is delivered or kept for delivery (and
\* stays so): the engine never acknowledges what it throws away.
AckedIsKept == \A n \in ackq : n < recvNext \/ n \in recvBuf

\* The send window forgets a segment only when the client has it, however late,
\* repeated or partial the acknowledgements are.
SentUntilGot == \A n \in 0..nextSend - 1 : n \in DOMAIN win \/ n \in cGot

\* Every chunk the relay read from the target is accepted by the engine, in the
\* channel, or about to be written, in that order.
NothingDropped == CanAccept(st) => enq \o outq \o held = Run(0, produced)

\* relay_kcp_raw never drops a chunk on a full channel.
RawNothingDropped == up # "none" => NothingDropped

\* A target that takes what it is sent, or closes, lets the upload thread go on.
TargetReads == WF_vars(UpForward)

\* The session is removed, and its relay thread does not wait for its client.
Released == live = "gone" /\ relay \notin {"header", "respond", "push", "u_read"}

\* A session whose relay has ended, or that has begun to close, is removed from
\* the table whatever the client, the network, the target and the send window do,
\* and its relay thread stops waiting for the client; so does its upload thread,
\* unless it waits for a target that has stopped reading.
Closing == live = "live" /\ (relay = "done" \/ st \notin {"Active", "PeerClosed"})
SessionEnds ==
    /\ Closing ~> Released
    /\ TargetReads => (Closing ~> (Released /\ up # "run"))

\* kcp.rs calls the sessions reliable: a segment in the send window of a session
\* that stays open reaches the client.
Reliable ==
    \A n \in 0..MaxDown :
        (n \in DOMAIN win) ~> (n \in cGot \/ ~CanAccept(st))

=============================================================================
