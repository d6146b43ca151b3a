------------------------------ MODULE TuicUdp ------------------------------
(***************************************************************************)
(* The UDP relay of one TUIC connection (crates/server/src/handler/        *)
(* tuic.rs): the table of associations, the reassembly of fragmented       *)
(* packets, the two tasks that serve unidirectional streams and QUIC       *)
(* datagrams side by side on a multi-threaded runtime, and the receive     *)
(* loops of every association, which carry the target's answers.           *)
(*                                                                         *)
(* The client numbers its packets per association and starts again when it *)
(* has dissociated.  Streams arrive in order; datagrams are reordered, and *)
(* lost: one that never arrives stays on its way.  A fragment's payload is *)
(* the packet it belongs to.                                               *)
(***************************************************************************)
EXTENDS Naturals, Sequences, FiniteSets

CONSTANTS
    Assocs,       \* association ids the client uses
    Loops,        \* receive loops of a session: one per socket
    IdMod,        \* packet ids are modulo IdMod (2^16 in the code)
    MaxFrags,     \* bound: fragments of a packet
    MaxPackets,   \* bound: packets the client sends
    MaxSessions,  \* bound: sessions created
    MaxReplies    \* bound: datagrams from targets

ASSUME TuicAssumption ==
    /\ Assocs # {}
    /\ {IdMod, MaxFrags, MaxSessions} \subseteq Nat \ {0}
    /\ {MaxPackets, MaxReplies} \subseteq Nat

Sessions == 1..MaxSessions
Packets == 1..MaxPackets
Tasks == {"uni", "dgram"}

VARIABLES
    sent,      \* the client's packets so far: assoc, id, total
    cnext,     \* the client's next packet id per association
    streams,   \* commands on accepted and pending unidirectional streams
    dgrams,    \* commands in datagrams on their way
    table,     \* association -> session, 0 when absent
    count,     \* sessions created so far
    assoc,     \* the association of a session
    mode,      \* TuicUdpSession.mode: the task that used it first, or "none"
    closed,    \* TuicUdpSession.closed
    loop,      \* pc of the receive loops of a session
    replies,   \* datagrams received from targets so far
    asm,       \* packet_assemblies: (association, packet id) -> assembly
    pc,        \* pc of a task
    cmd,       \* the command it serves
    cur,       \* the session it works on
    job,       \* the payload it sends: address and fragments
    toTarget,  \* what reached the target's side, in order
    gone       \* the QUIC connection has ended

cliVars  == <<sent, cnext, streams, dgrams>>
sesVars  == <<table, count, assoc>>
vars == <<cliVars, sesVars, mode, closed, loop, replies, asm, pc, cmd, cur, job, toTarget, gone>>

\* Commands: fragment i of packet p, or the end of association a.
Fragment(p, i) == [kind |-> "packet", of |-> p, index |-> i]
Dissociate(a) == [kind |-> "dissociate", of |-> a, index |-> 0]
NoCmd == [kind |-> "none", of |-> 0, index |-> 0]
NoJob == [addr |-> 0, frags |-> <<>>]

Init ==
    /\ sent = <<>> /\ cnext = [a \in Assocs |-> 0] /\ streams = <<>> /\ dgrams = {}
    /\ table = [a \in Assocs |-> 0] /\ count = 0
    /\ assoc = [s \in Sessions |-> CHOOSE a \in Assocs : TRUE]
    /\ mode = [s \in Sessions |-> "none"]
    /\ closed = [s \in Sessions |-> FALSE]
    /\ loop = [s \in Sessions |-> [l \in Loops |-> "none"]]
    /\ replies = 0
    /\ asm = [k \in {} |-> 0]
    /\ pc = [t \in Tasks |-> "idle"] /\ cmd = [t \in Tasks |-> NoCmd]
    /\ cur = [t \in Tasks |-> 0] /\ job = [t \in Tasks |-> NoJob]
    /\ toTarget = <<>>
    /\ gone = FALSE

-----------------------------------------------------------------------------
(* The client (external) *)

\* A packet of n fragments, each on a stream of its own or in a datagram.  A
\* count of zero is what a broken client sends.
ClientSends(a, n, t) ==
    LET p == Len(sent) + 1
        frags == [i \in 1..(IF n = 0 THEN 1 ELSE n) |-> Fragment(p, i - 1)] IN
    /\ ~gone
    /\ p \in Packets
    /\ sent' = Append(sent, [assoc |-> a, id |-> cnext[a], total |-> n])
    /\ cnext' = [cnext EXCEPT ![a] = (@ + 1) % IdMod]
    /\ IF t = "uni"
       THEN streams' = streams \o frags /\ UNCHANGED dgrams
       ELSE dgrams' = dgrams \cup {frags[i] : i \in DOMAIN frags} /\ UNCHANGED streams
    /\ UNCHANGED <<sesVars, mode, closed, loop, replies, asm, pc, cmd, cur, job, toTarget, gone>>

\* On a stream or in a datagram, too.
ClientDissociates(a, t) ==
    /\ ~gone
    /\ cnext[a] > 0
    /\ cnext' = [cnext EXCEPT ![a] = 0]
    /\ IF t = "uni"
       THEN streams' = Append(streams, Dissociate(a)) /\ UNCHANGED dgrams
       ELSE dgrams' = dgrams \cup {Dissociate(a)} /\ UNCHANGED streams
    /\ UNCHANGED <<sent, sesVars, mode, closed, loop, replies, asm, pc, cmd, cur,
                   job, toTarget, gone>>

\* What the endpoint has not received yet is lost.
ConnectionEnds ==
    /\ ~gone
    /\ gone' = TRUE
    /\ \E n \in 0..Len(streams) : streams' = SubSeq(streams, 1, n)
    /\ dgrams' \in SUBSET dgrams
    /\ UNCHANGED <<sent, cnext, sesVars, mode, closed, loop, replies, asm, pc, cmd, cur, job, toTarget>>

-----------------------------------------------------------------------------
(* drive_tuic_uni and drive_tuic_datagrams *)

\* What a task could read now or later.
Pending(t) == IF t = "uni" THEN {streams[i] : i \in DOMAIN streams} ELSE dgrams

\* accept_uni and read_datagram: streams in order, datagrams in any.
Arrives(t, c) ==
    IF t = "uni"
    THEN /\ streams # <<>> /\ c = Head(streams)
         /\ streams' = Tail(streams) /\ UNCHANGED dgrams
    ELSE /\ c \in dgrams
         /\ dgrams' = dgrams \ {c} /\ UNCHANGED streams

\* A command failed: the stream task logs it and goes on, the error ends the
\* datagram task (`?`).
AfterError(t) == IF t = "uni" THEN "idle" ELSE "dead"

\* Mutant: a session is created for every packet.
Lookup_AlwaysNew(a) == count + 1

\* The session of an association, created when there is none.
Lookup(a) == IF table[a] # 0 THEN table[a] ELSE count + 1

\* handle_tuic_packet, up to the release of the table's lock: the session is
\* found, or its sockets are bound, it is listed and its loops are spawned.
TakePacket(t, c) ==
    LET a == sent[c.of].assoc
        s == Lookup(a) IN
    /\ pc[t] = "idle"
    /\ Arrives(t, c)
    /\ c.kind = "packet"
    /\ s \in Sessions
    /\ \/ /\ cmd' = [cmd EXCEPT ![t] = c]
          /\ cur' = [cur EXCEPT ![t] = s]
          /\ pc' = [pc EXCEPT ![t] = "assemble"]
          /\ IF s > count
             THEN /\ count' = s
                  /\ assoc' = [assoc EXCEPT ![s] = a]
                  /\ table' = [table EXCEPT ![a] = s]
                  /\ loop' = [loop EXCEPT ![s] = [l \in Loops |-> "start"]]
             ELSE UNCHANGED <<sesVars, loop>>
       \/ /\ s > count   \* bind failed
          /\ pc' = [pc EXCEPT ![t] = AfterError(t)]
          /\ UNCHANGED <<sesVars, loop, cmd, cur>>
    /\ UNCHANGED <<sent, cnext, mode, closed, replies, asm, job, toTarget, gone>>

\* Mutant: assemblies are found by packet id alone.
Key_IdOnly(p) == <<sent[1].assoc, sent[p].id>>

Key(p) == <<sent[p].assoc, sent[p].id>>

\* TuicPacketAssembly::new; 0 stands for None.
NewAssembly(n) == [addr |-> 0, frags |-> [i \in 1..n |-> 0]]

\* TuicPacketAssembly::insert: only the first fragment carries the address, and
\* only the first address seen is kept.
Insert(x, c) ==
    [addr |-> IF x.addr = 0 /\ c.index = 0 THEN c.of ELSE x.addr,
     frags |-> [x.frags EXCEPT ![c.index + 1] = c.of]]

IsComplete(x) == \A i \in DOMAIN x.frags : x.frags[i] # 0

\* Mutant: a completed assembly is left in the map with what it held.
Without_Keeps(k, x) == [j \in DOMAIN asm \cup {k} |-> IF j = k THEN x ELSE asm[j]]

\* take_payload and remove.
Without(k, x) == [j \in DOMAIN asm \ {k} |-> asm[j]]

\* The rest of handle_tuic_packet up to the send: set_mode, the check of the
\* fragment count and, for a fragmented packet, the assembly under its lock.
Assemble(t) ==
    LET c == cmd[t]
        n == sent[c.of].total
        k == Key(c.of)
        old == IF k \in DOMAIN asm THEN asm[k] ELSE NewAssembly(n)
        new == Insert(old, c) IN
    /\ pc[t] = "assemble"
    /\ mode' = [mode EXCEPT ![cur[t]] = IF @ = "none" THEN t ELSE @]
    /\ cmd' = [cmd EXCEPT ![t] = NoCmd]
    /\ cur' = [cur EXCEPT ![t] = 0]
    /\ IF n = 0 \/ (n > 1 /\ c.index >= Len(old.frags))
       THEN /\ pc' = [pc EXCEPT ![t] = AfterError(t)]
            /\ UNCHANGED <<asm, job>>
       ELSE IF n = 1 \/ IsComplete(new)
       THEN /\ pc' = [pc EXCEPT ![t] = "send"]
            /\ job' = [job EXCEPT ![t] = IF n = 1 THEN [addr |-> c.of, frags |-> <<c.of>>] ELSE new]
            /\ asm' = IF n = 1 THEN asm ELSE Without(k, new)
       ELSE /\ pc' = [pc EXCEPT ![t] = "idle"]
            /\ asm' = [j \in DOMAIN asm \cup {k} |-> IF j = k THEN new ELSE asm[j]]
            /\ UNCHANGED job
    /\ UNCHANGED <<cliVars, sesVars, closed, loop, replies, toTarget, gone>>

\* send_payload_to_target, on the session found earlier, open or not.
Send(t) ==
    /\ pc[t] = "send"
    /\ \/ /\ job[t].addr # 0
          /\ toTarget' = Append(toTarget, job[t])
          /\ pc' = [pc EXCEPT ![t] = "idle"]
       \/ /\ pc' = [pc EXCEPT ![t] = AfterError(t)]
          /\ UNCHANGED toTarget
    /\ job' = [job EXCEPT ![t] = NoJob]
    /\ UNCHANGED <<cliVars, sesVars, mode, closed, loop, replies, asm, cmd, cur, gone>>

\* Dissociate: the session leaves the table; it is closed after the lock is
\* released.
TakeDissociate(t, c) ==
    /\ pc[t] = "idle"
    /\ Arrives(t, c)
    /\ c.kind = "dissociate"
    /\ table' = [table EXCEPT ![c.of] = 0]
    /\ IF table[c.of] # 0
       THEN cur' = [cur EXCEPT ![t] = table[c.of]] /\ pc' = [pc EXCEPT ![t] = "close"]
       ELSE UNCHANGED <<cur, pc>>
    /\ UNCHANGED <<sent, cnext, count, assoc, mode, closed, loop, replies, asm, cmd, job,
                   toTarget, gone>>

\* TuicUdpSession::close on the sessions of S: notify_waiters reaches the loops
\* that wait at that moment, and no others.
Close(S) ==
    /\ closed' = [s \in Sessions |-> closed[s] \/ s \in S]
    /\ loop' = [s \in Sessions |-> [l \in Loops |->
                  IF s \in S /\ ~closed[s] /\ loop[s][l] = "wait" THEN "woken" ELSE loop[s][l]]]

CloseSession(t) ==
    /\ pc[t] = "close"
    /\ Close({cur[t]})
    /\ pc' = [pc EXCEPT ![t] = "idle"]
    /\ cur' = [cur EXCEPT ![t] = 0]
    /\ UNCHANGED <<cliVars, sesVars, mode, replies, asm, cmd, job, toTarget, gone>>

\* The task has nothing left to read and finds the connection gone.
TaskEnds(t) ==
    /\ pc[t] = "idle" /\ gone /\ Pending(t) = {}
    /\ pc' = [pc EXCEPT ![t] = "dead"]
    /\ UNCHANGED <<cliVars, sesVars, mode, closed, loop, replies, asm, cmd, cur, job, toTarget, gone>>

\* Mutant: the table is cleared without closing its sessions.
CleanupCloses_None == {}

CleanupCloses == {table[a] : a \in Assocs} \ {0}

\* The end of handle_tuic_connection, after the tasks are joined.
Cleanup ==
    /\ gone /\ \A t \in Tasks : pc[t] = "dead"
    /\ \E a \in Assocs : table[a] # 0
    /\ Close(CleanupCloses)
    /\ table' = [a \in Assocs |-> 0]
    /\ UNCHANGED <<cliVars, count, assoc, mode, replies, asm, pc, cmd, cur, job, toTarget, gone>>

-----------------------------------------------------------------------------
(* recv_loop and recv_loop_v6 *)

\* The loop's head: notified() is created anew, recv_from is polled.
LoopWaits(s, l) ==
    /\ loop[s][l] \in {"start", "sent"}
    /\ loop' = [loop EXCEPT ![s][l] = "wait"]
    /\ UNCHANGED <<cliVars, sesVars, mode, closed, replies, asm, pc, cmd, cur, job, toTarget, gone>>

\* close_notify's branch of the select.
LoopEnds(s, l) ==
    /\ loop[s][l] = "woken"
    /\ loop' = [loop EXCEPT ![s][l] = "done"]
    /\ UNCHANGED <<cliVars, sesVars, mode, closed, replies, asm, pc, cmd, cur, job, toTarget, gone>>

\* The other branch, which the select may prefer when both are ready and which
\* then drops the notification.  A datagram from a target: send_packet_to_client
\* drops it when the session is closed; otherwise it is on its way to the
\* client.  A socket error ends the loop.
LoopReceives(s, l) ==
    /\ loop[s][l] \in {"wait", "woken"}
    /\ replies < MaxReplies
    /\ replies' = replies + 1
    /\ \/ loop' = [loop EXCEPT ![s][l] = IF closed[s] THEN "sent" ELSE "sending"]
       \/ loop' = [loop EXCEPT ![s][l] = "done"]
    /\ UNCHANGED <<cliVars, sesVars, mode, closed, asm, pc, cmd, cur, job, toTarget, gone>>

\* The rest of send_packet_to_client: a datagram that cannot be sent is
\* forgotten, a stream that cannot be opened ends the loop.
LoopSends(s, l) ==
    /\ loop[s][l] = "sending"
    /\ \/ loop' = [loop EXCEPT ![s][l] = "sent"]
       \/ mode[s] = "uni" /\ loop' = [loop EXCEPT ![s][l] = "done"]
    /\ UNCHANGED <<cliVars, sesVars, mode, closed, replies, asm, pc, cmd, cur, job, toTarget, gone>>

-----------------------------------------------------------------------------

Client ==
    \/ \E a \in Assocs, t \in Tasks :
          ClientDissociates(a, t) \/ \E n \in 0..MaxFrags : ClientSends(a, n, t)
    \/ ConnectionEnds

Takes(t) == \E c \in Pending(t) : TakePacket(t, c) \/ TakeDissociate(t, c)

TaskRuns(t) == Assemble(t) \/ Send(t) \/ CloseSession(t) \/ TaskEnds(t)

LoopRuns(s, l) == LoopWaits(s, l) \/ LoopEnds(s, l) \/ LoopSends(s, l)

Next ==
    \/ Client
    \/ \E t \in Tasks : Takes(t) \/ TaskRuns(t)
    \/ Cleanup
    \/ \E s \in Sessions, l \in Loops : LoopRuns(s, l) \/ LoopReceives(s, l)

Spec == Init /\ [][Next]_vars

\* Fairness: the runtime polls every task that can make progress, and streams
\* are reliable.  Clients and targets owe nothing, and datagrams only what the
\* endpoint holds when the connection ends.
Fairness ==
    /\ \A t \in Tasks : WF_vars(TaskRuns(t))
    /\ WF_vars(Takes("uni")) /\ WF_vars(gone /\ Takes("dgram"))
    /\ WF_vars(Cleanup)
    /\ \A s \in Sessions, l \in Loops : WF_vars(LoopRuns(s, l))

FairSpec == Spec /\ Fairness

-----------------------------------------------------------------------------
(* Properties *)

Commands == [kind : {"packet", "dissociate", "none"}, of : Packets \cup Assocs \cup {0},
             index : 0..MaxFrags]
Assembly == [addr : Packets \cup {0}, frags : UNION {[1..n -> Packets \cup {0}] : n \in 0..MaxFrags}]

TypeClient ==
    /\ sent \in Seq([assoc : Assocs, id : 0..IdMod - 1, total : 0..MaxFrags])
    /\ Len(sent) <= MaxPackets
    /\ cnext \in [Assocs -> 0..IdMod - 1]
    /\ streams \in Seq(Commands) /\ dgrams \subseteq Commands

TypeSessions ==
    /\ table \in [Assocs -> 0..MaxSessions] /\ count \in 0..MaxSessions
    /\ assoc \in [Sessions -> Assocs]
    /\ mode \in [Sessions -> Tasks \cup {"none"}] /\ closed \in [Sessions -> BOOLEAN]
    /\ loop \in [Sessions -> [Loops -> {"none", "start", "wait", "woken", "sending", "sent", "done"}]]

TypeTasks ==
    /\ pc \in [Tasks -> {"idle", "assemble", "send", "close", "dead"}]
    /\ cmd \in [Tasks -> Commands] /\ cur \in [Tasks -> 0..MaxSessions]
    /\ job \in [Tasks -> Assembly] /\ toTarget \in Seq(Assembly)
    /\ \A k \in DOMAIN asm : asm[k] \in Assembly
    /\ replies \in 0..MaxReplies /\ gone \in BOOLEAN

\* Every variable has the shape its declaration says.
TypeOK == TypeClient /\ TypeSessions /\ TypeTasks

\* handle_tuic_packet and Dissociate, in two tasks at once: an open session is
\* the one the table lists under its association, or the task that took it out
\* is about to close it.  No association has two open sessions, and none is out
\* of the reach of Dissociate and of the cleanup.
OpenIsListed ==
    \A s \in 1..count : closed[s] \/ table[assoc[s]] = s
                        \/ \E t \in Tasks : pc[t] = "close" /\ cur[t] = s

\* What the client used the same association and packet id for.
SameKey(p) ==
    {q \in 1..Len(sent) : sent[q].assoc = sent[p].assoc /\ sent[q].id = sent[p].id}

\* A payload with every fragment of packet p, in order, for p's address.
WholePacket(x, p) ==
    x.addr = p /\ x.frags = [i \in 1..sent[p].total |-> p]

\* The packets a payload and its address come from.
From(x) == {x.frags[i] : i \in DOMAIN x.frags} \cup {x.addr}

\* Reassembly in the face of loss, reordering and two tasks: what is sent to the
\* target is a packet of the client, whole and for its own address, unless the
\* client used the packet's id for another packet of the association; then it is
\* made of packets of that id only (and may be cut to the length of another).
WholeUnlessReused ==
    \A j \in DOMAIN toTarget : \E p \in 1..Len(sent) :
        \/ WholePacket(toTarget[j], p)
        \/ From(toTarget[j]) \subseteq SameKey(p) /\ SameKey(p) # {p}

\* A completed assembly leaves the map, so no fragment reaches the target
\* twice, whether or not the client uses its packet id again.
SentOnce ==
    \A j, k \in DOMAIN toTarget :
        \A i \in DOMAIN toTarget[j].frags \cap DOMAIN toTarget[k].frags :
            toTarget[j].frags[i] = toTarget[k].frags[i] => j = k

\* Both tasks end and the cleanup follows, whatever they were doing when the
\* connection ended: no session stays open.
ConnectionFreed == gone ~> \A s \in 1..count : closed[s]

\* docs/protocol-coverage.md lists "dissociate handling": the receive loops of
\* a session that was dissociated end, and free its sockets.
LoopsEnd ==
    \A s \in Sessions, l \in Loops : closed[s] ~> (loop[s][l] = "done")

=============================================================================
