# Verification of wrongsv

wrongsv is a multi-protocol proxy server. A connection, or a session made of
several HTTP requests or UDP packets, is authenticated, turned into a byte
stream, decoded into a request for a target and relayed. Around the server are
the programs that write its configuration, make client configurations of it
and measure it. This directory holds TLA+ models of those parts, the TLC runs
that check small instances and the TLAPS proofs that hold for every instance.

    tlc -workers 2 -config RequestTransport_safety.cfg MCRequestTransport
    tlapm RequestTransportProofs.tla

## Inventory

| component | state it keeps | operations | what makes it correct |
|---|---|---|---|
| Polling request sessions (`handler/request_transport.rs`, used by `meek.rs`, `gdocsviewer.rs`) | registry id -> session; per session a bounded channel of bodies, a response buffer with a condition variable, a closed flag, a roundtrip lock, activity time | acquire, cleanup, remove, submit_roundtrip, push_outgoing, close; session thread with raw, Vision and UDP relays | one open session per id; both directions complete and in order; end of stream after the last body; bounded buffer; requests, channel and relay do not wait for each other in a circle |
| mKCP sessions (`handler/kcp.rs`, `kcp/xray_session.rs`) | session table; per session the engine (six states, receive and send windows, acks), two channels, relay threads | receive loop, update loop, enqueue, relay raw, Vision, UDP | in-order uplink from a lossy network; nothing acknowledged and dropped; nothing forgotten before the client has it; closing sessions go away |
| Relays of every carrier (`relay.rs`, `tls_relay.rs` and the relay functions of the other handlers) | two directions, a done flag, bytes read with the header, half-read packets and frames | raw, Vision, UDP, mux | an end of stream is passed on after the last byte and ends neither direction early; the answer does not wait for the client; the relay returns |
| Connection handlers (`vless.rs`, `tls.rs`, `anytls.rs`, `reality.rs`, `shadowtls.rs`, `trojan_handler.rs`, `vmess_handler.rs`, `snell.rs`, `mixed.rs`, `shadowsocks.rs`, ...) | bytes read so far, what has been proved, what has been answered | read, decode, authenticate, count, dial, answer, fall back | nobody is served unproved; no byte is lost on the way to the relay or the fallback; how the bytes are cut does not matter; silence ends |
| AnyTLS sessions (`anytls/src/session.rs`, `stream.rs`) | stream table, partial frames, write queue, stream threads | SYN, PSH, FIN, waste, settings, drain | a stream gets its own bytes in order; ids are not confused; every thread ends with the session |
| TUIC UDP (`tuic.rs`) | association table, sessions with receive loops, fragment assemblies | packet, dissociate, receive, cleanup | a packet is delivered once and only from its own fragments; no session is out of reach; sockets are freed |
| Configuration (`server/src/config.rs`, `src/main_config.rs`, `src/client_config`, `src/import_config.rs`) | a file on disk | generate, validate, serve, export, adapt | what is generated is served; what is accepted is served whole; the tools read a file as the server does |
| Server lifecycle, WireGuard helper (`handler/mod.rs`, `wireguard.rs`) | shutdown signal, helper process, file with its keys | start, accept, stop | told to stop, it stops and leaves nothing behind |
| Evaluator (`evaluator-server`, `evaluator-client`) | list of protocols, results, control channel | select, test, measure, summarise | a result is about the protocol it names; a verdict is earned; both programs end |
| Shadowsocks and Hysteria2 UDP, XHTTP reordering, Vision padding, Mux.Cool, codecs | packet windows, caches, parsers | | not modelled, see below |

How they interact: the accept loop of `handler/mod.rs` hands a connection to
the handler that the configuration selects; the handler authenticates it and
yields a stream; a relay function moves bytes between the stream and the target.
The polling and mKCP carriers put a session object between the two, AnyTLS a
session with a thread per stream, TUIC a table of associations. The same
configuration file is read by the server, by the export and by the import into
wrongcl, each with code of its own.

What is hard: threads and tasks that share locks, channels and flags; ends of
stream, resets and timeouts of two peers in any order; bytes that arrive in any
pieces; ids that are used again; packets lost, repeated and reordered; and four
programs that must read one file in one way. `PROJECT.json` lists every
component with its status, and under `hazards` the places in the code that a test
would hardly reach, each with the properties that cover it or the reason why none
does.

## Modules

| module | models |
|---|---|
| `RequestTransport` | polling sessions: registry, HTTP handlers, session threads |
| `RequestPipe` | what a polling session promises: two ordered pipes |
| `MCRequestTransport` | handler symmetry for the safety run |
| `RequestTransportProofs` | the theorems about `RequestTransport`, and that it implements `RequestPipe` |
| `KcpSession`, `KcpSessionProofs` | one mKCP session, its relay and the network; its theorems |
| `TuicUdp`, `MCTuicUdp`, `TuicUdpProofs` | the UDP relay of one TUIC connection, its symmetry, its theorems |
| `RelayKinds` | the relay functions of the server, each a record of what it does |
| `Relay`, `RelayProofs` | what the records mean: one connection between two peers; its theorems |
| `AdmissionSteps` | the connection handlers, each a sequence of steps |
| `Admission`, `AdmissionProofs` | what the steps mean: one connection from its first byte; its theorems |
| `AnyTlsSession`, `AnyTlsProofs` | one sing-anytls session with its streams; its theorems |
| `ServerConfig` | configuration files: which are accepted, what is served |
| `MainConfig` | generate-main-config |
| `ClientExport` | the endpoint model and the client configurations of four formats |
| `WrongclImport` | the import into wrongcl |
| `ConfigFlow`, `ConfigFlowProofs` | composes the four: programs that write and read one file, and the server's life; its theorems |
| `Connectors` | eval-client's connectors and the server's side of the same handshakes |
| `Evaluation`, `EvaluationProofs` | composes `ServerConfig` and `Connectors`: eval-server and eval-client; its theorems |

### RequestTransport

Processes: HTTP handlers (`hpc`), the session thread of every session (`main`)
and, for a raw relay, its uplink and downlink threads (`up`, `down`). Sessions
are numbered in creation order; `registry` maps an id to the session it holds.
A behaviour of a handler is Acquire (cleanup_locked and the lease or creation),
LockRoundtrip, CloneSender and SendBody (the two halves of send_incoming: the
sender is cloned under one lock and used after it is released, so a session may
close in between), ReadOutgoing or PollWake or PollTimeout (read_outgoing),
Reply. The session thread is ReadHeader, PushCheck/PushPark (push_outgoing),
Connect, then the relay of the mode the request asked for, then Remove.

What the model keeps and what it abstracts:

- A body is one unit with the number under which the channel took it, a
  downlink byte has the number under which push_outgoing appended it. Order,
  loss and repetition are visible, contents are not. The first body carries the
  VLESS header; what follows the header is delivered by Connect.
- relay_request_stream_udp looks for packets in each body on its own. A body that
  ends, or begins, inside a packet arrives `spoilt` (Spoils): the packet is dropped.
  UplinkInOrder is about the order in which bodies reach the target, and says that only
  UDP relays spoil any.
- The outgoing mutex. Every critical section is one step except one:
  push_outgoing tests the buffer, then waits. Condvar::wait releases the mutex
  only when the thread is already waiting, but `close()` notifies *without* the
  mutex, so the wake-up may fall between the test and the wait. That is the pc
  `park`: the mutex is held, NotifyAll passes it by.
- `close()` is one step (swap the flag, touch, take the sender, notify). No
  code reads the flag and the sender together, so the intermediate states are
  those of a slower handler: a CloneSender before the step, or a KeepsPolling
  test that is followed by the notification.
- Creating a session and spawning its thread is one step: the thread starts by
  blocking on the empty channel.
- `last_activity` is `fresh`; IdleElapsed may clear it at any time while the
  registry holds the session, which covers every timing of expiry and touch.
- Meek passes a poll wait of zero, Google Docs Viewer a positive one:
  `Transport`. A body limit, the HTTP parsing and the AES-GCM envelope decide
  only which id and body reach Acquire. Metrics are left out.

### KcpSession

The engine (`XrayKcpSession`) is driven by Received inputs and by Update, the
body of the update loop for one session: drain vless_tx into the engine, notice
that the relay has gone, flush (close checks, fill_send_window,
flush_send_window, acks) and remove the session when terminated. The relay is
handle_vless_over_kcp with relay_kcp_raw (two threads), relay_kcp_vision and
relay_kcp_udp (one). The client is not modelled as an algorithm: anything it may
have said may arrive at any time, in any order and repeatedly, as long as an
acknowledgement knows no more than the client has received (`cGot`). Time is a
set of elapsed timers; each may be found elapsed at any later update. Sequence
numbers are compared modulo `Wrap` as the code compares them. Not followed: the
packet masks, RTT estimation (it only moves the retransmission timeout, which
may elapse at any time anyway), the task that passes packets to the socket
(delay), and a late packet that creates the session anew.

### TuicUdp

Two tasks serve the commands of a connection side by side: `uni` takes streams
in order, `dgram` takes datagrams in any order, and what is never taken is lost.
A packet is TakePacket (the lookup or creation under the table's lock, which the
code holds across both binds), Assemble (set_mode, the checks and the assembly
under its lock) and Send (to the session found first, open or not). Dissociate
is TakeDissociate (removal under the lock) and CloseSession, with anything in
between. An error is logged by the stream task and ends the datagram task.
Cleanup follows when both have ended. A receive loop creates its notified()
future at the head of each turn (LoopWaits); Close reaches those that have one,
and the select may still prefer a socket that is ready (LoopReceives). A
fragment's payload is the number of its packet, so that mixed, repeated and
misaddressed payloads are visible. The client, which numbers packets per
association and starts again after a dissociation, and QUIC are external.

### RelayKinds and Relay

The server has some forty relay functions that differ in small ways: two threads
or one polling loop, whether a read of the client blocks, who is shown an end of
stream when a direction ends, whether a timeout ends a direction, whether a done
flag or an error stops the other one, what happens to the bytes that came with
the header. `RelayKinds` has a record of those traits for each function, named as
in the code; a function that behaves differently over another carrier has a record
for each (the WebSocket relays over the bare socket and over TLS, the packetaddr
relay over a socket with a read timeout, a bare WebSocket and ShadowTLS); `Relay` has one set of actions that reads them, so that a property
is about all the functions and its exceptions are traits, not names. A read takes
any part of what has arrived. A relay that carries UDP in length-prefixed packets
has units of half a packet: "perRead" relays look for packets in each read on its
own and lose the one a read ends in. Three traits are about bytes in between:
"cuts" and "misreads", a timeout inside a frame drops what was read of it and the next
bytes are taken for a frame (WebSocket frames over TLS, VMess chunks), and "holds",
plaintext that came with the handshake stays in the TLS connection while the relay
waits for its socket (relay_reality, relay_anytls_raw, relay_anytls_vision). A chunk is
read and written in one step, which a peer that does not read may put off for ever. The end of the relay function closes both
sockets and is seen by both peers.

### AdmissionSteps and Admission

A handler is the sequence of its reads, checks, answers, its dial and its relay;
each step says what its failure does (close, answer with an error, pass the
connection to the fallback destination with the bytes held so far, in which
form). Whether a hello, a password, a header or a credential is good is an input:
the cryptography is not modelled. `Admission` runs one handler against a client
whose messages arrive in pieces, who may go silent or close, and whose request
lacks at most one merit (or one and the fallback destination). A read has a timeout
only if the code lets it end the read: the readers of the HTTP upgrade and of VMess
start again at WouldBlock. `seen` is what the
relay or the fallback is given: from which unit, up to which, in which form.

### AnyTlsSession

The reader loop reads a header, then a body, with a poll of 100 ms; a poll that
ends inside a frame loses what it has read (TimeoutInside), after which any frame
may be read. SYN, PSH and FIN change the stream table, frames queued by the
threads are written between reads (drain_write_jobs), and applying an outgoing FIN
drops the handle under that id, whoever holds it now. A stream thread reads the
opening, a SOCKS address by its lengths or a VLESS request, connects, writes what came
with the opening, and relays.
The client is *careful* with an id if it uses it again only after the FIN it was
sent has arrived; the properties that need that say so. A chunk is the number of its stream and its place
in it; SYN and FIN frames carry the number of their stream as well, which no action of
the server reads. Abstracted: contents of
settings, the padding scheme, the answer to a heart request. The histories `asked`
and `got` are dropped after a reset and once the reader has lost its place, where
nothing is claimed any more.

### Configuration modules

A file is the set of its sections, with what is remarkable about each one (a
fallback destination, TLS, a bad key, a path without its slash, UDP switched off),
about its users, and the default flow. `ServerConfig!new` is load and validation,
`Served` the branch the server then runs. The generator expands its list item by item
(ExpandItem), then its ComponentSet is followed token by token (Add), up to the file
that is truncated and then written. `Written` is the set of files somebody may have
written by hand; all that is assumed of it is that its files have known sections. The export and
the import are functions of the file; `Fits` states what a client needs to use the
server that runs from it. In `ConfigFlow` the tools may run at any time, so also on
a file that the generator has truncated and not yet written, and the server may
have loaded an earlier one. A client has `verify`, whether it checks the
certificate: no export format does, the import into wrongcl does unless the file's TLS
table says insecure, and only Meek, Google Docs and Naive have it switched off.
`Trusted` is the remark that a section names a certificate clients trust; without one
the server signs its own. What wrongcl verifies of QUIC, WebTransport, Hysteria2, TUIC
and ShadowTLS is not in the plan and not modelled. Abstracted: texts and field values,
and mKCP seeds.

### Connectors and Evaluation

A connector and the server's side of it are sequences of messages, each with its
direction, its kind, the path, password or flow it carries and the layers around
it. They agree if each is the mirror of the other (`Understood`); a connector that is
not understood gets no connection and loses every packet. `Evaluation` has the control
dialogue of the two programs, a message per line, over the server's list; the
client's measurement, whose upload and download share a tunnel with room for one
chunk in each direction; targets that may not start, losses, uploads that fail, and a
client that may die at any point. What waits for the proxy (Answered) may wait for ever;
`Limited` are the connectors that have a limit of their own on every wait. The protocols of the stacks or clusters are merged at their first
places, an empty list of stacks or "all" standing for all of them (`Merged`, for the two loops of the code that test `contains` before they push);
the names of the stacks are a set, as nothing but the report depends on their order.
Results have no name on the way to the server, so their agreement is a matter of places:
`Place(j)` is the place among the results of the protocol at place j of the list. Times
and bandwidth figures are left out.

## Runs

| run | checks | result |
|---|---|---|
| `request_safety` | NoOrphanSession, UplinkInOrder, EofAfterEveryBody, DownlinkInOrder, BufferBound, RoundtripAdvances, refinement ImplementsPipe | hold |
| `kcp_session` | UplinkInOrder, AckedIsKept, SentUntilGot, RawNothingDropped, SessionEnds under FairSpec | hold |
| `kcp_reliable` | Reliable under LossySpec | violated: finding |
| `tuic_udp` | OpenIsListed, WholeUnlessReused, SentOnce | hold |
| `tuic_live` | ConnectionFreed under FairSpec | holds |
| `tuic_loops` | LoopsEnd under FairSpec | violated: finding |
| `relay` | AnswerIsWhole, RequestArrives, DownlinkArrives, RelayReturns under FairSpec | hold |
| `admission` | OnlyAdmitted, BodyIsPassed, FallbackIsWhole, SplitIsHarmless, Settles under FairSpec | hold |
| `anytls_session` | StreamsDoNotMix, LiveKeepsHandle, ThreadsEnd, Answered under FairSpec | hold |
| `config` | GeneratedIsServed, AcceptedIsServed, ToolsAgree, ExportConnects, AdaptedConnects, HelperIsGone, RefusedBeforeWriting, ShutdownStops under FairSpec | hold |
| `evaluation` | EvaluatedIsServed, VerdictIsEarned, EvaluationEnds under FairSpec | hold |
| `evaluation_matrix` | ZeroLossLocally | violated: finding |

Where a property holds for most of the code and not for some of it, it names the
exception as a trait, so that the run shows both that the others have it and which
do not:

- *Relays.* AnswerIsWhole is about relays whose downlink survives the client's end
  of stream (HalfCloses); those over a WebSocket are not among them: the raw relay
  stops there, the Vision relay echoes a Close at once and fails at a bare end. RequestArrives excepts the UDP
  relays that look for packets in each read, relay_vision, which does not pass on the
  body that came with the header, and requests that a TLS connection holds at their end. DownlinkArrives excepts the loops that read the client with a blocking
  recv(), so that an answer waits for the client's next body, and, for the end of the
  answer, thread pairs that do not shut the client down (relay_vision shuts down the
  target instead). AnswerIsWhole and RequestArrives make no claim after a reset, an
  idle timeout, a torn frame or a client that has stopped reading. RelayReturns
  excepts relays that ignore the client's end. Neither it nor DownlinkArrives claims
  anything of a relay whose peer does not read what is written to it.
- *Polling sessions.* RoundtripAdvances names the Vision or UDP relay that waits for its
  response to be fetched (Wedged), by a request that waits behind the one the relay
  keeps: only the expiry of the session ends that circle.
- *mKCP.* SessionEnds has a closing session leave the table whatever the target does,
  and its uplink thread end if the target reads.
- *Handlers.* FallbackIsWhole excepts REALITY and AnyTLS (SpiderHandlers, and the
  handlers behind the AnyTLS password), whose fallback is given part of the stream or two forms of it;
  SplitIsHarmless is about protocols that frame their own request, as the VLESS
  carriers expect the header in one read; only handlers with a socket timeout under
  every read (TimedHandlers) drop a silent client: VMess, which retries its timeouts,
  is not one.
- *AnyTLS.* Nothing is claimed once the reader has lost its place, about ids used
  again carelessly, or, in Answered, about streams that fail: an unreachable target is
  logged and the client is told nothing. ThreadsEnd is about targets that read, Answered
  about clients that do.
- *Configuration.* AcceptedIsServed names the pairs of sections that validation lets
  through although one hides the other, ToolsAgree the cases in which server, export
  and import differ, Lossy what a client format cannot say or gets wrong,
  GeneratedIsServed the key that does not fit a method written in other letters.
  AdaptedConnects says that the client wrongcl makes can use the server exactly if the
  server's certificate is not its own (SelfSigned), paths without a slash apart: with
  the defaults of tls, trojan and the TLS of WebSocket, HTTPUpgrade, gRPC and XHTTP
  it verifies, and refuses.
- *Evaluator.* EvaluatedIsServed leaves the Strangers, kcp and shadowtls, open; they are
  what `evaluation_matrix` is about. EvaluationEnds has both programs end if the proxy
  answers, and otherwise unless the client hangs in a connector that is not Limited
  (docs/evaluator.md:120 reports webtransport as hung). VerdictIsEarned excepts stacks
  with protocols that were not on the list or not started.

Bounds. In the request run two handlers are enough for every pairwise race on a session
(lock, channel, buffer); two session generations of one id are what a late `remove` or a
cleanup in another client's acquire needs; a channel of one body and a buffer limit of
one byte with chunks of up to two make "full", "overshoot" and "drained in several
responses" all happen; two bodies and three downlink bytes are shared by the two
sessions (1.3 million states). The mKCP runs have a receive window of two with three
uplink segments (a segment inside, at the edge of and beyond the window), a send buffer
of one or two segments and an output channel of one chunk. Wrap is far above the numbers
used: wrap-around of the sequence numbers is an open hazard, not something these runs
settle. The TUIC safety run has two associations and two packets of up to three
fragments, enough to mix fragments across associations and across two uses of an id,
also when the second use finds an assembly that expects fewer fragments than it has, and
leaves the receive loops out (Loops is empty): they do not touch what it checks. The
other two have one association, one loop per session and unfragmented packets; there a
packet never finds the bound on sessions in its way. `relay` has every relay function,
four units up (two packets or frames, cut anywhere) and two down. `admission` has 26
handlers, messages in two pieces and one unit of body: a message may come whole, cut, or
with what follows it. `anytls_session` has two ids, two streams (two at once, or one id
twice), four frames of which one is on the wire, and one answer per target. `config` has
every file with one or two sections (`Written` is `Files`) and every list of up to two
presets or components, a million states. `evaluation` and `evaluation_matrix` have the
six calls of SomeCalls (all seventeen protocols; stacks, known and unknown; a client
with clusters of its own; names that mean nothing; a wrong token) and up to two
protocols with a loss or without targets; `evaluation_matrix` has no flaws, a run in
which nothing is lost. Deadlock is not reported: clients and targets may go quiet for
ever, and the bounds end behaviours.

Fairness. It is given to steps that the code takes by itself, once the scheduler runs
the thread: nothing is owed by clients, targets or users, and a step that relays bytes to
a peer has none, because a write to a target has no timeout and one to a client seldom
has. Where a property needs a peer to take what is written to it, that is a premise of
the property, by name. Only the few bytes a handler answers with before its relay, in
`Admission`, are taken to fit the socket's buffer.
`KcpSession!Fairness`: the update task runs every tti, the current state's time limit
passes, threads run, but connects and writes to the target need not return (premise
TargetReads of SessionEnds). `LossySpec` adds that a segment sent infinitely often
arrives. `TuicUdp!Fairness`: the runtime polls every task that can go on, streams
arrive, and datagrams that the endpoint holds when the connection ends are read.
`Relay!FairSpec`: each thread or the loop runs, and the short read timeouts return; idle
timeouts that end a direction need not come, nor the end of a write (premises
TargetReads and ClientReads of DownlinkArrives and RelayReturns).
`Admission!FairSpec`: the handler's thread runs, a read returns what has arrived, a
socket timeout fires where the reader does not start again. `AnyTlsSession!FairSpec`: the
reader polls, the reads and connects of a stream's thread return or time out (premises
TargetsRead of ThreadsEnd, ClientReads of Answered). `ConfigFlow!FairSpec`: the loops
test the shutdown signal every 200 ms and the start of the helper is given three seconds.
`Evaluation!FairSpec`: both programs go on with their own work, the time of the upload
passes, and a connector in Limited gives up (premise ProxyAnswers of the first part of
EvaluationEnds).

No liveness is claimed of the polling sessions. A target that stops reading keeps the
raw relay's uplink thread in its write, the channel fills, and a POST holds the roundtrip
lock for as long; and with Vision or UDP one thread is in a target read or a client read
in turn. What the code does guarantee, that nobody waits for a reader that has gone or in
a circle, is the invariant RoundtripAdvances.

## Proofs

`RequestTransportProofs` proves, from `RequestTransportAssumption` alone (at
least one id, positive limits, no bound on any of them), for every number of
ids, handlers, sessions, bodies and bytes:

| theorem | statement |
|---|---|
| `TypeCorrect` | Spec => []TypeOK |
| `NoOrphan` | Spec => []NoOrphanSession |
| `UplinkOrder` | Spec => []UplinkInOrder |
| `EofLast` | Spec => []EofAfterEveryBody |
| `DownlinkOrder` | Spec => []DownlinkInOrder |
| `BufferBounded` | Spec => []BufferBound |
| `NoCircle` | Spec => []RoundtripAdvances |

None of the properties is inductive. The argument goes through one inductive
invariant, built in layers, each preserved by every action given the ones before:

- TypeOK with ControlInv: which thread a push belongs to (the session thread
  only at a pushing pc, the downlink thread only while the session thread waits
  in the join), that the raw threads exist only then, and that nothing runs for
  a session that has not been created. Without it a push could return to a pc
  that is not its caller's and not even TypeOK would be preserved.
- RegistryInv: the registry holds, under an id, only sessions created under it,
  and the open ones are held. `remove(id)` closes whatever the map holds, which
  is harmless to the invariant exactly because it drops and closes together.
- UplinkInv: at every pc of the reader, how far the relayed, held, queued and
  accepted bodies have come; that an end of stream is read only with an empty
  channel and no sender left, clones in handlers included; and that no body is
  accepted afterwards.
- Lock: a handler past LockRoundtrip holds the lock of its session, so the
  drained response of a session is the lock holder's; no other handler holds
  any data.
- ReaderInv: while the receiver lives, the thread that owns it is at a pc from which it
  reads again, or pushes, and the response header finds an empty buffer, so that its push
  does not wait; with Lock it gives RoundtripAdvances.
- DownlinkInv and the bound: replies, the response in progress and the buffer
  concatenate to what was pushed.

Sequences are handled with a few lemmas on `Run` (append, concatenation, head
and tail, sub-sequence), the condition variable with lemmas on NotifyAll.

The same module proves `Refinement`, Spec => ImplementsPipe. The mapping keeps
per session what was accepted, delivered, produced and answered; SendBody is Take,
a relay write is Deliver, the raw relay's half-close is End, PushCheck is
Produce and Reply is Answer, everything else a stutter. That a delivered body is
the next one is UplinkInv, that an answer is the next stretch of the downlink is
DownlinkInv together with Lock. One fact is added to the invariant, ResponseBound:
no response is longer than max_response_bytes.

`KcpSessionProofs` proves, from `KcpAssumption` (positive windows, and fewer numbers
than half of Wrap), for every size of the windows, the channels and the streams:

| theorem | statement |
|---|---|
| `TypeCorrect` | Spec => []TypeOK |
| `UplinkStaysInOrder` | Spec => []UplinkInOrder |
| `AckedStaysKept` | Spec => []AckedIsKept |
| `WindowRemembers` | Spec => []SentUntilGot |
| `RawDropsNothing` | Spec => []RawNothingDropped |

The inductive invariant has the position of every frame between the engine and the
target (UpInv: what the relay has taken, TakenLen, and what waits in the channel
add up to recvNext), of every chunk between the relay and the engine (ChunkInv, and
OrderInv in the modes that retry a full channel), the threads that exist in each
mode (without which OrderInv would have to be claimed for Vision, where it is
false), and that only assigned numbers travel (WinInv, so that a cumulative
acknowledgement, which is compared modulo Wrap, can forget only what the client
has). Promotion of buffered segments is a lemma about the first number missing from
a finite set; that the numbers fit half of Wrap makes the modular comparison the
comparison of numbers.

`TuicUdpProofs` proves, from `TuicAssumption`, for any associations, sessions, packets
and fragments:

| theorem | statement |
|---|---|
| `AssociationsListed` | Spec => []OpenIsListed |
| `FragmentsSentOnce` | Spec => []SentOnce |
| `PacketsStayWhole` | Spec => []WholeUnlessReused |

OpenIsListed needs to know that no association points beyond the sessions
created so far (so that a new one is new) and that every pending command names a
packet that was sent or an association; those are TableInv and ClientInv. The
cleanup step is where the disjunct "about to be closed" must be empty: all tasks
have ended, so no closer is left. The other two rest on OnePlace: a fragment is in at
most one of a stream, a datagram, a task, an assembly, a payload to be sent and the
target, and on PayloadInv: an assembly, and what comes of it, has only fragments of
packets with its key, each in its own position, and the address of one of them. The
proof found that an earlier form of WholeUnlessReused, which said that what reaches the
target always has the length of one packet and one fragment per position of it, is
false with three fragments: a packet whose id was used before, by a shorter packet
that lost a fragment, completes the old assembly and is cut to its length. The
property now says so, and the run has three fragments.

`RelayProofs` proves, from `RelayAssumption` (the relays are functions of RelayKinds,
any lengths):

| theorem | statement |
|---|---|
| `TypeCorrect` | Spec => []TypeOK |
| `AnswersAreWhole` | Spec => []AnswerIsWhole |
| `RequestsArrive` | Spec => []RequestArrives |

The argument does not go through the functions one by one. Sound states the traits
it rests on: a function whose downlink may outlive its uplink does not tell the
client of the uplink's end, the writes of a thread do not fail because of an end of
stream, and only packet relays share a done flag. FunctionsAreSound checks them for
each of the records, so a new relay function is covered once it is sound. The
invariant adds to the properties, with their exceptions for torn frames and held
plaintext, what they say about a direction that has ended but
has not told its peer yet (EofInv, TellInv), and the place the uplink has reached.

`AnyTlsProofs` proves, from `AnyTlsAssumption`, for any number of ids, streams, frames
and chunks:

| theorem | statement |
|---|---|
| `StreamsStayApart` | Spec => []StreamsDoNotMix |
| `LiveStreamsKeepHandles` | Spec => []LiveKeepsHandle |

The invariant is about what is on its way in both directions while the reader has its
place. Coming is the frame whose header has been read, followed by the wire; WireOK
says that the SYN frames in it are those of the client's streams the server has not
created, in order, and that a frame with a name comes behind the SYN of its stream
and before the next SYN of the same id, so that the handle found under the id is the
stream the client meant. Follows and Given say that the chunks a target has, those in
the stream's queue and those still to come are one run. In the other direction Log is
what the client has received and what the threads have queued: FIN last, SYNACK first,
the answer in order. MarkOK ties a second use of an id to the place in Log at which the
client had received the FIN of the first, which is what a careful client waits for; it
makes LiveKeepsHandle inductive, because a FIN that is still queued is then never
older than the live stream of its id. HandleInv and OwnedInv hold after the reader has
lost its place too.

`AdmissionProofs` proves, from `AdmissionAssumption` (any of the handlers, messages of
any positive length, any body):

| theorem | statement |
|---|---|
| `TypeCorrect` | Spec => []TypeOK |
| `NobodyUnproved` | Spec => []OnlyAdmitted |
| `BodiesArePassed` | Spec => []BodyIsPassed |
| `FallbacksAreWhole` | Spec => []FallbackIsWhole |
| `SplitsAreHarmless` | Spec => []SplitIsHarmless |

As in `RelayProofs`, the dynamics are separated from the programs. Sound names what a
handler must be: it ends with its relay and nowhere before; every check of a handshake,
a password and a user comes before the first step that counts, dials or relays datagrams
(Vouched); its relay step passes the rest of the last read on, or its reads take no more
than their message (Passing); where it falls back it does so with the bytes as they
came, or with the plaintext of the second message, and keeps what it reads (Handing).
HandlersAreSound establishes it for every handler, from lemmas on openings and services
put one behind the other, so that a handler made of known parts needs only those.
The invariant of a connection is then about one place in one sequence of steps:
ReadInv (every message before the place has been read, an exact reader has taken no
more, and a keeping one holds all of it), PassedInv (the request has what the checks
before the place ask for) and ServedInv (what was counted, dialled or relayed was so by
a step at or before the place).

`ConfigFlowProofs` proves, from `ConfigAssumption` (the files on disk have known
sections), for files with any number of sections and lists of any length and content:

| theorem | statement |
|---|---|
| `HelpersEnd` | Spec => []HelperIsGone |
| `NothingIsHidden` | Spec => []AcceptedIsServed |
| `GeneratedServes` | Spec => []GeneratedIsServed |
| `RefusedUnwritten` | Spec => RefusedBeforeWriting |
| `ToolsSeeTheServer` | Spec => []ToolsAgree |
| `ExportsConnect` | Spec => []ExportConnects |
| `AdaptationsConnect` | Spec => []AdaptedConnects |

For the generator the inductive invariant (GeneratorInv) relates the ComponentSet to the
tokens it stands for: Describes says that each part of the set is the one element the
tokens added so far have of that part, or none. AddToken shows that a token keeps this or
clashes with the ones before it, whichever came first, which makes the verdict
independent of the order; CompleteIsCooperative that the checks on the complete set
accept exactly the cooperative lists; RenderedIsValid and RenderedIsServed what the
rendered file then is. For the server, Beside shows which two sections an accepted file
may have at once, and ListenerServes and ServedIs that the dispatch finds a section of
the file if there is one, in the order of its three lists. Chain (an order behind another
is looked at if the first has nothing) and Finds then give what the export and the import
find, whose orders differ from the server's: the three can only disagree where a file has
two sections, and Beside leaves few of those. ServerInv ties the WireGuard
process to the configuration that was loaded: a listener that fails leaves no process
behind because a file that serves WireGuard never gets to the TCP listener. The proofs
led to a change of form in these modules: alternatives that the code tests one after the other, and
that can hold together, are written with IF, since TLA+'s CASE may take either.

The two theorems on clients compare three readings of one section: what the server parses
of it, what the endpoint model of the export says of it, and what the import makes of it.
Main shows what an accepted file can have beside the section that is served, so that no
other section has a say in the fields of a client. Each reading is then a table of fields
(VlessListens and OtherListens for the server; VlessEndpoint, OtherEndpoint and
ExperimentalEndpoint for the endpoint; VlessExported, AnyTlsExported and OtherExported
for the four formats), and ExportFits and AdaptFits compare the tables: that a client fits
unless the file is Lossy, and that a Lossy one does not; for wrongcl the certificate is
one more column of the tables, and SelfSigned the case in which it does not fit. ToolInv is the inductive part:
what a tool has left behind is the function of the file it read, although the file, and
the one the server runs from, may have changed since.

`EvaluationProofs` proves, from `EvaluationAssumption` (calls with lists of any length and
any names, any room in the tunnel, any number of flaws):

| theorem | statement |
|---|---|
| `TypeCorrect` | Spec => []TypeOK |
| `VerdictEarned` | Spec => []VerdictIsEarned |
| `EvaluatedServed` | Spec => []EvaluatedIsServed |

VerdictIsEarned is about the last state of the client and compares what the client
measured with what the server was told, so it is inductive only together with the whole
dialogue. Talk lists, for each pair of places the two programs can be at, the messages
that can be on their way; it makes no claim about a client that has failed, which leaves
the server to work on by itself. Sent is the part of it that remains true then. Book says
up to which place of the list the client has measured and the server has noted, Past
being the place, which moves when the loss is measured and again when the result is
taken. Lists has the place in the list and that what was passed over is before it, Early
that nothing has happened before a list is chosen, Shown that a verdict is the one the
server computes at its end. With nothing passed over Place(j) is j, and the names and the
losses are paired as they were measured. TypeCorrect adds Types, what is true of the
channel once a client has gone. That Merged gives a list, whatever it merges, is shown
without induction over sequences: FlattenedUpTo takes the least place up to which the
recursion of FlattenSeq has no solution (the library's well-founded minimum) and
contradicts it.

EvaluatedIsServed needs of the dynamics only that a protocol under test is a known one.
The rest is about dialogues: Agree is kept by wrapping both sides in a layer
(AgreeInside) and by putting one exchange behind another (AgreeThen), so that each
protocol is put together from the exchanges it consists of, AgreeTls, AgreeVless and the
one of its carrier. Of kcp and shadowtls only the server's part is claimed. OneServes gives the server's part: a file with one
section is accepted and serves it.

Only model-checked. Every invariant and every action property that a passing run checks
is also a theorem; what remains with TLC is liveness under fairness, which the prover does
not have (and ENABLED with it): SessionEnds, ConnectionFreed,
DownlinkArrives, RelayReturns, Settles, ThreadsEnd, Answered, ShutdownStops and
EvaluationEnds. Nor can the induction theorems of the library be used, since they take an
operator as a parameter: none of the modules that are proved about has a RECURSIVE
operator, recursion is written with functions and folds, and where a proof needs
induction on a sequence it takes a least counterexample, or an invariant carries the
claim step by step as the program goes through the sequence.

## Findings

1. The mKCP retransmission test is inverted: a segment past its timeout is
   skipped for ever (`kcp_reliable`).
2. A TUIC receive loop that is busy while its session is closed misses the
   notification and keeps its sockets for ever (`tuic_loops`).
3. docs/evaluator.md:99 reports all seventeen protocols at 0 % loss, and :142 PASS for
   tier4 with ShadowTLS (`evaluation_matrix`). The connectors of kcp and shadowtls do not
   speak what the server speaks: the kcp connector has an FNV header and plain KCP packets
   where the server expects an AES-GCM mask and Xray segments, and the shadowtls connector
   answers a challenge inside TLS where the server looks for an HMAC in the hello. The
   first gives up after its polls, the second is passed to the handshake backend.

Met while modelling, and stated as exceptions of properties rather than as runs
of their own:

- The loss test counts reads of 64 bytes and does not look at them, so the Vision
  padding of an echo through REALITY goes unnoticed.
- A Vision relay over a polling session waits in a blocking client read that the
  code expects to time out: the downlink stands still until the client posts.
- The Vision relay over mKCP loses a chunk when the output channel is full, which
  the comment in the raw relay warns of (RawNothingDropped is stated for raw).
- The channel from the mKCP engine to the relay is not limited by the receive
  window.
- A client adapted for wrongcl verifies the certificate that the server, unless it is
  given one, signs itself.
- A WebSocket relay over TLS that meets its read timeout inside a frame takes the rest of
  the frame for the next one.
- A body that arrives together with the last handshake message of REALITY or AnyTLS waits
  in the TLS connection for the client's next record, and is lost if there is none.

## Not modelled

- Ciphers, TLS, QUIC, h2 and the codecs of requests and frames: stateless, or
  libraries. Their verdicts are inputs of Admission.
- Vision padding and unpadding inside a read, Mux.Cool and WebSocket frames, the
  XHTTP upload queue: byte-level parsing behind a relay that is modelled.
- The Shadowsocks UDP window and salt cache, and the UDP sessions of Hysteria2:
  their reassembly is close to the one of TUIC; they are listed as open hazards.
- Wrap-around of mKCP sequence numbers, several mKCP sessions in one table, and a
  late packet that creates a session anew.
- The metrics listener, the Ctrl-C handler, the Go helper of WireGuard and the echo
  stubs of the experimental protocols.

## Plan

Nothing that is stated as an invariant or an action property is left unproved. Open are
the hazards without a property: the Shadowsocks packet window and the Vision reader, which
need modules at the level of bits and bytes, and Hysteria2's reassembly, whose completed
assemblies stay in the map. A module of its own for each, in the manner of `TuicUdp`,
would be the next step.
