--------------------------- MODULE TuicUdpProofs ---------------------------
(***************************************************************************)
(* The UDP relay of a TUIC connection, whatever the number of associations,*)
(* sessions, packets and fragments: every open session is listed or about  *)
(* to be closed, no fragment reaches the target twice, and what reaches it *)
(* is whole unless the client used a packet id again.                      *)
(***************************************************************************)
EXTENDS TuicUdp, SequenceTheorems, TLAPS

\* The commands a client sends.
Sendable == [kind : {"packet", "dissociate"}, of : Nat \cup Assocs, index : Nat]

\* A command that makes sense when n packets have been sent.
Sound(c, n) ==
    /\ c.kind = "packet" => c.of \in 1..n
    /\ c.kind = "dissociate" => c.of \in Assocs

\* The client's side: what waits on streams and in datagrams is sound.
ClientInv ==
    /\ sent \in Seq([assoc : Assocs, id : 0..IdMod - 1, total : 0..MaxFrags])
    /\ cnext \in [Assocs -> 0..IdMod - 1]
    /\ streams \in Seq(Sendable)
    /\ \A i \in 1..Len(streams) : Sound(streams[i], Len(sent))
    /\ \A c \in dgrams : Sound(c, Len(sent))

\* The session side: what Lookup relies on.
TableInv ==
    /\ table \in [Assocs -> 0..MaxSessions]
    /\ count \in 0..MaxSessions
    /\ assoc \in [Sessions -> Assocs]
    /\ closed \in [Sessions -> BOOLEAN]
    /\ pc \in [Tasks -> {"idle", "assemble", "send", "close", "dead"}]
    /\ cur \in [Tasks -> 0..MaxSessions]
    /\ \A a \in Assocs : table[a] <= count

\* The inductive invariant.
IInv == ClientInv /\ TableInv /\ OpenIsListed

-----------------------------------------------------------------------------
(* The initial state and the client's side *)

\* The constants, one by one.
LEMMA ConstantFacts ==
    /\ MaxSessions \in Nat \ {0} /\ IdMod \in Nat \ {0} /\ MaxFrags \in Nat \ {0}
    /\ MaxPackets \in Nat
BY TuicAssumption

\* A new connection has nothing waiting and no session.
LEMMA InitInv == Init => IInv
<1> SUFFICES ASSUME Init PROVE IInv OBVIOUS
<1> USE ConstantFacts, TuicAssumption
<1>1. ClientInv BY DEF Init, ClientInv
<1>2. TableInv BY DEF Init, TableInv, Sessions, Tasks
<1>3. OpenIsListed BY DEF Init, OpenIsListed
<1> QED BY <1>1, <1>2, <1>3 DEF IInv

\* A packet is appended to the client's record and its fragments are sound.
LEMMA SendsSound ==
    ASSUME IInv, NEW a \in Assocs, NEW n \in 0..MaxFrags, NEW t \in Tasks, ClientSends(a, n, t)
    PROVE  ClientInv'
<1> USE ConstantFacts
<1> DEFINE p == Len(sent) + 1
           m == IF n = 0 THEN 1 ELSE n
           frags == [i \in 1..m |-> Fragment(p, i - 1)]
<1>1. /\ sent \in Seq([assoc : Assocs, id : 0..IdMod - 1, total : 0..MaxFrags])
      /\ cnext \in [Assocs -> 0..IdMod - 1]
      /\ streams \in Seq(Sendable)
      /\ \A i \in 1..Len(streams) : Sound(streams[i], Len(sent))
      /\ \A c \in dgrams : Sound(c, Len(sent))
  BY DEF IInv, ClientInv
<1>2. /\ sent' = Append(sent, [assoc |-> a, id |-> cnext[a], total |-> n])
      /\ cnext' = [cnext EXCEPT ![a] = (@ + 1) % IdMod]
      /\ \/ streams' = streams \o frags /\ UNCHANGED dgrams
         \/ dgrams' = dgrams \cup {frags[i] : i \in DOMAIN frags} /\ UNCHANGED streams
  BY DEF ClientSends
<1>3. sent' \in Seq([assoc : Assocs, id : 0..IdMod - 1, total : 0..MaxFrags])
      /\ Len(sent') = p /\ Len(sent) \in Nat
  BY <1>1, <1>2
<1>4. cnext' \in [Assocs -> 0..IdMod - 1]
  <2>1. cnext[a] \in Nat BY <1>1
  <2>2. (cnext[a] + 1) % IdMod \in 0..IdMod - 1 BY <2>1
  <2> QED BY <1>1, <1>2, <2>2
<1>5. ASSUME NEW c, Sound(c, Len(sent)) PROVE Sound(c, Len(sent'))
  BY <1>3, <1>5 DEF Sound
<1>6. m \in Nat /\ frags \in Seq(Sendable) /\ Len(frags) = m
      /\ \A i \in 1..m : Sound(frags[i], Len(sent'))
  <2>1. m \in Nat \ {0} OBVIOUS
  <2>2. ASSUME NEW i \in 1..m PROVE frags[i] \in Sendable /\ Sound(frags[i], Len(sent'))
    <3>1. frags[i] = [kind |-> "packet", of |-> p, index |-> i - 1] BY <2>1 DEF Fragment
    <3>2. i - 1 \in Nat /\ p \in 1..Len(sent') BY <1>3, <2>1
    <3> QED BY <3>1, <3>2 DEF Sound, Sendable
  <2> HIDE DEF m
  <2>3. frags \in [1..m -> Sendable] BY <2>2
  <2> QED BY <2>1, <2>2, <2>3
<1> HIDE DEF m, frags, p
<1>7. CASE streams' = streams \o frags /\ UNCHANGED dgrams
  <2>1. frags \in Seq(Sendable) /\ Len(frags) = m /\ m \in Nat BY <1>6
  <2>2. streams' \in Seq(Sendable) BY <1>1, <1>7, <2>1
  <2>3. ASSUME NEW i \in 1..Len(streams') PROVE Sound(streams'[i], Len(sent'))
    <3>1. CASE i \in 1..Len(streams)
      <4>1. streams'[i] = streams[i] BY <1>1, <1>7, <2>1, <3>1
      <4> QED BY <1>1, <1>5, <3>1, <4>1
    <3>2. CASE i \notin 1..Len(streams)
      <4>1. i - Len(streams) \in 1..m /\ streams'[i] = frags[i - Len(streams)]
        BY <1>1, <1>7, <2>1, <2>3, <3>2
      <4> QED BY <1>6, <4>1
    <3> QED BY <3>1, <3>2
  <2>4. \A c \in dgrams' : Sound(c, Len(sent')) BY <1>1, <1>5, <1>7
  <2> QED BY <1>3, <1>4, <2>2, <2>3, <2>4 DEF ClientInv, Sound
<1>8. CASE dgrams' = dgrams \cup {frags[i] : i \in DOMAIN frags} /\ UNCHANGED streams
  <2>1. \A c \in dgrams' : Sound(c, Len(sent'))
    <3>1. DOMAIN frags = 1..m BY <1>6
    <3> QED BY <1>1, <1>5, <1>6, <1>8, <3>1
  <2>2. \A i \in 1..Len(streams') : Sound(streams'[i], Len(sent')) BY <1>1, <1>5, <1>8
  <2> QED BY <1>1, <1>3, <1>4, <1>8, <2>1, <2>2 DEF ClientInv, Sound
<1> QED BY <1>2, <1>7, <1>8

\* A dissociation is sound.
LEMMA DissociatesSound ==
    ASSUME IInv, NEW a \in Assocs, NEW t \in Tasks, ClientDissociates(a, t)
    PROVE  ClientInv'
<1> USE ConstantFacts
<1> USE DEF IInv, ClientInv
<1>1. Dissociate(a) \in Sendable /\ Sound(Dissociate(a), Len(sent))
  BY DEF Dissociate, Sound, Sendable
<1>2. sent' = sent /\ cnext' = [cnext EXCEPT ![a] = 0]
  BY DEF ClientDissociates
<1>3. CASE streams' = Append(streams, Dissociate(a)) /\ UNCHANGED dgrams
  <2>1. streams' \in Seq(Sendable) BY <1>1, <1>3
  <2>2. \A i \in 1..Len(streams') : Sound(streams'[i], Len(sent')) BY <1>1, <1>2, <1>3
  <2> QED BY <1>2, <1>3, <2>1, <2>2
<1>4. CASE dgrams' = dgrams \cup {Dissociate(a)} /\ UNCHANGED streams
  BY <1>1, <1>2, <1>4
<1> QED BY <1>3, <1>4 DEF ClientDissociates

\* What is left when the connection ends was there before.
LEMMA EndsSound ==
    ASSUME IInv, ConnectionEnds
    PROVE  ClientInv'
<1> USE DEF IInv, ClientInv
<1>1. PICK n \in 0..Len(streams) : streams' = SubSeq(streams, 1, n)
  BY DEF ConnectionEnds
<1>2. sent' = sent /\ cnext' = cnext /\ dgrams' \subseteq dgrams BY DEF ConnectionEnds
<1>3. streams' \in Seq(Sendable) /\ Len(streams') = n /\ \A i \in 1..n : streams'[i] = streams[i]
  BY <1>1
<1>4. \A i \in 1..Len(streams') : Sound(streams'[i], Len(sent'))
  <2>1. n \in Nat /\ \A i \in 1..n : i \in 1..Len(streams) BY <1>1
  <2> QED BY <1>2, <1>3, <2>1
<1> QED BY <1>2, <1>3, <1>4

\* A command taken from the streams or the datagrams is sound, and so is what
\* stays.
LEMMA TakenSound ==
    ASSUME IInv, NEW t \in Tasks, NEW c, Arrives(t, c), UNCHANGED <<sent, cnext>>
    PROVE  Sound(c, Len(sent)) /\ ClientInv'
<1> USE DEF IInv, ClientInv
<1>1. CASE t = "uni"
  <2>1. streams # <<>> /\ c = Head(streams) /\ streams' = Tail(streams) /\ UNCHANGED dgrams
    BY <1>1 DEF Arrives
  <2>2. c = streams[1] /\ 1 \in 1..Len(streams) BY <2>1
  <2>3. streams' \in Seq(Sendable)
        /\ \A i \in 1..Len(streams') : i + 1 \in 1..Len(streams) /\ streams'[i] = streams[i + 1]
    BY <2>1
  <2> QED BY <2>1, <2>2, <2>3 DEF Sound
<1>2. CASE t = "dgram"
  BY <1>2 DEF Arrives, Sound
<1> QED BY <1>1, <1>2 DEF Tasks

-----------------------------------------------------------------------------
(* The session side *)

\* The elements of a sequence.
LEMMA ElementOf ==
    ASSUME NEW S, NEW q \in Seq(S), NEW i \in 1..Len(q)
    PROVE  q[i] \in S
OBVIOUS

\* A task that looks a session up creates one only when none is listed.
LEMMA TakePacketListed ==
    ASSUME IInv, NEW t \in Tasks, NEW c, TakePacket(t, c)
    PROVE  IInv'
<1> USE ConstantFacts
<1> DEFINE a == sent[c.of].assoc
           s == Lookup(a)
<1>1. Sound(c, Len(sent)) /\ ClientInv' BY TakenSound DEF TakePacket
<1>2. a \in Assocs
  <2>1. c.of \in 1..Len(sent) BY <1>1 DEF TakePacket, Sound
  <2>2. sent \in Seq([assoc : Assocs, id : 0..IdMod - 1, total : 0..MaxFrags])
    BY DEF IInv, ClientInv
  <2>3. sent[c.of] \in [assoc : Assocs, id : 0..IdMod - 1, total : 0..MaxFrags]
    BY <2>1, <2>2, ElementOf, Zenon
  <2> QED BY <2>3
<1>3. /\ table \in [Assocs -> 0..MaxSessions] /\ count \in 0..MaxSessions
      /\ \A b \in Assocs : table[b] <= count
  BY DEF IInv, TableInv
<1>4. s \in Sessions /\ (s > count => table[a] = 0 /\ s = count + 1)
  BY <1>2, <1>3 DEF TakePacket, Lookup
<1> HIDE DEF s, a
<1>5. pc[t] = "idle" /\ pc' \in [Tasks -> {"idle", "assemble", "send", "close", "dead"}]
      /\ \A u \in Tasks \ {t} : pc'[u] = pc[u] /\ cur'[u] = cur[u]
  BY DEF IInv, TableInv, TakePacket, AfterError, Tasks
<1>6. CASE s > count /\ count' = s /\ assoc' = [assoc EXCEPT ![s] = a]
           /\ table' = [table EXCEPT ![a] = s] /\ cur' = [cur EXCEPT ![t] = s]
  <2>1. closed' = closed BY DEF TakePacket
  <2>2. TableInv' BY <1>2, <1>3, <1>4, <1>5, <1>6, <2>1 DEF IInv, TableInv, Sessions
  <2>3. ASSUME NEW r \in 1..count', ~closed'[r]
        PROVE table'[assoc'[r]] = r \/ \E u \in Tasks : pc'[u] = "close" /\ cur'[u] = r
    <3>1. CASE r = s BY <1>2, <1>4, <1>6, <3>1 DEF IInv, TableInv, Sessions
    <3>2. CASE r # s
      <4>1. r \in 1..count /\ r \in Sessions BY <1>3, <1>4, <1>6, <3>2 DEF Sessions
      <4>2. assoc'[r] = assoc[r] /\ assoc[r] \in Assocs
        BY <1>6, <3>2, <4>1 DEF IInv, TableInv
      <4>3. table[assoc[r]] = r \/ \E u \in Tasks : pc[u] = "close" /\ cur[u] = r
        BY <2>1, <2>3, <4>1 DEF IInv, OpenIsListed
      <4>4. CASE table[assoc[r]] = r
        <5>1. assoc[r] # a BY <1>4, <1>6, <4>1, <4>4
        <5> QED BY <1>3, <1>6, <4>2, <4>4, <5>1
      <4>5. CASE \E u \in Tasks : pc[u] = "close" /\ cur[u] = r BY <1>5, <4>5
      <4> QED BY <4>3, <4>4, <4>5
    <3> QED BY <3>1, <3>2
  <2> QED BY <1>1, <2>2, <2>3 DEF IInv, OpenIsListed
<1>7. CASE UNCHANGED sesVars /\ (cur' = [cur EXCEPT ![t] = s] \/ cur' = cur)
  <2>1. closed' = closed BY DEF TakePacket
  <2>2. TableInv' BY <1>4, <1>5, <1>7, <2>1 DEF IInv, TableInv, Sessions, sesVars
  <2>3. OpenIsListed' BY <1>5, <1>7, <2>1 DEF IInv, OpenIsListed, sesVars
  <2> QED BY <1>1, <2>2, <2>3 DEF IInv
<1> QED BY <1>6, <1>7 DEF TakePacket, s, a

\* A dissociation takes a session out of the table and makes the task its
\* closer.
LEMMA TakeDissociateListed ==
    ASSUME IInv, NEW t \in Tasks, NEW c, TakeDissociate(t, c)
    PROVE  IInv'
<1> USE ConstantFacts
<1>1. Sound(c, Len(sent)) /\ ClientInv' BY TakenSound DEF TakeDissociate
<1>2. c.of \in Assocs BY <1>1 DEF TakeDissociate, Sound
<1>3. /\ pc[t] = "idle" /\ table' = [table EXCEPT ![c.of] = 0]
      /\ UNCHANGED <<count, assoc, closed>>
      /\ \A u \in Tasks \ {t} : pc'[u] = pc[u] /\ cur'[u] = cur[u]
      /\ table[c.of] # 0 => pc'[t] = "close" /\ cur'[t] = table[c.of]
  BY DEF IInv, TableInv, TakeDissociate
<1>4. TableInv' BY <1>2, <1>3 DEF IInv, TableInv, TakeDissociate
<1>5. ASSUME NEW r \in 1..count', ~closed'[r]
      PROVE table'[assoc'[r]] = r \/ \E u \in Tasks : pc'[u] = "close" /\ cur'[u] = r
  <2>1. r \in 1..count /\ r \in Sessions /\ assoc[r] \in Assocs
    BY <1>3 DEF IInv, TableInv, Sessions
  <2>2. table[assoc[r]] = r \/ \E u \in Tasks : pc[u] = "close" /\ cur[u] = r
    BY <1>3, <1>5, <2>1 DEF IInv, OpenIsListed
  <2>3. CASE table[assoc[r]] = r
    <3>1. CASE assoc[r] = c.of BY <1>3, <2>1, <2>3, <3>1
    <3>2. CASE assoc[r] # c.of BY <1>3, <2>1, <2>3, <3>2 DEF IInv, TableInv
    <3> QED BY <3>1, <3>2
  <2>4. CASE \E u \in Tasks : pc[u] = "close" /\ cur[u] = r BY <1>3, <2>4
  <2> QED BY <2>2, <2>3, <2>4
<1> QED BY <1>1, <1>4, <1>5 DEF IInv, OpenIsListed

\* A task that is not a closer stays off the sessions.
LEMMA TaskRunsListed ==
    ASSUME IInv, NEW t \in Tasks, Assemble(t) \/ Send(t) \/ TaskEnds(t)
    PROVE  IInv'
<1>1. UNCHANGED <<sent, cnext, streams, dgrams, table, count, assoc, closed>>
  BY DEF Assemble, Send, TaskEnds, cliVars, sesVars
<1>2. pc[t] # "close" /\ \A u \in Tasks \ {t} : pc'[u] = pc[u] /\ cur'[u] = cur[u]
  BY DEF Assemble, Send, TaskEnds, IInv, TableInv
<1>3. pc' \in [Tasks -> {"idle", "assemble", "send", "close", "dead"}]
  BY DEF Assemble, Send, TaskEnds, AfterError, IInv, TableInv
<1>4. cur' \in [Tasks -> 0..MaxSessions]
  <2>1. cur' = cur \/ cur' = [cur EXCEPT ![t] = 0] BY DEF Assemble, Send, TaskEnds
  <2> QED BY ConstantFacts, <2>1 DEF IInv, TableInv
<1>5. ClientInv' BY <1>1 DEF IInv, ClientInv, Sound
<1>6. TableInv' BY <1>1, <1>3, <1>4 DEF IInv, TableInv
<1>7. OpenIsListed' BY <1>1, <1>2 DEF IInv, OpenIsListed
<1> QED BY <1>5, <1>6, <1>7 DEF IInv

\* The closer closes the session it is the closer of.
LEMMA CloseListed ==
    ASSUME IInv, NEW t \in Tasks, CloseSession(t)
    PROVE  IInv'
<1> USE ConstantFacts
<1>1. UNCHANGED <<sent, cnext, streams, dgrams, table, count, assoc>>
  BY DEF CloseSession, cliVars, sesVars
<1>2. closed' = [s \in Sessions |-> closed[s] \/ s \in {cur[t]}]
      /\ \A u \in Tasks \ {t} : pc'[u] = pc[u] /\ cur'[u] = cur[u]
  BY DEF CloseSession, Close, IInv, TableInv
<1>3. ClientInv' BY <1>1 DEF IInv, ClientInv, Sound
<1>4. TableInv' BY <1>1, <1>2 DEF IInv, TableInv, CloseSession
<1>5. \A r \in 1..count : r \in Sessions BY DEF IInv, TableInv, Sessions
<1>6. ASSUME NEW r \in 1..count, ~closed'[r]
      PROVE table[assoc[r]] = r \/ \E u \in Tasks : pc'[u] = "close" /\ cur'[u] = r
  <2>1. ~closed[r] /\ r # cur[t] BY <1>2, <1>5, <1>6
  <2>2. table[assoc[r]] = r \/ \E u \in Tasks : pc[u] = "close" /\ cur[u] = r
    BY <2>1 DEF IInv, OpenIsListed
  <2> QED BY <1>2, <2>1, <2>2
<1>7. OpenIsListed' BY <1>1, <1>6 DEF OpenIsListed
<1> QED BY <1>3, <1>4, <1>7 DEF IInv

\* When the cleanup runs there is no closer left: it closes all that is open.
LEMMA CleanupListed ==
    ASSUME IInv, Cleanup
    PROVE  IInv'
<1> USE ConstantFacts
<1>1. UNCHANGED <<sent, cnext, streams, dgrams, count, assoc, pc, cur>>
      /\ table' = [a \in Assocs |-> 0] /\ \A t \in Tasks : pc[t] = "dead"
  BY DEF Cleanup, cliVars
<1>2. closed' = [s \in Sessions |-> closed[s] \/ s \in CleanupCloses]
  BY DEF Cleanup, Close
<1>3. ClientInv' BY <1>1 DEF IInv, ClientInv, Sound
<1>4. TableInv' BY <1>1, <1>2 DEF IInv, TableInv
<1>5. ASSUME NEW r \in 1..count PROVE closed'[r]
  <2>1. r \in Sessions /\ assoc[r] \in Assocs /\ r # 0 BY DEF IInv, TableInv, Sessions
  <2>2. closed[r] \/ table[assoc[r]] = r BY <1>1 DEF IInv, OpenIsListed
  <2>3. closed[r] \/ r \in CleanupCloses BY <2>1, <2>2 DEF CleanupCloses
  <2> QED BY <1>2, <2>1, <2>3
<1>6. OpenIsListed' BY <1>1, <1>5 DEF OpenIsListed
<1> QED BY <1>3, <1>4, <1>6 DEF IInv

\* What leaves the sessions, the tasks and the pending commands alone.
LEMMA OtherListed ==
    ASSUME IInv, UNCHANGED <<cliVars, sesVars, closed, pc, cur>>
    PROVE  IInv'
BY DEF IInv, ClientInv, TableInv, OpenIsListed, Sound, cliVars, sesVars

\* Every step keeps the invariant.
LEMMA NextInv == IInv /\ [Next]_vars => IInv'
<1> SUFFICES ASSUME IInv, [Next]_vars PROVE IInv' OBVIOUS
<1>1. ASSUME UNCHANGED <<sesVars, closed, pc, cur>>, ClientInv' PROVE IInv'
  BY <1>1 DEF IInv, TableInv, OpenIsListed, sesVars
<1>2. ASSUME NEW a \in Assocs, NEW n \in 0..MaxFrags, NEW t \in Tasks, ClientSends(a, n, t)
      PROVE IInv'
  BY <1>1, <1>2, SendsSound DEF ClientSends
<1>3. ASSUME NEW a \in Assocs, NEW t \in Tasks, ClientDissociates(a, t) PROVE IInv'
  BY <1>1, <1>3, DissociatesSound DEF ClientDissociates
<1>4. CASE ConnectionEnds BY <1>1, <1>4, EndsSound DEF ConnectionEnds
<1>5. ASSUME NEW t \in Tasks, NEW c, TakePacket(t, c) PROVE IInv' BY <1>5, TakePacketListed
<1>6. ASSUME NEW t \in Tasks, NEW c, TakeDissociate(t, c) PROVE IInv'
  BY <1>6, TakeDissociateListed
<1>7. ASSUME NEW t \in Tasks, TaskRuns(t) PROVE IInv'
  BY <1>7, TaskRunsListed, CloseListed DEF TaskRuns
<1>8. CASE Cleanup BY <1>8, CleanupListed
<1>9. ASSUME NEW s \in Sessions, NEW l \in Loops, LoopRuns(s, l) \/ LoopReceives(s, l)
      PROVE IInv'
  BY <1>9, OtherListed DEF LoopRuns, LoopWaits, LoopEnds, LoopSends, LoopReceives
<1>10. CASE UNCHANGED vars BY <1>10, OtherListed DEF vars
<1> QED BY <1>2, <1>3, <1>4, <1>5, <1>6, <1>7, <1>8, <1>9, <1>10 DEF Next, Client, Takes

\* For every number of associations, sessions, packets and fragments, with both
\* tasks serving commands side by side (handle_tuic_packet, Dissociate, the
\* cleanup of handle_tuic_connection): an open session is listed under its
\* association, or the task that took it out of the table is about to close it.
THEOREM AssociationsListed == Spec => []OpenIsListed
<1>1. IInv => OpenIsListed BY DEF IInv
<1> QED BY InitInv, NextInv, <1>1, PTL DEF Spec

-----------------------------------------------------------------------------
(* Reassembly.  S stands for the packets sent so far. *)

\* The fragments a packet is sent in.
Size(n) == IF n = 0 THEN 1 ELSE n

\* A fragment of a packet that was sent, with one of its indices.
Fit(S, c) == c.kind = "packet" =>
    c.of \in 1..Len(S) /\ c.index \in Nat /\ c.index < Size(S[c.of].total)

KeyIn(S, q) == <<S[q].assoc, S[q].id>>

Assembled == [addr : Nat, frags : Seq(Nat)]

\* An assembly as long as packet q, filled with packets of q's key.
Payload(S, x, q) ==
    /\ x \in Assembled /\ Len(x.frags) = S[q].total /\ S[q].total > 0
    /\ \A i \in 1..Len(x.frags) : x.frags[i] # 0 =>
          x.frags[i] \in 1..Len(S) /\ KeyIn(S, x.frags[i]) = KeyIn(S, q)
    /\ x.addr # 0 => x.addr \in 1..Len(S) /\ KeyIn(S, x.addr) = KeyIn(S, q)

\* What is on its way to an assembly.
CommandInv ==
    /\ cmd = [t \in Tasks |-> cmd[t]]
    /\ \A n \in 1..Len(streams) : Fit(sent, streams[n])
    /\ \A c \in dgrams : Fit(sent, c)
    /\ \A t \in Tasks : pc[t] = "assemble" => cmd[t].kind = "packet" /\ Fit(sent, cmd[t])

\* What has been put together.
PayloadInv ==
    /\ job = [t \in Tasks |-> job[t]]
    /\ toTarget \in Seq(Assembled)
    /\ \A k \in DOMAIN asm : \E q \in 1..Len(sent) :
          KeyIn(sent, q) = k /\ Payload(sent, asm[k], q)
    /\ \A t \in Tasks : pc[t] = "send" =>
          \E q \in 1..Len(sent) : Payload(sent, job[t], q) /\ IsComplete(job[t])
    /\ \A j \in 1..Len(toTarget) :
          /\ toTarget[j].addr # 0
          /\ \E q \in 1..Len(sent) : Payload(sent, toTarget[j], q) /\ IsComplete(toTarget[j])

\* Where fragment i of packet p is: in the n-th command on the streams, in a
\* datagram, with a task that serves it, in an assembly, in a payload about to be
\* sent or in one that was sent.
Is(c, p, i) == c.kind = "packet" /\ c.of = p /\ c.index = i
In(x, p, i) == i + 1 \in DOMAIN x.frags /\ x.frags[i + 1] = p
Holds(place, x, p, i) ==
    \/ place = "stream" /\ x \in 1..Len(streams) /\ Is(streams[x], p, i)
    \/ place = "dgram" /\ x \in dgrams /\ Is(x, p, i)
    \/ place = "cmd" /\ x \in Tasks /\ pc[x] = "assemble" /\ Is(cmd[x], p, i)
    \/ place = "asm" /\ x \in DOMAIN asm /\ In(asm[x], p, i)
    \/ place = "job" /\ x \in Tasks /\ pc[x] = "send" /\ In(job[x], p, i)
    \/ place = "target" /\ x \in 1..Len(toTarget) /\ In(toTarget[x], p, i)

\* A fragment is in one place at a time.
OnePlace ==
    \A p \in 1..Len(sent), i \in Nat : \A k1, x1, k2, x2 :
        Holds(k1, x1, p, i) /\ Holds(k2, x2, p, i) => k1 = k2 /\ x1 = x2

FragInv == IInv /\ CommandInv /\ PayloadInv /\ OnePlace

\* The types the reassembly uses.
LEMMA FragTypes ==
    ASSUME IInv
    PROVE  /\ sent \in Seq([assoc : Assocs, id : 0..IdMod - 1, total : 0..MaxFrags])
           /\ Len(sent) \in Nat /\ Len(streams) \in Nat
           /\ \A q \in 1..Len(sent) : sent[q].total \in Nat
           /\ streams \in Seq(Sendable)
           /\ pc \in [Tasks -> {"idle", "assemble", "send", "close", "dead"}]
<1>1. /\ sent \in Seq([assoc : Assocs, id : 0..IdMod - 1, total : 0..MaxFrags])
      /\ streams \in Seq(Sendable)
      /\ pc \in [Tasks -> {"idle", "assemble", "send", "close", "dead"}]
  BY DEF IInv, ClientInv, TableInv
<1>2. \A q \in 1..Len(sent) : sent[q].total \in Nat
  <2>1. TAKE q \in 1..Len(sent)
  <2>2. sent[q] \in [assoc : Assocs, id : 0..IdMod - 1, total : 0..MaxFrags] BY <1>1, ElementOf
  <2> QED BY <2>2, ConstantFacts
<1> QED BY <1>1, <1>2

\* A packet more changes nothing about the ones before it.
LEMMA SentGrows ==
    ASSUME NEW E, NEW S \in Seq(E), NEW e \in E
    PROVE  /\ Len(Append(S, e)) = Len(S) + 1 /\ Len(S) \in Nat
           /\ Append(S, e)[Len(S) + 1] = e
           /\ \A q \in 1..Len(S) : q \in 1..Len(Append(S, e)) /\ Append(S, e)[q] = S[q]
           /\ \A c : Fit(S, c) => Fit(Append(S, e), c)
           /\ \A x, q : q \in 1..Len(S) /\ Payload(S, x, q) => Payload(Append(S, e), x, q)
<1> DEFINE A == Append(S, e)
<1>1. Len(A) = Len(S) + 1 /\ Len(S) \in Nat /\ A[Len(S) + 1] = e OBVIOUS
<1>2. \A q \in 1..Len(S) : q \in 1..Len(A) /\ A[q] = S[q] OBVIOUS
<1> HIDE DEF A
<1>3. \A c : Fit(S, c) => Fit(A, c) BY <1>2 DEF Fit
<1>4. \A q \in 1..Len(S) : KeyIn(A, q) = KeyIn(S, q) BY <1>2 DEF KeyIn
<1>5. ASSUME NEW x, NEW q \in 1..Len(S), Payload(S, x, q) PROVE Payload(A, x, q)
  BY <1>2, <1>4, <1>5 DEF Payload
<1> QED BY <1>1, <1>2, <1>3, <1>5 DEF A

\* What is in an assembly has its key.
LEMMA InPayload ==
    ASSUME NEW S, NEW x, NEW q, NEW p, NEW i, Payload(S, x, q), In(x, p, i), p # 0
    PROVE  p \in 1..Len(S) /\ KeyIn(S, p) = KeyIn(S, q)
BY DEF In, Payload, Assembled

\* An assembly for packet q, empty.
LEMMA NewFits ==
    ASSUME NEW S, NEW q, S[q].total \in Nat \ {0}
    PROVE  /\ Payload(S, NewAssembly(S[q].total), q)
           /\ \A p, i : In(NewAssembly(S[q].total), p, i) => p = 0
<1> DEFINE n == S[q].total
           z == [i \in 1..n |-> 0]
<1>1. z \in [1..n -> Nat] OBVIOUS
<1>2. z \in Seq(Nat) /\ Len(z) = n /\ DOMAIN z = 1..n /\ \A i \in 1..n : z[i] = 0 BY <1>1
<1>3. NewAssembly(n) = [addr |-> 0, frags |-> z] BY DEF NewAssembly
<1> HIDE DEF z
<1> QED BY <1>2, <1>3 DEF Payload, Assembled, In

\* A fragment put into an assembly of its key replaces what its place held.
LEMMA InsertFits ==
    ASSUME NEW S, NEW x, NEW q, NEW c, Payload(S, x, q), Len(S) \in Nat,
           c.of \in 1..Len(S), c.index \in Nat, c.index < Len(x.frags),
           KeyIn(S, c.of) = KeyIn(S, q)
    PROVE  /\ Payload(S, Insert(x, c), q)
           /\ \A p, i : i \in Nat /\ In(Insert(x, c), p, i) =>
                 (i = c.index /\ p = c.of) \/ In(x, p, i)
<1> DEFINE z == [x.frags EXCEPT ![c.index + 1] = c.of]
           h == IF x.addr = 0 /\ c.index = 0 THEN c.of ELSE x.addr
<1>1. x.addr \in Nat /\ x.frags \in Seq(Nat) /\ c.of \in Nat /\ Len(x.frags) \in Nat
      /\ DOMAIN x.frags = 1..Len(x.frags)
  BY DEF Payload, Assembled
<1>2. z \in Seq(Nat) /\ Len(z) = Len(x.frags) /\ DOMAIN z = 1..Len(x.frags) BY <1>1
<1>3. \A j \in 1..Len(x.frags) : z[j] = IF j = c.index + 1 THEN c.of ELSE x.frags[j]
  BY <1>1
<1>4. Insert(x, c) = [addr |-> h, frags |-> z] BY DEF Insert
<1>5. h \in Nat /\ (h # 0 => h \in 1..Len(S) /\ KeyIn(S, h) = KeyIn(S, q))
  BY <1>1 DEF Payload
<1> HIDE DEF z, h
<1>6. Insert(x, c).addr = h /\ Insert(x, c).frags = z /\ Insert(x, c) \in Assembled
  BY <1>2, <1>4, <1>5 DEF Assembled
<1>7. \A j \in 1..Len(z) : z[j] # 0 => z[j] \in 1..Len(S) /\ KeyIn(S, z[j]) = KeyIn(S, q)
  BY <1>1, <1>2, <1>3 DEF Payload
<1>8. Payload(S, Insert(x, c), q) BY <1>2, <1>5, <1>6, <1>7 DEF Payload
<1>9. ASSUME NEW p, NEW i \in Nat, In(Insert(x, c), p, i)
      PROVE  (i = c.index /\ p = c.of) \/ In(x, p, i)
  <2>1. i + 1 \in 1..Len(x.frags) /\ z[i + 1] = p BY <1>2, <1>6, <1>9 DEF In
  <2>2. CASE i = c.index BY <1>3, <2>1, <2>2
  <2>3. CASE i # c.index BY <1>1, <1>3, <2>1, <2>3 DEF In
  <2> QED BY <2>2, <2>3
<1> QED BY <1>8, <1>9

\* The client sends nothing that is not in one place, and fits.
LEMMA FragInit == Init => FragInv
<1> SUFFICES ASSUME Init PROVE FragInv OBVIOUS
<1>1. IInv BY InitInv
<1>2. CommandInv BY DEF Init, CommandInv
<1>3. PayloadInv BY DEF Init, PayloadInv
<1>4. OnePlace BY DEF Init, OnePlace
<1> QED BY <1>1, <1>2, <1>3, <1>4 DEF FragInv

\* Steps that send no packet and move no fragment; some may be dropped.
LEMMA FragKept ==
    ASSUME FragInv, IInv', UNCHANGED <<sent, asm, toTarget>>,
           cmd' = [t \in Tasks |-> cmd'[t]], job' = [t \in Tasks |-> job'[t]],
           dgrams' \subseteq dgrams \cup {c \in dgrams' : c.kind # "packet"},
           \A n \in 1..Len(streams') :
              \/ n \in 1..Len(streams) /\ streams'[n] = streams[n]
              \/ streams'[n].kind # "packet",
           \A t \in Tasks : pc'[t] = "assemble" => pc[t] = pc'[t] /\ cmd'[t] = cmd[t],
           \A t \in Tasks : pc'[t] = "send" => pc[t] = pc'[t] /\ job'[t] = job[t]
    PROVE  FragInv'
<1>1. CommandInv' BY DEF FragInv, CommandInv, Fit
<1>2. PayloadInv'
  <2>1. PayloadInv BY DEF FragInv
  <2>2. \A t \in Tasks : pc'[t] = "send" =>
          \E q \in 1..Len(sent) : Payload(sent, job'[t], q) /\ IsComplete(job'[t])
    BY <2>1 DEF PayloadInv
  <2> QED BY <2>1, <2>2 DEF PayloadInv
<1>3. \A k, x, p, i : Holds(k, x, p, i)' => Holds(k, x, p, i)
  BY DEF Holds, Is, In
<1>4. OnePlace' BY <1>3 DEF FragInv, OnePlace
<1> QED BY <1>1, <1>2, <1>4 DEF FragInv

\* A new packet: its fragments are new, and each is in one place.
LEMMA FragSends ==
    ASSUME FragInv, IInv', NEW a \in Assocs, NEW n \in 0..MaxFrags, NEW t \in Tasks,
           ClientSends(a, n, t)
    PROVE  FragInv'
<1> USE ConstantFacts
<1> DEFINE E == [assoc : Assocs, id : 0..IdMod - 1, total : 0..MaxFrags]
           e == [assoc |-> a, id |-> cnext[a], total |-> n]
           p0 == Len(sent) + 1
           m == Size(n)
           frags == [i \in 1..m |-> Fragment(p0, i - 1)]
<1>0. IInv /\ CommandInv /\ PayloadInv /\ OnePlace BY DEF FragInv
<1>1. /\ sent' = Append(sent, e)
      /\ \/ streams' = streams \o frags /\ UNCHANGED dgrams
         \/ dgrams' = dgrams \cup {frags[i] : i \in DOMAIN frags} /\ UNCHANGED streams
      /\ UNCHANGED <<asm, pc, cmd, job, toTarget>>
  BY DEF ClientSends, Size
<1>2. e \in E
  <2>1. cnext[a] \in 0..IdMod - 1 BY <1>0 DEF IInv, ClientInv
  <2> QED BY <2>1
<1>3. sent \in Seq(E) /\ streams \in Seq(Sendable) BY <1>0, FragTypes
<1>4. /\ Len(sent') = p0 /\ Len(sent) \in Nat /\ sent'[p0] = e
      /\ \A q \in 1..Len(sent) : q \in 1..Len(sent') /\ sent'[q] = sent[q]
      /\ \A c : Fit(sent, c) => Fit(sent', c)
      /\ \A x, q : q \in 1..Len(sent) /\ Payload(sent, x, q) => Payload(sent', x, q)
  <2> HIDE DEF E, e
  <2> QED BY <1>1, <1>2, <1>3, SentGrows
<1>5. m \in Nat /\ m > 0 BY DEF Size
<1>6. /\ DOMAIN frags = 1..m
      /\ \A i \in 1..m : /\ frags[i].kind = "packet" /\ frags[i].of = p0
                         /\ frags[i].index = i - 1
                         /\ frags[i] = Fragment(p0, i - 1)
  BY DEF Fragment
<1>7. sent'[p0].total = n BY <1>4
<1>8. \A i \in 1..m : Fit(sent', frags[i])
  <2>1. TAKE i \in 1..m
  <2>2. p0 \in 1..Len(sent') /\ i - 1 \in Nat /\ i - 1 < Size(sent'[p0].total)
    BY <1>4, <1>5, <1>7
  <2> HIDE DEF p0, m, frags
  <2> QED BY <1>6, <2>2 DEF Fit
<1>9. frags \in Seq(Sendable) /\ Len(frags) = m
  <2>1. p0 \in Nat BY <1>4
  <2>2. ASSUME NEW i \in 1..m PROVE frags[i] \in Sendable
    <3>1. frags[i] = [kind |-> "packet", of |-> p0, index |-> i - 1] BY <1>6 DEF Fragment
    <3>2. i - 1 \in Nat BY <1>5
    <3> HIDE DEF p0, frags
    <3> QED BY <2>1, <3>1, <3>2 DEF Sendable
  <2> HIDE DEF m
  <2>3. frags \in [1..m -> Sendable] BY <2>2
  <2> QED BY <1>5, <2>3
<1> HIDE DEF m, frags, p0, E, e
<1>10. \A x \in 1..Len(streams') :
          \/ x \in 1..Len(streams) /\ streams'[x] = streams[x]
          \/ /\ streams' = streams \o frags
             /\ x - Len(streams) \in 1..m /\ streams'[x] = frags[x - Len(streams)]
  <2>1. CASE streams' = streams \o frags
    <3>1. TAKE x \in 1..Len(streams')
    <3>2. Len(streams') = Len(streams) + m BY <1>3, <1>9, <2>1, ConcatProperties
    <3>3. CASE x <= Len(streams)
      <4>1. x \in 1..Len(streams) BY <1>3, <3>3
      <4>2. streams'[x] = streams[x] BY <1>3, <1>5, <1>9, <2>1, <3>2, <4>1, ConcatProperties
      <4> QED BY <4>1, <4>2
    <3>4. CASE x > Len(streams)
      <4>1. x - Len(streams) \in 1..m BY <1>3, <1>5, <3>2, <3>4
      <4>2. streams'[x] = frags[x - Len(streams)] BY <1>3, <1>9, <2>1, <3>2, <3>4, ConcatProperties
      <4> QED BY <2>1, <4>1, <4>2
    <3> QED BY <1>3, <3>3, <3>4
  <2>2. CASE UNCHANGED streams BY <2>2
  <2> QED BY <1>1, <2>1, <2>2
<1>11. \A c \in dgrams' :
          c \in dgrams \/ (UNCHANGED streams /\ \E i \in 1..m : c = frags[i])
  BY <1>1, <1>6
<1>12. CommandInv'
  <2>1. \A x \in 1..Len(streams') : Fit(sent', streams'[x])
    BY <1>0, <1>4, <1>8, <1>10 DEF CommandInv
  <2>2. \A c \in dgrams' : Fit(sent', c) BY <1>0, <1>4, <1>8, <1>11 DEF CommandInv
  <2>3. \A s \in Tasks : pc'[s] = "assemble" => cmd'[s].kind = "packet" /\ Fit(sent', cmd'[s])
    BY <1>0, <1>1, <1>4 DEF CommandInv
  <2>4. cmd' = [s \in Tasks |-> cmd'[s]] BY <1>0, <1>1 DEF CommandInv
  <2> QED BY <2>1, <2>2, <2>3, <2>4 DEF CommandInv
<1>13. PayloadInv'
  <2>1. \A k \in DOMAIN asm' : \E q \in 1..Len(sent') :
          KeyIn(sent', q) = k /\ Payload(sent', asm'[k], q)
    BY <1>0, <1>1, <1>4 DEF PayloadInv, KeyIn
  <2>2. \A s \in Tasks : pc'[s] = "send" =>
          \E q \in 1..Len(sent') : Payload(sent', job'[s], q) /\ IsComplete(job'[s])
    BY <1>0, <1>1, <1>4 DEF PayloadInv
  <2>3. \A j \in 1..Len(toTarget') :
          /\ toTarget'[j].addr # 0
          /\ \E q \in 1..Len(sent') : Payload(sent', toTarget'[j], q) /\ IsComplete(toTarget'[j])
    BY <1>0, <1>1, <1>4 DEF PayloadInv
  <2> QED BY <1>0, <1>1, <2>1, <2>2, <2>3 DEF PayloadInv
<1>14. ASSUME NEW p, p # p0, NEW k, NEW x, NEW i, Holds(k, x, p, i)' PROVE Holds(k, x, p, i)
  <2>1. CASE k = "stream" BY <1>6, <1>10, <1>14, <2>1 DEF Holds, Is
  <2>2. CASE k = "dgram" BY <1>6, <1>11, <1>14, <2>2 DEF Holds, Is
  <2>3. CASE k \notin {"stream", "dgram"} BY <1>1, <1>14, <2>3 DEF Holds
  <2> QED BY <2>1, <2>2, <2>3
<1>15. ASSUME NEW p, p = p0, NEW k, NEW x, NEW i \in Nat, Holds(k, x, p, i)'
       PROVE  \/ k = "stream" /\ streams' = streams \o frags /\ x = Len(streams) + i + 1
              \/ k = "dgram" /\ UNCHANGED streams /\ x = frags[i + 1]
  <2>0. p \notin 1..Len(sent) /\ p # 0 BY <1>4, <1>15 DEF p0
  <2>1. CASE k = "stream"
    <3>1. x \in 1..Len(streams') /\ Is(streams'[x], p, i) BY <1>15, <2>1 DEF Holds
    <3>2. ~(x \in 1..Len(streams) /\ streams'[x] = streams[x])
      BY <1>0, <2>0, <3>1 DEF CommandInv, Fit, Is
    <3>3. /\ streams' = streams \o frags
          /\ x - Len(streams) \in 1..m /\ streams'[x] = frags[x - Len(streams)]
      BY <1>10, <3>1, <3>2
    <3>4. x - Len(streams) - 1 = i BY <1>6, <1>15, <3>1, <3>3 DEF Is
    <3>5. Len(streams) \in Nat BY <1>3
    <3> QED BY <1>5, <2>1, <3>1, <3>3, <3>4, <3>5
  <2>2. CASE k = "dgram"
    <3>1. x \in dgrams' /\ Is(x, p, i) BY <1>15, <2>2 DEF Holds
    <3>2. x \notin dgrams BY <1>0, <2>0, <3>1 DEF CommandInv, Fit, Is
    <3>3. PICK j \in 1..m : x = frags[j] /\ UNCHANGED streams BY <1>11, <3>1, <3>2
    <3>4. j - 1 = i BY <1>6, <1>15, <3>1, <3>3 DEF Is
    <3>5. j = i + 1 BY <1>5, <3>4
    <3> QED BY <2>2, <3>3, <3>5
  <2>3. CASE k = "cmd" BY <1>0, <1>1, <1>15, <2>0, <2>3 DEF Holds, Is, CommandInv, Fit
  <2>4. CASE k = "asm"
    <3>1. x \in DOMAIN asm /\ In(asm[x], p, i) BY <1>1, <1>15, <2>4 DEF Holds
    <3>2. PICK q \in 1..Len(sent) : Payload(sent, asm[x], q) BY <1>0, <3>1 DEF PayloadInv
    <3> QED BY <2>0, <3>1, <3>2, InPayload
  <2>5. CASE k = "job"
    <3>1. x \in Tasks /\ pc[x] = "send" /\ In(job[x], p, i) BY <1>1, <1>15, <2>5 DEF Holds
    <3>2. PICK q \in 1..Len(sent) : Payload(sent, job[x], q) BY <1>0, <3>1 DEF PayloadInv
    <3> QED BY <2>0, <3>1, <3>2, InPayload
  <2>6. CASE k = "target"
    <3>1. x \in 1..Len(toTarget) /\ In(toTarget[x], p, i) BY <1>1, <1>15, <2>6 DEF Holds
    <3>2. PICK q \in 1..Len(sent) : Payload(sent, toTarget[x], q) BY <1>0, <3>1 DEF PayloadInv
    <3> QED BY <2>0, <3>1, <3>2, InPayload
  <2> QED BY <1>15, <2>1, <2>2, <2>3, <2>4, <2>5, <2>6 DEF Holds
<1>16. streams \o frags # streams
  <2>1. Len(streams) \in Nat BY <1>3
  <2>3. Len(streams \o frags) = Len(streams) + m BY <1>3, <1>9, ConcatProperties
  <2>2. Len(streams) + m # Len(streams) BY <1>5, <2>1
  <2> QED BY <2>2, <2>3
<1>17. OnePlace'
  <2>1. SUFFICES ASSUME NEW p \in 1..Len(sent'), NEW i \in Nat, NEW k1, NEW x1, NEW k2, NEW x2,
                        Holds(k1, x1, p, i)', Holds(k2, x2, p, i)'
                 PROVE  k1 = k2 /\ x1 = x2
    BY DEF OnePlace
  <2>2. CASE p = p0 BY <1>15, <1>16, <2>1, <2>2
  <2>3. CASE p # p0
    <3>1. p \in 1..Len(sent) BY <1>4, <2>1, <2>3 DEF p0
    <3>2. Holds(k1, x1, p, i) /\ Holds(k2, x2, p, i) BY <1>14, <2>1, <2>3
    <3> QED BY <1>0, <3>1, <3>2 DEF OnePlace
  <2> QED BY <2>2, <2>3
<1> QED BY <1>12, <1>13, <1>17 DEF FragInv

\* A command that arrives moves from the streams or the datagrams to its task,
\* or is dropped.
LEMMA FragTakes ==
    ASSUME FragInv, IInv', NEW t \in Tasks, NEW c, Arrives(t, c),
           UNCHANGED <<sent, asm, job, toTarget>>, cmd' = [u \in Tasks |-> cmd'[u]],
           pc'[t] # "send", pc[t] # "assemble",
           pc'[t] = "assemble" => c.kind = "packet" /\ cmd'[t] = c,
           \A u \in Tasks \ {t} : pc'[u] = pc[u] /\ cmd'[u] = cmd[u]
    PROVE  FragInv'
<1>0. IInv /\ CommandInv /\ PayloadInv /\ OnePlace BY DEF FragInv
<1>1. PayloadInv' BY <1>0 DEF PayloadInv, IsComplete
<1>2. CASE t = "uni"
  <2>1. streams # <<>> /\ c = Head(streams) /\ streams' = Tail(streams) /\ UNCHANGED dgrams
    BY <1>2 DEF Arrives
  <2>2. streams \in Seq(Sendable) BY <1>0, FragTypes
  <2>3. /\ 1 \in 1..Len(streams) /\ c = streams[1]
        /\ \A n \in 1..Len(streams') : /\ n + 1 \in 1..Len(streams) /\ n + 1 # 1
                                       /\ streams'[n] = streams[n + 1]
    BY <2>1, <2>2
  <2>4. CommandInv'
    <3>1. Fit(sent, c) BY <1>0, <2>3 DEF CommandInv
    <3>2. \A n \in 1..Len(streams') : Fit(sent, streams'[n]) BY <1>0, <2>3 DEF CommandInv
    <3> QED BY <1>0, <2>1, <3>1, <3>2 DEF CommandInv
  <2>5. ASSUME NEW k, NEW x, NEW p, NEW i, Holds(k, x, p, i)'
        PROVE  \/ k = "stream" /\ x \in Nat /\ x + 1 # 1 /\ Holds("stream", x + 1, p, i)
               \/ k = "cmd" /\ x = t /\ Holds("stream", 1, p, i)
               \/ k # "stream" /\ ~(k = "cmd" /\ x = t) /\ Holds(k, x, p, i)
    <3>1. CASE k = "stream"
      <4>1. x \in 1..Len(streams') /\ Is(streams'[x], p, i) BY <2>5, <3>1 DEF Holds
      <4> QED BY <2>3, <3>1, <4>1 DEF Holds
    <3>2. CASE k = "cmd" /\ x = t
      <4>1. Is(c, p, i) BY <2>5, <3>2 DEF Holds
      <4> QED BY <2>3, <3>2, <4>1 DEF Holds
    <3>3. CASE k = "cmd" /\ x # t BY <2>5, <3>3 DEF Holds
    <3>4. CASE k \notin {"stream", "cmd"} BY <2>1, <2>5, <3>4 DEF Holds
    <3> QED BY <3>1, <3>2, <3>3, <3>4
  <2>6. OnePlace'
    <3>1. SUFFICES ASSUME NEW p \in 1..Len(sent), NEW i \in Nat, NEW k1, NEW x1, NEW k2, NEW x2,
                          Holds(k1, x1, p, i)', Holds(k2, x2, p, i)'
                   PROVE  k1 = k2 /\ x1 = x2
      BY DEF OnePlace
    <3>2. \A k, x, l, y : Holds(k, x, p, i) /\ Holds(l, y, p, i) => k = l /\ x = y
      BY <1>0 DEF OnePlace
    <3> QED BY <2>5, <3>1, <3>2
  <2> QED BY <1>1, <2>4, <2>6 DEF FragInv
<1>3. CASE t = "dgram"
  <2>1. c \in dgrams /\ dgrams' = dgrams \ {c} /\ UNCHANGED streams BY <1>3 DEF Arrives
  <2>2. CommandInv' BY <1>0, <2>1 DEF CommandInv
  <2>3. \A p, i : Holds("cmd", t, p, i)' => Holds("dgram", c, p, i) BY <2>1 DEF Holds
  <2>4. ASSUME NEW k, NEW x, NEW p, NEW i, Holds(k, x, p, i)'
        PROVE  (k = "cmd" /\ x = t) \/ (Holds(k, x, p, i) /\ ~(k = "dgram" /\ x = c))
    BY <2>1, <2>4 DEF Holds
  <2>5. OnePlace'
    <3>1. SUFFICES ASSUME NEW p \in 1..Len(sent), NEW i \in Nat, NEW k1, NEW x1, NEW k2, NEW x2,
                          Holds(k1, x1, p, i)', Holds(k2, x2, p, i)'
                   PROVE  k1 = k2 /\ x1 = x2
      BY DEF OnePlace
    <3>2. \A k, x, l, y : Holds(k, x, p, i) /\ Holds(l, y, p, i) => k = l /\ x = y
      BY <1>0 DEF OnePlace
    <3> QED BY <2>3, <2>4, <3>1, <3>2
  <2> QED BY <1>1, <2>2, <2>5 DEF FragInv
<1> QED BY <1>2, <1>3 DEF Tasks

\* A fragment joins the assembly of its key, which becomes a payload when it is
\* complete; a fragment with a wrong count is dropped.
LEMMA FragAssemble ==
    ASSUME FragInv, IInv', NEW t \in Tasks, Assemble(t)
    PROVE  FragInv'
<1> DEFINE c == cmd[t]
           n == sent[c.of].total
<1>k. PICK key : key = Key(c.of) OBVIOUS
<1> DEFINE old == IF key \in DOMAIN asm THEN asm[key] ELSE NewAssembly(n)
           new == Insert(old, c)
<1>0. IInv /\ CommandInv /\ PayloadInv /\ OnePlace BY DEF FragInv
<1>1. /\ pc[t] = "assemble" /\ pc' = [pc EXCEPT ![t] = pc'[t]]
      /\ cmd' = [cmd EXCEPT ![t] = NoCmd]
      /\ UNCHANGED <<sent, streams, dgrams, toTarget>>
      /\ pc \in [Tasks -> {"idle", "assemble", "send", "close", "dead"}]
  <2>1. pc \in [Tasks -> {"idle", "assemble", "send", "close", "dead"}] BY <1>0, FragTypes
  <2> QED BY <2>1 DEF Assemble, cliVars
<1>2. c.kind = "packet" /\ c.of \in 1..Len(sent) /\ c.index \in Nat /\ c.index < Size(n)
  BY <1>0, <1>1 DEF CommandInv, Fit
<1>3. n \in Nat /\ Len(sent) \in Nat BY <1>0, <1>2, FragTypes
<1>4. \A u \in Tasks : u # t => pc'[u] = pc[u] /\ cmd'[u] = cmd[u]
  BY <1>0, <1>1 DEF CommandInv
<1>5. cmd' = [u \in Tasks |-> cmd'[u]] BY <1>0, <1>1 DEF CommandInv
<1>6. key = KeyIn(sent, c.of) BY <1>k DEF Key, KeyIn
<1>7. ASSUME pc'[t] # "assemble" PROVE CommandInv'
  BY <1>0, <1>1, <1>4, <1>5, <1>7 DEF CommandInv
<1>8. \A k, x, p, i : Holds(k, x, p, i)' /\ k \notin {"asm", "job"} /\ pc'[t] # "assemble" =>
        Holds(k, x, p, i) /\ ~(k = "cmd" /\ x = t)
  BY <1>1, <1>4 DEF Holds
<1>9. CASE n = 0 \/ (n > 1 /\ c.index >= Len(old.frags))
  <2>1. pc'[t] \in {"idle", "dead"} /\ UNCHANGED <<asm, job>>
    BY <1>k, <1>1, <1>9 DEF Assemble, AfterError
  <2>2. job' = [u \in Tasks |-> job'[u]] BY <1>0, <2>1 DEF PayloadInv
  <2> HIDE DEF c, n, old, new
  <2> QED BY <1>1, <1>4, <1>5, <2>1, <2>2, FragKept
<1>10. CASE ~(n = 0 \/ (n > 1 /\ c.index >= Len(old.frags))) /\ n = 1
  <2>1. /\ pc'[t] = "send" /\ asm' = asm
        /\ job' = [job EXCEPT ![t] = [addr |-> c.of, frags |-> <<c.of>>]]
    BY <1>k, <1>1, <1>10 DEF Assemble
  <2>2. c.index = 0 BY <1>2, <1>10 DEF Size
  <2> DEFINE x0 == [addr |-> c.of, frags |-> <<c.of>>]
  <2>3. Payload(sent, x0, c.of) /\ IsComplete(x0)
    BY <1>2, <1>3, <1>10 DEF Payload, Assembled, IsComplete
  <2>4. job'[t] = x0 /\ job' = [u \in Tasks |-> job'[u]]
        /\ \A u \in Tasks : u # t => job'[u] = job[u]
    BY <1>0, <2>1 DEF PayloadInv
  <2>5. \A p, i : i \in Nat /\ In(x0, p, i) => i = 0 /\ p = c.of BY DEF In
  <2> HIDE DEF x0
  <2>6. PayloadInv'
    <3>1. \A u \in Tasks : pc'[u] = "send" =>
            \E q \in 1..Len(sent) : Payload(sent, job'[u], q) /\ IsComplete(job'[u])
      BY <1>0, <1>2, <1>4, <2>3, <2>4 DEF PayloadInv
    <3> QED BY <1>0, <1>1, <2>1, <2>4, <3>1 DEF PayloadInv
  <2>7. \A p, i : i \in Nat /\ Holds("job", t, p, i)' => Holds("cmd", t, p, i)
    BY <1>1, <1>2, <2>2, <2>4, <2>5 DEF Holds, Is
  <2>8. \A k, x, p, i : Holds(k, x, p, i)' =>
          (k = "job" /\ x = t) \/ (Holds(k, x, p, i) /\ ~(k = "cmd" /\ x = t))
    <3>1. TAKE k, x, p, i
    <3>2. CASE k = "asm" BY <2>1, <3>2 DEF Holds
    <3>3. CASE k = "job" BY <1>4, <2>4, <3>3 DEF Holds
    <3>4. CASE k \notin {"asm", "job"} BY <1>8, <2>1, <3>4
    <3> QED BY <3>2, <3>3, <3>4
  <2>9. OnePlace'
    <3>1. SUFFICES ASSUME NEW p \in 1..Len(sent), NEW i \in Nat, NEW k1, NEW x1, NEW k2, NEW x2,
                          Holds(k1, x1, p, i)', Holds(k2, x2, p, i)'
                   PROVE  k1 = k2 /\ x1 = x2
      BY <1>1 DEF OnePlace
    <3>2. \A k, x, l, y : Holds(k, x, p, i) /\ Holds(l, y, p, i) => k = l /\ x = y
      BY <1>0 DEF OnePlace
    <3>3. p # 0 BY <3>1
    <3> QED BY <2>7, <2>8, <3>1, <3>2, <3>3
  <2> QED BY <1>7, <2>1, <2>6, <2>9 DEF FragInv
<1>11. ASSUME ~(n = 0 \/ (n > 1 /\ c.index >= Len(old.frags))), n # 1
       PROVE  FragInv'
  <2>1. n > 1 /\ c.index < Len(old.frags) /\ n \in Nat \ {0}
    <3>1. PICK q \in 1..Len(sent) : Payload(sent, old, q) /\ KeyIn(sent, q) = key
      BY <1>0, <1>2, <1>3, <1>6, <1>11, NewFits DEF PayloadInv
    <3>2. Len(old.frags) \in Nat BY <3>1 DEF Payload, Assembled
    <3> HIDE DEF old, c, n
    <3> QED BY <1>2, <1>3, <1>11, <3>2
  <2>2. PICK q \in 1..Len(sent) : Payload(sent, old, q) /\ KeyIn(sent, q) = key
    BY <1>0, <1>2, <1>6, <2>1, NewFits DEF PayloadInv
  <2>3. \A p, i : In(old, p, i) /\ p # 0 => key \in DOMAIN asm /\ In(asm[key], p, i)
    BY <2>1, NewFits
  <2>4. /\ Payload(sent, new, q)
        /\ \A p, i : i \in Nat /\ In(new, p, i) => (i = c.index /\ p = c.of) \/ In(old, p, i)
    <3> HIDE DEF old, c, n
    <3> QED BY <1>2, <1>3, <1>6, <2>1, <2>2, InsertFits
  <2>5. \A p, i : i \in Nat /\ p # 0 /\ In(new, p, i) =>
          Holds("cmd", t, p, i) \/ Holds("asm", key, p, i)
    BY <1>1, <1>2, <2>3, <2>4 DEF Holds, Is
  <2>6. CASE IsComplete(new)
    <3>1. /\ pc'[t] = "send" /\ job' = [job EXCEPT ![t] = new]
          /\ asm' = [j \in DOMAIN asm \ {key} |-> asm[j]]
      BY <1>k, <1>1, <1>3, <1>11, <2>6 DEF Assemble, Without
    <3>2. job'[t] = new /\ job' = [u \in Tasks |-> job'[u]]
          /\ \A u \in Tasks : u # t => job'[u] = job[u]
      BY <1>0, <3>1 DEF PayloadInv
    <3>3. DOMAIN asm' = DOMAIN asm \ {key} /\ \A j \in DOMAIN asm' : asm'[j] = asm[j]
      BY <3>1
    <3> HIDE DEF c, n, old, new
    <3>4. PayloadInv'
      <4>1. \A u \in Tasks : pc'[u] = "send" =>
              \E r \in 1..Len(sent) : Payload(sent, job'[u], r) /\ IsComplete(job'[u])
        BY <1>0, <1>4, <2>4, <2>6, <3>2 DEF PayloadInv
      <4>2. \A j \in DOMAIN asm' : \E r \in 1..Len(sent) :
              KeyIn(sent, r) = j /\ Payload(sent, asm'[j], r)
        BY <1>0, <3>3 DEF PayloadInv
      <4> QED BY <1>0, <1>1, <3>2, <4>1, <4>2 DEF PayloadInv
    <3>5. \A p, i : i \in Nat /\ p # 0 /\ Holds("job", t, p, i)' =>
            Holds("cmd", t, p, i) \/ Holds("asm", key, p, i)
      BY <2>5, <3>2 DEF Holds
    <3>6. \A k, x, p, i : Holds(k, x, p, i)' =>
            \/ k = "job" /\ x = t
            \/ Holds(k, x, p, i) /\ ~(k = "cmd" /\ x = t) /\ ~(k = "asm" /\ x = key)
      <4>1. TAKE k, x, p, i
      <4>2. CASE k = "asm" BY <3>3, <4>2 DEF Holds
      <4>3. CASE k = "job" BY <1>4, <3>2, <4>3 DEF Holds
      <4>4. CASE k \notin {"asm", "job"} BY <1>8, <3>1, <4>4
      <4> QED BY <4>2, <4>3, <4>4
    <3>7. OnePlace'
      <4>1. SUFFICES ASSUME NEW p \in 1..Len(sent), NEW i \in Nat, NEW k1, NEW x1, NEW k2, NEW x2,
                            Holds(k1, x1, p, i)', Holds(k2, x2, p, i)'
                     PROVE  k1 = k2 /\ x1 = x2
        BY <1>1 DEF OnePlace
      <4>2. \A k, x, l, y : Holds(k, x, p, i) /\ Holds(l, y, p, i) => k = l /\ x = y
        BY <1>0 DEF OnePlace
      <4>3. p # 0 BY <4>1
      <4> QED BY <3>5, <3>6, <4>1, <4>2, <4>3
    <3> QED BY <1>7, <3>1, <3>4, <3>7 DEF FragInv
  <2>7. CASE ~IsComplete(new)
    <3>1. /\ pc'[t] = "idle" /\ job' = job
          /\ asm' = [j \in DOMAIN asm \cup {key} |-> IF j = key THEN new ELSE asm[j]]
      BY <1>k, <1>1, <1>3, <1>11, <2>7 DEF Assemble
    <3>2. DOMAIN asm' = DOMAIN asm \cup {key} /\ asm'[key] = new
          /\ \A j \in DOMAIN asm' : j # key => j \in DOMAIN asm /\ asm'[j] = asm[j]
      BY <3>1
    <3> HIDE DEF c, n, old, new
    <3>3. PayloadInv'
      <4>1. \A u \in Tasks : pc'[u] = "send" =>
              \E r \in 1..Len(sent) : Payload(sent, job'[u], r) /\ IsComplete(job'[u])
        BY <1>0, <1>4, <3>1 DEF PayloadInv
      <4>2. \A j \in DOMAIN asm' : \E r \in 1..Len(sent) :
              KeyIn(sent, r) = j /\ Payload(sent, asm'[j], r)
        BY <1>0, <2>2, <2>4, <3>2 DEF PayloadInv
      <4> QED BY <1>0, <1>1, <3>1, <4>1, <4>2 DEF PayloadInv
    <3>4. \A p, i : i \in Nat /\ p # 0 /\ Holds("asm", key, p, i)' =>
            Holds("cmd", t, p, i) \/ Holds("asm", key, p, i)
      BY <2>5, <3>2 DEF Holds
    <3>5. \A k, x, p, i : Holds(k, x, p, i)' =>
            \/ k = "asm" /\ x = key
            \/ Holds(k, x, p, i) /\ ~(k = "cmd" /\ x = t) /\ ~(k = "asm" /\ x = key)
      <4>1. TAKE k, x, p, i
      <4>2. CASE k = "asm" BY <3>2, <4>2 DEF Holds
      <4>3. CASE k = "job" BY <1>4, <3>1, <4>3 DEF Holds
      <4>4. CASE k \notin {"asm", "job"} BY <1>8, <3>1, <4>4
      <4> QED BY <4>2, <4>3, <4>4
    <3>6. OnePlace'
      <4>1. SUFFICES ASSUME NEW p \in 1..Len(sent), NEW i \in Nat, NEW k1, NEW x1, NEW k2, NEW x2,
                            Holds(k1, x1, p, i)', Holds(k2, x2, p, i)'
                     PROVE  k1 = k2 /\ x1 = x2
        BY <1>1 DEF OnePlace
      <4>2. \A k, x, l, y : Holds(k, x, p, i) /\ Holds(l, y, p, i) => k = l /\ x = y
        BY <1>0 DEF OnePlace
      <4>3. p # 0 BY <4>1
      <4> QED BY <3>4, <3>5, <4>1, <4>2, <4>3
    <3> QED BY <1>7, <3>1, <3>3, <3>6 DEF FragInv
  <2> QED BY <2>6, <2>7
<1> QED BY <1>9, <1>10, <1>11

\* A payload moves to the target, or is dropped.
LEMMA FragSend ==
    ASSUME FragInv, IInv', NEW t \in Tasks, Send(t)
    PROVE  FragInv'
<1>0. IInv /\ CommandInv /\ PayloadInv /\ OnePlace BY DEF FragInv
<1>1. pc \in [Tasks -> {"idle", "assemble", "send", "close", "dead"}] BY <1>0, FragTypes
<1>2. /\ pc[t] = "send" /\ pc'[t] \in {"idle", "dead"}
      /\ UNCHANGED <<sent, streams, dgrams, asm, cmd>>
      /\ \A u \in Tasks : u # t => pc'[u] = pc[u] /\ job'[u] = job[u]
      /\ job' = [u \in Tasks |-> job'[u]]
  <2>1. job = [u \in Tasks |-> job[u]] BY <1>0 DEF PayloadInv
  <2> QED BY <1>1, <2>1 DEF Send, cliVars, AfterError
<1>3. CASE UNCHANGED toTarget
  <2>1. cmd' = [u \in Tasks |-> cmd'[u]] BY <1>0, <1>2 DEF CommandInv
  <2> QED BY <1>2, <1>3, <2>1, FragKept
<1>4. CASE job[t].addr # 0 /\ toTarget' = Append(toTarget, job[t])
  <2>1. PICK q \in 1..Len(sent) : Payload(sent, job[t], q) /\ IsComplete(job[t])
    BY <1>0, <1>2 DEF PayloadInv
  <2>2. toTarget \in Seq(Assembled) /\ job[t] \in Assembled
    BY <1>0, <2>1 DEF PayloadInv, Payload
  <2> DEFINE z == Len(toTarget) + 1
  <2>3. /\ toTarget' \in Seq(Assembled) /\ Len(toTarget') = z /\ toTarget'[z] = job[t]
        /\ \A j \in 1..Len(toTarget') : j = z \/ (j \in 1..Len(toTarget) /\ toTarget'[j] = toTarget[j])
    BY <1>4, <2>2
  <2>4. CommandInv' BY <1>0, <1>2 DEF CommandInv
  <2> HIDE DEF z
  <2>5. PayloadInv'
    <3>1. \A u \in Tasks : pc'[u] = "send" =>
            \E r \in 1..Len(sent) : Payload(sent, job'[u], r) /\ IsComplete(job'[u])
      BY <1>0, <1>2 DEF PayloadInv
    <3>2. \A j \in 1..Len(toTarget') :
            /\ toTarget'[j].addr # 0
            /\ \E r \in 1..Len(sent) : Payload(sent, toTarget'[j], r) /\ IsComplete(toTarget'[j])
      BY <1>0, <1>4, <2>1, <2>3 DEF PayloadInv
    <3> QED BY <1>0, <1>2, <2>3, <3>1, <3>2 DEF PayloadInv
  <2>6. ASSUME NEW k, NEW x, NEW p, NEW i, Holds(k, x, p, i)'
        PROVE  \/ k = "target" /\ x = z /\ Holds("job", t, p, i)
               \/ Holds(k, x, p, i) /\ ~(k = "job" /\ x = t)
    <3>1. CASE k = "target" BY <1>2, <2>3, <2>6, <3>1 DEF Holds
    <3>2. CASE k \in {"job", "cmd"} BY <1>2, <2>6, <3>2 DEF Holds
    <3>3. CASE k \notin {"target", "job", "cmd"} BY <1>2, <2>6, <3>3 DEF Holds
    <3> QED BY <3>1, <3>2, <3>3
  <2>7. OnePlace'
    <3>1. SUFFICES ASSUME NEW p \in 1..Len(sent), NEW i \in Nat, NEW k1, NEW x1, NEW k2, NEW x2,
                          Holds(k1, x1, p, i)', Holds(k2, x2, p, i)'
                   PROVE  k1 = k2 /\ x1 = x2
      BY <1>2 DEF OnePlace
    <3>2. \A k, x, l, y : Holds(k, x, p, i) /\ Holds(l, y, p, i) => k = l /\ x = y
      BY <1>0 DEF OnePlace
    <3>3. p # 0 BY <3>1
    <3> QED BY <2>6, <3>1, <3>2, <3>3
  <2> QED BY <2>4, <2>5, <2>7 DEF FragInv
<1> QED BY <1>3, <1>4 DEF Send

\* Every step keeps the reassembly's invariant.
LEMMA FragNext == FragInv /\ [Next]_vars => FragInv'
<1> SUFFICES ASSUME FragInv, [Next]_vars PROVE FragInv' OBVIOUS
<1>1. IInv /\ IInv' BY NextInv DEF FragInv
<1>2. /\ streams \in Seq(Sendable)
      /\ pc \in [Tasks -> {"idle", "assemble", "send", "close", "dead"}]
      /\ cmd = [t \in Tasks |-> cmd[t]] /\ job = [t \in Tasks |-> job[t]]
  BY <1>1, FragTypes DEF FragInv, CommandInv, PayloadInv
<1>3. ASSUME NEW a \in Assocs, NEW n \in 0..MaxFrags, NEW t \in Tasks, ClientSends(a, n, t)
      PROVE  FragInv'
  BY <1>1, <1>3, FragSends
<1>4. ASSUME NEW a \in Assocs, NEW t \in Tasks, ClientDissociates(a, t) PROVE FragInv'
  <2>1. UNCHANGED <<sent, asm, toTarget, cmd, job, pc>> BY <1>4 DEF ClientDissociates
  <2>2. \/ streams' = Append(streams, Dissociate(a)) /\ UNCHANGED dgrams
        \/ dgrams' = dgrams \cup {Dissociate(a)} /\ UNCHANGED streams
    BY <1>4 DEF ClientDissociates
  <2>3. Dissociate(a).kind # "packet" BY DEF Dissociate
  <2>4. dgrams' \subseteq dgrams \cup {c \in dgrams' : c.kind # "packet"} BY <2>2, <2>3
  <2>5. \A n \in 1..Len(streams') : \/ n \in 1..Len(streams) /\ streams'[n] = streams[n]
                                   \/ streams'[n].kind # "packet"
    BY <1>2, <2>2, <2>3
  <2> QED BY <1>1, <1>2, <2>1, <2>4, <2>5, FragKept
<1>5. CASE ConnectionEnds
  <2>1. UNCHANGED <<sent, asm, toTarget, cmd, job, pc>> /\ dgrams' \subseteq dgrams
    BY <1>5 DEF ConnectionEnds
  <2>2. PICK m \in 0..Len(streams) : streams' = SubSeq(streams, 1, m)
    BY <1>5 DEF ConnectionEnds
  <2>3. \A n \in 1..Len(streams') : n \in 1..Len(streams) /\ streams'[n] = streams[n]
    BY <1>2, <2>2
  <2> QED BY <1>1, <1>2, <2>1, <2>3, FragKept
<1>6. ASSUME NEW t \in Tasks, NEW c, TakePacket(t, c) PROVE FragInv'
  <2>1. /\ Arrives(t, c) /\ pc[t] = "idle" /\ c.kind = "packet"
        /\ UNCHANGED <<sent, asm, job, toTarget>>
    BY <1>6 DEF TakePacket
  <2>2. \/ cmd' = [cmd EXCEPT ![t] = c] /\ pc' = [pc EXCEPT ![t] = "assemble"]
        \/ UNCHANGED cmd /\ pc' = [pc EXCEPT ![t] = AfterError(t)]
    BY <1>6 DEF TakePacket
  <2>3. /\ cmd' = [u \in Tasks |-> cmd'[u]]
        /\ pc'[t] # "send" /\ (pc'[t] = "assemble" => cmd'[t] = c)
        /\ \A u \in Tasks \ {t} : pc'[u] = pc[u] /\ cmd'[u] = cmd[u]
    BY <1>2, <2>2 DEF AfterError
  <2> QED BY <1>1, <2>1, <2>3, FragTakes
<1>7. ASSUME NEW t \in Tasks, NEW c, TakeDissociate(t, c) PROVE FragInv'
  <2>1. /\ Arrives(t, c) /\ pc[t] = "idle" /\ UNCHANGED <<sent, asm, job, toTarget, cmd>>
        /\ (pc' = [pc EXCEPT ![t] = "close"] \/ pc' = pc)
    BY <1>7 DEF TakeDissociate
  <2>2. /\ pc'[t] \in {"close", "idle"} /\ \A u \in Tasks \ {t} : pc'[u] = pc[u]
        /\ cmd' = [u \in Tasks |-> cmd'[u]]
    BY <1>2, <2>1
  <2> QED BY <1>1, <2>1, <2>2, FragTakes
<1>8. ASSUME NEW t \in Tasks, CloseSession(t) \/ TaskEnds(t) PROVE FragInv'
  <2>1. /\ UNCHANGED <<sent, streams, dgrams, asm, toTarget, cmd, job>>
        /\ \A u \in Tasks : pc'[u] \in {"assemble", "send"} => pc[u] = pc'[u]
    BY <1>2, <1>8 DEF CloseSession, TaskEnds, cliVars
  <2> QED BY <1>1, <1>2, <2>1, FragKept
<1>9. CASE UNCHANGED <<cliVars, asm, pc, cmd, job, toTarget>>
  BY <1>1, <1>2, <1>9, FragKept DEF cliVars
<1>10. ASSUME NEW t \in Tasks, TaskRuns(t) PROVE FragInv'
  BY <1>1, <1>8, <1>10, FragAssemble, FragSend DEF TaskRuns
<1>11. CASE Cleanup BY <1>9, <1>11 DEF Cleanup
<1>12. ASSUME NEW s \in Sessions, NEW l \in Loops, LoopRuns(s, l) \/ LoopReceives(s, l)
       PROVE  FragInv'
  BY <1>9, <1>12 DEF LoopRuns, LoopWaits, LoopEnds, LoopSends, LoopReceives
<1>13. CASE UNCHANGED vars BY <1>9, <1>13 DEF vars
<1> QED
  BY <1>3, <1>4, <1>5, <1>6, <1>7, <1>10, <1>11, <1>12, <1>13 DEF Next, Client, Takes

\* Two payloads at the target that share a fragment are one.
LEMMA OnceFollows == FragInv => SentOnce
<1> SUFFICES ASSUME FragInv, NEW j \in DOMAIN toTarget, NEW k \in DOMAIN toTarget,
                    NEW i \in DOMAIN toTarget[j].frags \cap DOMAIN toTarget[k].frags,
                    toTarget[j].frags[i] = toTarget[k].frags[i]
             PROVE  j = k
  BY DEF SentOnce
<1>0. PayloadInv /\ OnePlace BY DEF FragInv
<1>1. j \in 1..Len(toTarget) /\ k \in 1..Len(toTarget) BY <1>0 DEF PayloadInv
<1>2. PICK q \in 1..Len(sent) : Payload(sent, toTarget[j], q) /\ IsComplete(toTarget[j])
  BY <1>0, <1>1 DEF PayloadInv
<1>3. PICK p : p = toTarget[j].frags[i] OBVIOUS
<1>4. p # 0 /\ i \in Nat \ {0} /\ p \in 1..Len(sent)
  BY <1>2, <1>3 DEF IsComplete, Payload, Assembled
<1>5. PICK h \in Nat : i = h + 1
  <2>1. i - 1 \in Nat /\ i = (i - 1) + 1 BY <1>4
  <2> QED BY <2>1
<1>6. Holds("target", j, p, h) /\ Holds("target", k, p, h)
  BY <1>1, <1>3, <1>5 DEF Holds, In
<1> QED BY <1>0, <1>4, <1>6 DEF OnePlace

\* A payload of packets of q's key, none of them missing, is q or the key was
\* used again.
LEMMA WholeFollows == FragInv => WholeUnlessReused
<1> SUFFICES ASSUME FragInv, NEW j \in DOMAIN toTarget
             PROVE  \E p \in 1..Len(sent) :
                       \/ WholePacket(toTarget[j], p)
                       \/ From(toTarget[j]) \subseteq SameKey(p) /\ SameKey(p) # {p}
  BY DEF WholeUnlessReused
<1> DEFINE x == toTarget[j]
<1>0. PayloadInv BY DEF FragInv
<1>1. j \in 1..Len(toTarget) BY <1>0 DEF PayloadInv
<1>2. PICK q \in 1..Len(sent) : Payload(sent, x, q) /\ IsComplete(x) /\ x.addr # 0
  BY <1>0, <1>1 DEF PayloadInv
<1> HIDE DEF x
<1>3. x.frags \in Seq(Nat) /\ Len(x.frags) = sent[q].total /\ DOMAIN x.frags = 1..sent[q].total
  BY <1>2 DEF Payload, Assembled
<1>4. \A p : p \in 1..Len(sent) /\ KeyIn(sent, p) = KeyIn(sent, q) => p \in SameKey(q)
  BY DEF KeyIn, SameKey
<1>5. x.addr \in SameKey(q) /\ \A i \in DOMAIN x.frags : x.frags[i] \in SameKey(q)
  BY <1>2, <1>3, <1>4 DEF Payload, IsComplete
<1>6. From(x) \subseteq SameKey(q) BY <1>5 DEF From
<1>7. CASE SameKey(q) = {q}
  <2>1. x.addr = q /\ \A i \in 1..sent[q].total : x.frags[i] = q BY <1>3, <1>5, <1>7
  <2>2. x.frags = [i \in 1..sent[q].total |-> q] BY <1>3, <2>1
  <2> QED BY <2>1, <2>2 DEF WholePacket, x
<1> QED BY <1>6, <1>7 DEF x

\* Whatever the loss, the reordering, the reuse of packet ids and the two tasks
\* do (handle_tuic_packet, TuicPacketAssembly): no fragment of a packet is sent
\* to the target twice.
THEOREM FragmentsSentOnce == Spec => []SentOnce
BY FragInit, FragNext, OnceFollows, PTL DEF Spec

\* What is sent to the target is a whole packet for its own address, or is made
\* of packets the client gave the same association and packet id.
THEOREM PacketsStayWhole == Spec => []WholeUnlessReused
BY FragInit, FragNext, WholeFollows, PTL DEF Spec

=============================================================================
