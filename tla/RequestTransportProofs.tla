---------------------- MODULE RequestTransportProofs ----------------------
(* Proofs about RequestTransport, for every number of ids, handlers and    *)
(* sessions and every capacity.                                            *)
EXTENDS RequestTransport, SequenceTheorems, TLAPS

-----------------------------------------------------------------------------
(* The inductive invariant.  None of the properties is inductive alone: a    *)
(* step of one thread relies on where the other threads of the session are.  *)

Pushing == {"respond", "v_push", "u_push"}
Before  == {"none", "header", "respond", "connect"}
Looping == {"v_down", "v_push", "v_up", "v_up_eof", "u_read", "u_recv", "u_push"}
Ended   == {"join", "remove", "done"}
Locked  == {"send", "sending", "read", "polling", "reply"}

\* Who is inside push_outgoing, and which threads exist in which phase.
Control(s) ==
    /\ push[s] # "none" => \/ main[s] \in Pushing
                           \/ main[s] = "join" /\ down[s] = "push"
    /\ up[s] # "none" \/ down[s] # "none" => main[s] \in Ended
    /\ down[s] \in {"run", "push"} \/ up[s] = "run" => main[s] = "join"
    /\ s > count => main[s] = "none"

\* The registry holds existing sessions under the id they were created for.
RegistryShape ==
    \A i \in Ids : registry[i] # 0 => registry[i] <= count /\ owner[registry[i]] = i

OpenRegistered == \A s \in Sessions : s <= count /\ ~closed[s] => registry[owner[s]] = s

\* Which thread owns the receiver, and what the uplink has done with it.
Uplink(s) ==
    /\ toTarget[s] = Run(0, Len(toTarget[s]))
    /\ main[s] \in Before => toTarget[s] = <<>>
    /\ main[s] = "none" => accepted[s] = 0 /\ chan[s] = <<>> /\ ~rx[s]
    /\ main[s] \in {"header", "respond", "connect"} \cup Looping => rx[s]
    /\ up[s] = "run" => rx[s]
    /\ up[s] = "eof" => ~rx[s] /\ Len(toTarget[s]) = accepted[s]
    /\ rx[s] => /\ chan[s] = Run(Len(toTarget[s]) + Held(s), Len(chan[s]))
                /\ accepted[s] = Len(toTarget[s]) + Held(s) + Len(chan[s])

\* Only a relay of UDP packets, while it runs or once it is over, has spoilt a body.
InUdp == {"u_read", "u_recv", "u_push", "remove", "done"}

Spoilt(s) ==
    /\ spoilt[s] \subseteq 1..Len(toTarget[s])
    /\ spoilt[s] # {} => up[s] = "none" /\ main[s] \in InUdp

\* The roundtrip lock and the response its holder carries.
Lock == \A h \in Handlers :
    /\ hpc[h] \in Locked <=> rt[hs[h]] = h
    /\ \A s \in Sessions : rt[s] = h => hs[h] = s
    /\ hpc[h] # "reply" => hdata[h] = <<>>

Downlink(s) ==
    /\ replies[s] = Run(0, Len(replies[s]))
    /\ InReply(s) = Run(Len(replies[s]), Len(InReply(s)))
    /\ out[s] = Run(Len(replies[s]) + Len(InReply(s)), Len(out[s]))
    /\ pushed[s] = Len(replies[s]) + Len(InReply(s)) + Len(out[s])
    /\ Len(out[s]) < MaxBuffered + MaxChunk

RegistryInv == RegistryShape /\ OpenRegistered
ControlInv  == \A s \in Sessions : Control(s)
UplinkInv   == \A s \in Sessions : Uplink(s)
SpoiltInv   == \A s \in Sessions : Spoilt(s)
DownlinkInv == \A s \in Sessions : Downlink(s)

IInv ==
    /\ TypeOK /\ ControlInv /\ RegistryInv
    /\ UplinkInv /\ SpoiltInv /\ Lock /\ DownlinkInv

-----------------------------------------------------------------------------
(* Facts about constants and sequences *)

LEMMA ConstantTypes ==
    /\ ChanCap \in Nat \ {0}  /\ MaxResp \in Nat \ {0}  /\ MaxBuffered \in Nat \ {0}
    /\ MaxChunk \in Nat \ {0} /\ MaxSessions \in Nat \ {0}
    /\ MaxUp \in Nat /\ MaxDown \in Nat
BY RequestTransportAssumption

LEMMA QueueTypes ==
    ASSUME NEW q \in Seq(Nat)
    PROVE  /\ Len(q) \in Nat
           /\ \A x \in Nat : Append(q, x) \in Seq(Nat)
           /\ q # <<>> => Tail(q) \in Seq(Nat) /\ Head(q) \in Nat
           /\ \A r \in Seq(Nat) : q \o r \in Seq(Nat)
OBVIOUS

LEMMA EmptyType == <<>> \in Seq(Nat)
OBVIOUS

LEMMA SplitTypes ==
    ASSUME NEW q \in Seq(Nat), NEW n \in 0..Len(q)
    PROVE  /\ SubSeq(q, 1, n) \in Seq(Nat)
           /\ SubSeq(q, n + 1, Len(q)) \in Seq(Nat)
<1>1. \A i \in 1..n : q[i] \in Nat OBVIOUS
<1>2. \A i \in n + 1..Len(q) : q[i] \in Nat OBVIOUS
<1> QED BY <1>1, <1>2, SubSeqProperties

LEMMA RunType ==
    ASSUME NEW n \in Nat, NEW k \in Nat
    PROVE  Run(n, k) \in Seq(Nat) /\ Len(Run(n, k)) = k
BY DEF Run

-----------------------------------------------------------------------------
(* Type correctness *)

LEMMA TypeInit == Init => TypeOK
<1> SUFFICES ASSUME Init PROVE TypeOK OBVIOUS
<1>1. (CHOOSE i \in Ids : TRUE) \in Ids BY RequestTransportAssumption
<1>2. 1 \in Sessions BY ConstantTypes DEF Sessions
<1>a. 0 \in 0..MaxSessions BY ConstantTypes
<1>3. TypeRegistry BY <1>1, <1>a DEF Init, TypeRegistry
<1>4. TypeFlags BY DEF Init, TypeFlags
<1>5. TypeStreams BY ConstantTypes DEF Init, TypeStreams
<1>6. TypeThreads BY DEF Init, TypeThreads, MainPC
<1>7. TypeHandlers BY <1>2 DEF Init, TypeHandlers, HandlerPC
<1>8. TypeSpoilt BY DEF Init, TypeSpoilt
<1> QED BY <1>3, <1>4, <1>5, <1>6, <1>7, <1>8 DEF TypeOK

\* A wake-up keeps the wait sets and the pushers' program counters well typed.
LEMMA NotifyAllType ==
    ASSUME TypeThreads, NEW S, NotifyAll(S)
    PROVE  /\ wait' \in [Sessions -> SUBSET Handlers]
           /\ push' \in [Sessions -> {"none", "check", "park", "parked"}]
BY DEF TypeThreads, NotifyAll

\* What Drain does to the variables it changes.
LEMMA DrainType ==
    ASSUME TypeOK, NEW h \in Handlers, Drain(h)
    PROVE  /\ hdata' \in [Handlers -> Seq(Nat)]
           /\ out' \in [Sessions -> Seq(Nat)]
           /\ hpc' \in [Handlers -> HandlerPC]
           /\ wait' \in [Sessions -> SUBSET Handlers]
           /\ push' \in [Sessions -> {"none", "check", "park", "parked"}]
<1> DEFINE s == hs[h]
           n == IF Len(out[s]) < MaxResp THEN Len(out[s]) ELSE MaxResp
<1>1. s \in Sessions /\ out[s] \in Seq(Nat)
  BY DEF TypeOK, TypeHandlers, TypeStreams
<1>2. n \in 0..Len(out[s]) BY <1>1, ConstantTypes, QueueTypes
<1>3. /\ SubSeq(out[s], 1, n) \in Seq(Nat)
      /\ SubSeq(out[s], n + 1, Len(out[s])) \in Seq(Nat)
  BY <1>1, <1>2, SplitTypes
<1>4. hdata' \in [Handlers -> Seq(Nat)] BY <1>3 DEF Drain, TypeOK, TypeHandlers
<1>5. out' \in [Sessions -> Seq(Nat)] BY <1>3 DEF Drain, TypeOK, TypeStreams
<1>6. hpc' \in [Handlers -> HandlerPC] BY DEF Drain, TypeOK, TypeHandlers, HandlerPC
<1> QED BY <1>4, <1>5, <1>6, NotifyAllType DEF Drain, TypeOK

\* spoilt only changes where the relays hand a body on.
LEMMA SpoiltUntouched ==
    ASSUME [Next]_vars
    PROVE  \/ UNCHANGED spoilt
           \/ \E s \in Sessions : LoopUp(s) \/ \E mode \in Modes : Connect(s, mode)
<1>1. ASSUME NEW h \in Handlers, HandlerStep(h) PROVE UNCHANGED spoilt
  BY <1>1 DEF HandlerStep, LockRoundtrip, CloneSender, SendBody, ReadOutgoing, PollWake,
     PollTimeout, Reply, upVars
<1>2. ASSUME NEW h \in Handlers, NEW i \in Ids, NEW body \in BOOLEAN, Acquire(h, i, body)
      PROVE  UNCHANGED spoilt
  BY <1>2 DEF Acquire
<1>3. ASSUME NEW s \in Sessions,
             PushCheck(s) \/ PushPark(s) \/ ReadHeader(s) \/ UpEof(s) \/ UpForward(s)
             \/ Join(s) \/ LoopEof(s) \/ Remove(s)
      PROVE  UNCHANGED spoilt
  BY <1>3 DEF PushCheck, PushPark, ReadHeader, UpEof, UpForward, Join, LoopEof,
     Remove, upVars
<1>4. ASSUME NEW s \in Sessions, TargetStep(s) \/ IdleElapsed(s) PROVE UNCHANGED spoilt
  BY <1>4 DEF TargetStep, IdleElapsed, DownRead, LoopDown, DownEof, upVars
<1>5. CASE UNCHANGED vars BY <1>5 DEF vars, upVars
<1> QED BY <1>1, <1>2, <1>3, <1>4, <1>5 DEF Next, SessionStep

LEMMA SpoiltTypeStep ==
    ASSUME TypeSpoilt, TypeStreams, [Next]_vars PROVE TypeSpoilt'
<1>1. ASSUME NEW s \in Sessions, NEW udp, Spoils(s, udp) PROVE TypeSpoilt'
  <2>1. Len(toTarget[s]) + 1 \in Nat BY DEF TypeStreams
  <2> QED BY <1>1, <2>1 DEF Spoils, TypeSpoilt
<1>2. ASSUME UNCHANGED spoilt PROVE TypeSpoilt' BY <1>2 DEF TypeSpoilt
<1>3. ASSUME NEW s \in Sessions, LoopUp(s) PROVE TypeSpoilt'
  <2>1. UNCHANGED spoilt \/ Spoils(s, main[s] = "u_read") BY <1>3 DEF LoopUp
  <2> QED BY <1>1, <1>2, <2>1
<1>4. ASSUME NEW s \in Sessions, NEW mode \in Modes, Connect(s, mode) PROVE TypeSpoilt'
  <2>1. UNCHANGED spoilt \/ Spoils(s, mode = "udp") BY <1>4 DEF Connect
  <2> QED BY <1>1, <1>2, <2>1
<1> QED BY <1>2, <1>3, <1>4, SpoiltUntouched

LEMMA TypeStep == TypeOK /\ ControlInv /\ [Next]_vars => TypeOK'
<1> SUFFICES ASSUME TypeOK, ControlInv, [Next]_vars PROVE TypeOK' OBVIOUS
<1>0. TypeSpoilt' BY SpoiltTypeStep DEF TypeOK
<1>1. ASSUME NEW h \in Handlers, LockRoundtrip(h) PROVE TypeOK'
  <2>1. TypeRegistry'
    BY <1>1 DEF LockRoundtrip, TypeOK, TypeRegistry, regVars, upVars, downVars, thrVars, hVars
  <2>2. TypeFlags'
    BY <1>1 DEF LockRoundtrip, TypeOK, TypeFlags, regVars, upVars, downVars, thrVars, hVars
  <2>3. TypeStreams'
    BY <1>1 DEF LockRoundtrip, TypeOK, TypeStreams, regVars, upVars, downVars, thrVars, hVars
  <2>4. TypeThreads'
    BY <1>1 DEF LockRoundtrip, TypeOK, TypeThreads, MainPC, regVars, upVars, downVars, thrVars, hVars
  <2>5. TypeHandlers'
    BY <1>1 DEF LockRoundtrip, TypeOK, TypeHandlers, HandlerPC, regVars, upVars, downVars, thrVars, hVars
  <2> QED BY <1>0, <2>1, <2>2, <2>3, <2>4, <2>5 DEF TypeOK
<1>2. ASSUME NEW h \in Handlers, CloneSender(h) PROVE TypeOK'
  <2>1. TypeRegistry'
    BY <1>2 DEF CloneSender, Abandon, TypeOK, TypeRegistry, regVars, upVars, downVars, thrVars, hVars
  <2>2. TypeFlags'
    BY <1>2 DEF CloneSender, Abandon, TypeOK, TypeFlags, regVars, upVars, downVars, thrVars, hVars
  <2>3. TypeStreams'
    BY <1>2 DEF CloneSender, Abandon, TypeOK, TypeStreams, regVars, upVars, downVars, thrVars, hVars
  <2>4. TypeThreads'
    BY <1>2 DEF CloneSender, Abandon, TypeOK, TypeThreads, MainPC, regVars, upVars, downVars, thrVars, hVars
  <2>5. TypeHandlers'
    BY <1>2 DEF CloneSender, Abandon, TypeOK, TypeHandlers, HandlerPC, regVars, upVars, downVars, thrVars, hVars
  <2> QED BY <1>0, <2>1, <2>2, <2>3, <2>4, <2>5 DEF TypeOK
<1>3. ASSUME NEW h \in Handlers, SendBody(h) PROVE TypeOK'
  <2>0. hs[h] \in Sessions BY DEF TypeOK, TypeHandlers
  <2>a. /\ accepted[hs[h]] + 1 \in Nat
        /\ Append(chan[hs[h]], accepted[hs[h]] + 1) \in Seq(Nat)
    BY <2>0, QueueTypes DEF TypeOK, TypeStreams
  <2>1. TypeRegistry'
    BY <1>3 DEF SendBody, Abandon, TypeOK, TypeRegistry, regVars, upVars, downVars, thrVars, hVars
  <2>2. TypeFlags'
    BY <1>3 DEF SendBody, Abandon, TypeOK, TypeFlags, regVars, upVars, downVars, thrVars, hVars
  <2>3. TypeStreams'
    <3>1. chan' \in [Sessions -> Seq(Nat)]
      BY <1>3, <2>0, <2>a, EmptyType DEF SendBody, Abandon, TypeOK, TypeStreams, regVars, upVars, downVars, thrVars, hVars
    <3>2. toTarget' \in [Sessions -> Seq(Nat)]
      BY <1>3, <2>0, <2>a, EmptyType DEF SendBody, Abandon, TypeOK, TypeStreams, regVars, upVars, downVars, thrVars, hVars
    <3>3. out' \in [Sessions -> Seq(Nat)]
      BY <1>3, <2>0, <2>a, EmptyType DEF SendBody, Abandon, TypeOK, TypeStreams, regVars, upVars, downVars, thrVars, hVars
    <3>4. replies' \in [Sessions -> Seq(Nat)]
      BY <1>3, <2>0, <2>a, EmptyType DEF SendBody, Abandon, TypeOK, TypeStreams, regVars, upVars, downVars, thrVars, hVars
    <3>5. accepted' \in [Sessions -> Nat] /\ pushed' \in [Sessions -> Nat] /\ chunk' \in [Sessions -> 0..MaxChunk]
      BY <1>3, <2>0, <2>a, ConstantTypes, ZenonT(90) DEF SendBody, Abandon, TypeOK, TypeStreams, regVars, upVars, downVars, thrVars, hVars
    <3> QED BY <3>1, <3>2, <3>3, <3>4, <3>5 DEF TypeStreams
  <2>4. TypeThreads'
    BY <1>3 DEF SendBody, Abandon, TypeOK, TypeThreads, MainPC, regVars, upVars, downVars, thrVars, hVars
  <2>5. TypeHandlers'
    BY <1>3 DEF SendBody, Abandon, TypeOK, TypeHandlers, HandlerPC, regVars, upVars, downVars, thrVars, hVars
  <2> QED BY <1>0, <2>1, <2>2, <2>3, <2>4, <2>5 DEF TypeOK
<1>4. ASSUME NEW h \in Handlers, ReadOutgoing(h) PROVE TypeOK'
  <2>0. hs[h] \in Sessions BY DEF TypeOK, TypeHandlers
  <2>1. TypeRegistry'
    BY <1>4 DEF ReadOutgoing, TypeOK, TypeRegistry, regVars, upVars, downVars, thrVars, hVars
  <2>2. TypeFlags'
    BY <1>4 DEF ReadOutgoing, TypeOK, TypeFlags, regVars, upVars, downVars, thrVars, hVars
  <2>3. TypeStreams'
    BY <1>4, DrainType DEF ReadOutgoing, TypeOK, TypeStreams, regVars, upVars, downVars, thrVars, hVars
  <2>4. TypeThreads'
    BY <1>4, <2>0, DrainType DEF ReadOutgoing, TypeOK, TypeThreads, MainPC, regVars, upVars, downVars, thrVars, hVars
  <2>5. TypeHandlers'
    BY <1>4, DrainType DEF ReadOutgoing, TypeOK, TypeHandlers, HandlerPC, regVars, upVars, downVars, thrVars, hVars
  <2> QED BY <1>0, <2>1, <2>2, <2>3, <2>4, <2>5 DEF TypeOK
<1>5. ASSUME NEW h \in Handlers, PollWake(h) PROVE TypeOK'
  <2>0. hs[h] \in Sessions BY DEF TypeOK, TypeHandlers
  <2>1. TypeRegistry'
    BY <1>5 DEF PollWake, TypeOK, TypeRegistry, regVars, upVars, downVars, thrVars, hVars
  <2>2. TypeFlags'
    BY <1>5 DEF PollWake, TypeOK, TypeFlags, regVars, upVars, downVars, thrVars, hVars
  <2>3. TypeStreams'
    BY <1>5, DrainType DEF PollWake, TypeOK, TypeStreams, regVars, upVars, downVars, thrVars, hVars
  <2>4. TypeThreads'
    BY <1>5, <2>0, DrainType DEF PollWake, TypeOK, TypeThreads, MainPC, regVars, upVars, downVars, thrVars, hVars
  <2>5. TypeHandlers'
    BY <1>5, DrainType DEF PollWake, TypeOK, TypeHandlers, HandlerPC, regVars, upVars, downVars, thrVars, hVars
  <2> QED BY <1>0, <2>1, <2>2, <2>3, <2>4, <2>5 DEF TypeOK
<1>6. ASSUME NEW h \in Handlers, PollTimeout(h) PROVE TypeOK'
  <2>0. hs[h] \in Sessions BY DEF TypeOK, TypeHandlers
  <2>1. TypeRegistry'
    BY <1>6 DEF PollTimeout, TypeOK, TypeRegistry, regVars, upVars, downVars, thrVars, hVars
  <2>2. TypeFlags'
    BY <1>6 DEF PollTimeout, TypeOK, TypeFlags, regVars, upVars, downVars, thrVars, hVars
  <2>3. TypeStreams'
    BY <1>6, DrainType DEF PollTimeout, TypeOK, TypeStreams, regVars, upVars, downVars, thrVars, hVars
  <2>4. TypeThreads'
    BY <1>6, <2>0, DrainType DEF PollTimeout, TypeOK, TypeThreads, MainPC, regVars, upVars, downVars, thrVars, hVars
  <2>5. TypeHandlers'
    BY <1>6, DrainType DEF PollTimeout, TypeOK, TypeHandlers, HandlerPC, regVars, upVars, downVars, thrVars, hVars
  <2> QED BY <1>0, <2>1, <2>2, <2>3, <2>4, <2>5 DEF TypeOK
<1>7. ASSUME NEW h \in Handlers, Reply(h) PROVE TypeOK'
  <2>0. hs[h] \in Sessions BY DEF TypeOK, TypeHandlers
  <2>a. replies[hs[h]] \o hdata[h] \in Seq(Nat)
    BY <2>0, QueueTypes DEF TypeOK, TypeStreams, TypeHandlers
  <2>1. TypeRegistry'
    BY <1>7 DEF Reply, TypeOK, TypeRegistry, regVars, upVars, downVars, thrVars, hVars
  <2>2. TypeFlags'
    BY <1>7 DEF Reply, TypeOK, TypeFlags, regVars, upVars, downVars, thrVars, hVars
  <2>3. TypeStreams'
    BY <1>7, <2>a DEF Reply, TypeOK, TypeStreams, regVars, upVars, downVars, thrVars, hVars
  <2>4. TypeThreads'
    BY <1>7 DEF Reply, TypeOK, TypeThreads, MainPC, regVars, upVars, downVars, thrVars, hVars
  <2>5. TypeHandlers'
    BY <1>7 DEF Reply, TypeOK, TypeHandlers, HandlerPC, regVars, upVars, downVars, thrVars, hVars
  <2> QED BY <1>0, <2>1, <2>2, <2>3, <2>4, <2>5 DEF TypeOK
<1>8. ASSUME NEW s \in Sessions, Remove(s) PROVE TypeOK'
  <2>1. TypeRegistry'
    BY <1>8, ConstantTypes DEF Remove, Close, TypeOK, TypeRegistry, regVars, upVars, downVars, thrVars, hVars
  <2>2. TypeFlags'
    BY <1>8 DEF Remove, Close, TypeOK, TypeFlags, regVars, upVars, downVars, thrVars, hVars
  <2>3. TypeStreams'
    BY <1>8 DEF Remove, Close, TypeOK, TypeStreams, regVars, upVars, downVars, thrVars, hVars
  <2>4. TypeThreads'
    BY <1>8, NotifyAllType DEF Remove, Close, TypeOK, TypeThreads, MainPC, regVars, upVars, downVars, thrVars, hVars
  <2>5. TypeHandlers'
    BY <1>8 DEF Remove, Close, TypeOK, TypeHandlers, HandlerPC, regVars, upVars, downVars, thrVars, hVars
  <2> QED BY <1>0, <2>1, <2>2, <2>3, <2>4, <2>5 DEF TypeOK
<1>9. ASSUME NEW s \in Sessions, IdleElapsed(s) PROVE TypeOK'
  <2>1. TypeRegistry'
    BY <1>9 DEF IdleElapsed, TypeOK, TypeRegistry, regVars, upVars, downVars, thrVars, hVars
  <2>2. TypeFlags'
    BY <1>9 DEF IdleElapsed, TypeOK, TypeFlags, regVars, upVars, downVars, thrVars, hVars
  <2>3. TypeStreams'
    BY <1>9 DEF IdleElapsed, TypeOK, TypeStreams, regVars, upVars, downVars, thrVars, hVars
  <2>4. TypeThreads'
    BY <1>9 DEF IdleElapsed, TypeOK, TypeThreads, MainPC, regVars, upVars, downVars, thrVars, hVars
  <2>5. TypeHandlers'
    BY <1>9 DEF IdleElapsed, TypeOK, TypeHandlers, HandlerPC, regVars, upVars, downVars, thrVars, hVars
  <2> QED BY <1>0, <2>1, <2>2, <2>3, <2>4, <2>5 DEF TypeOK
<1>10. ASSUME NEW s \in Sessions, PushCheck(s) PROVE TypeOK'
  <2>a. /\ out[s] \o Run(pushed[s], chunk[s]) \in Seq(Nat)
        /\ pushed[s] + chunk[s] \in Nat
    <3>1. pushed[s] \in Nat /\ chunk[s] \in Nat /\ out[s] \in Seq(Nat)
      BY ConstantTypes DEF TypeOK, TypeStreams
    <3>2. Run(pushed[s], chunk[s]) \in Seq(Nat) BY <3>1, RunType
    <3> QED BY <3>1, <3>2, QueueTypes
  <2>1. TypeRegistry'
    BY <1>10 DEF PushCheck, PushFails, PushAppends, TypeOK, TypeRegistry, regVars, upVars, downVars, thrVars, hVars
  <2>2. TypeFlags'
    BY <1>10 DEF PushCheck, PushFails, PushAppends, TypeOK, TypeFlags, regVars, upVars, downVars, thrVars, hVars
  <2>3. TypeStreams'
    <3>1. chan' \in [Sessions -> Seq(Nat)]
      BY <1>10, <2>a, EmptyType DEF PushCheck, PushFails, PushAppends, TypeOK, TypeStreams, regVars, upVars, downVars, thrVars, hVars
    <3>2. toTarget' \in [Sessions -> Seq(Nat)]
      BY <1>10, <2>a, EmptyType DEF PushCheck, PushFails, PushAppends, TypeOK, TypeStreams, regVars, upVars, downVars, thrVars, hVars
    <3>3. out' \in [Sessions -> Seq(Nat)]
      BY <1>10, <2>a, EmptyType DEF PushCheck, PushFails, PushAppends, TypeOK, TypeStreams, regVars, upVars, downVars, thrVars, hVars
    <3>4. replies' \in [Sessions -> Seq(Nat)]
      BY <1>10, <2>a, EmptyType DEF PushCheck, PushFails, PushAppends, TypeOK, TypeStreams, regVars, upVars, downVars, thrVars, hVars
    <3>5. accepted' \in [Sessions -> Nat] /\ pushed' \in [Sessions -> Nat] /\ chunk' \in [Sessions -> 0..MaxChunk]
      BY <1>10, <2>a, ConstantTypes, ZenonT(90) DEF PushCheck, PushFails, PushAppends, TypeOK, TypeStreams, regVars, upVars, downVars, thrVars, hVars
    <3> QED BY <3>1, <3>2, <3>3, <3>4, <3>5 DEF TypeStreams
  <2>4. TypeThreads'
    <3>1. main[s] \in Pushing \/ down[s] = "push"
      BY <1>10 DEF ControlInv, Control, PushCheck
    <3>2. main[s] \in Pushing => MainAfterPush[main[s]] \in MainPC
      BY DEF Pushing, MainAfterPush, MainPC
    <3>a. main \in [Sessions -> MainPC] BY DEF TypeOK, TypeThreads
    <3>b. "remove" \in MainPC BY DEF MainPC
    <3>c. \/ main' = main
          \/ main' = [main EXCEPT ![s] = "remove"]
          \/ down[s] # "push" /\ main' = [main EXCEPT ![s] = MainAfterPush[main[s]]]
      BY <1>10 DEF PushCheck, PushFails, PushAppends
    <3>d. ASSUME NEW x \in MainPC PROVE [main EXCEPT ![s] = x] \in [Sessions -> MainPC]
      BY <3>a
    <3>3. main' \in [Sessions -> MainPC]
      BY <3>1, <3>2, <3>a, <3>b, <3>c, <3>d
    <3> QED BY <1>10, <3>3 DEF PushCheck, PushFails, PushAppends, TypeOK, TypeThreads, regVars
  <2>5. TypeHandlers'
    BY <1>10 DEF PushCheck, PushFails, PushAppends, TypeOK, TypeHandlers, HandlerPC, regVars, upVars, downVars, thrVars, hVars
  <2> QED BY <1>0, <2>1, <2>2, <2>3, <2>4, <2>5 DEF TypeOK
<1>11. ASSUME NEW s \in Sessions, PushPark(s) PROVE TypeOK'
  <2>1. TypeRegistry'
    BY <1>11 DEF PushPark, TypeOK, TypeRegistry, regVars, upVars, downVars, thrVars, hVars
  <2>2. TypeFlags'
    BY <1>11 DEF PushPark, TypeOK, TypeFlags, regVars, upVars, downVars, thrVars, hVars
  <2>3. TypeStreams'
    BY <1>11 DEF PushPark, TypeOK, TypeStreams, regVars, upVars, downVars, thrVars, hVars
  <2>4. TypeThreads'
    BY <1>11 DEF PushPark, TypeOK, TypeThreads, MainPC, regVars, upVars, downVars, thrVars, hVars
  <2>5. TypeHandlers'
    BY <1>11 DEF PushPark, TypeOK, TypeHandlers, HandlerPC, regVars, upVars, downVars, thrVars, hVars
  <2> QED BY <1>0, <2>1, <2>2, <2>3, <2>4, <2>5 DEF TypeOK
<1>12. ASSUME NEW s \in Sessions, ReadHeader(s) PROVE TypeOK'
  <2>a. chan[s] # <<>> => Tail(chan[s]) \in Seq(Nat) /\ Head(chan[s]) \in Nat
    BY QueueTypes DEF TypeOK, TypeStreams
  <2>c. 1 \in 0..MaxChunk BY ConstantTypes
  <2>1. TypeRegistry'
    BY <1>12 DEF ReadHeader, ThreadFails, TypeOK, TypeRegistry, regVars, upVars, downVars, thrVars, hVars
  <2>2. TypeFlags'
    BY <1>12 DEF ReadHeader, ThreadFails, TypeOK, TypeFlags, regVars, upVars, downVars, thrVars, hVars
  <2>3. TypeStreams'
    <3>1. chan' \in [Sessions -> Seq(Nat)]
      BY <1>12, <2>a, <2>c, EmptyType DEF ReadHeader, ThreadFails, TypeOK, TypeStreams, regVars, upVars, downVars, thrVars, hVars
    <3>2. toTarget' \in [Sessions -> Seq(Nat)]
      BY <1>12, <2>a, <2>c, EmptyType DEF ReadHeader, ThreadFails, TypeOK, TypeStreams, regVars, upVars, downVars, thrVars, hVars
    <3>3. out' \in [Sessions -> Seq(Nat)]
      BY <1>12, <2>a, <2>c, EmptyType DEF ReadHeader, ThreadFails, TypeOK, TypeStreams, regVars, upVars, downVars, thrVars, hVars
    <3>4. replies' \in [Sessions -> Seq(Nat)]
      BY <1>12, <2>a, <2>c, EmptyType DEF ReadHeader, ThreadFails, TypeOK, TypeStreams, regVars, upVars, downVars, thrVars, hVars
    <3>5. accepted' \in [Sessions -> Nat] /\ pushed' \in [Sessions -> Nat] /\ chunk' \in [Sessions -> 0..MaxChunk]
      BY <1>12, <2>a, <2>c, ConstantTypes DEF ReadHeader, ThreadFails, TypeOK, TypeStreams, regVars, upVars, downVars, thrVars, hVars
    <3> QED BY <3>1, <3>2, <3>3, <3>4, <3>5 DEF TypeStreams
  <2>4. TypeThreads'
    BY <1>12 DEF ReadHeader, ThreadFails, TypeOK, TypeThreads, MainPC, regVars, upVars, downVars, thrVars, hVars
  <2>5. TypeHandlers'
    BY <1>12 DEF ReadHeader, ThreadFails, TypeOK, TypeHandlers, HandlerPC, regVars, upVars, downVars, thrVars, hVars
  <2> QED BY <1>0, <2>1, <2>2, <2>3, <2>4, <2>5 DEF TypeOK
<1>13. ASSUME NEW s \in Sessions, UpForward(s) PROVE TypeOK'
  <2>a. chan[s] # <<>> => Tail(chan[s]) \in Seq(Nat) /\ Head(chan[s]) \in Nat
    BY QueueTypes DEF TypeOK, TypeStreams
  <2>b. chan[s] # <<>> => Append(toTarget[s], Head(chan[s])) \in Seq(Nat)
    BY <2>a, QueueTypes DEF TypeOK, TypeStreams
  <2>1. TypeRegistry'
    BY <1>13 DEF UpForward, TypeOK, TypeRegistry, regVars, upVars, downVars, thrVars, hVars
  <2>2. TypeFlags'
    BY <1>13 DEF UpForward, TypeOK, TypeFlags, regVars, upVars, downVars, thrVars, hVars
  <2>3. TypeStreams'
    <3>1. chan' \in [Sessions -> Seq(Nat)]
      BY <1>13, <2>a, <2>b, EmptyType DEF UpForward, TypeOK, TypeStreams, regVars, upVars, downVars, thrVars, hVars
    <3>2. toTarget' \in [Sessions -> Seq(Nat)]
      BY <1>13, <2>a, <2>b, EmptyType DEF UpForward, TypeOK, TypeStreams, regVars, upVars, downVars, thrVars, hVars
    <3>3. out' \in [Sessions -> Seq(Nat)]
      BY <1>13, <2>a, <2>b, EmptyType DEF UpForward, TypeOK, TypeStreams, regVars, upVars, downVars, thrVars, hVars
    <3>4. replies' \in [Sessions -> Seq(Nat)]
      BY <1>13, <2>a, <2>b, EmptyType DEF UpForward, TypeOK, TypeStreams, regVars, upVars, downVars, thrVars, hVars
    <3>5. accepted' \in [Sessions -> Nat] /\ pushed' \in [Sessions -> Nat] /\ chunk' \in [Sessions -> 0..MaxChunk]
      BY <1>13, <2>a, <2>b, ConstantTypes DEF UpForward, TypeOK, TypeStreams, regVars, upVars, downVars, thrVars, hVars
    <3> QED BY <3>1, <3>2, <3>3, <3>4, <3>5 DEF TypeStreams
  <2>4. TypeThreads'
    BY <1>13 DEF UpForward, TypeOK, TypeThreads, MainPC, regVars, upVars, downVars, thrVars, hVars
  <2>5. TypeHandlers'
    BY <1>13 DEF UpForward, TypeOK, TypeHandlers, HandlerPC, regVars, upVars, downVars, thrVars, hVars
  <2> QED BY <1>0, <2>1, <2>2, <2>3, <2>4, <2>5 DEF TypeOK
<1>14. ASSUME NEW s \in Sessions, UpEof(s) PROVE TypeOK'
  <2>1. TypeRegistry'
    BY <1>14 DEF UpEof, TypeOK, TypeRegistry, regVars, upVars, downVars, thrVars, hVars
  <2>2. TypeFlags'
    BY <1>14 DEF UpEof, TypeOK, TypeFlags, regVars, upVars, downVars, thrVars, hVars
  <2>3. TypeStreams'
    BY <1>14 DEF UpEof, TypeOK, TypeStreams, regVars, upVars, downVars, thrVars, hVars
  <2>4. TypeThreads'
    BY <1>14 DEF UpEof, TypeOK, TypeThreads, MainPC, regVars, upVars, downVars, thrVars, hVars
  <2>5. TypeHandlers'
    BY <1>14 DEF UpEof, TypeOK, TypeHandlers, HandlerPC, regVars, upVars, downVars, thrVars, hVars
  <2> QED BY <1>0, <2>1, <2>2, <2>3, <2>4, <2>5 DEF TypeOK
<1>15. ASSUME NEW s \in Sessions, DownEof(s) PROVE TypeOK'
  <2>1. TypeRegistry'
    BY <1>15 DEF DownEof, TypeOK, TypeRegistry, regVars, upVars, downVars, thrVars, hVars
  <2>2. TypeFlags'
    BY <1>15 DEF DownEof, TypeOK, TypeFlags, regVars, upVars, downVars, thrVars, hVars
  <2>3. TypeStreams'
    BY <1>15 DEF DownEof, TypeOK, TypeStreams, regVars, upVars, downVars, thrVars, hVars
  <2>4. TypeThreads'
    BY <1>15 DEF DownEof, TypeOK, TypeThreads, MainPC, regVars, upVars, downVars, thrVars, hVars
  <2>5. TypeHandlers'
    BY <1>15 DEF DownEof, TypeOK, TypeHandlers, HandlerPC, regVars, upVars, downVars, thrVars, hVars
  <2> QED BY <1>0, <2>1, <2>2, <2>3, <2>4, <2>5 DEF TypeOK
<1>16. ASSUME NEW s \in Sessions, Join(s) PROVE TypeOK'
  <2>1. TypeRegistry'
    BY <1>16 DEF Join, Close, TypeOK, TypeRegistry, regVars, upVars, downVars, thrVars, hVars
  <2>2. TypeFlags'
    BY <1>16 DEF Join, Close, TypeOK, TypeFlags, regVars, upVars, downVars, thrVars, hVars
  <2>3. TypeStreams'
    BY <1>16 DEF Join, Close, TypeOK, TypeStreams, regVars, upVars, downVars, thrVars, hVars
  <2>4. TypeThreads'
    BY <1>16, NotifyAllType DEF Join, Close, TypeOK, TypeThreads, MainPC, regVars, upVars, downVars, thrVars, hVars
  <2>5. TypeHandlers'
    BY <1>16 DEF Join, Close, TypeOK, TypeHandlers, HandlerPC, regVars, upVars, downVars, thrVars, hVars
  <2> QED BY <1>0, <2>1, <2>2, <2>3, <2>4, <2>5 DEF TypeOK
<1>17. ASSUME NEW s \in Sessions, LoopUp(s) PROVE TypeOK'
  <2>a. chan[s] # <<>> => Tail(chan[s]) \in Seq(Nat) /\ Head(chan[s]) \in Nat
    BY QueueTypes DEF TypeOK, TypeStreams
  <2>b. chan[s] # <<>> => Append(toTarget[s], Head(chan[s])) \in Seq(Nat)
    BY <2>a, QueueTypes DEF TypeOK, TypeStreams
  <2>1. TypeRegistry'
    BY <1>17 DEF LoopUp, ThreadFails, TypeOK, TypeRegistry, regVars, upVars, downVars, thrVars, hVars
  <2>2. TypeFlags'
    BY <1>17 DEF LoopUp, ThreadFails, TypeOK, TypeFlags, regVars, upVars, downVars, thrVars, hVars
  <2>3. TypeStreams'
    <3>1. chan' \in [Sessions -> Seq(Nat)]
      BY <1>17, <2>a, <2>b, EmptyType DEF LoopUp, ThreadFails, TypeOK, TypeStreams, regVars, upVars, downVars, thrVars, hVars
    <3>2. toTarget' \in [Sessions -> Seq(Nat)]
      BY <1>17, <2>a, <2>b, EmptyType DEF LoopUp, ThreadFails, TypeOK, TypeStreams, regVars, upVars, downVars, thrVars, hVars
    <3>3. out' \in [Sessions -> Seq(Nat)]
      BY <1>17, <2>a, <2>b, EmptyType DEF LoopUp, ThreadFails, TypeOK, TypeStreams, regVars, upVars, downVars, thrVars, hVars
    <3>4. replies' \in [Sessions -> Seq(Nat)]
      BY <1>17, <2>a, <2>b, EmptyType DEF LoopUp, ThreadFails, TypeOK, TypeStreams, regVars, upVars, downVars, thrVars, hVars
    <3>5. accepted' \in [Sessions -> Nat] /\ pushed' \in [Sessions -> Nat] /\ chunk' \in [Sessions -> 0..MaxChunk]
      BY <1>17, <2>a, <2>b, ConstantTypes DEF LoopUp, ThreadFails, TypeOK, TypeStreams, regVars, upVars, downVars, thrVars, hVars
    <3> QED BY <3>1, <3>2, <3>3, <3>4, <3>5 DEF TypeStreams
  <2>4. TypeThreads'
    BY <1>17 DEF LoopUp, ThreadFails, TypeOK, TypeThreads, MainPC, regVars, upVars, downVars, thrVars, hVars
  <2>5. TypeHandlers'
    BY <1>17 DEF LoopUp, ThreadFails, TypeOK, TypeHandlers, HandlerPC, regVars, upVars, downVars, thrVars, hVars
  <2> QED BY <1>0, <2>1, <2>2, <2>3, <2>4, <2>5 DEF TypeOK
<1>18. ASSUME NEW s \in Sessions, LoopEof(s) PROVE TypeOK'
  <2>1. TypeRegistry'
    BY <1>18 DEF LoopEof, Close, TypeOK, TypeRegistry, regVars, upVars, downVars, thrVars, hVars
  <2>2. TypeFlags'
    BY <1>18 DEF LoopEof, Close, TypeOK, TypeFlags, regVars, upVars, downVars, thrVars, hVars
  <2>3. TypeStreams'
    BY <1>18 DEF LoopEof, Close, TypeOK, TypeStreams, regVars, upVars, downVars, thrVars, hVars
  <2>4. TypeThreads'
    BY <1>18, NotifyAllType DEF LoopEof, Close, TypeOK, TypeThreads, MainPC, regVars, upVars, downVars, thrVars, hVars
  <2>5. TypeHandlers'
    BY <1>18 DEF LoopEof, Close, TypeOK, TypeHandlers, HandlerPC, regVars, upVars, downVars, thrVars, hVars
  <2> QED BY <1>0, <2>1, <2>2, <2>3, <2>4, <2>5 DEF TypeOK
<1>19. ASSUME NEW s \in Sessions, NEW mode \in Modes, Connect(s, mode) PROVE TypeOK'
  <2>a. Append(toTarget[s], 1) \in Seq(Nat)
    BY QueueTypes DEF TypeOK, TypeStreams
  <2>b. [raw |-> "join", vision |-> "v_down", udp |-> "u_read"][mode] \in MainPC
    BY RequestTransportAssumption DEF MainPC
  <2>1. TypeRegistry'
    BY <1>19 DEF Connect, ThreadFails, TypeOK, TypeRegistry, regVars, upVars, downVars, thrVars, hVars
  <2>2. TypeFlags'
    BY <1>19 DEF Connect, ThreadFails, TypeOK, TypeFlags, regVars, upVars, downVars, thrVars, hVars
  <2>3. TypeStreams'
    <3>1. chan' \in [Sessions -> Seq(Nat)]
      BY <1>19, <2>a, EmptyType DEF Connect, ThreadFails, TypeOK, TypeStreams, regVars, upVars, downVars, thrVars, hVars
    <3>2. toTarget' \in [Sessions -> Seq(Nat)]
      BY <1>19, <2>a, EmptyType DEF Connect, ThreadFails, TypeOK, TypeStreams, regVars, upVars, downVars, thrVars, hVars
    <3>3. out' \in [Sessions -> Seq(Nat)]
      BY <1>19, <2>a, EmptyType DEF Connect, ThreadFails, TypeOK, TypeStreams, regVars, upVars, downVars, thrVars, hVars
    <3>4. replies' \in [Sessions -> Seq(Nat)]
      BY <1>19, <2>a, EmptyType DEF Connect, ThreadFails, TypeOK, TypeStreams, regVars, upVars, downVars, thrVars, hVars
    <3>5. accepted' \in [Sessions -> Nat] /\ pushed' \in [Sessions -> Nat] /\ chunk' \in [Sessions -> 0..MaxChunk]
      BY <1>19, <2>a, ConstantTypes DEF Connect, ThreadFails, TypeOK, TypeStreams, regVars, upVars, downVars, thrVars, hVars
    <3> QED BY <3>1, <3>2, <3>3, <3>4, <3>5 DEF TypeStreams
  <2>4. TypeThreads'
    BY <1>19, <2>b DEF Connect, ThreadFails, TypeOK, TypeThreads, MainPC, regVars, upVars, downVars, thrVars, hVars
  <2>5. TypeHandlers'
    BY <1>19 DEF Connect, ThreadFails, TypeOK, TypeHandlers, HandlerPC, regVars, upVars, downVars, thrVars, hVars
  <2> QED BY <1>0, <2>1, <2>2, <2>3, <2>4, <2>5 DEF TypeOK
<1>20. ASSUME NEW s \in Sessions, NEW k \in 1..MaxChunk, DownRead(s, k) PROVE TypeOK'
  <2>1. TypeRegistry'
    BY <1>20 DEF DownRead, TypeOK, TypeRegistry, regVars, upVars, downVars, thrVars, hVars
  <2>2. TypeFlags'
    BY <1>20 DEF DownRead, TypeOK, TypeFlags, regVars, upVars, downVars, thrVars, hVars
  <2>3. TypeStreams'
    BY <1>20, ConstantTypes DEF DownRead, TypeOK, TypeStreams, regVars, upVars, downVars, thrVars, hVars
  <2>4. TypeThreads'
    BY <1>20 DEF DownRead, TypeOK, TypeThreads, MainPC, regVars, upVars, downVars, thrVars, hVars
  <2>5. TypeHandlers'
    BY <1>20 DEF DownRead, TypeOK, TypeHandlers, HandlerPC, regVars, upVars, downVars, thrVars, hVars
  <2> QED BY <1>0, <2>1, <2>2, <2>3, <2>4, <2>5 DEF TypeOK
<1>21. ASSUME NEW s \in Sessions, NEW k \in 1..MaxChunk, LoopDown(s, k) PROVE TypeOK'
  <2>c. k \in 0..MaxChunk BY ConstantTypes
  <2>1. TypeRegistry'
    BY <1>21 DEF LoopDown, ThreadFails, TypeOK, TypeRegistry, regVars, upVars, downVars, thrVars, hVars
  <2>2. TypeFlags'
    BY <1>21 DEF LoopDown, ThreadFails, TypeOK, TypeFlags, regVars, upVars, downVars, thrVars, hVars
  <2>3. TypeStreams'
    <3>1. chan' \in [Sessions -> Seq(Nat)]
      BY <1>21, <2>c, EmptyType DEF LoopDown, ThreadFails, TypeOK, TypeStreams, regVars, upVars, downVars, thrVars, hVars
    <3>2. toTarget' \in [Sessions -> Seq(Nat)]
      BY <1>21, <2>c, EmptyType DEF LoopDown, ThreadFails, TypeOK, TypeStreams, regVars, upVars, downVars, thrVars, hVars
    <3>3. out' \in [Sessions -> Seq(Nat)]
      BY <1>21, <2>c, EmptyType DEF LoopDown, ThreadFails, TypeOK, TypeStreams, regVars, upVars, downVars, thrVars, hVars
    <3>4. replies' \in [Sessions -> Seq(Nat)]
      BY <1>21, <2>c, EmptyType DEF LoopDown, ThreadFails, TypeOK, TypeStreams, regVars, upVars, downVars, thrVars, hVars
    <3>5. accepted' \in [Sessions -> Nat] /\ pushed' \in [Sessions -> Nat] /\ chunk' \in [Sessions -> 0..MaxChunk]
      BY <1>21, <2>c, ConstantTypes, ZenonT(90) DEF LoopDown, ThreadFails, TypeOK, TypeStreams, regVars, upVars, downVars, thrVars, hVars
    <3> QED BY <3>1, <3>2, <3>3, <3>4, <3>5 DEF TypeStreams
  <2>4. TypeThreads'
    BY <1>21 DEF LoopDown, ThreadFails, TypeOK, TypeThreads, MainPC, regVars, upVars, downVars, thrVars, hVars
  <2>5. TypeHandlers'
    BY <1>21 DEF LoopDown, ThreadFails, TypeOK, TypeHandlers, HandlerPC, regVars, upVars, downVars, thrVars, hVars
  <2> QED BY <1>0, <2>1, <2>2, <2>3, <2>4, <2>5 DEF TypeOK
<1>22. ASSUME NEW h \in Handlers, NEW i \in Ids, NEW body \in BOOLEAN, Acquire(h, i, body) PROVE TypeOK'
  <2> DEFINE kept == [j \in Ids |-> IF j \in Expired THEN 0 ELSE registry[j]]
             s == IF kept[i] # 0 THEN kept[i] ELSE count + 1
  <2>a. kept \in [Ids -> 0..MaxSessions] BY ConstantTypes DEF TypeOK, TypeRegistry
  <2>b. s \in Sessions BY <1>22 DEF Acquire
  <2>c. s \in 0..MaxSessions BY <2>b, ConstantTypes DEF Sessions
  <2>1. TypeRegistry'
    <3>1. registry' \in [Ids -> 0..MaxSessions] BY <1>22, <2>a, <2>c DEF Acquire
    <3>2. count' \in 0..MaxSessions BY <1>22, <2>c DEF Acquire, TypeOK, TypeRegistry
    <3>3. owner' \in [Sessions -> Ids] BY <1>22, <2>b DEF Acquire, TypeOK, TypeRegistry
    <3> QED BY <3>1, <3>2, <3>3 DEF TypeRegistry
  <2>2. TypeFlags'
    BY <1>22 DEF Acquire, TypeOK, TypeFlags, regVars, upVars, downVars, thrVars, hVars
  <2>3. TypeStreams'
    BY <1>22 DEF Acquire, TypeOK, TypeStreams, regVars, upVars, downVars, thrVars, hVars
  <2>4. TypeThreads'
    BY <1>22, <2>b, NotifyAllType DEF Acquire, TypeOK, TypeThreads, MainPC, regVars, upVars, downVars, thrVars, hVars
  <2>5. TypeHandlers'
    BY <1>22, <2>b DEF Acquire, TypeOK, TypeHandlers, HandlerPC, regVars, upVars, downVars, thrVars, hVars
  <2> QED BY <1>0, <2>1, <2>2, <2>3, <2>4, <2>5 DEF TypeOK
<1>23. CASE UNCHANGED vars
  BY <1>23 DEF vars, regVars, upVars, downVars, thrVars, hVars, TypeOK, TypeRegistry, TypeFlags, TypeStreams, TypeSpoilt, TypeThreads, TypeHandlers
<1> QED
  BY <1>1, <1>2, <1>3, <1>4, <1>5, <1>6, <1>7, <1>8, <1>9, <1>10, <1>11, <1>12, <1>13, <1>14, <1>15, <1>16, <1>17, <1>18, <1>19, <1>20, <1>21, <1>22, <1>23
  DEF Next, HandlerStep, SessionStep, TargetStep

\* A wake-up starts no call of push_outgoing.
LEMMA NotifyKeepsPushers ==
    ASSUME TypeThreads, NEW S, NotifyAll(S), NEW r \in Sessions
    PROVE  push'[r] # "none" => push[r] # "none"
BY DEF NotifyAll, TypeThreads

LEMMA ControlKept ==
    ASSUME ControlInv, NEW r \in Sessions, push'[r] # "none" => push[r] # "none",
           UNCHANGED <<main, up, down, count>>
    PROVE  Control(r)'
BY DEF ControlInv, Control

LEMMA ControlStep == TypeOK /\ ControlInv /\ [Next]_vars => ControlInv'
<1> SUFFICES ASSUME TypeOK, ControlInv, [Next]_vars PROVE ControlInv' OBVIOUS
<1>1. ASSUME NEW h \in Handlers, LockRoundtrip(h) PROVE ControlInv'
  BY <1>1 DEF LockRoundtrip, ControlInv, Control, Pushing, Ended, TypeOK, TypeRegistry, TypeThreads, Sessions, regVars, upVars, downVars, thrVars, hVars
<1>2. ASSUME NEW h \in Handlers, CloneSender(h) PROVE ControlInv'
  BY <1>2 DEF CloneSender, Abandon, ControlInv, Control, Pushing, Ended, TypeOK, TypeRegistry, TypeThreads, Sessions, regVars, upVars, downVars, thrVars, hVars
<1>3. ASSUME NEW h \in Handlers, SendBody(h) PROVE ControlInv'
  BY <1>3 DEF SendBody, Abandon, ControlInv, Control, Pushing, Ended, TypeOK, TypeRegistry, TypeThreads, Sessions, regVars, upVars, downVars, thrVars, hVars
<1>4. ASSUME NEW h \in Handlers, ReadOutgoing(h) PROVE ControlInv'
  <2> SUFFICES ASSUME NEW r \in Sessions PROVE Control(r)' BY DEF ControlInv
  <2>1. push'[r] # "none" => push[r] # "none"
    BY <1>4, NotifyKeepsPushers DEF ReadOutgoing, Drain, TypeOK
  <2> QED BY <1>4, <2>1, ControlKept DEF ReadOutgoing, regVars
<1>5. ASSUME NEW h \in Handlers, PollWake(h) PROVE ControlInv'
  <2> SUFFICES ASSUME NEW r \in Sessions PROVE Control(r)' BY DEF ControlInv
  <2>1. push'[r] # "none" => push[r] # "none"
    BY <1>5, NotifyKeepsPushers DEF PollWake, Drain, TypeOK
  <2> QED BY <1>5, <2>1, ControlKept DEF PollWake, regVars
<1>6. ASSUME NEW h \in Handlers, PollTimeout(h) PROVE ControlInv'
  <2> SUFFICES ASSUME NEW r \in Sessions PROVE Control(r)' BY DEF ControlInv
  <2>1. push'[r] # "none" => push[r] # "none"
    BY <1>6, NotifyKeepsPushers DEF PollTimeout, Drain, TypeOK
  <2> QED BY <1>6, <2>1, ControlKept DEF PollTimeout, regVars
<1>7. ASSUME NEW h \in Handlers, Reply(h) PROVE ControlInv'
  BY <1>7 DEF Reply, ControlInv, Control, Pushing, Ended, TypeOK, TypeRegistry, TypeThreads, Sessions, regVars, upVars, downVars, thrVars, hVars
<1>8. ASSUME NEW s \in Sessions, Remove(s) PROVE ControlInv'
  BY <1>8 DEF Remove, Close, NotifyAll, ControlInv, Control, Pushing, Ended, TypeOK, TypeRegistry, TypeThreads, Sessions, regVars, upVars, downVars, thrVars, hVars
<1>9. ASSUME NEW s \in Sessions, IdleElapsed(s) PROVE ControlInv'
  BY <1>9 DEF IdleElapsed, ControlInv, Control, Pushing, Ended, TypeOK, TypeRegistry, TypeThreads, Sessions, regVars, upVars, downVars, thrVars, hVars
<1>10. ASSUME NEW s \in Sessions, PushCheck(s) PROVE ControlInv'
  <2> SUFFICES ASSUME NEW r \in Sessions PROVE Control(r)' BY DEF ControlInv
  <2>0. Control(r) /\ Control(s) /\ s \in DOMAIN main /\ s \in DOMAIN down /\ s \in DOMAIN push
    BY DEF ControlInv, TypeOK, TypeThreads
  <2>1. CASE r # s
    BY <1>10, <2>0, <2>1, ZenonT(90) DEF PushCheck, PushFails, PushAppends, Control, TypeOK, TypeThreads, regVars
  <2>2. CASE r = s
    BY <1>10, <2>0, <2>2 DEF PushCheck, PushFails, PushAppends, MainAfterPush, Control, Pushing, Ended,
       TypeOK, TypeThreads, TypeRegistry, Sessions, regVars
  <2> QED BY <2>1, <2>2
<1>11. ASSUME NEW s \in Sessions, PushPark(s) PROVE ControlInv'
  BY <1>11 DEF PushPark, ControlInv, Control, Pushing, Ended, TypeOK, TypeRegistry, TypeThreads, Sessions, regVars, upVars, downVars, thrVars, hVars
<1>12. ASSUME NEW s \in Sessions, ReadHeader(s) PROVE ControlInv'
  BY <1>12, ZenonT(90) DEF ReadHeader, ThreadFails, ControlInv, Control, Pushing, Ended, TypeOK, TypeRegistry, TypeThreads, Sessions, regVars, upVars, downVars, thrVars, hVars
<1>13. ASSUME NEW s \in Sessions, UpForward(s) PROVE ControlInv'
  BY <1>13, ZenonT(90) DEF UpForward, ControlInv, Control, Pushing, Ended, TypeOK, TypeRegistry, TypeThreads, Sessions, regVars, upVars, downVars, thrVars, hVars
<1>14. ASSUME NEW s \in Sessions, UpEof(s) PROVE ControlInv'
  BY <1>14 DEF UpEof, ControlInv, Control, Pushing, Ended, TypeOK, TypeRegistry, TypeThreads, Sessions, regVars, upVars, downVars, thrVars, hVars
<1>15. ASSUME NEW s \in Sessions, DownEof(s) PROVE ControlInv'
  BY <1>15 DEF DownEof, ControlInv, Control, Pushing, Ended, TypeOK, TypeRegistry, TypeThreads, Sessions, regVars, upVars, downVars, thrVars, hVars
<1>16. ASSUME NEW s \in Sessions, Join(s) PROVE ControlInv'
  BY <1>16 DEF Join, Close, NotifyAll, ControlInv, Control, Pushing, Ended, TypeOK, TypeRegistry, TypeThreads, Sessions, regVars, upVars, downVars, thrVars, hVars
<1>17. ASSUME NEW s \in Sessions, LoopUp(s) PROVE ControlInv'
  BY <1>17, ZenonT(90) DEF LoopUp, ThreadFails, ControlInv, Control, Pushing, Ended, TypeOK, TypeRegistry, TypeThreads, Sessions, regVars, upVars, downVars, thrVars, hVars
<1>18. ASSUME NEW s \in Sessions, LoopEof(s) PROVE ControlInv'
  <2> SUFFICES ASSUME NEW r \in Sessions PROVE Control(r)' BY DEF ControlInv
  <2>1. push'[r] # "none" => push[r] # "none"
    BY <1>18, NotifyKeepsPushers DEF LoopEof, Close, TypeOK
  <2> QED BY <1>18, <2>1 DEF LoopEof, ControlInv, Control, Pushing, Ended, TypeOK, TypeThreads, TypeRegistry, Sessions, regVars
<1>19. ASSUME NEW s \in Sessions, NEW mode \in Modes, Connect(s, mode) PROVE ControlInv'
  <2> SUFFICES ASSUME NEW r \in Sessions PROVE Control(r)' BY DEF ControlInv
  <2>0. Control(r) /\ Control(s) BY DEF ControlInv
  <2>a. [raw |-> "join", vision |-> "v_down", udp |-> "u_read"][mode] \in {"join", "v_down", "u_read"}
        /\ (mode = "raw" => [raw |-> "join", vision |-> "v_down", udp |-> "u_read"][mode] = "join")
    BY RequestTransportAssumption
  <2> DEFINE pc == [raw |-> "join", vision |-> "v_down", udp |-> "u_read"][mode]
  <2>b. pc \in {"join", "v_down", "u_read"} /\ (mode = "raw" => pc = "join") BY <2>a
  <2>c. main'[r] = IF r = s THEN main'[s] ELSE main[r]
    BY <1>19 DEF Connect, ThreadFails, TypeOK, TypeThreads
  <2>d. \/ main'[s] = pc
        \/ main'[s] = "remove" /\ UNCHANGED <<up, down>>
    BY <1>19 DEF Connect, ThreadFails, TypeOK, TypeThreads
  <2>e. /\ UNCHANGED <<push, count>>
        /\ main[s] = "connect"
        /\ mode # "raw" => UNCHANGED <<up, down>>
        /\ r # s => up'[r] = up[r] /\ down'[r] = down[r]
    BY <1>19 DEF Connect, regVars, TypeOK, TypeThreads
  <2>f. r = s => push[r] = "none" /\ up[r] = "none" /\ down[r] = "none" /\ r <= count
    BY <2>0, <2>e DEF Control, Pushing, Ended, TypeOK, TypeRegistry, Sessions
  <2> HIDE DEF pc
  <2>1. CASE r # s BY <2>0, <2>1, <2>c, <2>e DEF Control
  <2>2. CASE r = s
    BY <2>0, <2>2, <2>b, <2>c, <2>d, <2>e, <2>f DEF Control, Pushing, Ended, TypeOK, TypeRegistry, Sessions
  <2> QED BY <2>1, <2>2
<1>20. ASSUME NEW s \in Sessions, NEW k \in 1..MaxChunk, DownRead(s, k) PROVE ControlInv'
  BY <1>20 DEF DownRead, ControlInv, Control, Pushing, Ended, TypeOK, TypeRegistry, TypeThreads, Sessions, regVars, upVars, downVars, thrVars, hVars
<1>21. ASSUME NEW s \in Sessions, NEW k \in 1..MaxChunk, LoopDown(s, k) PROVE ControlInv'
  BY <1>21, ZenonT(90) DEF LoopDown, ThreadFails, ControlInv, Control, Pushing, Ended, TypeOK, TypeRegistry, TypeThreads, Sessions, regVars, upVars, downVars, thrVars, hVars
<1>22. ASSUME NEW h \in Handlers, NEW i \in Ids, NEW body \in BOOLEAN, Acquire(h, i, body) PROVE ControlInv'
  <2> SUFFICES ASSUME NEW r \in Sessions PROVE Control(r)' BY DEF ControlInv
  <2>0. Control(r) BY DEF ControlInv
  <2>1. push'[r] # "none" => push[r] # "none"
    BY <1>22, NotifyKeepsPushers DEF Acquire, TypeOK
  <2>2. UNCHANGED <<up, down>> BY <1>22 DEF Acquire
  <2>3. \/ UNCHANGED <<main, count>>
        \/ /\ count' = count + 1
           /\ count + 1 \in Sessions
           /\ main' = [main EXCEPT ![count + 1] = "header"]
    BY <1>22 DEF Acquire
  <2>4. CASE UNCHANGED <<main, count>> BY <2>1, <2>2, <2>4, ControlKept
  <2>5. CASE /\ count' = count + 1
             /\ count + 1 \in Sessions
             /\ main' = [main EXCEPT ![count + 1] = "header"]
    BY <2>0, <2>1, <2>2, <2>5 DEF ControlInv, Control, Pushing, Ended, TypeOK, TypeThreads, TypeRegistry, Sessions
  <2> QED BY <2>3, <2>4, <2>5
<1>23. CASE UNCHANGED vars
  BY <1>23 DEF vars, regVars, upVars, downVars, thrVars, hVars, ControlInv, Control
<1> QED
  BY <1>1, <1>2, <1>3, <1>4, <1>5, <1>6, <1>7, <1>8, <1>9, <1>10, <1>11, <1>12, <1>13, <1>14, <1>15, <1>16, <1>17, <1>18, <1>19, <1>20, <1>21, <1>22, <1>23
  DEF Next, HandlerStep, SessionStep, TargetStep

-----------------------------------------------------------------------------
(* The registry *)

\* Closing sessions never opens one.
LEMMA CloseMonotone ==
    ASSUME TypeFlags, NEW S, Close(S), NEW r \in Sessions
    PROVE  /\ closed[r] => closed'[r]
           /\ r \in S => closed'[r]
BY DEF Close, TypeFlags

LEMMA RegistryStep == TypeOK /\ RegistryInv /\ [Next]_vars => RegistryInv'
<1> SUFFICES ASSUME TypeOK, RegistryInv, [Next]_vars PROVE RegistryInv' OBVIOUS
<1>1. ASSUME NEW h \in Handlers, LockRoundtrip(h) PROVE RegistryInv'
  BY <1>1 DEF LockRoundtrip, RegistryInv, RegistryShape, OpenRegistered, regVars
<1>2. ASSUME NEW h \in Handlers, CloneSender(h) PROVE RegistryInv'
  BY <1>2 DEF CloneSender, RegistryInv, RegistryShape, OpenRegistered, regVars
<1>3. ASSUME NEW h \in Handlers, SendBody(h) PROVE RegistryInv'
  BY <1>3 DEF SendBody, RegistryInv, RegistryShape, OpenRegistered, regVars
<1>4. ASSUME NEW h \in Handlers, ReadOutgoing(h) PROVE RegistryInv'
  BY <1>4 DEF ReadOutgoing, RegistryInv, RegistryShape, OpenRegistered, regVars
<1>5. ASSUME NEW h \in Handlers, PollWake(h) PROVE RegistryInv'
  BY <1>5 DEF PollWake, RegistryInv, RegistryShape, OpenRegistered, regVars
<1>6. ASSUME NEW h \in Handlers, PollTimeout(h) PROVE RegistryInv'
  BY <1>6 DEF PollTimeout, RegistryInv, RegistryShape, OpenRegistered, regVars
<1>7. ASSUME NEW h \in Handlers, Reply(h) PROVE RegistryInv'
  BY <1>7 DEF Reply, RegistryInv, RegistryShape, OpenRegistered, regVars
<1>8. ASSUME NEW s \in Sessions, Remove(s) PROVE RegistryInv'
  <2> SUFFICES /\ \A j \in Ids : registry'[j] # 0 => registry'[j] <= count' /\ owner'[registry'[j]] = j
               /\ \A r \in Sessions : r <= count' /\ ~closed'[r] => registry'[owner'[r]] = r
    BY DEF RegistryInv, RegistryShape, OpenRegistered
  <2> DEFINE x == registry[owner[s]]
  <2>0. /\ registry \in [Ids -> 0..MaxSessions] /\ owner \in [Sessions -> Ids] /\ owner[s] \in Ids
        /\ x \in 0..MaxSessions /\ MaxSessions \in Nat
    BY ConstantTypes DEF TypeOK, TypeRegistry
  <2>1. registry' = [registry EXCEPT ![owner[s]] = 0] /\ UNCHANGED <<count, owner>>
    BY <1>8 DEF Remove
  <2>2. \A r \in Sessions : (closed[r] => closed'[r]) /\ (r = x => closed'[r])
    <3> TAKE r \in Sessions
    <3>1. r = x => x # 0 BY ConstantTypes DEF Sessions
    <3>2. Close(IF x = 0 THEN {} ELSE {x}) BY <1>8 DEF Remove
    <3> QED BY <3>1, <3>2, CloseMonotone DEF TypeOK
  <2>3. \A j \in Ids : registry'[j] # 0 => registry'[j] <= count' /\ owner'[registry'[j]] = j
    BY <2>0, <2>1 DEF RegistryInv, RegistryShape
  <2>4. ASSUME NEW r \in Sessions, r <= count', ~closed'[r] PROVE registry'[owner'[r]] = r
    <3>1. ~closed[r] /\ r # x BY <2>2, <2>4
    <3>2. registry[owner[r]] = r /\ owner[r] \in Ids
      BY <2>0, <2>1, <2>4, <3>1 DEF RegistryInv, OpenRegistered
    <3>3. owner[r] # owner[s] BY <3>1, <3>2
    <3> QED BY <2>0, <2>1, <3>2, <3>3
  <2> QED BY <2>3, <2>4
<1>9. ASSUME NEW s \in Sessions, IdleElapsed(s) PROVE RegistryInv'
  BY <1>9 DEF IdleElapsed, RegistryInv, RegistryShape, OpenRegistered, regVars
<1>10. ASSUME NEW s \in Sessions, PushCheck(s) PROVE RegistryInv'
  BY <1>10 DEF PushCheck, RegistryInv, RegistryShape, OpenRegistered, regVars
<1>11. ASSUME NEW s \in Sessions, PushPark(s) PROVE RegistryInv'
  BY <1>11 DEF PushPark, RegistryInv, RegistryShape, OpenRegistered, regVars
<1>12. ASSUME NEW s \in Sessions, ReadHeader(s) PROVE RegistryInv'
  BY <1>12 DEF ReadHeader, RegistryInv, RegistryShape, OpenRegistered, regVars
<1>13. ASSUME NEW s \in Sessions, UpForward(s) PROVE RegistryInv'
  BY <1>13 DEF UpForward, RegistryInv, RegistryShape, OpenRegistered, regVars
<1>14. ASSUME NEW s \in Sessions, UpEof(s) PROVE RegistryInv'
  BY <1>14 DEF UpEof, RegistryInv, RegistryShape, OpenRegistered, regVars
<1>15. ASSUME NEW s \in Sessions, DownEof(s) PROVE RegistryInv'
  BY <1>15 DEF DownEof, RegistryInv, RegistryShape, OpenRegistered, regVars
<1>16. ASSUME NEW s \in Sessions, Join(s) PROVE RegistryInv'
  <2>1. \A r \in Sessions : closed[r] => closed'[r]
    BY <1>16, CloseMonotone DEF Join, TypeOK
  <2> QED BY <1>16, <2>1 DEF Join, RegistryInv, RegistryShape, OpenRegistered, regVars
<1>17. ASSUME NEW s \in Sessions, LoopUp(s) PROVE RegistryInv'
  BY <1>17 DEF LoopUp, RegistryInv, RegistryShape, OpenRegistered, regVars
<1>18. ASSUME NEW s \in Sessions, LoopEof(s) PROVE RegistryInv'
  <2>1. \A r \in Sessions : closed[r] => closed'[r]
    BY <1>18, CloseMonotone DEF LoopEof, TypeOK
  <2> QED BY <1>18, <2>1 DEF LoopEof, RegistryInv, RegistryShape, OpenRegistered, regVars
<1>19. ASSUME NEW s \in Sessions, NEW mode \in Modes, Connect(s, mode) PROVE RegistryInv'
  BY <1>19 DEF Connect, RegistryInv, RegistryShape, OpenRegistered, regVars
<1>20. ASSUME NEW s \in Sessions, NEW k \in 1..MaxChunk, DownRead(s, k) PROVE RegistryInv'
  BY <1>20 DEF DownRead, RegistryInv, RegistryShape, OpenRegistered, regVars
<1>21. ASSUME NEW s \in Sessions, NEW k \in 1..MaxChunk, LoopDown(s, k) PROVE RegistryInv'
  BY <1>21 DEF LoopDown, RegistryInv, RegistryShape, OpenRegistered, regVars
<1>22. ASSUME NEW h \in Handlers, NEW i \in Ids, NEW body \in BOOLEAN, Acquire(h, i, body) PROVE RegistryInv'
  <2> SUFFICES /\ \A j \in Ids : registry'[j] # 0 => registry'[j] <= count' /\ owner'[registry'[j]] = j
               /\ \A r \in Sessions : r <= count' /\ ~closed'[r] => registry'[owner'[r]] = r
    BY DEF RegistryInv, RegistryShape, OpenRegistered
  <2> DEFINE kept == [j \in Ids |-> IF j \in Expired THEN 0 ELSE registry[j]]
             t == IF kept[i] # 0 THEN kept[i] ELSE count + 1
             X == {x \in CleanupClosed : ~closed[x]}
  <2>0. /\ registry \in [Ids -> 0..MaxSessions] /\ owner \in [Sessions -> Ids]
        /\ count \in 0..MaxSessions /\ MaxSessions \in Nat
    BY ConstantTypes DEF TypeOK, TypeRegistry
  <2>1. /\ t \in Sessions
        /\ registry' = [kept EXCEPT ![i] = t]
        /\ closed' = [x \in Sessions |-> closed[x] \/ x \in X]
        /\ IF t = count + 1
           THEN count' = count + 1 /\ owner' = [owner EXCEPT ![t] = i]
           ELSE UNCHANGED <<count, owner>>
    BY <1>22 DEF Acquire
  <2>2. kept[i] # 0 => kept[i] <= count /\ owner[kept[i]] = i
    BY DEF RegistryInv, RegistryShape
  <2>3. CASE kept[i] # 0
    <3>1. t = kept[i] /\ t # count + 1 BY <2>0, <2>2, <2>3 DEF Sessions
    <3>2. registry' = kept /\ UNCHANGED <<count, owner>> BY <2>1, <3>1
    <3>3. \A j \in Ids : registry'[j] # 0 => registry'[j] <= count' /\ owner'[registry'[j]] = j
      BY <3>2 DEF RegistryInv, RegistryShape
    <3>4. ASSUME NEW r \in Sessions, r <= count', ~closed'[r] PROVE registry'[owner'[r]] = r
      <4>1. ~closed[r] /\ r \notin X BY <2>1, <3>4
      <4>2. registry[owner[r]] = r /\ owner[r] \in Ids
        BY <2>0, <3>2, <3>4, <4>1 DEF RegistryInv, OpenRegistered
      <4>3. owner[r] \notin Expired BY <4>1, <4>2 DEF CleanupClosed
      <4> QED BY <3>2, <4>2, <4>3
    <3> QED BY <3>3, <3>4
  <2>4. CASE kept[i] = 0
    <3>1. t = count + 1 /\ count + 1 \in Sessions BY <2>1, <2>4
    <3>2. /\ registry' = [kept EXCEPT ![i] = count + 1] /\ count' = count + 1
          /\ owner' = [owner EXCEPT ![count + 1] = i]
      BY <2>1, <3>1
    <3>3. ASSUME NEW j \in Ids, registry'[j] # 0
          PROVE  registry'[j] <= count' /\ owner'[registry'[j]] = j
      <4>1. CASE j = i BY <2>0, <3>1, <3>2, <4>1
      <4>2. CASE j # i
        <5>1. registry'[j] = registry[j] /\ registry[j] # 0 BY <3>2, <3>3, <4>2
        <5>2. registry[j] <= count /\ owner[registry[j]] = j /\ registry[j] \in Sessions
          BY <2>0, <5>1 DEF RegistryInv, RegistryShape, Sessions
        <5> QED BY <2>0, <3>2, <5>1, <5>2
      <4> QED BY <4>1, <4>2
    <3>4. ASSUME NEW r \in Sessions, r <= count', ~closed'[r] PROVE registry'[owner'[r]] = r
      <4>1. CASE r = count + 1 BY <2>0, <3>1, <3>2, <4>1
      <4>2. CASE r # count + 1
        <5>0. ~closed[r] /\ r \notin X BY <2>1, <3>4
        <5>a. r <= count BY <2>0, <3>2, <3>4, <4>2 DEF Sessions
        <5>1. ~closed[r] /\ r \notin X /\ r <= count BY <5>0, <5>a
        <5>2. registry[owner[r]] = r /\ owner[r] \in Ids /\ r # 0
          BY <2>0, <5>1 DEF RegistryInv, OpenRegistered, Sessions
        <5>3. owner[r] \notin Expired BY <5>1, <5>2 DEF CleanupClosed
        <5>4. kept[owner[r]] = r BY <5>2, <5>3
        <5>5. owner[r] # i BY <2>4, <5>2, <5>4
        <5> QED BY <2>0, <3>2, <4>2, <5>2, <5>4, <5>5
      <4> QED BY <4>1, <4>2
    <3> QED BY <3>3, <3>4
  <2> QED BY <2>3, <2>4
<1>23. CASE UNCHANGED vars
  BY <1>23 DEF vars, regVars, RegistryInv, RegistryShape, OpenRegistered
<1> QED
  BY <1>1, <1>2, <1>3, <1>4, <1>5, <1>6, <1>7, <1>8, <1>9, <1>10, <1>11, <1>12, <1>13, <1>14, <1>15, <1>16, <1>17, <1>18, <1>19, <1>20, <1>21, <1>22, <1>23
  DEF Next, HandlerStep, SessionStep, TargetStep

-----------------------------------------------------------------------------
(* Consecutive runs of positions *)

LEMMA RunEmpty == ASSUME NEW n \in Nat PROVE Run(n, 0) = <<>>
BY DEF Run

LEMMA RunAppend ==
    ASSUME NEW n \in Nat, NEW k \in Nat
    PROVE  Append(Run(n, k), n + k + 1) = Run(n, k + 1)
BY DEF Run

LEMMA RunHeadTail ==
    ASSUME NEW n \in Nat, NEW k \in Nat, k # 0
    PROVE  Head(Run(n, k)) = n + 1 /\ Tail(Run(n, k)) = Run(n + 1, k - 1)
BY SMTT(60) DEF Run

LEMMA RunConcat ==
    ASSUME NEW n \in Nat, NEW k \in Nat, NEW m \in Nat
    PROVE  Run(n, k) \o Run(n + k, m) = Run(n, k + m)
BY DEF Run

LEMMA RunSplit ==
    ASSUME NEW n \in Nat, NEW k \in Nat, NEW j \in 0..k
    PROVE  /\ SubSeq(Run(n, k), 1, j) = Run(n, j)
           /\ SubSeq(Run(n, k), j + 1, k) = Run(n + j, k - j)
BY DEF Run

-----------------------------------------------------------------------------
(* The uplink *)

LEMMA UplinkSame ==
    ASSUME UplinkInv, NEW r \in Sessions,
           toTarget'[r] = toTarget[r], accepted'[r] = accepted[r], chan'[r] = chan[r],
           rx'[r] = rx[r], main'[r] = main[r], up'[r] = up[r]
    PROVE  Uplink(r)'
BY DEF UplinkInv, Uplink, Held

\* A session thread that ends drops its reader: nothing more is relayed.
LEMMA UplinkDropped ==
    ASSUME ControlInv, UplinkInv, NEW s \in Sessions, main[s] \notin Ended,
           main'[s] = "remove", ~rx'[s],
           toTarget'[s] = toTarget[s], accepted'[s] = accepted[s], up'[s] = up[s]
    PROVE  Uplink(s)'
<1>1. up[s] = "none" BY DEF ControlInv, Control
<1>2. toTarget[s] = Run(0, Len(toTarget[s])) BY DEF UplinkInv, Uplink
<1> QED BY <1>1, <1>2 DEF Uplink, Before, Looping

\* One body moves from the channel to the target.
LEMMA UplinkMoves ==
    ASSUME TypeOK, UplinkInv, NEW s \in Sessions, rx[s], Held(s) = 0, chan[s] # <<>>,
           main[s] \notin Before, Held(s)' = 0, main'[s] \notin Before,
           rx'[s], up'[s] = up[s], accepted'[s] = accepted[s],
           toTarget'[s] = Append(toTarget[s], Head(chan[s])), chan'[s] = Tail(chan[s])
    PROVE  Uplink(s)'
<1> DEFINE t == Len(toTarget[s])  c == Len(chan[s])
<1>0. toTarget[s] \in Seq(Nat) /\ chan[s] \in Seq(Nat) BY DEF TypeOK, TypeStreams
<1>1. t \in Nat /\ c \in Nat /\ c # 0 BY <1>0
<1>a. Uplink(s) BY DEF UplinkInv
<1>b. toTarget[s] = Run(0, t) /\ chan[s] = Run(t + 0, c) /\ accepted[s] = t + 0 + c BY <1>a DEF Uplink
<1>c. t + 0 = t BY <1>1
<1>2. toTarget[s] = Run(0, t) /\ chan[s] = Run(t, c) /\ accepted[s] = t + c BY <1>b, <1>c
<1>7. up[s] # "eof" BY <1>a DEF Uplink
<1> HIDE DEF t, c
<1>3. Head(chan[s]) = t + 1 /\ Tail(chan[s]) = Run(t + 1, c - 1) BY <1>1, <1>2, RunHeadTail
<1>4. Append(Run(0, t), 0 + t + 1) = Run(0, t + 1) BY <1>1, RunAppend
<1>d. 0 + t + 1 = t + 1 /\ t + 1 \in Nat /\ c - 1 \in Nat BY <1>1
<1>5. toTarget'[s] = Run(0, t + 1) BY <1>1, <1>2, <1>3, <1>4, <1>d
<1>e. Len(Run(0, t + 1)) = t + 1 /\ Len(Run(t + 1, c - 1)) = c - 1 BY <1>d, RunType
<1>6. Len(toTarget'[s]) = t + 1 /\ Len(chan'[s]) = c - 1 BY <1>e, <1>3, <1>5
<1>8. chan'[s] = Run(Len(toTarget'[s]) + 0, Len(chan'[s])) BY <1>d, <1>3, <1>6
<1>f. t + c = (t + 1) + 0 + (c - 1) BY <1>1
<1>9. accepted'[s] = Len(toTarget'[s]) + 0 + Len(chan'[s]) BY <1>f, <1>2, <1>6
<1>10. toTarget'[s] = Run(0, Len(toTarget'[s])) BY <1>5, <1>6
<1>11. main'[s] # "none" BY DEF Before
<1> QED BY <1>7, <1>8, <1>9, <1>10, <1>11 DEF Uplink

\* One body enters the channel.
LEMMA UplinkAccepts ==
    ASSUME TypeOK, UplinkInv, NEW s \in Sessions, rx[s],
           UNCHANGED <<toTarget, rx, main, up>>,
           chan'[s] = Append(chan[s], accepted[s] + 1), accepted'[s] = accepted[s] + 1
    PROVE  Uplink(s)'
<1> DEFINE t == Len(toTarget[s])  d == Held(s)  c == Len(chan[s])  u == t + d
<1>0. toTarget[s] \in Seq(Nat) /\ chan[s] \in Seq(Nat) BY DEF TypeOK, TypeStreams
<1>1. t \in Nat /\ c \in Nat BY <1>0
<1>2. d \in Nat BY DEF Held
<1>3. Uplink(s) BY DEF UplinkInv
<1>4. chan[s] = Run(u, c) /\ accepted[s] = u + c BY <1>3 DEF Uplink
<1>5. u \in Nat BY <1>1, <1>2
<1>6. Held(s)' = d /\ Len(toTarget'[s]) = t BY DEF Held
<1>7. chan'[s] = Run(u, Len(chan'[s])) /\ accepted'[s] = u + Len(chan'[s])
  <2> HIDE DEF u, c, t, d
  <2>1. Append(Run(u, c), u + c + 1) = Run(u, c + 1) BY <1>1, <1>5, RunAppend
  <2>2. c + 1 \in Nat BY <1>1
  <2>3. Len(Run(u, c + 1)) = c + 1 BY <1>5, <2>2, RunType
  <2>4. chan'[s] = Run(u, c + 1) BY <1>4, <2>1
  <2>5. Len(chan'[s]) = c + 1 BY <2>3, <2>4
  <2>6. u + c + 1 = u + (c + 1) BY <1>1, <1>5
  <2> QED BY <1>4, <2>4, <2>5, <2>6
<1>8. /\ chan'[s] = Run(Len(toTarget'[s]) + Held(s)', Len(chan'[s]))
      /\ accepted'[s] = Len(toTarget'[s]) + Held(s)' + Len(chan'[s])
  BY <1>6, <1>7
<1>9. up[s] # "eof" /\ main[s] # "none" BY <1>3 DEF Uplink
<1> QED BY <1>3, <1>8, <1>9 DEF Uplink

LEMMA UplinkStep == TypeOK /\ ControlInv /\ UplinkInv /\ [Next]_vars => UplinkInv'
<1> SUFFICES ASSUME TypeOK, ControlInv, UplinkInv, [Next]_vars PROVE UplinkInv' OBVIOUS
<1>1. ASSUME NEW h \in Handlers, LockRoundtrip(h) PROVE UplinkInv'
  <2> SUFFICES ASSUME NEW r \in Sessions PROVE Uplink(r)' BY DEF UplinkInv
  <2> QED BY <1>1, UplinkSame DEF LockRoundtrip, upVars, thrVars
<1>2. ASSUME NEW h \in Handlers, CloneSender(h) PROVE UplinkInv'
  <2> SUFFICES ASSUME NEW r \in Sessions PROVE Uplink(r)' BY DEF UplinkInv
  <2> QED BY <1>2, UplinkSame DEF CloneSender, Abandon, upVars, thrVars
<1>3. ASSUME NEW h \in Handlers, SendBody(h) PROVE UplinkInv'
  <2> SUFFICES ASSUME NEW r \in Sessions PROVE Uplink(r)' BY DEF UplinkInv
  <2>0. hs[h] \in Sessions /\ UNCHANGED <<toTarget, rx, main, up>>
    BY <1>3 DEF SendBody, thrVars, TypeOK, TypeHandlers
  <2>1. CASE r # hs[h] \/ ~rx[r]
    BY <1>3, <2>0, <2>1, UplinkSame DEF SendBody, TypeOK, TypeStreams
  <2>2. CASE r = hs[h] /\ rx[r]
    <3>1. chan'[r] = Append(chan[r], accepted[r] + 1) /\ accepted'[r] = accepted[r] + 1
      BY <1>3, <2>0, <2>2 DEF SendBody, TypeOK, TypeStreams
    <3> QED BY <2>0, <2>2, <3>1, UplinkAccepts
  <2> QED BY <2>1, <2>2
<1>4. ASSUME NEW h \in Handlers, ReadOutgoing(h) PROVE UplinkInv'
  <2> SUFFICES ASSUME NEW r \in Sessions PROVE Uplink(r)' BY DEF UplinkInv
  <2> QED BY <1>4, UplinkSame DEF ReadOutgoing, Drain, NotifyAll, upVars, thrVars
<1>5. ASSUME NEW h \in Handlers, PollWake(h) PROVE UplinkInv'
  <2> SUFFICES ASSUME NEW r \in Sessions PROVE Uplink(r)' BY DEF UplinkInv
  <2> QED BY <1>5, UplinkSame DEF PollWake, Drain, NotifyAll, upVars, thrVars
<1>6. ASSUME NEW h \in Handlers, PollTimeout(h) PROVE UplinkInv'
  <2> SUFFICES ASSUME NEW r \in Sessions PROVE Uplink(r)' BY DEF UplinkInv
  <2> QED BY <1>6, UplinkSame DEF PollTimeout, Drain, NotifyAll, upVars, thrVars
<1>7. ASSUME NEW h \in Handlers, Reply(h) PROVE UplinkInv'
  <2> SUFFICES ASSUME NEW r \in Sessions PROVE Uplink(r)' BY DEF UplinkInv
  <2> QED BY <1>7, UplinkSame DEF Reply, upVars, thrVars
<1>8. ASSUME NEW s \in Sessions, Remove(s) PROVE UplinkInv'
  <2> SUFFICES ASSUME NEW r \in Sessions PROVE Uplink(r)' BY DEF UplinkInv
  <2>1. CASE r # s
    BY <1>8, <2>1, UplinkSame DEF Remove, Close, NotifyAll, TypeOK, TypeStreams, TypeThreads, TypeFlags, upVars, thrVars
  <2>2. CASE r = s
    BY <1>8, <2>2 DEF Remove, UplinkInv, Uplink, Held, Before, Looping, TypeOK, TypeStreams, TypeThreads, TypeFlags
  <2> QED BY <2>1, <2>2
<1>9. ASSUME NEW s \in Sessions, IdleElapsed(s) PROVE UplinkInv'
  <2> SUFFICES ASSUME NEW r \in Sessions PROVE Uplink(r)' BY DEF UplinkInv
  <2> QED BY <1>9, UplinkSame DEF IdleElapsed, upVars, thrVars
<1>10. ASSUME NEW s \in Sessions, PushCheck(s) PROVE UplinkInv'
  <2> SUFFICES ASSUME NEW r \in Sessions PROVE Uplink(r)' BY DEF UplinkInv
  <2>1. CASE r # s
    BY <1>10, <2>1, UplinkSame DEF PushCheck, PushFails, PushAppends, MainAfterPush, TypeOK, TypeStreams, TypeThreads, TypeFlags, upVars, thrVars
  <2>2. CASE r = s
    <3>1. CASE closed[s] /\ down[s] # "push"
      <4>1. main[s] \in Pushing BY <1>10, <3>1 DEF PushCheck, ControlInv, Control
      <4>2. /\ main'[s] = "remove" /\ ~rx'[s] /\ UNCHANGED <<toTarget, accepted, up>>
        BY <1>10, <3>1 DEF PushCheck, PushFails, TypeOK, TypeStreams, TypeThreads, TypeFlags
      <4>3. main[s] \notin Ended BY <4>1 DEF Pushing, Ended
      <4> QED BY <2>2, <4>2, <4>3, UplinkDropped
    <3>2. CASE closed[s] /\ down[s] = "push"
      BY <1>10, <2>2, <3>2, UplinkSame DEF PushCheck, PushFails, TypeOK, TypeStreams, TypeThreads, TypeFlags
    <3>3. CASE ~closed[s] /\ ~(main'[s] # main[s])
      BY <1>10, <2>2, <3>3, UplinkSame DEF PushCheck, PushAppends, TypeOK, TypeStreams, TypeThreads, TypeFlags
    <3>4. CASE ~closed[s] /\ main'[s] # main[s]
      <4>1. main[s] \in Pushing /\ main'[s] = MainAfterPush[main[s]]
        BY <1>10, <3>4, SMTT(60) DEF PushCheck, PushAppends, ControlInv, Control, TypeOK, TypeStreams, TypeThreads, TypeFlags
      <4>2. UNCHANGED <<toTarget, accepted, chan, rx, up>> BY <1>10, <3>4 DEF PushCheck
      <4>3. \/ main[s] = "respond" /\ main'[s] = "connect"
            \/ main[s] = "v_push" /\ main'[s] = "v_down"
            \/ main[s] = "u_push" /\ main'[s] = "u_read"
        BY <4>1 DEF Pushing, MainAfterPush
      <4> QED BY <2>2, <4>2, <4>3 DEF UplinkInv, Uplink, Held, Before, Looping
    <3> QED BY <3>1, <3>2, <3>3, <3>4
  <2> QED BY <2>1, <2>2
<1>11. ASSUME NEW s \in Sessions, PushPark(s) PROVE UplinkInv'
  <2> SUFFICES ASSUME NEW r \in Sessions PROVE Uplink(r)' BY DEF UplinkInv
  <2> QED BY <1>11, UplinkSame DEF PushPark, upVars, thrVars
<1>12. ASSUME NEW s \in Sessions, ReadHeader(s) PROVE UplinkInv'
  <2> SUFFICES ASSUME NEW r \in Sessions PROVE Uplink(r)' BY DEF UplinkInv
  <2>1. CASE r # s
    BY <1>12, <2>1, UplinkSame DEF ReadHeader, ThreadFails, TypeOK, TypeStreams, TypeThreads, TypeFlags, upVars, thrVars
  <2>2. CASE r = s
    <3>0. UNCHANGED <<toTarget, accepted, up>> /\ main[s] = "header" BY <1>12 DEF ReadHeader
    <3>1. CASE main'[s] = "remove"
      BY <1>12, <2>2, <3>0, <3>1, UplinkDropped, ZenonT(90) DEF ReadHeader, ThreadFails, Ended, TypeOK, TypeStreams, TypeThreads, TypeFlags
    <3>2. CASE main'[s] # "remove"
      <4> DEFINE c == Len(chan[s])
      <4>1. main'[s] = "respond" /\ chan'[s] = Tail(chan[s]) /\ chan[s] # <<>> /\ UNCHANGED rx
        BY <1>12, <3>2 DEF ReadHeader, ThreadFails, TypeOK, TypeStreams, TypeThreads, TypeFlags
      <4>2. chan[s] \in Seq(Nat) /\ c \in Nat /\ c # 0 BY <4>1 DEF TypeOK, TypeStreams, TypeThreads, TypeFlags
      <4>3. toTarget[s] = <<>> /\ Len(toTarget[s]) = 0 /\ rx[s] /\ up[s] = "none"
        BY <3>0 DEF UplinkInv, Uplink, Before, ControlInv, Control, Ended
      <4>4. chan[s] = Run(0, c) /\ accepted[s] = c
        <5>1. Uplink(s) /\ Held(s) = 0 BY <3>0 DEF UplinkInv, Held
        <5>2. chan[s] = Run(0 + 0, c) /\ accepted[s] = 0 + 0 + c BY <4>3, <5>1 DEF Uplink
        <5> QED BY <4>2, <5>2
      <4>6. toTarget'[s] = Run(0, Len(toTarget'[s])) /\ Len(toTarget'[s]) = 0 /\ toTarget'[s] = <<>>
        BY <3>0, <4>3 DEF UplinkInv, Uplink
      <4> HIDE DEF c
      <4>5. chan'[s] = Run(0 + 1, Len(chan'[s])) /\ Len(chan'[s]) = c - 1
        <5>1. c - 1 \in Nat /\ 0 + 1 = 1 BY <4>2
        <5>2. Tail(Run(0, c)) = Run(0 + 1, c - 1) BY <4>2, RunHeadTail
        <5>3. Len(Run(1, c - 1)) = c - 1 BY <5>1, RunType
        <5> QED BY <4>1, <4>4, <5>1, <5>2, <5>3
      <4>7. Held(s)' = 1 BY <4>1 DEF Held
      <4>8. accepted'[s] = 0 + 1 + Len(chan'[s])
        <5>1. c = 0 + 1 + (c - 1) BY <4>2
        <5> QED BY <3>0, <4>4, <4>5, <5>1
      <4>9. up'[s] = "none" /\ rx'[s] BY <3>0, <4>1, <4>3
      <4> QED BY <2>2, <4>1, <4>5, <4>6, <4>7, <4>8, <4>9 DEF Uplink, Looping
    <3> QED BY <3>1, <3>2
  <2> QED BY <2>1, <2>2
<1>13. ASSUME NEW s \in Sessions, UpForward(s) PROVE UplinkInv'
  <2> SUFFICES ASSUME NEW r \in Sessions PROVE Uplink(r)' BY DEF UplinkInv
  <2>1. CASE r # s
    BY <1>13, <2>1, UplinkSame, SMTT(60) DEF UpForward, TypeOK, TypeStreams, TypeThreads, TypeFlags, upVars, thrVars
  <2>2. CASE r = s
    <3>0. main[s] = "join" /\ rx[s] BY <1>13 DEF UpForward, ControlInv, Control, UplinkInv, Uplink
    <3>1. CASE toTarget'[s] = Append(toTarget[s], Head(chan[s])) /\ UNCHANGED <<up, rx>>
      BY <1>13, <2>2, <3>0, <3>1, UplinkMoves DEF UpForward, Held, Before, TypeOK, TypeStreams, TypeThreads, TypeFlags
    <3>2. CASE up' = [up EXCEPT ![s] = "broken"]
      BY <1>13, <2>2, <3>0, <3>2 DEF UpForward, UplinkInv, Uplink, Before, Looping, TypeOK, TypeStreams, TypeThreads, TypeFlags
    <3> QED BY <1>13, <3>1, <3>2 DEF UpForward, TypeOK, TypeStreams, TypeThreads, TypeFlags
  <2> QED BY <2>1, <2>2
<1>14. ASSUME NEW s \in Sessions, UpEof(s) PROVE UplinkInv'
  <2> SUFFICES ASSUME NEW r \in Sessions PROVE Uplink(r)' BY DEF UplinkInv
  <2>1. CASE r # s
    BY <1>14, <2>1, UplinkSame DEF UpEof, TypeOK, TypeStreams, TypeThreads, TypeFlags, upVars, thrVars
  <2>2. CASE r = s
    <3>0. main[s] = "join" /\ rx[s] BY <1>14 DEF UpEof, ControlInv, Control, UplinkInv, Uplink
    <3>1. Len(toTarget[s]) = accepted[s]
      <4>1. Uplink(s) /\ Held(s) = 0 /\ chan[s] = <<>> /\ Len(chan[s]) = 0
        BY <1>14, <3>0 DEF UpEof, Disconnected, UplinkInv, Held
      <4>2. accepted[s] = Len(toTarget[s]) + 0 + 0 BY <3>0, <4>1 DEF Uplink
      <4>3. Len(toTarget[s]) \in Nat BY DEF TypeOK, TypeStreams, TypeThreads, TypeFlags
      <4> QED BY <4>2, <4>3
    <3> QED BY <1>14, <2>2, <3>0, <3>1 DEF UpEof, UplinkInv, Uplink, Held, Before, Looping, TypeOK, TypeStreams, TypeThreads, TypeFlags
  <2> QED BY <2>1, <2>2
<1>15. ASSUME NEW s \in Sessions, DownEof(s) PROVE UplinkInv'
  <2> SUFFICES ASSUME NEW r \in Sessions PROVE Uplink(r)' BY DEF UplinkInv
  <2> QED BY <1>15, UplinkSame DEF DownEof, upVars, thrVars
<1>16. ASSUME NEW s \in Sessions, Join(s) PROVE UplinkInv'
  <2> SUFFICES ASSUME NEW r \in Sessions PROVE Uplink(r)' BY DEF UplinkInv
  <2>1. CASE r # s
    BY <1>16, <2>1, UplinkSame DEF Join, Close, NotifyAll, TypeOK, TypeStreams, TypeThreads, TypeFlags, upVars, thrVars
  <2>2. CASE r = s
    BY <1>16, <2>2 DEF Join, UplinkInv, Uplink, Held, Before, Looping, TypeOK, TypeStreams, TypeThreads, TypeFlags
  <2> QED BY <2>1, <2>2
<1>17. ASSUME NEW s \in Sessions, LoopUp(s) PROVE UplinkInv'
  <2> SUFFICES ASSUME NEW r \in Sessions PROVE Uplink(r)' BY DEF UplinkInv
  <2>1. CASE r # s
    BY <1>17, <2>1, UplinkSame, SMTT(60) DEF LoopUp, ThreadFails, TypeOK, TypeStreams, TypeThreads, TypeFlags, upVars, thrVars
  <2>2. CASE r = s
    <3>0. main[s] \in {"v_up", "v_up_eof", "u_read"} /\ rx[s]
      BY <1>17 DEF LoopUp, UplinkInv, Uplink, Looping
    <3>1. CASE main'[s] = "remove"
      BY <1>17, <2>2, <3>0, <3>1, UplinkDropped, ZenonT(90) DEF LoopUp, ThreadFails, Ended, TypeOK, TypeStreams, TypeThreads, TypeFlags
    <3>2. CASE main'[s] # "remove"
      <4>1. main'[s] \in {"v_up", "v_up_eof", "u_recv"} /\ UNCHANGED rx
        BY <1>17, <3>0, <3>2 DEF LoopUp, ThreadFails, TypeOK, TypeStreams, TypeThreads, TypeFlags
      <4> QED BY <1>17, <2>2, <3>0, <3>2, <4>1, UplinkMoves DEF LoopUp, ThreadFails, Held, Before, TypeOK, TypeStreams, TypeThreads, TypeFlags
    <3> QED BY <3>1, <3>2
  <2> QED BY <2>1, <2>2
<1>18. ASSUME NEW s \in Sessions, LoopEof(s) PROVE UplinkInv'
  <2> SUFFICES ASSUME NEW r \in Sessions PROVE Uplink(r)' BY DEF UplinkInv
  <2>1. CASE r # s
    BY <1>18, <2>1, UplinkSame DEF LoopEof, Close, NotifyAll, TypeOK, TypeStreams, TypeThreads, TypeFlags, upVars, thrVars
  <2>2. CASE r = s
    <3>1. CASE main[s] = "v_up"
      BY <1>18, <2>2, <3>1, ZenonT(90) DEF LoopEof, UplinkInv, Uplink, Held, Before, Looping, TypeOK, TypeStreams, TypeThreads, TypeFlags
    <3>2. CASE main[s] # "v_up"
      BY <1>18, <2>2, <3>2, UplinkDropped DEF LoopEof, Ended, TypeOK, TypeStreams, TypeThreads, TypeFlags
    <3> QED BY <3>1, <3>2
  <2> QED BY <2>1, <2>2
<1>19. ASSUME NEW s \in Sessions, NEW mode \in Modes, Connect(s, mode) PROVE UplinkInv'
  <2> SUFFICES ASSUME NEW r \in Sessions PROVE Uplink(r)' BY DEF UplinkInv
  <2>1. CASE r # s
    BY <1>19, <2>1, UplinkSame, SMTT(60) DEF Connect, ThreadFails, TypeOK, TypeStreams, TypeThreads, TypeFlags, upVars, thrVars
  <2>2. CASE r = s
    <3>0. UNCHANGED accepted /\ main[s] = "connect" /\ up[s] = "none" /\ rx[s]
      BY <1>19 DEF Connect, ControlInv, Control, Ended, UplinkInv, Uplink
    <3>1. CASE main'[s] = "remove" /\ UNCHANGED <<toTarget, up>> /\ ~rx'[s]
      BY <2>2, <3>0, <3>1, UplinkDropped DEF Ended
    <3>2. CASE ~(main'[s] = "remove" /\ UNCHANGED <<toTarget, up>> /\ ~rx'[s])
      <4> DEFINE c == Len(chan[s])
      <4>1. /\ main'[s] = [raw |-> "join", vision |-> "v_down", udp |-> "u_read"][mode]
            /\ toTarget'[s] = Append(toTarget[s], 1) /\ UNCHANGED <<rx, chan>>
            /\ up'[s] \in {"none", "run"}
        BY <1>19, <3>0, <3>2, ZenonT(90) DEF Connect, ThreadFails, TypeOK, TypeStreams, TypeThreads, TypeFlags
      <4>2. main'[s] \in {"join", "v_down", "u_read"} BY <4>1, RequestTransportAssumption
      <4>3. toTarget[s] = <<>> /\ c \in Nat
        BY <3>0 DEF UplinkInv, Uplink, Before, TypeOK, TypeStreams, TypeThreads, TypeFlags
      <4>4. chan[s] = Run(1, c) /\ accepted[s] = 1 + c
        <5>1. Uplink(s) /\ Held(s) = 1 /\ Len(toTarget[s]) = 0 BY <3>0, <4>3 DEF UplinkInv, Held
        <5>2. chan[s] = Run(0 + 1, c) /\ accepted[s] = 0 + 1 + c BY <3>0, <5>1 DEF Uplink
        <5> QED BY <4>3, <5>2
      <4>5. toTarget'[s] = Run(0, 1)
        <5>1. Run(0, 0) = <<>> BY RunEmpty
        <5>2. Append(Run(0, 0), 0 + 0 + 1) = Run(0, 0 + 1) BY RunAppend
        <5>3. 0 + 0 + 1 = 1 /\ 0 + 1 = 1 OBVIOUS
        <5> QED BY <4>1, <4>3, <5>1, <5>2, <5>3
      <4>6. Len(toTarget'[s]) = 1 BY <4>5, RunType
      <4> HIDE DEF c
      <4>7. Held(s)' = 0 BY <4>2 DEF Held
      <4>8. chan'[s] = Run(1, Len(chan'[s])) /\ accepted'[s] = 1 + Len(chan'[s])
        BY <3>0, <4>1, <4>4 DEF c
      <4>9. main'[s] \notin Before /\ main'[s] # "none" BY <4>2 DEF Before
      <4>10. rx'[s] /\ up'[s] # "eof" BY <3>0, <4>1
      <4>11. chan'[s] = Run(1 + 0, Len(chan'[s])) /\ accepted'[s] = 1 + 0 + Len(chan'[s])
        BY <4>8
      <4> QED BY <2>2, <4>5, <4>6, <4>7, <4>9, <4>10, <4>11 DEF Uplink
    <3> QED BY <3>1, <3>2
  <2> QED BY <2>1, <2>2
<1>20. ASSUME NEW s \in Sessions, NEW k \in 1..MaxChunk, DownRead(s, k) PROVE UplinkInv'
  <2> SUFFICES ASSUME NEW r \in Sessions PROVE Uplink(r)' BY DEF UplinkInv
  <2> QED BY <1>20, UplinkSame DEF DownRead, upVars, thrVars
<1>21. ASSUME NEW s \in Sessions, NEW k \in 1..MaxChunk, LoopDown(s, k) PROVE UplinkInv'
  <2> SUFFICES ASSUME NEW r \in Sessions PROVE Uplink(r)' BY DEF UplinkInv
  <2>1. CASE r # s
    BY <1>21, <2>1, UplinkSame, SMTT(60) DEF LoopDown, ThreadFails, TypeOK, TypeStreams, TypeThreads, TypeFlags, upVars, thrVars
  <2>2. CASE r = s
    <3>0. /\ UNCHANGED <<toTarget, accepted, up>> /\ main[s] \in {"v_down", "u_recv"}
      BY <1>21 DEF LoopDown
    <3>1. CASE main'[s] = "remove"
      <4>1. ~rx'[s] BY <1>21, <3>0, <3>1, SMTT(60) DEF LoopDown, ThreadFails, TypeOK, TypeStreams, TypeThreads, TypeFlags
      <4>2. main[s] \notin Ended BY <3>0 DEF Ended
      <4> QED BY <2>2, <3>0, <3>1, <4>1, <4>2, UplinkDropped
    <3>2. CASE main'[s] # "remove"
      <4>1. main'[s] \in {"v_push", "u_push", "v_up", "v_up_eof", "u_read"} /\ UNCHANGED <<rx, chan>>
        BY <1>21, <3>0, <3>2 DEF LoopDown, ThreadFails, TypeOK, TypeStreams, TypeThreads, TypeFlags
      <4> QED BY <2>2, <3>0, <4>1 DEF UplinkInv, Uplink, Held, Before, Looping
    <3> QED BY <3>1, <3>2
  <2> QED BY <2>1, <2>2
<1>22. ASSUME NEW h \in Handlers, NEW i \in Ids, NEW body \in BOOLEAN, Acquire(h, i, body) PROVE UplinkInv'
  <2> SUFFICES ASSUME NEW r \in Sessions PROVE Uplink(r)' BY DEF UplinkInv
  <2>0. UNCHANGED <<toTarget, accepted, chan, up>> BY <1>22 DEF Acquire
  <2>1. CASE main'[r] = main[r] /\ rx'[r] = rx[r] BY <2>0, <2>1, UplinkSame
  <2>2. CASE ~(main'[r] = main[r] /\ rx'[r] = rx[r])
    <3>0. \/ UNCHANGED <<main, rx>>
          \/ /\ main' = [main EXCEPT ![count + 1] = "header"]
             /\ rx' = [rx EXCEPT ![count + 1] = TRUE]
      BY <1>22 DEF Acquire
    <3>1. r = count + 1 /\ main'[r] = "header" /\ rx'[r] BY <2>2, <3>0 DEF TypeOK, TypeStreams, TypeThreads, TypeFlags
    <3>2. main[r] = "none" BY <3>1 DEF ControlInv, Control, TypeOK, TypeRegistry
    <3>3. toTarget[r] = <<>> /\ chan[r] = <<>> /\ accepted[r] = 0
      BY <3>2 DEF UplinkInv, Uplink, Before
    <3>4. up[r] = "none" BY <3>2 DEF ControlInv, Control, Ended
    <3> QED BY <2>0, <3>1, <3>3, <3>4, RunEmpty DEF Uplink, Held, Before
  <2> QED BY <2>1, <2>2
<1>23. CASE UNCHANGED vars
  BY <1>23 DEF vars, upVars, thrVars, UplinkInv, Uplink, Held
<1> QED
  BY <1>1, <1>2, <1>3, <1>4, <1>5, <1>6, <1>7, <1>8, <1>9, <1>10, <1>11, <1>12, <1>13, <1>14, <1>15, <1>16, <1>17, <1>18, <1>19, <1>20, <1>21, <1>22, <1>23
  DEF Next, HandlerStep, SessionStep, TargetStep

-----------------------------------------------------------------------------
(* The bodies a UDP relay spoils *)

\* A session whose relay hands nothing on, and whose threads stay where a spoilt
\* body allows them to be.
LEMMA SpoiltKept ==
    ASSUME SpoiltInv, NEW r \in Sessions, UNCHANGED <<toTarget, spoilt>>,
           up'[r] = up[r] \/ up[r] # "none",
           main'[r] = main[r] \/ main[r] \notin InUdp \/ main'[r] \in InUdp
    PROVE  Spoilt(r)'
BY DEF SpoiltInv, Spoilt

\* A relay hands a body on, which it may spoil if it relays UDP packets.
LEMMA SpoiltGrows ==
    ASSUME TypeOK, SpoiltInv, NEW s \in Sessions, NEW b \in Nat, NEW udp \in BOOLEAN,
           toTarget' = [toTarget EXCEPT ![s] = Append(@, b)], Spoils(s, udp),
           udp => up'[s] = "none" /\ main'[s] \in InUdp,
           spoilt[s] # {} => up'[s] = "none" /\ main'[s] \in InUdp
    PROVE  Spoilt(s)'
<1>1. toTarget[s] \in Seq(Nat) /\ toTarget'[s] = Append(toTarget[s], b)
  BY DEF TypeOK, TypeStreams
<1>2. Len(toTarget[s]) \in Nat /\ Len(toTarget'[s]) = Len(toTarget[s]) + 1 BY <1>1
<1>3. spoilt[s] \subseteq 1..Len(toTarget[s]) BY DEF SpoiltInv, Spoilt
<1>4. /\ spoilt'[s] \subseteq spoilt[s] \cup {Len(toTarget[s]) + 1}
      /\ spoilt'[s] = spoilt[s] \/ udp
  BY DEF Spoils, TypeOK, TypeSpoilt
<1>5. spoilt'[s] \subseteq 1..Len(toTarget'[s]) BY <1>2, <1>3, <1>4
<1> QED BY <1>4, <1>5 DEF Spoilt

\* Handing a body of s on leaves the other sessions alone.
LEMMA SpoiltElsewhere ==
    ASSUME TypeOK, SpoiltInv, NEW s \in Sessions, NEW r \in Sessions \ {s}, NEW b, NEW udp,
           toTarget' = [toTarget EXCEPT ![s] = Append(@, b)], Spoils(s, udp),
           up'[r] = up[r], main'[r] = main[r]
    PROVE  Spoilt(r)'
<1>1. toTarget'[r] = toTarget[r] BY DEF TypeOK, TypeStreams
<1>2. spoilt'[r] = spoilt[r] BY DEF Spoils, TypeOK, TypeSpoilt
<1> QED BY <1>1, <1>2 DEF SpoiltInv, Spoilt

LEMMA SpoiltStep == TypeOK /\ ControlInv /\ SpoiltInv /\ [Next]_vars => SpoiltInv'
<1> SUFFICES ASSUME TypeOK, ControlInv, SpoiltInv, [Next]_vars PROVE SpoiltInv' OBVIOUS
<1>t. /\ main \in [Sessions -> MainPC] /\ push \in [Sessions -> {"none", "check", "park", "parked"}]
      /\ up \in [Sessions -> {"none", "run", "eof", "broken"}]
  BY DEF TypeOK, TypeThreads
<1>k. ASSUME UNCHANGED <<toTarget, spoilt, up>>,
             \A r \in Sessions : main'[r] = main[r] \/ main[r] \notin InUdp \/ main'[r] \in InUdp
      PROVE  SpoiltInv'
  BY <1>k, SpoiltKept DEF SpoiltInv
<1>1. ASSUME NEW h \in Handlers, HandlerStep(h) PROVE SpoiltInv'
  <2>1. UNCHANGED <<toTarget, spoilt, up, main>>
    BY <1>1 DEF HandlerStep, LockRoundtrip, CloneSender, SendBody, ReadOutgoing, PollWake,
       PollTimeout, Reply, upVars, thrVars
  <2> QED BY <1>k, <2>1
<1>2. ASSUME NEW h \in Handlers, NEW i \in Ids, NEW body \in BOOLEAN, Acquire(h, i, body)
      PROVE  SpoiltInv'
  <2>1. /\ UNCHANGED <<toTarget, spoilt, up>>
        /\ UNCHANGED main \/ main' = [main EXCEPT ![count + 1] = "header"]
    BY <1>2 DEF Acquire
  <2>2. \A r \in Sessions : r = count + 1 => main[r] \notin InUdp
    BY DEF ControlInv, Control, InUdp, TypeOK, TypeRegistry, Sessions
  <2> QED BY <1>t, <1>k, <2>1, <2>2
<1>3. ASSUME NEW s \in Sessions,
             PushPark(s) \/ DownEof(s) \/ IdleElapsed(s) \/ \E k \in 1..MaxChunk : DownRead(s, k)
      PROVE  SpoiltInv'
  <2>1. UNCHANGED <<toTarget, spoilt, up, main>>
    BY <1>3 DEF PushPark, DownEof, IdleElapsed, DownRead, upVars, thrVars
  <2> QED BY <1>k, <2>1
<1>4. ASSUME NEW s \in Sessions, Join(s) \/ Remove(s) \/ LoopEof(s) PROVE SpoiltInv'
  <2>1. /\ UNCHANGED <<toTarget, spoilt, up>>
        /\ \/ main[s] = "v_up"
           \/ \E p \in {"remove", "done"} : main' = [main EXCEPT ![s] = p]
        /\ \E p \in {"remove", "done", "v_down"} : main' = [main EXCEPT ![s] = p]
    BY <1>4 DEF Join, Remove, LoopEof
  <2>2. \A r \in Sessions : main'[r] = main[r] \/ main[r] \notin InUdp \/ main'[r] \in InUdp
    BY <1>t, <2>1 DEF InUdp
  <2> QED BY <1>k, <2>1, <2>2
<1>5. ASSUME NEW s \in Sessions, ReadHeader(s) PROVE SpoiltInv'
  <2>1. /\ UNCHANGED <<toTarget, spoilt, up>> /\ main[s] = "header"
        /\ \E p \in {"respond", "remove"} : main' = [main EXCEPT ![s] = p]
    BY <1>5 DEF ReadHeader, ThreadFails
  <2> QED BY <1>t, <1>k, <2>1 DEF InUdp
<1>6. ASSUME NEW s \in Sessions, PushCheck(s) PROVE SpoiltInv'
  <2>1. UNCHANGED <<toTarget, spoilt, up>> BY <1>6 DEF PushCheck
  <2>2. \/ UNCHANGED main
        \/ main' = [main EXCEPT ![s] = "remove"]
        \/ main' = [main EXCEPT ![s] = MainAfterPush[@]] /\ down[s] # "push"
    BY <1>6 DEF PushCheck, PushFails, PushAppends
  <2>3. CASE main' = [main EXCEPT ![s] = MainAfterPush[@]] /\ down[s] # "push"
    <3>1. main[s] \in Pushing
      <4>1. push[s] # "none" BY <1>6 DEF PushCheck
      <4> QED BY <2>3, <4>1 DEF ControlInv, Control
    <3>2. main'[s] = MainAfterPush[main[s]] BY <1>t, <2>3
    <3>3. main[s] \notin InUdp \/ main'[s] \in InUdp
      BY <3>1, <3>2 DEF Pushing, MainAfterPush, InUdp
    <3>4. \A r \in Sessions : r # s => main'[r] = main[r] BY <1>t, <2>3
    <3> QED BY <1>k, <2>1, <3>3, <3>4
  <2> QED BY <1>t, <1>k, <2>1, <2>2, <2>3 DEF InUdp
<1>7. ASSUME NEW s \in Sessions, UpForward(s) \/ UpEof(s) PROVE SpoiltInv'
  <2> SUFFICES ASSUME NEW r \in Sessions PROVE Spoilt(r)' BY DEF SpoiltInv
  <2>0. UNCHANGED <<spoilt, main>> /\ up[s] = "run" BY <1>7 DEF UpForward, UpEof
  <2>1. spoilt[s] = {} BY <2>0 DEF SpoiltInv, Spoilt
  <2>2. CASE r = s BY <2>0, <2>1, <2>2 DEF Spoilt
  <2>3. CASE r # s
    <3>1. toTarget'[r] = toTarget[r] /\ up'[r] = up[r]
      BY <1>7, <2>3, <1>t DEF UpForward, UpEof, TypeOK, TypeStreams
    <3> QED BY <2>0, <3>1 DEF SpoiltInv, Spoilt
  <2> QED BY <2>2, <2>3
<1>8. ASSUME NEW s \in Sessions, NEW k \in 1..MaxChunk, LoopDown(s, k) PROVE SpoiltInv'
  <2>1. UNCHANGED <<toTarget, spoilt, up>> /\ main[s] \in {"v_down", "u_recv"}
    BY <1>8 DEF LoopDown
  <2>2. /\ main[s] = "u_recv" => \E p \in {"u_push", "u_read", "remove"} : main' = [main EXCEPT ![s] = p]
        /\ \E p : main' = [main EXCEPT ![s] = p]
    BY <1>8, <2>1 DEF LoopDown, ThreadFails
  <2>3. \A r \in Sessions : main'[r] = main[r] \/ main[r] \notin InUdp \/ main'[r] \in InUdp
    BY <1>t, <2>1, <2>2 DEF InUdp
  <2> QED BY <1>k, <2>1, <2>3
<1>9. ASSUME NEW s \in Sessions, LoopUp(s) PROVE SpoiltInv'
  <2>0. /\ main[s] \in {"v_up", "v_up_eof", "u_read"} /\ chan[s] # <<>> /\ UNCHANGED up
        /\ chan[s] \in Seq(Nat)
    BY <1>9 DEF LoopUp, TypeOK, TypeStreams
  <2>1. CASE ThreadFails(s) /\ UNCHANGED <<toTarget, spoilt>>
    BY <1>t, <1>k, <2>0, <2>1 DEF ThreadFails, InUdp
  <2>2. CASE /\ toTarget' = [toTarget EXCEPT ![s] = Append(@, Head(chan[s]))]
             /\ Spoils(s, main[s] = "u_read")
             /\ main' = [main EXCEPT ![s] = IF @ = "u_read" THEN "u_recv" ELSE @]
    <3> SUFFICES ASSUME NEW r \in Sessions PROVE Spoilt(r)' BY DEF SpoiltInv
    <3>1. Head(chan[s]) \in Nat BY <2>0
    <3>2. up[s] = "none" BY <1>t, <2>0 DEF ControlInv, Control, Ended
    <3>3. CASE r = s
      <4>1. main[s] = "u_read" => main'[s] \in InUdp BY <1>t, <2>2 DEF InUdp
      <4>2. spoilt[s] # {} => main[s] = "u_read" BY <2>0 DEF SpoiltInv, Spoilt, InUdp
      <4>3. (main[s] = "u_read") \in BOOLEAN OBVIOUS
      <4> QED BY <2>0, <2>2, <3>1, <3>2, <3>3, <4>1, <4>2, <4>3, SpoiltGrows
    <3>4. CASE r # s
      <4>1. main'[r] = main[r] /\ up'[r] = up[r] BY <1>t, <2>0, <2>2, <3>4
      <4> QED BY <2>2, <3>4, <4>1, SpoiltElsewhere
    <3> QED BY <3>3, <3>4
  <2> QED BY <1>9, <2>1, <2>2 DEF LoopUp
<1>10. ASSUME NEW s \in Sessions, NEW mode \in Modes, Connect(s, mode) PROVE SpoiltInv'
  <2>0. main[s] = "connect" BY <1>10 DEF Connect
  <2>1. spoilt[s] = {} /\ up[s] = "none"
    BY <1>t, <2>0 DEF SpoiltInv, Spoilt, InUdp, ControlInv, Control, Ended
  <2>2. CASE ThreadFails(s) /\ UNCHANGED <<toTarget, spoilt, up, down>>
    BY <1>t, <1>k, <2>0, <2>2 DEF ThreadFails, InUdp
  <2>3. CASE /\ main' = [main EXCEPT ![s] =
                    [raw |-> "join", vision |-> "v_down", udp |-> "u_read"][mode]]
             /\ toTarget' = [toTarget EXCEPT ![s] = Append(@, 1)]
             /\ Spoils(s, mode = "udp")
             /\ IF mode = "raw"
                THEN /\ up' = [up EXCEPT ![s] = "run"]
                     /\ down' = [down EXCEPT ![s] = "run"]
                ELSE UNCHANGED <<up, down>>
    <3> SUFFICES ASSUME NEW r \in Sessions PROVE Spoilt(r)' BY DEF SpoiltInv
    <3>1. CASE r = s
      <4>1. mode = "udp" => main'[s] \in InUdp /\ up'[s] = "none" BY <1>t, <2>1, <2>3 DEF InUdp
      <4>2. (mode = "udp") \in BOOLEAN /\ 1 \in Nat OBVIOUS
      <4> QED BY <2>1, <2>3, <3>1, <4>1, <4>2, SpoiltGrows
    <3>2. CASE r # s
      <4>1. main'[r] = main[r] /\ up'[r] = up[r] BY <1>t, <2>3, <3>2
      <4> QED BY <2>3, <3>2, <4>1, SpoiltElsewhere
    <3> QED BY <3>1, <3>2
  <2> QED BY <1>10, <2>2, <2>3 DEF Connect
<1>11. CASE UNCHANGED vars BY <1>k, <1>11 DEF vars, upVars, thrVars
<1> QED
  BY <1>1, <1>2, <1>3, <1>4, <1>5, <1>6, <1>7, <1>8, <1>9, <1>10, <1>11
  DEF Next, SessionStep, TargetStep

-----------------------------------------------------------------------------
(* The roundtrip lock *)

LEMMA LockKept == Lock /\ UNCHANGED <<rt, hpc, hs, hdata>> => Lock'
BY DEF Lock

\* A handler that holds the lock moves on inside the roundtrip.
LEMMA LockHeld ==
    ASSUME TypeOK, Lock, NEW h \in Handlers, hpc[h] \in Locked, NEW p \in Locked,
           hpc' = [hpc EXCEPT ![h] = p], UNCHANGED <<rt, hs>>,
           \/ UNCHANGED hdata
           \/ p = "reply" /\ \E d : hdata' = [hdata EXCEPT ![h] = d],
           hpc[h] # "reply"
    PROVE  Lock'
<1> SUFFICES ASSUME NEW g \in Handlers
             PROVE  /\ hpc'[g] \in Locked <=> rt'[hs'[g]] = g
                    /\ \A s \in Sessions : rt'[s] = g => hs'[g] = s
                    /\ hpc'[g] # "reply" => hdata'[g] = <<>>
  BY DEF Lock
<1>1. CASE g = h BY <1>1 DEF Lock, TypeOK, TypeHandlers
<1>2. CASE g # h BY <1>2 DEF Lock, TypeOK, TypeHandlers
<1> QED BY <1>1, <1>2

\* The holder of the lock releases it and goes idle.
LEMMA LockReleased ==
    ASSUME TypeOK, Lock, NEW h \in Handlers, hpc[h] \in Locked,
           hpc' = [hpc EXCEPT ![h] = "idle"], rt' = [rt EXCEPT ![hs[h]] = NoOne],
           UNCHANGED hs,
           \/ UNCHANGED hdata /\ hpc[h] # "reply"
           \/ hdata' = [hdata EXCEPT ![h] = <<>>]
    PROVE  Lock'
<1> SUFFICES ASSUME NEW g \in Handlers
             PROVE  /\ hpc'[g] \in Locked <=> rt'[hs'[g]] = g
                    /\ \A s \in Sessions : rt'[s] = g => hs'[g] = s
                    /\ hpc'[g] # "reply" => hdata'[g] = <<>>
  BY DEF Lock
<1>0. NoOne # g /\ hs[h] \in Sessions /\ hs[g] \in Sessions /\ rt[hs[h]] = h
  BY RequestTransportAssumption DEF TypeOK, TypeHandlers, Lock
<1>1. CASE g = h
  <2>1. hpc'[g] = "idle" /\ rt'[hs'[g]] = NoOne /\ hdata'[g] = <<>>
    BY <1>0, <1>1 DEF Lock, TypeOK, TypeHandlers, TypeThreads
  <2>2. ASSUME NEW s \in Sessions, rt'[s] = g PROVE hs'[g] = s
    BY <1>0, <1>1, <2>2 DEF Lock, TypeOK, TypeThreads
  <2> QED BY <1>0, <2>1, <2>2 DEF Locked
<1>2. CASE g # h
  <2>1. hpc'[g] = hpc[g] /\ hdata'[g] = hdata[g] BY <1>2 DEF TypeOK, TypeHandlers
  <2>2. \A s \in Sessions : rt'[s] = g <=> rt[s] = g BY <1>0, <1>2 DEF TypeOK, TypeThreads
  <2> QED BY <1>0, <2>1, <2>2 DEF Lock
<1> QED BY <1>1, <1>2

LEMMA LockStep == TypeOK /\ Lock /\ [Next]_vars => Lock'
<1> SUFFICES ASSUME TypeOK, Lock, [Next]_vars PROVE Lock' OBVIOUS
<1>1. ASSUME NEW h \in Handlers, LockRoundtrip(h) PROVE Lock'
  <2> SUFFICES ASSUME NEW g \in Handlers
               PROVE  /\ hpc'[g] \in Locked <=> rt'[hs'[g]] = g
                      /\ \A s \in Sessions : rt'[s] = g => hs'[g] = s
                      /\ hpc'[g] # "reply" => hdata'[g] = <<>>
    BY DEF Lock
  <2>0. /\ hs[h] \in Sessions /\ hs[g] \in Sessions /\ rt[hs[h]] = NoOne /\ NoOne # g
        /\ hpc[h] = "enter" /\ UNCHANGED <<hs, hdata>> /\ rt' = [rt EXCEPT ![hs[h]] = h]
    BY <1>1, RequestTransportAssumption DEF LockRoundtrip, TypeOK, TypeHandlers
  <2>1. CASE g = h
    <3>1. hpc'[g] \in {"send", "read"} BY <1>1, <2>1 DEF LockRoundtrip, TypeOK, TypeHandlers
    <3>2. rt'[hs'[g]] = g BY <2>0, <2>1 DEF TypeOK, TypeThreads
    <3>3. ASSUME NEW s \in Sessions, rt'[s] = g PROVE hs'[g] = s
      BY <2>0, <2>1, <3>3 DEF Lock, TypeOK, TypeThreads
    <3>4. hdata'[g] = <<>> BY <2>0, <2>1 DEF Lock
    <3> QED BY <3>1, <3>2, <3>3, <3>4 DEF Locked
  <2>2. CASE g # h
    <3>1. hpc'[g] = hpc[g] BY <1>1, <2>2 DEF LockRoundtrip, TypeOK, TypeHandlers
    <3>2. \A s \in Sessions : rt'[s] = g <=> rt[s] = g BY <2>0, <2>2 DEF TypeOK, TypeThreads
    <3> QED BY <2>0, <3>1, <3>2 DEF Lock
  <2> QED BY <2>1, <2>2
<1>2. ASSUME NEW h \in Handlers, CloneSender(h) PROVE Lock'
  BY <1>2, LockHeld, LockReleased DEF CloneSender, Abandon, Locked
<1>3. ASSUME NEW h \in Handlers, SendBody(h) PROVE Lock'
  BY <1>3, LockHeld, LockReleased DEF SendBody, Abandon, Locked
<1>4. ASSUME NEW h \in Handlers, ReadOutgoing(h) PROVE Lock'
  BY <1>4, LockHeld DEF ReadOutgoing, Drain, Locked
<1>5. ASSUME NEW h \in Handlers, PollWake(h) PROVE Lock'
  BY <1>5, LockHeld, LockKept DEF PollWake, Drain, Locked
<1>6. ASSUME NEW h \in Handlers, PollTimeout(h) PROVE Lock'
  BY <1>6, LockHeld DEF PollTimeout, Drain, Locked
<1>7. ASSUME NEW h \in Handlers, Reply(h) PROVE Lock'
  BY <1>7, LockReleased DEF Reply, Locked
<1>8. ASSUME NEW s \in Sessions, SessionStep(s) \/ TargetStep(s) \/ IdleElapsed(s) PROVE Lock'
  <2>1. UNCHANGED <<rt, hpc, hs, hdata>>
    BY <1>8 DEF SessionStep, TargetStep, PushCheck, PushPark, ReadHeader, Connect, UpForward,
           UpEof, Join, LoopUp, LoopEof, Remove, DownRead, LoopDown, DownEof, IdleElapsed, hVars
  <2> QED BY <2>1, LockKept
<1>9. ASSUME NEW h \in Handlers, NEW i \in Ids, NEW body \in BOOLEAN, Acquire(h, i, body) PROVE Lock'
  <2> SUFFICES ASSUME NEW g \in Handlers
               PROVE  /\ hpc'[g] \in Locked <=> rt'[hs'[g]] = g
                      /\ \A s \in Sessions : rt'[s] = g => hs'[g] = s
                      /\ hpc'[g] # "reply" => hdata'[g] = <<>>
    BY DEF Lock
  <2> DEFINE n == hs'[h]
  <2>0. /\ hpc[h] = "idle" /\ UNCHANGED <<rt, hdata>> /\ hpc' = [hpc EXCEPT ![h] = "enter"]
        /\ n \in Sessions /\ hs' = [hs EXCEPT ![h] = n]
    BY <1>9 DEF Acquire, TypeOK, TypeHandlers
  <2> HIDE DEF n
  <2>1. CASE g = h
    <3>1. \A s \in Sessions : rt[s] # h BY <2>0 DEF Lock, Locked
    <3>2. hpc'[g] = "enter" /\ hs'[g] \in Sessions BY <2>0, <2>1 DEF TypeOK, TypeHandlers
    <3>3. hdata'[g] = <<>> BY <2>0, <2>1 DEF Lock
    <3> QED BY <2>0, <2>1, <3>1, <3>2, <3>3 DEF Locked
  <2>2. CASE g # h
    <3>1. hpc'[g] = hpc[g] /\ hs'[g] = hs[g] BY <2>0, <2>2 DEF TypeOK, TypeHandlers
    <3> QED BY <2>0, <3>1 DEF Lock
  <2> QED BY <2>1, <2>2
<1>10. CASE UNCHANGED vars
  BY <1>10, LockKept DEF vars, hVars
<1> QED BY <1>1, <1>2, <1>3, <1>4, <1>5, <1>6, <1>7, <1>8, <1>9, <1>10 DEF Next, HandlerStep

-----------------------------------------------------------------------------
(* The downlink *)

\* The three pieces of the downlink have types.
LEMMA DownlinkTypes ==
    ASSUME TypeOK, NEW r \in Sessions
    PROVE  /\ replies[r] \in Seq(Nat) /\ InReply(r) \in Seq(Nat) /\ out[r] \in Seq(Nat)
           /\ pushed[r] \in Nat
           /\ Len(replies[r]) \in Nat /\ Len(InReply(r)) \in Nat /\ Len(out[r]) \in Nat
<1>1. replies[r] \in Seq(Nat) /\ out[r] \in Seq(Nat) /\ pushed[r] \in Nat
  BY DEF TypeOK, TypeStreams
<1>2. InReply(r) \in Seq(Nat)
  BY EmptyType DEF InReply, TypeOK, TypeThreads, TypeHandlers
<1> QED BY <1>1, <1>2, QueueTypes

LEMMA DownlinkSame ==
    ASSUME DownlinkInv, NEW r \in Sessions, replies'[r] = replies[r],
           InReply(r)' = InReply(r), out'[r] = out[r], pushed'[r] = pushed[r]
    PROVE  Downlink(r)'
BY DEF DownlinkInv, Downlink

\* A handler that has drained nothing contributes nothing to the downlink, so
\* taking or releasing the lock does not move it.
LEMMA DownlinkLockMoves ==
    ASSUME TypeOK, Lock, DownlinkInv, NEW h \in Handlers, hdata[h] = <<>>,
           UNCHANGED <<replies, out, pushed, hdata>>,
           \/ rt[hs[h]] = NoOne /\ rt' = [rt EXCEPT ![hs[h]] = h]
           \/ rt[hs[h]] = h /\ rt' = [rt EXCEPT ![hs[h]] = NoOne]
           \/ UNCHANGED rt,
           NEW r \in Sessions
    PROVE  Downlink(r)'
<1>1. hs[h] \in Sessions /\ h # NoOne BY RequestTransportAssumption DEF TypeOK, TypeHandlers
<1>2. InReply(r)' = InReply(r)
  <2>1. CASE r = hs[h] BY <1>1, <2>1 DEF InReply, TypeOK, TypeThreads
  <2>2. CASE r # hs[h] BY <1>1, <2>2 DEF InReply, TypeOK, TypeThreads
  <2> QED BY <2>1, <2>2
<1> QED BY <1>2, DownlinkSame

\* The lock holder moves a prefix of the buffer into its response.
LEMMA DownlinkDrains ==
    ASSUME TypeOK, Lock, DownlinkInv, NEW h \in Handlers, hpc[h] \in {"read", "polling"},
           Drain(h), UNCHANGED <<replies, pushed, rt>>, NEW r \in Sessions
    PROVE  Downlink(r)'
<1>0. hs[h] \in Sessions /\ h # NoOne /\ rt[hs[h]] = h /\ hdata[h] = <<>>
  BY RequestTransportAssumption DEF TypeOK, TypeHandlers, Lock, Locked
<1>1. CASE r # hs[h]
  <2>1. rt[r] # h BY <1>1 DEF Lock
  <2>2. InReply(r)' = InReply(r)
    BY <2>1 DEF Drain, InReply, TypeOK, TypeThreads, TypeHandlers
  <2>3. out'[r] = out[r] BY <1>1 DEF Drain, TypeOK, TypeStreams
  <2> QED BY <2>2, <2>3, DownlinkSame
<1>2. CASE r = hs[h]
  <2> DEFINE a == Len(replies[r])  c == Len(out[r])
             n == IF c < MaxResp THEN c ELSE MaxResp
  <2>1. a \in Nat /\ c \in Nat /\ out[r] \in Seq(Nat) /\ pushed[r] \in Nat BY DownlinkTypes
  <2>2. InReply(r) = <<>> /\ Len(InReply(r)) = 0 BY <1>0, <1>2 DEF InReply
  <2>3. Downlink(r) BY DEF DownlinkInv
  <2>4. /\ replies[r] = Run(0, a) /\ out[r] = Run(a + 0, c) /\ pushed[r] = a + 0 + c
        /\ c < MaxBuffered + MaxChunk
    BY <2>2, <2>3 DEF Downlink
  <2>5. InReply(r)' = SubSeq(out[r], 1, n) /\ out'[r] = SubSeq(out[r], n + 1, c)
    <3>1. hdata'[h] = SubSeq(out[r], 1, n) BY <1>2 DEF Drain, TypeOK, TypeHandlers
    <3>2. rt'[r] = h BY <1>0, <1>2
    <3>3. InReply(r)' = hdata'[h] BY <1>0, <3>2 DEF InReply
    <3>4. out'[r] = SubSeq(out[r], n + 1, c) BY <1>0, <1>2 DEF Drain, TypeOK, TypeStreams
    <3> QED BY <3>1, <3>3, <3>4
  <2>6. n \in 0..c BY <2>1, ConstantTypes
  <2>a. replies'[r] = replies[r] /\ pushed'[r] = pushed[r] OBVIOUS
  <2>b. Len(replies'[r]) = a OBVIOUS
  <2> HIDE DEF a, c, n
  <2>7. a + 0 = a /\ n \in Nat /\ c - n \in Nat /\ a + n \in Nat BY <2>1, <2>6
  <2>8. out[r] = Run(a, c) /\ pushed[r] = a + c BY <2>4, <2>7
  <2>9. SubSeq(Run(a, c), 1, n) = Run(a, n) /\ SubSeq(Run(a, c), n + 1, c) = Run(a + n, c - n)
    BY <2>1, <2>6, RunSplit
  <2>10. InReply(r)' = Run(a, n) /\ out'[r] = Run(a + n, c - n) BY <2>5, <2>8, <2>9
  <2>11. Len(Run(a, n)) = n BY <2>1, <2>7, RunType
  <2>12. Len(Run(a + n, c - n)) = c - n BY <2>7, RunType
  <2>13. Len(InReply(r)') = n /\ Len(out'[r]) = c - n BY <2>10, <2>11, <2>12
  <2>14. a + c = a + n + (c - n) /\ c - n < MaxBuffered + MaxChunk
    BY <2>1, <2>4, <2>6, ConstantTypes
  <2>15. pushed'[r] = a + n + (c - n) BY <2>a, <2>8, <2>14
  <2>16. replies'[r] = Run(0, Len(replies'[r])) BY <2>a, <2>b, <2>4
  <2>17. InReply(r)' = Run(Len(replies'[r]), Len(InReply(r)')) BY <2>b, <2>10, <2>13
  <2>18. out'[r] = Run(Len(replies'[r]) + Len(InReply(r)'), Len(out'[r])) BY <2>b, <2>10, <2>13
  <2>19. pushed'[r] = Len(replies'[r]) + Len(InReply(r)') + Len(out'[r]) BY <2>b, <2>13, <2>15
  <2>20. Len(out'[r]) < MaxBuffered + MaxChunk BY <2>13, <2>14
  <2> QED BY <2>16, <2>17, <2>18, <2>19, <2>20 DEF Downlink
<1> QED BY <1>1, <1>2

\* A finished roundtrip moves its response behind the earlier ones.
LEMMA DownlinkReplies ==
    ASSUME TypeOK, Lock, DownlinkInv, NEW h \in Handlers, Reply(h), NEW r \in Sessions
    PROVE  Downlink(r)'
<1>0. hs[h] \in Sessions /\ h # NoOne /\ rt[hs[h]] = h
  BY RequestTransportAssumption DEF Reply, TypeOK, TypeHandlers, Lock, Locked
<1>1. CASE r # hs[h]
  <2>1. rt[r] # h BY <1>1 DEF Lock
  <2>2. InReply(r)' = InReply(r)
    BY <1>1, <2>1 DEF Reply, InReply, TypeOK, TypeThreads, TypeHandlers
  <2>3. replies'[r] = replies[r] BY <1>1 DEF Reply, TypeOK, TypeStreams
  <2> QED BY <2>2, <2>3, DownlinkSame DEF Reply
<1>2. CASE r = hs[h]
  <2> DEFINE a == Len(replies[r])  b == Len(InReply(r))  c == Len(out[r])
  <2>1. a \in Nat /\ b \in Nat /\ c \in Nat BY DownlinkTypes
  <2>2. Downlink(r) BY DEF DownlinkInv
  <2>3. /\ replies[r] = Run(0, a) /\ InReply(r) = Run(a, b) /\ out[r] = Run(a + b, c)
        /\ pushed[r] = a + b + c /\ c < MaxBuffered + MaxChunk
    BY <2>2 DEF Downlink
  <2>4. replies'[r] = replies[r] \o InReply(r)
    BY <1>0, <1>2 DEF Reply, InReply, TypeOK, TypeStreams
  <2>5. InReply(r)' = <<>> /\ out'[r] = out[r] /\ pushed'[r] = pushed[r]
    BY <1>0, <1>2 DEF Reply, InReply, TypeOK, TypeThreads
  <2>a. Len(out'[r]) = c /\ Len(InReply(r)') = 0 BY <2>5
  <2> HIDE DEF a, b, c
  <2>6. Run(0, a) \o Run(0 + a, b) = Run(0, a + b) BY <2>1, RunConcat
  <2>7. 0 + a = a /\ a + b \in Nat /\ a + b + 0 = a + b BY <2>1
  <2>8. replies'[r] = Run(0, a + b) BY <2>3, <2>4, <2>6, <2>7
  <2>9. Len(replies'[r]) = a + b BY <2>7, <2>8, RunType
  <2>10. InReply(r)' = Run(Len(replies'[r]), Len(InReply(r)'))
    BY <2>5, <2>7, <2>9, <2>a, RunEmpty
  <2>11. out'[r] = Run(Len(replies'[r]) + Len(InReply(r)'), Len(out'[r]))
    BY <2>3, <2>5, <2>7, <2>9, <2>a
  <2>12. pushed'[r] = Len(replies'[r]) + Len(InReply(r)') + Len(out'[r])
    BY <2>3, <2>5, <2>7, <2>9, <2>a
  <2>13. replies'[r] = Run(0, Len(replies'[r])) BY <2>8, <2>9
  <2>14. Len(out'[r]) < MaxBuffered + MaxChunk BY <2>3, <2>a
  <2> QED BY <2>10, <2>11, <2>12, <2>13, <2>14 DEF Downlink
<1> QED BY <1>1, <1>2

\* push_outgoing appends one chunk to a buffer that was not full.
LEMMA DownlinkAppends ==
    ASSUME TypeOK, DownlinkInv, NEW r \in Sessions, PushAppends(r), ~BufferFull(r),
           UNCHANGED <<replies, rt, hdata>>
    PROVE  Downlink(r)'
<1> DEFINE a == Len(replies[r])  b == Len(InReply(r))  c == Len(out[r])  k == chunk[r]
<1>1. a \in Nat /\ b \in Nat /\ c \in Nat BY DownlinkTypes
<1>2. k \in 0..MaxChunk BY DEF TypeOK, TypeStreams
<1>3. Downlink(r) BY DEF DownlinkInv
<1>4. /\ replies[r] = Run(0, a) /\ InReply(r) = Run(a, b) /\ out[r] = Run(a + b, c)
      /\ pushed[r] = a + b + c
  BY <1>3 DEF Downlink
<1>5. c < MaxBuffered BY <1>1, ConstantTypes DEF BufferFull
<1>6. out'[r] = out[r] \o Run(pushed[r], k) /\ pushed'[r] = pushed[r] + k
  BY DEF PushAppends, TypeOK, TypeStreams
<1>7. InReply(r)' = InReply(r) /\ replies'[r] = replies[r] BY DEF InReply
<1>8. Len(InReply(r)') = b /\ Len(replies'[r]) = a BY <1>7
<1> HIDE DEF a, b, c, k
<1>9. k \in Nat /\ a + b \in Nat /\ c + k \in Nat BY <1>1, <1>2, ConstantTypes
<1>10. Run(a + b, c) \o Run(a + b + c, k) = Run(a + b, c + k) BY <1>1, <1>9, RunConcat
<1>11. out'[r] = Run(a + b, c + k) BY <1>4, <1>6, <1>10
<1>12. Len(out'[r]) = c + k BY <1>9, <1>11, RunType
<1>13. a + b + c + k = a + b + (c + k) /\ c + k < MaxBuffered + MaxChunk
  BY <1>1, <1>2, <1>5, ConstantTypes
<1>14. pushed'[r] = Len(replies'[r]) + Len(InReply(r)') + Len(out'[r])
  BY <1>4, <1>6, <1>8, <1>12, <1>13
<1>15. out'[r] = Run(Len(replies'[r]) + Len(InReply(r)'), Len(out'[r])) BY <1>8, <1>11, <1>12
<1>16. Len(out'[r]) < MaxBuffered + MaxChunk BY <1>12, <1>13
<1>17. replies'[r] = Run(0, Len(replies'[r])) /\ InReply(r)' = Run(Len(replies'[r]), Len(InReply(r)'))
  BY <1>4, <1>7, <1>8
<1> QED BY <1>14, <1>15, <1>16, <1>17 DEF Downlink

LEMMA DownlinkStep == TypeOK /\ Lock /\ DownlinkInv /\ [Next]_vars => DownlinkInv'
<1> SUFFICES ASSUME TypeOK, Lock, DownlinkInv, [Next]_vars, NEW r \in Sessions
             PROVE  Downlink(r)'
  BY DEF DownlinkInv
<1>0. ASSUME UNCHANGED <<replies, rt, hdata>>, out'[r] = out[r], pushed'[r] = pushed[r]
      PROVE  Downlink(r)'
  BY <1>0, DownlinkSame DEF InReply
<1>1. ASSUME NEW h \in Handlers, LockRoundtrip(h) PROVE Downlink(r)'
  BY <1>1, DownlinkLockMoves DEF LockRoundtrip, downVars, Lock
<1>2. ASSUME NEW h \in Handlers, CloneSender(h) PROVE Downlink(r)'
  BY <1>2, DownlinkLockMoves DEF CloneSender, Abandon, downVars, Lock, Locked
<1>3. ASSUME NEW h \in Handlers, SendBody(h) PROVE Downlink(r)'
  BY <1>3, DownlinkLockMoves DEF SendBody, Abandon, downVars, Lock, Locked
<1>4. ASSUME NEW h \in Handlers, ReadOutgoing(h) PROVE Downlink(r)'
  BY <1>0, <1>4, DownlinkDrains DEF ReadOutgoing
<1>5. ASSUME NEW h \in Handlers, PollWake(h) PROVE Downlink(r)'
  BY <1>0, <1>5, DownlinkDrains DEF PollWake
<1>6. ASSUME NEW h \in Handlers, PollTimeout(h) PROVE Downlink(r)'
  BY <1>6, DownlinkDrains DEF PollTimeout
<1>7. ASSUME NEW h \in Handlers, Reply(h) PROVE Downlink(r)'
  BY <1>7, DownlinkReplies
<1>8. ASSUME NEW s \in Sessions, PushCheck(s) PROVE Downlink(r)'
  <2>0. UNCHANGED <<replies, rt, hdata>> BY <1>8 DEF PushCheck, hVars
  <2>1. CASE r = s /\ PushAppends(s) /\ ~BufferFull(s)
    BY <2>0, <2>1, DownlinkAppends
  <2>2. CASE r # s \/ UNCHANGED <<out, pushed>>
    BY <1>0, <1>8, <2>0, <2>2 DEF PushCheck, PushAppends, TypeOK, TypeStreams
  <2> QED BY <1>8, <2>1, <2>2 DEF PushCheck
<1>9. ASSUME NEW s \in Sessions,
             \/ PushPark(s) \/ ReadHeader(s) \/ (\E mode \in Modes : Connect(s, mode))
             \/ UpForward(s) \/ UpEof(s) \/ Join(s) \/ LoopUp(s) \/ LoopEof(s) \/ Remove(s)
             \/ TargetStep(s) \/ IdleElapsed(s)
      PROVE  Downlink(r)'
  <2>1. UNCHANGED <<replies, rt, hdata, out, pushed>>
    BY <1>9 DEF TargetStep, PushPark, ReadHeader, Connect, UpForward, UpEof, Join, LoopUp,
           LoopEof, Remove, DownRead, LoopDown, DownEof, IdleElapsed, hVars, downVars
  <2> QED BY <1>0, <2>1
<1>10. ASSUME NEW h \in Handlers, NEW i \in Ids, NEW body \in BOOLEAN, Acquire(h, i, body)
       PROVE  Downlink(r)'
  BY <1>0, <1>10 DEF Acquire, downVars
<1>11. CASE UNCHANGED vars
  BY <1>0, <1>11 DEF vars, hVars, downVars
<1> QED
  BY <1>1, <1>2, <1>3, <1>4, <1>5, <1>6, <1>7, <1>8, <1>9, <1>10, <1>11
  DEF Next, HandlerStep, SessionStep

-----------------------------------------------------------------------------
(* The theorems *)

LEMMA InvInit == Init => IInv
<1> SUFFICES ASSUME Init PROVE IInv OBVIOUS
<1>1. TypeOK BY TypeInit
<1>2. ControlInv BY DEF Init, ControlInv, Control, Ended
<1>3. RegistryInv
  <2>1. RegistryShape BY DEF Init, RegistryShape
  <2>2. OpenRegistered BY DEF Init, OpenRegistered, Sessions
  <2> QED BY <2>1, <2>2 DEF RegistryInv
<1>4. UplinkInv BY RunEmpty DEF Init, UplinkInv, Uplink, Held, Looping
<1>5. Lock BY <1>1, RequestTransportAssumption DEF Init, Lock, Locked, TypeOK, TypeHandlers
<1>6. DownlinkInv
  <2> SUFFICES ASSUME NEW r \in Sessions PROVE Downlink(r) BY DEF DownlinkInv
  <2>1. replies[r] = <<>> /\ InReply(r) = <<>> /\ out[r] = <<>> /\ pushed[r] = 0
    BY DEF Init, InReply
  <2>2. 0 < MaxBuffered + MaxChunk /\ 0 + 0 = 0 BY ConstantTypes
  <2> QED BY <2>1, <2>2, RunEmpty DEF Downlink
<1>7. SpoiltInv BY DEF Init, SpoiltInv, Spoilt
<1> QED BY <1>1, <1>2, <1>3, <1>4, <1>5, <1>6, <1>7 DEF IInv

\* IInv is inductive and holds in every reachable state.
THEOREM Invariance == Spec => []IInv
<1>1. IInv /\ [Next]_vars => IInv'
  BY TypeStep, ControlStep, RegistryStep, UplinkStep, SpoiltStep, LockStep, DownlinkStep DEF IInv
<1> QED BY InvInit, <1>1, PTL DEF Spec

\* Type correctness, for every number of handlers, ids and sessions.
THEOREM TypeCorrect == Spec => []TypeOK
<1>1. IInv => TypeOK BY DEF IInv
<1> QED BY Invariance, <1>1, PTL

\* acquire, remove and cleanup_locked never leave an open session that the
\* registry does not hold under its id, whatever order requests, session ends
\* and expiries come in.
THEOREM NoOrphan == Spec => []NoOrphanSession
<1>1. IInv => NoOrphanSession
  <2> SUFFICES ASSUME IInv, NEW s \in 1..count, ~closed[s] PROVE registry[owner[s]] = s
    BY DEF NoOrphanSession
  <2>1. count \in 0..MaxSessions BY DEF IInv, TypeOK, TypeRegistry
  <2>2. s \in Sessions /\ s <= count BY <2>1, ConstantTypes DEF Sessions
  <2> QED BY <2>2 DEF IInv, RegistryInv, OpenRegistered
<1> QED BY Invariance, <1>1, PTL

\* The target sees the accepted bodies in order, none skipped and none twice, and
\* none spoilt unless the relay is one of UDP packets.
THEOREM UplinkOrder == Spec => []UplinkInOrder
<1>1. IInv => UplinkInOrder
  <2> SUFFICES ASSUME IInv, NEW s \in Sessions
               PROVE  /\ Uplink(s) /\ spoilt[s] \subseteq 1..Len(toTarget[s])
                      /\ spoilt[s] # {} => up[s] = "none" /\ main[s] \notin Vision
    BY DEF Uplink, UplinkInOrder
  <2>1. Uplink(s) BY DEF IInv, UplinkInv
  <2>2. Spoilt(s) BY DEF IInv, SpoiltInv
  <2> QED BY <2>1, <2>2 DEF Spoilt, InUdp, Vision
<1> QED BY Invariance, <1>1, PTL

\* The raw uplink half-closes the target only after every accepted body.
THEOREM EofLast == Spec => []EofAfterEveryBody
<1>1. IInv => EofAfterEveryBody BY DEF IInv, UplinkInv, Uplink, EofAfterEveryBody
<1> QED BY Invariance, <1>1, PTL

\* Finished responses, the response in flight and the buffer are together
\* exactly the bytes the session thread handed over, in order.
THEOREM DownlinkOrder == Spec => []DownlinkInOrder
<1>1. IInv => DownlinkInOrder
  <2> SUFFICES ASSUME IInv, NEW r \in Sessions
               PROVE  replies[r] \o InReply(r) \o out[r] = Run(0, pushed[r])
    BY DEF DownlinkInOrder
  <2> DEFINE a == Len(replies[r])  b == Len(InReply(r))  c == Len(out[r])
  <2>1. a \in Nat /\ b \in Nat /\ c \in Nat BY DownlinkTypes DEF IInv
  <2>2. Downlink(r) BY DEF IInv, DownlinkInv
  <2>3. /\ replies[r] = Run(0, a) /\ InReply(r) = Run(a, b) /\ out[r] = Run(a + b, c)
        /\ pushed[r] = a + b + c
    BY <2>2 DEF Downlink
  <2> HIDE DEF a, b, c
  <2>4. 0 + a = a /\ a + b \in Nat /\ 0 + (a + b) = a + b BY <2>1
  <2>5. Run(0, a) \o Run(0 + a, b) = Run(0, a + b) BY <2>1, RunConcat
  <2>6. Run(0, a + b) \o Run(0 + (a + b), c) = Run(0, a + b + c) BY <2>1, <2>4, RunConcat
  <2> QED BY <2>3, <2>4, <2>5, <2>6
<1> QED BY Invariance, <1>1, PTL

\* The response buffer never outgrows its limit by a whole chunk.
THEOREM BufferBounded == Spec => []BufferBound
<1>1. IInv => BufferBound BY DEF IInv, DownlinkInv, Downlink, BufferBound
<1> QED BY Invariance, <1>1, PTL

-----------------------------------------------------------------------------
(* Who waits for whom.  A thread that owns the receiver is one that will     *)
(* read it, and the response header is pushed into an empty buffer.          *)

Reader(s) ==
    /\ rx[s] => main[s] \in {"header", "respond", "connect"} \cup Looping \/ up[s] = "run"
    /\ main[s] \in Pushing => push[s] # "none"
    /\ main[s] \in {"none", "header", "respond"} => pushed[s] = 0
    /\ main[s] = "respond" => push[s] = "check"

ReaderInv == \A s \in Sessions : Reader(s)

\* A wake-up at most sends a parked pusher back to its test.
LEMMA ReaderKept ==
    ASSUME ReaderInv, NEW r \in Sessions, UNCHANGED <<rx, main, up, pushed>>,
           push'[r] = push[r] \/ (push[r] = "parked" /\ push'[r] = "check")
    PROVE  Reader(r)'
BY DEF ReaderInv, Reader

LEMMA NotifyWakes ==
    ASSUME TypeThreads, NEW S, NotifyAll(S), NEW r \in Sessions
    PROVE  push'[r] = push[r] \/ (push[r] = "parked" /\ push'[r] = "check")
BY DEF NotifyAll, TypeThreads

\* A buffer into which nothing was pushed has room.
LEMMA EmptyHasRoom ==
    ASSUME TypeOK, DownlinkInv, NEW s \in Sessions, pushed[s] = 0
    PROVE  ~BufferFull(s)
<1>1. /\ Len(replies[s]) \in Nat /\ Len(InReply(s)) \in Nat /\ Len(out[s]) \in Nat
      /\ pushed[s] = Len(replies[s]) + Len(InReply(s)) + Len(out[s])
  BY DownlinkTypes DEF DownlinkInv, Downlink
<1>2. \A a, b, c \in Nat : 0 = a + b + c => c = 0 OBVIOUS
<1>3. Len(out[s]) = 0 BY <1>1, <1>2
<1> QED BY <1>3, ConstantTypes DEF BufferFull

LEMMA ReaderStep == IInv /\ ReaderInv /\ [Next]_vars => ReaderInv'
<1> SUFFICES ASSUME IInv, ReaderInv, [Next]_vars, NEW r \in Sessions PROVE Reader(r)'
  BY DEF ReaderInv
<1>t. /\ TypeOK /\ TypeThreads /\ DownlinkInv /\ ControlInv
      /\ DOMAIN main = Sessions /\ DOMAIN up = Sessions /\ DOMAIN push = Sessions
      /\ DOMAIN rx = Sessions /\ DOMAIN pushed = Sessions
  BY DEF IInv, TypeOK, TypeThreads, TypeFlags, TypeStreams
<1>r. Reader(r) BY DEF ReaderInv
<1>1. ASSUME NEW h \in Handlers, HandlerStep(h) PROVE Reader(r)'
  <2>1. UNCHANGED <<rx, main, up, pushed>>
    BY <1>1 DEF HandlerStep, LockRoundtrip, CloneSender, SendBody, ReadOutgoing, PollWake,
       PollTimeout, Reply, upVars, downVars, thrVars
  <2>2. push' = push \/ \E S : NotifyAll(S)
    BY <1>1 DEF HandlerStep, LockRoundtrip, CloneSender, SendBody, ReadOutgoing, PollWake,
       PollTimeout, Reply, Drain, thrVars
  <2> QED BY <1>t, <2>1, <2>2, NotifyWakes, ReaderKept
<1>2. ASSUME NEW h \in Handlers, NEW i \in Ids, NEW body \in BOOLEAN, Acquire(h, i, body)
      PROVE  Reader(r)'
  <2>1. UNCHANGED <<up, pushed>> /\ push'[r] \in {push[r], "check"}
        /\ (push'[r] = push[r] \/ push[r] = "parked")
    BY <1>t, <1>2, NotifyWakes DEF Acquire, downVars
  <2>2. CASE UNCHANGED <<main, rx>>
    BY <1>t, <2>1, <2>2, ReaderKept
  <2>3. CASE /\ count + 1 \in Sessions
             /\ main' = [main EXCEPT ![count + 1] = "header"]
             /\ rx' = [rx EXCEPT ![count + 1] = TRUE]
    <3>1. main[count + 1] = "none" BY <1>t, <2>3 DEF ControlInv, Control, TypeOK, TypeRegistry
    <3>2. CASE r = count + 1
      BY <1>t, <1>r, <2>1, <2>3, <3>1, <3>2 DEF Reader, Pushing, Looping
    <3>3. CASE r # count + 1
      <4>1. main'[r] = main[r] /\ rx'[r] = rx[r] BY <1>t, <2>3, <3>3
      <4> QED BY <1>r, <2>1, <4>1 DEF Reader
    <3> QED BY <3>2, <3>3
  <2> QED BY <1>2, <2>2, <2>3 DEF Acquire
<1>3. ASSUME NEW s \in Sessions, PushPark(s) \/ IdleElapsed(s) \/ DownEof(s) PROVE Reader(r)'
  <2>1. UNCHANGED <<rx, main, up, pushed>>
    BY <1>3 DEF PushPark, IdleElapsed, DownEof, upVars, downVars, thrVars
  <2>2. push[r] = push'[r] \/ (push[r] = "park" /\ push'[r] = "parked")
    BY <1>t, <1>3 DEF PushPark, IdleElapsed, DownEof, thrVars
  <2> QED BY <1>r, <2>1, <2>2 DEF Reader
<1>4. ASSUME NEW s \in Sessions, PushCheck(s) PROVE Reader(r)'
  <2>0. Control(s) /\ Reader(s) /\ push[s] = "check" /\ UNCHANGED up
    BY <1>t, <1>4 DEF ControlInv, ReaderInv, PushCheck
  <2>1. CASE r # s
    <3>1. main'[r] = main[r] /\ rx'[r] = rx[r] /\ push'[r] = push[r] /\ pushed'[r] = pushed[r]
      BY <1>t, <1>4, <2>1 DEF PushCheck, PushFails, PushAppends
    <3> QED BY <1>r, <2>0, <3>1 DEF Reader
  <2>2. CASE r = s
    <3>1. CASE BufferFull(s) /\ ~closed[s]
      <4>1. pushed[s] # 0 BY <1>t, <3>1, EmptyHasRoom
      <4>2. UNCHANGED <<main, rx, pushed>> /\ push'[s] = "park"
        BY <1>t, <1>4, <3>1 DEF PushCheck
      <4> QED BY <2>0, <2>2, <4>1, <4>2 DEF Reader, Pushing
    <3>2. CASE closed[s]
      <4>1. UNCHANGED pushed /\ push'[s] = "none"
            /\ \/ down[s] = "push" /\ UNCHANGED <<main, rx>>
               \/ main'[s] = "remove" /\ ~rx'[s]
        BY <1>t, <1>4, <3>2 DEF PushCheck, PushFails
      <4>2. down[s] = "push" => main[s] = "join" BY <2>0 DEF Control
      <4> QED BY <2>0, <2>2, <4>1, <4>2 DEF Reader, Pushing, Looping
    <3>3. CASE ~BufferFull(s) /\ ~closed[s]
      <4>1. UNCHANGED rx /\ push'[s] = "none"
            /\ \/ down[s] = "push" /\ UNCHANGED main
               \/ down[s] # "push" /\ main'[s] = MainAfterPush[main[s]]
        BY <1>t, <1>4, <3>3 DEF PushCheck, PushAppends
      <4>2. down[s] = "push" => main[s] = "join" BY <2>0 DEF Control
      <4>3. down[s] # "push" => main[s] \in Pushing BY <2>0 DEF Control
      <4>4. main[s] \in Pushing => MainAfterPush[main[s]] \in {"connect", "v_down", "u_read"}
        BY DEF MainAfterPush, Pushing
      <4> QED BY <2>0, <2>2, <4>1, <4>2, <4>3, <4>4 DEF Reader, Pushing, Looping
    <3> QED BY <3>1, <3>2, <3>3
  <2> QED BY <2>1, <2>2
<1>5. ASSUME NEW s \in Sessions, Remove(s) \/ Join(s) PROVE Reader(r)'
  <2>0. Reader(s) BY DEF ReaderInv
  <2>1. UNCHANGED <<rx, up, pushed>> /\ push'[r] \in {push[r], "check"}
        /\ (push'[r] = push[r] \/ push[r] = "parked")
    BY <1>t, <1>5, NotifyWakes DEF Remove, Join, Close, downVars
  <2>2. main[s] \in {"remove", "join"} /\ main'[s] \in {"remove", "done"}
        /\ (main[s] = "join" => up[s] # "run") /\ (r # s => main'[r] = main[r])
    BY <1>t, <1>5 DEF Remove, Join
  <2>3. main[s] = "remove" => up[s] # "run" BY <1>t DEF ControlInv, Control
  <2>4. CASE r # s BY <1>r, <2>1, <2>2, <2>4 DEF Reader
  <2>5. CASE r = s BY <2>0, <2>1, <2>2, <2>3, <2>5 DEF Reader, Pushing, Looping
  <2> QED BY <2>4, <2>5
<1>6. ASSUME NEW s \in Sessions, ReadHeader(s) PROVE Reader(r)'
  <2>0. Reader(s) /\ UNCHANGED <<up, pushed>> BY <1>6 DEF ReaderInv, ReadHeader, downVars
  <2>1. CASE r # s
    <3>1. main'[r] = main[r] /\ rx'[r] = rx[r] /\ push'[r] = push[r]
      BY <1>t, <1>6, <2>1 DEF ReadHeader, ThreadFails
    <3> QED BY <1>r, <2>0, <3>1 DEF Reader
  <2>2. CASE r = s
    <3>1. \/ main'[s] = "respond" /\ push'[s] = "check"
          \/ main'[s] = "remove" /\ ~rx'[s]
      BY <1>t, <1>6 DEF ReadHeader, ThreadFails
    <3>2. main[s] = "header" BY <1>6 DEF ReadHeader
    <3> QED BY <2>0, <2>2, <3>1, <3>2 DEF Reader, Pushing, Looping
  <2> QED BY <2>1, <2>2
<1>7. ASSUME NEW s \in Sessions, NEW mode \in Modes, Connect(s, mode) PROVE Reader(r)'
  <2>0. UNCHANGED <<push, pushed>> BY <1>7 DEF Connect, downVars
  <2>1. CASE r # s
    <3>1. main'[r] = main[r] /\ rx'[r] = rx[r] /\ up'[r] = up[r]
      BY <1>t, <1>7, <2>1 DEF Connect, ThreadFails
    <3> QED BY <1>r, <2>0, <3>1 DEF Reader
  <2>2. CASE r = s
    <3>a. [raw |-> "join", vision |-> "v_down", udp |-> "u_read"][mode] \in {"join", "v_down", "u_read"}
          /\ (mode # "raw" => [raw |-> "join", vision |-> "v_down", udp |-> "u_read"][mode] # "join")
      BY RequestTransportAssumption
    <3>1. \/ main'[s] = [raw |-> "join", vision |-> "v_down", udp |-> "u_read"][mode]
             /\ (mode = "raw" => up'[s] = "run")
          \/ main'[s] = "remove" /\ ~rx'[s]
      BY <1>t, <1>7 DEF Connect, ThreadFails
    <3>2. \/ main'[s] \in {"v_down", "u_read"}
          \/ main'[s] = "join" /\ up'[s] = "run"
          \/ main'[s] = "remove" /\ ~rx'[s]
      BY <3>a, <3>1
    <3> QED BY <2>2, <3>2 DEF Reader, Pushing, Looping
  <2> QED BY <2>1, <2>2
<1>8. ASSUME NEW s \in Sessions, UpForward(s) \/ UpEof(s) PROVE Reader(r)'
  <2>0. UNCHANGED <<main, push, pushed>> BY <1>8 DEF UpForward, UpEof, downVars
  <2>1. \/ rx'[r] = rx[r] /\ up'[r] = up[r]
        \/ ~rx'[r]
    BY <1>t, <1>8 DEF UpForward, UpEof
  <2> QED BY <1>r, <2>0, <2>1 DEF Reader
<1>9. ASSUME NEW s \in Sessions, NEW k \in 1..MaxChunk, DownRead(s, k) PROVE Reader(r)'
  <2>0. UNCHANGED <<rx, main, up, pushed>> /\ main[s] = "join"
    BY <1>t, <1>9 DEF DownRead, upVars, downVars, ControlInv, Control
  <2>1. push'[r] = push[r] \/ (r = s /\ push'[r] = "check")
    BY <1>t, <1>9 DEF DownRead
  <2> QED BY <1>r, <2>0, <2>1 DEF Reader
<1>10. ASSUME NEW s \in Sessions, NEW k \in 1..MaxChunk, LoopDown(s, k) PROVE Reader(r)'
  <2>0. UNCHANGED <<up, pushed>> BY <1>10 DEF LoopDown, downVars
  <2>1. CASE r # s
    <3>1. main'[r] = main[r] /\ rx'[r] = rx[r] /\ push'[r] = push[r]
      BY <1>t, <1>10, <2>1 DEF LoopDown, ThreadFails
    <3> QED BY <1>r, <2>0, <3>1 DEF Reader
  <2>2. CASE r = s
    <3>1. \/ main'[s] \in {"v_push", "u_push"} /\ push'[s] = "check"
          \/ main'[s] \in {"v_up_eof", "v_up", "u_read"}
          \/ main'[s] = "remove" /\ ~rx'[s]
      BY <1>t, <1>10 DEF LoopDown, ThreadFails
    <3> QED BY <2>2, <3>1 DEF Reader, Pushing, Looping
  <2> QED BY <2>1, <2>2
<1>11. ASSUME NEW s \in Sessions, LoopUp(s) PROVE Reader(r)'
  <2>0. UNCHANGED <<up, push, pushed>> BY <1>11 DEF LoopUp, downVars
  <2>1. CASE r # s
    <3>1. main'[r] = main[r] /\ rx'[r] = rx[r]
      BY <1>t, <1>11, <2>1 DEF LoopUp, ThreadFails
    <3> QED BY <1>r, <2>0, <3>1 DEF Reader
  <2>2. CASE r = s
    <3>1. \/ main'[s] \in {"v_up", "v_up_eof", "u_recv"}
          \/ main'[s] = "remove" /\ ~rx'[s]
      BY <1>t, <1>11 DEF LoopUp, ThreadFails
    <3> QED BY <2>2, <3>1 DEF Reader, Pushing, Looping
  <2> QED BY <2>1, <2>2
<1>12. ASSUME NEW s \in Sessions, LoopEof(s) PROVE Reader(r)'
  <2>0. UNCHANGED <<up, pushed>> BY <1>12 DEF LoopEof, downVars
  <2>1. push'[r] \in {push[r], "check"} /\ (push'[r] = push[r] \/ push[r] = "parked")
    BY <1>t, <1>12, NotifyWakes DEF LoopEof, Close
  <2>2. CASE r # s
    <3>1. main'[r] = main[r] /\ rx'[r] = rx[r]
      BY <1>t, <1>12, <2>2 DEF LoopEof
    <3> QED BY <1>r, <2>0, <2>1, <3>1 DEF Reader
  <2>3. CASE r = s
    <3>1. \/ main'[s] = "v_down"
          \/ main'[s] = "remove" /\ ~rx'[s]
      BY <1>t, <1>12 DEF LoopEof
    <3> QED BY <2>3, <3>1 DEF Reader, Pushing, Looping
  <2> QED BY <2>2, <2>3
<1>13. CASE UNCHANGED vars
  BY <1>r, <1>13 DEF vars, upVars, downVars, thrVars, Reader
<1> QED
  BY <1>1, <1>2, <1>3, <1>4, <1>5, <1>6, <1>7, <1>8, <1>9, <1>10, <1>11, <1>12, <1>13
  DEF Next, SessionStep, TargetStep

\* No circle of waits between POSTs, the channel and the relay, apart from the one
\* of a Vision or UDP relay whose response nobody can fetch, for every number of
\* handlers, ids and sessions and every capacity.
THEOREM NoCircle == Spec => []RoundtripAdvances
<1>1. IInv /\ ReaderInv => RoundtripAdvances
  <2> SUFFICES ASSUME IInv, ReaderInv PROVE RoundtripAdvances OBVIOUS
  <2>1. ASSUME NEW s \in Sessions, rt[s] # NoOne
        PROVE  hs[rt[s]] = s /\ hpc[rt[s]] \notin {"idle", "enter"}
    <3>1. rt[s] \in Handlers BY <2>1 DEF IInv, TypeOK, TypeThreads
    <3>2. hs[rt[s]] = s BY <3>1 DEF IInv, Lock
    <3>3. hpc[rt[s]] \in Locked BY <3>1, <3>2 DEF IInv, Lock
    <3> QED BY <3>2, <3>3 DEF Locked
  <2>2. ASSUME NEW h \in Handlers, rx[hs[h]]
        PROVE  WillReceive(hs[h]) \/ Wedged(hs[h])
    <3> DEFINE s == hs[h]
    <3>1. s \in Sessions /\ push[s] \in {"none", "check", "park", "parked"} /\ Reader(s)
      BY DEF IInv, TypeOK, TypeHandlers, TypeThreads, ReaderInv
    <3> QED BY <2>2, <3>1 DEF Reader, WillReceive, Wedged, Looping, Pushing
  <2> QED BY <2>1, <2>2 DEF RoundtripAdvances
<1>2. Init => ReaderInv BY DEF Init, ReaderInv, Reader, Pushing, Looping
<1> QED BY Invariance, ReaderStep, <1>1, <1>2, PTL DEF Spec

-----------------------------------------------------------------------------
(* The pipes.  A polling session, with its threads, locks, channel and       *)
(* buffer, implements the two ordered pipes of RequestPipe.                  *)

\* A response is never longer than max_response_bytes: the one fact about a
\* session that the pipes need and the inductive invariant does not hold.
ResponseBound == \A h \in Handlers : Len(hdata[h]) <= MaxResp

\* drain_buffer takes at most max_response_bytes.
LEMMA DrainBound ==
    ASSUME TypeOK, ResponseBound, NEW h \in Handlers, Drain(h)
    PROVE  ResponseBound'
<1> DEFINE s == hs[h]
           n == IF Len(out[s]) < MaxResp THEN Len(out[s]) ELSE MaxResp
<1>1. s \in Sessions /\ out[s] \in Seq(Nat) BY DEF TypeOK, TypeHandlers, TypeStreams
<1>2. n \in 0..Len(out[s]) /\ n <= MaxResp /\ n \in Nat BY <1>1, ConstantTypes, QueueTypes
<1>3. hdata' = [hdata EXCEPT ![h] = SubSeq(out[s], 1, n)] BY DEF Drain
<1> HIDE DEF n
<1>4. Len(SubSeq(out[s], 1, n)) = n BY <1>1, <1>2
<1>5. hdata \in [Handlers -> Seq(Nat)] BY DEF TypeOK, TypeHandlers
<1> QED BY <1>2, <1>3, <1>4, <1>5 DEF ResponseBound

\* Every step keeps the bound.
LEMMA ResponseStep == TypeOK /\ ResponseBound /\ [Next]_vars => ResponseBound'
<1> SUFFICES ASSUME TypeOK, ResponseBound, [Next]_vars PROVE ResponseBound' OBVIOUS
<1>0. ASSUME UNCHANGED hdata PROVE ResponseBound' BY <1>0 DEF ResponseBound
<1>1. ASSUME NEW h \in Handlers, HandlerStep(h) PROVE ResponseBound'
  <2>1. CASE LockRoundtrip(h) \/ CloneSender(h) \/ SendBody(h)
    BY <1>0, <2>1 DEF LockRoundtrip, CloneSender, SendBody
  <2>2. CASE ReadOutgoing(h) \/ PollWake(h) \/ PollTimeout(h)
    BY <1>0, <2>2, DrainBound DEF ReadOutgoing, PollWake, PollTimeout
  <2>3. CASE Reply(h)
    <3>1. hdata' = [hdata EXCEPT ![h] = <<>>] BY <2>3 DEF Reply
    <3>2. Len(<<>>) <= MaxResp BY ConstantTypes
    <3>3. hdata \in [Handlers -> Seq(Nat)] BY DEF TypeOK, TypeHandlers
    <3> QED BY <3>1, <3>2, <3>3 DEF ResponseBound
  <2> QED BY <1>1, <2>1, <2>2, <2>3 DEF HandlerStep
<1>2. ASSUME NEW h \in Handlers, NEW i \in Ids, NEW body \in BOOLEAN, Acquire(h, i, body)
      PROVE  ResponseBound'
  BY <1>0, <1>2 DEF Acquire
<1>3. ASSUME NEW s \in Sessions, SessionStep(s) \/ TargetStep(s) \/ IdleElapsed(s)
      PROVE  ResponseBound'
  BY <1>0, <1>3 DEF SessionStep, TargetStep, IdleElapsed, PushCheck, PushPark, ReadHeader, Connect,
     UpForward, UpEof, Join, LoopUp, LoopEof, Remove, DownRead, LoopDown, DownEof, hVars
<1>4. CASE UNCHANGED vars BY <1>0, <1>4 DEF vars, hVars
<1> QED BY <1>1, <1>2, <1>3, <1>4 DEF Next

\* No response of a reachable state is longer than max_response_bytes.
LEMMA ResponsesBounded == Spec => []ResponseBound
<1>1. Init => ResponseBound BY ConstantTypes DEF Init, ResponseBound
<1> QED BY <1>1, ResponseStep, TypeCorrect, PTL DEF Spec

-----------------------------------------------------------------------------
(* The step simulation *)

\* The target's end of stream, as the pipes see it.
Eof == [s \in Sessions |-> up[s] = "eof"]

\* A step that moves nothing on either pipe.
LEMMA PipeStutters ==
    ASSUME UNCHANGED <<accepted, toTarget, pushed, replies>>, Eof' = Eof
    PROVE  UNCHANGED Pipe!pipeVars
BY DEF Pipe!pipeVars, Eof

\* A body accepted into the channel is taken by the uplink pipe.
LEMMA SendTakes ==
    ASSUME IInv, NEW h \in Handlers, SendBody(h)
    PROVE  [Pipe!PipeNext]_(Pipe!pipeVars)
<1> DEFINE s == hs[h]
<1>1. s \in Sessions BY DEF IInv, TypeOK, TypeHandlers
<1>2. UNCHANGED <<toTarget, pushed, replies, up>> BY DEF SendBody, downVars, thrVars
<1>3. CASE accepted' = [accepted EXCEPT ![s] = @ + 1] /\ rx[s]
  <2>1. up[s] # "eof" BY <1>1, <1>3 DEF IInv, UplinkInv, Uplink
  <2>2. Pipe!Take(s) BY <1>1, <1>2, <1>3, <2>1 DEF Pipe!Take
  <2> QED BY <1>1, <2>2 DEF Pipe!PipeNext
<1>4. CASE UNCHANGED accepted BY <1>2, <1>4, PipeStutters DEF Eof
<1> QED BY <1>3, <1>4 DEF SendBody

\* The next body reaches the target of a session that has not ended.
LEMMA RelayDelivers ==
    ASSUME IInv, NEW s \in Sessions,
           up[s] # "eof", Len(toTarget[s]) < accepted[s],
           toTarget' = [toTarget EXCEPT ![s] = Append(@, Len(toTarget[s]) + 1)],
           UNCHANGED <<accepted, pushed, replies>>, Eof' = Eof
    PROVE  [Pipe!PipeNext]_(Pipe!pipeVars)
<1>1. Pipe!Deliver(s) BY DEF Pipe!Deliver, Eof
<1> QED BY <1>1 DEF Pipe!PipeNext

\* The body at the head of the channel is the next one.
LEMMA HeadIsNext ==
    ASSUME IInv, NEW s \in Sessions, rx[s], Held(s) = 0, chan[s] # <<>>
    PROVE  Head(chan[s]) = Len(toTarget[s]) + 1 /\ Len(toTarget[s]) < accepted[s]
<1>1. /\ chan[s] \in Seq(Nat) /\ toTarget[s] \in Seq(Nat) /\ accepted[s] \in Nat
  BY DEF IInv, TypeOK, TypeStreams
<1> DEFINE a == Len(toTarget[s])  c == Len(chan[s])
<1>2. a \in Nat /\ c \in Nat /\ c > 0 BY <1>1
<1>3. chan[s] = Run(a + 0, c) /\ accepted[s] = a + 0 + c
  BY DEF IInv, UplinkInv, Uplink
<1>4. Head(chan[s]) = chan[s][1] BY <1>1
<1> HIDE DEF a, c
<1>5. Run(a + 0, c)[1] = a + 1 BY <1>2 DEF Run
<1> QED BY <1>2, <1>3, <1>4, <1>5 DEF a

\* The session threads' steps that write to the target or tell it the end.
LEMMA UplinkSimulates ==
    ASSUME IInv, NEW s \in Sessions,
           (\E mode \in Modes : Connect(s, mode)) \/ UpForward(s) \/ UpEof(s) \/ LoopUp(s)
    PROVE  [Pipe!PipeNext]_(Pipe!pipeVars)
<1>0. /\ up \in [Sessions -> {"none", "run", "eof", "broken"}]
      /\ toTarget \in [Sessions -> Seq(Nat)] /\ chan[s] \in Seq(Nat) /\ accepted[s] \in Nat
      /\ Control(s) /\ Uplink(s)
  BY DEF IInv, TypeOK, TypeThreads, TypeStreams, ControlInv, UplinkInv
<1>1. UNCHANGED <<accepted, pushed, replies>>
  BY DEF Connect, UpForward, UpEof, LoopUp, downVars
<1>a. ASSUME UNCHANGED toTarget, Eof' = Eof PROVE [Pipe!PipeNext]_(Pipe!pipeVars)
  BY <1>1, <1>a, PipeStutters
<1>2. ASSUME NEW mode \in Modes, Connect(s, mode) PROVE [Pipe!PipeNext]_(Pipe!pipeVars)
  <2>1. main[s] = "connect" BY <1>2 DEF Connect
  <2>2. up[s] = "none" /\ toTarget[s] = <<>> /\ rx[s] /\ Held(s) = 1
    BY <1>0, <2>1 DEF Control, Uplink, Ended, Before, Looping, Held
  <2>3. Eof' = Eof BY <1>0, <1>2, <2>2 DEF Connect, Eof
  <2>4. Len(toTarget[s]) = 0 /\ Len(toTarget[s]) < accepted[s]
    BY <1>0, <2>2 DEF Uplink
  <2>5. CASE toTarget' = [toTarget EXCEPT ![s] = Append(@, 1)]
    <3>1. toTarget' = [toTarget EXCEPT ![s] = Append(@, Len(toTarget[s]) + 1)] BY <2>4, <2>5
    <3> QED BY <1>1, <2>2, <2>3, <2>4, <3>1, RelayDelivers
  <2>6. CASE UNCHANGED toTarget BY <1>a, <2>3, <2>6
  <2> QED BY <1>2, <2>5, <2>6 DEF Connect
<1>3. ASSUME UpForward(s) PROVE [Pipe!PipeNext]_(Pipe!pipeVars)
  <2>1. up[s] = "run" /\ chan[s] # <<>> BY <1>3 DEF UpForward
  <2>2. rx[s] /\ Held(s) = 0 BY <1>0, <2>1 DEF Control, Uplink, Held
  <2>3. Eof' = Eof BY <1>0, <1>3, <2>1 DEF UpForward, Eof
  <2>4. CASE toTarget' = [toTarget EXCEPT ![s] = Append(@, Head(chan[s]))]
    <3>1. Head(chan[s]) = Len(toTarget[s]) + 1 /\ Len(toTarget[s]) < accepted[s]
      BY <2>1, <2>2, HeadIsNext
    <3> QED BY <1>1, <2>1, <2>3, <2>4, <3>1, RelayDelivers
  <2>5. CASE UNCHANGED toTarget BY <1>a, <2>3, <2>5
  <2> QED BY <1>3, <2>4, <2>5 DEF UpForward
<1>4. ASSUME LoopUp(s) PROVE [Pipe!PipeNext]_(Pipe!pipeVars)
  <2>1. main[s] \in {"v_up", "v_up_eof", "u_read"} /\ chan[s] # <<>> BY <1>4 DEF LoopUp
  <2>2. rx[s] /\ Held(s) = 0 /\ up[s] = "none"
    BY <1>0, <2>1 DEF Control, Uplink, Held, Looping, Ended
  <2>3. Eof' = Eof BY <1>4 DEF LoopUp, Eof
  <2>4. CASE toTarget' = [toTarget EXCEPT ![s] = Append(@, Head(chan[s]))]
    <3>1. Head(chan[s]) = Len(toTarget[s]) + 1 /\ Len(toTarget[s]) < accepted[s]
      BY <2>1, <2>2, HeadIsNext
    <3> QED BY <1>1, <2>2, <2>3, <2>4, <3>1, RelayDelivers
  <2>5. CASE UNCHANGED toTarget BY <1>a, <2>3, <2>5
  <2> QED BY <1>4, <2>4, <2>5 DEF LoopUp
<1>5. ASSUME UpEof(s) PROVE [Pipe!PipeNext]_(Pipe!pipeVars)
  <2>1. /\ up[s] = "run" /\ chan[s] = <<>> /\ up' = [up EXCEPT ![s] = "eof"]
        /\ UNCHANGED toTarget
    BY <1>5 DEF UpEof, Disconnected
  <2>2. rx[s] /\ Held(s) = 0 BY <1>0, <2>1 DEF Control, Uplink, Held
  <2>3. Len(toTarget[s]) = accepted[s]
    <3>1. accepted[s] = Len(toTarget[s]) + 0 + 0 BY <1>0, <2>1, <2>2 DEF Uplink
    <3>2. Len(toTarget[s]) \in Nat BY <1>0
    <3> QED BY <3>1, <3>2
  <2>4. Eof' = [Eof EXCEPT ![s] = TRUE] BY <1>0, <2>1 DEF Eof
  <2>5. Pipe!End(s) BY <1>1, <2>1, <2>3, <2>4 DEF Pipe!End, Eof
  <2> QED BY <2>5 DEF Pipe!PipeNext
<1> QED BY <1>2, <1>3, <1>4, <1>5

\* push_outgoing hands the chunk to the downlink pipe.
LEMMA PushProduces ==
    ASSUME IInv, NEW s \in Sessions, PushCheck(s)
    PROVE  [Pipe!PipeNext]_(Pipe!pipeVars)
<1>1. UNCHANGED <<accepted, toTarget, replies, up>> BY DEF PushCheck
<1>2. pushed \in [Sessions -> Nat] /\ chunk[s] \in Nat
  BY ConstantTypes DEF IInv, TypeOK, TypeStreams
<1>3. CASE UNCHANGED pushed BY <1>1, <1>3, PipeStutters DEF Eof
<1>4. CASE pushed' = [pushed EXCEPT ![s] = @ + chunk[s]]
  <2>1. CASE chunk[s] = 0
    <3>1. pushed' = pushed BY <1>2, <1>4, <2>1
    <3> QED BY <1>3, <3>1
  <2>2. CASE chunk[s] > 0
    <3>1. pushed'[s] > pushed[s] BY <1>2, <1>4, <2>2
    <3>2. pushed' = [pushed EXCEPT ![s] = pushed'[s]] BY <1>2, <1>4
    <3>3. Pipe!Produce(s) BY <1>1, <3>1, <3>2 DEF Pipe!Produce
    <3> QED BY <3>3 DEF Pipe!PipeNext
  <2> QED BY <1>2, <2>1, <2>2
<1> QED BY <1>3, <1>4 DEF PushCheck, PushAppends

\* A finished roundtrip answers with the next bytes, at most a response of them.
LEMMA ReplyAnswers ==
    ASSUME IInv, ResponseBound, NEW h \in Handlers, Reply(h)
    PROVE  [Pipe!PipeNext]_(Pipe!pipeVars)
<1> DEFINE s == hs[h]
           k == Len(hdata[h])
           a == Len(replies[s])
<1>1. /\ s \in Sessions /\ hdata[h] \in Seq(Nat) /\ replies \in [Sessions -> Seq(Nat)]
      /\ pushed[s] \in Nat /\ out[s] \in Seq(Nat)
  BY DEF IInv, TypeOK, TypeHandlers, TypeStreams
<1>2. /\ UNCHANGED <<accepted, toTarget, pushed, up>>
      /\ replies' = [replies EXCEPT ![s] = @ \o hdata[h]]
  BY DEF Reply, upVars, thrVars
<1>3. rt[s] = h /\ h # NoOne
  BY RequestTransportAssumption DEF Reply, IInv, Lock, Locked
<1>4. InReply(s) = hdata[h] BY <1>3 DEF InReply
<1>5. /\ hdata[h] = Run(a, k) /\ pushed[s] = a + k + Len(out[s])
      /\ k \in Nat /\ a \in Nat /\ Len(out[s]) \in Nat /\ k <= MaxResp
  <2>1. Downlink(s) BY <1>1 DEF IInv, DownlinkInv
  <2>2. hdata[h] = Run(a, k) /\ pushed[s] = a + k + Len(out[s]) BY <1>4, <2>1 DEF Downlink
  <2>3. k \in Nat /\ a \in Nat /\ Len(out[s]) \in Nat BY <1>1
  <2>4. k <= MaxResp BY DEF ResponseBound
  <2> QED BY <2>2, <2>3, <2>4
<1>6. CASE k = 0
  <2>1. hdata[h] = <<>> BY <1>1, <1>6
  <2>2. replies[s] \o <<>> = replies[s] BY <1>1
  <2>3. replies' = replies BY <1>1, <1>2, <2>1, <2>2
  <2> QED BY <1>2, <2>3, PipeStutters DEF Eof
<1>7. CASE k # 0
  <2>1. k \in 1..MaxResp /\ a + k <= pushed[s]
    <3> DEFINE o == Len(out[s])
    <3>1. /\ k \in Nat /\ a \in Nat /\ o \in Nat /\ k <= MaxResp /\ MaxResp \in Nat
          /\ pushed[s] = a + k + o
      BY <1>5, ConstantTypes
    <3> HIDE DEF k, a, o
    <3>2. k \in 1..MaxResp BY <1>7, <3>1
    <3>3. a + k <= a + k + o BY <3>1
    <3> QED BY <3>1, <3>2, <3>3
  <2>2. hdata[h] = [i \in 1..k |-> Len(replies[s]) + i] BY <1>5 DEF Run
  <2>3. replies' = [replies EXCEPT ![s] = @ \o [i \in 1..k |-> Len(replies[s]) + i]]
    BY <1>2, <2>2
  <2> HIDE DEF k
  <2>4. Pipe!Answer(s) BY <1>1, <1>2, <2>1, <2>3 DEF Pipe!Answer
  <2> QED BY <1>1, <2>4 DEF Pipe!PipeNext
<1> QED BY <1>6, <1>7

\* Every step of the transport is a step of the pipes or moves nothing on them.
LEMMA StepSimulates ==
    ASSUME IInv, ResponseBound, [Next]_vars
    PROVE  [Pipe!PipeNext]_(Pipe!pipeVars)
<1>0. ASSUME UNCHANGED <<accepted, toTarget, pushed, replies, up>>
      PROVE  [Pipe!PipeNext]_(Pipe!pipeVars)
  BY <1>0, PipeStutters DEF Eof
<1>1. ASSUME NEW h \in Handlers, HandlerStep(h) PROVE [Pipe!PipeNext]_(Pipe!pipeVars)
  <2>1. CASE SendBody(h) BY <2>1, SendTakes
  <2>2. CASE Reply(h) BY <2>2, ReplyAnswers
  <2>3. CASE LockRoundtrip(h) \/ CloneSender(h) \/ ReadOutgoing(h) \/ PollWake(h) \/ PollTimeout(h)
    BY <1>0, <2>3 DEF LockRoundtrip, CloneSender, ReadOutgoing, PollWake, PollTimeout,
       upVars, downVars, thrVars
  <2> QED BY <1>1, <2>1, <2>2, <2>3 DEF HandlerStep
<1>2. ASSUME NEW h \in Handlers, NEW i \in Ids, NEW body \in BOOLEAN, Acquire(h, i, body)
      PROVE  [Pipe!PipeNext]_(Pipe!pipeVars)
  BY <1>0, <1>2 DEF Acquire, downVars
<1>3. ASSUME NEW s \in Sessions, SessionStep(s) PROVE [Pipe!PipeNext]_(Pipe!pipeVars)
  <2>1. CASE PushCheck(s) BY <2>1, PushProduces
  <2>2. CASE (\E mode \in Modes : Connect(s, mode)) \/ UpForward(s) \/ UpEof(s) \/ LoopUp(s)
    BY <2>2, UplinkSimulates
  <2>3. CASE PushPark(s) \/ ReadHeader(s) \/ Join(s) \/ LoopEof(s) \/ Remove(s)
    BY <1>0, <2>3 DEF PushPark, ReadHeader, Join, LoopEof, Remove, upVars, downVars
  <2> QED BY <1>3, <2>1, <2>2, <2>3 DEF SessionStep
<1>4. ASSUME NEW s \in Sessions, TargetStep(s) \/ IdleElapsed(s)
      PROVE  [Pipe!PipeNext]_(Pipe!pipeVars)
  BY <1>0, <1>4 DEF TargetStep, IdleElapsed, DownRead, LoopDown, DownEof, upVars, downVars, thrVars
<1>5. CASE UNCHANGED vars BY <1>0, <1>5 DEF vars, upVars, downVars, thrVars
<1> QED BY <1>1, <1>2, <1>3, <1>4, <1>5 DEF Next

\* submit_roundtrip, push_outgoing and the relays, for any number of sessions and
\* handlers: the interleaved threads of a session are two ordered pipes.
THEOREM Refinement == Spec => ImplementsPipe
<1>1. Init => Pipe!PipeInit
  <2> SUFFICES ASSUME Init PROVE Pipe!PipeInit OBVIOUS
  <2>1. [s \in Sessions |-> up[s] = "eof"] = [s \in Sessions |-> FALSE] BY DEF Init
  <2> QED BY <2>1 DEF Init, Pipe!PipeInit
<1>2. IInv /\ ResponseBound /\ [Next]_vars => [Pipe!PipeNext]_(Pipe!pipeVars)
  BY StepSimulates
<1> QED BY <1>1, <1>2, Invariance, ResponsesBounded, PTL DEF Spec, ImplementsPipe, Pipe!PipeSpec

=============================================================================
