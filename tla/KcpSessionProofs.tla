-------------------------- MODULE KcpSessionProofs --------------------------
(***************************************************************************)
(* The mKCP session, for every window and channel size and any number of   *)
(* segments: the uplink is in order, what is acknowledged is kept, what is *)
(* forgotten was received, and the raw relay drops nothing.                *)
(***************************************************************************)
EXTENDS KcpSession, FiniteSetTheorems, SequenceTheorems, TLAPS

-----------------------------------------------------------------------------
(* Minima, maxima and intervals *)

\* Min picks the least element of a non-empty set of naturals.
LEMMA MinOfNaturals ==
    ASSUME NEW S, S \subseteq Nat, S # {}
    PROVE  Min(S) \in S /\ \A y \in S : Min(S) <= y
<1> DEFINE R == OpToRel(<, Nat)
<1>1. PICK x \in S : \A y \in S : ~(<<y, x>> \in R)
  BY NatLessThanWellFounded, WFMin
<1>2. \A y \in S : x <= y
  <2>1. TAKE y \in S
  <2>2. x \in Nat /\ y \in Nat OBVIOUS
  <2>3. ~(y < x) BY <1>1, <2>2 DEF OpToRel
  <2> QED BY <2>2, <2>3
<1> QED BY <1>2 DEF Min

\* Max of two naturals.
LEMMA MaxOfTwo ==
    ASSUME NEW a \in Nat, NEW b \in Nat
    PROVE  Max({a, b}) \in Nat
<1>1. \E x \in {a, b} : \A y \in {a, b} : x >= y
  <2>1. CASE a >= b BY <2>1
  <2>2. CASE ~(a >= b) BY <2>2
  <2> QED BY <2>1, <2>2
<1> QED BY <1>1 DEF Max

\* A finite set of naturals cannot contain Cardinality + 1 numbers in a row.
LEMMA GapInEveryRun ==
    ASSUME NEW B, B \subseteq Nat, IsFiniteSet(B), NEW n \in Nat
    PROVE  \E j \in 0..Cardinality(B) : n + j \notin B
<1>1. Cardinality(B) \in Nat BY FS_CardinalityType
<1> DEFINE c == Cardinality(B)
           I == n..(n + c)
<1>2. Cardinality(I) = c + 1 BY <1>1, FS_Interval
<1>3. ~(I \subseteq B)
  <2>1. SUFFICES ASSUME I \in SUBSET B PROVE FALSE OBVIOUS
  <2>2. Cardinality(I) <= Cardinality(B) BY <2>1, FS_Subset
  <2> QED BY <1>1, <1>2, <2>2
<1>4. PICK m \in I : m \notin B BY <1>3
<1>5. m - n \in 0..c /\ n + (m - n) = m BY <1>1, <1>4
<1> QED BY <1>4, <1>5

\* k numbers in a row, from n on.
LEMMA RunSize ==
    ASSUME NEW n \in Nat, NEW k \in Nat
    PROVE  IsFiniteSet(n..(n + k - 1)) /\ Cardinality(n..(n + k - 1)) = k
<1>1. n \in Int /\ n + k - 1 \in Int OBVIOUS
<1>2. IsFiniteSet(n..(n + k - 1))
      /\ Cardinality(n..(n + k - 1)) = IF n > n + k - 1 THEN 0 ELSE (n + k - 1) - n + 1
  BY <1>1, FS_Interval
<1>3. (IF n > n + k - 1 THEN 0 ELSE (n + k - 1) - n + 1) = k OBVIOUS
<1> QED BY <1>2, <1>3

\* The numbers below n, and any set of them.
LEMMA SubsetBelow ==
    ASSUME NEW n \in Nat, NEW S, S \subseteq 0..n - 1
    PROVE  IsFiniteSet(S) /\ Cardinality(S) \in Nat /\ Cardinality(S) <= n
<1>1. 0..n - 1 = 0..(0 + n - 1) OBVIOUS
<1>2. IsFiniteSet(0..n - 1) /\ Cardinality(0..n - 1) = n BY <1>1, RunSize
<1>3. IsFiniteSet(S) /\ Cardinality(S) <= n BY <1>2, FS_Subset
<1> QED BY <1>3, FS_CardinalityType

\* promote_received: the first missing number at or after n, and the numbers
\* before it are all there.
LEMMA Promoted ==
    ASSUME NEW B, B \subseteq Nat, IsFiniteSet(B), NEW n \in Nat
    PROVE  LET k == Min({j \in 0..Cardinality(B) : n + j \notin B})
           IN  /\ k \in Nat
               /\ n + k \notin B
               /\ \A j \in 0..k - 1 : n + j \in B
<1> DEFINE J == {j \in 0..Cardinality(B) : n + j \notin B}
           k == Min(J)
<1>1. Cardinality(B) \in Nat BY FS_CardinalityType
<1>2. J # {} BY GapInEveryRun
<1>3. J \subseteq Nat BY <1>1
<1>4. k \in J /\ \A y \in J : k <= y BY <1>2, <1>3, MinOfNaturals
<1>5. \A j \in 0..k - 1 : n + j \in B
  <2>1. TAKE j \in 0..k - 1
  <2>2. j \in 0..Cardinality(B) /\ j < k BY <1>1, <1>4
  <2>3. j \notin J BY <1>1, <1>4, <2>2
  <2> QED BY <2>2, <2>3
<1> QED BY <1>1, <1>4, <1>5

\* The elements of a concatenation.
LEMMA ConcatFacts ==
    ASSUME NEW s \in Seq(Nat), NEW t \in Seq(Nat)
    PROVE  /\ s \o t \in Seq(Nat)
           /\ Len(s \o t) = Len(s) + Len(t)
           /\ Len(s) \in Nat /\ Len(t) \in Nat
           /\ \A i \in 1..Len(s) : (s \o t)[i] = s[i]
           /\ \A i \in 1..Len(t) : (s \o t)[Len(s) + i] = t[i]
OBVIOUS

-----------------------------------------------------------------------------
(* The inductive invariant *)

\* The engine's flags; a session leaves the table only when it is terminated.
EngInv ==
    /\ live \in {"none", "live", "gone"}
    /\ st \in States /\ old \subseteq {"idle", "state"} /\ appClosed \in BOOLEAN
    /\ live = "gone" => st = "Terminated"

\* The threads: the upload thread exists in raw mode only, and the download loop
\* outlives it.
ThreadInv ==
    /\ relay \in RelayPC /\ up \in {"none", "run", "eof", "broken"}
    /\ live = "none" <=> relay = "none"
    /\ relay \in {"down", "push", "join"} => up # "none"
    /\ up # "none" => relay \in {"down", "push", "join", "done"}
    /\ up = "run" => relay # "done"

\* The number of frames the relay has taken out of the channel.
TakenLen == IF relay \in {"respond", "connect"} THEN 1 ELSE Len(toTarget)

\* The uplink: the position of every frame in the channel and at the target.
UpInv ==
    /\ recvNext \in Nat /\ recvBuf \subseteq Nat /\ IsFiniteSet(recvBuf) /\ ackq \subseteq Nat
    /\ incoming \in Seq(Nat) /\ toTarget \in Seq(Nat)
    /\ relay = "none" => recvNext = 0 /\ incoming = <<>>
    /\ relay \in {"none", "header", "respond", "connect"} => toTarget = <<>>
    /\ \A i \in 1..Len(toTarget) : toTarget[i] = i - 1
    /\ ReaderAlive => /\ TakenLen + Len(incoming) = recvNext
                      /\ \A i \in 1..Len(incoming) : incoming[i] = TakenLen + i - 1

\* The chunks on their way from the relay to the engine.
ChunkInv ==
    /\ enq \in Seq(Nat) /\ outq \in Seq(Nat) /\ held \in Seq(Nat)
    /\ Len(outq) <= OutCap /\ Len(held) <= 1 /\ produced \in 0..MaxDown + 1
    /\ relay \in {"none", "header"} => produced = 0
    /\ held # <<>> => relay \in {"respond", "push"}
    /\ Len(enq) + Len(outq) + Len(held) <= produced

\* In the modes and phases that retry a full channel, no chunk is missing.
OrderInv ==
    (relay \in {"none", "header", "respond", "connect"} \/ up # "none") /\ CanAccept(st) =>
        /\ Len(enq) + Len(outq) + Len(held) = produced
        /\ \A i \in 1..Len(enq) : enq[i] = i - 1
        /\ \A i \in 1..Len(outq) : outq[i] = Len(enq) + i - 1
        /\ \A i \in 1..Len(held) : held[i] = Len(enq) + Len(outq) + i - 1

\* The send window holds numbers already assigned, and only those travel.
WinInv ==
    /\ nextSend \in Nat /\ nextSend <= Len(enq) /\ remoteNext \in Nat
    /\ DOMAIN win \subseteq 0..nextSend - 1 /\ Cardinality(DOMAIN win) <= SendBuffer
    /\ win \in [DOMAIN win -> SegStatus]
    /\ cGot \subseteq 0..nextSend - 1 /\ flight \subseteq 0..nextSend - 1
    /\ SentUntilGot

IInv == EngInv /\ ThreadInv /\ UpInv /\ AckedIsKept /\ ChunkInv /\ OrderInv /\ WinInv

-----------------------------------------------------------------------------
(* The initial state *)

\* The constants, one by one.
LEMMA ConstantFacts ==
    /\ RecvWindow \in Nat \ {0} /\ SendBuffer \in Nat \ {0} /\ SendInflight \in Nat \ {0}
    /\ StartupWindow \in Nat \ {0} /\ ClientWindow \in Nat \ {0} /\ OutCap \in Nat \ {0}
    /\ MaxUp \in Nat /\ MaxDown \in Nat /\ Wrap \in Nat
    /\ 2 * (MaxDown + ClientWindow + StartupWindow) < Wrap
BY KcpAssumption

\* Before the first packet nothing is queued anywhere.
LEMMA InitInv == Init => IInv
<1> SUFFICES ASSUME Init PROVE IInv OBVIOUS
<1> USE ConstantFacts
<1>1. EngInv BY DEF Init, EngInv, States
<1>2. ThreadInv BY DEF Init, ThreadInv, RelayPC
<1>3. UpInv BY FS_EmptySet DEF Init, UpInv, ReaderAlive
<1>4. AckedIsKept BY DEF Init, AckedIsKept
<1>5. ChunkInv BY DEF Init, ChunkInv
<1>6. OrderInv BY DEF Init, OrderInv
<1>7. WinInv
  <2>1. DOMAIN win = {} /\ win \in [{} -> SegStatus] BY DEF Init
  <2>2. Cardinality(DOMAIN win) <= SendBuffer BY <2>1, FS_EmptySet
  <2> QED BY <2>1, <2>2 DEF Init, WinInv, SentUntilGot
<1> QED BY <1>1, <1>2, <1>3, <1>4, <1>5, <1>6, <1>7 DEF IInv

-----------------------------------------------------------------------------
(* The engine and the threads *)

\* Every way of changing the state stays within the states, and none reopens a
\* session that has stopped accepting data.
LEMMA StateChanges ==
    ASSUME NEW s \in States
    PROVE  /\ OnWriteClosed(s) \in States /\ (CanAccept(OnWriteClosed(s)) => CanAccept(s))
           /\ OnCloseOption(s) \in States /\ (CanAccept(OnCloseOption(s)) => CanAccept(s))
           /\ OnTerminate(s) \in States /\ (CanAccept(OnTerminate(s)) => CanAccept(s))
           /\ \A T, closing, drained :
                 /\ ChecksClose(s, T, closing, drained) \in States
                 /\ CanAccept(ChecksClose(s, T, closing, drained)) => CanAccept(s)
<1>1. OnWriteClosed(s) \in States /\ (CanAccept(OnWriteClosed(s)) => CanAccept(s))
  BY DEF OnWriteClosed, States, CanAccept
<1>2. OnCloseOption(s) \in States /\ (CanAccept(OnCloseOption(s)) => CanAccept(s))
  BY DEF OnCloseOption, States, CanAccept
<1>3. OnTerminate(s) \in States /\ (CanAccept(OnTerminate(s)) => CanAccept(s))
  BY DEF OnTerminate, States, CanAccept
<1>4. ASSUME NEW T, NEW closing, NEW drained
      PROVE  /\ ChecksClose(s, T, closing, drained) \in States
             /\ CanAccept(ChecksClose(s, T, closing, drained)) => CanAccept(s)
  BY DEF ChecksClose, States, CanAccept
<1> QED BY <1>1, <1>2, <1>3, <1>4

\* An elapsed timer stays a timer.
LEMMA TimersStay ==
    ASSUME NEW T, T \subseteq {"idle", "state"}, NEW a, NEW b
    PROVE  TimersAfter(T, a, b) \subseteq {"idle", "state"}
BY DEF TimersAfter

\* A packet: the state and the timers stay what they are.
LEMMA PacketEng ==
    ASSUME EngInv, Received, NEW s \in States, CanAccept(s) => CanAccept(st), EnterState(s),
           UNCHANGED appClosed
    PROVE  EngInv' /\ (CanAccept(st') => CanAccept(st))
<1>1. old' \subseteq {"idle", "state"} BY TimersStay DEF EngInv, EnterState
<1> QED BY <1>1 DEF EngInv, Received, EnterState

\* The engine's flags under every step, and no step reopens the session.
LEMMA EngStep ==
    ASSUME IInv, [Next]_vars
    PROVE  EngInv' /\ (CanAccept(st') => CanAccept(st))
<1> USE DEF IInv
<1>0. EngInv /\ st \in States BY DEF EngInv
<1>1. ASSUME NEW n, NEW opt \in BOOLEAN, RecvData(n, opt)
      PROVE  EngInv' /\ (CanAccept(st') => CanAccept(st))
  <2>1. Option(st, opt) \in States /\ (CanAccept(Option(st, opt)) => CanAccept(st))
    BY <1>0, StateChanges DEF Option
  <2> QED BY <1>0, <1>1, <2>1, PacketEng DEF RecvData
<1>2. ASSUME NEW next, NEW numbers, NEW opt \in BOOLEAN, RecvAck(next, numbers, opt)
      PROVE  EngInv' /\ (CanAccept(st') => CanAccept(st))
  <2>1. Option(st, opt) \in States /\ (CanAccept(Option(st, opt)) => CanAccept(st))
    BY <1>0, StateChanges DEF Option
  <2> QED BY <1>0, <1>2, <2>1, PacketEng DEF RecvAck
<1>3. ASSUME NEW terminate \in BOOLEAN, NEW next, NEW opt \in BOOLEAN,
             RecvCmd(terminate, next, opt)
      PROVE  EngInv' /\ (CanAccept(st') => CanAccept(st))
  <2> DEFINE s == Option(st, opt)
             s2 == IF terminate THEN OnTerminate(s) ELSE s
  <2>1. s \in States /\ (CanAccept(s) => CanAccept(st)) BY <1>0, StateChanges DEF Option
  <2>2. s2 \in States /\ (CanAccept(s2) => CanAccept(st)) BY <2>1, StateChanges
  <2>3. Received /\ EnterState(s2) /\ UNCHANGED appClosed BY <1>3 DEF RecvCmd
  <2> QED BY <1>0, <2>2, <2>3, PacketEng
<1>4. ASSUME Update
      PROVE  EngInv' /\ (CanAccept(st') => CanAccept(st))
  <2> DEFINE queue   == IF CanAccept(st) THEN enq \o outq ELSE enq
             gone    == relay = "done"
             s1      == IF gone THEN OnWriteClosed(st) ELSE st
             T1      == TimersAfter(old, st, s1)
             closing == appClosed \/ gone \/ (s1 = "Active" /\ "idle" \in T1)
             drained == nextSend = Len(queue) /\ DOMAIN win = {}
             s2      == IF s1 = "Terminated" THEN s1 ELSE ChecksClose(s1, T1, closing, drained)
             T2      == TimersAfter(T1, s1, s2)
             s3      == IF s2 = "Terminating" /\ "state" \in T2 THEN "Terminated" ELSE s2
  <2>1. /\ appClosed' = closing /\ st' = s3 /\ old' = TimersAfter(T2, s2, s3)
        /\ live' = IF s3 = "Terminated" THEN "gone" ELSE "live"
    BY <1>4 DEF Update
  <2>2. s1 \in States /\ (CanAccept(s1) => CanAccept(st)) BY <1>0, StateChanges
  <2>3. s2 \in States /\ (CanAccept(s2) => CanAccept(s1)) BY <2>2, StateChanges
  <2>4. s3 \in States /\ (CanAccept(s3) => CanAccept(s2)) BY <2>3 DEF States, CanAccept
  <2>5. T1 \subseteq {"idle", "state"} BY TimersStay DEF EngInv
  <2>6. T2 \subseteq {"idle", "state"} BY <2>5, TimersStay
  <2>7. old' \subseteq {"idle", "state"} BY <2>1, <2>6, TimersStay
  <2>8. appClosed' \in BOOLEAN BY <2>1
  <2> HIDE DEF s3
  <2> QED BY <2>1, <2>2, <2>3, <2>4, <2>7, <2>8 DEF EngInv
<1>5. ASSUME Timers PROVE EngInv' /\ (CanAccept(st') => CanAccept(st))
  <2>1. ASSUME NEW t \in {"idle", "state"}, TimerElapses(t)
        PROVE  EngInv' /\ (CanAccept(st') => CanAccept(st))
    BY <2>1 DEF TimerElapses, EngInv
  <2>2. ASSUME NEW n \in DOMAIN win, RtoElapses(n)
        PROVE  EngInv' /\ (CanAccept(st') => CanAccept(st))
    BY <2>2 DEF RtoElapses, EngInv, engVars
  <2> QED BY <1>5, <2>1, <2>2 DEF Timers
<1>6. ASSUME RelayStep \/ UpForward \/ UpEof \/ DownRead \/ Network \/ UNCHANGED vars
      PROVE  EngInv' /\ (CanAccept(st') => CanAccept(st))
  <2>1. UNCHANGED <<live, engVars>>
    BY <1>6 DEF RelayStep, ReadHeader, WriteRetrying, Connect, Join, VisionDown, UdpDown, LoopUp,
       UpForward, UpEof, DownRead, Network, Arrives, Lost, vars, relayRest
  <2> QED BY <2>1 DEF EngInv, engVars, CanAccept
<1> QED BY <1>1, <1>2, <1>3, <1>4, <1>5, <1>6 DEF Next, Input

\* The threads under every step.
LEMMA ThreadStep ==
    ASSUME IInv, [Next]_vars
    PROVE  ThreadInv'
<1> USE DEF IInv, ThreadInv
<1>1. ASSUME Received PROVE ThreadInv'
  BY <1>1 DEF Received, RelayPC
<1>2. Input => ThreadInv' BY <1>1 DEF Input, RecvData, RecvAck, RecvCmd
<1>3. Update => ThreadInv' BY DEF Update, thrVars
<1>4. Timers => ThreadInv' BY DEF Timers, TimerElapses, RtoElapses, thrVars
<1>5. ReadHeader => ThreadInv' BY DEF ReadHeader, RelayEnds, relayRest, RelayPC
<1>6. WriteRetrying => ThreadInv' BY DEF WriteRetrying, RelayEnds, relayRest, RelayPC
<1>7. ASSUME NEW mode \in Modes, Connect(mode) PROVE ThreadInv'
  <2>1. mode \in {"raw", "vision", "udp"} BY KcpAssumption
  <2> QED BY <1>7, <2>1 DEF Connect, RelayEnds, relayRest, RelayPC
<1>8. Join => ThreadInv' BY DEF Join, RelayEnds, relayRest, RelayPC
<1>9. VisionDown => ThreadInv' BY DEF VisionDown, relayRest, RelayPC
<1>10. UdpDown => ThreadInv' BY DEF UdpDown, relayRest, RelayPC
<1>11. LoopUp => ThreadInv' BY DEF LoopUp, relayRest, RelayPC
<1>12. UpForward \/ UpEof \/ DownRead => ThreadInv'
  BY DEF UpForward, UpEof, DownRead, relayRest, RelayPC
<1>13. Network \/ UNCHANGED vars => ThreadInv' BY DEF Network, Arrives, Lost, thrVars, vars
<1> QED BY <1>2, <1>3, <1>4, <1>5, <1>6, <1>7, <1>8, <1>9, <1>10, <1>11, <1>12, <1>13
     DEF Next, RelayStep

-----------------------------------------------------------------------------
(* The uplink *)

\* A data segment: the promoted run continues the channel where it ended.
LEMMA RecvDataUp ==
    ASSUME IInv, NEW n \in Nat, NEW opt, RecvData(n, opt)
    PROVE  UpInv' /\ AckedIsKept'
<1> DEFINE buf == recvBuf \cup {n}
           k   == Min({j \in 0..Cardinality(buf) : recvNext + j \notin buf})
<1>0. /\ recvNext \in Nat /\ recvBuf \subseteq Nat /\ IsFiniteSet(recvBuf) /\ ackq \subseteq Nat
      /\ incoming \in Seq(Nat) /\ toTarget \in Seq(Nat)
  BY DEF IInv, UpInv
<1>1. /\ UNCHANGED <<toTarget, up>>
      /\ relay' = IF live = "none" THEN "header" ELSE relay
      /\ live = "none" <=> relay = "none"
  BY DEF RecvData, Received, IInv, ThreadInv
<1>2. TakenLen' = TakenLen /\ TakenLen \in Nat /\ (relay = "none" => TakenLen = 0)
  BY <1>0, <1>1 DEF TakenLen, IInv, UpInv
<1>3. CASE WrappingSub(n, recvNext) >= RecvWindow
  <2>1. UNCHANGED <<recvNext, recvBuf, ackq, incoming>> BY <1>3 DEF RecvData, recvVars
  <2>2. AckedIsKept' BY <2>1 DEF IInv, AckedIsKept
  <2>3. UpInv' BY <1>0, <1>1, <1>2, <2>1 DEF IInv, UpInv, ReaderAlive
  <2> QED BY <2>2, <2>3
<1>4. CASE ~(WrappingSub(n, recvNext) >= RecvWindow)
  <2>1. /\ ackq' = ackq \cup {n}
        /\ recvBuf' = {m \in buf : m >= recvNext + k}
        /\ recvNext' = recvNext + k
        /\ Deliver(Run(recvNext, k))
    BY <1>4 DEF RecvData
  <2>2. buf \subseteq Nat /\ IsFiniteSet(buf) BY <1>0, FS_AddElement
  <2>3. k \in Nat BY <1>0, <2>2, Promoted
  <2> HIDE DEF k
  <2>4. recvNext' \in Nat /\ recvBuf' \subseteq Nat /\ ackq' \subseteq Nat
    <3>1. recvNext' \in Nat BY <1>0, <2>1, <2>3
    <3>2. recvBuf' \subseteq buf BY <2>1
    <3> QED BY <1>0, <2>1, <2>2, <3>1, <3>2
  <2>5. IsFiniteSet(recvBuf') BY <2>1, <2>2, FS_Subset
  <2>6. AckedIsKept'
    <3>1. \A m \in Nat : m < recvNext + k \/ m >= recvNext + k BY <1>0, <2>3
    <3>2. \A m \in ackq : m < recvNext + k \/ m \in recvBuf'
      BY <1>0, <2>1, <2>3, <3>1 DEF IInv, AckedIsKept
    <3>3. n < recvNext + k \/ n \in recvBuf' BY <2>1, <3>1
    <3> QED BY <2>1, <3>2, <3>3 DEF AckedIsKept
  <2>7. Run(recvNext, k) \in Seq(Nat) /\ Len(Run(recvNext, k)) = k
        /\ \A i \in 1..k : Run(recvNext, k)[i] = recvNext + i - 1
    BY <1>0, <2>3 DEF Run
  <2> DEFINE r == Run(recvNext, k)
  <2>8. /\ r \in Seq(Nat) /\ Len(r) = k /\ \A i \in 1..k : r[i] = recvNext + i - 1
        /\ incoming' = IF relay = "done" \/ up \in {"eof", "broken"} THEN incoming
                       ELSE incoming \o r
    BY <2>1, <2>7 DEF Deliver
  <2> HIDE DEF r
  <2>9. incoming' \in Seq(Nat) BY <1>0, <2>8
  <2>10. ReaderAlive' => /\ TakenLen' + Len(incoming') = recvNext'
                         /\ \A i \in 1..Len(incoming') : incoming'[i] = TakenLen' + i - 1
    <3>1. SUFFICES ASSUME ReaderAlive'
                   PROVE  /\ TakenLen + Len(incoming') = recvNext'
                          /\ \A i \in 1..Len(incoming') : incoming'[i] = TakenLen + i - 1
      BY <1>2
    <3>2. incoming' = incoming \o r BY <1>1, <2>8, <3>1 DEF ReaderAlive
    <3>3. /\ TakenLen + Len(incoming) = recvNext
          /\ \A i \in 1..Len(incoming) : incoming[i] = TakenLen + i - 1
      <4>1. CASE relay = "none" BY <1>0, <1>2, <4>1 DEF IInv, UpInv
      <4>2. CASE relay # "none" BY <1>1, <3>1, <4>2 DEF IInv, UpInv, ReaderAlive
      <4> QED BY <4>1, <4>2
    <3>4. Len(incoming') = Len(incoming) + k /\ Len(incoming) \in Nat
      <4>1. r \in Seq(Nat) /\ Len(r) = k BY <2>8
      <4>2. Len(incoming \o r) = Len(incoming) + Len(r) BY <1>0, <4>1, ConcatFacts
      <4> QED BY <1>0, <3>2, <4>1, <4>2
    <3>5. ASSUME NEW i \in 1..Len(incoming') PROVE incoming'[i] = TakenLen + i - 1
      <4>1. CASE i <= Len(incoming) BY <1>0, <1>2, <2>8, <3>2, <3>3, <3>4, <4>1
      <4>2. CASE i > Len(incoming)
        <5>1. i - Len(incoming) \in 1..k BY <1>0, <2>3, <3>4, <4>2
        <5>2. incoming'[i] = r[i - Len(incoming)] BY <1>0, <2>8, <3>2, <3>4, <4>2
        <5>3. r[i - Len(incoming)] = recvNext + (i - Len(incoming)) - 1 BY <2>8, <5>1
        <5> QED BY <1>2, <3>3, <3>4, <5>2, <5>3
      <4> QED BY <1>0, <3>5, <4>1, <4>2
    <3>6. TakenLen + Len(incoming') = recvNext' BY <1>2, <2>1, <2>3, <3>3, <3>4
    <3> QED BY <3>5, <3>6
  <2>11. /\ toTarget' \in Seq(Nat)
         /\ relay' # "none"
         /\ relay' \in {"none", "header", "respond", "connect"} => toTarget' = <<>>
         /\ \A i \in 1..Len(toTarget') : toTarget'[i] = i - 1
    BY <1>0, <1>1 DEF IInv, UpInv
  <2> QED BY <2>4, <2>5, <2>6, <2>9, <2>10, <2>11 DEF UpInv
<1> QED BY <1>3, <1>4

\* A step that takes no frame and ends no reader, or ends it, keeps the uplink.
LEMMA UpKept ==
    ASSUME IInv, UNCHANGED <<recvNext, recvBuf, ackq, toTarget>>,
           incoming' \in {incoming, <<>>},
           ReaderAlive' => ReaderAlive /\ incoming' = incoming /\ TakenLen' = TakenLen,
           relay' = "none" => relay = "none" /\ incoming' = incoming,
           relay' \in {"none", "header", "respond", "connect"} =>
              relay \in {"none", "header", "respond", "connect"}
    PROVE  UpInv'
<1>1. incoming' \in Seq(Nat)
  <2>1. incoming \in Seq(Nat) BY DEF IInv, UpInv
  <2>2. <<>> \in Seq(Nat) OBVIOUS
  <2> QED BY <2>1, <2>2
<1>2. ReaderAlive' => /\ TakenLen' + Len(incoming') = recvNext'
                      /\ \A i \in 1..Len(incoming') : incoming'[i] = TakenLen' + i - 1
  <2>1. SUFFICES ASSUME ReaderAlive'
                 PROVE  /\ TakenLen' + Len(incoming') = recvNext'
                        /\ \A i \in 1..Len(incoming') : incoming'[i] = TakenLen' + i - 1
    OBVIOUS
  <2>2. ReaderAlive /\ incoming' = incoming /\ TakenLen' = TakenLen BY <2>1
  <2>3. /\ TakenLen + Len(incoming) = recvNext
        /\ \A i \in 1..Len(incoming) : incoming[i] = TakenLen + i - 1
    BY <2>2 DEF IInv, UpInv
  <2> QED BY <2>2, <2>3
<1> QED BY <1>1, <1>2 DEF IInv, UpInv

\* The relay takes the frame at the head of the channel.
LEMMA UpTaken ==
    ASSUME IInv, UNCHANGED <<recvNext, recvBuf, ackq>>,
           incoming # <<>>, incoming' = Tail(incoming), ReaderAlive,
           toTarget' \in Seq(Nat),
           \A i \in 1..Len(toTarget') : toTarget'[i] = i - 1,
           TakenLen' = TakenLen + 1, relay' # "none",
           relay' \in {"none", "header", "respond", "connect"} => toTarget' = <<>>
    PROVE  UpInv'
<1>0. /\ recvNext \in Nat /\ recvBuf \subseteq Nat /\ IsFiniteSet(recvBuf) /\ ackq \subseteq Nat
      /\ incoming \in Seq(Nat) /\ toTarget \in Seq(Nat)
      /\ TakenLen + Len(incoming) = recvNext
      /\ \A i \in 1..Len(incoming) : incoming[i] = TakenLen + i - 1
  BY DEF IInv, UpInv
<1>1. TakenLen \in Nat BY <1>0 DEF TakenLen
<1>2. incoming' \in Seq(Nat) /\ Len(incoming') = Len(incoming) - 1
      /\ \A i \in 1..Len(incoming') : incoming'[i] = incoming[i + 1]
  BY <1>0
<1>3. \A i \in 1..Len(incoming') : incoming'[i] = TakenLen' + i - 1
  BY <1>0, <1>1, <1>2
<1>4. TakenLen' + Len(incoming') = recvNext'
  <2>1. Len(incoming) \in Nat BY <1>0
  <2>2. recvNext' = recvNext /\ TakenLen' = TakenLen + 1 OBVIOUS
  <2>3. (TakenLen + 1) + (Len(incoming) - 1) = TakenLen + Len(incoming) BY <1>1, <2>1
  <2> QED BY <1>0, <1>2, <2>2, <2>3
<1> QED BY <1>0, <1>2, <1>3, <1>4 DEF UpInv

\* The target gets the frame at the head of the channel.
LEMMA UpRelayed ==
    ASSUME IInv, UNCHANGED <<recvNext, recvBuf, ackq>>,
           incoming # <<>>, incoming' = Tail(incoming), ReaderAlive,
           toTarget' = Append(toTarget, Head(incoming)),
           relay \notin {"none", "header", "respond", "connect"},
           relay' \notin {"none", "header", "respond", "connect"}
    PROVE  UpInv'
<1>1. /\ incoming \in Seq(Nat) /\ toTarget \in Seq(Nat)
      /\ \A i \in 1..Len(incoming) : incoming[i] = TakenLen + i - 1
      /\ \A i \in 1..Len(toTarget) : toTarget[i] = i - 1
  BY DEF IInv, UpInv
<1>2. TakenLen = Len(toTarget) /\ TakenLen' = Len(toTarget') BY DEF TakenLen
<1>3. Head(incoming) = Len(toTarget)
  <2>1. 1 \in 1..Len(incoming) /\ Head(incoming) = incoming[1] BY <1>1
  <2>2. Len(toTarget) \in Nat BY <1>1
  <2> QED BY <1>1, <1>2, <2>1, <2>2
<1>4. toTarget' \in Seq(Nat) /\ Len(toTarget') = Len(toTarget) + 1
      /\ \A i \in 1..Len(toTarget') : toTarget'[i] = i - 1
  BY <1>1, <1>3
<1> QED BY <1>2, <1>4, UpTaken

\* The uplink under every step.
LEMMA UpStep ==
    ASSUME IInv, [Next]_vars
    PROVE  UpInv' /\ AckedIsKept'
<1> USE ConstantFacts
<1>0. /\ relay \in RelayPC /\ up \in {"none", "run", "eof", "broken"}
      /\ live = "none" <=> relay = "none"
      /\ relay \in {"down", "push", "join"} => up # "none"
      /\ up # "none" => relay \in {"down", "push", "join", "done"}
      /\ up = "run" => relay # "done"
      /\ incoming \in Seq(Nat) /\ toTarget \in Seq(Nat)
      /\ relay = "none" => recvNext = 0 /\ incoming = <<>>
      /\ relay \in {"none", "header", "respond", "connect"} => toTarget = <<>>
      /\ AckedIsKept
  BY DEF IInv, ThreadInv, UpInv
<1>1. ASSUME NEW n \in 0..MaxUp - 1, NEW opt, RecvData(n, opt) PROVE UpInv' /\ AckedIsKept'
  BY <1>1, RecvDataUp
<1>2. ASSUME NEW next, NEW numbers, NEW opt, RecvAck(next, numbers, opt)
      PROVE  UpInv' /\ AckedIsKept'
  <2>1. UNCHANGED recvVars /\ Received BY <1>2 DEF RecvAck
  <2>2. AckedIsKept' BY <1>0, <2>1 DEF AckedIsKept, recvVars
  <2>3. UpInv' BY <1>0, <2>1 DEF IInv, UpInv, recvVars, Received, ReaderAlive, TakenLen
  <2> QED BY <2>2, <2>3
<1>3. ASSUME NEW terminate, NEW next, NEW opt, RecvCmd(terminate, next, opt)
      PROVE  UpInv' /\ AckedIsKept'
  <2>1. UNCHANGED recvVars /\ Received BY <1>3 DEF RecvCmd
  <2>2. AckedIsKept' BY <1>0, <2>1 DEF AckedIsKept, recvVars
  <2>3. UpInv' BY <1>0, <2>1 DEF IInv, UpInv, recvVars, Received, ReaderAlive, TakenLen
  <2> QED BY <2>2, <2>3
<1>4. ASSUME Update PROVE UpInv' /\ AckedIsKept'
  <2>1. UNCHANGED <<recvNext, recvBuf, incoming, thrVars>> /\ ackq' \in {ackq, {}}
    BY <1>4 DEF Update
  <2>2. AckedIsKept' BY <1>0, <2>1 DEF AckedIsKept
  <2>3. UpInv' BY <2>1 DEF IInv, UpInv, thrVars, ReaderAlive, TakenLen
  <2> QED BY <2>2, <2>3
<1>5. ASSUME Timers \/ Network \/ DownRead \/ UNCHANGED vars PROVE UpInv' /\ AckedIsKept'
  <2>1. UNCHANGED <<recvVars, up, toTarget>> /\ (relay' = relay \/ DownRead)
    BY <1>5 DEF Timers, TimerElapses, RtoElapses, Network, Arrives, Lost, DownRead, relayRest,
         thrVars, vars, recvVars
  <2>2. AckedIsKept' BY <1>0, <2>1 DEF AckedIsKept, recvVars
  <2>3. UpInv' BY <1>0, <2>1, UpKept DEF recvVars, ReaderAlive, TakenLen, DownRead
  <2> QED BY <2>2, <2>3
<1>6. ASSUME RelayStep \/ UpForward \/ UpEof PROVE UNCHANGED <<recvNext, recvBuf, ackq>>
  BY <1>6 DEF RelayStep, ReadHeader, WriteRetrying, Connect, Join, VisionDown, UdpDown, LoopUp,
     UpForward, UpEof, relayRest
<1>7. ASSUME RelayStep \/ UpForward \/ UpEof PROVE AckedIsKept'
  BY <1>0, <1>6, <1>7 DEF AckedIsKept
<1>8. ASSUME ReadHeader PROVE UpInv'
  <2>1. UNCHANGED <<recvNext, recvBuf, ackq, up, toTarget>> BY <1>8 DEF ReadHeader, relayRest
  <2>2. ASSUME incoming # <<>>, incoming' = Tail(incoming), relay' = "respond" PROVE UpInv'
    <3>1. relay = "header" /\ toTarget = <<>> /\ up = "none" BY <1>0, <1>8 DEF ReadHeader
    <3>2. ReaderAlive /\ TakenLen = 0 /\ TakenLen' = 1 BY <2>2, <3>1 DEF ReaderAlive, TakenLen
    <3> QED BY <1>0, <2>1, <2>2, <3>1, <3>2, UpTaken
  <2>3. ASSUME RelayEnds PROVE UpInv'
    BY <1>0, <2>1, <2>3, UpKept DEF RelayEnds, ReaderAlive
  <2> QED BY <1>8, <2>2, <2>3 DEF ReadHeader
<1>9. ASSUME WriteRetrying PROVE UpInv'
  <2>1. UNCHANGED <<recvNext, recvBuf, ackq, up, toTarget>> BY <1>9 DEF WriteRetrying, relayRest
  <2>2. CASE relay' = "done" /\ incoming' = <<>> BY <1>0, <2>1, <2>2, UpKept DEF ReaderAlive
  <2>3. CASE /\ incoming' = incoming
             /\ \/ relay = "respond" /\ relay' = "connect"
                \/ relay = "push" /\ relay' \in {"down", "join"}
    BY <1>0, <2>1, <2>3, UpKept DEF ReaderAlive, TakenLen
  <2> QED BY <1>9, <2>2, <2>3 DEF WriteRetrying, RelayEnds
<1>10. ASSUME NEW mode \in Modes, Connect(mode) PROVE UpInv'
  <2>1. UNCHANGED <<recvNext, recvBuf, ackq>> /\ mode \in {"raw", "vision", "udp"}
    BY <1>10, KcpAssumption DEF Connect, relayRest
  <2>2. CASE relay' = "done" /\ incoming' = <<>> /\ UNCHANGED <<up, toTarget>>
    BY <1>0, <1>10, <2>1, <2>2, UpKept DEF ReaderAlive, Connect
  <2>3. CASE /\ relay' \in {"down", "v_down", "u_read"} /\ up' \in {"run", up}
             /\ toTarget' = <<0>> /\ UNCHANGED incoming
    <3>1. relay = "connect" /\ up = "none" BY <1>0, <1>10 DEF Connect
    <3>2. ReaderAlive /\ TakenLen = 1 /\ TakenLen' = 1
      BY <2>3, <3>1 DEF ReaderAlive, TakenLen
    <3>3. toTarget' \in Seq(Nat) /\ \A i \in 1..Len(toTarget') : toTarget'[i] = i - 1 BY <2>3
    <3> QED BY <2>1, <2>3, <3>2, <3>3 DEF IInv, UpInv
  <2> QED BY <1>10, <2>1, <2>2, <2>3 DEF Connect, RelayEnds
<1>11. ASSUME Join \/ UpEof PROVE UpInv'
  BY <1>0, <1>6, <1>11, UpKept DEF Join, UpEof, RelayEnds, ReaderAlive, RelayStep
<1>12. ASSUME VisionDown \/ UdpDown PROVE UpInv'
  <2>1. /\ UNCHANGED <<recvNext, recvBuf, ackq, up, toTarget>>
        /\ relay \in {"v_down", "u_recv"}
        /\ relay' \in {"v_down", "v_up", "v_last", "done", "u_read"}
        /\ incoming' = IF relay' = "done" THEN <<>> ELSE incoming
    BY <1>12 DEF VisionDown, UdpDown, relayRest
  <2> QED BY <1>0, <2>1, UpKept DEF ReaderAlive, TakenLen
<1>13. ASSUME LoopUp PROVE UpInv'
  <2>1. UNCHANGED <<recvNext, recvBuf, ackq, up>> /\ relay \in {"v_up", "v_last", "u_read"}
    BY <1>13 DEF LoopUp, relayRest
  <2>2. up = "none" /\ ReaderAlive BY <1>0, <2>1 DEF ReaderAlive
  <2>3. CASE /\ incoming # <<>> /\ incoming' = Tail(incoming)
             /\ toTarget' = Append(toTarget, Head(incoming))
             /\ relay' = IF relay = "u_read" THEN "u_recv" ELSE relay
    BY <1>0, <2>1, <2>2, <2>3, UpRelayed
  <2>4. CASE incoming' = <<>> /\ relay' = "done" /\ UNCHANGED toTarget
    BY <1>0, <2>1, <2>4, UpKept DEF ReaderAlive
  <2>5. CASE UNCHANGED <<incoming, toTarget>> /\ relay' \in {"v_down", "done", "u_recv"}
    BY <1>0, <2>1, <2>2, <2>5, UpKept DEF ReaderAlive, TakenLen
  <2> QED BY <1>13, <2>1, <2>3, <2>4, <2>5 DEF LoopUp
<1>14. ASSUME UpForward PROVE UpInv'
  <2>1. UNCHANGED <<recvNext, recvBuf, ackq, relay>> /\ up = "run" /\ incoming # <<>>
    BY <1>14 DEF UpForward, relayRest
  <2>2. ReaderAlive /\ relay \notin {"none", "header", "respond", "connect"}
    BY <1>0, <2>1 DEF ReaderAlive
  <2>3. CASE incoming' = Tail(incoming) /\ toTarget' = Append(toTarget, Head(incoming))
    BY <2>1, <2>2, <2>3, UpRelayed
  <2>4. CASE up' = "broken" /\ incoming' = <<>> /\ UNCHANGED toTarget
    BY <1>0, <2>1, <2>4, UpKept DEF ReaderAlive
  <2> QED BY <1>14, <2>3, <2>4 DEF UpForward
<1> QED BY <1>1, <1>2, <1>3, <1>4, <1>5, <1>7, <1>8, <1>9, <1>10, <1>11, <1>12, <1>13, <1>14
     DEF Next, Input, RelayStep

-----------------------------------------------------------------------------
(* The chunks between the relay and the engine *)

\* The phases and modes in which a full channel is retried.
Retries == relay \in {"none", "header", "respond", "connect"} \/ up # "none"

\* The chunks are numbered in order through the engine, the channel and the relay.
Numbered(e, o, h, n) ==
    /\ Len(e) + Len(o) + Len(h) = n
    /\ \A i \in 1..Len(e) : e[i] = i - 1
    /\ \A i \in 1..Len(o) : o[i] = Len(e) + i - 1
    /\ \A i \in 1..Len(h) : h[i] = Len(e) + Len(o) + i - 1

\* OrderInv in these words.
LEMMA OrderIs == OrderInv <=> (Retries /\ CanAccept(st) => Numbered(enq, outq, held, produced))
BY DEF OrderInv, Retries, Numbered

\* The engine takes the whole channel.
LEMMA NumberedDrained ==
    ASSUME NEW e \in Seq(Nat), NEW o \in Seq(Nat), NEW h \in Seq(Nat), NEW n,
           Numbered(e, o, h, n)
    PROVE  Numbered(e \o o, <<>>, h, n)
<1>1. /\ Len(e \o o) = Len(e) + Len(o) /\ Len(e) \in Nat /\ Len(o) \in Nat /\ Len(h) \in Nat
      /\ \A i \in 1..Len(e) : (e \o o)[i] = e[i]
      /\ \A i \in 1..Len(o) : (e \o o)[Len(e) + i] = o[i]
  BY ConcatFacts
<1>2. ASSUME NEW i \in 1..Len(e \o o) PROVE (e \o o)[i] = i - 1
  <2>1. CASE i <= Len(e) BY <1>1, <2>1 DEF Numbered
  <2>2. CASE i > Len(e)
    <3>1. i - Len(e) \in 1..Len(o) /\ Len(e) + (i - Len(e)) = i BY <1>1, <2>2
    <3>2. (e \o o)[i] = o[i - Len(e)] BY <1>1, <3>1
    <3>3. o[i - Len(e)] = Len(e) + (i - Len(e)) - 1 BY <3>1 DEF Numbered
    <3> QED BY <1>1, <3>1, <3>2, <3>3
  <2> QED BY <1>1, <2>1, <2>2
<1>3. Len(e \o o) + Len(<<>>) + Len(h) = n BY <1>1 DEF Numbered
<1>4. \A i \in 1..Len(h) : h[i] = Len(e \o o) + Len(<<>>) + i - 1 BY <1>1 DEF Numbered
<1> QED BY <1>2, <1>3, <1>4 DEF Numbered

\* The channel takes what the relay holds.
LEMMA NumberedSent ==
    ASSUME NEW e \in Seq(Nat), NEW o \in Seq(Nat), NEW h \in Seq(Nat), NEW n,
           Numbered(e, o, h, n)
    PROVE  Numbered(e, o \o h, <<>>, n)
<1>1. /\ Len(o \o h) = Len(o) + Len(h) /\ Len(e) \in Nat /\ Len(o) \in Nat /\ Len(h) \in Nat
      /\ \A i \in 1..Len(o) : (o \o h)[i] = o[i]
      /\ \A i \in 1..Len(h) : (o \o h)[Len(o) + i] = h[i]
  BY ConcatFacts
<1>2. ASSUME NEW i \in 1..Len(o \o h) PROVE (o \o h)[i] = Len(e) + i - 1
  <2>1. CASE i <= Len(o) BY <1>1, <2>1 DEF Numbered
  <2>2. CASE i > Len(o)
    <3>1. i - Len(o) \in 1..Len(h) /\ Len(o) + (i - Len(o)) = i BY <1>1, <2>2
    <3>2. (o \o h)[i] = h[i - Len(o)] BY <1>1, <3>1
    <3>3. h[i - Len(o)] = Len(e) + Len(o) + (i - Len(o)) - 1 BY <3>1 DEF Numbered
    <3> QED BY <1>1, <3>1, <3>2, <3>3
  <2> QED BY <1>1, <2>1, <2>2
<1>3. Len(e) + Len(o \o h) + Len(<<>>) = n BY <1>1 DEF Numbered
<1> QED BY <1>2, <1>3 DEF Numbered

\* The relay reads the next chunk.
LEMMA NumberedRead ==
    ASSUME NEW e \in Seq(Nat), NEW o \in Seq(Nat), NEW n \in Nat, Numbered(e, o, <<>>, n)
    PROVE  Numbered(e, o, <<n>>, n + 1)
<1>1. Len(e) \in Nat /\ Len(o) \in Nat OBVIOUS
<1>2. Len(e) + Len(o) = n BY <1>1 DEF Numbered
<1>3. Len(<<n>>) = 1 /\ <<n>>[1] = n OBVIOUS
<1> QED BY <1>1, <1>2, <1>3 DEF Numbered

\* What every step below starts from.
LEMMA ChunkFacts ==
    ASSUME IInv
    PROVE  /\ enq \in Seq(Nat) /\ outq \in Seq(Nat) /\ held \in Seq(Nat)
           /\ Len(enq) \in Nat /\ Len(outq) \in Nat /\ Len(held) \in Nat
           /\ Len(outq) <= OutCap /\ Len(held) <= 1 /\ produced \in Nat /\ produced <= MaxDown + 1
           /\ relay \in {"none", "header"} => produced = 0
           /\ held # <<>> => relay \in {"respond", "push"}
           /\ Len(enq) + Len(outq) + Len(held) <= produced
           /\ Retries /\ CanAccept(st) => Numbered(enq, outq, held, produced)
           /\ relay \in RelayPC /\ (live = "none" <=> relay = "none")
           /\ relay \in {"down", "push", "join"} => up # "none"
           /\ up # "none" => relay \in {"down", "push", "join", "done"}
           /\ live = "gone" => ~CanAccept(st)
<1>1. MaxDown \in Nat BY ConstantFacts
<1> QED BY <1>1, OrderIs DEF IInv, ChunkInv, ThreadInv, EngInv, CanAccept

\* Update drains the channel into the engine, or throws it away once the session
\* is closing.
LEMMA ChunkUpdate ==
    ASSUME IInv, Update, CanAccept(st') => CanAccept(st)
    PROVE  ChunkInv' /\ OrderInv'
<1> USE ConstantFacts, ChunkFacts
<1>1. /\ outq' = <<>> /\ enq' = IF CanAccept(st) THEN enq \o outq ELSE enq
      /\ UNCHANGED <<relay, up, held, produced>>
  BY DEF Update, thrVars
<1>2. enq' \in Seq(Nat) /\ Len(enq') <= Len(enq) + Len(outq) /\ Len(enq') \in Nat
  <2>1. CASE CanAccept(st)
    <3>1. enq' = enq \o outq BY <1>1, <2>1
    <3> QED BY <3>1, ConcatFacts
  <2>2. CASE ~CanAccept(st) BY <1>1, <2>2
  <2> QED BY <2>1, <2>2
<1>3. ChunkInv'
  <2>1. Len(outq') = 0 /\ outq' \in Seq(Nat) BY <1>1
  <2>2. Len(enq') + Len(outq') + Len(held') <= produced' BY <1>1, <1>2, <2>1
  <2> QED BY <1>1, <1>2, <2>1, <2>2 DEF ChunkInv
<1>4. ASSUME Retries', CanAccept(st') PROVE Numbered(enq', outq', held', produced')
  <2>1. Retries /\ CanAccept(st) BY <1>1, <1>4 DEF Retries
  <2>2. Numbered(enq \o outq, <<>>, held, produced) BY <2>1, NumberedDrained
  <2> QED BY <1>1, <2>1, <2>2
<1>5. OrderInv' BY <1>4 DEF OrderInv, Retries, Numbered
<1> QED BY <1>3, <1>5

\* The relay's steps.  A chunk it gives up is given up by a session that no
\* longer accepts data, or in a mode that does not retry.
LEMMA ChunkRelay ==
    ASSUME IInv, RelayStep \/ DownRead
    PROVE  ChunkInv' /\ OrderInv'
<1> USE ConstantFacts, ChunkFacts
<1>0. UNCHANGED <<live, st, enq>>
  BY DEF RelayStep, ReadHeader, WriteRetrying, Connect, Join, VisionDown, UdpDown, LoopUp,
     DownRead, relayRest, engVars, sendVars
<1>a. CanAccept(st') <=> CanAccept(st) BY <1>0 DEF CanAccept
<1>b. ASSUME /\ outq' = outq /\ held' = <<>> /\ produced' = produced
             /\ relay' \notin {"none", "header"}
             /\ Retries' => Retries /\ (held = <<>> \/ ~CanAccept(st))
      PROVE  ChunkInv' /\ OrderInv'
  <2>1. ChunkInv' BY <1>0, <1>b DEF ChunkInv
  <2>2. ASSUME Retries', CanAccept(st') PROVE Numbered(enq', outq', held', produced')
    BY <1>0, <1>a, <1>b, <2>2
  <2>3. OrderInv' BY <2>2 DEF OrderInv, Retries, Numbered
  <2> QED BY <2>1, <2>3
<1>c. ASSUME held = <<>>, produced < MaxDown \/ produced = 0,
             UNCHANGED outq, held' = <<produced>>, produced' = produced + 1,
             relay' \in {"respond", "push"}, Retries
      PROVE  ChunkInv' /\ OrderInv'
  <2>1. held' \in Seq(Nat) /\ Len(held') = 1 BY <1>c
  <2>2. ChunkInv' BY <1>0, <1>c, <2>1 DEF ChunkInv
  <2>3. ASSUME CanAccept(st') PROVE Numbered(enq', outq', held', produced')
    <3>1. Numbered(enq, outq, <<>>, produced) BY <1>a, <1>c, <2>3
    <3>2. Numbered(enq, outq, <<produced>>, produced + 1) BY <3>1, NumberedRead
    <3> QED BY <1>0, <1>c, <3>2
  <2>4. OrderInv' BY <2>3 DEF OrderInv, Retries, Numbered
  <2> QED BY <2>2, <2>4
<1>d. ASSUME ~Retries, held = <<>>, UNCHANGED <<held, up>>,
             relay' \notin {"none", "header", "respond", "connect"},
             \/ UNCHANGED <<outq, produced>>
             \/ /\ produced < MaxDown /\ produced' = produced + 1
                /\ \/ UNCHANGED outq
                   \/ outq' = Append(outq, produced) /\ Len(outq) < OutCap
      PROVE  ChunkInv' /\ OrderInv'
  <2>1. ~Retries' BY <1>d DEF Retries
  <2>2. outq' \in Seq(Nat) /\ Len(outq') <= OutCap /\ Len(outq') \in Nat
        /\ Len(outq') - Len(outq) <= produced' - produced
        /\ produced' \in 0..MaxDown + 1
    <3>1. CASE UNCHANGED <<outq, produced>> BY <3>1
    <3>2. CASE produced < MaxDown /\ produced' = produced + 1 /\ UNCHANGED outq BY <3>2
    <3>3. CASE /\ produced < MaxDown /\ produced' = produced + 1
               /\ outq' = Append(outq, produced) /\ Len(outq) < OutCap
      <4>1. outq' \in Seq(Nat) /\ Len(outq') = Len(outq) + 1 BY <3>3
      <4> QED BY <3>3, <4>1
    <3> QED BY <1>d, <3>1, <3>2, <3>3
  <2>3. ChunkInv' BY <1>0, <1>d, <2>2 DEF ChunkInv
  <2>4. OrderInv' BY <2>1 DEF OrderInv, Retries
  <2> QED BY <2>3, <2>4
<1>1. ASSUME ReadHeader PROVE ChunkInv' /\ OrderInv'
  <2>1. CASE relay' = "respond" /\ held' = <<0>> /\ produced' = 1 /\ UNCHANGED outq
    BY <1>1, <1>c, <2>1 DEF ReadHeader, Retries
  <2>2. CASE RelayEnds /\ UNCHANGED <<produced, outq, up>>
    BY <1>1, <1>b, <2>2 DEF ReadHeader, Retries, RelayEnds
  <2> QED BY <1>1, <2>1, <2>2 DEF ReadHeader
<1>2. ASSUME WriteRetrying PROVE ChunkInv' /\ OrderInv'
  <2>0. relay \in {"respond", "push"} /\ UNCHANGED <<up, produced>> /\ Retries
    BY <1>2 DEF WriteRetrying, Retries
  <2>1. CASE HasRoom /\ outq' = outq \o held /\ held' = <<>> /\ relay' \in {"connect", "down"}
    <3>1. outq' \in Seq(Nat) /\ Len(outq') = Len(outq) + Len(held) /\ Len(held') = 0
      BY <2>1, ConcatFacts
    <3>2. Len(outq) < OutCap BY <2>1 DEF HasRoom
    <3>3. ChunkInv' BY <1>0, <2>0, <2>1, <3>1, <3>2 DEF ChunkInv
    <3>4. ASSUME CanAccept(st') PROVE Numbered(enq', outq', held', produced')
      <4>1. Numbered(enq, outq \o held, <<>>, produced)
        BY <1>a, <2>0, <3>4, NumberedSent
      <4> QED BY <1>0, <2>0, <2>1, <4>1
    <3>5. OrderInv' BY <3>4 DEF OrderInv, Retries, Numbered
    <3> QED BY <3>3, <3>5
  <2>2. CASE live = "gone" /\ relay' \in {"join", "done"} /\ held' = <<>> /\ UNCHANGED outq
    BY <1>b, <2>0, <2>2
  <2> QED BY <1>2, <2>1, <2>2 DEF WriteRetrying, RelayEnds
<1>3. ASSUME NEW mode \in Modes, Connect(mode) PROVE ChunkInv' /\ OrderInv'
  <2>1. relay = "connect" /\ held = <<>> /\ Retries /\ UNCHANGED <<outq, produced>>
    BY <1>3 DEF Connect, Retries
  <2>2. mode \in {"raw", "vision", "udp"} BY KcpAssumption
  <2>3. held' = <<>> /\ relay' \notin {"none", "header"}
    BY <1>3, <2>1, <2>2 DEF Connect, RelayEnds
  <2> QED BY <1>b, <2>1, <2>3
<1>4. ASSUME Join PROVE ChunkInv' /\ OrderInv'
  BY <1>4, <1>b DEF Join, RelayEnds, Retries
<1>5. ASSUME DownRead PROVE ChunkInv' /\ OrderInv'
  <2>1. relay = "down" /\ held = <<>> /\ Retries /\ UNCHANGED <<outq, up>>
    BY <1>5 DEF DownRead, Retries
  <2>2. CASE produced < MaxDown /\ held' = <<produced>> /\ produced' = produced + 1
             /\ relay' = "push"
    BY <1>c, <2>1, <2>2
  <2>3. CASE relay' = "join" /\ UNCHANGED <<held, produced>>
    BY <1>b, <2>1, <2>3
  <2> QED BY <1>5, <2>2, <2>3 DEF DownRead
<1>6. ASSUME VisionDown \/ UdpDown PROVE ChunkInv' /\ OrderInv'
  <2>1. relay \in {"v_down", "u_recv"} /\ held = <<>> /\ ~Retries /\ UNCHANGED <<held, up>>
    BY <1>6 DEF VisionDown, UdpDown, Retries
  <2>2. /\ relay' \notin {"none", "header", "respond", "connect"}
        /\ \/ UNCHANGED <<outq, produced>>
           \/ /\ produced < MaxDown /\ produced' = produced + 1
              /\ \/ UNCHANGED outq
                 \/ outq' = Append(outq, produced) /\ Len(outq) < OutCap
    BY <1>6 DEF VisionDown, UdpDown, HasRoom
  <2> QED BY <1>d, <2>1, <2>2
<1>7. ASSUME LoopUp PROVE ChunkInv' /\ OrderInv'
  <2>1. relay \in {"v_up", "v_last", "u_read"} /\ held = <<>> /\ ~Retries
        /\ UNCHANGED <<held, up, outq, produced>>
    BY <1>7 DEF LoopUp, Retries
  <2>2. relay' \notin {"none", "header", "respond", "connect"} BY <1>7, <2>1 DEF LoopUp
  <2> QED BY <1>d, <2>1, <2>2
<1> QED BY <1>1, <1>2, <1>3, <1>4, <1>5, <1>6, <1>7 DEF RelayStep

\* The chunks under every step.
LEMMA ChunkStep ==
    ASSUME IInv, [Next]_vars, CanAccept(st') => CanAccept(st)
    PROVE  ChunkInv' /\ OrderInv'
<1>1. CASE Update BY <1>1, ChunkUpdate
<1>2. CASE RelayStep \/ DownRead BY <1>2, ChunkRelay
<1>3. ASSUME UNCHANGED <<enq, outq, held, produced>>,
             relay' = relay \/ (relay = "none" /\ relay' = "header"),
             up' = up \/ up # "none"
      PROVE  ChunkInv' /\ OrderInv'
  <2> USE ChunkFacts
  <2>1. ChunkInv' BY <1>3, ConstantFacts DEF ChunkInv
  <2>2. ASSUME Retries', CanAccept(st') PROVE Numbered(enq', outq', held', produced')
    BY <1>3, <2>2 DEF Retries
  <2>3. OrderInv' BY <2>2 DEF OrderInv, Retries, Numbered
  <2> QED BY <2>1, <2>3
<1>4. ASSUME Input PROVE ChunkInv' /\ OrderInv'
  <2>1. /\ UNCHANGED <<enq, outq, held, produced, up>>
        /\ relay' = relay \/ (live = "none" /\ relay' = "header")
    BY <1>4 DEF Input, RecvData, RecvAck, RecvCmd, Received, sendVars
  <2> QED BY <1>3, <2>1, ChunkFacts
<1>5. ASSUME Timers \/ UpForward \/ UpEof \/ Network \/ UNCHANGED vars PROVE ChunkInv' /\ OrderInv'
  <2>1. UNCHANGED <<enq, outq, held, produced, relay>> /\ (up' = up \/ up = "run")
    BY <1>5 DEF Timers, TimerElapses, RtoElapses, UpForward, UpEof, Network, Arrives, Lost,
         relayRest, sendVars, thrVars, vars
  <2> QED BY <1>3, <2>1
<1> QED BY <1>1, <1>2, <1>4, <1>5 DEF Next

-----------------------------------------------------------------------------
(* The send window *)

\* Numbers below the bound of the half circle compare as naturals.
LEMMA SeqLtIsLess ==
    ASSUME NEW a \in Nat, NEW b \in Nat, a <= MaxDown + 1, b <= MaxDown + 1, SeqLt(a, b)
    PROVE  a < b
<1> USE ConstantFacts
<1>1. SUFFICES ASSUME a > b PROVE FALSE BY DEF SeqLt
<1>2. a + Wrap - b = (a - b) + Wrap /\ a - b \in Nat /\ 2 * (a - b) < Wrap BY <1>1
<1>3. (a + Wrap - b) % Wrap = a - b
  <2> DEFINE d == a - b
  <2>1. d \in Nat /\ d < Wrap /\ Wrap > 0 /\ a + Wrap - b = d + Wrap BY <1>2
  <2> HIDE DEF d
  <2>2. (d + Wrap) % Wrap = d BY <2>1
  <2> QED BY <2>1, <2>2 DEF d
<1> QED BY <1>2, <1>3 DEF SeqLt, WrappingSub

\* Everything below the first missing number has been received.
LEMMA BelowFirstMissing ==
    ASSUME NEW S, S \subseteq Nat, IsFiniteSet(S),
           NEW next \in 0..Cardinality(S), next <= FirstMissing(S),
           NEW m \in Nat, m < next
    PROVE  m \in S
<1> DEFINE M == (0..Cardinality(S)) \ S
<1>1. Cardinality(S) \in Nat BY FS_CardinalityType
<1>2. M # {}
  <2>1. PICK j \in 0..Cardinality(S) : 0 + j \notin S BY GapInEveryRun
  <2>2. 0 + j = j BY <1>1, <2>1
  <2> QED BY <2>1, <2>2
<1>3. M \subseteq Nat BY <1>1
<1>4. Min(M) \in M /\ \A y \in M : Min(M) <= y BY <1>2, <1>3, MinOfNaturals
<1>5. next <= Min(M) BY DEF FirstMissing
<1>6. m \notin M BY <1>1, <1>3, <1>4, <1>5
<1>7. m \in 0..Cardinality(S) BY <1>1
<1> QED BY <1>6, <1>7

\* An acknowledgement that knows no more than the client has received removes
\* from the window only what the client has.
LEMMA AckWin ==
    ASSUME IInv, NEW next \in 0..Cardinality(cGot), next <= FirstMissing(cGot),
           NEW numbers \in SUBSET cGot, win' = RemoveSent(win, next, numbers),
           remoteNext' \in Nat, UNCHANGED <<enq, nextSend, cGot, flight>>
    PROVE  WinInv'
<1> USE ConstantFacts
<1>0. /\ nextSend \in Nat /\ nextSend <= Len(enq) /\ DOMAIN win \subseteq 0..nextSend - 1
      /\ win \in [DOMAIN win -> SegStatus] /\ Cardinality(DOMAIN win) <= SendBuffer
      /\ cGot \subseteq 0..nextSend - 1 /\ flight \subseteq 0..nextSend - 1 /\ SentUntilGot
  BY DEF IInv, WinInv
<1>1. nextSend <= MaxDown + 1
  <2>1. /\ Len(enq) \in Nat /\ Len(outq) \in Nat /\ Len(held) \in Nat /\ produced \in Nat
        /\ Len(enq) + Len(outq) + Len(held) <= produced /\ produced <= MaxDown + 1
    BY ChunkFacts
  <2>2. nextSend \in Nat /\ nextSend <= Len(enq) /\ MaxDown \in Nat BY <1>0
  <2>3. Len(enq) <= produced BY <2>1
  <2> QED BY <2>1, <2>2, <2>3
<1>2. IsFiniteSet(DOMAIN win) BY <1>0, SubsetBelow
<1>3. IsFiniteSet(cGot) /\ Cardinality(cGot) <= nextSend /\ Cardinality(cGot) \in Nat
  BY <1>0, SubsetBelow
<1>4. next \in Nat /\ next <= MaxDown + 1 BY <1>0, <1>1, <1>3
<1>5. /\ DOMAIN win' = {m \in DOMAIN win : ~SeqLt(m, next) /\ m \notin numbers}
      /\ \A m \in DOMAIN win' : win'[m] = win[m]
      /\ win' \in [DOMAIN win' -> SegStatus]
  BY <1>0 DEF RemoveSent
<1>6. Cardinality(DOMAIN win') <= SendBuffer
  <2>1. IsFiniteSet(DOMAIN win) BY <1>2
  <2>2. DOMAIN win' \in SUBSET DOMAIN win BY <1>5
  <2>3. Cardinality(DOMAIN win') <= Cardinality(DOMAIN win) /\ Cardinality(DOMAIN win) \in Nat
        /\ Cardinality(DOMAIN win') \in Nat
    BY <2>1, <2>2, FS_Subset, FS_CardinalityType
  <2> QED BY <1>0, <2>3
<1>7. ASSUME NEW m \in DOMAIN win, m \notin DOMAIN win' PROVE m \in cGot
  <2>1. CASE m \in numbers BY <2>1
  <2>2. CASE SeqLt(m, next)
    <3>1. m \in Nat /\ m <= MaxDown + 1
      <4>1. m \in 0..nextSend - 1 BY <1>0
      <4>2. nextSend \in Nat /\ MaxDown \in Nat BY <1>0
      <4> QED BY <1>1, <4>1, <4>2
    <3>2. m < next BY <1>4, <2>2, <3>1, SeqLtIsLess
    <3>3. cGot \subseteq Nat BY <1>0
    <3> QED BY <1>3, <3>1, <3>2, <3>3, BelowFirstMissing
  <2> QED BY <1>5, <1>7, <2>1, <2>2
<1>8. SentUntilGot' BY <1>0, <1>7 DEF SentUntilGot
<1>9. DOMAIN win' \subseteq 0..nextSend' - 1 BY <1>0, <1>5
<1> QED BY <1>0, <1>5, <1>6, <1>8, <1>9 DEF WinInv

\* fill_send_window: the window grows by the next numbers, within its size.
LEMMA FilledWindow ==
    ASSUME IInv, NEW queue \in Seq(Nat), Len(enq) <= Len(queue)
    PROVE  \E k \in Nat :
              /\ nextSend + k <= Len(queue)
              /\ DOMAIN Filled(queue) = DOMAIN win \cup (nextSend..(nextSend + k - 1))
              /\ Filled(queue) \in [DOMAIN Filled(queue) -> SegStatus]
              /\ Cardinality(DOMAIN Filled(queue) \ DOMAIN win) = k
              /\ Cardinality(DOMAIN Filled(queue)) <= SendBuffer
<1> USE ConstantFacts
<1>0. /\ nextSend \in Nat /\ nextSend <= Len(enq) /\ DOMAIN win \subseteq 0..nextSend - 1
      /\ win \in [DOMAIN win -> SegStatus] /\ Cardinality(DOMAIN win) <= SendBuffer
      /\ Len(enq) \in Nat /\ Len(queue) \in Nat
  <2>1. Len(enq) \in Nat /\ Len(queue) \in Nat BY ChunkFacts
  <2> QED BY <2>1 DEF IInv, WinInv
<1> DEFINE c == Cardinality(DOMAIN win)
           a == Len(queue) - nextSend
           b == IF c < SendBuffer THEN SendBuffer - c ELSE 0
           k == Min({a, b})
           N == nextSend..(nextSend + k - 1)
<1>1. IsFiniteSet(DOMAIN win) /\ c \in Nat BY <1>0, SubsetBelow
<1>2. a \in Nat /\ b \in Nat /\ c + b <= SendBuffer
  <2>1. c \in Nat /\ c <= SendBuffer BY <1>0, <1>1
  <2> HIDE DEF c
  <2>2. b \in Nat /\ c + b <= SendBuffer BY <2>1
  <2>3. a \in Nat BY <1>0
  <2> QED BY <2>2, <2>3
<1>3. k \in {a, b} /\ k <= a /\ k <= b
  <2> HIDE DEF a, b
  <2>1. {a, b} \subseteq Nat /\ {a, b} # {} BY <1>2
  <2> QED BY <2>1, MinOfNaturals
<1>4. k \in Nat /\ nextSend + k <= Len(queue) /\ c + k <= SendBuffer
  <2>1. k \in Nat BY <1>2, <1>3
  <2>2. a = Len(queue) - nextSend OBVIOUS
  <2> HIDE DEF k, b, c, a
  <2>3. nextSend + k <= Len(queue) BY <1>0, <1>3, <2>1, <2>2
  <2>4. c + k <= SendBuffer BY <1>1, <1>2, <1>3, <2>1
  <2> QED BY <2>1, <2>3, <2>4
<1>5. Filled(queue) = [n \in DOMAIN win \cup N |-> IF n \in DOMAIN win THEN win[n] ELSE "new"]
  BY DEF Filled
<1> HIDE DEF k
<1>6. DOMAIN Filled(queue) = DOMAIN win \cup N
      /\ Filled(queue) \in [DOMAIN Filled(queue) -> SegStatus]
  BY <1>0, <1>5 DEF SegStatus
<1>7. DOMAIN win \cap N = {} BY <1>0, <1>4
<1>8. (DOMAIN win \cup N) \ DOMAIN win = N BY <1>7
<1>9. IsFiniteSet(N) /\ Cardinality(N) = k BY <1>0, <1>4, RunSize
<1>10. Cardinality(DOMAIN win \cup N) = c + k
  <2>1. Cardinality(DOMAIN win \cup N) = c + Cardinality(N) - Cardinality(DOMAIN win \cap N)
    BY <1>1, <1>9, FS_Union
  <2>2. Cardinality(DOMAIN win \cap N) = 0 BY <1>7, FS_EmptySet
  <2> QED BY <1>1, <1>4, <1>9, <2>1, <2>2
<1> QED BY <1>4, <1>6, <1>8, <1>9, <1>10

\* Update fills the window and transmits from it.
LEMMA UpdateWin ==
    ASSUME IInv, Update
    PROVE  WinInv'
<1> DEFINE queue == IF CanAccept(st) THEN enq \o outq ELSE enq
<1>0. /\ nextSend \in Nat /\ nextSend <= Len(enq) /\ DOMAIN win \subseteq 0..nextSend - 1
      /\ win \in [DOMAIN win -> SegStatus] /\ Cardinality(DOMAIN win) <= SendBuffer
      /\ remoteNext \in Nat /\ cGot \subseteq 0..nextSend - 1
      /\ flight \subseteq 0..nextSend - 1 /\ SentUntilGot
  BY DEF IInv, WinInv
<1>1. queue \in Seq(Nat) /\ Len(enq) <= Len(queue) /\ Len(enq) \in Nat /\ Len(queue) \in Nat
  <2>1. enq \in Seq(Nat) /\ outq \in Seq(Nat) BY ChunkFacts
  <2>2. CASE CanAccept(st)
    <3>1. queue = enq \o outq BY <2>2
    <3> HIDE DEF queue
    <3> QED BY <2>1, <3>1, ConcatFacts
  <2>3. CASE ~CanAccept(st) BY <2>1, <2>3
  <2> QED BY <2>2, <2>3
<1>2. \E w, tx :
         /\ w \in {win, Filled(queue)} /\ tx \subseteq DOMAIN w
         /\ enq' = queue
         /\ nextSend' = nextSend + Cardinality(DOMAIN w \ DOMAIN win)
         /\ win' = [n \in DOMAIN w |-> IF n \in tx THEN "sent" ELSE w[n]]
         /\ flight' = flight \cup tx
         /\ UNCHANGED <<remoteNext, cGot>>
  <2> DEFINE gone    == relay = "done"
             s1      == IF gone THEN OnWriteClosed(st) ELSE st
             T1      == TimersAfter(old, st, s1)
             closing == appClosed \/ gone \/ (s1 = "Active" /\ "idle" \in T1)
             drained == nextSend = Len(queue) /\ DOMAIN win = {}
             s2      == IF s1 = "Terminated" THEN s1 ELSE ChecksClose(s1, T1, closing, drained)
             w       == IF s1 = "Terminated" THEN win ELSE Filled(queue)
             next    == nextSend + Cardinality(DOMAIN w \ DOMAIN win)
             sends   == s2 \notin {"Terminating", "Terminated"}
             tx      == IF sends THEN Transmitted(w, next) ELSE {}
  <2>1. /\ enq' = queue /\ nextSend' = next
        /\ win' = [n \in DOMAIN w |-> IF n \in tx THEN "sent" ELSE w[n]]
        /\ flight' = flight \cup tx
        /\ UNCHANGED <<remoteNext, cGot>>
    BY DEF Update
  <2>2. w \in {win, Filled(queue)} OBVIOUS
  <2>3. tx \subseteq DOMAIN w BY DEF Transmitted, Due
  <2> HIDE DEF w, tx
  <2> QED BY <2>1, <2>2, <2>3
<1>3. PICK w, tx :
         /\ w \in {win, Filled(queue)} /\ tx \subseteq DOMAIN w
         /\ enq' = queue
         /\ nextSend' = nextSend + Cardinality(DOMAIN w \ DOMAIN win)
         /\ win' = [n \in DOMAIN w |-> IF n \in tx THEN "sent" ELSE w[n]]
         /\ flight' = flight \cup tx
         /\ UNCHANGED <<remoteNext, cGot>>
  BY <1>2
<1> HIDE DEF queue
<1>4. \E k \in Nat :
         /\ nextSend + k <= Len(queue)
         /\ DOMAIN w = DOMAIN win \cup (nextSend..(nextSend + k - 1))
         /\ w \in [DOMAIN w -> SegStatus]
         /\ Cardinality(DOMAIN w \ DOMAIN win) = k
         /\ Cardinality(DOMAIN w) <= SendBuffer
  <2>1. CASE w = Filled(queue) BY <1>1, <2>1, FilledWindow
  <2>2. CASE w = win
    <3>0. nextSend..(nextSend + 0 - 1) = {} BY <1>0
    <3>1. DOMAIN w = DOMAIN win \cup (nextSend..(nextSend + 0 - 1)) BY <2>2, <3>0
    <3>2. DOMAIN w \ DOMAIN win = {} BY <2>2
    <3>3. Cardinality(DOMAIN w \ DOMAIN win) = 0 BY <3>2, FS_EmptySet
    <3>4. nextSend + 0 <= Len(queue) BY <1>0, <1>1
    <3> QED BY <1>0, <2>2, <3>1, <3>3, <3>4
  <2> QED BY <1>3, <2>1, <2>2
<1>5. PICK k \in Nat :
         /\ nextSend + k <= Len(queue)
         /\ DOMAIN w = DOMAIN win \cup (nextSend..(nextSend + k - 1))
         /\ w \in [DOMAIN w -> SegStatus]
         /\ Cardinality(DOMAIN w \ DOMAIN win) = k
         /\ Cardinality(DOMAIN w) <= SendBuffer
  BY <1>4
<1>6. nextSend' = nextSend + k /\ nextSend' \in Nat /\ nextSend' <= Len(enq')
  BY <1>0, <1>1, <1>3, <1>5
<1>7. DOMAIN win' = DOMAIN w BY <1>3
<1>8. win' \in [DOMAIN win' -> SegStatus] BY <1>3, <1>5, <1>7 DEF SegStatus
<1>9. DOMAIN win' \subseteq 0..nextSend' - 1 BY <1>0, <1>5, <1>6, <1>7
<1>10. Cardinality(DOMAIN win') <= SendBuffer BY <1>5, <1>7
<1>11. 0..nextSend - 1 \subseteq 0..nextSend' - 1 BY <1>0, <1>6
<1>12. cGot' \subseteq 0..nextSend' - 1 /\ flight' \subseteq 0..nextSend' - 1
  BY <1>0, <1>3, <1>7, <1>9, <1>11
<1>13. SentUntilGot'
  <2>1. SUFFICES ASSUME NEW n \in 0..nextSend' - 1 PROVE n \in DOMAIN win' \/ n \in cGot'
    BY DEF SentUntilGot
  <2>2. CASE n < nextSend
    <3>1. n \in 0..nextSend - 1 BY <1>0, <1>6, <2>2
    <3> QED BY <1>0, <1>3, <1>5, <1>7, <3>1 DEF SentUntilGot
  <2>3. CASE ~(n < nextSend)
    <3>1. n \in nextSend..(nextSend + k - 1) BY <1>0, <1>6, <2>3
    <3> QED BY <1>5, <1>7, <3>1
  <2> QED BY <2>2, <2>3
<1> QED BY <1>0, <1>3, <1>6, <1>8, <1>9, <1>10, <1>12, <1>13 DEF WinInv

\* The send window under every step.
LEMMA WinStep ==
    ASSUME IInv, [Next]_vars
    PROVE  WinInv'
<1> USE ConstantFacts
<1>0. /\ nextSend \in Nat /\ remoteNext \in Nat
      /\ cGot \subseteq 0..nextSend - 1 /\ flight \subseteq 0..nextSend - 1 /\ WinInv
      /\ win \in [DOMAIN win -> SegStatus]
  BY DEF IInv, WinInv
<1>1. ASSUME NEW next \in 0..Cardinality(cGot), NEW numbers \in SUBSET cGot, NEW opt,
             RecvAck(next, numbers, opt)
      PROVE  WinInv'
  <2>1. /\ next <= FirstMissing(cGot) /\ win' = RemoveSent(win, next, numbers)
        /\ UNCHANGED <<enq, nextSend, cGot, flight>>
        /\ remoteNext' = Max({remoteNext, next + ClientWindow})
    BY <1>1 DEF RecvAck, Received, envVars
  <2>2. Cardinality(cGot) \in Nat BY <1>0, SubsetBelow
  <2>3. next + ClientWindow \in Nat BY <2>2
  <2>4. remoteNext' \in Nat BY <1>0, <2>1, <2>3, MaxOfTwo
  <2> QED BY <2>1, <2>4, AckWin
<1>2. ASSUME NEW next \in 0..Cardinality(cGot), NEW terminate, NEW opt,
             RecvCmd(terminate, next, opt)
      PROVE  WinInv'
  <2>1. /\ next <= FirstMissing(cGot) /\ win' = RemoveSent(win, next, {})
        /\ UNCHANGED <<enq, nextSend, cGot, flight, remoteNext>>
    BY <1>2 DEF RecvCmd, Received, envVars
  <2>2. {} \in SUBSET cGot OBVIOUS
  <2> QED BY <1>0, <2>1, <2>2, AckWin
<1>3. ASSUME UNCHANGED <<sendVars, envVars>> PROVE WinInv'
  BY <1>0, <1>3 DEF WinInv, SentUntilGot, sendVars, envVars
<1>4. ASSUME NEW n, NEW opt, RecvData(n, opt) PROVE WinInv'
  BY <1>3, <1>4 DEF RecvData, Received
<1>5. ASSUME Update PROVE WinInv' BY <1>5, UpdateWin
<1>6. ASSUME NEW n \in DOMAIN win, RtoElapses(n) PROVE WinInv'
  <2>1. DOMAIN win' = DOMAIN win /\ win' \in [DOMAIN win' -> SegStatus]
        /\ UNCHANGED <<enq, nextSend, remoteNext, envVars>>
    BY <1>0, <1>6 DEF RtoElapses, SegStatus
  <2> QED BY <1>0, <2>1 DEF WinInv, SentUntilGot, envVars
<1>7. ASSUME NEW n \in flight, Arrives(n) \/ Lost(n) PROVE WinInv'
  <2>1. /\ UNCHANGED sendVars /\ cGot \subseteq cGot'
        /\ cGot' \subseteq cGot \cup flight /\ flight' \subseteq flight
    BY <1>7 DEF Arrives, Lost
  <2> QED BY <1>0, <2>1 DEF WinInv, SentUntilGot, sendVars
<1>8. ASSUME NEW t, TimerElapses(t) PROVE WinInv' BY <1>3, <1>8 DEF TimerElapses
<1>9. ASSUME RelayStep \/ UpForward \/ UpEof \/ DownRead PROVE WinInv'
  BY <1>3, <1>9 DEF RelayStep, ReadHeader, WriteRetrying, Connect, Join, VisionDown, UdpDown,
     LoopUp, UpForward, UpEof, DownRead, relayRest
<1>10. ASSUME UNCHANGED vars PROVE WinInv' BY <1>3, <1>10 DEF vars
<1> QED BY <1>1, <1>2, <1>4, <1>5, <1>6, <1>7, <1>8, <1>9, <1>10
     DEF Next, Input, Timers, Network

-----------------------------------------------------------------------------
(* The theorems *)

\* Every step keeps the inductive invariant.
LEMMA StepInv == IInv /\ [Next]_vars => IInv'
<1> SUFFICES ASSUME IInv, [Next]_vars PROVE IInv' OBVIOUS
<1>1. EngInv' /\ (CanAccept(st') => CanAccept(st)) BY EngStep
<1>2. ThreadInv' BY ThreadStep
<1>3. UpInv' /\ AckedIsKept' BY UpStep
<1>4. ChunkInv' /\ OrderInv' BY <1>1, ChunkStep
<1>5. WinInv' BY WinStep
<1> QED BY <1>1, <1>2, <1>3, <1>4, <1>5 DEF IInv

\* The inductive invariant holds in every reachable state.
THEOREM Invariance == Spec => []IInv
BY InitInv, StepInv, PTL DEF Spec

\* Every variable of the session has its type: in particular the send window and
\* the channel to the engine never exceed their sizes.
THEOREM TypeCorrect == Spec => []TypeOK
<1>1. IInv => TypeOK
  <2> SUFFICES ASSUME IInv PROVE TypeOK OBVIOUS
  <2>1. /\ live \in {"none", "live", "gone"}
        /\ st \in States /\ old \subseteq {"idle", "state"} /\ appClosed \in BOOLEAN
    BY DEF IInv, EngInv
  <2>2. /\ recvNext \in Nat /\ recvBuf \subseteq Nat /\ ackq \subseteq Nat
        /\ incoming \in Seq(Nat) /\ toTarget \in Seq(Nat)
    BY DEF IInv, UpInv
  <2>3. relay \in RelayPC /\ up \in {"none", "run", "eof", "broken"} BY DEF IInv, ThreadInv
  <2>4. /\ enq \in Seq(Nat) /\ outq \in Seq(Nat) /\ Len(outq) <= OutCap
        /\ held \in Seq(Nat) /\ Len(held) <= 1 /\ produced \in 0..MaxDown + 1
    BY DEF IInv, ChunkInv
  <2>5. /\ nextSend \in 0..Len(enq) /\ remoteNext \in Nat
        /\ DOMAIN win \subseteq 0..nextSend - 1 /\ Cardinality(DOMAIN win) <= SendBuffer
        /\ \A n \in DOMAIN win : win[n] \in SegStatus
        /\ cGot \subseteq Nat /\ flight \subseteq Nat
    BY <2>4 DEF IInv, WinInv
  <2> QED BY <2>1, <2>2, <2>3, <2>4, <2>5 DEF TypeOK
<1> QED BY <1>1, Invariance, PTL

\* promote_received: whatever the network loses, repeats or reorders, the target
\* gets a prefix of the client's segments in order, and while somebody reads every
\* promoted segment is relayed or waits in the channel.
THEOREM UplinkStaysInOrder == Spec => []UplinkInOrder
<1>1. IInv => UplinkInOrder
  <2> SUFFICES ASSUME IInv PROVE UplinkInOrder OBVIOUS
  <2>1. /\ incoming \in Seq(Nat) /\ toTarget \in Seq(Nat) /\ recvNext \in Nat
        /\ \A i \in 1..Len(toTarget) : toTarget[i] = i - 1
        /\ relay \in {"none", "header", "respond", "connect"} => toTarget = <<>>
        /\ ReaderAlive => /\ TakenLen + Len(incoming) = recvNext
                          /\ \A i \in 1..Len(incoming) : incoming[i] = TakenLen + i - 1
    BY DEF IInv, UpInv
  <2>2. toTarget = Run(0, Len(toTarget))
    <3>1. Run(0, Len(toTarget)) \in Seq(Nat) /\ Len(Run(0, Len(toTarget))) = Len(toTarget)
          /\ \A i \in 1..Len(toTarget) : Run(0, Len(toTarget))[i] = i - 1
      BY <2>1 DEF Run
    <3> QED BY <2>1, <3>1, SeqEqual
  <2>3. ASSUME ReaderAlive PROVE Taken \o incoming = Run(0, recvNext)
    <3>1. /\ Taken \in Seq(Nat) /\ Len(Taken) = TakenLen
          /\ \A i \in 1..Len(Taken) : Taken[i] = i - 1
      <4>1. CASE relay \in {"respond", "connect"} BY <4>1 DEF Taken, TakenLen
      <4>2. CASE relay \notin {"respond", "connect"} BY <2>1, <4>2 DEF Taken, TakenLen
      <4> QED BY <4>1, <4>2
    <3> DEFINE s == Taken \o incoming
    <3>2. /\ s \in Seq(Nat) /\ Len(s) = Len(Taken) + Len(incoming)
          /\ Len(Taken) \in Nat /\ Len(incoming) \in Nat
          /\ \A i \in 1..Len(Taken) : s[i] = Taken[i]
          /\ \A i \in 1..Len(incoming) : s[Len(Taken) + i] = incoming[i]
      BY <2>1, <3>1, ConcatFacts
    <3> HIDE DEF s
    <3>3. Len(s) = recvNext BY <2>1, <2>3, <3>1, <3>2
    <3>4. ASSUME NEW i \in 1..Len(s) PROVE s[i] = i - 1
      <4>1. CASE i <= Len(Taken) BY <3>1, <3>2, <4>1
      <4>2. CASE i > Len(Taken)
        <5>1. i - Len(Taken) \in 1..Len(incoming) /\ Len(Taken) + (i - Len(Taken)) = i
          BY <3>2, <4>2
        <5>2. s[i] = incoming[i - Len(Taken)] BY <3>2, <5>1
        <5>3. incoming[i - Len(Taken)] = TakenLen + (i - Len(Taken)) - 1 BY <2>1, <2>3, <5>1
        <5> QED BY <3>1, <3>2, <5>1, <5>2, <5>3
      <4> QED BY <3>2, <4>1, <4>2
    <3>5. Run(0, recvNext) \in Seq(Nat) /\ Len(Run(0, recvNext)) = recvNext
          /\ \A i \in 1..recvNext : Run(0, recvNext)[i] = i - 1
      BY <2>1 DEF Run
    <3>6. s = Run(0, recvNext) BY <3>2, <3>3, <3>4, <3>5, SeqEqual
    <3> QED BY <3>6 DEF s
  <2> QED BY <2>2, <2>3 DEF UplinkInOrder
<1> QED BY <1>1, Invariance, PTL

\* process_data_segment: what the engine acknowledges it has delivered or kept.
THEOREM AckedStaysKept == Spec => []AckedIsKept
<1>1. IInv => AckedIsKept BY DEF IInv
<1> QED BY <1>1, Invariance, PTL

\* process_ack_segment, remove_sent_before: the window forgets only what the
\* client has received.
THEOREM WindowRemembers == Spec => []SentUntilGot
<1>1. IInv => SentUntilGot BY DEF IInv, WinInv
<1> QED BY <1>1, Invariance, PTL

\* relay_kcp_raw: every chunk read from the target is accepted by the engine, in
\* the channel or in the relay's hands, in order, while the session accepts data.
THEOREM RawDropsNothing == Spec => []RawNothingDropped
<1>1. IInv => RawNothingDropped
  <2> SUFFICES ASSUME IInv, up # "none", CanAccept(st)
               PROVE  enq \o outq \o held = Run(0, produced)
    BY DEF RawNothingDropped, NothingDropped
  <2>1. /\ enq \in Seq(Nat) /\ outq \in Seq(Nat) /\ held \in Seq(Nat) /\ produced \in Nat
        /\ Numbered(enq, outq, held, produced)
    BY ChunkFacts DEF Retries
  <2> DEFINE s == enq \o outq
             r == s \o held
  <2>2. s \in Seq(Nat) BY <2>1, ConcatFacts
  <2>3. r \in Seq(Nat) BY <2>1, <2>2, ConcatFacts
  <2>4. Numbered(s, <<>>, held, produced) BY <2>1, NumberedDrained
  <2>5. Numbered(s, <<>> \o held, <<>>, produced)
    <3>1. <<>> \in Seq(Nat) OBVIOUS
    <3> QED BY <2>1, <2>2, <2>4, <3>1, NumberedSent
  <2>6. Numbered(s, held, <<>>, produced)
    <3>1. <<>> \o held = held BY <2>1
    <3> QED BY <2>5, <3>1
  <2>7. Numbered(r, <<>>, <<>>, produced)
    <3>1. <<>> \in Seq(Nat) OBVIOUS
    <3> QED BY <2>1, <2>2, <2>6, <3>1, NumberedDrained
  <2> HIDE DEF r
  <2>8. Len(r) = produced /\ \A i \in 1..Len(r) : r[i] = i - 1
    <3>1. Len(r) \in Nat BY <2>3
    <3> QED BY <2>7, <3>1 DEF Numbered
  <2>9. Run(0, produced) \in Seq(Nat) /\ Len(Run(0, produced)) = produced
        /\ \A i \in 1..produced : Run(0, produced)[i] = i - 1
    BY <2>1 DEF Run
  <2>10. r = Run(0, produced) BY <2>3, <2>8, <2>9, SeqEqual
  <2> QED BY <2>10 DEF r
<1> QED BY <1>1, Invariance, PTL

=============================================================================
