---------------------------- MODULE AnyTlsProofs ----------------------------
(***************************************************************************)
(* The streams of an AnyTLS session do not mix and a live stream keeps its *)
(* handle, whatever the number of streams, frames and chunks.              *)
(***************************************************************************)
EXTENDS AnyTlsSession, SequenceTheorems, TLAPS

-----------------------------------------------------------------------------
(* The invariant *)

Chunk == Nat \X Nat
Frames ==
  [cmd : {"SYN", "PSH", "FIN"}, sid : Sids, data : Chunk]
    \cup [cmd : {"WASTE", "ALERT", "SETTINGS"}, sid : Sids \cup {0}, data : Chunk]
Places == {"first", "connect", "initial", "down", "up", "done"}
Streams ==
  [sid : Sids, queue : Seq(Chunk), at : Places, opening : Openings \cup {EmptyChunk},
   tgot : Seq(Chunk), tread : Nat, eof : BOOLEAN, failed : BOOLEAN]
Answers == [cmd : {"SYNACK", "SYNACK_ERROR", "PSH", "FIN"}, sid : Sids, i : Nat, n : Nat]
Requests == [sid : Sids, pushed : Nat, fin : BOOLEAN, mark : Nat, careful : BOOLEAN]

Types ==
  /\ client \in {"open", "shut", "gone"} /\ cut \in BOOLEAN
  /\ reader \in {"settings", "header", "body", "lost", "ended"}
  /\ wire \in Seq(Frames) /\ frame \in Frames
  /\ handle \in [Sids -> Nat]
  /\ stream \in Seq(Streams)
  /\ jobs \in Seq(Answers) /\ got \in Seq(Answers)
  /\ asked \in Seq(Requests)

\* A handle is the newest stream of its id.
HandleInv ==
  \A s \in Sids : handle[s] # 0 =>
    /\ handle[s] \in Ids /\ stream[handle[s]].sid = s
    /\ \A j \in Ids : stream[j].sid = s => j <= handle[s]

\* What threads queue is theirs, and FIN is the last of it.
Owned(f, S) ==
  /\ f.i \in 1 .. Len(S) /\ f.sid = S[f.i].sid
  /\ f.cmd = "FIN" => S[f.i].at = "done"
OwnedInv ==
  /\ \A n \in 1 .. Len(jobs) : Owned(jobs[n], stream)
  /\ \A n \in 1 .. Len(got) : Owned(got[n], stream)

\* The frames the reader has not carried out; the first may be the one whose
\* header it has read.
Coming ==
  IF reader = "ended" THEN <<>> ELSE IF reader = "body" THEN <<frame>> \o wire ELSE wire

Listening == client # "gone"
InStep == Listening /\ Alive

StepInv ==
  /\ client = "gone" => wire = <<>> /\ asked = <<>>
  /\ reader = "settings" /\ Listening => wire # <<>> /\ wire[1].cmd = "SETTINGS"
  /\ reader # "lost"

\* The frames P on their way, in terms of the server's streams S and, while the
\* client is there (lis), of its streams A.
Of(f) == f.data[1]
No(f) == f.data[2]

\* The streams the reader has created are the client's first ones, and the SYN
\* frames of the others are on their way.
SidOK(S, A, lis) ==
  lis => Len(S) <= Len(A) /\ \A j \in 1 .. Len(S) : A[j].sid = S[j].sid
SynOK(P, S, A, lis) ==
  /\ \A m \in 1 .. Len(P) : P[m].cmd = "SYN" =>
       Of(P[m]) > Len(S) /\ (lis => Of(P[m]) <= Len(A) /\ A[Of(P[m])].sid = P[m].sid)
  /\ \A m, n \in 1 .. Len(P) : P[m].cmd = "SYN" /\ P[n].cmd = "SYN" /\ m < n => Of(P[m]) < Of(P[n])
  /\ lis => \A k \in Len(S) + 1 .. Len(A) :
       \E m \in 1 .. Len(P) : P[m].cmd = "SYN" /\ Of(P[m]) = k

\* A frame that names a stream comes behind its SYN, and before the next SYN
\* with the same id.
NameOK(P, S, A, lis) ==
  \A m \in 1 .. Len(P) : P[m].cmd \in {"PSH", "FIN"} =>
    /\ Of(P[m]) > 0
    /\ lis => Of(P[m]) <= Len(A) /\ A[Of(P[m])].sid = P[m].sid
    /\ lis /\ P[m].cmd = "FIN" => A[Of(P[m])].fin
    /\ lis /\ P[m].cmd = "PSH" => No(P[m]) <= A[Of(P[m])].pushed
    /\ \A n \in 1 .. Len(P) : P[n].cmd = "SYN" /\ P[n].sid = P[m].sid =>
         (n < m <=> Of(P[n]) <= Of(P[m]))
    /\ \A j \in 1 .. Len(S) : S[j].sid = P[m].sid => j <= Of(P[m])
    /\ \/ Of(P[m]) <= Len(S) /\ S[Of(P[m])].sid = P[m].sid
       \/ \E n \in 1 .. Len(P) : n < m /\ P[n].cmd = "SYN" /\ Of(P[n]) = Of(P[m])

\* The chunks of a stream are on their way in order.
OrderOK(P) ==
  \A m, n \in 1 .. Len(P) :
    P[m].cmd = "PSH" /\ P[n].cmd = "PSH" /\ Of(P[m]) = Of(P[n]) /\ m < n => No(P[m]) < No(P[n])

\* d chunks of stream k have been read, and the next ones follow.
Follows(P, A, lis, k, d) ==
  /\ \A m \in 1 .. Len(P) : P[m].cmd = "PSH" /\ Of(P[m]) = k =>
       \/ No(P[m]) = d + 1
       \/ \E n \in 1 .. Len(P) : n < m /\ P[n].cmd = "PSH" /\ Of(P[n]) = k /\ No(P[n]) + 1 = No(P[m])
  /\ lis /\ k \in 1 .. Len(A) =>
       \/ A[k].pushed = d
       \/ \E m \in 1 .. Len(P) : P[m].cmd = "PSH" /\ Of(P[m]) = k /\ No(P[m]) = A[k].pushed

WireOK(P, S, A, lis) == SidOK(S, A, lis) /\ SynOK(P, S, A, lis) /\ NameOK(P, S, A, lis) /\ OrderOK(P)

\* What a stream has been given and what its target has got of it; c is 1 when
\* the first chunk held the opening alone.
Given(k, x, c) ==
  /\ x.at \in {"first", "connect"} => c = 0
  /\ x.at = "first" => x.tgot = <<>>
  /\ x.at = "connect" => Len(x.tgot) = 1
  /\ \A n \in 1 .. Len(x.tgot) : x.tgot[n] = <<k, n + c>>
  /\ \A n \in 1 .. Len(x.queue) : x.queue[n] = <<k, n + c + Len(x.tgot)>>
Total(x, c) == c + Len(x.tgot) + Len(x.queue)

ChunkInv ==
  /\ \A k \in Ids : stream[k].at = "done" => stream[k].tgot = <<>>
  /\ \A k \in Ids : stream[k].at # "done" => \E c \in {0, 1} :
       /\ Given(k, stream[k], c)
       /\ handle[stream[k].sid] = k => Follows(Coming, asked, InStep, k, Total(stream[k], c))
  /\ \A k \in Nat \ Ids : k > 0 => Follows(Coming, asked, InStep, k, 0)

\* What the threads have queued and the client has received, L, as the answer of
\* stream i, which is x.
From(L, n, i, cmd) == L[n].i = i /\ L[n].cmd = cmd
Has(L, i, d) == \E n \in 1 .. Len(L) : From(L, n, i, "PSH") /\ L[n].n = d
Unanswered(x) == x.at = "first" \/ (x.at = "connect" /\ x.opening.type # 0)

FinOK(L, i, x) ==
  \A n \in 1 .. Len(L) : From(L, n, i, "FIN") =>
    /\ x.at = "done"
    /\ \A m \in 1 .. Len(L) : L[m].i = i => m <= n
    /\ \A d \in 1 .. x.tread : Has(L, i, d)
AckOK(L, i) ==
  \A n \in 1 .. Len(L) : From(L, n, i, "SYNACK") =>
    \A m \in 1 .. Len(L) : L[m].i = i => n <= m
DataOK(L, i, x) ==
  \A n \in 1 .. Len(L) : From(L, n, i, "PSH") =>
    /\ \E m \in 1 .. Len(L) : m < n /\ From(L, m, i, "SYNACK")
    /\ \A m \in 1 .. Len(L) : From(L, m, i, "PSH") /\ m < n => L[m].n < L[n].n
    /\ L[n].n > 1 => \E m \in 1 .. Len(L) : m < n /\ From(L, m, i, "PSH") /\ L[m].n + 1 = L[n].n
    /\ L[n].n <= x.tread
LogOK(L, i, x) == FinOK(L, i, x) /\ AckOK(L, i) /\ DataOK(L, i, x)

\* How far the answer is, while the reader loop writes it (on).
StateOK(L, i, x, on) ==
  /\ x.at \in {"first", "connect"} => x.tread = 0
  /\ Unanswered(x) => \A n \in 1 .. Len(L) : L[n].i # i
  /\ on /\ x.at # "done" /\ ~Unanswered(x) => \E n \in 1 .. Len(L) : From(L, n, i, "SYNACK")
  /\ on /\ x.at # "done" => \A d \in 1 .. x.tread : Has(L, i, d)

Log == got \o jobs
LogInv == \A i \in Ids : LogOK(Log, i, stream[i]) /\ StateOK(Log, i, stream[i], Alive)

\* What the client had received when it sent a SYN.
MarkOK(L, A, k) ==
  /\ \A n \in 1 .. Len(L) : L[n].i = k => n > A[k].mark
  /\ A[k].careful => \A j \in 1 .. k - 1 : A[j].sid = A[k].sid =>
       \E n \in 1 .. Len(L) : n <= A[k].mark /\ From(L, n, j, "FIN")
MarkInv == \A k \in 1 .. Len(asked) : asked[k].mark <= Len(got) /\ MarkOK(Log, asked, k)

\* What holds until the reader loses its place.
PlaceInv ==
  /\ StepInv /\ SidOK(stream, asked, Listening)
  /\ WireOK(Coming, stream, asked, InStep)
  /\ ChunkInv
  /\ Listening => LogInv /\ MarkInv
  /\ LiveKeepsHandle

IInv == Types /\ HandleInv /\ OwnedInv /\ (~cut => PlaceInv)

-----------------------------------------------------------------------------
(* Proofs *)

\* The elements of a sequence.
LEMMA ElementOf ==
  ASSUME NEW T, NEW q \in Seq(T)
  PROVE  /\ Len(q) \in Nat /\ DOMAIN q = 1 .. Len(q)
         /\ \A n \in 1 .. Len(q) : q[n] \in T
OBVIOUS

\* A frame's mark is two numbers.
LEMMA MarkOfFrame ==
  ASSUME NEW P \in Seq(Frames)
  PROVE  /\ Len(P) \in Nat
         /\ \A m \in 1 .. Len(P) : Of(P[m]) \in Nat /\ No(P[m]) \in Nat
<1>1. Len(P) \in Nat /\ \A m \in 1 .. Len(P) : P[m] \in Frames BY ElementOf
<1>2. \A f \in Frames : f.data \in Nat \X Nat BY DEF Frames, Chunk
<1>3. \A d \in Nat \X Nat : d[1] \in Nat /\ d[2] \in Nat OBVIOUS
<1> QED BY <1>1, <1>2, <1>3 DEF Of, No

\* Q is P without its first element.
Drops(P, Q) == Len(P) = Len(Q) + 1 /\ \A m \in 1 .. Len(Q) : Q[m] = P[m + 1]

\* The places of a sequence without its first element, in that sequence.
LEMMA Shifted ==
  ASSUME NEW P \in Seq(Frames), NEW Q \in Seq(Frames),
         Drops(P, Q)
  PROVE  /\ 1 \in 1 .. Len(P) /\ \A m \in 1 .. Len(P) : ~(m < 1)
         /\ \A m \in 1 .. Len(Q) : m + 1 \in 1 .. Len(P) /\ 1 < m + 1 /\ Q[m] = P[m + 1]
         /\ \A m, n \in 1 .. Len(Q) : m < n <=> m + 1 < n + 1
         /\ \A m \in 1 .. Len(P) : m # 1 => \E n \in 1 .. Len(Q) : m = n + 1
<1>1. Len(P) \in Nat /\ Len(Q) \in Nat BY MarkOfFrame
<1>2. ASSUME NEW m \in 1 .. Len(P), m # 1 PROVE \E n \in 1 .. Len(Q) : m = n + 1
  <2>1. m - 1 \in 1 .. Len(Q) /\ m = (m - 1) + 1 BY <1>1, <1>2 DEF Drops
  <2> QED BY <2>1
<1> QED BY <1>1, <1>2 DEF Drops

\* The first frame is taken: what it says and what stays.
LEMMA WireDrop ==
  ASSUME NEW P \in Seq(Frames), NEW Q \in Seq(Frames), NEW S, NEW A, NEW lis,
         Drops(P, Q),
         P[1].cmd # "SYN", WireOK(P, S, A, lis)
  PROVE  WireOK(Q, S, A, lis)
<1> DEFINE g(m) == m + 1
<1>0. /\ \A m \in 1 .. Len(Q) : g(m) \in 1 .. Len(P) /\ 1 < g(m) /\ Q[m] = P[g(m)]
      /\ \A m, n \in 1 .. Len(Q) : m < n <=> g(m) < g(n)
      /\ \A m \in 1 .. Len(P) : m # 1 => \E n \in 1 .. Len(Q) : m = g(n)
  BY Shifted
<1>1. 1 \in 1 .. Len(P) /\ \A m \in 1 .. Len(P) : ~(m < 1) BY Shifted
<1> HIDE DEF g
<1>2. SidOK(S, A, lis) BY DEF WireOK
<1>3. SynOK(Q, S, A, lis)
  <2>1. SynOK(P, S, A, lis) BY DEF WireOK
  <2>2. \A m \in 1 .. Len(Q) : Q[m].cmd = "SYN" =>
          Of(Q[m]) > Len(S) /\ (lis => Of(Q[m]) <= Len(A) /\ A[Of(Q[m])].sid = Q[m].sid)
    BY <1>0, <2>1 DEF SynOK
  <2>3. ASSUME NEW m \in 1 .. Len(Q), NEW n \in 1 .. Len(Q), Q[m].cmd = "SYN", Q[n].cmd = "SYN", m < n
        PROVE  Of(Q[m]) < Of(Q[n])
    <3>1. /\ g(m) \in 1 .. Len(P) /\ g(n) \in 1 .. Len(P) /\ g(m) < g(n)
          /\ Q[m] = P[g(m)] /\ Q[n] = P[g(n)]
      BY <1>0, <2>3
    <3> QED BY <2>1, <2>3, <3>1 DEF SynOK
  <2>4. ASSUME lis, NEW k \in Len(S) + 1 .. Len(A)
        PROVE  \E m \in 1 .. Len(Q) : Q[m].cmd = "SYN" /\ Of(Q[m]) = k
    <3>1. PICK m \in 1 .. Len(P) : P[m].cmd = "SYN" /\ Of(P[m]) = k BY <2>1, <2>4 DEF SynOK
    <3>2. PICK n \in 1 .. Len(Q) : m = g(n) BY <1>0, <3>1
    <3> QED BY <1>0, <3>1, <3>2
  <2> QED BY <2>2, <2>3, <2>4 DEF SynOK
<1>4. NameOK(Q, S, A, lis)
  <2>1. NameOK(P, S, A, lis) BY DEF WireOK
  <2>2. SUFFICES ASSUME NEW m \in 1 .. Len(Q), Q[m].cmd \in {"PSH", "FIN"}
        PROVE /\ Of(Q[m]) > 0
              /\ lis => Of(Q[m]) <= Len(A) /\ A[Of(Q[m])].sid = Q[m].sid
              /\ lis /\ Q[m].cmd = "FIN" => A[Of(Q[m])].fin
              /\ lis /\ Q[m].cmd = "PSH" => No(Q[m]) <= A[Of(Q[m])].pushed
              /\ \A n \in 1 .. Len(Q) : Q[n].cmd = "SYN" /\ Q[n].sid = Q[m].sid =>
                   (n < m <=> Of(Q[n]) <= Of(Q[m]))
              /\ \A j \in 1 .. Len(S) : S[j].sid = Q[m].sid => j <= Of(Q[m])
              /\ \/ Of(Q[m]) <= Len(S) /\ S[Of(Q[m])].sid = Q[m].sid
                 \/ \E n \in 1 .. Len(Q) : n < m /\ Q[n].cmd = "SYN" /\ Of(Q[n]) = Of(Q[m])
    BY DEF NameOK
  <2>3. g(m) \in 1 .. Len(P) /\ Q[m] = P[g(m)] BY <1>0
  <2>4. /\ Of(Q[m]) > 0
        /\ lis => Of(Q[m]) <= Len(A) /\ A[Of(Q[m])].sid = Q[m].sid
        /\ lis /\ Q[m].cmd = "FIN" => A[Of(Q[m])].fin
        /\ lis /\ Q[m].cmd = "PSH" => No(Q[m]) <= A[Of(Q[m])].pushed
        /\ \A j \in 1 .. Len(S) : S[j].sid = Q[m].sid => j <= Of(Q[m])
        /\ \A n \in 1 .. Len(P) : P[n].cmd = "SYN" /\ P[n].sid = Q[m].sid =>
             (n < g(m) <=> Of(P[n]) <= Of(Q[m]))
        /\ \/ Of(Q[m]) <= Len(S) /\ S[Of(Q[m])].sid = Q[m].sid
           \/ \E n \in 1 .. Len(P) : n < g(m) /\ P[n].cmd = "SYN" /\ Of(P[n]) = Of(Q[m])
    BY <2>1, <2>2, <2>3 DEF NameOK
  <2>5. ASSUME NEW n \in 1 .. Len(Q), Q[n].cmd = "SYN", Q[n].sid = Q[m].sid
        PROVE  n < m <=> Of(Q[n]) <= Of(Q[m])
    <3>1. g(n) \in 1 .. Len(P) /\ Q[n] = P[g(n)] /\ (n < m <=> g(n) < g(m)) BY <1>0
    <3> QED BY <2>4, <2>5, <3>1
  <2>6. ASSUME NEW n \in 1 .. Len(P), n < g(m), P[n].cmd = "SYN", Of(P[n]) = Of(Q[m])
        PROVE  \E l \in 1 .. Len(Q) : l < m /\ Q[l].cmd = "SYN" /\ Of(Q[l]) = Of(Q[m])
    <3>1. PICK l \in 1 .. Len(Q) : n = g(l) BY <1>0, <2>6
    <3>2. Q[l] = P[g(l)] /\ l < m BY <1>0, <2>6, <3>1
    <3> QED BY <2>6, <3>1, <3>2
  <2> QED BY <2>4, <2>5, <2>6
<1>5. OrderOK(Q)
  <2>1. OrderOK(P) BY DEF WireOK
  <2>2. SUFFICES ASSUME NEW m \in 1 .. Len(Q), NEW n \in 1 .. Len(Q), Q[m].cmd = "PSH",
                        Q[n].cmd = "PSH", Of(Q[m]) = Of(Q[n]), m < n
                 PROVE  No(Q[m]) < No(Q[n])
    BY DEF OrderOK
  <2>3. /\ g(m) \in 1 .. Len(P) /\ g(n) \in 1 .. Len(P) /\ g(m) < g(n)
        /\ Q[m] = P[g(m)] /\ Q[n] = P[g(n)]
    BY <1>0, <2>2
  <2> QED BY <2>1, <2>2, <2>3 DEF OrderOK
<1> QED BY <1>2, <1>3, <1>4, <1>5 DEF WireOK

\* The chunks that follow, when the first frame is taken.
LEMMA FollowsDrop ==
  ASSUME NEW P \in Seq(Frames), NEW Q \in Seq(Frames), NEW S, NEW A, NEW lis,
         NEW k, NEW d \in Nat,
         Drops(P, Q),
         WireOK(P, S, A, lis), Follows(P, A, lis, k, d)
  PROVE  /\ ~(P[1].cmd = "PSH" /\ Of(P[1]) = k) => Follows(Q, A, lis, k, d)
         /\ P[1].cmd = "PSH" /\ Of(P[1]) = k => No(P[1]) = d + 1 /\ Follows(Q, A, lis, k, d + 1)
<1> DEFINE g(m) == m + 1
<1>0. /\ \A m \in 1 .. Len(Q) : g(m) \in 1 .. Len(P) /\ 1 < g(m) /\ Q[m] = P[g(m)]
      /\ \A m, n \in 1 .. Len(Q) : m < n <=> g(m) < g(n)
      /\ \A m \in 1 .. Len(P) : m # 1 => \E n \in 1 .. Len(Q) : m = g(n)
  BY Shifted
<1>1. 1 \in 1 .. Len(P) /\ \A m \in 1 .. Len(P) : ~(m < 1) BY Shifted
<1> HIDE DEF g
<1>2. \A m \in 1 .. Len(P) : Of(P[m]) \in Nat /\ No(P[m]) \in Nat BY MarkOfFrame
<1>3. CASE ~(P[1].cmd = "PSH" /\ Of(P[1]) = k)
  <2>1. ASSUME NEW m \in 1 .. Len(Q), Q[m].cmd = "PSH", Of(Q[m]) = k
        PROVE  \/ No(Q[m]) = d + 1
               \/ \E n \in 1 .. Len(Q) : n < m /\ Q[n].cmd = "PSH" /\ Of(Q[n]) = k /\ No(Q[n]) + 1 = No(Q[m])
    <3>1. g(m) \in 1 .. Len(P) /\ Q[m] = P[g(m)] BY <1>0
    <3>2. \/ No(Q[m]) = d + 1
          \/ \E n \in 1 .. Len(P) : n < g(m) /\ P[n].cmd = "PSH" /\ Of(P[n]) = k /\ No(P[n]) + 1 = No(Q[m])
      BY <2>1, <3>1 DEF Follows
    <3>3. ASSUME NEW n \in 1 .. Len(P), n < g(m), P[n].cmd = "PSH", Of(P[n]) = k, No(P[n]) + 1 = No(Q[m])
          PROVE  \E l \in 1 .. Len(Q) : l < m /\ Q[l].cmd = "PSH" /\ Of(Q[l]) = k /\ No(Q[l]) + 1 = No(Q[m])
      <4>1. PICK l \in 1 .. Len(Q) : n = g(l) BY <1>0, <1>3, <3>3
      <4>2. Q[l] = P[g(l)] /\ l < m BY <1>0, <3>3, <4>1
      <4> QED BY <3>3, <4>1, <4>2
    <3> QED BY <3>2, <3>3
  <2>2. ASSUME lis, k \in 1 .. Len(A)
        PROVE  \/ A[k].pushed = d
               \/ \E m \in 1 .. Len(Q) : Q[m].cmd = "PSH" /\ Of(Q[m]) = k /\ No(Q[m]) = A[k].pushed
    <3>1. \/ A[k].pushed = d
          \/ \E m \in 1 .. Len(P) : P[m].cmd = "PSH" /\ Of(P[m]) = k /\ No(P[m]) = A[k].pushed
      BY <2>2 DEF Follows
    <3>2. ASSUME NEW m \in 1 .. Len(P), P[m].cmd = "PSH", Of(P[m]) = k, No(P[m]) = A[k].pushed
          PROVE  \E n \in 1 .. Len(Q) : Q[n].cmd = "PSH" /\ Of(Q[n]) = k /\ No(Q[n]) = A[k].pushed
      <4>1. PICK n \in 1 .. Len(Q) : m = g(n) BY <1>0, <1>3, <3>2
      <4>2. Q[n] = P[g(n)] BY <1>0
      <4> QED BY <3>2, <4>1, <4>2
    <3> QED BY <3>1, <3>2
  <2>3. Follows(Q, A, lis, k, d) BY <2>1, <2>2 DEF Follows
  <2> QED BY <1>3, <2>3
<1>4. CASE P[1].cmd = "PSH" /\ Of(P[1]) = k
  <2>1. No(P[1]) = d + 1 BY <1>0, <1>1, <1>4 DEF Follows
  <2>2. \A m \in 1 .. Len(Q) : Q[m].cmd = "PSH" /\ Of(Q[m]) = k => No(Q[m]) > d + 1
    <3> SUFFICES ASSUME NEW m \in 1 .. Len(Q), Q[m].cmd = "PSH", Of(Q[m]) = k
                 PROVE  No(Q[m]) > d + 1
      OBVIOUS
    <3>1. g(m) \in 1 .. Len(P) /\ 1 < g(m) /\ Q[m] = P[g(m)] BY <1>0
    <3>2. OrderOK(P) BY DEF WireOK
    <3>3. No(P[1]) < No(P[g(m)]) BY <1>1, <1>4, <3>1, <3>2 DEF OrderOK
    <3>4. No(P[g(m)]) \in Nat BY <1>2, <3>1
    <3> QED BY <2>1, <3>1, <3>3, <3>4
  <2>3. ASSUME NEW m \in 1 .. Len(Q), Q[m].cmd = "PSH", Of(Q[m]) = k
        PROVE  \/ No(Q[m]) = (d + 1) + 1
               \/ \E n \in 1 .. Len(Q) : n < m /\ Q[n].cmd = "PSH" /\ Of(Q[n]) = k /\ No(Q[n]) + 1 = No(Q[m])
    <3>1. No(Q[m]) # d + 1 BY <1>0, <1>1, <1>2, <2>2, <2>3
    <3>2. PICK n \in 1 .. Len(P) :
             n < g(m) /\ P[n].cmd = "PSH" /\ Of(P[n]) = k /\ No(P[n]) + 1 = No(Q[m])
      <4>1. g(m) \in 1 .. Len(P) /\ Q[m] = P[g(m)] BY <1>0
      <4> QED BY <2>3, <3>1, <4>1 DEF Follows
    <3>3. CASE n = 1 BY <2>1, <3>2, <3>3
    <3>4. CASE n # 1
      <4>1. PICK l \in 1 .. Len(Q) : n = g(l) BY <1>0, <3>4
      <4>2. Q[l] = P[g(l)] /\ l < m BY <1>0, <3>2, <4>1
      <4> QED BY <3>2, <4>1, <4>2
    <3> QED BY <3>3, <3>4
  <2>4. ASSUME lis, k \in 1 .. Len(A)
        PROVE  \/ A[k].pushed = d + 1
               \/ \E m \in 1 .. Len(Q) : Q[m].cmd = "PSH" /\ Of(Q[m]) = k /\ No(Q[m]) = A[k].pushed
    <3>1. d + 1 <= A[k].pushed BY <1>0, <1>1, <1>4, <2>1, <2>4 DEF WireOK, NameOK
    <3>2. A[k].pushed # d BY <3>1
    <3>3. PICK m \in 1 .. Len(P) : P[m].cmd = "PSH" /\ Of(P[m]) = k /\ No(P[m]) = A[k].pushed
      BY <2>4, <3>2 DEF Follows
    <3>4. CASE m = 1 BY <2>1, <3>3, <3>4
    <3>5. CASE m # 1
      <4>1. PICK n \in 1 .. Len(Q) : m = g(n) BY <1>0, <3>5
      <4>2. Q[n] = P[g(n)] BY <1>0
      <4> QED BY <3>3, <4>1, <4>2
    <3> QED BY <3>4, <3>5
  <2> QED BY <1>4, <2>1, <2>3, <2>4 DEF Follows
<1> QED BY <1>3, <1>4

\* A SYN that is carried out creates the stream it is the SYN of.
LEMMA WireSyn ==
  ASSUME NEW P \in Seq(Frames), NEW Q \in Seq(Frames), NEW S \in Seq(Streams), NEW A \in Seq(Requests),
         NEW x \in Streams,
         Drops(P, Q),
         P[1].cmd = "SYN", x.sid = P[1].sid, WireOK(P, S, A, TRUE)
  PROVE  WireOK(Q, Append(S, x), A, TRUE)
<1> DEFINE T == Append(S, x)
<1> DEFINE g(m) == m + 1
<1>0. /\ \A m \in 1 .. Len(Q) : g(m) \in 1 .. Len(P) /\ 1 < g(m) /\ Q[m] = P[g(m)]
      /\ \A m, n \in 1 .. Len(Q) : m < n <=> g(m) < g(n)
      /\ \A m \in 1 .. Len(P) : m # 1 => \E n \in 1 .. Len(Q) : m = g(n)
  BY Shifted
<1>1. 1 \in 1 .. Len(P) /\ \A m \in 1 .. Len(P) : ~(m < 1) BY Shifted
<1> HIDE DEF g
<1>2. \A m \in 1 .. Len(P) : Of(P[m]) \in Nat /\ No(P[m]) \in Nat BY MarkOfFrame
<1>3. /\ Len(S) \in Nat /\ Len(T) = Len(S) + 1 /\ T[Len(S) + 1] = x
      /\ \A j \in 1 .. Len(T) : j = Len(S) + 1 \/ (j \in 1 .. Len(S) /\ T[j] = S[j])
      /\ \A j \in 1 .. Len(S) : j \in 1 .. Len(T) /\ T[j] = S[j]
  OBVIOUS
<1> HIDE DEF T
<1>4. SidOK(S, A, TRUE) /\ SynOK(P, S, A, TRUE) /\ NameOK(P, S, A, TRUE) /\ OrderOK(P)
  BY DEF WireOK
<1>5. Len(A) \in Nat OBVIOUS
<1>6. /\ Of(P[1]) > Len(S) /\ Of(P[1]) <= Len(A) /\ A[Of(P[1])].sid = P[1].sid
      /\ \A m \in 1 .. Len(P) : P[m].cmd = "SYN" /\ 1 < m => Of(P[1]) < Of(P[m])
  BY <1>0, <1>1, <1>4 DEF SynOK
<1>7. Of(P[1]) = Len(S) + 1
  <2>1. Len(S) + 1 \in Len(S) + 1 .. Len(A) BY <1>0, <1>1, <1>2, <1>3, <1>5, <1>6
  <2>2. PICK m \in 1 .. Len(P) : P[m].cmd = "SYN" /\ Of(P[m]) = Len(S) + 1 BY <1>4, <2>1 DEF SynOK
  <2> QED BY <1>0, <1>1, <1>2, <1>3, <1>6, <2>2
<1>8. SidOK(T, A, TRUE) BY <1>0, <1>1, <1>2, <1>3, <1>4, <1>5, <1>6, <1>7 DEF SidOK
<1>9. SynOK(Q, T, A, TRUE)
  <2>1. ASSUME NEW m \in 1 .. Len(Q), Q[m].cmd = "SYN"
        PROVE  Of(Q[m]) > Len(T) /\ Of(Q[m]) <= Len(A) /\ A[Of(Q[m])].sid = Q[m].sid
    <3>1. g(m) \in 1 .. Len(P) /\ 1 < g(m) /\ Q[m] = P[g(m)] BY <1>0
    <3>2. Of(Q[m]) <= Len(A) /\ A[Of(Q[m])].sid = Q[m].sid BY <1>4, <2>1, <3>1 DEF SynOK
    <3>3. Of(P[1]) < Of(Q[m]) /\ Of(Q[m]) \in Nat BY <1>2, <1>6, <2>1, <3>1
    <3> QED BY <1>3, <1>7, <3>2, <3>3
  <2>2. ASSUME NEW m \in 1 .. Len(Q), NEW n \in 1 .. Len(Q), Q[m].cmd = "SYN", Q[n].cmd = "SYN", m < n
        PROVE  Of(Q[m]) < Of(Q[n])
    <3>1. /\ g(m) \in 1 .. Len(P) /\ g(n) \in 1 .. Len(P) /\ g(m) < g(n)
          /\ Q[m] = P[g(m)] /\ Q[n] = P[g(n)]
      BY <1>0, <2>2
    <3> QED BY <1>4, <2>2, <3>1 DEF SynOK
  <2>3. ASSUME NEW k \in Len(T) + 1 .. Len(A) PROVE \E m \in 1 .. Len(Q) : Q[m].cmd = "SYN" /\ Of(Q[m]) = k
    <3>1. k \in Len(S) + 1 .. Len(A) /\ k # Len(S) + 1 BY <1>3, <1>5
    <3>2. PICK m \in 1 .. Len(P) : P[m].cmd = "SYN" /\ Of(P[m]) = k BY <1>4, <3>1 DEF SynOK
    <3>3. PICK n \in 1 .. Len(Q) : m = g(n) BY <1>0, <1>7, <3>1, <3>2
    <3> QED BY <1>0, <3>2, <3>3
  <2> QED BY <2>1, <2>2, <2>3 DEF SynOK
<1>10. NameOK(Q, T, A, TRUE)
  <2>1. SUFFICES ASSUME NEW m \in 1 .. Len(Q), Q[m].cmd \in {"PSH", "FIN"}
        PROVE /\ Of(Q[m]) > 0
              /\ Of(Q[m]) <= Len(A) /\ A[Of(Q[m])].sid = Q[m].sid
              /\ Q[m].cmd = "FIN" => A[Of(Q[m])].fin
              /\ Q[m].cmd = "PSH" => No(Q[m]) <= A[Of(Q[m])].pushed
              /\ \A n \in 1 .. Len(Q) : Q[n].cmd = "SYN" /\ Q[n].sid = Q[m].sid =>
                   (n < m <=> Of(Q[n]) <= Of(Q[m]))
              /\ \A j \in 1 .. Len(T) : T[j].sid = Q[m].sid => j <= Of(Q[m])
              /\ \/ Of(Q[m]) <= Len(T) /\ T[Of(Q[m])].sid = Q[m].sid
                 \/ \E n \in 1 .. Len(Q) : n < m /\ Q[n].cmd = "SYN" /\ Of(Q[n]) = Of(Q[m])
    BY DEF NameOK
  <2>2. g(m) \in 1 .. Len(P) /\ P[g(m)] = Q[m] /\ 1 < g(m) /\ Of(Q[m]) \in Nat BY <1>0, <1>1, <1>2
  <2>3. /\ Of(Q[m]) > 0 /\ Of(Q[m]) <= Len(A) /\ A[Of(Q[m])].sid = Q[m].sid
        /\ Q[m].cmd = "FIN" => A[Of(Q[m])].fin
        /\ Q[m].cmd = "PSH" => No(Q[m]) <= A[Of(Q[m])].pushed
    BY <1>4, <2>1, <2>2 DEF NameOK
  <2>11. \A n \in 1 .. Len(P) : P[n].cmd = "SYN" /\ P[n].sid = Q[m].sid =>
           (n < g(m) <=> Of(P[n]) <= Of(Q[m]))
    BY <1>4, <2>1, <2>2 DEF NameOK
  <2>4. ASSUME NEW n \in 1 .. Len(Q), Q[n].cmd = "SYN", Q[n].sid = Q[m].sid
        PROVE  n < m <=> Of(Q[n]) <= Of(Q[m])
    <3>1. g(n) \in 1 .. Len(P) /\ Q[n] = P[g(n)] /\ (n < m <=> g(n) < g(m)) BY <1>0
    <3> QED BY <2>4, <2>11, <3>1
  <2>5. \A j \in 1 .. Len(S) : S[j].sid = Q[m].sid => j <= Of(Q[m])
    BY <1>4, <2>1, <2>2 DEF NameOK
  <2>6. x.sid = Q[m].sid => Len(S) + 1 <= Of(Q[m])
    BY <1>1, <1>7, <2>2, <2>11
  <2>7. \A j \in 1 .. Len(T) : T[j].sid = Q[m].sid => j <= Of(Q[m]) BY <1>3, <2>5, <2>6
  <2>8. \/ Of(Q[m]) <= Len(S) /\ S[Of(Q[m])].sid = Q[m].sid
        \/ \E n \in 1 .. Len(P) : n < g(m) /\ P[n].cmd = "SYN" /\ Of(P[n]) = Of(Q[m])
    BY <1>4, <2>1, <2>2 DEF NameOK
  <2>9. CASE Of(Q[m]) <= Len(S) /\ S[Of(Q[m])].sid = Q[m].sid
    <3>1. Of(Q[m]) \in 1 .. Len(S) BY <1>3, <2>2, <2>3, <2>9
    <3>2. Of(Q[m]) <= Len(T) /\ T[Of(Q[m])].sid = Q[m].sid BY <1>3, <2>9, <3>1
    <3> QED BY <2>3, <2>4, <2>7, <3>2
  <2>10. ASSUME NEW n \in 1 .. Len(P), n < g(m), P[n].cmd = "SYN", Of(P[n]) = Of(Q[m])
         PROVE  \/ Of(Q[m]) <= Len(T) /\ T[Of(Q[m])].sid = Q[m].sid
                \/ \E l \in 1 .. Len(Q) : l < m /\ Q[l].cmd = "SYN" /\ Of(Q[l]) = Of(Q[m])
    <3>1. CASE n = 1 BY <1>3, <1>6, <1>7, <2>3, <2>10, <3>1
    <3>2. CASE n # 1
      <4>1. PICK l \in 1 .. Len(Q) : n = g(l) BY <1>0, <3>2
      <4>2. Q[l] = P[g(l)] /\ l < m BY <1>0, <2>10, <4>1
      <4> QED BY <2>10, <4>1, <4>2
    <3> QED BY <3>1, <3>2
  <2> QED BY <2>3, <2>4, <2>7, <2>8, <2>9, <2>10
<1>11. OrderOK(Q)
  <2>1. SUFFICES ASSUME NEW m \in 1 .. Len(Q), NEW n \in 1 .. Len(Q), Q[m].cmd = "PSH",
                        Q[n].cmd = "PSH", Of(Q[m]) = Of(Q[n]), m < n
                 PROVE  No(Q[m]) < No(Q[n])
    BY DEF OrderOK
  <2>2. /\ g(m) \in 1 .. Len(P) /\ g(n) \in 1 .. Len(P) /\ g(m) < g(n)
        /\ Q[m] = P[g(m)] /\ Q[n] = P[g(n)]
    BY <1>0, <2>1
  <2> QED BY <1>4, <2>1, <2>2 DEF OrderOK
<1> QED BY <1>8, <1>9, <1>10, <1>11 DEF WireOK, T

\* A frame more at the end.
LEMMA Longer ==
  ASSUME NEW T, NEW P \in Seq(T), NEW f \in T
  PROVE  /\ Append(P, f) \in Seq(T) /\ Len(P) \in Nat
         /\ Len(Append(P, f)) = Len(P) + 1 /\ Append(P, f)[Len(P) + 1] = f
         /\ Len(P) + 1 \in 1 .. Len(Append(P, f))
         /\ \A m \in 1 .. Len(P) : /\ m \in 1 .. Len(Append(P, f)) /\ m < Len(P) + 1
                                   /\ Append(P, f)[m] = P[m]
         /\ \A m \in 1 .. Len(Append(P, f)) : m = Len(P) + 1 \/ m \in 1 .. Len(P)
OBVIOUS

\* How the client's streams change with a frame f it sends.
Asks(A, B, f) ==
  /\ \A k \in 1 .. Len(A) :
       /\ k \in 1 .. Len(B) /\ B[k].sid = A[k].sid /\ (A[k].fin => B[k].fin)
       /\ B[k].pushed = IF f.cmd = "PSH" /\ Of(f) = k THEN A[k].pushed + 1 ELSE A[k].pushed
  /\ f.cmd = "SYN" => /\ Len(B) = Len(A) + 1 /\ Of(f) = Len(A) + 1
                      /\ B[Len(A) + 1].sid = f.sid /\ B[Len(A) + 1].pushed = 0
  /\ f.cmd # "SYN" => Len(B) = Len(A)
  /\ f.cmd \in {"PSH", "FIN"} =>
       /\ Of(f) \in 1 .. Len(A) /\ A[Of(f)].sid = f.sid
       /\ \A j \in 1 .. Len(A) : A[j].sid = f.sid => j <= Of(f)
  /\ f.cmd = "FIN" => B[Of(f)].fin
  /\ f.cmd = "PSH" => No(f) = A[Of(f)].pushed + 1

\* What the client sends keeps its order.
LEMMA WireAppend ==
  ASSUME NEW P \in Seq(Frames), NEW f \in Frames, NEW S \in Seq(Streams), NEW A \in Seq(Requests),
         NEW B \in Seq(Requests), WireOK(P, S, A, TRUE), Asks(A, B, f)
  PROVE  WireOK(Append(P, f), S, B, TRUE)
<1> DEFINE Q == Append(P, f)
           z == Len(P) + 1
<1>1. /\ Len(P) \in Nat /\ Q[z] = f /\ z \in 1 .. Len(Q)
      /\ \A m \in 1 .. Len(P) : m \in 1 .. Len(Q) /\ m < z /\ Q[m] = P[m]
      /\ \A m \in 1 .. Len(Q) : m = z \/ m \in 1 .. Len(P)
  BY Longer
<1>2. /\ \A m \in 1 .. Len(P) : Of(P[m]) \in Nat /\ No(P[m]) \in Nat
      /\ \A m \in 1 .. Len(P) : ~(z < m)
      /\ ~(z < z) /\ z \in Nat
  BY <1>1, MarkOfFrame
<1> HIDE DEF Q, z
<1>3. /\ Len(S) \in Nat /\ Len(A) \in Nat /\ Len(B) \in Nat
      /\ \A k \in 1 .. Len(A) : A[k].pushed \in Nat
  <2>1. \A k \in 1 .. Len(A) : A[k] \in Requests BY ElementOf
  <2> QED BY <2>1 DEF Requests
<1>4. SidOK(S, A, TRUE) /\ SynOK(P, S, A, TRUE) /\ NameOK(P, S, A, TRUE) /\ OrderOK(P)
  BY DEF WireOK
<1>5. /\ \A k \in 1 .. Len(A) : k \in 1 .. Len(B) /\ B[k].sid = A[k].sid /\ (A[k].fin => B[k].fin)
                                /\ B[k].pushed \in Nat /\ A[k].pushed <= B[k].pushed
      /\ Len(A) <= Len(B)
  BY <1>3 DEF Asks
<1>6. \A m \in 1 .. Len(P) : P[m].cmd \in {"SYN", "PSH", "FIN"} =>
        /\ Of(P[m]) \in 1 .. Len(A) /\ Of(P[m]) <= Len(B)
        /\ A[Of(P[m])].sid = P[m].sid /\ B[Of(P[m])].sid = P[m].sid
  <2>1. \A m \in 1 .. Len(P) : P[m].cmd = "SYN" => Of(P[m]) > 0 /\ Of(P[m]) <= Len(A) /\ A[Of(P[m])].sid = P[m].sid
    BY <1>2, <1>3, <1>4 DEF SynOK
  <2>2. \A m \in 1 .. Len(P) : P[m].cmd \in {"PSH", "FIN"} =>
          Of(P[m]) > 0 /\ Of(P[m]) <= Len(A) /\ A[Of(P[m])].sid = P[m].sid
    BY <1>4 DEF NameOK
  <2>3. \A m \in 1 .. Len(P) : P[m].cmd \in {"SYN", "PSH", "FIN"} => Of(P[m]) \in 1 .. Len(A)
    BY <1>2, <1>3, <2>1, <2>2
  <2> QED BY <1>2, <1>3, <1>5, <2>1, <2>2, <2>3
<1>7. SidOK(S, B, TRUE)
  <2>1. \A j \in 1 .. Len(S) : j \in 1 .. Len(A) BY <1>3, <1>4 DEF SidOK
  <2> QED BY <1>3, <1>4, <1>5, <2>1 DEF SidOK
<1>8. Len(S) <= Len(A) BY <1>4 DEF SidOK
<1>9. SynOK(Q, S, B, TRUE)
  <2>1. ASSUME NEW m \in 1 .. Len(Q), Q[m].cmd = "SYN"
        PROVE  Of(Q[m]) > Len(S) /\ Of(Q[m]) <= Len(B) /\ B[Of(Q[m])].sid = Q[m].sid
    <3>1. CASE m = z BY <1>1, <1>3, <1>8, <2>1, <3>1 DEF Asks
    <3>2. CASE m \in 1 .. Len(P) BY <1>1, <1>4, <1>6, <2>1, <3>2 DEF SynOK
    <3> QED BY <1>1, <3>1, <3>2
  <2>2. ASSUME NEW m \in 1 .. Len(Q), NEW n \in 1 .. Len(Q), Q[m].cmd = "SYN", Q[n].cmd = "SYN", m < n
        PROVE  Of(Q[m]) < Of(Q[n])
    <3>1. m \in 1 .. Len(P) BY <1>1, <1>2, <2>2
    <3>2. CASE n = z
      <4>1. Of(f) = Len(A) + 1 /\ Of(P[m]) \in 1 .. Len(A) BY <1>1, <1>6, <2>2, <3>1, <3>2 DEF Asks
      <4> QED BY <1>1, <1>3, <3>1, <3>2, <4>1
    <3>3. CASE n \in 1 .. Len(P) BY <1>1, <1>4, <2>2, <3>1, <3>3 DEF SynOK
    <3> QED BY <1>1, <3>2, <3>3
  <2>3. ASSUME NEW k \in Len(S) + 1 .. Len(B) PROVE \E m \in 1 .. Len(Q) : Q[m].cmd = "SYN" /\ Of(Q[m]) = k
    <3>1. CASE k \in Len(S) + 1 .. Len(A)
      <4>1. PICK m \in 1 .. Len(P) : P[m].cmd = "SYN" /\ Of(P[m]) = k BY <1>4, <3>1 DEF SynOK
      <4> QED BY <1>1, <4>1
    <3>2. CASE k \notin Len(S) + 1 .. Len(A)
      <4>1. Len(B) # Len(A) BY <1>3, <3>2
      <4>2. f.cmd = "SYN" /\ Len(B) = Len(A) + 1 /\ Of(f) = Len(A) + 1 BY <4>1 DEF Asks
      <4>3. k = Len(A) + 1 BY <1>3, <3>2, <4>2
      <4> QED BY <1>1, <4>2, <4>3
    <3> QED BY <3>1, <3>2
  <2> QED BY <2>1, <2>2, <2>3 DEF SynOK
<1>10. NameOK(Q, S, B, TRUE)
  <2>1. SUFFICES ASSUME NEW m \in 1 .. Len(Q), Q[m].cmd \in {"PSH", "FIN"}
        PROVE /\ Of(Q[m]) > 0
              /\ Of(Q[m]) <= Len(B) /\ B[Of(Q[m])].sid = Q[m].sid
              /\ Q[m].cmd = "FIN" => B[Of(Q[m])].fin
              /\ Q[m].cmd = "PSH" => No(Q[m]) <= B[Of(Q[m])].pushed
              /\ \A n \in 1 .. Len(Q) : Q[n].cmd = "SYN" /\ Q[n].sid = Q[m].sid =>
                   (n < m <=> Of(Q[n]) <= Of(Q[m]))
              /\ \A j \in 1 .. Len(S) : S[j].sid = Q[m].sid => j <= Of(Q[m])
              /\ \/ Of(Q[m]) <= Len(S) /\ S[Of(Q[m])].sid = Q[m].sid
                 \/ \E n \in 1 .. Len(Q) : n < m /\ Q[n].cmd = "SYN" /\ Of(Q[n]) = Of(Q[m])
    BY DEF NameOK
  <2>2. CASE m \in 1 .. Len(P)
    <3>1. Q[m] = P[m] /\ P[m].cmd \in {"PSH", "FIN"} BY <1>1, <2>1, <2>2
    <3>2. /\ Of(P[m]) > 0
          /\ P[m].cmd = "FIN" => A[Of(P[m])].fin
          /\ P[m].cmd = "PSH" => No(P[m]) <= A[Of(P[m])].pushed
          /\ \A n \in 1 .. Len(P) : P[n].cmd = "SYN" /\ P[n].sid = P[m].sid =>
               (n < m <=> Of(P[n]) <= Of(P[m]))
          /\ \A j \in 1 .. Len(S) : S[j].sid = P[m].sid => j <= Of(P[m])
          /\ \/ Of(P[m]) <= Len(S) /\ S[Of(P[m])].sid = P[m].sid
             \/ \E n \in 1 .. Len(P) : n < m /\ P[n].cmd = "SYN" /\ Of(P[n]) = Of(P[m])
      BY <1>4, <2>2, <3>1 DEF NameOK
    <3>3. Of(P[m]) \in 1 .. Len(A) /\ B[Of(P[m])].sid = P[m].sid /\ Of(P[m]) <= Len(B)
      BY <1>6, <2>2, <3>1
    <3>4. /\ P[m].cmd = "FIN" => B[Of(P[m])].fin
          /\ P[m].cmd = "PSH" => No(P[m]) <= B[Of(P[m])].pushed
      BY <1>2, <1>3, <1>5, <2>2, <3>2, <3>3
    <3>5. ASSUME NEW n \in 1 .. Len(Q), Q[n].cmd = "SYN", Q[n].sid = P[m].sid
          PROVE  n < m <=> Of(Q[n]) <= Of(P[m])
      <4>1. CASE n \in 1 .. Len(P) BY <1>1, <3>2, <3>5, <4>1
      <4>2. CASE n = z
        <5>1. Of(f) = Len(A) + 1 BY <1>1, <3>5, <4>2 DEF Asks
        <5>2. ~(Of(f) <= Of(P[m])) BY <1>3, <3>3, <5>1
        <5> QED BY <1>1, <1>2, <2>2, <4>2, <5>2
      <4> QED BY <1>1, <4>1, <4>2
    <3>6. \/ Of(P[m]) <= Len(S) /\ S[Of(P[m])].sid = P[m].sid
          \/ \E n \in 1 .. Len(Q) : n < m /\ Q[n].cmd = "SYN" /\ Of(Q[n]) = Of(P[m])
      BY <1>1, <3>2
    <3> QED BY <3>1, <3>2, <3>3, <3>4, <3>5, <3>6
  <2>3. CASE m = z
    <3>1. Q[m] = f /\ f.cmd \in {"PSH", "FIN"} BY <1>1, <2>1, <2>3
    <3>2. /\ Of(f) \in 1 .. Len(A) /\ A[Of(f)].sid = f.sid
          /\ \A j \in 1 .. Len(A) : A[j].sid = f.sid => j <= Of(f)
          /\ f.cmd = "FIN" => B[Of(f)].fin
          /\ f.cmd = "PSH" => No(f) = A[Of(f)].pushed + 1 /\ B[Of(f)].pushed = A[Of(f)].pushed + 1
      BY <3>1 DEF Asks
    <3>3. Of(f) > 0 /\ Of(f) <= Len(B) /\ B[Of(f)].sid = f.sid BY <1>3, <1>5, <3>2
    <3>4. f.cmd = "PSH" => No(f) <= B[Of(f)].pushed BY <1>3, <3>2
    <3>5. ASSUME NEW n \in 1 .. Len(Q), Q[n].cmd = "SYN", Q[n].sid = f.sid
          PROVE  n < z /\ Of(Q[n]) <= Of(f)
      <4>1. n \in 1 .. Len(P) BY <1>1, <3>1, <3>5
      <4> QED BY <1>1, <1>6, <3>2, <3>5, <4>1
    <3>6. ASSUME NEW j \in 1 .. Len(S), S[j].sid = f.sid PROVE j <= Of(f)
      <4>1. j \in 1 .. Len(A) /\ A[j].sid = f.sid BY <1>3, <1>4, <3>6 DEF SidOK
      <4> QED BY <3>2, <4>1
    <3>7. \/ Of(f) <= Len(S) /\ S[Of(f)].sid = f.sid
          \/ \E n \in 1 .. Len(Q) : n < z /\ Q[n].cmd = "SYN" /\ Of(Q[n]) = Of(f)
      <4>1. CASE Of(f) <= Len(S)
        <5>1. Of(f) \in 1 .. Len(S) BY <1>3, <3>2, <4>1
        <5> QED BY <1>4, <3>2, <4>1, <5>1 DEF SidOK
      <4>2. CASE ~(Of(f) <= Len(S))
        <5>1. Of(f) \in Len(S) + 1 .. Len(A) BY <1>3, <3>2, <4>2
        <5>2. PICK n \in 1 .. Len(P) : P[n].cmd = "SYN" /\ Of(P[n]) = Of(f) BY <1>4, <5>1 DEF SynOK
        <5> QED BY <1>1, <5>2
      <4> QED BY <4>1, <4>2
    <3> QED BY <2>3, <3>1, <3>2, <3>3, <3>4, <3>5, <3>6, <3>7
  <2> QED BY <1>1, <2>2, <2>3
<1>11. OrderOK(Q)
  <2>1. SUFFICES ASSUME NEW m \in 1 .. Len(Q), NEW n \in 1 .. Len(Q), Q[m].cmd = "PSH",
                        Q[n].cmd = "PSH", Of(Q[m]) = Of(Q[n]), m < n
                 PROVE  No(Q[m]) < No(Q[n])
    BY DEF OrderOK
  <2>2. m \in 1 .. Len(P) /\ Q[m] = P[m] BY <1>1, <1>2, <2>1
  <2>3. CASE n \in 1 .. Len(P) BY <1>1, <1>4, <2>1, <2>2, <2>3 DEF OrderOK
  <2>4. CASE n = z
    <3>1. No(P[m]) <= A[Of(f)].pushed BY <1>1, <1>4, <2>1, <2>2, <2>4 DEF NameOK
    <3>2. No(f) = A[Of(f)].pushed + 1 /\ Of(f) \in 1 .. Len(A) BY <1>1, <2>1, <2>4 DEF Asks
    <3> QED BY <1>1, <1>2, <1>3, <2>2, <2>4, <3>1, <3>2
  <2> QED BY <1>1, <2>3, <2>4
<1> QED BY <1>7, <1>9, <1>10, <1>11 DEF WireOK, Q

\* The chunks that follow, with a frame more.
LEMMA FollowsAppend ==
  ASSUME NEW P \in Seq(Frames), NEW f \in Frames, NEW A \in Seq(Requests),
         NEW B \in Seq(Requests), NEW k \in Nat \ {0}, NEW d \in Nat, Asks(A, B, f),
         Follows(P, A, TRUE, k, d), k \in 1 .. Len(A) \/ d = 0
  PROVE  Follows(Append(P, f), B, TRUE, k, d)
<1> DEFINE Q == Append(P, f)
           z == Len(P) + 1
<1>1. /\ Len(P) \in Nat /\ Q[z] = f /\ z \in 1 .. Len(Q)
      /\ \A m \in 1 .. Len(P) : m \in 1 .. Len(Q) /\ m < z /\ Q[m] = P[m]
      /\ \A m \in 1 .. Len(Q) : m = z \/ m \in 1 .. Len(P)
  BY Longer
<1>2. Len(A) \in Nat /\ Len(B) \in Nat /\ \A j \in 1 .. Len(A) : A[j].pushed \in Nat
  <2>1. \A j \in 1 .. Len(A) : A[j] \in Requests BY ElementOf
  <2> QED BY <2>1 DEF Requests
<1> HIDE DEF Q, z
<1>3. f.cmd = "PSH" /\ Of(f) = k =>
        k \in 1 .. Len(A) /\ No(f) = A[k].pushed + 1 /\ B[k].pushed = A[k].pushed + 1
  BY DEF Asks
<1>4. ASSUME NEW m \in 1 .. Len(Q), Q[m].cmd = "PSH", Of(Q[m]) = k
      PROVE  \/ No(Q[m]) = d + 1
             \/ \E n \in 1 .. Len(Q) : n < m /\ Q[n].cmd = "PSH" /\ Of(Q[n]) = k /\ No(Q[n]) + 1 = No(Q[m])
  <2>1. CASE m \in 1 .. Len(P)
    <3>1. \/ No(P[m]) = d + 1
          \/ \E n \in 1 .. Len(P) : n < m /\ P[n].cmd = "PSH" /\ Of(P[n]) = k /\ No(P[n]) + 1 = No(P[m])
      BY <1>1, <1>4, <2>1 DEF Follows
    <3> QED BY <1>1, <2>1, <3>1
  <2>2. CASE m = z
    <3>1. k \in 1 .. Len(A) /\ No(f) = A[k].pushed + 1 BY <1>1, <1>3, <1>4, <2>2
    <3>2. \/ A[k].pushed = d
          \/ \E n \in 1 .. Len(P) : P[n].cmd = "PSH" /\ Of(P[n]) = k /\ No(P[n]) = A[k].pushed
      BY <3>1 DEF Follows
    <3> QED BY <1>1, <2>2, <3>1, <3>2
  <2> QED BY <1>1, <2>1, <2>2
<1>5. ASSUME k \in 1 .. Len(B)
      PROVE  \/ B[k].pushed = d
             \/ \E m \in 1 .. Len(Q) : Q[m].cmd = "PSH" /\ Of(Q[m]) = k /\ No(Q[m]) = B[k].pushed
  <2>1. CASE f.cmd = "PSH" /\ Of(f) = k BY <1>1, <1>3, <2>1
  <2>2. CASE ~(f.cmd = "PSH" /\ Of(f) = k) /\ k \in 1 .. Len(A)
    <3>1. B[k].pushed = A[k].pushed BY <2>2 DEF Asks
    <3>2. \/ A[k].pushed = d
          \/ \E n \in 1 .. Len(P) : P[n].cmd = "PSH" /\ Of(P[n]) = k /\ No(P[n]) = A[k].pushed
      BY <2>2 DEF Follows
    <3> QED BY <1>1, <3>1, <3>2
  <2>3. CASE k \notin 1 .. Len(A)
    <3>1. d = 0 /\ f.cmd = "SYN" /\ Len(B) = Len(A) + 1
      BY <2>3, <1>5 DEF Asks
    <3>2. k = Len(A) + 1 BY <1>2, <1>5, <2>3, <3>1
    <3> QED BY <3>1, <3>2 DEF Asks
  <2> QED BY <2>1, <2>2, <2>3
<1> QED BY <1>4, <1>5 DEF Follows, Q

\* Q is the beginning of P.
Begins(Q, P) == Len(Q) <= Len(P) /\ \A m \in 1 .. Len(Q) : Q[m] = P[m]

\* The places of a beginning.
LEMMA Shorter ==
  ASSUME NEW T, NEW P \in Seq(T), NEW Q \in Seq(T), Begins(Q, P)
  PROVE  /\ \A m \in 1 .. Len(Q) : m \in 1 .. Len(P) /\ Q[m] = P[m]
         /\ \A m \in 1 .. Len(Q), n \in 1 .. Len(P) : n <= m => n \in 1 .. Len(Q)
BY DEF Begins

\* When the client is gone only the frame that was being read is left, and when
\* the session is over nothing is.
LEMMA WireCut ==
  ASSUME NEW P \in Seq(Frames), NEW Q \in Seq(Frames), Begins(Q, P), NEW S, NEW A, NEW B, NEW lis,
         WireOK(P, S, A, lis)
  PROVE  /\ WireOK(Q, S, B, FALSE)
         /\ \A k, d : Follows(P, A, lis, k, d) => Follows(Q, B, FALSE, k, d)
<1>1. /\ \A m \in 1 .. Len(Q) : m \in 1 .. Len(P) /\ Q[m] = P[m]
      /\ \A m \in 1 .. Len(Q), n \in 1 .. Len(P) : n < m => n \in 1 .. Len(Q)
  <2>1. Len(P) \in Nat /\ Len(Q) \in Nat BY MarkOfFrame
  <2>2. \A m \in 1 .. Len(Q), n \in 1 .. Len(P) : n < m => n <= m BY <2>1
  <2> QED BY <2>2, Shorter
<1>2. SynOK(P, S, A, lis) /\ NameOK(P, S, A, lis) /\ OrderOK(P) BY DEF WireOK
<1>3. SidOK(S, B, FALSE) BY DEF SidOK
<1>4. SynOK(Q, S, B, FALSE) BY <1>1, <1>2 DEF SynOK
<1>5. OrderOK(Q) BY <1>1, <1>2 DEF OrderOK
<1>6. NameOK(Q, S, B, FALSE)
  <2>1. SUFFICES ASSUME NEW m \in 1 .. Len(Q), Q[m].cmd \in {"PSH", "FIN"}
        PROVE /\ Of(Q[m]) > 0
              /\ \A n \in 1 .. Len(Q) : Q[n].cmd = "SYN" /\ Q[n].sid = Q[m].sid =>
                   (n < m <=> Of(Q[n]) <= Of(Q[m]))
              /\ \A j \in 1 .. Len(S) : S[j].sid = Q[m].sid => j <= Of(Q[m])
              /\ \/ Of(Q[m]) <= Len(S) /\ S[Of(Q[m])].sid = Q[m].sid
                 \/ \E n \in 1 .. Len(Q) : n < m /\ Q[n].cmd = "SYN" /\ Of(Q[n]) = Of(Q[m])
    BY DEF NameOK
  <2>2. m \in 1 .. Len(P) /\ Q[m] = P[m] BY <1>1
  <2>3. /\ Of(P[m]) > 0
        /\ \A n \in 1 .. Len(P) : P[n].cmd = "SYN" /\ P[n].sid = P[m].sid =>
             (n < m <=> Of(P[n]) <= Of(P[m]))
        /\ \A j \in 1 .. Len(S) : S[j].sid = P[m].sid => j <= Of(P[m])
        /\ \/ Of(P[m]) <= Len(S) /\ S[Of(P[m])].sid = P[m].sid
           \/ \E n \in 1 .. Len(P) : n < m /\ P[n].cmd = "SYN" /\ Of(P[n]) = Of(P[m])
    BY <1>2, <2>1, <2>2 DEF NameOK
  <2> QED BY <1>1, <2>2, <2>3
<1>7. ASSUME NEW k, NEW d, Follows(P, A, lis, k, d) PROVE Follows(Q, B, FALSE, k, d)
  <2>1. SUFFICES ASSUME NEW m \in 1 .. Len(Q), Q[m].cmd = "PSH", Of(Q[m]) = k
        PROVE  \/ No(Q[m]) = d + 1
               \/ \E n \in 1 .. Len(Q) : n < m /\ Q[n].cmd = "PSH" /\ Of(Q[n]) = k /\ No(Q[n]) + 1 = No(Q[m])
    BY DEF Follows
  <2>2. \/ No(P[m]) = d + 1
        \/ \E n \in 1 .. Len(P) : n < m /\ P[n].cmd = "PSH" /\ Of(P[n]) = k /\ No(P[n]) + 1 = No(P[m])
    BY <1>1, <1>7, <2>1 DEF Follows
  <2> QED BY <1>1, <2>1, <2>2
<1> QED BY <1>3, <1>4, <1>5, <1>6, <1>7 DEF WireOK

-----------------------------------------------------------------------------
(* The answers of a stream *)

\* The answer of another stream.
LEMMA OtherAnswer ==
  ASSUME NEW L \in Seq(Answers), NEW M \in Seq(Answers), NEW i, NEW x, NEW on, Begins(L, M),
         \A n \in 1 .. Len(M) : n \in 1 .. Len(L) \/ M[n].i # i,
         LogOK(L, i, x), StateOK(L, i, x, on)
  PROVE  LogOK(M, i, x) /\ StateOK(M, i, x, on)
<1>1. \A m \in 1 .. Len(L) : m \in 1 .. Len(M) /\ M[m] = L[m] BY Shorter
<1>2. \A n \in 1 .. Len(M) : M[n].i = i => n \in 1 .. Len(L) /\ M[n] = L[n] BY <1>1
<1>3. \A d : Has(L, i, d) => Has(M, i, d) BY <1>1 DEF Has, From
<1>4. FinOK(M, i, x) BY <1>2, <1>3 DEF LogOK, FinOK, From
<1>5. AckOK(M, i) BY <1>2 DEF LogOK, AckOK, From
<1>6. DataOK(M, i, x)
  <2>1. SUFFICES ASSUME NEW n \in 1 .. Len(M), From(M, n, i, "PSH")
        PROVE /\ \E m \in 1 .. Len(M) : m < n /\ From(M, m, i, "SYNACK")
              /\ \A m \in 1 .. Len(M) : From(M, m, i, "PSH") /\ m < n => M[m].n < M[n].n
              /\ M[n].n > 1 => \E m \in 1 .. Len(M) : m < n /\ From(M, m, i, "PSH") /\ M[m].n + 1 = M[n].n
              /\ M[n].n <= x.tread
    BY DEF DataOK
  <2>2. n \in 1 .. Len(L) /\ M[n] = L[n] /\ From(L, n, i, "PSH") BY <1>2, <2>1 DEF From
  <2>3. /\ \E m \in 1 .. Len(L) : m < n /\ From(L, m, i, "SYNACK")
        /\ \A m \in 1 .. Len(L) : From(L, m, i, "PSH") /\ m < n => L[m].n < L[n].n
        /\ L[n].n > 1 => \E m \in 1 .. Len(L) : m < n /\ From(L, m, i, "PSH") /\ L[m].n + 1 = L[n].n
        /\ L[n].n <= x.tread
    BY <2>2 DEF LogOK, DataOK
  <2> QED BY <1>1, <1>2, <2>2, <2>3 DEF From
<1>7. StateOK(M, i, x, on) BY <1>1, <1>2, <1>3 DEF StateOK, From
<1> QED BY <1>4, <1>5, <1>6, <1>7 DEF LogOK

\* SYNACK, a chunk, FIN or an error of the stream itself.
LEMMA OwnAnswer ==
  ASSUME NEW L \in Seq(Answers), NEW f \in Answers, NEW i, NEW x \in Streams, NEW y \in Streams,
         f.i = i, x.at # "done", LogOK(L, i, x), StateOK(L, i, x, TRUE),
         \/ /\ f.cmd \in {"SYNACK", "SYNACK_ERROR"} /\ Unanswered(x) /\ ~Unanswered(y) /\ y.tread = 0
            /\ f.cmd = "SYNACK_ERROR" => y.at = "done"
         \/ /\ f.cmd = "PSH" /\ ~Unanswered(x) /\ ~Unanswered(y) /\ y.at \notin {"first", "connect"}
            /\ f.n = x.tread + 1 /\ y.tread = f.n
         \/ /\ f.cmd = "PSH" /\ ~Unanswered(x) /\ ~Unanswered(y)
            /\ f.n = 0 /\ x.tread = 0 /\ y.tread = 0 /\ \A n \in 1 .. Len(L) : ~From(L, n, i, "PSH")
         \/ f.cmd = "FIN" /\ y.at = "done" /\ y.tread = x.tread
  PROVE  LogOK(Append(L, f), i, y) /\ StateOK(Append(L, f), i, y, TRUE)
<1> DEFINE M == Append(L, f)
           z == Len(L) + 1
<1>1. /\ Len(L) \in Nat /\ M[z] = f /\ z \in 1 .. Len(M)
      /\ \A m \in 1 .. Len(L) : m \in 1 .. Len(M) /\ m < z /\ M[m] = L[m]
      /\ \A m \in 1 .. Len(M) : m = z \/ m \in 1 .. Len(L)
  BY Longer
<1>2. z \in Nat /\ \A m \in 1 .. Len(L) : ~(z < m) /\ m <= z
  BY <1>1
<1> HIDE DEF M, z
<1>3. x.tread \in Nat /\ y.tread \in Nat /\ f.n \in Nat /\ (Unanswered(x) => x.tread = 0)
  BY DEF Streams, Answers, StateOK, Unanswered
<1>4. \A n \in 1 .. Len(L) : ~From(L, n, i, "FIN") BY DEF LogOK, FinOK
<1>5. \A d : Has(L, i, d) => Has(M, i, d) BY <1>1 DEF Has, From
<1>6. f.cmd = "PSH" => Has(M, i, f.n) BY <1>1 DEF Has, From
<1>7. \A d \in 1 .. x.tread : Has(M, i, d) BY <1>5 DEF StateOK
<1>8. \A d \in 1 .. y.tread : Has(M, i, d)
  <2>1. y.tread = x.tread \/ y.tread = 0 \/ (y.tread = x.tread + 1 /\ Has(M, i, y.tread)) BY <1>6
  <2>2. CASE y.tread = x.tread \/ y.tread = 0 BY <1>3, <1>7, <2>2
  <2>3. CASE y.tread = x.tread + 1 /\ Has(M, i, y.tread)
    <3>1. \A d \in 1 .. y.tread : d \in 1 .. x.tread \/ d = y.tread BY <1>3, <2>3
    <3> QED BY <1>7, <2>3, <3>1
  <2> QED BY <2>1, <2>2, <2>3
<1>9. FinOK(M, i, y)
  <2>1. SUFFICES ASSUME NEW n \in 1 .. Len(M), From(M, n, i, "FIN")
        PROVE  y.at = "done" /\ \A m \in 1 .. Len(M) : M[m].i = i => m <= n
    BY <1>8 DEF FinOK
  <2>2. n = z BY <1>1, <1>4, <2>1 DEF From
  <2> QED BY <1>1, <1>2, <2>1, <2>2 DEF From
<1>10. AckOK(M, i)
  <2>1. SUFFICES ASSUME NEW n \in 1 .. Len(M), From(M, n, i, "SYNACK"), NEW m \in 1 .. Len(M), M[m].i = i
        PROVE  n <= m
    BY DEF AckOK
  <2>2. CASE n = z
    <3>1. \A j \in 1 .. Len(L) : L[j].i # i BY <1>1, <2>1, <2>2 DEF From, StateOK
    <3> QED BY <1>1, <1>2, <2>1, <2>2, <3>1
  <2>3. CASE n \in 1 .. Len(L)
    <3>1. CASE m = z BY <1>2, <2>3, <3>1
    <3>2. CASE m \in 1 .. Len(L) BY <1>1, <2>1, <2>3, <3>2 DEF LogOK, AckOK, From
    <3> QED BY <1>1, <3>1, <3>2
  <2> QED BY <1>1, <2>2, <2>3
<1>11. DataOK(M, i, y)
  <2>1. SUFFICES ASSUME NEW n \in 1 .. Len(M), From(M, n, i, "PSH")
        PROVE /\ \E m \in 1 .. Len(M) : m < n /\ From(M, m, i, "SYNACK")
              /\ \A m \in 1 .. Len(M) : From(M, m, i, "PSH") /\ m < n => M[m].n < M[n].n
              /\ M[n].n > 1 => \E m \in 1 .. Len(M) : m < n /\ From(M, m, i, "PSH") /\ M[m].n + 1 = M[n].n
              /\ M[n].n <= y.tread
    BY DEF DataOK
  <2>2. CASE n \in 1 .. Len(L)
    <3>1. M[n] = L[n] /\ From(L, n, i, "PSH") BY <1>1, <2>1, <2>2 DEF From
    <3>2. /\ \E m \in 1 .. Len(L) : m < n /\ From(L, m, i, "SYNACK")
          /\ \A m \in 1 .. Len(L) : From(L, m, i, "PSH") /\ m < n => L[m].n < L[n].n
          /\ L[n].n > 1 => \E m \in 1 .. Len(L) : m < n /\ From(L, m, i, "PSH") /\ L[m].n + 1 = L[n].n
          /\ L[n].n <= x.tread /\ L[n].n \in Nat
      <4>1. L[n] \in Answers BY <2>2, ElementOf
      <4> QED BY <2>2, <3>1, <4>1 DEF LogOK, DataOK, Answers
    <3>3. ~Unanswered(x) BY <2>2, <3>1 DEF StateOK, From
    <3>4. x.tread <= y.tread BY <1>3, <3>3
    <3>5. \A m \in 1 .. Len(M) : m < n => m \in 1 .. Len(L) /\ M[m] = L[m] BY <1>1, <1>2, <2>2
    <3>6. \A m \in 1 .. Len(M) : From(M, m, i, "PSH") /\ m < n => M[m].n < M[n].n
      BY <3>1, <3>2, <3>5 DEF From
    <3>7. L[n].n <= y.tread BY <1>3, <3>2, <3>4
    <3> QED BY <1>1, <3>1, <3>2, <3>6, <3>7 DEF From
  <2>3. CASE n = z
    <3>1. M[n] = f /\ f.cmd = "PSH" /\ ~Unanswered(x) /\ f.n <= y.tread
      BY <1>1, <1>3, <2>1, <2>3 DEF From
    <3>2. PICK a \in 1 .. Len(L) : From(L, a, i, "SYNACK") BY <3>1 DEF StateOK
    <3>3. \E m \in 1 .. Len(M) : m < n /\ From(M, m, i, "SYNACK") BY <1>1, <2>3, <3>2 DEF From
    <3>4. ASSUME NEW m \in 1 .. Len(M), From(M, m, i, "PSH"), m < n PROVE M[m].n < M[n].n
      <4>1. m \in 1 .. Len(L) /\ M[m] = L[m] /\ From(L, m, i, "PSH") BY <1>1, <1>2, <2>3, <3>4 DEF From
      <4>2. f.n = x.tread + 1 BY <3>1, <4>1
      <4>3. L[m].n <= x.tread /\ L[m].n \in Nat
        <5>1. L[m] \in Answers BY <4>1, ElementOf
        <5> QED BY <4>1, <5>1 DEF LogOK, DataOK, Answers
      <4> QED BY <1>3, <3>1, <4>1, <4>2, <4>3
    <3>5. ASSUME f.n > 1 PROVE \E m \in 1 .. Len(M) : m < n /\ From(M, m, i, "PSH") /\ M[m].n + 1 = f.n
      <4>1. f.n = x.tread + 1 /\ x.tread \in 1 .. x.tread BY <1>3, <3>1, <3>5
      <4>2. PICK m \in 1 .. Len(L) : From(L, m, i, "PSH") /\ L[m].n = x.tread BY <4>1 DEF StateOK, Has
      <4> QED BY <1>1, <2>3, <4>1, <4>2 DEF From
    <3> QED BY <3>1, <3>3, <3>4, <3>5
  <2> QED BY <1>1, <2>2, <2>3
<1>12. StateOK(M, i, y, TRUE)
  <2>1. y.at \in {"first", "connect"} => y.tread = 0 BY <1>3
  <2>2. ~Unanswered(y) BY DEF Unanswered
  <2>3. ASSUME y.at # "done" PROVE \E n \in 1 .. Len(M) : From(M, n, i, "SYNACK")
    <3>1. CASE f.cmd = "SYNACK" BY <1>1, <3>1 DEF From
    <3>2. CASE f.cmd = "PSH"
      <4>1. PICK a \in 1 .. Len(L) : From(L, a, i, "SYNACK") BY <3>2 DEF StateOK
      <4> QED BY <1>1, <4>1 DEF From
    <3> QED BY <2>3, <3>1, <3>2
  <2> QED BY <1>8, <2>1, <2>2, <2>3 DEF StateOK
<1> QED BY <1>9, <1>10, <1>11, <1>12 DEF LogOK, M

\* A step of the stream that answers nothing.
LEMMA NoAnswer ==
  ASSUME NEW L, NEW i, NEW x, NEW y, NEW on, x.at # "done",
         LogOK(L, i, x), StateOK(L, i, x, on), y.tread = x.tread,
         \/ y.at = "done"
         \/ /\ Unanswered(y) <=> Unanswered(x)
            /\ y.at \in {"first", "connect"} => x.at \in {"first", "connect"}
  PROVE  LogOK(L, i, y) /\ StateOK(L, i, y, on)
<1>1. FinOK(L, i, y) BY DEF LogOK, FinOK
<1>2. DataOK(L, i, y) BY DEF LogOK, DataOK
<1>3. StateOK(L, i, y, on) BY DEF StateOK, Unanswered
<1> QED BY <1>1, <1>2, <1>3 DEF LogOK

\* The session ends, and the rest of the answer is lost with it.
LEMMA LogCut ==
  ASSUME NEW L \in Seq(Answers), NEW M \in Seq(Answers), Begins(M, L), NEW i, NEW x, NEW on,
         LogOK(L, i, x), StateOK(L, i, x, on)
  PROVE  LogOK(M, i, x) /\ StateOK(M, i, x, FALSE)
<1>1. /\ \A m \in 1 .. Len(M) : m \in 1 .. Len(L) /\ M[m] = L[m]
      /\ \A m \in 1 .. Len(M), n \in 1 .. Len(L) : n <= m => n \in 1 .. Len(M)
  BY Shorter
<1>2. \A m \in 1 .. Len(M), n \in 1 .. Len(L) : n < m => n \in 1 .. Len(M)
  <2>1. Len(L) \in Nat /\ Len(M) \in Nat BY ElementOf
  <2>2. \A m \in 1 .. Len(M), n \in 1 .. Len(L) : n < m => n <= m BY <2>1
  <2> QED BY <1>1, <2>2
<1>3. FinOK(M, i, x)
  <2>1. SUFFICES ASSUME NEW n \in 1 .. Len(M), From(M, n, i, "FIN")
        PROVE  /\ x.at = "done" /\ \A m \in 1 .. Len(M) : M[m].i = i => m <= n
               /\ \A d \in 1 .. x.tread : Has(M, i, d)
    BY DEF FinOK
  <2>2. n \in 1 .. Len(L) /\ From(L, n, i, "FIN") BY <1>1, <2>1 DEF From
  <2>3. /\ x.at = "done" /\ \A m \in 1 .. Len(L) : L[m].i = i => m <= n
        /\ \A d \in 1 .. x.tread : Has(L, i, d)
    BY <2>2 DEF LogOK, FinOK
  <2>4. ASSUME NEW d \in 1 .. x.tread PROVE Has(M, i, d)
    <3>1. PICK m \in 1 .. Len(L) : From(L, m, i, "PSH") /\ L[m].n = d BY <2>3 DEF Has
    <3>2. m \in 1 .. Len(M) BY <1>1, <2>3, <3>1 DEF From
    <3> QED BY <1>1, <3>1, <3>2 DEF Has, From
  <2> QED BY <1>1, <2>3, <2>4
<1>4. AckOK(M, i) BY <1>1 DEF LogOK, AckOK, From
<1>5. DataOK(M, i, x)
  <2>1. SUFFICES ASSUME NEW n \in 1 .. Len(M), From(M, n, i, "PSH")
        PROVE /\ \E m \in 1 .. Len(M) : m < n /\ From(M, m, i, "SYNACK")
              /\ \A m \in 1 .. Len(M) : From(M, m, i, "PSH") /\ m < n => M[m].n < M[n].n
              /\ M[n].n > 1 => \E m \in 1 .. Len(M) : m < n /\ From(M, m, i, "PSH") /\ M[m].n + 1 = M[n].n
              /\ M[n].n <= x.tread
    BY DEF DataOK
  <2>2. n \in 1 .. Len(L) /\ M[n] = L[n] /\ From(L, n, i, "PSH") BY <1>1, <2>1 DEF From
  <2>3. /\ \E m \in 1 .. Len(L) : m < n /\ From(L, m, i, "SYNACK")
        /\ \A m \in 1 .. Len(L) : From(L, m, i, "PSH") /\ m < n => L[m].n < L[n].n
        /\ L[n].n > 1 => \E m \in 1 .. Len(L) : m < n /\ From(L, m, i, "PSH") /\ L[m].n + 1 = L[n].n
        /\ L[n].n <= x.tread
    BY <2>2 DEF LogOK, DataOK
  <2> QED BY <1>1, <1>2, <2>2, <2>3 DEF From
<1>6. StateOK(M, i, x, FALSE) BY <1>1 DEF StateOK
<1> QED BY <1>3, <1>4, <1>5, <1>6 DEF LogOK

\* What is added to the answers is behind every mark.
LEMMA MarkMore ==
  ASSUME NEW L \in Seq(Answers), NEW M \in Seq(Answers), Begins(L, M), NEW A, NEW k, MarkOK(L, A, k),
         A[k].mark \in Nat, A[k].mark <= Len(L)
  PROVE  MarkOK(M, A, k)
<1>1. \A m \in 1 .. Len(L) : m \in 1 .. Len(M) /\ M[m] = L[m] BY Shorter
<1>2. \A n \in 1 .. Len(M) : n \in 1 .. Len(L) \/ n > A[k].mark
  <2>1. Len(L) \in Nat /\ Len(M) \in Nat BY ElementOf
  <2> QED BY <2>1
<1>3. \A n \in 1 .. Len(M) : M[n].i = k => n > A[k].mark BY <1>1, <1>2 DEF MarkOK
<1>4. ASSUME A[k].careful, NEW j \in 1 .. k - 1, A[j].sid = A[k].sid
      PROVE  \E n \in 1 .. Len(M) : n <= A[k].mark /\ From(M, n, j, "FIN")
  <2>1. PICK n \in 1 .. Len(L) : n <= A[k].mark /\ From(L, n, j, "FIN") BY <1>4 DEF MarkOK
  <2> QED BY <1>1, <2>1 DEF From
<1> QED BY <1>3, <1>4 DEF MarkOK

\* What the client has received stays when the session ends.
LEMMA MarkCut ==
  ASSUME NEW L \in Seq(Answers), NEW M \in Seq(Answers), Begins(M, L), NEW A, NEW k, MarkOK(L, A, k),
         A[k].mark \in Nat, A[k].mark <= Len(M)
  PROVE  MarkOK(M, A, k)
<1>1. \A m \in 1 .. Len(M) : m \in 1 .. Len(L) /\ M[m] = L[m] BY Shorter
<1>2. \A n \in 1 .. Len(L) : n <= A[k].mark => n \in 1 .. Len(M)
  <2>1. Len(L) \in Nat /\ Len(M) \in Nat BY ElementOf
  <2> QED BY <2>1
<1>3. \A n \in 1 .. Len(M) : M[n].i = k => n > A[k].mark BY <1>1 DEF MarkOK
<1>4. ASSUME A[k].careful, NEW j \in 1 .. k - 1, A[j].sid = A[k].sid
      PROVE  \E n \in 1 .. Len(M) : n <= A[k].mark /\ From(M, n, j, "FIN")
  <2>1. PICK n \in 1 .. Len(L) : n <= A[k].mark /\ From(L, n, j, "FIN") BY <1>4 DEF MarkOK
  <2> QED BY <1>1, <1>2, <2>1 DEF From
<1> QED BY <1>3, <1>4 DEF MarkOK

-----------------------------------------------------------------------------
(* Types *)

\* The stream table after what is queued has been written.
Drained(h) ==
  /\ h \in [Sids -> Nat]
  /\ \A s \in Sids : \/ h[s] = handle[s]
                     \/ h[s] = 0 /\ \E k \in 1 .. Len(jobs) : jobs[k].cmd = "FIN" /\ jobs[k].sid = s

LEMMA DrainFacts ==
  ASSUME Types
  PROVE  Drained(apply_outgoing_stream_state)
<1> DEFINE ended == {jobs[k].sid : k \in {k \in 1 .. Len(jobs) : jobs[k].cmd = "FIN"}}
<1>1. apply_outgoing_stream_state = [s \in Sids |-> IF s \in ended THEN 0 ELSE handle[s]]
  BY DEF apply_outgoing_stream_state
<1>2. handle \in [Sids -> Nat] BY DEF Types
<1>3. \A s \in ended : \E k \in 1 .. Len(jobs) : jobs[k].cmd = "FIN" /\ jobs[k].sid = s OBVIOUS
<1> HIDE DEF ended
<1> QED BY <1>1, <1>2, <1>3 DEF Drained

\* Frames the client or the timeouts make.
LEMMA FrameTypes ==
  /\ \A s \in Sids, a, b \in Nat, c \in {"SYN", "PSH", "FIN"} : Frame(c, s, <<a, b>>) \in Frames
  /\ \A c \in {"WASTE", "ALERT"} : Frame(c, 0, Junk) \in Frames
  /\ NoFrame \in Frames
  /\ Garbage \subseteq Frames
  /\ \A f \in Frames : [f EXCEPT !.data = Junk] \in Frames
<1>1. Junk \in Chunk BY DEF Junk, Chunk
<1>2. \A f \in Frames : [f EXCEPT !.data = Junk] \in Frames BY <1>1 DEF Frames
<1>3. \A c \in Commands, s \in Sids : Frame(c, s, Junk) \in Frames
  BY <1>1 DEF Frame, Frames, Commands
<1>4. Garbage \subseteq Frames BY <1>3 DEF Garbage
<1>5. \A c \in {"WASTE", "ALERT"} : Frame(c, 0, Junk) \in Frames BY <1>1 DEF Frame, Frames
<1>6. NoFrame \in Frames BY <1>5 DEF NoFrame
<1>7. \A s \in Sids, a, b \in Nat, c \in {"SYN", "PSH", "FIN"} : Frame(c, s, <<a, b>>) \in Frames
  BY DEF Frame, Frames, Chunk
<1> QED BY <1>2, <1>4, <1>5, <1>6, <1>7

\* What is written reaches the client or is given up.
LEMMA WriteTypes ==
  ASSUME Types, write_frame(jobs)
  PROVE  got' \in Seq(Answers)
<1>1. jobs \in Seq(Answers) /\ got \in Seq(Answers) BY DEF Types
<1>2. got \o jobs \in Seq(Answers) /\ <<>> \in Seq(Answers) BY <1>1, ConcatProperties, EmptySeq
<1> QED BY <1>2 DEF write_frame

\* The steps of the client.
LEMMA ClientTypes ==
  ASSUME Types, Client
  PROVE  Types'
<1>0. wire \in Seq(Frames) /\ asked \in Seq(Requests) /\ got \in Seq(Answers) BY DEF Types
<1>1. \A f \in Frames : Append(wire, f) \in Seq(Frames) BY <1>0
<1>2. ASSUME NEW f \in Frames, Sends(f), asked' \in Seq(Requests) PROVE Types'
  BY <1>1, <1>2 DEF Types, Sends, ClientFrame
<1>3. ASSUME NEW s \in Sids, ClientSyn(s) PROVE Types'
  <2> DEFINE r == [sid |-> s, pushed |-> 0, fin |-> FALSE, mark |-> Len(got),
                   careful |-> \A j \in DOMAIN asked : asked[j].sid = s => SawFin(j)]
  <2>1. r \in Requests
    <3>1. Len(got) \in Nat BY <1>0
    <3> QED BY <3>1, Zenon DEF Requests
  <2>2. asked' = Append(asked, r) BY <1>3 DEF ClientSyn
  <2> HIDE DEF r
  <2>3. asked' \in Seq(Requests) BY <1>0, <2>1, <2>2
  <2>4. Len(asked) + 1 \in Nat BY <1>0
  <2>5. Frame("SYN", s, <<Len(asked) + 1, 0>>) \in Frames BY <2>4, FrameTypes
  <2>6. Sends(Frame("SYN", s, <<Len(asked) + 1, 0>>)) BY <1>3 DEF ClientSyn
  <2> QED BY <1>2, <2>3, <2>5, <2>6
<1>4. ASSUME NEW k \in DOMAIN asked, ClientPsh(k) \/ ClientFin(k) PROVE Types'
  <2>1. k \in 1 .. Len(asked) /\ k \in Nat /\ asked[k] \in Requests BY <1>0, ElementOf
  <2>2. asked[k].sid \in Sids /\ asked[k].pushed \in Nat BY <2>1 DEF Requests
  <2>3. CASE ClientPsh(k)
    <3>1. [asked[k] EXCEPT !.pushed = @ + 1] \in Requests BY <2>1 DEF Requests
    <3>2. asked' = [asked EXCEPT ![k] = [asked[k] EXCEPT !.pushed = @ + 1]] BY <2>3 DEF ClientPsh
    <3>3. asked' \in Seq(Requests) BY <1>0, <2>1, <3>1, <3>2, ExceptSeq
    <3>4. Frame("PSH", asked[k].sid, <<k, asked[k].pushed + 1>>) \in Frames BY <2>1, <2>2, FrameTypes
    <3> QED BY <1>2, <2>3, <3>3, <3>4 DEF ClientPsh
  <2>4. CASE ClientFin(k)
    <3>1. [asked[k] EXCEPT !.fin = TRUE] \in Requests BY <2>1 DEF Requests
    <3>2. asked' = [asked EXCEPT ![k] = [asked[k] EXCEPT !.fin = TRUE]] BY <2>4 DEF ClientFin
    <3>3. asked' \in Seq(Requests) BY <1>0, <2>1, <3>1, <3>2, ExceptSeq
    <3>4. Frame("FIN", asked[k].sid, <<k, 0>>) \in Frames BY <2>1, <2>2, FrameTypes
    <3> QED BY <1>2, <2>4, <3>3, <3>4 DEF ClientFin
  <2> QED BY <1>4, <2>3, <2>4
<1>5. ASSUME NEW c \in {"WASTE", "ALERT"}, ClientOther(c) PROVE Types'
  BY <1>0, <1>2, <1>5, FrameTypes DEF ClientOther
<1>6. CASE ClientShut BY <1>6 DEF ClientShut, ClientFrame, Types
<1>7. CASE ClientReset BY <1>7, EmptySeq DEF ClientReset, Forget, Types
<1> QED BY <1>3, <1>4, <1>5, <1>6, <1>7 DEF Client

\* A stream that has got a chunk, and a new one.
Fed(x, d) == [x EXCEPT !.queue = Append(@, d)]

LEMMA StreamTypes ==
  /\ \A s \in Sids : NewStream(s) \in Streams
  /\ \A x \in Streams, d \in Chunk : Fed(x, d) \in Streams
<1>1. \A s \in Sids : NewStream(s) \in Streams
  <2>1. <<>> \in Seq(Chunk) BY EmptySeq
  <2> QED BY <2>1 DEF NewStream, Streams, Places
<1>2. ASSUME NEW x \in Streams, NEW d \in Chunk PROVE Fed(x, d) \in Streams
  <2>1. x.queue \in Seq(Chunk) BY DEF Streams
  <2>2. Append(x.queue, d) \in Seq(Chunk) BY <2>1
  <2> QED BY <2>2 DEF Streams, Fed
<1> QED BY <1>1, <1>2

-----------------------------------------------------------------------------
(* The handles, and whose the answers are *)

\* The streams of a later state are the old ones and more.
Grows(S, T) ==
  /\ Len(S) <= Len(T)
  /\ \A j \in 1 .. Len(S) : T[j].sid = S[j].sid /\ (S[j].at = "done" => T[j].at = "done")

\* What is written was queued, and what the client has it keeps or forgets.
LEMMA OwnedKept ==
  ASSUME Types, OwnedInv, stream' \in Seq(Streams), Grows(stream, stream'),
         jobs' = <<>> \/ jobs' = jobs, write_frame(jobs) \/ got' = got \/ got' = <<>>
  PROVE  OwnedInv'
<1>0. /\ jobs \in Seq(Answers) /\ got \in Seq(Answers) /\ Len(jobs) \in Nat /\ Len(got) \in Nat
      /\ stream \in Seq(Streams) /\ Len(stream) \in Nat /\ Len(stream') \in Nat
  BY ElementOf DEF Types
<1>1. \A f : Owned(f, stream) => Owned(f, stream')
  <2> SUFFICES ASSUME NEW f, Owned(f, stream) PROVE Owned(f, stream') OBVIOUS
  <2>1. f.i \in 1 .. Len(stream) /\ f.sid = stream[f.i].sid /\ (f.cmd = "FIN" => stream[f.i].at = "done")
    BY DEF Owned
  <2>2. f.i \in 1 .. Len(stream') BY <1>0, <2>1 DEF Grows
  <2> QED BY <2>1, <2>2 DEF Owned, Grows
<1>2. \A n \in 1 .. Len(jobs') : Owned(jobs'[n], stream')
  <2>1. CASE jobs' = <<>>
    <3>1. Len(jobs') = 0 BY <2>1
    <3> QED BY <3>1
  <2>2. CASE jobs' = jobs BY <1>1, <2>2 DEF OwnedInv
  <2> QED BY <2>1, <2>2
<1>3. \A n \in 1 .. Len(got') : Owned(got'[n], stream')
  <2>1. CASE got' = <<>>
    <3>1. Len(got') = 0 BY <2>1
    <3> QED BY <3>1
  <2>2. CASE got' = got BY <1>1, <2>2 DEF OwnedInv
  <2>3. CASE got' = got \o jobs
    <3>1. /\ Len(got \o jobs) = Len(got) + Len(jobs)
          /\ \A n \in 1 .. Len(got) + Len(jobs) :
               (got \o jobs)[n] = IF n <= Len(got) THEN got[n] ELSE jobs[n - Len(got)]
      BY <1>0, ConcatProperties
    <3>2. SUFFICES ASSUME NEW n \in 1 .. Len(got) + Len(jobs) PROVE Owned((got \o jobs)[n], stream')
      BY <2>3, <3>1
    <3>3. CASE n <= Len(got)
      <4>1. n \in 1 .. Len(got) BY <1>0, <3>3
      <4> QED BY <1>1, <3>1, <3>3, <4>1 DEF OwnedInv
    <3>4. CASE ~(n <= Len(got))
      <4>1. n - Len(got) \in 1 .. Len(jobs) BY <1>0, <3>4
      <4> QED BY <1>1, <3>1, <3>4, <4>1 DEF OwnedInv
    <3> QED BY <3>3, <3>4
  <2> QED BY <2>1, <2>2, <2>3 DEF write_frame
<1> QED BY <1>2, <1>3 DEF OwnedInv

\* Handles are dropped.
LEMMA HandleKept ==
  ASSUME HandleInv, Len(stream') = Len(stream), \A j \in Ids : stream'[j].sid = stream[j].sid,
         \A s \in Sids : handle'[s] = handle[s] \/ handle'[s] = 0
  PROVE  HandleInv'
<1>1. Ids' = Ids BY DEF Ids
<1> QED BY <1>1 DEF HandleInv

\* A chunk goes to the queue of the stream that has the handle.
LEMMA Delivery ==
  ASSUME Types, HandleInv, NEW h, Drained(h), NEW s \in Sids, NEW d \in Chunk
  PROVE  /\ h[s] # 0 => h[s] = handle[s] /\ h[s] \in Ids
         /\ h[s] # 0 /\ stream[h[s]].at # "done" =>
              deliver_data(h, s, d) = [stream EXCEPT ![h[s]] = Fed(stream[h[s]], d)]
         /\ ~(h[s] # 0 /\ stream[h[s]].at # "done") => deliver_data(h, s, d) = stream
         /\ deliver_data(h, s, d) \in Seq(Streams)
         /\ Len(deliver_data(h, s, d)) = Len(stream)
         /\ \A j \in Ids : /\ deliver_data(h, s, d)[j].sid = stream[j].sid
                           /\ deliver_data(h, s, d)[j].at = stream[j].at
                           /\ deliver_data(h, s, d)[j].tread = stream[j].tread
                           /\ deliver_data(h, s, d)[j].opening = stream[j].opening
<1>1. stream \in Seq(Streams) BY DEF Types
<1>2. h[s] # 0 => h[s] = handle[s] /\ h[s] \in Ids BY DEF Drained, HandleInv
<1>3. CASE h[s] # 0 /\ stream[h[s]].at # "done"
  <2> DEFINE k == h[s]
             y == Fed(stream[k], d)
  <2>1. deliver_data(h, s, d) = [stream EXCEPT ![k] = y] BY <1>3 DEF deliver_data, Fed
  <2>2. k \in 1 .. Len(stream) BY <1>2, <1>3 DEF Ids
  <2>3. stream[k] \in Streams BY <1>1, <2>2
  <2>4. y \in Streams BY <2>3, StreamTypes
  <2>5. y.sid = stream[k].sid /\ y.at = stream[k].at /\ y.tread = stream[k].tread /\ y.opening = stream[k].opening
    BY <2>3 DEF Streams, Fed
  <2> HIDE DEF y, k
  <2>6. /\ [stream EXCEPT ![k] = y] \in Seq(Streams)
        /\ Len([stream EXCEPT ![k] = y]) = Len(stream)
        /\ \A j \in 1 .. Len(stream) : [stream EXCEPT ![k] = y][j] = IF j = k THEN y ELSE stream[j]
    BY <1>1, <2>2, <2>4, ExceptSeq
  <2> QED BY <1>2, <1>3, <2>1, <2>5, <2>6 DEF Ids, k, y
<1>4. CASE ~(h[s] # 0 /\ stream[h[s]].at # "done")
  BY <1>1, <1>2, <1>4 DEF deliver_data
<1> QED BY <1>3, <1>4

\* What holds of the state wherever the reader is.
BaseInv == Types /\ HandleInv /\ OwnedInv

LEMMA ClientBase ==
  ASSUME BaseInv, Client
  PROVE  BaseInv'
<1>1. Types' BY ClientTypes DEF BaseInv
<1>2. UNCHANGED <<handle, stream, jobs>> /\ (got' = got \/ got' = <<>>)
  BY DEF Client, ClientSyn, ClientPsh, ClientFin, ClientOther, ClientShut, ClientReset, Sends, ClientFrame, Forget
<1>3. HandleInv' BY <1>2 DEF BaseInv, HandleInv, Ids
<1>4. Grows(stream, stream') /\ stream' \in Seq(Streams)
  <2>1. stream \in Seq(Streams) /\ Len(stream) \in Nat BY ElementOf DEF BaseInv, Types
  <2> QED BY <1>2, <2>1 DEF Grows
<1>5. OwnedInv' BY <1>2, <1>4, OwnedKept DEF BaseInv
<1> QED BY <1>1, <1>3, <1>5 DEF BaseInv

\* The steps of the reader.
LEMMA ReaderBase ==
  ASSUME BaseInv, Reading \/ TimeoutInside
  PROVE  BaseInv'
<1> DEFINE h == apply_outgoing_stream_state
<1>0. /\ Types /\ HandleInv /\ OwnedInv /\ stream \in Seq(Streams) /\ Len(stream) \in Nat
      /\ wire \in Seq(Frames) /\ frame \in Frames
  BY ElementOf DEF BaseInv, Types
<1>1. Drained(h) BY <1>0, DrainFacts
<1>2. h \in [Sids -> Nat] /\ \A s \in Sids : h[s] = handle[s] \/ h[s] = 0 BY <1>1 DEF Drained
<1>3. Grows(stream, stream) BY <1>0 DEF Grows
<1>4. wire # <<>> => Tail(wire) \in Seq(Frames) /\ Head(wire) \in Frames BY <1>0, HeadTailProperties
<1>5. <<>> \in Seq(Frames) /\ <<>> \in Seq(Answers) /\ <<>> \in Seq(Requests) BY EmptySeq
<1> HIDE DEF h
<1>6. ASSUME drain_write_jobs, UNCHANGED <<stream, asked, client>>, wire' \in Seq(Frames), frame' \in Frames,
             reader' \in {"settings", "header", "body", "lost", "ended"}, cut' \in BOOLEAN
      PROVE  BaseInv'
  <2>1. write_frame(jobs) /\ jobs' = <<>> /\ handle' = h BY <1>6 DEF drain_write_jobs, Written, h
  <2>2. got' \in Seq(Answers) BY <1>0, <2>1, WriteTypes
  <2>3. Types' BY <1>0, <1>2, <1>5, <1>6, <2>1, <2>2 DEF Types
  <2>4. HandleInv' BY <1>0, <1>2, <1>6, <2>1, HandleKept
  <2>5. OwnedInv' BY <1>0, <1>3, <1>6, <2>1, OwnedKept
  <2> QED BY <2>3, <2>4, <2>5 DEF BaseInv
<1>7. CASE complete_settings_handshake
  <2>1. UNCHANGED <<clientVars, frame, cut, handle, stream, jobs, got>> /\ wire' = Tail(wire) /\ wire # <<>>
        /\ reader' = "header"
    BY <1>7 DEF complete_settings_handshake, read_exact
  <2>2. Types' BY <1>0, <1>4, <2>1 DEF Types, clientVars
  <2>3. HandleInv' /\ OwnedInv' BY <1>0, <2>1 DEF HandleInv, OwnedInv, Ids
  <2> QED BY <2>2, <2>3 DEF BaseInv
<1>8. CASE ReadHeader
  <2>1. frame' \in Frames BY <1>4, <1>8, FrameTypes DEF ReadHeader
  <2> QED BY <1>0, <1>4, <1>6, <1>8, <2>1 DEF ReadHeader, clientVars, Types
<1>9. CASE ReadLostBody
  <2>1. frame' \in Frames BY <1>0, <1>9, FrameTypes DEF ReadLostBody
  <2> QED BY <1>0, <1>4, <1>6, <1>9, <2>1 DEF ReadLostBody, clientVars, Types
<1>10. CASE Poll BY <1>0, <1>6, <1>10 DEF Poll, clientVars, Types
<1>11. CASE TimeoutInside
  <2>1. /\ asked' = <<>> /\ got' = <<>> /\ jobs' = <<>> /\ handle' = h /\ cut' = TRUE
        /\ UNCHANGED <<client, nsent, wire, frame, stream>> /\ reader' \in {"header", "lost"}
    BY <1>11 DEF TimeoutInside, Forget, h
  <2>2. Types' BY <1>0, <1>2, <1>5, <2>1 DEF Types
  <2>3. HandleInv' BY <1>0, <1>2, <2>1, HandleKept
  <2>4. OwnedInv' BY <1>0, <1>3, <2>1, OwnedKept
  <2> QED BY <2>2, <2>3, <2>4 DEF BaseInv
<1>12. ASSUME Return, write_frame(jobs) \/ got' = got PROVE BaseInv'
  <2>1. /\ reader' = "ended" /\ handle' = [s \in Sids |-> 0] /\ jobs' = <<>> /\ wire' = <<>>
        /\ frame' = NoFrame /\ UNCHANGED <<client, asked, cut, stream>>
    BY <1>12 DEF Return, clientVars
  <2>2. got' \in Seq(Answers) BY <1>0, <1>12, WriteTypes DEF Types
  <2>3. Types' BY <1>0, <1>5, <2>1, <2>2, FrameTypes DEF Types
  <2>4. HandleInv' BY <1>0, <2>1, HandleKept
  <2>5. OwnedInv' BY <1>0, <1>3, <1>12, <2>1, OwnedKept
  <2> QED BY <2>3, <2>4, <2>5 DEF BaseInv
<1>13. CASE ReadAlert BY <1>12, <1>13 DEF ReadAlert
<1>14. CASE ReaderFails BY <1>12, <1>14 DEF ReaderFails
<1>15. CASE session_reader_loop
  <2>1. /\ write_frame(jobs) /\ jobs' = <<>> /\ reader' = "header" /\ frame' = NoFrame
        /\ UNCHANGED <<client, asked, wire, cut>>
    BY <1>15 DEF session_reader_loop, Written, clientVars
  <2>2. got' \in Seq(Answers) BY <1>0, <2>1, WriteTypes
  <2>3. ASSUME handle' \in [Sids -> Nat], stream' \in Seq(Streams) PROVE Types'
    BY <1>0, <1>5, <2>1, <2>2, <2>3, FrameTypes DEF Types
  <2>4. frame.cmd \in {"SYN", "PSH", "FIN"} => frame.sid \in Sids /\ frame.data \in Chunk
    BY <1>0 DEF Frames
  <2>5. CASE frame.cmd = "SYN" /\ handle' = create_stream(h, frame.sid) /\ stream' = Append(stream, NewStream(frame.sid))
    <3>1. NewStream(frame.sid) \in Streams /\ NewStream(frame.sid).sid = frame.sid
      BY <2>4, <2>5, StreamTypes DEF NewStream
    <3>2. /\ stream' \in Seq(Streams) /\ Len(stream') = Len(stream) + 1
          /\ stream'[Len(stream) + 1].sid = frame.sid
          /\ \A j \in 1 .. Len(stream) : stream'[j] = stream[j]
      BY <1>0, <2>5, <3>1, AppendProperties
    <3>3. handle' = [h EXCEPT ![frame.sid] = Len(stream) + 1] BY <2>5 DEF create_stream
    <3>4. handle' \in [Sids -> Nat] BY <1>0, <1>2, <2>4, <2>5, <3>3
    <3>5. HandleInv'
      <4>1. SUFFICES ASSUME NEW s \in Sids, handle'[s] # 0
                     PROVE  /\ handle'[s] \in 1 .. Len(stream') /\ stream'[handle'[s]].sid = s
                            /\ \A j \in 1 .. Len(stream') : stream'[j].sid = s => j <= handle'[s]
        BY DEF HandleInv, Ids
      <4>2. CASE s = frame.sid
        <5>1. handle'[s] = Len(stream) + 1 BY <1>2, <3>3, <4>2
        <5> QED BY <1>0, <3>2, <4>2, <5>1
      <4>3. CASE s # frame.sid
        <5>1. handle'[s] = handle[s] BY <1>2, <3>3, <4>1, <4>3
        <5>2. /\ handle[s] \in 1 .. Len(stream) /\ stream[handle[s]].sid = s
              /\ \A j \in 1 .. Len(stream) : stream[j].sid = s => j <= handle[s]
          BY <1>0, <4>1, <5>1 DEF HandleInv, Ids
        <5>3. \A j \in 1 .. Len(stream') : j \in 1 .. Len(stream) \/ j = Len(stream) + 1 BY <1>0, <3>2
        <5>4. handle[s] \in 1 .. Len(stream') BY <1>0, <3>2, <5>2
        <5> QED BY <3>2, <4>3, <5>1, <5>2, <5>3, <5>4
      <4> QED BY <4>2, <4>3
    <3>6. Grows(stream, stream') BY <1>0, <3>2 DEF Grows
    <3>7. OwnedInv' BY <1>0, <2>1, <3>2, <3>6, OwnedKept
    <3> QED BY <2>3, <3>2, <3>4, <3>5, <3>7 DEF BaseInv
  <2>6. CASE frame.cmd = "PSH" /\ handle' = h /\ stream' = deliver_data(h, frame.sid, frame.data)
    <3>1. /\ stream' \in Seq(Streams) /\ Len(stream') = Len(stream)
          /\ \A j \in Ids : stream'[j].sid = stream[j].sid /\ stream'[j].at = stream[j].at
      <4>1. frame.sid \in Sids /\ frame.data \in Chunk BY <2>4, <2>6
      <4>2. /\ deliver_data(h, frame.sid, frame.data) \in Seq(Streams)
            /\ Len(deliver_data(h, frame.sid, frame.data)) = Len(stream)
            /\ \A j \in Ids : /\ deliver_data(h, frame.sid, frame.data)[j].sid = stream[j].sid
                              /\ deliver_data(h, frame.sid, frame.data)[j].at = stream[j].at
        BY <1>0, <1>1, <4>1, Delivery
      <4> QED BY <2>6, <4>2
    <3>2. Grows(stream, stream') BY <1>0, <3>1 DEF Grows, Ids
    <3>3. OwnedInv' BY <1>0, <2>1, <3>1, <3>2, OwnedKept
    <3>4. HandleInv' BY <1>0, <1>2, <2>6, <3>1, HandleKept
    <3> QED BY <1>2, <2>3, <2>6, <3>1, <3>3, <3>4 DEF BaseInv
  <2>7. CASE frame.cmd = "FIN" /\ handle' = close_stream(h, frame.sid) /\ stream' = stream
    <3>1. handle' \in [Sids -> Nat] /\ \A s \in Sids : handle'[s] = handle[s] \/ handle'[s] = 0
      BY <1>2, <2>7 DEF close_stream
    <3>2. HandleInv' BY <1>0, <2>7, <3>1, HandleKept
    <3>3. OwnedInv' BY <1>0, <1>3, <2>1, <2>7, OwnedKept
    <3> QED BY <1>0, <2>3, <2>7, <3>1, <3>2, <3>3 DEF BaseInv
  <2>8. CASE frame.cmd = "WASTE" /\ handle' = h /\ stream' = stream
    <3>2. HandleInv' BY <1>0, <1>2, <2>8, HandleKept
    <3>3. OwnedInv' BY <1>0, <1>3, <2>1, <2>8, OwnedKept
    <3> QED BY <1>0, <1>2, <2>3, <2>8, <3>2, <3>3 DEF BaseInv
  <2> QED BY <1>15, <2>5, <2>6, <2>7, <2>8 DEF session_reader_loop, h
<1> QED BY <1>7, <1>8, <1>9, <1>10, <1>11, <1>13, <1>14, <1>15 DEF Reading

-----------------------------------------------------------------------------
(* The steps of the client while the reader keeps its place *)

\* What is queued comes behind what the client has.
LEMMA LogFacts ==
  ASSUME Types
  PROVE  /\ Log \in Seq(Answers) /\ Len(got) \in Nat /\ Len(jobs) \in Nat
         /\ Len(Log) = Len(got) + Len(jobs)
         /\ \A n \in 1 .. Len(got) : n \in 1 .. Len(Log) /\ Log[n] = got[n]
         /\ \A n \in 1 .. Len(jobs) : Len(got) + n \in 1 .. Len(Log) /\ Log[Len(got) + n] = jobs[n]
         /\ OwnedInv => \A n \in 1 .. Len(Log) : Owned(Log[n], stream)
<1>1. got \in Seq(Answers) /\ jobs \in Seq(Answers) /\ Len(got) \in Nat /\ Len(jobs) \in Nat
  BY ElementOf DEF Types
<1>2. /\ Log \in Seq(Answers) /\ Len(Log) = Len(got) + Len(jobs)
      /\ \A n \in 1 .. Len(got) + Len(jobs) :
           Log[n] = IF n <= Len(got) THEN got[n] ELSE jobs[n - Len(got)]
  BY <1>1, ConcatProperties DEF Log
<1>3. \A n \in 1 .. Len(got) : n \in 1 .. Len(Log) /\ Log[n] = got[n] BY <1>1, <1>2
<1>4. ASSUME NEW n \in 1 .. Len(jobs)
      PROVE  Len(got) + n \in 1 .. Len(Log) /\ Log[Len(got) + n] = jobs[n]
  <2>1. Len(got) + n \in 1 .. Len(Log) /\ ~(Len(got) + n <= Len(got)) /\ Len(got) + n - Len(got) = n
    BY <1>1, <1>2
  <2> QED BY <1>2, <2>1
<1>5. ASSUME OwnedInv, NEW n \in 1 .. Len(Log) PROVE Owned(Log[n], stream)
  <2>1. CASE n <= Len(got)
    <3>1. n \in 1 .. Len(got) BY <1>1, <2>1
    <3> QED BY <1>3, <1>5, <3>1 DEF OwnedInv
  <2>2. CASE ~(n <= Len(got))
    <3>1. n - Len(got) \in 1 .. Len(jobs) BY <1>1, <1>2, <2>2
    <3> QED BY <1>2, <1>5, <2>2, <3>1 DEF OwnedInv
  <2> QED BY <2>1, <2>2
<1> QED BY <1>1, <1>2, <1>3, <1>4, <1>5

\* The frames on their way are a sequence that the wire ends.
LEMMA ComingFacts ==
  ASSUME Types
  PROVE  /\ Coming \in Seq(Frames)
         /\ reader = "body" => Coming[1] = frame /\ Drops(Coming, wire)
<1>1. wire \in Seq(Frames) /\ frame \in Frames /\ <<>> \in Seq(Frames) /\ Len(wire) \in Nat
  BY EmptySeq, ElementOf DEF Types
<1>2. <<frame>> \in Seq(Frames) /\ Len(<<frame>>) = 1 /\ <<frame>>[1] = frame BY <1>1
<1>3. /\ <<frame>> \o wire \in Seq(Frames)
      /\ Len(<<frame>> \o wire) = 1 + Len(wire)
      /\ \A n \in 1 .. 1 + Len(wire) :
           (<<frame>> \o wire)[n] = IF n <= 1 THEN <<frame>>[n] ELSE wire[n - 1]
  BY <1>1, <1>2, ConcatProperties
<1>4. (<<frame>> \o wire)[1] = frame BY <1>1, <1>2, <1>3
<1>5. Drops(<<frame>> \o wire, wire)
  <2> DEFINE P == <<frame>> \o wire
  <2>1. Len(P) = Len(wire) + 1 BY <1>1, <1>3
  <2>2. ASSUME NEW m \in 1 .. Len(wire) PROVE wire[m] = P[m + 1]
    <3>1. m + 1 \in 1 .. 1 + Len(wire) /\ ~(m + 1 <= 1) /\ (m + 1) - 1 = m BY <1>1
    <3>2. P[m + 1] = wire[(m + 1) - 1] BY <1>3, <3>1
    <3> QED BY <3>1, <3>2
  <2> HIDE DEF P
  <2>3. Drops(P, wire) BY <2>1, <2>2 DEF Drops
  <2> QED BY <2>3 DEF P
<1> QED BY <1>1, <1>3, <1>4, <1>5 DEF Coming

\* A frame more on the wire comes behind the others.
LEMMA ComingSent ==
  ASSUME Types, NEW f \in Frames, Alive, wire' = Append(wire, f), UNCHANGED <<reader, frame>>
  PROVE  Coming' = Append(Coming, f)
<1>1. wire \in Seq(Frames) /\ frame \in Frames BY DEF Types
<1>2. <<frame>> \in Seq(Frames) /\ <<f>> \in Seq(Frames) /\ <<frame>> \o wire \in Seq(Frames)
  BY <1>1, ConcatProperties
<1>3. Append(wire, f) = wire \o <<f>> /\ Append(<<frame>> \o wire, f) = (<<frame>> \o wire) \o <<f>>
  BY <1>1, <1>2, AppendIsConcat
<1>4. (<<frame>> \o wire) \o <<f>> = <<frame>> \o (wire \o <<f>>) BY <1>1, <1>2, ConcatAssociative
<1>5. CASE reader = "body"
  <2>1. Coming = <<frame>> \o wire /\ Coming' = <<frame>> \o Append(wire, f) BY <1>5 DEF Coming
  <2> QED BY <1>3, <1>4, <2>1
<1>6. CASE reader # "body" BY <1>6 DEF Coming, Alive
<1> QED BY <1>5, <1>6

\* How the client remembers what it had received, in its streams A and B before
\* and after it sends f.
Marks(A, B, f) ==
  /\ \A k \in 1 .. Len(A) : B[k].mark = A[k].mark /\ B[k].careful = A[k].careful
  /\ f.cmd = "SYN" =>
       /\ B[Len(A) + 1].mark = Len(got)
       /\ B[Len(A) + 1].careful => \A j \in 1 .. Len(A) : A[j].sid = f.sid => SawFin(j)

LEMMA SendMarks ==
  ASSUME BaseInv, NEW f, asked' \in Seq(Requests), Asks(asked, asked', f), Marks(asked, asked', f),
         SidOK(stream, asked, TRUE), MarkInv, UNCHANGED <<stream, jobs, got>>
  PROVE  MarkInv'
<1>0. /\ asked \in Seq(Requests) /\ Len(asked) \in Nat /\ Len(asked') \in Nat
      /\ stream \in Seq(Streams) /\ Len(stream) \in Nat
  BY ElementOf DEF BaseInv, Types
<1>1. /\ Len(got) \in Nat /\ Len(Log) \in Nat
      /\ \A n \in 1 .. Len(got) : n \in 1 .. Len(Log) /\ Log[n] = got[n]
      /\ \A n \in 1 .. Len(Log) : Owned(Log[n], stream)
  <2>1. Log \in Seq(Answers) BY LogFacts DEF BaseInv
  <2>2. Len(Log) \in Nat BY <2>1
  <2> QED BY <2>2, LogFacts DEF BaseInv
<1>2. Log' = Log /\ Len(got') = Len(got) BY DEF Log
<1>3. SUFFICES ASSUME NEW k \in 1 .. Len(asked')
               PROVE  asked'[k].mark <= Len(got) /\ MarkOK(Log, asked', k)
  BY <1>2 DEF MarkInv
<1>4. CASE k \in 1 .. Len(asked)
  <2>1. asked'[k].mark = asked[k].mark /\ asked'[k].careful = asked[k].careful BY <1>4 DEF Marks
  <2>2. \A j \in 1 .. k - 1 : j \in 1 .. Len(asked) BY <1>0, <1>4
  <2>3. asked'[k].sid = asked[k].sid /\ \A j \in 1 .. k - 1 : asked'[j].sid = asked[j].sid
    BY <1>4, <2>2 DEF Asks
  <2>4. asked[k].mark <= Len(got) /\ MarkOK(Log, asked, k) BY <1>4 DEF MarkInv
  <2> QED BY <2>1, <2>3, <2>4 DEF MarkOK
<1>5. CASE k \notin 1 .. Len(asked)
  <2>1. f.cmd = "SYN" /\ k = Len(asked) + 1 BY <1>0, <1>3, <1>5 DEF Asks
  <2>2. asked'[k].mark = Len(got) /\ asked'[k].sid = f.sid BY <2>1 DEF Marks, Asks
  <2>3. \A n \in 1 .. Len(Log) : Log[n].i # k
    <3>1. \A j \in 1 .. Len(stream) : j # k BY <1>0, <2>1 DEF SidOK
    <3> QED BY <1>1, <3>1 DEF Owned
  <2>4. ASSUME asked'[k].careful, NEW j \in 1 .. k - 1, asked'[j].sid = asked'[k].sid
        PROVE  \E n \in 1 .. Len(Log) : n <= asked'[k].mark /\ From(Log, n, j, "FIN")
    <3>1. j \in 1 .. Len(asked) BY <1>0, <2>1
    <3>2. asked[j].sid = f.sid BY <2>2, <2>4, <3>1 DEF Asks
    <3>3. SawFin(j) BY <2>1, <2>4, <3>1, <3>2 DEF Marks
    <3>4. DOMAIN got = 1 .. Len(got) BY ElementOf DEF BaseInv, Types
    <3>5. PICK n \in 1 .. Len(got) : got[n].cmd = "FIN" /\ got[n].i = j BY <3>3, <3>4 DEF SawFin
    <3>6. n \in 1 .. Len(Log) /\ Log[n] = got[n] /\ n <= Len(got) BY <1>1
    <3> QED BY <2>2, <3>5, <3>6 DEF From
  <2>5. MarkOK(Log, asked', k) BY <2>3, <2>4 DEF MarkOK
  <2> QED BY <1>1, <2>2, <2>5
<1> QED BY <1>4, <1>5

\* The streams that are live after the client has sent a frame were live before.
LEMMA SendLive ==
  ASSUME BaseInv, NEW f, asked' \in Seq(Requests), Asks(asked, asked', f), Marks(asked, asked', f),
         SidOK(stream, asked, TRUE), LiveKeepsHandle, ~cut,
         UNCHANGED <<stream, handle, reader, cut>>
  PROVE  LiveKeepsHandle'
<1>0. /\ asked \in Seq(Requests) /\ Len(asked) \in Nat /\ DOMAIN asked = 1 .. Len(asked)
      /\ Len(asked') \in Nat /\ DOMAIN asked' = 1 .. Len(asked')
      /\ stream \in Seq(Streams) /\ Len(stream) \in Nat
  BY ElementOf DEF BaseInv, Types
<1>1. SUFFICES ASSUME Alive, NEW i \in Running, Newest(i)', asked'[i].careful, ~asked'[i].fin
               PROVE  handle[stream[i].sid] = i
  BY DEF LiveKeepsHandle, Running, Ids, Alive
<1>2. i \in 1 .. Len(asked) BY <1>0 DEF Running, Ids, SidOK
<1>3. asked[i].careful /\ ~asked[i].fin BY <1>1, <1>2 DEF Asks, Marks
<1>4. Newest(i)
  <2>1. \A j \in 1 .. Len(asked) : j \in 1 .. Len(asked') /\ asked'[j].sid = asked[j].sid BY DEF Asks
  <2>2. \A j \in 1 .. Len(asked') : asked'[j].sid = asked'[i].sid => j <= i BY <1>0, <1>1 DEF Newest
  <2> QED BY <1>0, <1>2, <2>1, <2>2 DEF Newest
<1> QED BY <1>0, <1>1, <1>2, <1>3, <1>4 DEF LiveKeepsHandle

\* What a stream has been given is a number.
LEMMA TotalType ==
  ASSUME NEW x \in Streams, NEW c \in {0, 1}
  PROVE  Total(x, c) \in Nat /\ Len(x.tgot) \in Nat /\ Len(x.queue) \in Nat
<1>1. x.tgot \in Seq(Chunk) /\ x.queue \in Seq(Chunk) BY DEF Streams
<1>2. Len(x.tgot) \in Nat /\ Len(x.queue) \in Nat BY <1>1
<1>3. c \in Nat OBVIOUS
<1>4. \A a, b \in Nat : c + a + b \in Nat BY <1>3
<1> QED BY <1>2, <1>4 DEF Total

\* A chunk more or another frame is the next of its stream.
LEMMA SendChunks ==
  ASSUME BaseInv, NEW f \in Frames, asked' \in Seq(Requests), Asks(asked, asked', f),
         SidOK(stream, asked, TRUE), WireOK(Coming, stream, asked, InStep), ChunkInv, Listening,
         wire' = Append(wire, f), UNCHANGED <<client, reader, frame, stream, handle>>
  PROVE  WireOK(Coming, stream, asked, InStep)' /\ ChunkInv'
<1>0. /\ asked \in Seq(Requests) /\ Len(asked) \in Nat /\ stream \in Seq(Streams) /\ Len(stream) \in Nat
      /\ Types
  BY ElementOf DEF BaseInv, Types
<1>1. Coming \in Seq(Frames) BY <1>0, ComingFacts
<1>2. ASSUME NEW k \in Nat \ {0}, NEW d \in Nat, Follows(Coming, asked, InStep, k, d), k \in Ids \/ d = 0
      PROVE  Follows(Coming', asked', InStep', k, d)
  <2>1. CASE Alive
    <3>1. Coming' = Append(Coming, f) BY <1>0, <2>1, ComingSent
    <3>2. InStep = TRUE /\ InStep' = TRUE BY <2>1 DEF InStep, Listening, Alive
    <3>3. k \in 1 .. Len(asked) \/ d = 0 BY <1>0, <1>2 DEF Ids, SidOK
    <3> QED BY <1>0, <1>1, <1>2, <3>1, <3>2, <3>3, FollowsAppend
  <2>2. CASE ~Alive
    <3>1. Coming = <<>> /\ Coming' = <<>> /\ InStep' = FALSE BY <2>2 DEF Coming, Alive, InStep
    <3>2. Begins(Coming, Coming) BY <1>1 DEF Begins
    <3> QED BY <1>1, <1>2, <3>1, <3>2, WireCut
  <2> QED BY <2>1, <2>2
<1>3. WireOK(Coming', stream', asked', InStep')
  <2>1. CASE Alive
    <3>1. Coming' = Append(Coming, f) BY <1>0, <2>1, ComingSent
    <3>2. InStep = TRUE /\ InStep' = TRUE BY <2>1 DEF InStep, Listening, Alive
    <3> QED BY <1>0, <1>1, <3>1, <3>2, WireAppend
  <2>2. CASE ~Alive
    <3>1. Coming = <<>> /\ Coming' = <<>> /\ InStep' = FALSE BY <2>2 DEF Coming, Alive, InStep
    <3>2. Begins(Coming, Coming) BY <1>1 DEF Begins
    <3> QED BY <1>1, <3>1, <3>2, WireCut
  <2> QED BY <2>1, <2>2
<1>4. ChunkInv'
  <2>1. \A k \in Ids' : stream'[k].at = "done" => stream'[k].tgot = <<>> BY DEF ChunkInv, Ids
  <2>2. ASSUME NEW k \in Ids', stream'[k].at # "done"
        PROVE  \E c \in {0, 1} :
                 /\ Given(k, stream'[k], c)
                 /\ handle'[stream'[k].sid] = k => Follows(Coming', asked', InStep', k, Total(stream'[k], c))
    <3>1. k \in Ids /\ stream[k].at # "done" /\ k \in Nat \ {0} BY <1>0, <2>2 DEF Ids
    <3>2. PICK c \in {0, 1} :
                 /\ Given(k, stream[k], c)
                 /\ handle[stream[k].sid] = k => Follows(Coming, asked, InStep, k, Total(stream[k], c))
      BY <3>1 DEF ChunkInv
    <3>3. Total(stream[k], c) \in Nat
      <4>1. stream[k] \in Streams BY <1>0, <3>1 DEF Ids
      <4> QED BY <3>2, <4>1, TotalType
    <3> QED BY <1>2, <3>1, <3>2, <3>3
  <2>3. ASSUME NEW k \in Nat \ Ids', k > 0 PROVE Follows(Coming', asked', InStep', k, 0)
    <3>1. k \in Nat \ {0} /\ k \in Nat \ Ids BY <2>3 DEF Ids
    <3>2. Follows(Coming, asked, InStep, k, 0) BY <2>3, <3>1 DEF ChunkInv
    <3> QED BY <1>2, <3>1, <3>2
  <2> QED BY <2>1, <2>2, <2>3 DEF ChunkInv
<1> QED BY <1>3, <1>4

\* What the client sends leaves the session in step.
LEMMA SendPlace ==
  ASSUME BaseInv, ~cut, PlaceInv, NEW f \in Frames, Sends(f), asked' \in Seq(Requests),
         Asks(asked, asked', f), Marks(asked, asked', f)
  PROVE  PlaceInv'
<1>0. /\ UNCHANGED <<client, reader, frame, cut, handle, stream, jobs, got>>
      /\ wire' = Append(wire, f) /\ client = "open" /\ wire \in Seq(Frames)
  BY DEF Sends, ClientFrame, BaseInv, Types
<1>1. Listening /\ Listening' BY <1>0 DEF Listening
<1>2. StepInv'
  <2>1. wire # <<>> => wire' # <<>> /\ wire'[1] = wire[1] BY <1>0
  <2> QED BY <1>0, <1>1, <2>1 DEF PlaceInv, StepInv, Listening
<1>3. SidOK(stream, asked, TRUE) BY <1>1 DEF PlaceInv, SidOK
<1>4. SidOK(stream, asked, Listening)'
  <2>1. Len(stream) \in Nat /\ Len(asked) \in Nat /\ Len(asked') \in Nat BY ElementOf DEF BaseInv, Types
  <2>2. \A j \in 1 .. Len(stream) : j \in 1 .. Len(asked) BY <1>3, <2>1 DEF SidOK
  <2>3. Len(asked) <= Len(asked') BY <2>1 DEF Asks
  <2> QED BY <1>0, <1>3, <2>1, <2>2, <2>3 DEF SidOK, Asks
<1>5. WireOK(Coming, stream, asked, InStep)' /\ ChunkInv' BY <1>0, <1>1, <1>3, SendChunks DEF PlaceInv
<1>6. LogInv'
  <2>1. LogInv BY <1>1 DEF PlaceInv
  <2> QED BY <1>0, <2>1 DEF LogInv, Log, Alive, Ids
<1>7. MarkInv' BY <1>0, <1>1, <1>3, SendMarks DEF PlaceInv
<1>8. LiveKeepsHandle' BY <1>0, <1>3, SendLive DEF PlaceInv
<1> QED BY <1>2, <1>4, <1>5, <1>6, <1>7, <1>8 DEF PlaceInv

\* The frames the client sends, one by one.
LEMMA ClientSends ==
  ASSUME BaseInv, ~cut, PlaceInv,
         \/ \E s \in Sids : ClientSyn(s)
         \/ \E k \in DOMAIN asked : ClientPsh(k) \/ ClientFin(k)
         \/ \E c \in {"WASTE", "ALERT"} : ClientOther(c)
  PROVE  PlaceInv'
<1>0. /\ asked \in Seq(Requests) /\ Len(asked) \in Nat /\ DOMAIN asked = 1 .. Len(asked)
      /\ \A k \in 1 .. Len(asked) : asked[k] \in Requests
  BY ElementOf DEF BaseInv, Types
<1>1. asked' \in Seq(Requests) BY ClientTypes DEF BaseInv, Client, Types
<1>2. \A c, s, d : /\ Frame(c, s, d).cmd = c /\ Frame(c, s, d).sid = s
                   /\ Of(Frame(c, s, d)) = d[1] /\ No(Frame(c, s, d)) = d[2]
  BY DEF Frame, Of, No
<1>3. ASSUME NEW s \in Sids, ClientSyn(s) PROVE PlaceInv'
  <2> DEFINE r == [sid |-> s, pushed |-> 0, fin |-> FALSE, mark |-> Len(got),
                   careful |-> \A j \in DOMAIN asked : asked[j].sid = s => SawFin(j)]
             f == Frame("SYN", s, <<Len(asked) + 1, 0>>)
  <2>1. asked' = Append(asked, r) /\ Sends(f) BY <1>3 DEF ClientSyn
  <2>2. r.sid = s /\ r.pushed = 0 /\ r.mark = Len(got) OBVIOUS
  <2>3. r.careful => \A j \in DOMAIN asked : asked[j].sid = s => SawFin(j) OBVIOUS
  <2>4. f \in Frames /\ f.cmd = "SYN" /\ f.sid = s /\ Of(f) = Len(asked) + 1
    <3>1. Len(asked) + 1 \in Nat BY <1>0
    <3>2. f \in Frames BY <3>1, FrameTypes
    <3>3. <<Len(asked) + 1, 0>>[1] = Len(asked) + 1 OBVIOUS
    <3> QED BY <1>2, <3>2, <3>3
  <2> HIDE DEF r, f
  <2>5. /\ Len(asked') = Len(asked) + 1 /\ asked'[Len(asked) + 1] = r
        /\ \A k \in 1 .. Len(asked) : k \in 1 .. Len(asked') /\ asked'[k] = asked[k]
    BY <1>0, <2>1
  <2>6. Asks(asked, asked', f)
    <3>1. \A k \in 1 .. Len(asked) :
             /\ k \in 1 .. Len(asked') /\ asked'[k].sid = asked[k].sid /\ (asked[k].fin => asked'[k].fin)
             /\ asked'[k].pushed = IF f.cmd = "PSH" /\ Of(f) = k THEN asked[k].pushed + 1 ELSE asked[k].pushed
      BY <2>4, <2>5
    <3> QED BY <2>2, <2>4, <2>5, <3>1 DEF Asks
  <2>7. Marks(asked, asked', f) BY <1>0, <2>2, <2>3, <2>4, <2>5 DEF Marks
  <2> QED BY <1>1, <2>1, <2>4, <2>6, <2>7, SendPlace
<1>4. ASSUME NEW k \in DOMAIN asked, ClientPsh(k) PROVE PlaceInv'
  <2> DEFINE f == Frame("PSH", asked[k].sid, <<k, asked[k].pushed + 1>>)
  <2>1. Sends(f) /\ Newest(k) BY <1>4 DEF ClientPsh
  <2>2. k \in 1 .. Len(asked) /\ asked[k] \in Requests BY <1>0
  <2>3. asked[k].sid \in Sids /\ asked[k].pushed \in Nat /\ k \in Nat BY <2>2 DEF Requests
  <2>4. f \in Frames /\ f.cmd = "PSH" /\ f.sid = asked[k].sid /\ Of(f) = k /\ No(f) = asked[k].pushed + 1
    <3>1. f \in Frames BY <2>3, FrameTypes
    <3>2. <<k, asked[k].pushed + 1>>[1] = k /\ <<k, asked[k].pushed + 1>>[2] = asked[k].pushed + 1 OBVIOUS
    <3> QED BY <1>2, <3>1, <3>2
  <2> HIDE DEF f
  <2>5. asked' = [asked EXCEPT ![k] = [asked[k] EXCEPT !.pushed = @ + 1]] BY <1>4 DEF ClientPsh
  <2>6. /\ Len(asked') = Len(asked)
        /\ \A j \in 1 .. Len(asked) : asked'[j] = IF j = k THEN [asked[k] EXCEPT !.pushed = @ + 1] ELSE asked[j]
    BY <1>0, <2>2, <2>5
  <2>7. \A j \in 1 .. Len(asked) : /\ asked'[j].sid = asked[j].sid /\ asked'[j].fin = asked[j].fin
                                   /\ asked'[j].mark = asked[j].mark /\ asked'[j].careful = asked[j].careful
                                   /\ asked'[j].pushed = IF k = j THEN asked[j].pushed + 1 ELSE asked[j].pushed
    BY <1>0, <2>2, <2>6 DEF Requests
  <2>8. \A j \in 1 .. Len(asked) : asked[j].sid = asked[k].sid => j <= k BY <1>0, <2>1 DEF Newest
  <2>9. Asks(asked, asked', f) BY <1>0, <2>2, <2>4, <2>6, <2>7, <2>8 DEF Asks
  <2>10. Marks(asked, asked', f) BY <2>4, <2>7 DEF Marks
  <2> QED BY <1>1, <2>1, <2>4, <2>9, <2>10, SendPlace
<1>5. ASSUME NEW k \in DOMAIN asked, ClientFin(k) PROVE PlaceInv'
  <2> DEFINE f == Frame("FIN", asked[k].sid, <<k, 0>>)
  <2>1. Sends(f) /\ Newest(k) BY <1>5 DEF ClientFin
  <2>2. k \in 1 .. Len(asked) /\ asked[k] \in Requests BY <1>0
  <2>3. asked[k].sid \in Sids /\ k \in Nat BY <2>2 DEF Requests
  <2>4. f \in Frames /\ f.cmd = "FIN" /\ f.sid = asked[k].sid /\ Of(f) = k
    <3>1. f \in Frames BY <2>3, FrameTypes
    <3>2. <<k, 0>>[1] = k OBVIOUS
    <3> QED BY <1>2, <3>1, <3>2
  <2> HIDE DEF f
  <2>5. asked' = [asked EXCEPT ![k] = [asked[k] EXCEPT !.fin = TRUE]] BY <1>5 DEF ClientFin
  <2>6. /\ Len(asked') = Len(asked)
        /\ \A j \in 1 .. Len(asked) : asked'[j] = IF j = k THEN [asked[k] EXCEPT !.fin = TRUE] ELSE asked[j]
    BY <1>0, <2>2, <2>5
  <2>7. /\ \A j \in 1 .. Len(asked) : /\ asked'[j].sid = asked[j].sid /\ (asked[j].fin => asked'[j].fin)
                                      /\ asked'[j].mark = asked[j].mark /\ asked'[j].careful = asked[j].careful
                                      /\ asked'[j].pushed = asked[j].pushed
        /\ asked'[k].fin
    BY <1>0, <2>2, <2>6 DEF Requests
  <2>8. \A j \in 1 .. Len(asked) : asked[j].sid = asked[k].sid => j <= k BY <1>0, <2>1 DEF Newest
  <2>9. Asks(asked, asked', f) BY <1>0, <2>2, <2>4, <2>6, <2>7, <2>8 DEF Asks
  <2>10. Marks(asked, asked', f) BY <2>4, <2>7 DEF Marks
  <2> QED BY <1>1, <2>1, <2>4, <2>9, <2>10, SendPlace
<1>6. ASSUME NEW c \in {"WASTE", "ALERT"}, ClientOther(c) PROVE PlaceInv'
  <2> DEFINE f == Frame(c, 0, Junk)
  <2>1. Sends(f) /\ asked' = asked BY <1>6 DEF ClientOther
  <2>2. f \in Frames /\ f.cmd \notin {"SYN", "PSH", "FIN"}
    <3>1. f.cmd = c BY <1>2
    <3> QED BY <3>1, FrameTypes
  <2> HIDE DEF f
  <2>3. Asks(asked, asked', f) /\ Marks(asked, asked', f) BY <1>0, <2>1, <2>2 DEF Asks, Marks
  <2> QED BY <1>1, <2>1, <2>2, <2>3, SendPlace
<1> QED BY <1>3, <1>4, <1>5, <1>6

\* A reset leaves nothing but the frame whose header was read.
LEMMA ResetPlace ==
  ASSUME BaseInv, ~cut, PlaceInv, ClientReset
  PROVE  PlaceInv'
<1>0. /\ client' = "gone" /\ wire' = <<>> /\ asked' = <<>> /\ got' = <<>>
      /\ UNCHANGED <<reader, frame, cut, handle, stream, jobs>> /\ wire \in Seq(Frames) /\ frame \in Frames
      /\ Types /\ Types'
  BY ClientBase DEF ClientReset, Forget, BaseInv, Types, Client
<1>1. ~Listening' /\ ~InStep' BY <1>0 DEF Listening, InStep
<1>2. StepInv' BY <1>0, <1>1 DEF PlaceInv, StepInv, Listening
<1>3. Coming \in Seq(Frames) /\ Coming' \in Seq(Frames)
  <2>1. Coming' = <<frame>> \o <<>> \/ Coming' = <<>> BY <1>0 DEF Coming
  <2>2. <<frame>> \in Seq(Frames) /\ <<>> \in Seq(Frames) BY <1>0, EmptySeq
  <2> QED BY <1>0, <2>1, <2>2, ComingFacts, ConcatEmptySeq
<1>4. Begins(Coming', Coming)
  <2>1. Len(Coming) \in Nat BY <1>3
  <2>2. CASE reader = "body"
    <3>1. Coming' = <<frame>>
      <4>1. Coming' = <<frame>> \o <<>> BY <1>0, <2>2 DEF Coming
      <4>2. <<frame>> \in Seq(Frames) BY <1>0
      <4> QED BY <4>1, <4>2, ConcatEmptySeq
    <3>2. Coming[1] = frame /\ Drops(Coming, wire) BY <1>0, <2>2, ComingFacts
    <3>3. Len(wire) \in Nat /\ Len(Coming) = Len(wire) + 1 BY <1>0, <3>2 DEF Drops
    <3>4. Len(<<frame>>) = 1 /\ <<frame>>[1] = frame /\ \A m \in 1 .. 1 : m = 1 OBVIOUS
    <3>5. 1 <= Len(Coming) BY <3>3
    <3> QED BY <3>1, <3>2, <3>4, <3>5 DEF Begins
  <2>3. CASE reader # "body"
    <3>1. Coming' = <<>> BY <1>0, <2>3 DEF Coming
    <3>2. Len(Coming') = 0 BY <3>1
    <3> QED BY <2>1, <3>2 DEF Begins
  <2> QED BY <2>2, <2>3
<1>5. SidOK(stream, asked, Listening)' BY <1>1 DEF SidOK
<1>6. /\ WireOK(Coming', stream, asked', FALSE)
      /\ \A k, d : Follows(Coming, asked, InStep, k, d) => Follows(Coming', asked', FALSE, k, d)
  BY <1>3, <1>4, WireCut DEF PlaceInv
<1>7. InStep' = FALSE BY <1>1 DEF InStep
<1>8. WireOK(Coming, stream, asked, InStep)' BY <1>0, <1>6, <1>7
<1>9. ChunkInv' BY <1>0, <1>6, <1>7 DEF PlaceInv, ChunkInv, Ids
<1>10. LiveKeepsHandle'
  <2>1. DOMAIN asked' = {} BY <1>0
  <2> QED BY <2>1 DEF LiveKeepsHandle
<1> QED BY <1>1, <1>2, <1>5, <1>8, <1>9, <1>10 DEF PlaceInv

LEMMA ClientPlace ==
  ASSUME BaseInv, ~cut, PlaceInv, Client
  PROVE  PlaceInv'
<1>1. CASE ClientShut
  <2>1. /\ client = "open" /\ client' = "shut" /\ UNCHANGED <<asked, wire>>
        /\ UNCHANGED <<reader, frame, cut, handle, stream, jobs, got>>
    BY <1>1 DEF ClientShut, ClientFrame
  <2>2. Listening' = Listening /\ InStep' = InStep /\ Coming' = Coming /\ Alive' = Alive
        /\ Log' = Log
    BY <2>1 DEF Listening, InStep, Coming, Alive, Log
  <2>3. StepInv' BY <2>1, <2>2 DEF PlaceInv, StepInv, Listening
  <2>4. SidOK(stream, asked, Listening)' /\ WireOK(Coming, stream, asked, InStep)'
    BY <2>1, <2>2 DEF PlaceInv
  <2>5. ChunkInv' BY <2>1, <2>2 DEF PlaceInv, ChunkInv, Ids
  <2>6. Listening' => LogInv' /\ MarkInv' BY <2>1, <2>2 DEF PlaceInv, LogInv, MarkInv, Ids
  <2>7. LiveKeepsHandle' BY <2>1, <2>2 DEF PlaceInv, LiveKeepsHandle, Running, Newest, Ids
  <2> QED BY <2>3, <2>4, <2>5, <2>6, <2>7 DEF PlaceInv
<1> QED BY <1>1, ResetPlace, ClientSends DEF Client

-----------------------------------------------------------------------------
(* The steps of the reader while it keeps its place *)

\* What is written moves from the queue to the client.
LEMMA WrittenFacts ==
  ASSUME Types, ~cut, Listening, write_frame(jobs), jobs' = <<>>
  PROVE  Log' = Log /\ Len(got) <= Len(got')
<1>1. got' = Log BY DEF write_frame, Listening, Log
<1>2. Log \in Seq(Answers) /\ Len(got) \in Nat /\ Len(jobs) \in Nat /\ Len(Log) = Len(got) + Len(jobs)
  BY LogFacts
<1>3. Log' = Log \o <<>> BY <1>1 DEF Log
<1>4. Log \o <<>> = Log BY <1>2, ConcatEmptySeq
<1>5. Len(got) <= Len(Log) BY <1>2
<1> QED BY <1>1, <1>3, <1>4, <1>5

\* The answers stay what they are while chunks arrive and streams are created.
LEMMA LogKept ==
  ASSUME BaseInv, LogInv, MarkInv, Log' = Log, Len(got) <= Len(got'), Len(got') \in Nat, asked' = asked,
         Alive' = Alive,
         \A j \in Ids : /\ stream'[j].at = stream[j].at /\ stream'[j].tread = stream[j].tread
                        /\ stream'[j].opening = stream[j].opening,
         \A j \in Ids' \ Ids : stream'[j].at = "first" /\ stream'[j].tread = 0
  PROVE  LogInv' /\ MarkInv'
<1>1. LogInv'
  <2>1. \A n \in 1 .. Len(Log) : Owned(Log[n], stream) BY LogFacts DEF BaseInv
  <2>2. SUFFICES ASSUME NEW j \in Ids'
                 PROVE  LogOK(Log, j, stream'[j]) /\ StateOK(Log, j, stream'[j], Alive)
    BY DEF LogInv
  <2>3. CASE j \in Ids
    <3>1. LogOK(Log, j, stream[j]) /\ StateOK(Log, j, stream[j], Alive) BY <2>3 DEF LogInv
    <3> QED BY <2>3, <3>1 DEF LogOK, FinOK, DataOK, StateOK, Unanswered
  <2>4. CASE j \notin Ids
    <3>1. \A n \in 1 .. Len(Log) : Log[n].i # j BY <2>1, <2>4 DEF Owned, Ids
    <3>2. stream'[j].at = "first" /\ stream'[j].tread = 0 BY <2>2, <2>4
    <3>3. LogOK(Log, j, stream'[j]) BY <3>1 DEF LogOK, FinOK, AckOK, DataOK, From
    <3>4. \A d \in 1 .. 0 : FALSE OBVIOUS
    <3> QED BY <3>1, <3>2, <3>3, <3>4 DEF StateOK, Unanswered
  <2> QED BY <2>3, <2>4
<1>2. MarkInv'
  <2>1. asked \in Seq(Requests) /\ Len(got) \in Nat BY LogFacts DEF BaseInv, Types
  <2>2. SUFFICES ASSUME NEW k \in 1 .. Len(asked) PROVE asked[k].mark <= Len(got') /\ MarkOK(Log, asked, k)
    BY DEF MarkInv
  <2>3. asked[k].mark <= Len(got) /\ MarkOK(Log, asked, k) BY DEF MarkInv
  <2>4. asked[k].mark \in Nat
    <3>1. asked[k] \in Requests BY <2>1
    <3> QED BY <3>1 DEF Requests
  <2> QED BY <2>1, <2>3, <2>4
<1> QED BY <1>1, <1>2

\* The late FIN of an earlier stream cannot be in the queue when its id has been
\* used again with care: the client had received it.
LEMMA LiveDrained ==
  ASSUME BaseInv, ~cut, PlaceInv, Alive, NEW h, Drained(h), NEW i \in Running \cap DOMAIN asked,
         Newest(i), asked[i].careful, ~asked[i].fin
  PROVE  h[stream[i].sid] = i
<1>0. /\ asked \in Seq(Requests) /\ Len(asked) \in Nat /\ DOMAIN asked = 1 .. Len(asked)
      /\ stream \in Seq(Streams) /\ Len(stream) \in Nat
  BY ElementOf DEF BaseInv, Types
<1>1. i \in 1 .. Len(asked) /\ i \in 1 .. Len(stream) /\ stream[i].at # "done" BY <1>0 DEF Running, Ids
<1>2. Listening
  <2>1. asked # <<>> BY <1>0, <1>1
  <2> QED BY <2>1 DEF PlaceInv, StepInv, Listening
<1>3. handle[stream[i].sid] = i BY DEF PlaceInv, LiveKeepsHandle
<1>4. stream[i].sid \in Sids
  <2>1. stream[i] \in Streams BY <1>0, <1>1
  <2> QED BY <2>1 DEF Streams
<1>5. SUFFICES ASSUME NEW k \in 1 .. Len(jobs), jobs[k].cmd = "FIN", jobs[k].sid = stream[i].sid
               PROVE  FALSE
  BY <1>3, <1>4 DEF Drained
<1> DEFINE j == jobs[k].i
<1>6. j \in 1 .. Len(stream) /\ stream[j].sid = stream[i].sid /\ stream[j].at = "done"
  BY <1>5 DEF BaseInv, OwnedInv, Owned
<1>7. j # i BY <1>1, <1>6
<1>8. j \in 1 .. Len(asked) /\ asked[j].sid = asked[i].sid
  BY <1>0, <1>1, <1>2, <1>6 DEF PlaceInv, SidOK
<1>9. j \in 1 .. i - 1
  <2>1. j <= i BY <1>0, <1>8 DEF Newest
  <2> QED BY <1>1, <1>6, <1>7, <2>1
<1>10. LogInv /\ MarkInv BY <1>2 DEF PlaceInv
<1>11. PICK n \in 1 .. Len(Log) : n <= asked[i].mark /\ From(Log, n, j, "FIN")
  BY <1>1, <1>8, <1>9, <1>10 DEF MarkInv, MarkOK
<1>12. FinOK(Log, j, stream[j]) BY <1>6, <1>10 DEF LogInv, LogOK, Ids
<1>13. Len(got) + k \in 1 .. Len(Log) /\ Log[Len(got) + k] = jobs[k] /\ Len(got) \in Nat BY LogFacts DEF BaseInv
<1>14. Log[Len(got) + k].i = j BY <1>13
<1> HIDE DEF j
<1>15. Len(got) + k <= n BY <1>11, <1>12, <1>13, <1>14 DEF FinOK
<1>16. asked[i].mark <= Len(got) /\ asked[i].mark \in Nat
  <2>1. asked[i] \in Requests BY <1>0, <1>1
  <2> QED BY <1>1, <1>10, <2>1 DEF MarkInv, Requests
<1>17. k \in Nat /\ k >= 1 BY <1>5
<1> QED BY <1>11, <1>13, <1>15, <1>16, <1>17

\* Only the ids of the streams matter to the frames on their way.
LEMMA WireSids ==
  ASSUME NEW P \in Seq(Frames), NEW S, NEW T, NEW A, NEW lis, WireOK(P, S, A, lis),
         Len(T) = Len(S), Len(S) \in Nat, \A j \in 1 .. Len(S) : T[j].sid = S[j].sid
  PROVE  WireOK(P, T, A, lis)
<1>1. SidOK(T, A, lis) /\ SynOK(P, T, A, lis) /\ OrderOK(P) BY DEF WireOK, SidOK, SynOK
<1>2. NameOK(P, T, A, lis)
  <2>1. NameOK(P, S, A, lis) BY DEF WireOK
  <2>2. ASSUME NEW m \in 1 .. Len(P), P[m].cmd \in {"PSH", "FIN"}
        PROVE  /\ \A j \in 1 .. Len(T) : T[j].sid = P[m].sid => j <= Of(P[m])
               /\ \/ Of(P[m]) <= Len(T) /\ T[Of(P[m])].sid = P[m].sid
                  \/ \E n \in 1 .. Len(P) : n < m /\ P[n].cmd = "SYN" /\ Of(P[n]) = Of(P[m])
    <3>1. \A j \in 1 .. Len(T) : T[j].sid = P[m].sid => j <= Of(P[m]) BY <2>1, <2>2 DEF NameOK
    <3>2. ASSUME Of(P[m]) <= Len(S), S[Of(P[m])].sid = P[m].sid
          PROVE  T[Of(P[m])].sid = P[m].sid
      <4>1. Of(P[m]) > 0 BY <2>1, <2>2 DEF NameOK
      <4>2. Of(P[m]) \in Nat BY MarkOfFrame
      <4>3. Of(P[m]) \in 1 .. Len(S) BY <3>2, <4>1, <4>2
      <4> QED BY <3>2, <4>3
    <3> QED BY <2>1, <2>2, <3>1, <3>2 DEF NameOK
  <2> QED BY <2>1, <2>2 DEF NameOK
<1> QED BY <1>1, <1>2 DEF WireOK

\* A step of the loop that writes what is queued and goes on.
LEMMA LoopPlace ==
  ASSUME BaseInv, BaseInv', ~cut, PlaceInv, Alive, Alive', UNCHANGED <<client, asked>>,
         write_frame(jobs), jobs' = <<>>,
         \A j \in Ids : /\ stream'[j].at = stream[j].at /\ stream'[j].tread = stream[j].tread
                        /\ stream'[j].opening = stream[j].opening,
         \A j \in Ids' \ Ids : stream'[j].at = "first" /\ stream'[j].tread = 0,
         StepInv', SidOK(stream, asked, Listening)', WireOK(Coming, stream, asked, InStep)', ChunkInv',
         LiveKeepsHandle'
  PROVE  PlaceInv'
<1>1. ASSUME Listening' PROVE LogInv' /\ MarkInv'
  <2>1. Listening BY <1>1 DEF Listening
  <2>2. Log' = Log /\ Len(got) <= Len(got') BY <2>1, WrittenFacts DEF BaseInv
  <2>3. Len(got') \in Nat BY DEF BaseInv, Types
  <2>4. LogInv /\ MarkInv BY <2>1 DEF PlaceInv
  <2>5. Alive' = Alive BY DEF Alive
  <2> QED BY <2>2, <2>3, <2>4, <2>5, LogKept
<1> QED BY <1>1 DEF PlaceInv

\* The streams that keep their handles when only what is queued has been written.
LEMMA LoopLive ==
  ASSUME BaseInv, ~cut, PlaceInv, Alive, Drained(handle'), asked' = asked, Len(stream') = Len(stream),
         \A j \in Ids : stream'[j].at = stream[j].at /\ stream'[j].sid = stream[j].sid
  PROVE  LiveKeepsHandle'
<1>1. Running' = Running BY DEF Running, Ids
<1>2. SUFFICES ASSUME NEW i \in Running \cap DOMAIN asked, Newest(i), asked[i].careful, ~asked[i].fin
               PROVE  handle'[stream'[i].sid] = i
  BY <1>1 DEF LiveKeepsHandle, Newest
<1>3. handle'[stream[i].sid] = i BY <1>2, LiveDrained
<1> QED BY <1>2, <1>3 DEF Running

\* A step of the loop that carries out no frame, or one that no stream is given.
LEMMA PlainChunks ==
  ASSUME BaseInv, PlaceInv, stream' = stream, asked' = asked, InStep' = InStep,
         \A s \in Sids : handle'[s] = handle[s] \/ handle'[s] = 0,
         \/ Coming' = Coming
         \/ Coming' \in Seq(Frames) /\ Drops(Coming, Coming') /\ Coming[1].cmd \notin {"SYN", "PSH"}
  PROVE  WireOK(Coming, stream, asked, InStep)' /\ ChunkInv'
<1>0. Coming \in Seq(Frames) /\ WireOK(Coming, stream, asked, InStep) /\ stream \in Seq(Streams)
  BY ComingFacts DEF BaseInv, PlaceInv, Types
<1>1. WireOK(Coming', stream, asked, InStep) BY <1>0, WireDrop
<1>2. ASSUME NEW k, NEW d \in Nat, Follows(Coming, asked, InStep, k, d)
      PROVE  Follows(Coming', asked, InStep, k, d)
  BY <1>0, <1>2, FollowsDrop
<1>3. ChunkInv'
  <2>1. \A k \in Ids : stream[k].at = "done" => stream[k].tgot = <<>> BY DEF PlaceInv, ChunkInv
  <2>2. ASSUME NEW k \in Ids, stream[k].at # "done"
        PROVE  \E c \in {0, 1} :
                 /\ Given(k, stream[k], c)
                 /\ handle'[stream[k].sid] = k => Follows(Coming', asked, InStep, k, Total(stream[k], c))
    <3>1. PICK c \in {0, 1} :
                 /\ Given(k, stream[k], c)
                 /\ handle[stream[k].sid] = k => Follows(Coming, asked, InStep, k, Total(stream[k], c))
      BY <2>2 DEF PlaceInv, ChunkInv
    <3>2. stream[k] \in Streams BY <1>0 DEF Ids
    <3>3. Total(stream[k], c) \in Nat BY <3>1, <3>2, TotalType
    <3>4. stream[k].sid \in Sids /\ k # 0
      <4>1. k # 0 BY <1>0 DEF Ids
      <4> QED BY <3>2, <4>1 DEF Streams
    <3> QED BY <1>2, <3>1, <3>3, <3>4
  <2>3. \A k \in Nat \ Ids : k > 0 => Follows(Coming', asked, InStep, k, 0)
    BY <1>2 DEF PlaceInv, ChunkInv
  <2> QED BY <2>1, <2>2, <2>3 DEF ChunkInv, Ids
<1> QED BY <1>1, <1>3

\* The stream that the frame at hand names: the newest the reader has of its id.
LEMMA Named ==
  ASSUME BaseInv, PlaceInv, reader = "body", frame.cmd \in {"PSH", "FIN"}
  PROVE  /\ Of(frame) \in Ids /\ Of(frame) \in Nat \ {0} /\ No(frame) \in Nat
         /\ stream[Of(frame)].sid = frame.sid
         /\ \A j \in Ids : stream[j].sid = frame.sid => j <= Of(frame)
         /\ InStep => Of(frame) <= Len(asked) /\ asked[Of(frame)].sid = frame.sid
         /\ InStep /\ frame.cmd = "FIN" => asked[Of(frame)].fin
<1>1. Coming \in Seq(Frames) /\ Coming[1] = frame /\ Drops(Coming, wire) /\ wire \in Seq(Frames)
  BY ComingFacts DEF BaseInv, Types
<1>2. 1 \in 1 .. Len(Coming) /\ \A m \in 1 .. Len(Coming) : ~(m < 1) BY <1>1, Shifted
<1>3. Of(frame) \in Nat /\ No(frame) \in Nat BY <1>1, <1>2, MarkOfFrame
<1>4. NameOK(Coming, stream, asked, InStep) BY DEF PlaceInv, WireOK
<1>5. /\ Of(frame) > 0
      /\ InStep => Of(frame) <= Len(asked) /\ asked[Of(frame)].sid = frame.sid
      /\ InStep /\ frame.cmd = "FIN" => asked[Of(frame)].fin
      /\ \A j \in 1 .. Len(stream) : stream[j].sid = frame.sid => j <= Of(frame)
      /\ \/ Of(frame) <= Len(stream) /\ stream[Of(frame)].sid = frame.sid
         \/ \E n \in 1 .. Len(Coming) : n < 1 /\ Coming[n].cmd = "SYN" /\ Of(Coming[n]) = Of(frame)
  BY <1>1, <1>2, <1>4 DEF NameOK
<1>6. Of(frame) <= Len(stream) /\ stream[Of(frame)].sid = frame.sid BY <1>2, <1>5
<1>7. Len(stream) \in Nat BY ElementOf DEF BaseInv, Types
<1> QED BY <1>3, <1>5, <1>6, <1>7 DEF Ids

\* The next chunk of a stream is queued behind the others.
LEMMA FedGiven ==
  ASSUME NEW x \in Streams, NEW k, NEW c \in {0, 1}, NEW d \in Chunk, Given(k, x, c),
         d = <<k, Total(x, c) + 1>>
  PROVE  Given(k, Fed(x, d), c) /\ Total(Fed(x, d), c) = Total(x, c) + 1
<1>1. /\ Fed(x, d).at = x.at /\ Fed(x, d).tgot = x.tgot /\ Fed(x, d).queue = Append(x.queue, d)
  BY DEF Fed, Streams
<1>2. x.tgot \in Seq(Chunk) /\ x.queue \in Seq(Chunk) BY DEF Streams
<1> DEFINE Q == x.queue
           a == Len(x.tgot)
           b == Len(Q)
<1>3. a \in Nat /\ b \in Nat /\ c \in Nat BY <1>2
<1>4. Len(Append(Q, d)) = b + 1 /\ Append(Q, d)[b + 1] = d /\ \A n \in 1 .. b : Append(Q, d)[n] = Q[n]
  BY <1>2, AppendProperties
<1>5. Total(x, c) = c + a + b BY DEF Total
<1>6. \A n \in 1 .. b : Q[n] = <<k, n + c + a>> BY DEF Given
<1>7. Total(Fed(x, d), c) = c + a + Len(Append(Q, d)) BY <1>1 DEF Total
<1> HIDE DEF Q, a, b
<1>8. Total(Fed(x, d), c) = Total(x, c) + 1 BY <1>3, <1>4, <1>5, <1>7
<1>9. d = <<k, (b + 1) + c + a>>
  <2>1. Total(x, c) + 1 = (b + 1) + c + a BY <1>3, <1>5
  <2> QED BY <2>1
<1>10. ASSUME NEW n \in 1 .. Len(Append(Q, d)) PROVE Append(Q, d)[n] = <<k, n + c + a>>
  <2>1. n \in 1 .. b \/ n = b + 1 BY <1>3, <1>4
  <2> QED BY <1>4, <1>6, <1>9, <2>1
<1>11. Given(k, Fed(x, d), c)
  <2>1. \A n \in 1 .. Len(Fed(x, d).queue) : Fed(x, d).queue[n] = <<k, n + c + Len(Fed(x, d).tgot)>>
    BY <1>1, <1>10 DEF Q, a
  <2> QED BY <1>1, <2>1 DEF Given
<1> QED BY <1>8, <1>11

LEMMA PshChunks ==
  ASSUME BaseInv, PlaceInv, reader = "body", frame.cmd = "PSH", Drained(handle'),
         stream' = deliver_data(handle', frame.sid, frame.data), asked' = asked, InStep' = InStep,
         Coming' = wire
  PROVE  WireOK(Coming, stream, asked, InStep)' /\ ChunkInv'
<1>0. /\ Coming \in Seq(Frames) /\ Coming[1] = frame /\ Drops(Coming, wire) /\ wire \in Seq(Frames)
      /\ WireOK(Coming, stream, asked, InStep) /\ stream \in Seq(Streams) /\ Len(stream) \in Nat
      /\ frame.sid \in Sids /\ frame.data \in Chunk /\ frame \in Frames
  <2>1. frame \in Frames BY DEF BaseInv, Types
  <2>2. frame.sid \in Sids /\ frame.data \in Chunk BY <2>1 DEF Frames
  <2> QED BY <2>1, <2>2, ComingFacts, ElementOf DEF BaseInv, Types, PlaceInv
<1> DEFINE k == Of(frame)
           h == handle'
           on == h[frame.sid] # 0 /\ stream[h[frame.sid]].at # "done"
<1>1. /\ k \in Ids /\ k \in Nat \ {0} /\ stream[k].sid = frame.sid /\ No(frame) \in Nat
      /\ \A j \in Ids : stream[j].sid = frame.sid => j <= k
  BY Named
<1>2. /\ h[frame.sid] # 0 => h[frame.sid] = handle[frame.sid] /\ h[frame.sid] \in Ids
      /\ on => stream' = [stream EXCEPT ![h[frame.sid]] = Fed(stream[h[frame.sid]], frame.data)]
      /\ ~on => stream' = stream
      /\ Len(stream') = Len(stream)
      /\ \A j \in Ids : stream'[j].sid = stream[j].sid /\ stream'[j].at = stream[j].at
  BY <1>0, Delivery DEF BaseInv
<1>3. Ids' = Ids BY <1>2 DEF Ids
<1>4. WireOK(Coming, stream, asked, InStep)'
  <2>1. WireOK(wire, stream, asked, InStep) BY <1>0, WireDrop
  <2>2. WireOK(wire, stream', asked, InStep) BY <1>0, <1>2, <2>1, WireSids DEF Ids
  <2> QED BY <2>2
<1>5. on => h[frame.sid] = k
  <2>1. SUFFICES ASSUME on PROVE h[frame.sid] = k OBVIOUS
  <2>2. handle[frame.sid] \in Ids /\ stream[handle[frame.sid]].sid = frame.sid
        /\ \A j \in Ids : stream[j].sid = frame.sid => j <= handle[frame.sid]
    BY <1>0, <1>2, <2>1 DEF BaseInv, HandleInv
  <2>3. handle[frame.sid] <= k /\ k <= handle[frame.sid] BY <1>1, <2>2
  <2>4. handle[frame.sid] \in Nat BY <2>2 DEF Ids
  <2> QED BY <1>1, <1>2, <2>1, <2>3, <2>4
<1>6. \A s \in Sids : h[s] # 0 => h[s] = handle[s] BY DEF Drained
<1>7. ASSUME NEW j, NEW d \in Nat, Follows(Coming, asked, InStep, j, d), j # k
      PROVE  Follows(wire, asked, InStep, j, d)
  BY <1>0, <1>7, FollowsDrop
<1>8. ASSUME NEW j \in Ids, stream[j].at # "done"
      PROVE  \E c \in {0, 1} :
               /\ Given(j, stream'[j], c)
               /\ h[stream[j].sid] = j => Follows(wire, asked, InStep, j, Total(stream'[j], c))
  <2>1. PICK c \in {0, 1} :
          /\ Given(j, stream[j], c)
          /\ handle[stream[j].sid] = j => Follows(Coming, asked, InStep, j, Total(stream[j], c))
    BY <1>8 DEF PlaceInv, ChunkInv
  <2>2. stream[j] \in Streams BY <1>0 DEF Ids
  <2>3. Total(stream[j], c) \in Nat /\ stream[j].sid \in Sids /\ j # 0
    <3>1. j # 0 BY <1>0 DEF Ids
    <3> QED BY <2>1, <2>2, <3>1, TotalType DEF Streams
  <2>4. CASE j = k /\ on
    <3>1. stream'[j] = Fed(stream[j], frame.data) BY <1>0, <1>1, <1>2, <1>5, <2>4 DEF Ids
    <3>2. handle[stream[j].sid] = j BY <1>1, <1>2, <1>5, <2>4
    <3>3. /\ No(frame) = Total(stream[j], c) + 1
          /\ Follows(wire, asked, InStep, j, Total(stream[j], c) + 1)
      BY <1>0, <2>1, <2>3, <2>4, <3>2, FollowsDrop
    <3>4. frame.data = <<j, Total(stream[j], c) + 1>>
      <4>1. \A d \in Nat \X Nat : d = <<d[1], d[2]>> OBVIOUS
      <4>2. frame.data = <<Of(frame), No(frame)>> BY <1>0, <4>1 DEF Chunk, Of, No
      <4> QED BY <2>4, <3>3, <4>2
    <3>5. Given(j, stream'[j], c) /\ Total(stream'[j], c) = Total(stream[j], c) + 1
      BY <1>0, <2>1, <2>2, <3>1, <3>4, FedGiven
    <3> QED BY <2>1, <3>3, <3>5
  <2>5. CASE ~(j = k /\ on)
    <3>1. stream'[j] = stream[j] BY <1>0, <1>1, <1>2, <1>5, <2>5 DEF Ids
    <3>2. ASSUME h[stream[j].sid] = j PROVE Follows(wire, asked, InStep, j, Total(stream[j], c))
      <4>1. handle[stream[j].sid] = j BY <1>6, <2>3, <3>2
      <4>2. j # k BY <1>1, <1>8, <2>3, <2>5, <3>2
      <4> QED BY <1>7, <2>1, <2>3, <4>1, <4>2
    <3> QED BY <2>1, <3>1, <3>2
  <2> QED BY <2>4, <2>5
<1>9. ChunkInv'
  <2>1. ASSUME NEW j \in Ids, stream[j].at = "done" PROVE stream'[j].tgot = <<>>
    <3>1. stream'[j] = stream[j] BY <1>0, <1>1, <1>2, <1>5, <2>1 DEF Ids
    <3> QED BY <2>1, <3>1 DEF PlaceInv, ChunkInv
  <2>2. ASSUME NEW j \in Nat \ Ids, j > 0 PROVE Follows(wire, asked, InStep, j, 0)
    <3>1. Follows(Coming, asked, InStep, j, 0) BY <2>2 DEF PlaceInv, ChunkInv
    <3> QED BY <1>1, <1>7, <2>2, <3>1
  <2> QED BY <1>2, <1>3, <1>8, <2>1, <2>2 DEF ChunkInv
<1> QED BY <1>4, <1>9

\* A SYN: the new stream takes the handle of its id.
LEMMA SynChunks ==
  ASSUME BaseInv, ~cut, PlaceInv, reader = "body", frame.cmd = "SYN", NEW h, Drained(h),
         handle' = create_stream(h, frame.sid), stream' = Append(stream, NewStream(frame.sid)),
         asked' = asked, Listening' = Listening, InStep' = InStep, Coming' = wire
  PROVE  /\ SidOK(stream, asked, Listening)' /\ WireOK(Coming, stream, asked, InStep)'
         /\ ChunkInv' /\ LiveKeepsHandle'
<1>0. /\ Coming \in Seq(Frames) /\ Coming[1] = frame /\ Drops(Coming, wire) /\ wire \in Seq(Frames)
      /\ WireOK(Coming, stream, asked, InStep) /\ stream \in Seq(Streams) /\ Len(stream) \in Nat
      /\ frame.sid \in Sids /\ asked \in Seq(Requests) /\ Len(asked) \in Nat /\ DOMAIN asked = 1 .. Len(asked)
  <2>1. frame \in Frames BY DEF BaseInv, Types
  <2>2. frame.sid \in Sids BY <2>1 DEF Frames
  <2> QED BY <2>2, ComingFacts, ElementOf DEF BaseInv, Types, PlaceInv
<1> DEFINE K == Len(stream) + 1
           x == NewStream(frame.sid)
<1>1. x \in Streams /\ x.sid = frame.sid /\ x.at = "first" /\ x.tgot = <<>> /\ x.queue = <<>>
  BY <1>0, StreamTypes DEF NewStream
<1>2. /\ Len(stream') = K /\ stream'[K] = x /\ \A j \in 1 .. Len(stream) : stream'[j] = stream[j]
  BY <1>0, <1>1, AppendProperties
<1>3. handle' = [h EXCEPT ![frame.sid] = K] BY DEF create_stream
<1>4. h \in [Sids -> Nat] /\ \A s \in Sids : h[s] = handle[s] \/ h[s] = 0 BY DEF Drained
<1>5. handle'[frame.sid] = K /\ \A s \in Sids : s # frame.sid => handle'[s] = h[s] BY <1>0, <1>3, <1>4
<1>6. Alive BY DEF Alive
<1>7. SidOK(stream, asked, Listening)' /\ WireOK(Coming, stream, asked, InStep)'
  <2>1. CASE Listening
    <3>1. InStep = TRUE BY <1>6, <2>1 DEF InStep
    <3>2. WireOK(wire, Append(stream, x), asked, TRUE) BY <1>0, <1>1, <3>1, WireSyn
    <3>3. Listening' = TRUE BY <2>1 DEF Listening
    <3> QED BY <3>1, <3>2, <3>3 DEF WireOK, SidOK
  <2>2. CASE ~Listening
    <3>1. wire = <<>> BY <2>2 DEF PlaceInv, StepInv, Listening
    <3>2. Len(wire) = 0 BY <3>1
    <3>3. InStep' = FALSE /\ Listening' = FALSE BY <2>2 DEF InStep, Listening
    <3>4. WireOK(wire, stream', asked', FALSE) BY <3>2 DEF WireOK, SidOK, SynOK, NameOK, OrderOK
    <3> QED BY <3>3, <3>4 DEF WireOK, SidOK
  <2> QED BY <2>1, <2>2
<1>8. ASSUME NEW k, NEW d \in Nat, Follows(Coming, asked, InStep, k, d)
      PROVE  Follows(wire, asked, InStep, k, d)
  BY <1>0, <1>8, FollowsDrop
<1> HIDE DEF x
<1>9. ChunkInv'
  <2>1. \A k \in Ids' : k \in Ids \/ k = K BY <1>0, <1>2 DEF Ids
  <2>2. ASSUME NEW k \in Ids', stream'[k].at = "done" PROVE stream'[k].tgot = <<>>
    <3>1. k \in Ids /\ stream'[k] = stream[k] BY <1>1, <1>2, <2>1, <2>2 DEF Ids
    <3> QED BY <2>2, <3>1 DEF PlaceInv, ChunkInv
  <2>3. ASSUME NEW k \in Ids', stream'[k].at # "done"
        PROVE  \E c \in {0, 1} :
                 /\ Given(k, stream'[k], c)
                 /\ handle'[stream'[k].sid] = k => Follows(wire, asked, InStep, k, Total(stream'[k], c))
    <3>1. CASE k = K
      <4>1. K \in Nat \ Ids /\ K > 0 BY <1>0 DEF Ids
      <4>2. Follows(wire, asked, InStep, K, 0)
        <5>1. Follows(Coming, asked, InStep, K, 0) BY <4>1 DEF PlaceInv, ChunkInv
        <5> QED BY <1>8, <5>1
      <4>3. Given(K, x, 0)
        <5>1. Len(x.tgot) = 0 /\ Len(x.queue) = 0 BY <1>1
        <5>2. \A n \in 1 .. 0 : FALSE OBVIOUS
        <5> QED BY <1>1, <5>1, <5>2 DEF Given
      <4>4. Total(x, 0) = 0
        <5>1. Len(x.tgot) = 0 /\ Len(x.queue) = 0 BY <1>1
        <5> QED BY <5>1 DEF Total
      <4> QED BY <1>2, <3>1, <4>2, <4>3, <4>4
    <3>2. CASE k # K
      <4>1. k \in Ids /\ stream'[k] = stream[k] BY <1>2, <2>1, <2>3, <3>2 DEF Ids
      <4>2. PICK c \in {0, 1} :
              /\ Given(k, stream[k], c)
              /\ handle[stream[k].sid] = k => Follows(Coming, asked, InStep, k, Total(stream[k], c))
        BY <2>3, <4>1 DEF PlaceInv, ChunkInv
      <4>3. stream[k] \in Streams BY <1>0, <4>1 DEF Ids
      <4>4. Total(stream[k], c) \in Nat /\ stream[k].sid \in Sids /\ k # 0
        <5>1. k # 0 BY <1>0, <4>1 DEF Ids
        <5> QED BY <4>2, <4>3, <5>1, TotalType DEF Streams
      <4>5. handle'[stream[k].sid] = k => handle[stream[k].sid] = k BY <1>4, <1>5, <3>2, <4>4
      <4> QED BY <1>8, <4>1, <4>2, <4>4, <4>5
    <3> QED BY <3>1, <3>2
  <2>4. ASSUME NEW k \in Nat \ Ids', k > 0 PROVE Follows(wire, asked, InStep, k, 0)
    <3>1. k \in Nat \ Ids BY <1>0, <1>2, <2>4 DEF Ids
    <3>2. Follows(Coming, asked, InStep, k, 0) BY <2>4, <3>1 DEF PlaceInv, ChunkInv
    <3> QED BY <1>8, <3>2
  <2> QED BY <2>2, <2>3, <2>4 DEF ChunkInv
<1>10. LiveKeepsHandle'
  <2>1. SUFFICES ASSUME NEW i \in Running' \cap DOMAIN asked, Newest(i), asked[i].careful, ~asked[i].fin
                 PROVE  handle'[stream'[i].sid] = i
    BY DEF LiveKeepsHandle, Newest
  <2>2. i \in Ids' /\ stream'[i].at # "done" /\ i \in 1 .. Len(asked) BY <1>0, <2>1 DEF Running
  <2>3. CASE i = K BY <1>1, <1>2, <1>5, <2>3
  <2>4. CASE i # K
    <3>1. i \in Ids /\ stream'[i] = stream[i] BY <1>0, <1>2, <2>2, <2>4 DEF Ids
    <3>2. i \in Running BY <2>2, <3>1 DEF Running
    <3>3. h[stream[i].sid] = i BY <1>6, <2>1, <3>2, LiveDrained
    <3>4. stream[i].sid # frame.sid
      <4>1. Listening
        <5>1. asked # <<>> BY <1>0, <2>2
        <5> QED BY <5>1 DEF PlaceInv, StepInv, Listening
      <4>2. /\ K <= Len(asked) /\ \A j \in 1 .. K : asked[j].sid = stream'[j].sid
        BY <1>2, <1>7, <4>1 DEF SidOK
      <4>3. K \in 1 .. K /\ i \in 1 .. K /\ K \in 1 .. Len(asked) BY <1>0, <3>1, <4>2 DEF Ids
      <4>4. asked[K].sid = frame.sid /\ asked[i].sid = stream[i].sid BY <1>1, <1>2, <3>1, <4>2, <4>3
      <4>5. K <= i => i = K BY <1>0, <3>1 DEF Ids
      <4> QED BY <1>0, <2>1, <2>4, <4>3, <4>4, <4>5 DEF Newest
    <3>5. stream[i].sid \in Sids
      <4>1. stream[i] \in Streams BY <1>0, <3>1 DEF Ids
      <4> QED BY <4>1 DEF Streams
    <3> QED BY <1>5, <3>1, <3>3, <3>4, <3>5
  <2> QED BY <2>3, <2>4
<1> QED BY <1>7, <1>9, <1>10

\* A frame is carried out.
LEMMA FramePlace ==
  ASSUME BaseInv, ~cut, PlaceInv, session_reader_loop
  PROVE  PlaceInv'
<1> DEFINE h == apply_outgoing_stream_state
<1>0. BaseInv' BY ReaderBase DEF Reading
<1>1. /\ write_frame(jobs) /\ jobs' = <<>> /\ reader = "body" /\ reader' = "header"
      /\ UNCHANGED <<client, asked, wire, cut>>
  BY DEF session_reader_loop, Written, clientVars
<1>2. Alive /\ Alive' /\ Listening' = Listening /\ InStep' = InStep /\ Coming' = wire
  BY <1>1 DEF Alive, Listening, InStep, Coming
<1>3. StepInv' BY <1>1 DEF PlaceInv, StepInv, Listening
<1>4. Drained(h) BY DrainFacts DEF BaseInv
<1>5. h \in [Sids -> Nat] /\ \A s \in Sids : h[s] = handle[s] \/ h[s] = 0 BY <1>4 DEF Drained
<1>6. /\ Coming[1] = frame /\ Drops(Coming, wire) /\ wire \in Seq(Frames) /\ frame \in Frames
      /\ stream \in Seq(Streams) /\ Len(stream) \in Nat
  BY <1>1, ComingFacts, ElementOf DEF BaseInv, Types
<1>7. frame.cmd \in {"SYN", "PSH", "FIN"} => frame.sid \in Sids /\ frame.data \in Chunk BY <1>6 DEF Frames
<1> HIDE DEF h
<1>8. CASE frame.cmd = "SYN" /\ handle' = create_stream(h, frame.sid) /\ stream' = Append(stream, NewStream(frame.sid))
  <2>1. /\ SidOK(stream, asked, Listening)' /\ WireOK(Coming, stream, asked, InStep)'
        /\ ChunkInv' /\ LiveKeepsHandle'
    BY <1>1, <1>2, <1>4, <1>8, SynChunks
  <2>2. NewStream(frame.sid) \in Streams /\ NewStream(frame.sid).at = "first" /\ NewStream(frame.sid).tread = 0
    BY <1>7, <1>8, StreamTypes DEF NewStream
  <2>3. /\ Len(stream') = Len(stream) + 1 /\ stream'[Len(stream) + 1] = NewStream(frame.sid)
        /\ \A j \in 1 .. Len(stream) : stream'[j] = stream[j]
    BY <1>6, <1>8, <2>2, AppendProperties
  <2>4. \A j \in Ids' \ Ids : j = Len(stream) + 1 BY <1>6, <2>3 DEF Ids
  <2>5. \A j \in Ids' \ Ids : stream'[j].at = "first" /\ stream'[j].tread = 0 BY <2>2, <2>3, <2>4
  <2>6. \A j \in Ids : /\ stream'[j].at = stream[j].at /\ stream'[j].tread = stream[j].tread
                       /\ stream'[j].opening = stream[j].opening
    BY <2>3 DEF Ids
  <2> QED BY <1>0, <1>1, <1>2, <1>3, <2>1, <2>5, <2>6, LoopPlace
<1>9. CASE frame.cmd = "PSH" /\ handle' = h /\ stream' = deliver_data(h, frame.sid, frame.data)
  <2>1. Drained(handle') BY <1>4, <1>9
  <2>2. WireOK(Coming, stream, asked, InStep)' /\ ChunkInv' BY <1>1, <1>2, <1>9, <2>1, PshChunks
  <2>3. /\ Len(deliver_data(h, frame.sid, frame.data)) = Len(stream)
        /\ \A j \in Ids : /\ deliver_data(h, frame.sid, frame.data)[j].sid = stream[j].sid
                          /\ deliver_data(h, frame.sid, frame.data)[j].at = stream[j].at
                          /\ deliver_data(h, frame.sid, frame.data)[j].tread = stream[j].tread
                          /\ deliver_data(h, frame.sid, frame.data)[j].opening = stream[j].opening
    <3>1. frame.sid \in Sids /\ frame.data \in Chunk BY <1>7, <1>9
    <3> QED BY <1>4, <3>1, Delivery DEF BaseInv
  <2>4. /\ Len(stream') = Len(stream)
        /\ \A j \in Ids : /\ stream'[j].at = stream[j].at /\ stream'[j].tread = stream[j].tread
                          /\ stream'[j].opening = stream[j].opening /\ stream'[j].sid = stream[j].sid
    BY <1>9, <2>3
  <2>5. LiveKeepsHandle' BY <1>1, <1>2, <2>1, <2>4, LoopLive
  <2>6. SidOK(stream, asked, Listening)'
    <3>1. SidOK(stream, asked, Listening) BY DEF PlaceInv
    <3> QED BY <1>1, <1>2, <2>4, <3>1 DEF SidOK, Ids
  <2>7. Ids' = Ids BY <2>4 DEF Ids
  <2> QED BY <1>0, <1>1, <1>2, <1>3, <2>2, <2>4, <2>5, <2>6, <2>7, LoopPlace
<1>10. ASSUME frame.cmd \notin {"SYN", "PSH"}, stream' = stream, LiveKeepsHandle',
              \A s \in Sids : handle'[s] = handle[s] \/ handle'[s] = 0
       PROVE  PlaceInv'
  <2>1. WireOK(Coming, stream, asked, InStep)' /\ ChunkInv' BY <1>1, <1>2, <1>6, <1>10, PlainChunks
  <2>2. SidOK(stream, asked, Listening)' BY <1>1, <1>2, <1>10 DEF PlaceInv
  <2>3. Ids' = Ids BY <1>10 DEF Ids
  <2> QED BY <1>0, <1>1, <1>2, <1>3, <1>10, <2>1, <2>2, <2>3, LoopPlace
<1>11. CASE frame.cmd = "FIN" /\ handle' = close_stream(h, frame.sid) /\ stream' = stream
  <2>1. /\ \A s \in Sids : handle'[s] = handle[s] \/ handle'[s] = 0
        /\ \A s \in Sids : s # frame.sid => handle'[s] = h[s]
    BY <1>5, <1>11 DEF close_stream
  <2>2. LiveKeepsHandle'
    <3>1. Running' = Running BY <1>11 DEF Running, Ids
    <3>2. SUFFICES ASSUME NEW i \in Running \cap DOMAIN asked, Newest(i), asked[i].careful, ~asked[i].fin
                   PROVE  handle'[stream[i].sid] = i
      BY <1>1, <1>11, <3>1 DEF LiveKeepsHandle, Newest
    <3>3. h[stream[i].sid] = i BY <1>2, <1>4, <3>2, LiveDrained
    <3>4. i \in Ids /\ DOMAIN asked = 1 .. Len(asked) /\ Len(asked) \in Nat BY ElementOf DEF Running, BaseInv, Types
    <3>5. stream[i].sid # frame.sid
      <4>1. SUFFICES ASSUME stream[i].sid = frame.sid PROVE FALSE OBVIOUS
      <4>2. Listening
        <5>1. asked # <<>> BY <3>2, <3>4
        <5> QED BY <5>1 DEF PlaceInv, StepInv, Listening
      <4>3. InStep BY <1>2, <4>2 DEF InStep
      <4>4. /\ Of(frame) \in Nat \ {0} /\ \A j \in Ids : stream[j].sid = frame.sid => j <= Of(frame)
            /\ Of(frame) <= Len(asked) /\ asked[Of(frame)].sid = frame.sid /\ asked[Of(frame)].fin
        BY <1>1, <1>11, <4>3, Named
      <4>5. asked[i].sid = stream[i].sid BY <3>4, <4>2 DEF PlaceInv, SidOK, Ids
      <4>6. Of(frame) \in 1 .. Len(asked) BY <3>4, <4>4
      <4>7. Of(frame) <= i /\ i <= Of(frame) BY <3>2, <3>4, <4>1, <4>4, <4>5, <4>6 DEF Newest
      <4>8. i = Of(frame) BY <3>4, <4>4, <4>7 DEF Ids
      <4> QED BY <3>2, <4>4, <4>8
    <3>6. stream[i].sid \in Sids
      <4>1. stream[i] \in Streams BY <1>6, <3>4 DEF Ids
      <4> QED BY <4>1 DEF Streams
    <3> QED BY <2>1, <3>3, <3>5, <3>6
  <2> QED BY <1>10, <1>11, <2>1, <2>2
<1>12. CASE frame.cmd = "WASTE" /\ handle' = h /\ stream' = stream
  <2>1. Drained(handle') BY <1>4, <1>12
  <2>2. LiveKeepsHandle' BY <1>1, <1>2, <1>12, <2>1, LoopLive
  <2> QED BY <1>5, <1>10, <1>12, <2>2
<1> QED BY <1>8, <1>9, <1>11, <1>12 DEF session_reader_loop, h

\* What is queued is written; a header may be read.
LEMMA DrainPlace ==
  ASSUME BaseInv, ~cut, PlaceInv, ReadHeader \/ Poll
  PROVE  PlaceInv'
<1>0. BaseInv' /\ wire \in Seq(Frames) BY ReaderBase DEF Reading, BaseInv, Types
<1>1. /\ write_frame(jobs) /\ jobs' = <<>> /\ handle' = apply_outgoing_stream_state
      /\ UNCHANGED <<client, asked, cut, stream>>
  BY DEF ReadHeader, Poll, drain_write_jobs, Written, clientVars
<1>2. Alive /\ Alive' /\ reader' \in {"header", "body"} BY DEF ReadHeader, Poll, Alive, PlaceInv, StepInv
<1>3. Listening' = Listening /\ InStep' = InStep BY <1>1, <1>2 DEF Listening, InStep
<1>4. Coming' = Coming
  <2>1. CASE ReadHeader
    <3>1. Coming = wire /\ Coming' = <<Head(wire)>> \o Tail(wire) /\ wire # <<>>
      BY <2>1 DEF ReadHeader, Coming
    <3>2. <<Head(wire)>> \o Tail(wire) = wire
      <4> DEFINE H == <<Head(wire)>>
                 T == Tail(wire)
      <4>1. /\ Head(wire) \in Frames /\ T \in Seq(Frames) /\ Len(T) = Len(wire) - 1
            /\ \A i \in 1 .. Len(T) : T[i] = wire[i + 1]
        BY <1>0, <3>1, HeadTailProperties
      <4>2. H \in Seq(Frames) /\ Len(H) = 1 /\ H[1] = wire[1] BY <1>0, <3>1, <4>1
      <4>3. Len(wire) \in Nat /\ Len(wire) > 0 BY <1>0, <3>1
      <4> HIDE DEF H, T
      <4>4. /\ H \o T \in Seq(Frames) /\ Len(H \o T) = Len(H) + Len(T)
            /\ \A i \in 1 .. Len(H) + Len(T) : (H \o T)[i] = IF i <= Len(H) THEN H[i] ELSE T[i - Len(H)]
        <5>1. H \in Seq(Frames) /\ T \in Seq(Frames) BY <4>1, <4>2
        <5> QED BY <5>1, ConcatProperties
      <4>5. Len(H \o T) = Len(wire) BY <4>1, <4>2, <4>3, <4>4
      <4>6. ASSUME NEW i \in 1 .. Len(wire) PROVE (H \o T)[i] = wire[i]
        <5>1. CASE i = 1 BY <4>1, <4>2, <4>3, <4>4, <5>1
        <5>2. CASE i # 1
          <6>1. i \in 1 .. Len(H) + Len(T) /\ ~(i <= Len(H)) /\ i - Len(H) = i - 1 /\ i - 1 \in 1 .. Len(T)
                /\ (i - 1) + 1 = i
            BY <4>1, <4>2, <4>3, <5>2
          <6>2. (H \o T)[i] = T[i - 1] BY <4>4, <6>1
          <6>3. T[i - 1] = wire[(i - 1) + 1] BY <4>1, <6>1
          <6> QED BY <6>1, <6>2, <6>3
        <5> QED BY <5>1, <5>2
      <4>7. H \o T = wire BY <1>0, <4>4, <4>5, <4>6, SeqEqual
      <4> QED BY <4>7 DEF H, T
    <3> QED BY <3>1, <3>2
  <2>2. CASE Poll BY <2>2 DEF Poll, Coming
  <2> QED BY <2>1, <2>2
<1>5. StepInv'
  <2>1. client = "gone" => wire' = <<>> BY DEF ReadHeader, Poll, PlaceInv, StepInv
  <2> QED BY <1>1, <1>2, <2>1 DEF PlaceInv, StepInv, Listening
<1>6. Drained(handle') BY <1>1, DrainFacts DEF BaseInv
<1>7. WireOK(Coming, stream, asked, InStep)' /\ ChunkInv' BY <1>1, <1>3, <1>4, <1>6, PlainChunks DEF Drained
<1>8. SidOK(stream, asked, Listening)' BY <1>1, <1>3 DEF PlaceInv
<1>9. LiveKeepsHandle' BY <1>1, <1>2, <1>6, LoopLive
<1>10. Ids' = Ids BY <1>1 DEF Ids
<1> QED BY <1>0, <1>1, <1>2, <1>5, <1>7, <1>8, <1>9, <1>10, LoopPlace

\* The settings are read.
LEMMA SettingsPlace ==
  ASSUME BaseInv, ~cut, PlaceInv, complete_settings_handshake
  PROVE  PlaceInv'
<1>1. /\ reader = "settings" /\ wire # <<>> /\ wire' = Tail(wire) /\ reader' = "header"
      /\ UNCHANGED <<client, asked, frame, cut, handle, stream, jobs, got>> /\ wire \in Seq(Frames)
  BY DEF complete_settings_handshake, read_exact, clientVars, BaseInv, Types
<1>2. client # "gone" BY <1>1 DEF PlaceInv, StepInv
<1>3. /\ Listening /\ Listening' /\ InStep = TRUE /\ InStep' = TRUE /\ Alive' = Alive
      /\ Coming = wire /\ Coming' = Tail(wire) /\ Log' = Log
  BY <1>1, <1>2 DEF Listening, InStep, Alive, Coming, Log
<1>4. wire[1].cmd = "SETTINGS" BY <1>1, <1>3 DEF PlaceInv, StepInv
<1>5. Tail(wire) \in Seq(Frames) /\ Drops(wire, Tail(wire))
  <2>1. /\ Tail(wire) \in Seq(Frames) /\ Len(Tail(wire)) = Len(wire) - 1 /\ Len(wire) \in Nat
        /\ \A i \in 1 .. Len(Tail(wire)) : Tail(wire)[i] = wire[i + 1]
    BY <1>1, HeadTailProperties, ElementOf
  <2> QED BY <2>1 DEF Drops
<1>6. WireOK(Coming, stream, asked, InStep)' /\ ChunkInv' BY <1>1, <1>3, <1>4, <1>5, PlainChunks
<1>7. StepInv' BY <1>1, <1>2 DEF StepInv
<1>8. SidOK(stream, asked, Listening)'
  <2>1. SidOK(stream, asked, Listening) BY DEF PlaceInv
  <2> QED BY <1>1, <1>3, <2>1 DEF SidOK
<1>9. LogInv' /\ MarkInv' BY <1>1, <1>3 DEF PlaceInv, LogInv, MarkInv, Ids
<1>10. LiveKeepsHandle' BY <1>1, <1>3 DEF PlaceInv, LiveKeepsHandle, Running, Newest, Ids
<1> QED BY <1>6, <1>7, <1>8, <1>9, <1>10 DEF PlaceInv

\* The session ends: what was not written is lost.
LEMMA ReturnPlace ==
  ASSUME BaseInv, ~cut, PlaceInv, Return, write_frame(jobs) \/ got' = got
  PROVE  PlaceInv'
<1>1. /\ reader' = "ended" /\ handle' = [s \in Sids |-> 0] /\ jobs' = <<>> /\ wire' = <<>>
      /\ UNCHANGED <<client, asked, cut, stream>>
  BY DEF Return, clientVars
<1>2. /\ Listening' = Listening /\ InStep' = FALSE /\ Coming' = <<>> /\ Alive' = FALSE /\ Ids' = Ids
  BY <1>1 DEF Listening, InStep, Coming, Alive, Ids
<1>3. StepInv' BY <1>1 DEF PlaceInv, StepInv, Listening
<1>4. SidOK(stream, asked, Listening)' BY <1>1, <1>2 DEF PlaceInv
<1>5. Coming \in Seq(Frames) /\ stream \in Seq(Streams) /\ Len(stream) \in Nat /\ asked \in Seq(Requests)
  BY ComingFacts, ElementOf DEF BaseInv, Types
<1>6. <<>> \in Seq(Frames) /\ Begins(<<>>, Coming)
  <2>1. Len(<<>>) = 0 /\ Len(Coming) \in Nat BY <1>5
  <2>2. \A m \in 1 .. 0 : FALSE OBVIOUS
  <2> QED BY <2>1, <2>2, EmptySeq DEF Begins
<1>7. /\ WireOK(<<>>, stream, asked, FALSE)
      /\ \A k, d : Follows(Coming, asked, InStep, k, d) => Follows(<<>>, asked, FALSE, k, d)
  BY <1>5, <1>6, WireCut DEF PlaceInv
<1>8. WireOK(Coming, stream, asked, InStep)' BY <1>1, <1>2, <1>7
<1>9. ChunkInv'
  <2>1. ASSUME NEW k \in Ids PROVE handle'[stream[k].sid] # k
    <3>1. stream[k] \in Streams /\ k # 0 BY <1>5 DEF Ids
    <3>2. stream[k].sid \in Sids BY <3>1 DEF Streams
    <3> QED BY <1>1, <3>1, <3>2
  <2>2. \A k \in Ids : stream[k].at # "done" => \E c \in {0, 1} : Given(k, stream[k], c)
    BY DEF PlaceInv, ChunkInv
  <2>3. \A k \in Ids : stream[k].at = "done" => stream[k].tgot = <<>> BY DEF PlaceInv, ChunkInv
  <2>4. \A k \in Nat \ Ids : k > 0 => Follows(<<>>, asked, FALSE, k, 0) BY <1>7 DEF PlaceInv, ChunkInv
  <2> QED BY <1>1, <1>2, <2>1, <2>2, <2>3, <2>4 DEF ChunkInv
<1>10. ASSUME Listening' PROVE LogInv' /\ MarkInv'
  <2>1. Listening /\ LogInv /\ MarkInv BY <1>2, <1>10 DEF PlaceInv
  <2>2. /\ Log \in Seq(Answers) /\ Len(got) \in Nat /\ Len(jobs) \in Nat /\ Len(Log) = Len(got) + Len(jobs)
        /\ \A n \in 1 .. Len(got) : Log[n] = got[n]
    BY LogFacts DEF BaseInv
  <2>3. got \in Seq(Answers) BY DEF BaseInv, Types
  <2>4. got' = got \/ got' = Log BY <2>1 DEF write_frame, Listening, Log
  <2>5. got' \in Seq(Answers) BY <2>2, <2>3, <2>4
  <2>6. Log' = got'
    <3>1. Log' = got' \o <<>> BY <1>1 DEF Log
    <3> QED BY <2>5, <3>1, ConcatEmptySeq
  <2>7. Begins(got', Log) /\ Len(got) <= Len(got') BY <2>2, <2>4 DEF Begins
  <2>8. LogInv'
    <3>1. SUFFICES ASSUME NEW i \in Ids PROVE LogOK(got', i, stream[i]) /\ StateOK(got', i, stream[i], FALSE)
      BY <1>1, <1>2, <2>6 DEF LogInv
    <3>2. LogOK(Log, i, stream[i]) /\ StateOK(Log, i, stream[i], Alive) BY <2>1 DEF LogInv
    <3> QED BY <2>2, <2>5, <2>7, <3>2, LogCut
  <2>9. MarkInv'
    <3>1. SUFFICES ASSUME NEW k \in 1 .. Len(asked) PROVE asked[k].mark <= Len(got') /\ MarkOK(got', asked, k)
      BY <1>1, <2>6 DEF MarkInv
    <3>2. asked[k].mark <= Len(got) /\ MarkOK(Log, asked, k) BY <2>1 DEF MarkInv
    <3>3. asked[k].mark \in Nat
      <4>1. asked[k] \in Requests BY <1>5
      <4> QED BY <4>1 DEF Requests
    <3>4. Len(got') \in Nat BY <2>5
    <3>5. asked[k].mark <= Len(got') BY <2>2, <2>7, <3>2, <3>3, <3>4
    <3> QED BY <2>2, <2>5, <2>7, <3>2, <3>3, <3>5, MarkCut
  <2> QED BY <2>8, <2>9
<1>11. LiveKeepsHandle' BY <1>2 DEF LiveKeepsHandle
<1> QED BY <1>3, <1>4, <1>8, <1>9, <1>10, <1>11 DEF PlaceInv

LEMMA ReaderPlace ==
  ASSUME BaseInv, ~cut, PlaceInv, Reading
  PROVE  PlaceInv'
<1>1. ~ReadLostBody BY DEF ReadLostBody, PlaceInv, StepInv
<1>2. ReadAlert => Return /\ write_frame(jobs) BY DEF ReadAlert
<1>3. ReaderFails => Return /\ (write_frame(jobs) \/ got' = got) BY DEF ReaderFails
<1> QED BY <1>1, <1>2, <1>3, SettingsPlace, DrainPlace, FramePlace, ReturnPlace DEF Reading

-----------------------------------------------------------------------------
(* The steps of the threads *)

\* Stream i goes on as y and queues js.
ThreadStep(i, y, js) ==
  /\ i \in Ids /\ y \in Streams /\ js \in Seq(Answers) /\ ThreadFrame
  /\ stream' = [stream EXCEPT ![i] = y] /\ jobs' = jobs \o js
  /\ y.sid = stream[i].sid /\ stream[i].at # "done"
  /\ \A n \in 1 .. Len(js) : /\ js[n].i = i /\ js[n].sid = y.sid
                             /\ js[n].cmd = "FIN" => y.at = "done"

\* The streams after the step.
LEMMA StepFacts ==
  ASSUME Types, NEW i, NEW y, NEW js, ThreadStep(i, y, js)
  PROVE  /\ stream' \in Seq(Streams) /\ Len(stream') = Len(stream) /\ Len(stream) \in Nat /\ Ids' = Ids
         /\ stream'[i] = y /\ \A j \in Ids : j # i => stream'[j] = stream[j]
         /\ \A j \in Ids : stream'[j].sid = stream[j].sid
<1>1. stream \in Seq(Streams) /\ i \in 1 .. Len(stream) /\ y \in Streams /\ y.sid = stream[i].sid
      /\ stream' = [stream EXCEPT ![i] = y]
  BY DEF Types, ThreadStep, Ids
<1>2. /\ stream' \in Seq(Streams) /\ Len(stream') = Len(stream)
      /\ \A j \in 1 .. Len(stream) : stream'[j] = IF j = i THEN y ELSE stream[j]
  BY <1>1, ExceptSeq
<1> QED BY <1>1, <1>2 DEF Ids

LEMMA ThreadBase ==
  ASSUME BaseInv, NEW i, NEW y, NEW js, ThreadStep(i, y, js)
  PROVE  BaseInv'
<1>0. Types /\ HandleInv /\ OwnedInv /\ jobs \in Seq(Answers) /\ js \in Seq(Answers) /\ Len(jobs) \in Nat
      /\ Len(js) \in Nat
  BY ElementOf DEF BaseInv, Types, ThreadStep
<1>1. /\ UNCHANGED <<client, asked, nsent, wire, reader, frame, cut, handle, got>> /\ jobs' = jobs \o js
  BY DEF ThreadStep, ThreadFrame, clientVars
<1>2. /\ stream' \in Seq(Streams) /\ Len(stream') = Len(stream) /\ Len(stream) \in Nat
      /\ stream'[i] = y /\ \A j \in Ids : j # i => stream'[j] = stream[j]
      /\ \A j \in Ids : stream'[j].sid = stream[j].sid
  BY <1>0, StepFacts
<1>3. /\ jobs' \in Seq(Answers) /\ Len(jobs') = Len(jobs) + Len(js)
      /\ \A n \in 1 .. Len(jobs) + Len(js) : jobs'[n] = IF n <= Len(jobs) THEN jobs[n] ELSE js[n - Len(jobs)]
  BY <1>0, <1>1, ConcatProperties
<1>4. Types' BY <1>0, <1>1, <1>2, <1>3 DEF Types
<1>5. HandleInv' BY <1>0, <1>1, <1>2, HandleKept
<1>6. i \in Ids /\ stream[i].at # "done" /\ y.sid = stream[i].sid BY DEF ThreadStep
<1>7. \A f : Owned(f, stream) => Owned(f, stream') BY <1>2, <1>6 DEF Owned, Ids
<1>8. \A n \in 1 .. Len(js) : Owned(js[n], stream')
  <2>1. SUFFICES ASSUME NEW n \in 1 .. Len(js) PROVE Owned(js[n], stream') OBVIOUS
  <2>2. js[n].i = i /\ js[n].sid = y.sid /\ (js[n].cmd = "FIN" => y.at = "done") BY DEF ThreadStep
  <2> QED BY <1>2, <1>6, <2>2 DEF Owned, Ids
<1>9. ASSUME NEW n \in 1 .. Len(jobs') PROVE Owned(jobs'[n], stream')
  <2>1. CASE n <= Len(jobs)
    <3>1. n \in 1 .. Len(jobs) /\ jobs'[n] = jobs[n] BY <1>0, <1>3, <2>1
    <3> QED BY <1>0, <1>7, <3>1 DEF OwnedInv
  <2>2. CASE ~(n <= Len(jobs))
    <3>1. n - Len(jobs) \in 1 .. Len(js) /\ jobs'[n] = js[n - Len(jobs)] BY <1>0, <1>3, <2>2
    <3> QED BY <1>8, <3>1
  <2> QED BY <2>1, <2>2
<1>10. OwnedInv' BY <1>0, <1>1, <1>7, <1>9 DEF OwnedInv
<1> QED BY <1>4, <1>5, <1>10 DEF BaseInv

\* What stream i has been given is passed on in order.
Passes(i, x, y) ==
  \/ y.at = "done" /\ y.tgot = <<>>
  \/ /\ y.at # "done"
     /\ \A c \in {0, 1} : Given(i, x, c) => \E e \in {0, 1} : Given(i, y, e) /\ Total(y, e) = Total(x, c)

LEMMA ThreadPlace ==
  ASSUME BaseInv, ~cut, PlaceInv, NEW i, NEW y, NEW js, ThreadStep(i, y, js), Passes(i, stream[i], y),
         Listening => LogOK(Log \o js, i, y) /\ StateOK(Log \o js, i, y, Alive)
  PROVE  PlaceInv'
<1>0. /\ Types /\ js \in Seq(Answers) /\ jobs \in Seq(Answers) /\ got \in Seq(Answers)
      /\ asked \in Seq(Requests) /\ Len(js) \in Nat /\ i \in Ids /\ stream[i].at # "done" /\ stream \in Seq(Streams)
  BY ElementOf DEF BaseInv, Types, ThreadStep
<1>1. UNCHANGED <<client, asked, nsent, wire, reader, frame, cut, handle, got>> /\ jobs' = jobs \o js
  BY DEF ThreadStep, ThreadFrame, clientVars
<1>2. /\ stream' \in Seq(Streams) /\ Len(stream') = Len(stream) /\ Len(stream) \in Nat /\ Ids' = Ids
      /\ stream'[i] = y /\ \A j \in Ids : j # i => stream'[j] = stream[j]
      /\ \A j \in Ids : stream'[j].sid = stream[j].sid
  BY <1>0, StepFacts
<1>3. Listening' = Listening /\ InStep' = InStep /\ Alive' = Alive /\ Coming' = Coming
  BY <1>1 DEF Listening, InStep, Alive, Coming
<1>4. StepInv' BY <1>1 DEF PlaceInv, StepInv, Listening
<1>5. SidOK(stream, asked, Listening)'
  <2>1. SidOK(stream, asked, Listening) BY DEF PlaceInv
  <2> QED BY <1>1, <1>2, <1>3, <2>1 DEF SidOK, Ids
<1>6. WireOK(Coming, stream, asked, InStep)'
  <2>1. Coming \in Seq(Frames) /\ WireOK(Coming, stream, asked, InStep) BY <1>0, ComingFacts DEF PlaceInv
  <2>2. WireOK(Coming, stream', asked, InStep) BY <1>2, <2>1, WireSids DEF Ids
  <2> QED BY <1>1, <1>3, <2>2
<1>7. ChunkInv'
  <2>1. ASSUME NEW k \in Ids, stream'[k].at = "done" PROVE stream'[k].tgot = <<>>
    <3>1. CASE k = i BY <1>2, <2>1, <3>1 DEF Passes
    <3>2. CASE k # i BY <1>2, <2>1, <3>2 DEF PlaceInv, ChunkInv
    <3> QED BY <3>1, <3>2
  <2>2. ASSUME NEW k \in Ids, stream'[k].at # "done"
        PROVE  \E c \in {0, 1} :
                 /\ Given(k, stream'[k], c)
                 /\ handle[stream[k].sid] = k => Follows(Coming, asked, InStep, k, Total(stream'[k], c))
    <3>1. stream[k].at # "done" BY <1>0, <1>2, <2>2
    <3>2. PICK c \in {0, 1} :
            /\ Given(k, stream[k], c)
            /\ handle[stream[k].sid] = k => Follows(Coming, asked, InStep, k, Total(stream[k], c))
      BY <3>1 DEF PlaceInv, ChunkInv
    <3>3. CASE k = i
      <4>1. PICK e \in {0, 1} : Given(i, y, e) /\ Total(y, e) = Total(stream[i], c)
        BY <1>2, <2>2, <3>2, <3>3 DEF Passes
      <4> QED BY <1>2, <3>2, <3>3, <4>1
    <3>4. CASE k # i BY <1>2, <3>2, <3>4
    <3> QED BY <3>3, <3>4
  <2>3. \A k \in Nat \ Ids : k > 0 => Follows(Coming, asked, InStep, k, 0) BY DEF PlaceInv, ChunkInv
  <2> QED BY <1>1, <1>2, <1>3, <2>1, <2>2, <2>3 DEF ChunkInv
<1>8. ASSUME Listening' PROVE LogInv' /\ MarkInv'
  <2>1. Listening /\ LogInv /\ MarkInv BY <1>3, <1>8 DEF PlaceInv
  <2>2. Log \in Seq(Answers) /\ Len(got) \in Nat /\ Len(jobs) \in Nat /\ Len(Log) = Len(got) + Len(jobs)
    BY <1>0, LogFacts
  <2> DEFINE M == Log \o js
  <2>3. Log' = M
    <3>1. Log' = got \o (jobs \o js) BY <1>1 DEF Log
    <3>2. got \in Seq(Answers) /\ jobs \in Seq(Answers) /\ js \in Seq(Answers) BY <1>0
    <3>3. (got \o jobs) \o js = got \o (jobs \o js) BY <3>2, ConcatAssociative
    <3> QED BY <3>1, <3>3 DEF Log
  <2>4. /\ M \in Seq(Answers) /\ Len(M) = Len(Log) + Len(js)
        /\ \A n \in 1 .. Len(Log) + Len(js) : M[n] = IF n <= Len(Log) THEN Log[n] ELSE js[n - Len(Log)]
    <3>1. js \in Seq(Answers) /\ Log \in Seq(Answers) BY <1>0, <2>2
    <3> QED BY <3>1, ConcatProperties
  <2>5. Len(Log) \in Nat BY <2>2
  <2> HIDE DEF M
  <2>6. Begins(Log, M) BY <1>0, <2>4, <2>5 DEF Begins
  <2>7. \A n \in 1 .. Len(M) : n \in 1 .. Len(Log) \/ M[n].i = i
    <3>1. SUFFICES ASSUME NEW n \in 1 .. Len(M), ~(n <= Len(Log)) PROVE M[n].i = i BY <2>5
    <3>2. n - Len(Log) \in 1 .. Len(js) /\ n \in 1 .. Len(Log) + Len(js) BY <1>0, <2>4, <2>5, <3>1
    <3>3. M[n] = js[n - Len(Log)] BY <2>4, <3>1, <3>2
    <3> QED BY <3>2, <3>3 DEF ThreadStep
  <2>8. LogInv'
    <3>1. SUFFICES ASSUME NEW j \in Ids PROVE LogOK(M, j, stream'[j]) /\ StateOK(M, j, stream'[j], Alive)
      BY <1>2, <1>3, <2>3 DEF LogInv
    <3>2. CASE j = i BY <1>2, <2>1, <3>2 DEF M
    <3>3. CASE j # i
      <4>1. LogOK(Log, j, stream[j]) /\ StateOK(Log, j, stream[j], Alive) BY <2>1 DEF LogInv
      <4>2. \A n \in 1 .. Len(M) : n \in 1 .. Len(Log) \/ M[n].i # j BY <2>7, <3>3
      <4>3. LogOK(M, j, stream[j]) /\ StateOK(M, j, stream[j], Alive)
        BY <2>2, <2>4, <2>6, <4>1, <4>2, OtherAnswer
      <4> QED BY <1>2, <3>3, <4>3
    <3> QED BY <3>2, <3>3
  <2>9. MarkInv'
    <3>1. SUFFICES ASSUME NEW k \in 1 .. Len(asked) PROVE asked[k].mark <= Len(got) /\ MarkOK(M, asked, k)
      BY <1>1, <2>3 DEF MarkInv
    <3>2. asked[k].mark <= Len(got) /\ MarkOK(Log, asked, k) BY <2>1 DEF MarkInv
    <3>3. asked[k].mark \in Nat
      <4>1. asked[k] \in Requests BY <1>0
      <4> QED BY <4>1 DEF Requests
    <3>4. asked[k].mark <= Len(Log) BY <2>2, <3>2, <3>3
    <3> QED BY <2>2, <2>4, <2>6, <3>2, <3>3, <3>4, MarkMore
  <2> QED BY <2>8, <2>9
<1>9. LiveKeepsHandle'
  <2>1. Running' \subseteq Running BY <1>0, <1>2 DEF Running
  <2>2. SUFFICES ASSUME Alive, NEW j \in Running \cap DOMAIN asked, Newest(j), asked[j].careful, ~asked[j].fin
                 PROVE  handle[stream'[j].sid] = j
    BY <1>1, <1>3, <2>1 DEF LiveKeepsHandle, Newest
  <2>3. handle[stream[j].sid] = j BY <2>2 DEF PlaceInv, LiveKeepsHandle
  <2> QED BY <1>2, <2>2, <2>3 DEF Running
<1> QED BY <1>4, <1>5, <1>6, <1>7, <1>8, <1>9 DEF PlaceInv

\* A thread that goes on without a word.
Silent(x, y) ==
  /\ y.tread = x.tread
  /\ \/ y.at = "done"
     \/ /\ Unanswered(y) <=> Unanswered(x)
        /\ y.at \in {"first", "connect"} => x.at \in {"first", "connect"}

LEMMA SilentStep ==
  ASSUME IInv, NEW i \in Ids, NEW y \in Streams, ThreadFrame, stream' = [stream EXCEPT ![i] = y],
         jobs' = jobs, y.sid = stream[i].sid, stream[i].at # "done",
         Passes(i, stream[i], y), Silent(stream[i], y)
  PROVE  IInv'
<1>0. BaseInv /\ jobs \in Seq(Answers) BY DEF IInv, BaseInv, Types
<1>1. ThreadStep(i, y, <<>>)
  <2>1. jobs \o <<>> = jobs BY <1>0, ConcatEmptySeq
  <2>2. <<>> \in Seq(Answers) /\ Len(<<>>) = 0 BY EmptySeq
  <2>3. \A n \in 1 .. 0 : FALSE OBVIOUS
  <2> QED BY <2>1, <2>2, <2>3 DEF ThreadStep
<1>2. BaseInv' BY <1>0, <1>1, ThreadBase
<1>3. ASSUME ~cut PROVE PlaceInv'
  <2>1. PlaceInv BY <1>3 DEF IInv
  <2>2. ASSUME Listening PROVE LogOK(Log \o <<>>, i, y) /\ StateOK(Log \o <<>>, i, y, Alive)
    <3>1. Log \in Seq(Answers) BY <1>0, LogFacts DEF BaseInv
    <3>2. Log \o <<>> = Log BY <3>1, ConcatEmptySeq
    <3>3. LogOK(Log, i, stream[i]) /\ StateOK(Log, i, stream[i], Alive) BY <2>1, <2>2 DEF PlaceInv, LogInv
    <3>4. LogOK(Log, i, y) /\ StateOK(Log, i, y, Alive) BY <3>3, NoAnswer DEF Silent
    <3> QED BY <3>2, <3>4
  <2> QED BY <1>0, <1>1, <1>3, <2>1, <2>2, ThreadPlace
<1>4. cut' = cut BY DEF ThreadFrame
<1> QED BY <1>2, <1>3, <1>4 DEF IInv, BaseInv

\* A thread that has returned.
Ended(x, y) ==
  y \in Streams /\ y.sid = x.sid /\ y.at = "done" /\ y.tgot = <<>> /\ y.tread = x.tread

LEMMA OverFacts ==
  ASSUME Types, NEW i \in Ids
  PROVE  /\ stream[i] \in Streams
         /\ Ended(stream[i], Over(i)) /\ Ended(stream[i], [Over(i) EXCEPT !.failed = TRUE])
<1>1. stream[i] \in Streams BY DEF Types, Ids
<1>2. stream[i].sid \in Sids /\ stream[i].tread \in Nat BY <1>1 DEF Streams
<1> DEFINE s == stream[i].sid
           t == stream[i].tread
<1>3. <<>> \in Seq(Chunk) BY EmptySeq
<1>4. Over(i) = [NewStream(s) EXCEPT !.at = "done", !.tread = t] BY DEF Over
<1> HIDE DEF s, t
<1>5. s \in Sids /\ t \in Nat BY <1>2 DEF s, t
<1>6. /\ Over(i) \in Streams /\ Over(i).sid = s /\ Over(i).at = "done" /\ Over(i).tgot = <<>>
      /\ Over(i).tread = t
  BY <1>3, <1>4, <1>5 DEF NewStream, Streams, Places
<1>7. /\ [Over(i) EXCEPT !.failed = TRUE] \in Streams
      /\ [Over(i) EXCEPT !.failed = TRUE].sid = s /\ [Over(i) EXCEPT !.failed = TRUE].at = "done"
      /\ [Over(i) EXCEPT !.failed = TRUE].tgot = <<>> /\ [Over(i) EXCEPT !.failed = TRUE].tread = t
  BY <1>6 DEF Streams
<1> QED BY <1>1, <1>6, <1>7 DEF Ended, s, t

\* A thread that returns without a word.
LEMMA EndStep ==
  ASSUME IInv, NEW i \in Ids, ThreadFrame, Done(i) \/ Failed(i), jobs' = jobs, stream[i].at # "done"
  PROVE  IInv'
<1>1. /\ Ended(stream[i], Over(i)) /\ Ended(stream[i], [Over(i) EXCEPT !.failed = TRUE])
  BY OverFacts DEF IInv
<1>2. ASSUME NEW y, Ended(stream[i], y), stream' = [stream EXCEPT ![i] = y] PROVE IInv'
  <2>1. Passes(i, stream[i], y) /\ Silent(stream[i], y) BY <1>2 DEF Ended, Passes, Silent
  <2> QED BY <1>2, <2>1, SilentStep DEF Ended
<1> QED BY <1>1, <1>2 DEF Done, Failed

\* A thread that queues one frame.
Says(x, y, f) ==
  \/ /\ f.cmd \in {"SYNACK", "SYNACK_ERROR"} /\ Unanswered(x) /\ ~Unanswered(y) /\ y.tread = x.tread
     /\ f.cmd = "SYNACK_ERROR" => y.at = "done"
  \/ /\ f.cmd = "PSH" /\ ~Unanswered(x) /\ ~Unanswered(y) /\ y.at \notin {"first", "connect"}
     /\ f.n = x.tread + 1 /\ y.tread = f.n
  \/ f.cmd = "FIN" /\ y.at = "done" /\ y.tread = x.tread

LEMMA SayStep ==
  ASSUME IInv, Alive, NEW i \in Ids, NEW y \in Streams, NEW f \in Answers, ThreadFrame,
         stream' = [stream EXCEPT ![i] = y], jobs' = jobs \o <<f>>,
         y.sid = stream[i].sid, stream[i].at # "done", f.i = i, f.sid = stream[i].sid,
         Passes(i, stream[i], y), Says(stream[i], y, f)
  PROVE  IInv'
<1>0. BaseInv /\ jobs \in Seq(Answers) BY DEF IInv, BaseInv, Types
<1>1. ThreadStep(i, y, <<f>>)
  <2>1. <<f>> \in Seq(Answers) /\ Len(<<f>>) = 1 /\ <<f>>[1] = f OBVIOUS
  <2>2. \A n \in 1 .. 1 : n = 1 OBVIOUS
  <2>3. f.cmd = "FIN" => y.at = "done" BY DEF Says
  <2> QED BY <2>1, <2>2, <2>3 DEF ThreadStep
<1>2. BaseInv' BY <1>0, <1>1, ThreadBase
<1>3. ASSUME ~cut PROVE PlaceInv'
  <2>1. PlaceInv BY <1>3 DEF IInv
  <2>2. ASSUME Listening PROVE LogOK(Log \o <<f>>, i, y) /\ StateOK(Log \o <<f>>, i, y, Alive)
    <3>1. Log \in Seq(Answers) BY <1>0, LogFacts DEF BaseInv
    <3>2. Log \o <<f>> = Append(Log, f) BY <3>1, AppendIsConcat
    <3>3. Alive = TRUE BY DEF Alive
    <3>4. LogOK(Log, i, stream[i]) /\ StateOK(Log, i, stream[i], TRUE) BY <2>1, <2>2, <3>3 DEF PlaceInv, LogInv
    <3>5. stream[i] \in Streams BY <1>0, OverFacts DEF BaseInv
    <3>6. Unanswered(stream[i]) => stream[i].tread = 0 BY <3>4 DEF StateOK, Unanswered
    <3>7. LogOK(Append(Log, f), i, y) /\ StateOK(Append(Log, f), i, y, TRUE)
      BY <3>1, <3>4, <3>5, <3>6, OwnAnswer DEF Says
    <3> QED BY <3>2, <3>3, <3>7
  <2> QED BY <1>0, <1>1, <1>3, <2>1, <2>2, ThreadPlace
<1>4. cut' = cut BY DEF ThreadFrame
<1> QED BY <1>2, <1>3, <1>4 DEF IInv, BaseInv

\* A thread that says one last thing, if the loop still listens, and returns.
LEMMA LastStep ==
  ASSUME IInv, NEW i \in Ids, NEW f \in Answers, ThreadFrame, send_frame(<<f>>), Done(i),
         stream[i].at # "done", f.i = i, f.sid = stream[i].sid,
         f.cmd = "FIN" \/ (f.cmd = "SYNACK_ERROR" /\ Unanswered(stream[i]))
  PROVE  IInv'
<1>1. Ended(stream[i], Over(i)) BY OverFacts DEF IInv
<1>2. CASE Alive
  <2>1. jobs' = jobs \o <<f>> BY <1>2 DEF send_frame
  <2>2. stream' = [stream EXCEPT ![i] = Over(i)] BY DEF Done
  <2>3. Passes(i, stream[i], Over(i)) /\ Says(stream[i], Over(i), f)
    BY <1>1 DEF Ended, Passes, Says, Unanswered
  <2> QED BY <1>1, <1>2, <2>1, <2>2, <2>3, SayStep DEF Ended
<1>3. CASE ~Alive
  <2>1. jobs' = jobs BY <1>3 DEF send_frame
  <2> QED BY <2>1, EndStep
<1> QED BY <1>2, <1>3

\* The answer to an opening: SYNACK and the response header.
LEMMA OpenAnswer ==
  ASSUME NEW L \in Seq(Answers), NEW a \in Answers, NEW b \in Answers, NEW i, NEW x \in Streams, NEW y \in Streams,
         a.i = i, a.cmd = "SYNACK", b.i = i, b.cmd = "PSH", b.n = 0,
         x.at = "first", y.at = "connect", ~Unanswered(y), y.tread = x.tread,
         LogOK(L, i, x), StateOK(L, i, x, TRUE)
  PROVE  LogOK(Append(Append(L, a), b), i, y) /\ StateOK(Append(Append(L, a), b), i, y, TRUE)
<1> DEFINE M == Append(L, a)
<1>1. Unanswered(x) /\ x.tread = 0 /\ x.at # "done" /\ y.at # "done" BY DEF Unanswered, StateOK
<1>2. LogOK(M, i, y) /\ StateOK(M, i, y, TRUE) BY <1>1, OwnAnswer
<1>3. M \in Seq(Answers) OBVIOUS
<1>4. \A n \in 1 .. Len(M) : ~From(M, n, i, "PSH")
  <2>1. \A n \in 1 .. Len(L) : L[n].i # i BY <1>1 DEF StateOK
  <2>2. /\ M[Len(L) + 1] = a
        /\ \A m \in 1 .. Len(L) : M[m] = L[m]
        /\ \A m \in 1 .. Len(M) : m = Len(L) + 1 \/ m \in 1 .. Len(L)
    BY Longer
  <2> HIDE DEF M
  <2> QED BY <2>1, <2>2 DEF From
<1> HIDE DEF M
<1>5. LogOK(Append(M, b), i, y) /\ StateOK(Append(M, b), i, y, TRUE)
  BY <1>1, <1>2, <1>3, <1>4, OwnAnswer
<1> QED BY <1>5 DEF M

\* Two and three frames more.
LEMMA Several ==
  ASSUME NEW L \in Seq(Answers), NEW a \in Answers, NEW b \in Answers, NEW c \in Answers
  PROVE  /\ L \o <<a, b>> = Append(Append(L, a), b)
         /\ L \o <<a, b, c>> = Append(Append(Append(L, a), b), c)
<1>1. <<a>> \in Seq(Answers) /\ <<b>> \in Seq(Answers) /\ <<c>> \in Seq(Answers) /\ <<a, b>> \in Seq(Answers)
  OBVIOUS
<1>2. Append(<<a>>, b) = <<a, b>> /\ Append(<<a, b>>, c) = <<a, b, c>>
  <2>0. (\A n \in 1 .. 2 : n \in {1, 2}) /\ (\A n \in 1 .. 3 : n \in {1, 2, 3}) OBVIOUS
  <2>1. /\ <<a, b>> \in Seq(Answers) /\ Len(<<a, b>>) = 2 /\ <<a, b>>[1] = a /\ <<a, b>>[2] = b
        /\ Append(<<a>>, b) \in Seq(Answers) /\ Len(Append(<<a>>, b)) = 2
        /\ Append(<<a>>, b)[1] = a /\ Append(<<a>>, b)[2] = b
    BY <1>1
  <2>2. /\ <<a, b, c>> \in Seq(Answers) /\ Len(<<a, b, c>>) = 3
        /\ <<a, b, c>>[1] = a /\ <<a, b, c>>[2] = b /\ <<a, b, c>>[3] = c
        /\ Append(<<a, b>>, c) \in Seq(Answers) /\ Len(Append(<<a, b>>, c)) = 3
        /\ Append(<<a, b>>, c)[1] = a /\ Append(<<a, b>>, c)[2] = b /\ Append(<<a, b>>, c)[3] = c
    BY <1>1
  <2>3. Append(<<a>>, b) = <<a, b>> BY <2>0, <2>1, SeqEqual
  <2>4. Append(<<a, b>>, c) = <<a, b, c>> BY <2>0, <2>2, SeqEqual
  <2> QED BY <2>3, <2>4
<1>3. Append(<<a>>, b) = <<a>> \o <<b>> /\ Append(<<a, b>>, c) = <<a, b>> \o <<c>> BY <1>1, AppendIsConcat
<1>4. Append(L, a) \in Seq(Answers) /\ Append(Append(L, a), b) \in Seq(Answers) OBVIOUS
<1>5. /\ Append(L, a) = L \o <<a>> /\ Append(Append(L, a), b) = Append(L, a) \o <<b>>
      /\ Append(Append(Append(L, a), b), c) = Append(Append(L, a), b) \o <<c>>
  BY <1>4, AppendIsConcat
<1>6. (L \o <<a>>) \o <<b>> = L \o (<<a>> \o <<b>>) BY <1>1, ConcatAssociative
<1>7. (L \o <<a, b>>) \o <<c>> = L \o (<<a, b>> \o <<c>>) BY <1>1, ConcatAssociative
<1>8. L \o <<a, b>> = Append(Append(L, a), b) BY <1>2, <1>3, <1>5, <1>6, Zenon
<1>9. L \o <<a, b, c>> = (L \o <<a, b>>) \o <<c>> BY <1>2, <1>3, <1>7, Zenon
<1> QED BY <1>5, <1>8, <1>9, Zenon

\* The frames of a thread.
LEMMA JobTypes ==
  ASSUME Types, NEW i \in Ids, NEW n \in Nat
  PROVE  /\ \A cmd \in {"SYNACK", "SYNACK_ERROR", "PSH", "FIN"} :
              /\ Job(i, cmd, n) \in Answers /\ Job(i, cmd, n).cmd = cmd /\ Job(i, cmd, n).i = i
              /\ Job(i, cmd, n).n = n /\ Job(i, cmd, n).sid = stream[i].sid
<1>1. stream[i].sid \in Sids /\ i \in Nat
  <2>1. stream[i] \in Streams BY OverFacts
  <2> QED BY <2>1 DEF Streams, Ids
<1> QED BY <1>1 DEF Job, Answers

\* A VLESS request is answered and the stream goes on, or ends at once.
LEMMA OpenStep ==
  ASSUME IInv, Alive, NEW i \in Ids, ThreadFrame, stream[i].at = "first",
         NEW y \in Streams, stream' = [stream EXCEPT ![i] = y],
         \/ /\ jobs' = jobs \o <<send_synack(i), send_psh(i, 0)>>
            /\ y.at = "connect" /\ y.opening.type = 0 /\ y.tread = stream[i].tread /\ y.sid = stream[i].sid
            /\ Passes(i, stream[i], y)
         \/ jobs' = jobs \o <<send_synack(i), send_psh(i, 0), send_fin(i)>> /\ Ended(stream[i], y)
  PROVE  IInv'
<1>0. BaseInv /\ Types BY DEF IInv, BaseInv
<1> DEFINE a == send_synack(i)
           b == send_psh(i, 0)
           c == send_fin(i)
           x == stream[i]
<1>1. /\ a \in Answers /\ a.cmd = "SYNACK" /\ a.i = i /\ a.sid = x.sid
      /\ b \in Answers /\ b.cmd = "PSH" /\ b.i = i /\ b.sid = x.sid /\ b.n = 0
      /\ c \in Answers /\ c.cmd = "FIN" /\ c.i = i /\ c.sid = x.sid
  BY <1>0, JobTypes DEF send_synack, send_psh, send_fin
<1>2. x \in Streams /\ x.at = "first" BY <1>0, OverFacts
<1> HIDE DEF a, b, c
<1>3. <<a, b>> \in Seq(Answers) /\ Len(<<a, b>>) = 2 /\ <<a, b>>[1] = a /\ <<a, b>>[2] = b BY <1>1
<1>4. /\ <<a, b, c>> \in Seq(Answers) /\ Len(<<a, b, c>>) = 3
      /\ <<a, b, c>>[1] = a /\ <<a, b, c>>[2] = b /\ <<a, b, c>>[3] = c
  BY <1>1
<1>5. (\A n \in 1 .. 2 : n \in {1, 2}) /\ (\A n \in 1 .. 3 : n \in {1, 2, 3}) OBVIOUS
<1>6. Log \in Seq(Answers) BY <1>0, LogFacts
<1>7. Alive = TRUE BY DEF Alive
<1>8. ASSUME ~cut, Listening PROVE LogOK(Log, i, x) /\ StateOK(Log, i, x, TRUE)
  BY <1>7, <1>8 DEF IInv, PlaceInv, LogInv
<1>9. ASSUME NEW z \in Streams, z.at = "connect", z.opening.type = 0, z.tread = x.tread, ~cut, Listening
      PROVE  LogOK(Append(Append(Log, a), b), i, z) /\ StateOK(Append(Append(Log, a), b), i, z, TRUE)
  <2>1. ~Unanswered(z) BY <1>9 DEF Unanswered
  <2> QED BY <1>1, <1>2, <1>6, <1>8, <1>9, <2>1, OpenAnswer
<1>10. cut' = cut BY DEF ThreadFrame
<1>11. ASSUME jobs' = jobs \o <<a, b>>, y.at = "connect", y.opening.type = 0, y.tread = x.tread, y.sid = x.sid,
              Passes(i, x, y)
       PROVE  IInv'
  <2>1. ThreadStep(i, y, <<a, b>>) BY <1>1, <1>2, <1>3, <1>5, <1>11 DEF ThreadStep
  <2>2. BaseInv' BY <1>0, <2>1, ThreadBase
  <2>3. ASSUME ~cut PROVE PlaceInv'
    <3>1. PlaceInv BY <2>3 DEF IInv
    <3>2. Log \o <<a, b>> = Append(Append(Log, a), b) BY <1>1, <1>6, Several
    <3>3. Listening => LogOK(Log \o <<a, b>>, i, y) /\ StateOK(Log \o <<a, b>>, i, y, Alive)
      BY <1>7, <1>9, <1>11, <2>3, <3>2
    <3> QED BY <1>0, <1>11, <2>1, <2>3, <3>1, <3>3, ThreadPlace
  <2> QED BY <1>10, <2>2, <2>3 DEF IInv, BaseInv
<1>12. ASSUME jobs' = jobs \o <<a, b, c>>, Ended(x, y) PROVE IInv'
  <2>0. y.sid = x.sid /\ y.at = "done" /\ y.tread = x.tread /\ Passes(i, x, y) BY <1>12 DEF Ended, Passes
  <2>1. ThreadStep(i, y, <<a, b, c>>) BY <1>1, <1>2, <1>4, <1>5, <1>12, <2>0 DEF ThreadStep
  <2>2. BaseInv' BY <1>0, <2>1, ThreadBase
  <2>3. ASSUME ~cut PROVE PlaceInv'
    <3>1. PlaceInv BY <2>3 DEF IInv
    <3>2. Log \o <<a, b, c>> = Append(Append(Append(Log, a), b), c) BY <1>1, <1>6, Several
    <3>3. ASSUME Listening PROVE LogOK(Log \o <<a, b, c>>, i, y) /\ StateOK(Log \o <<a, b, c>>, i, y, Alive)
      <4> DEFINE z == [x EXCEPT !.at = "connect", !.opening = EmptyChunk]
                 M == Append(Append(Log, a), b)
      <4>1. z \in Streams /\ z.at = "connect" /\ z.opening.type = 0 /\ z.tread = x.tread
        BY <1>2 DEF Streams, Places, EmptyChunk, Socks
      <4>2. M \in Seq(Answers) BY <1>1, <1>6
      <4> HIDE DEF z
      <4>3. LogOK(M, i, z) /\ StateOK(M, i, z, TRUE) BY <1>9, <2>3, <3>3, <4>1
      <4> HIDE DEF M
      <4>4. z.at # "done" /\ y.tread = z.tread BY <2>0, <4>1
      <4>5. LogOK(Append(M, c), i, y) /\ StateOK(Append(M, c), i, y, TRUE)
        BY <1>1, <2>0, <4>1, <4>2, <4>3, <4>4, OwnAnswer
      <4> QED BY <1>7, <3>2, <4>5 DEF M
    <3> QED BY <1>0, <2>0, <2>1, <2>3, <3>1, <3>3, ThreadPlace
  <2> QED BY <1>10, <2>2, <2>3 DEF IInv, BaseInv
<1> QED BY <1>11, <1>12 DEF a, b, c

\* What was given stays where it is.
LEMMA PassNothing ==
  ASSUME NEW i, NEW x, NEW y, y.tgot = x.tgot, y.queue = x.queue, y.at \notin {"first", "connect", "done"}
  PROVE  Passes(i, x, y)
BY DEF Passes, Given, Total

\* The first chunk held nothing behind the address.
LEMMA PassAddress ==
  ASSUME NEW i, NEW x \in Streams, NEW y \in Streams, x.at = "connect", y.tgot = <<>>, y.queue = x.queue,
         y.at = "initial"
  PROVE  Passes(i, x, y)
<1>1. SUFFICES ASSUME NEW c \in {0, 1}, Given(i, x, c)
               PROVE  Given(i, y, 1) /\ Total(y, 1) = Total(x, c)
  BY DEF Passes
<1>2. c = 0 /\ Len(x.tgot) = 1 /\ Len(y.tgot) = 0 BY <1>1 DEF Given
<1> DEFINE Q == x.queue
           b == Len(Q)
<1>3. b \in Nat BY TotalType
<1>4. \A n \in 1 .. b : Q[n] = <<i, n + 0 + 1>> BY <1>1, <1>2 DEF Given
<1>5. Total(x, c) = 0 + 1 + b /\ Total(y, 1) = 1 + 0 + b BY <1>2 DEF Total
<1> HIDE DEF b, Q
<1>6. Total(y, 1) = Total(x, c) BY <1>3, <1>5
<1>7. \A n \in 1 .. b : Q[n] = <<i, n + 1 + 0>>
  <2>1. \A n \in 1 .. b : n + 0 + 1 = n + 1 + 0 BY <1>3
  <2> QED BY <1>4, <2>1
<1>8. \A n \in 1 .. 0 : FALSE OBVIOUS
<1>9. Given(i, y, 1) BY <1>2, <1>7, <1>8 DEF Given, b, Q
<1> QED BY <1>6, <1>9

\* A chunk goes from the queue to the target.
LEMMA PassChunk ==
  ASSUME NEW i, NEW x \in Streams, NEW y \in Streams, x.queue # <<>>,
         y.queue = Tail(x.queue),
         \/ x.at = "first" /\ y.at = "connect" /\ y.tgot = <<Head(x.queue)>>
         \/ y.at \in {"down", "up"} /\ y.tgot = Append(x.tgot, Head(x.queue))
  PROVE  Passes(i, x, y)
<1>1. SUFFICES ASSUME NEW c \in {0, 1}, Given(i, x, c)
               PROVE  Given(i, y, c) /\ Total(y, c) = Total(x, c)
  BY DEF Passes
<1> DEFINE Q == x.queue
           T == x.tgot
           a == Len(T)
           b == Len(Q)
<1>2. Q \in Seq(Chunk) /\ T \in Seq(Chunk) BY DEF Streams
<1>3. a \in Nat /\ b \in Nat /\ c \in Nat /\ b > 0 BY <1>2
<1>4. (\A n \in 1 .. a : T[n] = <<i, n + c>>) /\ (\A n \in 1 .. b : Q[n] = <<i, n + c + a>>) BY <1>1 DEF Given
<1>5. /\ Head(Q) \in Chunk /\ Head(Q) = Q[1] /\ Len(Tail(Q)) = b - 1
      /\ \A n \in 1 .. Len(Tail(Q)) : Tail(Q)[n] = Q[n + 1]
  BY <1>2, HeadTailProperties
<1>6. y.tgot = Append(T, Head(Q)) /\ (y.at = "connect" => c = 0 /\ a = 0) /\ y.at # "first"
  <2>1. CASE x.at = "first" /\ y.at = "connect" /\ y.tgot = <<Head(Q)>>
    <3>1. T = <<>> /\ c = 0 BY <1>1, <2>1 DEF Given
    <3>2. <<Head(Q)>> = Append(<<>>, Head(Q)) OBVIOUS
    <3>3. Len(<<>>) = 0 OBVIOUS
    <3> QED BY <2>1, <3>1, <3>2, <3>3
  <2>2. CASE y.at \in {"down", "up"} /\ y.tgot = Append(T, Head(Q)) BY <2>2
  <2> QED BY <2>1, <2>2
<1>7. /\ Len(Append(T, Head(Q))) = a + 1 /\ Append(T, Head(Q))[a + 1] = Head(Q)
      /\ \A n \in 1 .. a : Append(T, Head(Q))[n] = T[n]
  BY <1>2, <1>5, AppendProperties
<1>8. y.queue = Tail(Q) OBVIOUS
<1>9. Total(x, c) = c + a + b /\ Total(y, c) = c + Len(y.tgot) + Len(y.queue) BY DEF Total
<1> HIDE DEF Q, T, a, b
<1>10. Total(y, c) = Total(x, c)
  <2>1. Len(y.tgot) = a + 1 /\ Len(y.queue) = b - 1 BY <1>5, <1>6, <1>7, <1>8
  <2>2. c + (a + 1) + (b - 1) = c + a + b BY <1>3
  <2> QED BY <1>9, <2>1, <2>2
<1>11. ASSUME NEW n \in 1 .. Len(y.tgot) PROVE y.tgot[n] = <<i, n + c>>
  <2>1. n \in 1 .. a \/ n = a + 1 BY <1>3, <1>6, <1>7
  <2>2. Q[1] = <<i, 1 + c + a>> BY <1>3, <1>4
  <2>3. 1 + c + a = (a + 1) + c BY <1>3
  <2>4. Q[1] = <<i, (a + 1) + c>> BY <2>2, <2>3
  <2> QED BY <1>4, <1>5, <1>6, <1>7, <2>1, <2>4
<1>12. ASSUME NEW n \in 1 .. Len(y.queue) PROVE y.queue[n] = <<i, n + c + Len(y.tgot)>>
  <2>0. Len(y.queue) = b - 1 /\ Len(Tail(Q)) = b - 1 BY <1>5, <1>8
  <2>1. n \in 1 .. Len(Tail(Q)) /\ n + 1 \in 1 .. b BY <1>3, <2>0
  <2>2. y.queue[n] = <<i, (n + 1) + c + a>> BY <1>4, <1>5, <1>8, <2>1
  <2>3. (n + 1) + c + a = n + c + (a + 1) /\ Len(y.tgot) = a + 1 BY <1>3, <1>6, <1>7, <2>1
  <2> QED BY <2>2, <2>3
<1>13. y.at = "connect" => Len(y.tgot) = 1 BY <1>6, <1>7
<1>14. y.at \in {"first", "connect"} => c = 0 BY <1>6
<1>15. Given(i, y, c) BY <1>6, <1>11, <1>12, <1>13, <1>14 DEF Given
<1> QED BY <1>10, <1>15

\* The opening of a stream.
LEMMA OpeningStep ==
  ASSUME IInv, NEW i \in Ids, handle_sing_stream(i)
  PROVE  IInv'
<1>0. /\ Types /\ ThreadFrame /\ stream[i].at = "first" /\ stream[i].queue # <<>> /\ stream[i] \in Streams
      /\ Unanswered(stream[i])
  BY OverFacts DEF IInv, handle_sing_stream, read_chunk, Unanswered
<1>1. /\ send_synack_error(i) \in Answers /\ send_synack_error(i).cmd = "SYNACK_ERROR"
      /\ send_synack_error(i).i = i /\ send_synack_error(i).sid = stream[i].sid
  BY <1>0, JobTypes DEF send_synack_error
<1> DEFINE s(o) == [stream[i] EXCEPT !.queue = Tail(@), !.opening = o, !.at = "connect",
                                     !.tgot = <<Head(stream[i].queue)>>]
<1>2. ASSUME NEW o \in Openings
      PROVE  /\ s(o) \in Streams /\ s(o).sid = stream[i].sid /\ s(o).at = "connect" /\ s(o).opening = o
             /\ s(o).tread = stream[i].tread /\ Passes(i, stream[i], s(o))
  <2>1. stream[i].queue \in Seq(Chunk) BY <1>0 DEF Streams
  <2>2. Tail(stream[i].queue) \in Seq(Chunk) /\ Head(stream[i].queue) \in Chunk BY <1>0, <2>1, HeadTailProperties
  <2>3. <<Head(stream[i].queue)>> \in Seq(Chunk) BY <2>2
  <2>4. /\ s(o) \in Streams /\ s(o).sid = stream[i].sid /\ s(o).at = "connect" /\ s(o).opening = o
        /\ s(o).tread = stream[i].tread /\ s(o).queue = Tail(stream[i].queue)
        /\ s(o).tgot = <<Head(stream[i].queue)>>
    BY <1>0, <2>2, <2>3 DEF Streams, Places
  <2> HIDE DEF s
  <2>5. Passes(i, stream[i], s(o)) BY <1>0, <2>4, PassChunk
  <2> QED BY <2>4, <2>5
<1>3. PICK o \in Openings :
        \/ o.len = 0 /\ send_frame(<<send_synack_error(i)>>) /\ Done(i)
        \/ /\ o.type # 0 /\ UNCHANGED jobs
           /\ IF parse_socks_addr(o) = 0 THEN Failed(i) ELSE stream' = [stream EXCEPT ![i] = s(o)]
        \/ o.req = "refused" /\ Failed(i) /\ UNCHANGED jobs
        \/ o.req = "udpVision" /\ send_frame(<<send_synack_error(i)>>) /\ Done(i)
        \/ /\ o.req = "udp"
           /\ send_frame(<<send_synack(i), send_psh(i, 0), send_fin(i)>>) /\ Done(i)
        \/ /\ o.req \in {"tcp", "vision"}
           /\ SendAndGo(i, <<send_synack(i), send_psh(i, 0)>>, s(o))
  BY DEF handle_sing_stream
<1>4. /\ s(o) \in Streams /\ s(o).sid = stream[i].sid /\ s(o).at = "connect" /\ s(o).opening = o
      /\ s(o).tread = stream[i].tread /\ Passes(i, stream[i], s(o))
  BY <1>2
<1> HIDE DEF s
<1>5. CASE send_frame(<<send_synack_error(i)>>) /\ Done(i) BY <1>0, <1>1, <1>5, LastStep
<1>6. CASE Failed(i) /\ UNCHANGED jobs BY <1>0, <1>6, EndStep
<1>7. CASE o.type # 0 /\ UNCHANGED jobs /\ stream' = [stream EXCEPT ![i] = s(o)]
  <2>1. Silent(stream[i], s(o)) BY <1>0, <1>4, <1>7 DEF Silent, Unanswered
  <2> QED BY <1>0, <1>4, <1>7, <2>1, SilentStep
<1>8. CASE send_frame(<<send_synack(i), send_psh(i, 0), send_fin(i)>>) /\ Done(i)
  <2>1. CASE Alive
    <3>1. Ended(stream[i], Over(i)) /\ Over(i) \in Streams BY <1>0, OverFacts DEF Ended
    <3>2. stream' = [stream EXCEPT ![i] = Over(i)] BY <1>8 DEF Done
    <3>3. jobs' = jobs \o <<send_synack(i), send_psh(i, 0), send_fin(i)>> BY <1>8, <2>1 DEF send_frame
    <3> QED BY <1>0, <2>1, <3>1, <3>2, <3>3, OpenStep
  <2>2. CASE ~Alive
    <3>1. jobs' = jobs BY <1>8, <2>2 DEF send_frame
    <3> QED BY <1>0, <1>8, <3>1, EndStep
  <2> QED BY <2>1, <2>2
<1>9. CASE o.req \in {"tcp", "vision"} /\ SendAndGo(i, <<send_synack(i), send_psh(i, 0)>>, s(o))
  <2>1. CASE Alive
    <3>1. o.type = 0 BY <1>9, AnyTlsAssumption DEF AnyTlsAssumption
    <3>2. stream' = [stream EXCEPT ![i] = s(o)] BY <1>9, <2>1 DEF SendAndGo
    <3>3. jobs' = jobs \o <<send_synack(i), send_psh(i, 0)>> BY <1>9, <2>1 DEF SendAndGo, send_frame
    <3> QED BY <1>0, <1>4, <2>1, <3>1, <3>2, <3>3, OpenStep
  <2>2. CASE ~Alive
    <3>1. jobs' = jobs /\ Done(i) BY <1>9, <2>2 DEF send_frame, SendAndGo
    <3> QED BY <1>0, <3>1, EndStep
  <2> QED BY <2>1, <2>2
<1> QED BY <1>3, <1>5, <1>6, <1>7, <1>8, <1>9

\* The stream ends before it is opened, or its target is reached or not.
LEMMA ConnectStep ==
  ASSUME IInv, NEW i \in Ids, EndsUnopened(i) \/ Connect(i)
  PROVE  IInv'
<1>0. /\ Types /\ ThreadFrame /\ stream[i] \in Streams /\ stream[i].at # "done"
  BY OverFacts DEF IInv, EndsUnopened, Connect
<1>1. CASE EndsUnopened(i)
  <2>1. /\ send_fin(i) \in Answers /\ send_fin(i).cmd = "FIN" /\ send_fin(i).i = i /\ send_fin(i).sid = stream[i].sid
    BY <1>0, JobTypes DEF send_fin
  <2> QED BY <1>0, <1>1, <2>1, LastStep DEF EndsUnopened
<1>2. CASE Connect(i)
  <2> DEFINE o == stream[i].opening
             n == IF IsVision(i) THEN o ELSE EmptyChunk
             s == [stream[i] EXCEPT !.at = "initial", !.opening = n]
             t == IF o.len > parse_socks_addr(o) THEN stream[i].tgot ELSE <<>>
             u == [s EXCEPT !.tgot = t]
  <2>1. stream[i].at = "connect" BY <1>2 DEF Connect
  <2>2. n \in Openings \cup {EmptyChunk} BY <1>0 DEF Streams
  <2>3. /\ s \in Streams /\ s.sid = stream[i].sid /\ s.at = "initial" /\ s.tgot = stream[i].tgot
        /\ s.queue = stream[i].queue /\ s.tread = stream[i].tread
    <3> HIDE DEF n
    <3> QED BY <1>0, <2>2 DEF Streams, Places
  <2>4. /\ u \in Streams /\ u.sid = stream[i].sid /\ u.at = "initial" /\ u.tgot = t
        /\ u.queue = stream[i].queue /\ u.tread = stream[i].tread
    <3>1. t \in Seq(Chunk)
      <4>1. stream[i].tgot \in Seq(Chunk) BY <1>0 DEF Streams
      <4> QED BY <4>1, EmptySeq
    <3> HIDE DEF s, t
    <3> QED BY <2>3, <3>1 DEF Streams, Places
  <2>5. \/ Failed(i) /\ UNCHANGED jobs
        \/ o.type = 0 /\ stream' = [stream EXCEPT ![i] = s] /\ UNCHANGED jobs
        \/ o.type # 0 /\ SendAndGo(i, <<send_synack(i)>>, u)
    BY <1>2 DEF Connect
  <2>6. Passes(i, stream[i], s) BY <2>3, PassNothing
  <2>7. Passes(i, stream[i], u)
    <3>1. t = stream[i].tgot \/ t = <<>> OBVIOUS
    <3> HIDE DEF t, u, s
    <3> QED BY <1>0, <2>1, <2>4, <3>1, PassNothing, PassAddress
  <2> HIDE DEF s, u, t, n
  <2>8. CASE o.type = 0 /\ stream' = [stream EXCEPT ![i] = s] /\ UNCHANGED jobs
    <3>1. Silent(stream[i], s) BY <2>1, <2>3, <2>8 DEF Silent, Unanswered
    <3> QED BY <1>0, <2>3, <2>6, <2>8, <3>1, SilentStep
  <2>9. CASE o.type # 0 /\ SendAndGo(i, <<send_synack(i)>>, u)
    <3>1. CASE Alive
      <4>1. jobs' = jobs \o <<send_synack(i)>> /\ stream' = [stream EXCEPT ![i] = u]
        BY <2>9, <3>1 DEF SendAndGo, send_frame
      <4>2. /\ send_synack(i) \in Answers /\ send_synack(i).cmd = "SYNACK" /\ send_synack(i).i = i
            /\ send_synack(i).sid = stream[i].sid
        BY <1>0, JobTypes DEF send_synack
      <4>3. Says(stream[i], u, send_synack(i)) BY <2>1, <2>4, <2>9, <4>2 DEF Says, Unanswered
      <4> QED BY <1>0, <2>4, <2>7, <3>1, <4>1, <4>2, <4>3, SayStep
    <3>2. CASE ~Alive
      <4>1. jobs' = jobs /\ Done(i) BY <2>9, <3>2 DEF send_frame, SendAndGo
      <4> QED BY <1>0, <4>1, EndStep
    <3> QED BY <3>1, <3>2
  <2> QED BY <1>0, <2>5, <2>8, <2>9, EndStep
<1> QED BY <1>1, <1>2

\* The first write to the target.
LEMMA InitialStep ==
  ASSUME IInv, NEW i \in Ids, WriteInitial(i)
  PROVE  IInv'
<1>0. /\ Types /\ ThreadFrame /\ stream[i] \in Streams /\ stream[i].at = "initial"
      /\ stream[i].at # "done" /\ stream \in Seq(Streams) /\ i \in DOMAIN stream
  <2>1. Types /\ stream[i] \in Streams BY OverFacts DEF IInv
  <2> QED BY <2>1 DEF WriteInitial, Types, Ids
<1> DEFINE u == [stream[i] EXCEPT !.at = "down"]
<1>1. [stream EXCEPT ![i].at = "down"] = [stream EXCEPT ![i] = u] BY <1>0
<1>2. \/ stream' = [stream EXCEPT ![i] = u] /\ UNCHANGED jobs
      \/ Failed(i) /\ UNCHANGED jobs
  BY <1>1 DEF WriteInitial
<1>3. CASE stream' = [stream EXCEPT ![i] = u] /\ UNCHANGED jobs
  <2>1. /\ u \in Streams /\ u.sid = stream[i].sid /\ u.at = "down" /\ u.tgot = stream[i].tgot
        /\ u.queue = stream[i].queue /\ u.tread = stream[i].tread
    BY <1>0 DEF Streams, Places
  <2> HIDE DEF u
  <2>2. Passes(i, stream[i], u) BY <2>1, PassNothing
  <2>3. Silent(stream[i], u) BY <1>0, <2>1 DEF Silent, Unanswered
  <2> QED BY <1>0, <1>3, <2>1, <2>2, <2>3, SilentStep
<1>4. CASE Failed(i) /\ UNCHANGED jobs BY <1>0, <1>4, EndStep
<1> QED BY <1>2, <1>3, <1>4

\* The target's side of a relay.
LEMMA DownStep ==
  ASSUME IInv, NEW i \in Ids, RelayDown(i)
  PROVE  IInv'
<1>0. /\ Types /\ ThreadFrame /\ stream[i] \in Streams /\ stream[i].at = "down" /\ stream[i].tread \in Nat
      /\ stream[i].at # "done" /\ stream \in Seq(Streams)
  <2>1. Types /\ stream[i] \in Streams BY OverFacts DEF IInv
  <2> QED BY <2>1 DEF RelayDown, Streams, Types
<1>1. /\ send_fin(i) \in Answers /\ send_fin(i).cmd = "FIN" /\ send_fin(i).i = i /\ send_fin(i).sid = stream[i].sid
  BY <1>0, JobTypes DEF send_fin
<1> DEFINE w == IF IsVision(i) THEN "down" ELSE "up"
           r == stream[i].tread + 1
           y == [stream[i] EXCEPT !.tread = r, !.at = w]
           u == [stream[i] EXCEPT !.at = "up"]
           e == [stream[i] EXCEPT !.at = "up", !.eof = TRUE]
<1>2. /\ y \in Streams /\ y.sid = stream[i].sid /\ y.at \in {"down", "up"} /\ y.tgot = stream[i].tgot
      /\ y.queue = stream[i].queue /\ y.tread = r
  <2>1. w \in {"down", "up"} /\ r \in Nat BY <1>0
  <2> HIDE DEF w, r
  <2> QED BY <1>0, <2>1 DEF Streams, Places
<1>3. /\ u \in Streams /\ u.sid = stream[i].sid /\ u.at = "up" /\ u.tgot = stream[i].tgot
      /\ u.queue = stream[i].queue /\ u.tread = stream[i].tread
  BY <1>0 DEF Streams, Places
<1>4. /\ e \in Streams /\ e.sid = stream[i].sid /\ e.at = "up" /\ e.tgot = stream[i].tgot
      /\ e.queue = stream[i].queue /\ e.tread = stream[i].tread
  BY <1>0 DEF Streams, Places
<1>5. /\ [stream EXCEPT ![i].at = "up", ![i].eof = TRUE] = [stream EXCEPT ![i] = e]
      /\ [stream EXCEPT ![i].at = "up"] = [stream EXCEPT ![i] = u]
  <2>1. i \in DOMAIN stream BY <1>0 DEF Ids
  <2> QED BY <1>0, <2>1
<1>6. \/ SendAndGo(i, <<send_psh(i, stream[i].tread + 1)>>, y)
      \/ send_frame(<<send_fin(i)>>) /\ Done(i)
      \/ stream' = [stream EXCEPT ![i] = e] /\ UNCHANGED jobs
      \/ stream' = [stream EXCEPT ![i] = u] /\ UNCHANGED jobs
      \/ Failed(i) /\ UNCHANGED jobs
  BY <1>5 DEF RelayDown
<1> HIDE DEF y, u, e
<1>7. ASSUME NEW z \in Streams, z.sid = stream[i].sid, z.at = "up", z.tgot = stream[i].tgot,
             z.queue = stream[i].queue, z.tread = stream[i].tread,
             stream' = [stream EXCEPT ![i] = z], jobs' = jobs
      PROVE  IInv'
  <2>1. Passes(i, stream[i], z) BY <1>7, PassNothing
  <2>2. Silent(stream[i], z) BY <1>0, <1>7 DEF Silent, Unanswered
  <2> QED BY <1>0, <1>7, <2>1, <2>2, SilentStep
<1>8. CASE SendAndGo(i, <<send_psh(i, stream[i].tread + 1)>>, y)
  <2> DEFINE f == send_psh(i, stream[i].tread + 1)
  <2>1. CASE Alive
    <3>1. jobs' = jobs \o <<f>> /\ stream' = [stream EXCEPT ![i] = y]
      BY <1>8, <2>1 DEF SendAndGo, send_frame
    <3>2. f \in Answers /\ f.cmd = "PSH" /\ f.i = i /\ f.sid = stream[i].sid /\ f.n = stream[i].tread + 1
      <4>1. stream[i].tread + 1 \in Nat BY <1>0
      <4> QED BY <1>0, <4>1, JobTypes DEF send_psh
    <3> HIDE DEF f
    <3>3. Says(stream[i], y, f) BY <1>0, <1>2, <3>2 DEF Says, Unanswered
    <3>4. Passes(i, stream[i], y)
      <4>1. y.at \notin {"first", "connect", "done"} BY <1>2
      <4> QED BY <1>2, <4>1, PassNothing
    <3> QED BY <1>0, <1>2, <2>1, <3>1, <3>2, <3>3, <3>4, SayStep
  <2>2. CASE ~Alive
    <3>1. jobs' = jobs /\ Done(i) BY <1>8, <2>2 DEF send_frame, SendAndGo
    <3> QED BY <1>0, <3>1, EndStep
  <2> QED BY <2>1, <2>2
<1>9. CASE send_frame(<<send_fin(i)>>) /\ Done(i) BY <1>0, <1>1, <1>9, LastStep
<1>10. CASE Failed(i) /\ UNCHANGED jobs BY <1>0, <1>10, EndStep
<1> QED BY <1>3, <1>4, <1>6, <1>7, <1>8, <1>9, <1>10

\* The client's side of a relay.
LEMMA UpStep ==
  ASSUME IInv, NEW i \in Ids, RelayUp(i)
  PROVE  IInv'
<1>0. /\ Types /\ ThreadFrame /\ stream[i] \in Streams /\ stream[i].at = "up"
      /\ stream[i].at # "done" /\ stream \in Seq(Streams) /\ i \in DOMAIN stream
  <2>1. Types /\ stream[i] \in Streams BY OverFacts DEF IInv
  <2> QED BY <2>1 DEF RelayUp, Types, Ids
<1>1. /\ send_fin(i) \in Answers /\ send_fin(i).cmd = "FIN" /\ send_fin(i).i = i /\ send_fin(i).sid = stream[i].sid
  BY <1>0, JobTypes DEF send_fin
<1> DEFINE w == IF IsVision(i) THEN "up" ELSE "down"
           q == Tail(stream[i].queue)
           t == Append(stream[i].tgot, Head(stream[i].queue))
           y == [stream[i] EXCEPT !.queue = q, !.tgot = t, !.at = w]
           u == [stream[i] EXCEPT !.at = "down"]
<1>2. [stream EXCEPT ![i].at = "down"] = [stream EXCEPT ![i] = u] BY <1>0
<1>3. [stream EXCEPT ![i].queue = Tail(@), ![i].tgot = Append(@, Head(stream[i].queue)), ![i].at = w]
        = [stream EXCEPT ![i] = y]
  <2> HIDE DEF w
  <2> QED BY <1>0
<1>4. \/ read_chunk(i) /\ stream' = [stream EXCEPT ![i] = y] /\ UNCHANGED jobs
      \/ Failed(i) /\ UNCHANGED jobs
      \/ send_frame(<<send_fin(i)>>) /\ Done(i)
      \/ stream' = [stream EXCEPT ![i] = u] /\ UNCHANGED jobs
  BY <1>2, <1>3 DEF RelayUp
<1>5. CASE read_chunk(i) /\ stream' = [stream EXCEPT ![i] = y] /\ UNCHANGED jobs
  <2>1. stream[i].queue # <<>> BY <1>5 DEF read_chunk
  <2>2. stream[i].queue \in Seq(Chunk) /\ stream[i].tgot \in Seq(Chunk) BY <1>0 DEF Streams
  <2>3. q \in Seq(Chunk) /\ t \in Seq(Chunk)
    <3>1. q \in Seq(Chunk) /\ Head(stream[i].queue) \in Chunk BY <2>1, <2>2, HeadTailProperties
    <3> QED BY <2>2, <3>1
  <2>4. w \in {"down", "up"} OBVIOUS
  <2> HIDE DEF w, q, t
  <2>5. /\ y \in Streams /\ y.sid = stream[i].sid /\ y.at \in {"down", "up"} /\ y.queue = q /\ y.tgot = t
        /\ y.tread = stream[i].tread
    BY <1>0, <2>3, <2>4 DEF Streams, Places
  <2> HIDE DEF y
  <2>6. Passes(i, stream[i], y) BY <1>0, <2>1, <2>5, PassChunk DEF q, t
  <2>7. Silent(stream[i], y) BY <1>0, <2>5 DEF Silent, Unanswered
  <2> QED BY <1>0, <1>5, <2>5, <2>6, <2>7, SilentStep
<1>6. CASE stream' = [stream EXCEPT ![i] = u] /\ UNCHANGED jobs
  <2>1. /\ u \in Streams /\ u.sid = stream[i].sid /\ u.at = "down" /\ u.tgot = stream[i].tgot
        /\ u.queue = stream[i].queue /\ u.tread = stream[i].tread
    BY <1>0 DEF Streams, Places
  <2> HIDE DEF u
  <2>2. Passes(i, stream[i], u) BY <2>1, PassNothing
  <2>3. Silent(stream[i], u) BY <1>0, <2>1 DEF Silent, Unanswered
  <2> QED BY <1>0, <1>6, <2>1, <2>2, <2>3, SilentStep
<1>7. CASE send_frame(<<send_fin(i)>>) /\ Done(i) BY <1>0, <1>1, <1>7, LastStep
<1>8. CASE Failed(i) /\ UNCHANGED jobs BY <1>0, <1>8, EndStep
<1> QED BY <1>4, <1>5, <1>6, <1>7, <1>8
-----------------------------------------------------------------------------
(* The invariant holds, and what follows from it *)

LEMMA InitInv ==
  ASSUME Init
  PROVE  IInv
<1>1. /\ client = "open" /\ asked = <<>> /\ reader = "settings" /\ frame = NoFrame /\ cut = FALSE
      /\ handle = [s \in Sids |-> 0] /\ stream = <<>> /\ jobs = <<>> /\ got = <<>>
      /\ wire = <<Frame("SETTINGS", 0, Junk)>>
  BY DEF Init
<1> DEFINE f == Frame("SETTINGS", 0, Junk)
<1>2. f \in Frames /\ f.cmd = "SETTINGS" BY DEF Frame, Frames, Junk, Chunk
<1> HIDE DEF f
<1>3. wire \in Seq(Frames) /\ Len(wire) = 1 /\ wire[1] = f /\ wire # <<>> BY <1>1, <1>2 DEF f
<1>4. \A m \in 1 .. 1 : m = 1 OBVIOUS
<1>5. (\A m \in 1 .. 0 : FALSE) /\ (\A m \in 0 + 1 .. 0 : FALSE) OBVIOUS
<1>6. Len(stream) = 0 /\ Len(asked) = 0 /\ Len(jobs) = 0 /\ Len(got) = 0 BY <1>1
<1>7. Types BY <1>1, <1>3, EmptySeq, FrameTypes DEF Types
<1>8. HandleInv BY <1>1 DEF HandleInv
<1>9. OwnedInv BY <1>5, <1>6 DEF OwnedInv
<1>10. StepInv BY <1>1, <1>2, <1>3 DEF StepInv
<1>11. Coming = wire /\ Ids = {} BY <1>1, <1>5, <1>6 DEF Coming, Ids
<1>12. \A m \in 1 .. Len(Coming) : Coming[m].cmd = "SETTINGS" BY <1>2, <1>3, <1>4, <1>11
<1>13. SidOK(stream, asked, Listening) /\ SidOK(stream, asked, InStep) BY <1>5, <1>6 DEF SidOK
<1>14. WireOK(Coming, stream, asked, InStep)
  BY <1>5, <1>6, <1>12, <1>13 DEF WireOK, SynOK, NameOK, OrderOK
<1>15. ChunkInv BY <1>5, <1>6, <1>11, <1>12 DEF ChunkInv, Follows
<1>16. LogInv /\ MarkInv BY <1>5, <1>6, <1>11 DEF LogInv, MarkInv
<1>17. LiveKeepsHandle BY <1>11 DEF LiveKeepsHandle, Running
<1>18. PlaceInv BY <1>10, <1>13, <1>14, <1>15, <1>16, <1>17 DEF PlaceInv
<1> QED BY <1>7, <1>8, <1>9, <1>18 DEF IInv

LEMMA NextInv ==
  ASSUME IInv, [Next]_vars
  PROVE  IInv'
<1>0. BaseInv /\ (~cut => PlaceInv) BY DEF IInv, BaseInv
<1>1. CASE Client
  <2>1. cut' = cut BY <1>1 DEF Client, ClientSyn, ClientPsh, ClientFin, ClientOther, ClientShut, ClientReset,
                              Sends, ClientFrame
  <2> QED BY <1>0, <1>1, <2>1, ClientBase, ClientPlace DEF IInv, BaseInv
<1>2. CASE Reading
  <2>1. cut' = cut
    BY <1>2 DEF Reading, complete_settings_handshake, ReadHeader, ReadLostBody, Poll, session_reader_loop,
                ReadAlert, ReaderFails, Return
  <2> QED BY <1>0, <1>2, <2>1, ReaderBase, ReaderPlace DEF IInv, BaseInv
<1>3. CASE TimeoutInside
  <2>1. cut' = TRUE BY <1>3 DEF TimeoutInside
  <2> QED BY <1>0, <1>3, <2>1, ReaderBase DEF IInv, BaseInv
<1>4. ASSUME NEW i \in Ids, StreamThread(i) PROVE IInv'
  BY <1>4, OpeningStep, ConnectStep, InitialStep, DownStep, UpStep DEF StreamThread
<1>5. CASE UNCHANGED vars
  <2>1. UNCHANGED <<client, asked, nsent, wire, reader, frame, cut, handle, stream, jobs, got>>
    BY <1>5 DEF vars, clientVars
  <2>2. Types' BY <1>0, <2>1 DEF Types, BaseInv
  <2>3. HandleInv' /\ OwnedInv' BY <1>0, <2>1 DEF HandleInv, OwnedInv, Ids, BaseInv
  <2>4. ASSUME ~cut PROVE PlaceInv'
    <3>1. Coming' = Coming /\ InStep' = InStep /\ Listening' = Listening /\ Alive' = Alive /\ Log' = Log
      BY <2>1 DEF Coming, InStep, Listening, Alive, Log
    <3>2. StepInv' /\ SidOK(stream, asked, Listening)' /\ WireOK(Coming, stream, asked, InStep)'
      BY <1>0, <2>1, <2>4, <3>1 DEF PlaceInv, StepInv
    <3>3. ChunkInv' BY <1>0, <2>1, <2>4, <3>1 DEF PlaceInv, ChunkInv, Ids
    <3>4. Listening' => LogInv' /\ MarkInv' BY <1>0, <2>1, <2>4, <3>1 DEF PlaceInv, LogInv, MarkInv, Ids
    <3>5. LiveKeepsHandle' BY <1>0, <2>1, <2>4, <3>1 DEF PlaceInv, LiveKeepsHandle, Running, Newest, Ids
    <3> QED BY <3>2, <3>3, <3>4, <3>5 DEF PlaceInv
  <2> QED BY <2>1, <2>2, <2>3, <2>4 DEF IInv
<1> QED BY <1>1, <1>2, <1>3, <1>4, <1>5 DEF Next

\* A target has got a run of its stream's chunks.
LEMMA OwnBytesFollows ==
  ASSUME IInv
  PROVE  OwnBytes
<1>1. SUFFICES ASSUME ~cut, NEW i \in Ids
               PROVE  LET first == IF stream[i].tgot = <<>> THEN 0 ELSE stream[i].tgot[1][2] - 1
                      IN /\ first \in {0, 1}
                         /\ \A n \in DOMAIN stream[i].tgot : stream[i].tgot[n] = <<i, n + first>>
  BY DEF OwnBytes
<1> DEFINE T == stream[i].tgot
           first == IF T = <<>> THEN 0 ELSE T[1][2] - 1
<1>2. stream[i] \in Streams /\ ChunkInv BY <1>1, OverFacts DEF IInv, PlaceInv
<1>3. T \in Seq(Chunk) BY <1>2 DEF Streams
<1>4. Len(T) \in Nat /\ DOMAIN T = 1 .. Len(T) BY <1>3
<1>5. CASE T = <<>>
  <2>1. DOMAIN T = {} BY <1>5
  <2>2. first = 0 BY <1>5
  <2> QED BY <2>1, <2>2
<1>6. CASE T # <<>>
  <2>1. PICK c \in {0, 1} : \A n \in 1 .. Len(T) : T[n] = <<i, n + c>> BY <1>2, <1>6 DEF ChunkInv, Given
  <2>2. 1 \in 1 .. Len(T) BY <1>3, <1>6
  <2>3. T[1] = <<i, 1 + c>> BY <2>1, <2>2
  <2>4. T[1][2] = 1 + c BY <2>3
  <2>5. c \in {0, 1} BY <2>1
  <2>6. first = c BY <1>6, <2>4, <2>5
  <2> QED BY <1>4, <2>1, <2>5, <2>6
<1> QED BY <1>5, <1>6

\* What the client has received on an id since its SYN is the answer of that
\* stream, as far as it has come.
LEMMA AnswerFollows ==
  ASSUME IInv
  PROVE  AnswerIsOwn
<1>0. /\ Types /\ OwnedInv /\ asked \in Seq(Requests) /\ Len(asked) \in Nat /\ DOMAIN asked = 1 .. Len(asked)
      /\ Len(stream) \in Nat
  BY ElementOf DEF IInv, Types
<1>1. /\ Log \in Seq(Answers) /\ Len(got) \in Nat /\ Len(jobs) \in Nat /\ Len(Log) = Len(got) + Len(jobs)
      /\ \A n \in 1 .. Len(got) : n \in 1 .. Len(Log) /\ Log[n] = got[n]
      /\ \A n \in 1 .. Len(Log) : Owned(Log[n], stream)
  BY <1>0, LogFacts
<1>2. \A n \in 1 .. Len(Log) : Log[n].n \in Nat
  <2>1. \A n \in 1 .. Len(Log) : Log[n] \in Answers BY <1>1, ElementOf
  <2> QED BY <2>1 DEF Answers
<1>3. SUFFICES ASSUME ~cut, NEW k \in DOMAIN asked, Newest(k), asked[k].careful, NEW n \in Mine(k)
               PROVE
      /\ got[n].i = k
      /\ got[n].cmd = "FIN" =>
           /\ \A m \in Mine(k) : m <= n
           /\ \A d \in 1 .. stream[k].tread : \E m \in Mine(k) : got[m].cmd = "PSH" /\ got[m].n = d
      /\ got[n].cmd = "SYNACK" => \A m \in Mine(k) : n <= m
      /\ got[n].cmd = "PSH" =>
           /\ \E m \in Mine(k) : m < n /\ got[m].cmd = "SYNACK"
           /\ \A m \in Mine(k) : got[m].cmd = "PSH" /\ m < n => got[m].n < got[n].n
           /\ got[n].n > 1 => \E m \in Mine(k) : m < n /\ got[m].cmd = "PSH" /\ got[m].n = got[n].n - 1
  BY DEF AnswerIsOwn
<1>4. PlaceInv /\ Listening
  <2>1. PlaceInv BY <1>3 DEF IInv
  <2>2. asked # <<>> BY <1>0, <1>3
  <2> QED BY <2>1, <2>2 DEF PlaceInv, StepInv, Listening
<1>5. LogInv /\ MarkInv BY <1>4 DEF PlaceInv
<1>6. asked[k].mark \in Nat /\ k \in 1 .. Len(asked)
  <2>1. asked[k] \in Requests BY <1>0, <1>3
  <2> QED BY <1>0, <1>3, <2>1 DEF Requests
<1>7. MarkOK(Log, asked, k) BY <1>5, <1>6 DEF MarkInv
<1>8. \A m \in Mine(k) : m \in 1 .. Len(got) /\ m \in 1 .. Len(Log) /\ Log[m] = got[m] /\ m > asked[k].mark
                         /\ got[m].sid = asked[k].sid
  <2>1. \A m \in asked[k].mark + 1 .. Len(got) : m \in 1 .. Len(got) /\ m > asked[k].mark BY <1>1, <1>6
  <2> QED BY <1>1, <2>1 DEF Mine
<1>9. ASSUME NEW m \in Mine(k) PROVE Log[m].i = k
  <2> DEFINE j == Log[m].i
  <2>1. m \in 1 .. Len(Log) /\ m > asked[k].mark /\ Log[m].sid = asked[k].sid BY <1>8
  <2>2. j \in 1 .. Len(stream) /\ stream[j].sid = asked[k].sid BY <1>1, <2>1 DEF Owned
  <2>3. j \in 1 .. Len(asked) /\ asked[j].sid = asked[k].sid BY <1>0, <1>4, <2>2 DEF PlaceInv, SidOK
  <2>4. j <= k BY <1>0, <1>3, <2>3 DEF Newest
  <2>5. SUFFICES ASSUME j # k PROVE FALSE OBVIOUS
  <2>6. j \in 1 .. k - 1 BY <1>6, <2>3, <2>4, <2>5
  <2>7. PICK l \in 1 .. Len(Log) : l <= asked[k].mark /\ From(Log, l, j, "FIN")
    BY <1>3, <1>7, <2>3, <2>6 DEF MarkOK
  <2>8. FinOK(Log, j, stream[j]) BY <1>5, <2>2 DEF LogInv, LogOK, Ids
  <2>9. m <= l BY <2>1, <2>7, <2>8 DEF FinOK
  <2> HIDE DEF j
  <2> QED BY <1>6, <2>1, <2>7, <2>9
<1>10. k \in Ids BY <1>1, <1>8, <1>9 DEF Owned, Ids
<1>11. LogOK(Log, k, stream[k]) BY <1>5, <1>10 DEF LogInv
<1>12. ASSUME NEW m \in 1 .. Len(Log), m <= n, Log[m].i = k PROVE m \in Mine(k) /\ got[m] = Log[m]
  <2>1. m \in 1 .. Len(got) BY <1>1, <1>8, <1>12
  <2>2. m > asked[k].mark BY <1>7, <1>12 DEF MarkOK
  <2>3. m \in asked[k].mark + 1 .. Len(got) BY <1>1, <1>6, <2>1, <2>2
  <2>4. Log[m].sid = stream[k].sid BY <1>1, <1>12 DEF Owned
  <2>5. stream[k].sid = asked[k].sid BY <1>4, <1>10 DEF PlaceInv, SidOK, Ids
  <2> QED BY <1>1, <2>1, <2>3, <2>4, <2>5 DEF Mine
<1>13. /\ n \in 1 .. Len(Log) /\ Log[n] = got[n] /\ Log[n].i = k BY <1>8, <1>9
<1>14. ASSUME got[n].cmd = "FIN"
       PROVE  /\ \A m \in Mine(k) : m <= n
              /\ \A d \in 1 .. stream[k].tread : \E m \in Mine(k) : got[m].cmd = "PSH" /\ got[m].n = d
  <2>1. /\ \A m \in 1 .. Len(Log) : Log[m].i = k => m <= n
        /\ \A d \in 1 .. stream[k].tread : Has(Log, k, d)
    BY <1>11, <1>13, <1>14 DEF LogOK, FinOK, From
  <2>2. \A m \in Mine(k) : m <= n BY <1>8, <1>9, <2>1
  <2>3. ASSUME NEW d \in 1 .. stream[k].tread PROVE \E m \in Mine(k) : got[m].cmd = "PSH" /\ got[m].n = d
    <3>1. PICK m \in 1 .. Len(Log) : From(Log, m, k, "PSH") /\ Log[m].n = d BY <2>1 DEF Has
    <3>2. m \in Mine(k) /\ got[m] = Log[m] BY <1>12, <2>1, <3>1 DEF From
    <3> QED BY <3>1, <3>2 DEF From
  <2> QED BY <2>2, <2>3
<1>15. ASSUME got[n].cmd = "SYNACK" PROVE \A m \in Mine(k) : n <= m
  <2>1. \A m \in 1 .. Len(Log) : Log[m].i = k => n <= m BY <1>11, <1>13, <1>15 DEF LogOK, AckOK, From
  <2> QED BY <1>8, <1>9, <2>1
<1>16. ASSUME got[n].cmd = "PSH"
       PROVE  /\ \E m \in Mine(k) : m < n /\ got[m].cmd = "SYNACK"
              /\ \A m \in Mine(k) : got[m].cmd = "PSH" /\ m < n => got[m].n < got[n].n
              /\ got[n].n > 1 => \E m \in Mine(k) : m < n /\ got[m].cmd = "PSH" /\ got[m].n = got[n].n - 1
  <2>1. /\ \E m \in 1 .. Len(Log) : m < n /\ From(Log, m, k, "SYNACK")
        /\ \A m \in 1 .. Len(Log) : From(Log, m, k, "PSH") /\ m < n => Log[m].n < Log[n].n
        /\ Log[n].n > 1 =>
             \E m \in 1 .. Len(Log) : m < n /\ From(Log, m, k, "PSH") /\ Log[m].n + 1 = Log[n].n
    BY <1>11, <1>13, <1>16 DEF LogOK, DataOK, From
  <2>2. \A m \in 1 .. Len(Log) : m < n => m <= n BY <1>13
  <2>3. \E m \in Mine(k) : m < n /\ got[m].cmd = "SYNACK"
    <3>1. PICK m \in 1 .. Len(Log) : m < n /\ From(Log, m, k, "SYNACK") BY <2>1
    <3>2. m \in Mine(k) /\ got[m] = Log[m] BY <1>12, <2>2, <3>1 DEF From
    <3> QED BY <3>1, <3>2 DEF From
  <2>4. \A m \in Mine(k) : got[m].cmd = "PSH" /\ m < n => got[m].n < got[n].n
    BY <1>8, <1>9, <1>13, <2>1 DEF From
  <2>5. ASSUME got[n].n > 1 PROVE \E m \in Mine(k) : m < n /\ got[m].cmd = "PSH" /\ got[m].n = got[n].n - 1
    <3>1. PICK m \in 1 .. Len(Log) : m < n /\ From(Log, m, k, "PSH") /\ Log[m].n + 1 = Log[n].n
      BY <1>13, <2>1, <2>5
    <3>2. m \in Mine(k) /\ got[m] = Log[m] BY <1>12, <2>2, <3>1 DEF From
    <3>3. Log[m].n = Log[n].n - 1
      <4>1. Log[m].n \in Nat /\ Log[n].n \in Nat BY <1>2, <1>13
      <4> QED BY <3>1, <4>1
    <3> QED BY <1>13, <3>1, <3>2, <3>3 DEF From
  <2> QED BY <2>3, <2>4, <2>5
<1> QED BY <1>13, <1>14, <1>15, <1>16

\* The invariant above holds in every reachable state of a session.
THEOREM Invariance == Spec => []IInv
<1>1. Init => IInv BY InitInv
<1>2. IInv /\ [Next]_vars => IInv' BY NextInv
<1> QED BY <1>1, <1>2, PTL DEF Spec

\* For any number of streams, ids, frames and openings: a target gets the chunks
\* of its own stream in order and without a gap, and what the client receives on
\* an id that it used again with care is the answer of the stream it opened last
\* (deliver_data, send_psh, send_fin, drain_write_jobs).
THEOREM StreamsStayApart == Spec => []StreamsDoNotMix
<1>1. IInv => StreamsDoNotMix BY OwnBytesFollows, AnswerFollows DEF StreamsDoNotMix
<1> QED BY <1>1, Invariance, PTL

\* For any number of streams, ids, frames and openings: a stream that neither
\* side has ended keeps its handle when queued frames of earlier streams are
\* written (drain_write_jobs, apply_outgoing_stream_state).
THEOREM LiveStreamsKeepHandles == Spec => []LiveKeepsHandle
<1>1. IInv => LiveKeepsHandle BY DEF IInv, PlaceInv, LiveKeepsHandle
<1> QED BY <1>1, Invariance, PTL

=============================================================================
