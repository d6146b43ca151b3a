--------------------------- MODULE EvaluationProofs ---------------------------
(***************************************************************************)
(* The evaluator, for every call of the two programs, every room of the    *)
(* tunnel and every number of flaws.                                       *)
(***************************************************************************)
EXTENDS Evaluation, FiniteSetTheorems, SequenceTheorems, TLAPS

-----------------------------------------------------------------------------
(* The lists *)

\* Enough of a sequence to be gone through place by place.
IsList(s) == Len(s) \in Nat /\ DOMAIN s = 1 .. Len(s)

LEMMA SeqIsList == ASSUME NEW T, NEW s \in Seq(T) PROVE IsList(s)
BY DEF IsList

\* The recursion of FlattenSeq has a solution up to every place.
Flattens(f, ss, m) == \A j \in 1 .. m : f[j] = IF j = 1 THEN ss[j] ELSE f[j - 1] \o ss[j]

LEMMA FlattenedUpTo ==
  ASSUME NEW T, NEW ss \in Seq(Seq(T)), NEW m \in Nat, m <= Len(ss)
  PROVE  \E f \in [1 .. m -> Seq(T)] : Flattens(f, ss, m)
<1> DEFINE Good(k) == \E f \in [1 .. k -> Seq(T)] :
                        \A j \in 1 .. k : f[j] = IF j = 1 THEN ss[j] ELSE f[j - 1] \o ss[j]
           bad == {k \in Nat : k <= Len(ss) /\ ~Good(k)}
<1>1. ASSUME m \in bad PROVE FALSE
  <2>1. PICK k \in bad : \A l \in bad : ~(<<l, k>> \in OpToRel(<, Nat))
    <3>1. bad \subseteq Nat OBVIOUS
    <3> HIDE DEF bad
    <3> QED BY <1>1, <3>1, NatLessThanWellFounded, WFMin
  <2>2. k \in Nat /\ k <= Len(ss) /\ ~Good(k) OBVIOUS
  <2>3. Good(0)
    <3>1. [j \in 1 .. 0 |-> <<>>] \in [1 .. 0 -> Seq(T)] OBVIOUS
    <3>2. \A j \in 1 .. 0 : FALSE OBVIOUS
    <3> QED BY <3>1, <3>2
  <2>4. k # 0 BY <2>2, <2>3
  <2> DEFINE l == k - 1
  <2>5. l \in Nat /\ l < k /\ l + 1 = k /\ l <= Len(ss) BY <2>2, <2>4
  <2>6. Good(l)
    <3>1. l \notin bad BY <2>1, <2>2, <2>5 DEF OpToRel
    <3> HIDE DEF l, Good
    <3> QED BY <2>5, <3>1
  <2>7. PICK f \in [1 .. l -> Seq(T)] :
               \A j \in 1 .. l : f[j] = IF j = 1 THEN ss[j] ELSE f[j - 1] \o ss[j]
    BY <2>6
  <2> DEFINE e == IF k = 1 THEN ss[k] ELSE f[l] \o ss[k]
             g == [j \in 1 .. k |-> IF j = k THEN e ELSE f[j]]
  <2>8. e \in Seq(T)
    <3>1. ss[k] \in Seq(T) BY <2>2, <2>4
    <3>2. CASE k = 1 BY <3>1, <3>2
    <3>3. CASE k # 1
      <4>1. l \in 1 .. l BY <2>5, <3>3
      <4>2. f[l] \in Seq(T) BY <4>1
      <4> QED BY <3>1, <3>3, <4>2
    <3> QED BY <3>2, <3>3
  <2>9. \A j \in 1 .. k : j # k => j \in 1 .. l BY <2>5
  <2>10. g \in [1 .. k -> Seq(T)]
    <3> HIDE DEF e, l
    <3> QED BY <2>8, <2>9
  <2>11. ASSUME NEW j \in 1 .. k PROVE g[j] = IF j = 1 THEN ss[j] ELSE g[j - 1] \o ss[j]
    <3>1. CASE j = k
      <4>1. g[j] = e BY <3>1
      <4>2. CASE k = 1 BY <3>1, <4>1, <4>2
      <4>3. CASE k # 1
        <5>1. l \in 1 .. k /\ l # k /\ j - 1 = l BY <2>5, <3>1, <4>3
        <5>2. g[l] = f[l] BY <5>1
        <5>3. e = f[l] \o ss[k] BY <4>3
        <5> HIDE DEF e, g, l
        <5> QED BY <3>1, <4>1, <4>3, <5>1, <5>2, <5>3
      <4> QED BY <4>2, <4>3
    <3>2. CASE j # k
      <4>1. j \in 1 .. l /\ g[j] = f[j] BY <2>9, <3>2
      <4>2. f[j] = IF j = 1 THEN ss[j] ELSE f[j - 1] \o ss[j] BY <2>7, <4>1
      <4>3. CASE j = 1 BY <4>1, <4>2, <4>3
      <4>4. CASE j # 1
        <5>1. j - 1 \in 1 .. k /\ j - 1 # k BY <2>5, <3>2, <4>1, <4>4
        <5>2. g[j - 1] = f[j - 1] BY <5>1
        <5> HIDE DEF g, l
        <5> QED BY <4>1, <4>2, <4>4, <5>2
      <4> QED BY <4>3, <4>4
    <3> QED BY <3>1, <3>2
  <2>12. Good(k)
    <3> HIDE DEF g, e, l
    <3> QED BY <2>10, <2>11
  <2> QED BY <2>2, <2>12
<1> QED BY <1>1 DEF Flattens

\* Flattening sequences gives a sequence.
LEMMA FlattenIsSeq == ASSUME NEW T, NEW ss \in Seq(Seq(T)) PROVE FlattenSeq(ss) \in Seq(T)
<1> DEFINE n == Len(ss)
           body(f) == [j \in 1 .. n |-> IF j = 1 THEN ss[j] ELSE f[j - 1] \o ss[j]]
           flat == CHOOSE f : f = body(f)
<1>1. n \in Nat /\ \A j \in 1 .. n : ss[j] \in Seq(T) OBVIOUS
<1>2. FlattenSeq(ss) = IF n = 0 THEN ss ELSE flat[n] BY DEF FlattenSeq
<1>3. CASE n = 0
  <2>1. ss = <<>> BY <1>3
  <2> QED BY <1>2, <1>3, <2>1
<1>4. CASE n # 0
  <2>1. PICK f \in [1 .. n -> Seq(T)] : Flattens(f, ss, n)
    <3>1. n \in Nat /\ n <= Len(ss) BY <1>1
    <3> HIDE DEF n
    <3> QED BY <3>1, FlattenedUpTo
  <2>2. f = body(f)
    <3>1. f = [j \in 1 .. n |-> f[j]] OBVIOUS
    <3> HIDE DEF n
    <3> QED BY <2>1, <3>1 DEF Flattens
  <2>3. flat = body(flat)
    <3> HIDE DEF body
    <3> QED BY <2>2
  <2> DEFINE bad == {j \in 1 .. n : flat[j] \notin Seq(T)}
  <2>4. \A j \in 1 .. n : flat[j] = IF j = 1 THEN ss[j] ELSE flat[j - 1] \o ss[j]
    <3> HIDE DEF flat, n
    <3> QED BY <2>3
  <2>5. ASSUME n \in bad PROVE FALSE
    <3>1. PICK k \in bad : \A l \in bad : ~(<<l, k>> \in OpToRel(<, Nat))
      <4>1. 1 .. n \subseteq Nat BY <1>1
      <4>2. bad \subseteq Nat
        <5> HIDE DEF flat, n
        <5> QED BY <4>1
      <4> HIDE DEF bad
      <4> QED BY <2>5, <4>2, NatLessThanWellFounded, WFMin
    <3>2. k \in 1 .. n /\ flat[k] \notin Seq(T) OBVIOUS
    <3> HIDE DEF flat
    <3>3. k # 1 BY <1>1, <2>4, <3>2
    <3>4. k - 1 \in 1 .. n /\ k - 1 < k /\ k - 1 \in Nat /\ k \in Nat BY <1>1, <3>2, <3>3
    <3>5. k - 1 \notin bad BY <3>1, <3>4 DEF OpToRel
    <3>6. flat[k - 1] \in Seq(T) BY <3>4, <3>5
    <3>7. flat[k] = flat[k - 1] \o ss[k] BY <2>4, <3>2, <3>3
    <3>8. ss[k] \in Seq(T) BY <1>1, <3>2
    <3> HIDE DEF n
    <3> QED BY <3>2, <3>6, <3>7, <3>8
  <2>6. n \in 1 .. n BY <1>1, <1>4
  <2> QED BY <1>2, <1>4, <2>5, <2>6
<1> QED BY <1>3, <1>4

LEMMA InOrderIsList ==
  ASSUME NEW T, NEW s \in Seq(T), NEW K \in SUBSET DOMAIN s PROVE IsList(InOrder(s, K))
<1> DEFINE c == Cardinality(K)
           e(n) == s[CHOOSE k \in K : Cardinality({j \in K : j <= k}) = n]
           U == {e(n) : n \in 1 .. c}
<1>1. c \in Nat
  <2>1. IsFiniteSet(1 .. Len(s)) BY FS_Interval
  <2>2. K \subseteq 1 .. Len(s) OBVIOUS
  <2> QED BY <2>1, <2>2, FS_Subset, FS_CardinalityType
<1>2. InOrder(s, K) = [n \in 1 .. c |-> e(n)] BY DEF InOrder
<1> HIDE DEF c, e
<1>3. [n \in 1 .. c |-> e(n)] \in Seq(U)
  <2>1. \A n \in 1 .. c : e(n) \in U OBVIOUS
  <2> HIDE DEF U
  <2>2. [n \in 1 .. c |-> e(n)] \in [1 .. c -> U] BY <2>1
  <2> QED BY <1>1, <2>2
<1> QED BY <1>2, <1>3, SeqIsList

LEMMA MergedIsList == ASSUME NEW T, NEW ss \in Seq(Seq(T)) PROVE IsList(Merged(ss))
<1> DEFINE flat == FlattenSeq(ss)
           K == {k \in DOMAIN flat : \A j \in 1 .. k - 1 : flat[j] # flat[k]}
<1>1. flat \in Seq(T) BY FlattenIsSeq
<1>2. Merged(ss) = InOrder(flat, K) BY DEF Merged
<1>3. K \in SUBSET DOMAIN flat OBVIOUS
<1> HIDE DEF flat, K
<1> QED BY <1>1, <1>2, <1>3, InOrderIsList

Protocols ==
  {"reality", "anytls", "tls", "raw", "ws", "ws+tls", "httpupgrade", "httpupgrade+tls", "grpc",
   "grpc+tls", "xhttp", "xhttp+tls", "quic", "kcp", "webtransport", "shadowtls", "vmess"}

\* So are the protocols of named stacks.
LEMMA ProtocolsOfIsList ==
  ASSUME NEW T, NEW r \in Seq(T) PROVE IsList(ProtocolsOf(r))
<1> DEFINE ss == [k \in DOMAIN r |-> IF r[k] \in DOMAIN STACKS THEN STACKS[r[k]] ELSE <<>>]
<1>1. ProtocolsOf(r) = Merged(ss) BY DEF ProtocolsOf
<1>2. \A s \in DOMAIN STACKS : STACKS[s] \in Seq(Protocols)
  <2>1. /\ STACKS.tier1 \in Seq(Protocols) /\ STACKS.tier2 \in Seq(Protocols) /\ STACKS.tier3 \in Seq(Protocols)
        /\ STACKS.tier4 \in Seq(Protocols) /\ STACKS.postquantum \in Seq(Protocols)
        /\ STACKS.legacy \in Seq(Protocols)
    BY DEF STACKS, Protocols
  <2>2. DOMAIN STACKS = {"tier1", "tier2", "tier3", "tier4", "postquantum", "legacy"} BY DEF STACKS
  <2> HIDE DEF STACKS
  <2> QED BY <2>1, <2>2
<1>3. ss \in Seq(Seq(Protocols))
  <2>1. DOMAIN r = 1 .. Len(r) /\ Len(r) \in Nat OBVIOUS
  <2>2. \A k \in 1 .. Len(r) : (IF r[k] \in DOMAIN STACKS THEN STACKS[r[k]] ELSE <<>>) \in Seq(Protocols)
    <3>1. <<>> \in Seq(Protocols) OBVIOUS
    <3> QED BY <1>2, <3>1
  <2> QED BY <2>1, <2>2
<1> HIDE DEF ss
<1> QED BY <1>1, <1>3, MergedIsList

\* What a call asks for is a list, and so is what the client may select instead.
LEMMA CallLists ==
  ASSUME NEW p \in Plans
  PROVE  /\ IsList(resolve_stacks(p.stacks).protocols) /\ IsList(resolve_protocols(p.protocols))
         /\ IsList(union(p.clusters))
<1>0. p.stacks \in Seq(STRING) /\ p.protocols \in Seq(STRING) /\ p.clusters \in Seq(Seq(STRING))
  BY EvaluationAssumption
<1>1. IsList(union(p.clusters)) BY <1>0, MergedIsList DEF union
<1>2. IsList(resolve_protocols(p.protocols))
  <2>1. DEFAULT_PROTOCOLS \in Seq(Protocols) BY DEF DEFAULT_PROTOCOLS, Protocols
  <2>2. CASE p.protocols \in Everything BY <2>1, <2>2, SeqIsList DEF resolve_protocols
  <2>3. CASE p.protocols \notin Everything BY <1>0, <2>3, SeqIsList DEF resolve_protocols
  <2> QED BY <2>2, <2>3
<1>3. IsList(resolve_stacks(p.stacks).protocols)
  <2>1. IsList(ProtocolsOf(p.stacks)) BY <1>0, ProtocolsOfIsList
  <2>2. IsList(ProtocolsOf(STACK_NAMES))
    <3>1. STACK_NAMES \in Seq({"tier1", "tier2", "tier3", "tier4", "postquantum", "legacy"})
      BY DEF STACK_NAMES
    <3> QED BY <3>1, ProtocolsOfIsList
  <2>3. CASE p.stacks \in Everything BY <2>2, <2>3 DEF resolve_stacks
  <2>4. CASE p.stacks \notin Everything BY <2>1, <2>4 DEF resolve_stacks
  <2> QED BY <2>3, <2>4
<1> QED BY <1>1, <1>2, <1>3

-----------------------------------------------------------------------------
(* Places *)

LEMMA PlaceType ==
  ASSUME NEW n \in Int, NEW S
  PROVE  IsFiniteSet((1 .. n) \ S) /\ Cardinality((1 .. n) \ S) \in Nat
<1>1. IsFiniteSet(1 .. n) BY FS_Interval
<1>2. (1 .. n) \ S \subseteq 1 .. n OBVIOUS
<1> QED BY <1>1, <1>2, FS_Subset, FS_CardinalityType

\* A protocol that is not passed over takes the next place.
LEMMA PlaceNext ==
  ASSUME NEW n \in Nat, NEW S, n >= 1, n \notin S
  PROVE  Cardinality((1 .. n) \ S) = Cardinality((1 .. n - 1) \ S) + 1
<1> DEFINE A == (1 .. n - 1) \ S
<1>1. (1 .. n) \ S = A \cup {n} OBVIOUS
<1>2. n \notin A OBVIOUS
<1>3. n - 1 \in Int OBVIOUS
<1>4. IsFiniteSet(A) BY <1>3, PlaceType
<1> HIDE DEF A
<1>5. Cardinality(A \cup {n}) = Cardinality(A) + 1 BY <1>2, <1>4, FS_AddElement
<1> QED BY <1>1, <1>5 DEF A

\* One that is passed over leaves the places before it alone.
LEMMA PlaceSkipped ==
  ASSUME NEW n \in Nat, NEW S
  PROVE  /\ \A j \in 1 .. n - 1 : (1 .. j) \ (S \cup {n}) = (1 .. j) \ S
         /\ S \subseteq 1 .. n - 1 => (1 .. n) \ (S \cup {n}) = (1 .. n - 1) \ S
OBVIOUS

\* Places are within the results.
LEMMA PlaceWithin ==
  ASSUME NEW n \in Int, NEW S, NEW j \in (1 .. n) \ S
  PROVE  Cardinality((1 .. j) \ S) \in 1 .. Cardinality((1 .. n) \ S)
<1> DEFINE A == (1 .. j) \ S   B == (1 .. n) \ S
<1>1. IsFiniteSet(A) /\ Cardinality(A) \in Nat BY PlaceType
<1>2. IsFiniteSet(B) /\ Cardinality(B) \in Nat BY PlaceType
<1>3. A \subseteq B /\ j \in A OBVIOUS
<1> HIDE DEF A, B
<1>4. Cardinality(A) <= Cardinality(B) BY <1>2, <1>3, FS_Subset
<1>5. Cardinality(A) # 0 BY <1>1, <1>3, FS_EmptySet
<1>6. Cardinality(A) \in 1 .. Cardinality(B) BY <1>1, <1>2, <1>4, <1>5
<1> QED BY <1>6 DEF A, B

-----------------------------------------------------------------------------
(* The inductive invariant.  The verdict compares what the client measured   *)
(* with what the server was told, over messages in both directions, so it is *)
(* inductive only with the dialogue: which messages can be on their way for  *)
(* each pair of places the two programs are at.                              *)

LEMMA Queues ==
  ASSUME NEW m, NEW n
  PROVE  /\ <<m>> # <<>> /\ Head(<<m>>) = m /\ Tail(<<m>>) = <<>>
         /\ <<m, n>> # <<>> /\ Head(<<m, n>>) = m /\ Tail(<<m, n>>) = <<n>>
         /\ Append(<<>>, m) = <<m>> /\ Append(<<m>>, n) = <<m, n>>
<1>1. <<m>> # <<>> OBVIOUS
<1>2. Head(<<m>>) = m OBVIOUS
<1>3. Tail(<<m>>) = <<>> OBVIOUS
<1>4. <<m, n>> # <<>> OBVIOUS
<1>5. Head(<<m, n>>) = m OBVIOUS
<1>6. Tail(<<m, n>>) = <<n>> OBVIOUS
<1>7. Append(<<>>, m) = <<m>> OBVIOUS
<1>8. Append(<<m>>, n) = <<m, n>>
  <2> DEFINE p == Append(<<m>>, n)
  <2>1. <<m>> \in Seq({m, n}) OBVIOUS
  <2>2. p \in Seq({m, n}) /\ Len(p) = 2 /\ p[1] = m /\ p[2] = n BY <2>1
  <2>3. <<m, n>> \in Seq({m, n}) /\ Len(<<m, n>>) = 2 OBVIOUS
  <2> HIDE DEF p
  <2>4. p = <<m, n>> BY <2>2, <2>3
  <2> QED BY <2>4 DEF p
<1> QED BY <1>1, <1>2, <1>3, <1>4, <1>5, <1>6, <1>7, <1>8

LossOf  == {"none", "some"}
Results == [protocol : Range(DEFAULT_PROTOCOLS), loss : LossOf]

\* Where the server is in its list.
Lists ==
  /\ plan \in Plans
  /\ IsList(list) /\ i \in Nat /\ i <= Len(list) + 1
  /\ skipped \subseteq 1 .. i - 1
  /\ srv = "test" => i >= 1
  /\ srv \in {"ready", "result"} => i \in 1 .. Len(list) /\ Known(list[i])

\* What may be on its way to the server, be the client there or not.
Sent ==
  \/ toServer = <<>>
  \/ toServer = <<Msg("auth", "")>>
  \/ toServer = <<Msg("select_protocols", union(plan.clusters))>>
  \/ toServer = <<Msg("ready", "")>>
  \/ \E loss \in LossOf : toServer = <<Msg("result", loss)>>

\* The messages of the loop, and the set of stacks that pass.
Goes     == Msg("next", "")
Ends     == Msg("done", "")
Tests    == Msg("test_config", list[i])
Passing  == {s \in Stacks : failing(s) = {}}
Sums     == Msg("stack_summary", Passing)
Finished == i = Len(list) + 1
Working  == {"latency", "bandwidth", "upload", "download", "loss", "report"}

TalkHandshake ==
  \/ cli = "connect" /\ srv = "auth" /\ toServer = <<>> /\ toClient = <<>>
  \/ cli = "auth" /\ srv = "auth" /\ toServer = <<Msg("auth", "")>> /\ toClient = <<>>
  \/ cli = "auth" /\ srv = "select" /\ toServer = <<>> /\ toClient = <<Msg("auth_ok", "")>>
  \/ cli = "auth" /\ srv = "over" /\ toServer = <<>> /\ toClient = <<Msg("auth_err", "")>>

TalkLoop ==
  /\ cli = "loop"
  /\ \/ /\ srv = "select" /\ toClient = <<>>
        /\ toServer = <<Msg("select_protocols", union(plan.clusters))>>
     \/ srv = "test" /\ toServer = <<>> /\ toClient \in {<<>>, <<Goes>>}
     \/ srv = "test" /\ toServer = <<>> /\ toClient = <<Ends>> /\ Finished
     \/ srv = "ready" /\ toServer = <<>> /\ toClient \in {<<Tests>>, <<Goes, Tests>>}
     \/ /\ srv = "result" /\ toClient = <<>> /\ measured # <<>>
        /\ toServer = <<Msg("result", Last(measured).loss)>>
     \/ /\ srv = "over" /\ toServer = <<>>
        /\ toClient \in {<<>>, <<Goes>>, <<Sums>>, <<Goes, Sums>>}
     \/ srv = "over" /\ toServer = <<>> /\ toClient \in {<<Ends>>, <<Ends, Sums>>} /\ Finished

TalkTest ==
  /\ \/ cli = "start" /\ srv = "ready" /\ toServer = <<Msg("ready", "")>> /\ toClient = <<>>
     \/ cli = "start" /\ srv = "result" /\ toServer = <<>> /\ toClient = <<Msg("start", list[i])>>
     \/ cli \in Working /\ srv = "result" /\ toServer = <<>> /\ toClient = <<>>
  /\ testing = list[i]

TalkLast ==
  /\ Finished
  /\ \/ cli = "last" /\ srv = "test" /\ toServer = <<>> /\ toClient = <<>>
     \/ cli = "last" /\ srv = "over" /\ toServer = <<>> /\ toClient \in {<<>>, <<Sums>>}
     \/ cli = "done" /\ srv = "over"

Talk == cli = "failed" \/ TalkHandshake \/ TalkLoop \/ TalkTest \/ TalkLast

\* The places the client has dealt with, and what both sides have noted of them.
Past == IF srv = "result" /\ (cli = "report" \/ toServer # <<>>) THEN i ELSE i - 1

Measured(n) ==
  /\ measured \in Seq(Results) /\ Len(measured) = Place(n)
  /\ \A j \in (1 .. n) \ skipped : measured[Place(j)].protocol = list[j]

Noted ==
  /\ results \in Seq(LossOf) /\ Len(results) = Place(i - 1)
  /\ \A k \in 1 .. Len(results) : results[k] = measured[k].loss

Book == cli # "failed" => Measured(Past) /\ Noted

Early ==
  srv \in {"auth", "select"} =>
    i = 0 /\ list = <<>> /\ skipped = {} /\ measured = <<>> /\ results = <<>>

Shown == cli # "failed" => verdict = {} \/ (cli = "done" /\ verdict = Passing)

IInv == Lists /\ Sent /\ Talk /\ Book /\ Early /\ Shown

\* One message at most is on its way to the server, and it is one of the four.
LEMMA Heard ==
  ASSUME Sent
  PROVE  /\ toServer # <<>> => Tail(toServer) = <<>>
         /\ Hears("auth") => toServer = <<Msg("auth", "")>>
         /\ Hears("select_protocols") => toServer = <<Msg("select_protocols", union(plan.clusters))>>
         /\ Hears("ready") => toServer = <<Msg("ready", "")>>
         /\ Hears("result") => \E loss \in LossOf : toServer = <<Msg("result", loss)>>
<1>1. CASE toServer = <<>> BY <1>1 DEF Hears
<1>2. CASE toServer = <<Msg("auth", "")>>
  <2> DEFINE m == Msg("auth", "")
  <2>0. m.type = "auth" BY DEF Msg
  <2> HIDE DEF m
  <2>1. toServer = <<m>> /\ Head(toServer).type = "auth" /\ Tail(toServer) = <<>>
    BY <1>2, <2>0, Queues DEF m
  <2> QED BY <1>2, <2>1 DEF Hears
<1>3. CASE toServer = <<Msg("select_protocols", union(plan.clusters))>>
  <2>1. Head(toServer).type = "select_protocols" /\ Tail(toServer) = <<>> BY <1>3, Queues DEF Msg
  <2> QED BY <1>3, <2>1 DEF Hears
<1>4. CASE toServer = <<Msg("ready", "")>>
  <2> DEFINE m == Msg("ready", "")
  <2>0. m.type = "ready" BY DEF Msg
  <2> HIDE DEF m
  <2>1. toServer = <<m>> /\ Head(toServer).type = "ready" /\ Tail(toServer) = <<>>
    BY <1>4, <2>0, Queues DEF m
  <2> QED BY <1>4, <2>1 DEF Hears
<1>5. ASSUME NEW loss \in LossOf, toServer = <<Msg("result", loss)>>
      PROVE  /\ Tail(toServer) = <<>> /\ ~Hears("auth") /\ ~Hears("select_protocols") /\ ~Hears("ready")
  BY <1>5, Queues DEF Hears, Msg
<1> QED BY <1>1, <1>2, <1>3, <1>4, <1>5 DEF Sent

\* What a client that is alive and not done has been shown.
LEMMA NothingShown == ASSUME Shown, cli \notin {"failed", "done"} PROVE verdict = {}
BY DEF Shown

\* A client that ends badly leaves the server's side as it was.
LEMMA FailsStep ==
  ASSUME IInv, cli' = "failed", UNCHANGED <<plan, srvVars, measured, toServer>>
  PROVE  IInv'
<1>1. Lists' BY DEF IInv, Lists, srvVars
<1>2. Sent' BY DEF IInv, Sent
<1>3. Early' BY DEF IInv, Early, srvVars
<1> QED BY <1>1, <1>2, <1>3 DEF IInv, Talk, Book, Shown

LEMMA AuthenticateStep == ASSUME IInv, Authenticate PROVE IInv'
<1>1. /\ srv = "auth" /\ toServer = <<Msg("auth", "")>> /\ toServer' = <<>>
      /\ UNCHANGED <<plan, list, i, results, skipped, cli, testing, measured, verdict, up>>
  BY Heard, Queues DEF IInv, Authenticate, cliVars
<1>2. \/ srv' = "select" /\ Says(Msg("auth_ok", ""))
      \/ srv' = "over" /\ Says(Msg("auth_err", ""))
  BY DEF Authenticate
<1>3. Lists' BY <1>1, <1>2 DEF IInv, Lists
<1>4. Sent' BY <1>1 DEF Sent
<1>5. Talk'
  <2>1. cli = "failed" \/ (cli = "auth" /\ toClient = <<>>)
    <3>1. toServer # <<>> BY <1>1, Queues
    <3> QED BY <1>1, <3>1 DEF IInv, Talk, TalkHandshake, TalkLoop, TalkTest, TalkLast
  <2>2. CASE cli = "failed" BY <1>1, <2>2 DEF Talk
  <2>3. CASE cli = "auth" /\ toClient = <<>>
    <3>1. \/ srv' = "select" /\ toClient' = <<Msg("auth_ok", "")>>
          \/ srv' = "over" /\ toClient' = <<Msg("auth_err", "")>>
      BY <1>2, <2>3, Queues DEF Says
    <3> QED BY <1>1, <2>3, <3>1 DEF Talk, TalkHandshake
  <2> QED BY <2>1, <2>2, <2>3
<1>6. Book' BY <1>1, <1>2 DEF IInv, Book, Past, Measured, Noted, Place
<1>7. Early' BY <1>1, <1>2 DEF IInv, Early
<1>8. Shown'
  <2>1. cli # "done"
    <3>1. toServer # <<>> BY <1>1, Queues
    <3> QED BY <1>1, <3>1 DEF IInv, Talk, TalkHandshake, TalkLoop, TalkTest, TalkLast
  <2> QED BY <1>1, <2>1, NothingShown DEF IInv, Shown
<1> QED BY <1>3, <1>4, <1>5, <1>6, <1>7, <1>8 DEF IInv

LEMMA SelectStep == ASSUME IInv, Select PROVE IInv'
<1>1. /\ srv = "select" /\ srv' = "test" /\ i' = 1 /\ toServer' = <<>>
      /\ toServer = <<Msg("select_protocols", union(plan.clusters))>>
      /\ UNCHANGED <<plan, results, skipped, toClient, cli, testing, measured, verdict, up>>
  BY Heard, Queues DEF IInv, Select, cliVars
<1>2. i = 0 /\ list = <<>> /\ skipped = {} /\ measured = <<>> /\ results = <<>>
  BY <1>1 DEF IInv, Early
<1>3. IsList(list')
  <2>1. list' = IF union(plan.clusters) = <<>> THEN ServerList ELSE union(plan.clusters)
    <3>1. Head(toServer).of = union(plan.clusters) BY <1>1, Queues DEF Msg
    <3> QED BY <3>1 DEF Select
  <2>2. IsList(ServerList) /\ IsList(union(plan.clusters))
    BY CallLists DEF IInv, Lists, ServerList
  <2> QED BY <2>1, <2>2
<1>4. Lists'
  <2>1. Len(list') \in Nat BY <1>3 DEF IsList
  <2>2. i' \in Nat /\ i' <= Len(list') + 1 /\ i' >= 1 BY <1>1, <2>1
  <2>3. skipped' \subseteq 1 .. i' - 1 BY <1>1, <1>2
  <2> QED BY <1>1, <1>3, <2>2, <2>3 DEF IInv, Lists
<1>5. Sent' BY <1>1 DEF Sent
<1>6. cli = "failed" \/ (cli = "loop" /\ toClient = <<>>)
  <2>1. toServer # <<>> /\ Msg("auth", "") # Msg("select_protocols", union(plan.clusters))
    BY <1>1, Queues DEF Msg
  <2> QED BY <1>1, <2>1 DEF IInv, Talk, TalkHandshake, TalkLoop, TalkTest, TalkLast
<1>7. Talk' BY <1>1, <1>6 DEF Talk, TalkLoop
<1>8. Book'
  <2>1. Past' = 0 BY <1>1 DEF Past
  <2>2. Place(0)' = 0 /\ (1 .. 0) \ skipped' = {}
    <3>1. (1 .. 0) \ skipped' = {} OBVIOUS
    <3> QED BY <3>1, FS_EmptySet DEF Place
  <2>3. Measured(0)'
    <3>1. measured' = <<>> BY <1>1, <1>2
    <3> QED BY <2>2, <3>1 DEF Measured
  <2>4. Noted'
    <3>1. results' = <<>> /\ i' - 1 = 0 BY <1>1, <1>2
    <3> QED BY <2>2, <3>1 DEF Noted
  <2> QED BY <2>1, <2>3, <2>4 DEF Book
<1>9. Early' BY <1>1 DEF Early
<1>10. Shown' BY <1>1, <1>6, NothingShown DEF IInv, Shown
<1> QED BY <1>4, <1>5, <1>7, <1>8, <1>9, <1>10 DEF IInv

\* While the server is about to start a test, the client is in its loop, has
\* died, or was told that the list is at its end.
LEMMA AtTest ==
  ASSUME Talk, srv = "test"
  PROVE  \/ cli = "failed"
         \/ cli = "loop" /\ toServer = <<>> /\ toClient \in {<<>>, <<Goes>>}
         \/ cli = "loop" /\ toServer = <<>> /\ toClient = <<Ends>> /\ Finished
         \/ cli = "last" /\ toServer = <<>> /\ toClient = <<>> /\ Finished
BY DEF Talk, TalkHandshake, TalkLoop, TalkTest, TalkLast

\* The books are the server's matter alone where the client is not at work.
LEMMA BookKept ==
  ASSUME Book, UNCHANGED <<list, i, results, skipped, cli, measured>>, Past' = Past PROVE Book'
BY DEF Book, Measured, Noted, Place

LEMMA StartTestStep == ASSUME IInv, StartTest PROVE IInv'
<1>1. /\ srv = "test" /\ i <= Len(list)
      /\ UNCHANGED <<plan, list, results, toServer, cli, testing, measured, verdict, up>>
  BY DEF StartTest, cliVars
<1>2. /\ IsList(list) /\ Len(list) \in Nat /\ i \in 1 .. Len(list) /\ i \in Nat /\ i >= 1
      /\ i # Len(list) + 1
  BY <1>1 DEF IInv, Lists, IsList
<1>3. \/ cli = "failed"
      \/ cli = "loop" /\ toServer = <<>> /\ toClient \in {<<>>, <<Goes>>}
  BY <1>1, <1>2, AtTest DEF IInv, Finished
<1>4. Sent' BY <1>1 DEF IInv, Sent
<1>5. Shown' BY <1>1, <1>3, NothingShown DEF IInv, Shown
<1>6. CASE Known(list[i]) /\ Says(Tests) /\ srv' = "ready" /\ UNCHANGED <<i, skipped>>
  <2>1. Lists' BY <1>1, <1>2, <1>6 DEF IInv, Lists, IsList
  <2>2. Talk'
    <3>1. CASE cli = "failed" BY <1>1, <3>1 DEF Talk
    <3>2. CASE cli = "loop" /\ toServer = <<>> /\ toClient \in {<<>>, <<Goes>>}
      <4>1. Tests' = Tests /\ Goes' = Goes BY <1>1, <1>6 DEF Tests, Goes
      <4>2. toClient' \in {<<Tests>>, <<Goes, Tests>>} BY <1>6, <3>2, Queues DEF Says
      <4>3. toClient' \in {<<Tests'>>, <<Goes', Tests'>>} BY <4>1, <4>2
      <4> QED BY <1>1, <1>6, <3>2, <4>3 DEF Talk, TalkLoop
    <3> QED BY <1>3, <3>1, <3>2
  <2>3. Book' BY <1>1, <1>6, BookKept DEF IInv, Past
  <2>4. Early' BY <1>6 DEF Early
  <2> QED BY <1>4, <1>5, <2>1, <2>2, <2>3, <2>4 DEF IInv
<1>7. CASE srv' = "over" /\ UNCHANGED <<i, skipped, toClient>>
  <2>1. Lists' BY <1>1, <1>7 DEF IInv, Lists
  <2>2. Talk'
    <3>1. Goes' = Goes BY DEF Goes
    <3> QED BY <1>1, <1>3, <1>7, <3>1 DEF Talk, TalkLoop
  <2>3. Book' BY <1>1, <1>7, BookKept DEF IInv, Past
  <2>4. Early' BY <1>7 DEF Early
  <2> QED BY <1>4, <1>5, <2>1, <2>2, <2>3, <2>4 DEF IInv
<1>8. CASE i' = i + 1 /\ skipped' = skipped \cup {i} /\ UNCHANGED <<srv, toClient>>
  <2>0. i' - 1 = i /\ skipped \subseteq 1 .. i - 1 BY <1>2, <1>8 DEF IInv, Lists
  <2>1. Lists'
    <3>1. i' \in Nat /\ i' <= Len(list) + 1 /\ i' >= 1 BY <1>2, <1>8
    <3>2. skipped' \subseteq 1 .. i' - 1
      <4>1. 1 .. i - 1 \subseteq 1 .. i /\ i \in 1 .. i BY <1>2
      <4> QED BY <1>8, <2>0, <4>1
    <3> QED BY <1>1, <1>8, <3>1, <3>2 DEF IInv, Lists
  <2>2. Talk'
    <3>1. Goes' = Goes BY DEF Goes
    <3> QED BY <1>1, <1>3, <1>8, <3>1 DEF Talk, TalkLoop
  <2>3. /\ (1 .. i) \ skipped' = (1 .. i - 1) \ skipped
        /\ \A j \in 1 .. i - 1 : (1 .. j) \ skipped' = (1 .. j) \ skipped
    BY <1>2, <1>8, <2>0, PlaceSkipped
  <2>4. Book'
    <3> SUFFICES ASSUME cli' # "failed" PROVE Measured(Past)' /\ Noted' BY DEF Book
    <3>1. Past = i - 1 /\ Past' = i /\ cli # "failed" BY <1>1, <1>8, <2>0 DEF Past
    <3>2. Measured(i - 1) /\ Noted BY <3>1 DEF IInv, Book
    <3>3. Cardinality((1 .. i) \ skipped') = Place(i - 1) BY <2>3 DEF Place
    <3>4. ASSUME NEW j \in (1 .. i) \ skipped'
          PROVE  measured[Cardinality((1 .. j) \ skipped')].protocol = list[j]
      <4>1. j \in (1 .. i - 1) \ skipped BY <2>3
      <4>2. measured[Place(j)].protocol = list[j] BY <3>2, <4>1 DEF Measured
      <4>3. Place(j) = Cardinality((1 .. j) \ skipped') BY <2>3, <4>1 DEF Place
      <4> QED BY <4>2, <4>3
    <3>5. measured \in Seq(Results) /\ Len(measured) = Place(i - 1) BY <3>2 DEF Measured
    <3>6. Measured(Past)' BY <1>1, <3>1, <3>3, <3>4, <3>5 DEF Measured, Place
    <3>7. Noted' BY <1>1, <2>0, <3>2, <3>3 DEF Noted, Place
    <3> QED BY <3>6, <3>7
  <2>5. Early' BY <1>1, <1>8 DEF Early
  <2> QED BY <1>4, <1>5, <2>1, <2>2, <2>4, <2>5 DEF IInv
<1> QED BY <1>6, <1>7, <1>8 DEF StartTest, Tests

LEMMA WaitReadyStep == ASSUME IInv, WaitReady PROVE IInv'
<1>1. /\ srv = "ready" /\ srv' = "result" /\ toServer = <<Msg("ready", "")>> /\ toServer' = <<>>
      /\ Says(Msg("start", list[i]))
      /\ UNCHANGED <<plan, list, i, results, skipped, cli, testing, measured, verdict, up>>
  BY Heard, Queues DEF IInv, WaitReady, cliVars
<1>2. cli = "failed" \/ (cli = "start" /\ toClient = <<>> /\ testing = list[i])
  <2>1. toServer # <<>> BY <1>1, Queues
  <2> QED BY <1>1, <2>1 DEF IInv, Talk, TalkHandshake, TalkLoop, TalkTest, TalkLast
<1>3. Lists' BY <1>1 DEF IInv, Lists
<1>4. Sent' BY <1>1 DEF Sent
<1>5. Talk'
  <2>1. CASE cli = "failed" BY <1>1, <2>1 DEF Talk
  <2>2. CASE cli = "start" /\ toClient = <<>> /\ testing = list[i]
    <3>1. toClient' = <<Msg("start", list'[i'])>> BY <1>1, <2>2, Queues DEF Says
    <3> QED BY <1>1, <2>2, <3>1 DEF Talk, TalkTest
  <2> QED BY <1>2, <2>1, <2>2
<1>6. Book'
  <2>1. cli = "failed" => Book' BY <1>1 DEF Book
  <2>2. cli = "start" => Past' = Past BY <1>1 DEF Past
  <2> QED BY <1>1, <1>2, <2>1, <2>2, BookKept DEF IInv
<1>7. Early' BY <1>1 DEF Early
<1>8. Shown' BY <1>1, <1>2, NothingShown DEF IInv, Shown
<1> QED BY <1>3, <1>4, <1>5, <1>6, <1>7, <1>8 DEF IInv

LEMMA WaitResultStep == ASSUME IInv, WaitResult PROVE IInv'
<1>1. PICK loss \in LossOf : toServer = <<Msg("result", loss)>> BY Heard DEF IInv, WaitResult
<1>2. /\ srv = "result" /\ srv' = "test" /\ i' = i + 1 /\ toServer' = <<>> /\ toServer # <<>>
      /\ results' = Append(results, loss)
      /\ Says(Msg(IF i < Len(list) THEN "next" ELSE "done", ""))
      /\ UNCHANGED <<plan, list, skipped, cli, testing, measured, verdict, up>>
  <2> DEFINE m == Msg("result", loss)
  <2>1. m.of = loss BY DEF Msg
  <2> HIDE DEF m
  <2>2. toServer = <<m>> BY <1>1 DEF m
  <2>3. Head(toServer).of = loss /\ Tail(toServer) = <<>> /\ toServer # <<>> BY <2>1, <2>2, Queues
  <2> QED BY <2>3 DEF WaitResult, cliVars
<1>3. /\ IsList(list) /\ Len(list) \in Nat /\ i \in 1 .. Len(list) /\ i \in Nat /\ i >= 1
      /\ i' - 1 = i /\ skipped \subseteq 1 .. i - 1 /\ i \notin skipped
  <2>1. /\ IsList(list) /\ Len(list) \in Nat /\ i \in 1 .. Len(list) /\ i \in Nat
        /\ skipped \subseteq 1 .. i - 1
    BY <1>2 DEF IInv, Lists, IsList
  <2>2. i >= 1 /\ i \notin 1 .. i - 1 BY <2>1
  <2>3. i' - 1 = i
    <3>1. i' = i + 1 /\ i \in Nat BY <1>2, <2>1
    <3> QED BY <3>1
  <2> QED BY <2>1, <2>2, <2>3
<1>4. \/ cli = "failed"
      \/ cli = "loop" /\ toClient = <<>> /\ measured # <<>> /\ toServer = <<Msg("result", Last(measured).loss)>>
  BY <1>2 DEF IInv, Talk, TalkHandshake, TalkLoop, TalkTest, TalkLast
<1>5. Lists'
  <2>1. i' \in Nat /\ i' <= Len(list) + 1 /\ i' >= 1
    <3>1. Len(list) \in Nat /\ i \in 1 .. Len(list) /\ i' = i + 1 BY <1>2, <1>3
    <3> QED BY <3>1
  <2>2. skipped' \subseteq 1 .. i' - 1
    <3>1. 1 .. i - 1 \subseteq 1 .. i BY <1>3
    <3> QED BY <1>2, <1>3, <3>1
  <2> QED BY <1>2, <2>1, <2>2 DEF IInv, Lists
<1>6. Sent' BY <1>2 DEF Sent
<1>7. Talk'
  <2>1. CASE cli = "failed" BY <1>2, <2>1 DEF Talk
  <2>2. CASE cli = "loop" /\ toClient = <<>>
    <3>1. CASE i < Len(list)
      <4>1. toClient' = <<Goes>> BY <1>2, <2>2, <3>1, Queues DEF Says, Goes
      <4>2. Goes' = Goes BY DEF Goes
      <4> QED BY <1>2, <2>2, <4>1, <4>2 DEF Talk, TalkLoop
    <3>2. CASE ~(i < Len(list))
      <4>1. toClient' = <<Ends>> BY <1>2, <2>2, <3>2, Queues DEF Says, Ends
      <4>2. Ends' = Ends BY DEF Ends
      <4>3. i' = Len(list) + 1
        <5>1. Len(list) \in Nat /\ i \in 1 .. Len(list) /\ i' = i + 1 BY <1>2, <1>3
        <5> QED BY <3>2, <5>1
      <4>4. Finished' BY <1>2, <4>3 DEF Finished
      <4> QED BY <1>2, <2>2, <4>1, <4>2, <4>4 DEF Talk, TalkLoop
    <3> QED BY <3>1, <3>2
  <2> QED BY <1>4, <2>1, <2>2
<1>8. Book'
  <2> SUFFICES ASSUME cli' # "failed" PROVE Measured(Past)' /\ Noted' BY DEF Book
  <2>1. cli # "failed" /\ Past = i /\ Past' = i BY <1>2, <1>3 DEF Past
  <2>2. Measured(i) /\ Noted BY <2>1 DEF IInv, Book
  <2>3. Measured(Past)' BY <1>2, <2>1, <2>2 DEF Measured, Place
  <2> DEFINE n == Place(i - 1)
  <2>4. Place(i) = n + 1 /\ n \in Nat
    <3>1. Place(i) = n + 1 BY <1>3, PlaceNext DEF Place
    <3>2. i - 1 \in Int BY <1>3
    <3> QED BY <3>1, <3>2, PlaceType DEF Place
  <2>5. results \in Seq(LossOf) /\ Len(results) = n /\ \A k \in 1 .. n : results[k] = measured[k].loss
    BY <2>2 DEF Noted
  <2>6. measured \in Seq(Results) /\ Len(measured) = n + 1 BY <2>2, <2>4 DEF Measured
  <2>7. loss = measured[n + 1].loss
    <3>1. <<Msg("result", loss)>> = <<Msg("result", Last(measured).loss)>> BY <1>1, <1>4, <2>1
    <3>2. loss = Last(measured).loss BY <3>1 DEF Msg
    <3> QED BY <2>6, <3>2 DEF Last
  <2>8. Place(i - 1)' = n + 1 BY <1>2, <1>3, <2>4 DEF Place
  <2> HIDE DEF n
  <2>9. /\ results' \in Seq(LossOf) /\ Len(results') = n + 1
        /\ \A k \in 1 .. n + 1 : results'[k] = IF k = n + 1 THEN loss ELSE results[k]
    <3> DEFINE r == Append(results, loss)
    <3>1. r \in Seq(LossOf) /\ Len(r) = n + 1 BY <2>4, <2>5
    <3>2. \A k \in 1 .. n : r[k] = results[k] BY <2>4, <2>5
    <3>3. r[n + 1] = loss BY <2>4, <2>5
    <3>4. \A k \in 1 .. n + 1 : k # n + 1 => k \in 1 .. n BY <2>4
    <3> HIDE DEF r
    <3>5. \A k \in 1 .. n + 1 : r[k] = IF k = n + 1 THEN loss ELSE results[k] BY <3>2, <3>3, <3>4
    <3> QED BY <1>2, <3>1, <3>5 DEF r
  <2>10. ASSUME NEW k \in 1 .. n + 1 PROVE results'[k] = measured[k].loss
    <3>1. CASE k = n + 1 BY <2>7, <2>9, <3>1
    <3>2. CASE k # n + 1
      <4>1. k \in 1 .. n BY <2>4, <3>2
      <4> QED BY <2>5, <2>9, <3>2, <4>1
    <3> QED BY <3>1, <3>2
  <2>11. Noted' BY <1>2, <2>8, <2>9, <2>10 DEF Noted
  <2> QED BY <2>3, <2>11
<1>9. Early' BY <1>2 DEF Early
<1>10. Shown' BY <1>2, <1>4, NothingShown DEF IInv, Shown
<1> QED BY <1>5, <1>6, <1>7, <1>8, <1>9, <1>10 DEF IInv

LEMMA NoticeEndStep == ASSUME IInv, NoticeEnd PROVE IInv'
<1>1. /\ cli \in {"done", "failed"} /\ srv \notin {"over", "test"} /\ srv' \in {"over", "summary"}
      /\ UNCHANGED <<plan, list, i, results, skipped, toServer, cli, testing, measured, verdict>>
  BY DEF NoticeEnd, ClientGone, cliVars
<1>2. cli = "failed"
  BY <1>1 DEF IInv, Talk, TalkHandshake, TalkLoop, TalkTest, TalkLast, Working
<1>3. Lists' BY <1>1 DEF IInv, Lists
<1>4. Sent' BY <1>1 DEF IInv, Sent
<1> QED BY <1>1, <1>2, <1>3, <1>4 DEF IInv, Talk, Book, Early, Shown

\* The messages say the same as long as the server's side does not change.
LEMMA SameMessages ==
  ASSUME UNCHANGED <<plan, list, i, results>>
  PROVE  /\ Passing' = Passing /\ Sums' = Sums /\ Goes' = Goes /\ Ends' = Ends /\ Tests' = Tests
         /\ Finished' = Finished
<1>1. proto_results' = proto_results BY DEF proto_results
<1>2. \A s : failing(s)' = failing(s) BY <1>1 DEF failing
<1>3. Stacks' = Stacks BY DEF Stacks
<1>4. Passing' = Passing BY <1>2, <1>3 DEF Passing
<1> QED BY <1>4 DEF Sums, Goes, Ends, Tests, Finished

LEMMA SummariseStep == ASSUME IInv, Summarise PROVE IInv'
<1>1. /\ srv \in {"summary", "test"} /\ (srv = "test" => i > Len(list)) /\ srv' = "over"
      /\ (Says(Sums) \/ UNCHANGED toClient)
      /\ UNCHANGED <<plan, list, i, results, skipped, toServer, cli, testing, measured, verdict>>
  BY DEF Summarise, Sums, Passing, cliVars
<1>2. Sums' = Sums /\ Goes' = Goes /\ Ends' = Ends /\ Finished' = Finished BY <1>1, SameMessages
<1>3. \/ cli = "failed"
      \/ cli = "loop" /\ toServer = <<>> /\ toClient \in {<<>>, <<Goes>>}
      \/ cli = "loop" /\ toServer = <<>> /\ toClient = <<Ends>> /\ Finished
      \/ cli = "last" /\ toServer = <<>> /\ toClient = <<>> /\ Finished
  <2>1. CASE srv = "test" BY <2>1, AtTest DEF IInv
  <2>2. CASE srv = "summary"
    BY <2>2 DEF IInv, Talk, TalkHandshake, TalkLoop, TalkTest, TalkLast
  <2> QED BY <1>1, <2>1, <2>2
<1>4. Lists' BY <1>1 DEF IInv, Lists
<1>5. Sent' BY <1>1 DEF IInv, Sent
<1>6. Talk'
  <2>1. CASE cli = "failed" BY <1>1, <2>1 DEF Talk
  <2>2. CASE cli = "loop" /\ toServer = <<>> /\ toClient \in {<<>>, <<Goes>>}
    <3>1. toClient' \in {<<>>, <<Goes>>, <<Sums>>, <<Goes, Sums>>} BY <1>1, <2>2, Queues DEF Says
    <3> QED BY <1>1, <1>2, <2>2, <3>1 DEF Talk, TalkLoop
  <2>3. CASE cli = "loop" /\ toServer = <<>> /\ toClient = <<Ends>> /\ Finished
    <3>1. toClient' \in {<<Ends>>, <<Ends, Sums>>} BY <1>1, <2>3, Queues DEF Says
    <3> QED BY <1>1, <1>2, <2>3, <3>1 DEF Talk, TalkLoop
  <2>4. CASE cli = "last" /\ toServer = <<>> /\ toClient = <<>> /\ Finished
    <3>1. toClient' \in {<<>>, <<Sums>>} BY <1>1, <2>4, Queues DEF Says
    <3> QED BY <1>1, <1>2, <2>4, <3>1 DEF Talk, TalkLast
  <2> QED BY <1>3, <2>1, <2>2, <2>3, <2>4
<1>7. Book' BY <1>1, BookKept DEF IInv, Past
<1>8. Early' BY <1>1 DEF Early
<1>9. Shown' BY <1>1, <1>3, NothingShown DEF IInv, Shown
<1> QED BY <1>4, <1>5, <1>6, <1>7, <1>8, <1>9 DEF IInv

LEMMA SendAuthStep == ASSUME IInv, SendAuth PROVE IInv'
<1>1. /\ cli = "connect" /\ cli' = "auth" /\ Tells(Msg("auth", ""))
      /\ UNCHANGED <<plan, srv, list, i, results, skipped, testing, measured, verdict, toClient>>
  BY DEF SendAuth, ClientStep, srvVars
<1>2. srv = "auth" /\ toServer = <<>> /\ toClient = <<>>
  BY <1>1 DEF IInv, Talk, TalkHandshake, TalkLoop, TalkTest, TalkLast, Working
<1>3. toServer' = <<Msg("auth", "")>> BY <1>1, <1>2, Queues DEF Tells
<1>4. Lists' BY <1>1 DEF IInv, Lists
<1>5. Sent' BY <1>3 DEF Sent
<1>6. Talk' BY <1>1, <1>2, <1>3 DEF Talk, TalkHandshake
<1>7. Book' BY <1>1, <1>2 DEF IInv, Book, Past, Measured, Noted, Place
<1>8. Early' BY <1>1 DEF IInv, Early
<1>9. Shown' BY <1>1, NothingShown DEF IInv, Shown
<1> QED BY <1>4, <1>5, <1>6, <1>7, <1>8, <1>9 DEF IInv

LEMMA RecvAuthStep == ASSUME IInv, RecvAuth PROVE IInv'
<1>1. /\ cli = "auth" /\ toClient # <<>> /\ toClient' = Tail(toClient)
      /\ UNCHANGED <<plan, srv, list, i, results, skipped, testing, measured, verdict, up>>
  BY DEF RecvAuth, ClientStep, srvVars
<1>2. /\ toServer = <<>>
      /\ \/ srv = "select" /\ toClient = <<Msg("auth_ok", "")>>
         \/ srv = "over" /\ toClient = <<Msg("auth_err", "")>>
  BY <1>1 DEF IInv, Talk, TalkHandshake, TalkLoop, TalkTest, TalkLast, Working
<1>3. CASE cli' = "failed" /\ UNCHANGED toServer BY <1>1, <1>3, FailsStep DEF srvVars
<1>4. CASE Reads("auth_ok") /\ Tells(Msg("select_protocols", union(plan.clusters))) /\ cli' = "loop"
  <2>1. srv = "select" /\ toClient = <<Msg("auth_ok", "")>>
    <3> DEFINE m == Msg("auth_err", "")
    <3>1. m.type # "auth_ok" BY DEF Msg
    <3> HIDE DEF m
    <3>2. toClient = <<m>> => Head(toClient).type # "auth_ok" BY <3>1, Queues
    <3> QED BY <1>2, <1>4, <3>2 DEF Reads, m
  <2>2. toClient' = <<>> BY <1>1, <2>1, Queues
  <2>3. toServer' = <<Msg("select_protocols", union(plan.clusters))>>
    BY <1>2, <1>4, <2>1, Queues DEF Tells
  <2>4. plan' = plan BY <1>1
  <2>5. Lists' BY <1>1 DEF IInv, Lists
  <2>6. Sent' BY <2>3, <2>4 DEF Sent
  <2>7. Talk' BY <1>1, <1>4, <2>1, <2>2, <2>3, <2>4 DEF Talk, TalkLoop
  <2>8. Book' BY <1>1, <2>1 DEF IInv, Book, Past, Measured, Noted, Place
  <2>9. Early' BY <1>1 DEF IInv, Early
  <2>10. Shown' BY <1>1, NothingShown DEF IInv, Shown
  <2> QED BY <2>5, <2>6, <2>7, <2>8, <2>9, <2>10 DEF IInv
<1> QED BY <1>3, <1>4 DEF RecvAuth, ClientStep

\* What a client in its loop has before it, by the kind of the first message.
LEMMA Read ==
  ASSUME Talk, cli = "loop", toClient # <<>>
  PROVE  /\ toServer = <<>>
         /\ Reads("test_config") => srv = "ready" /\ toClient = <<Tests>>
         /\ Reads("next") => \/ srv \in {"test", "over"} /\ toClient = <<Goes>>
                             \/ srv = "ready" /\ toClient = <<Goes, Tests>>
                             \/ srv = "over" /\ toClient = <<Goes, Sums>>
         /\ Reads("done") => \/ srv \in {"test", "over"} /\ toClient = <<Ends>> /\ Finished
                             \/ srv = "over" /\ toClient = <<Ends, Sums>> /\ Finished
<1>1. TalkLoop BY DEF Talk, TalkHandshake, TalkTest, TalkLast, Working
<1>2. Goes.type = "next" /\ Ends.type = "done" /\ Tests.type = "test_config" /\ Sums.type = "stack_summary"
  BY DEF Goes, Ends, Tests, Sums, Msg
<1>3. \/ /\ srv \in {"test", "over"} /\ toServer = <<>> /\ toClient = <<Goes>>
      \/ /\ srv \in {"test", "over"} /\ toServer = <<>> /\ toClient = <<Ends>> /\ Finished
      \/ /\ srv = "ready" /\ toServer = <<>> /\ toClient \in {<<Tests>>, <<Goes, Tests>>}
      \/ /\ srv = "over" /\ toServer = <<>> /\ toClient \in {<<Sums>>, <<Goes, Sums>>}
      \/ /\ srv = "over" /\ toServer = <<>> /\ toClient = <<Ends, Sums>> /\ Finished
  BY <1>1 DEF TalkLoop
<1>4. /\ Head(<<Goes>>) = Goes /\ Head(<<Ends>>) = Ends /\ Head(<<Tests>>) = Tests /\ Head(<<Sums>>) = Sums
      /\ Head(<<Goes, Tests>>) = Goes /\ Head(<<Goes, Sums>>) = Goes /\ Head(<<Ends, Sums>>) = Ends
  BY Queues
<1>5. CASE srv \in {"test", "over"} /\ toServer = <<>> /\ toClient = <<Goes>>
  BY <1>2, <1>4, <1>5 DEF Reads
<1>6. CASE srv \in {"test", "over"} /\ toServer = <<>> /\ toClient = <<Ends>> /\ Finished
  BY <1>2, <1>4, <1>6 DEF Reads
<1>7. CASE srv = "ready" /\ toServer = <<>> /\ toClient \in {<<Tests>>, <<Goes, Tests>>}
  BY <1>2, <1>4, <1>7 DEF Reads
<1>8. CASE srv = "over" /\ toServer = <<>> /\ toClient \in {<<Sums>>, <<Goes, Sums>>}
  BY <1>2, <1>4, <1>8 DEF Reads
<1>9. CASE srv = "over" /\ toServer = <<>> /\ toClient = <<Ends, Sums>> /\ Finished
  BY <1>2, <1>4, <1>9 DEF Reads
<1> QED BY <1>3, <1>5, <1>6, <1>7, <1>8, <1>9

LEMMA RecvLoopStep == ASSUME IInv, RecvLoop PROVE IInv'
<1>1. /\ cli = "loop" /\ toClient # <<>> /\ toClient' = Tail(toClient)
      /\ UNCHANGED <<plan, srv, list, i, results, skipped, measured, verdict, up>>
  BY DEF RecvLoop, ClientStep, srvVars
<1>2. Talk /\ toServer = <<>> BY <1>1, Read DEF IInv
<1>3. Sums' = Sums /\ Goes' = Goes /\ Ends' = Ends /\ Tests' = Tests /\ Finished' = Finished
  BY <1>1, SameMessages
<1>4. Lists' BY <1>1 DEF IInv, Lists
<1>5. Early' BY <1>1 DEF IInv, Early
<1>6. CASE Reads("test_config") /\ Tells(Msg("ready", "")) /\ cli' = "start" /\ testing' = Head(toClient).of
  <2>1. srv = "ready" /\ toClient = <<Tests>> BY <1>1, <1>2, <1>6, Read
  <2>2. toClient' = <<>> /\ testing' = list[i]
    <3>1. Head(toClient) = Tests /\ Tail(toClient) = <<>> BY <2>1, Queues
    <3>2. Tests.of = list[i] BY DEF Tests, Msg
    <3> QED BY <1>1, <1>6, <3>1, <3>2
  <2>3. toServer' = <<Msg("ready", "")>> BY <1>2, <1>6, <2>1, Queues DEF Tells
  <2>4. Sent' BY <2>3 DEF Sent
  <2>5. Talk' BY <1>1, <1>6, <2>1, <2>2, <2>3 DEF Talk, TalkTest
  <2>6. Book' BY <1>1, <1>2, <1>6, <2>1 DEF IInv, Book, Past, Measured, Noted, Place
  <2>7. Shown' BY <1>1, <1>6, NothingShown DEF IInv, Shown
  <2> QED BY <1>4, <1>5, <2>4, <2>5, <2>6, <2>7 DEF IInv
<1>7. CASE Reads("next") /\ cli' = "loop" /\ UNCHANGED <<toServer, testing>>
  <2>1. \/ srv \in {"test", "over"} /\ toClient = <<Goes>>
        \/ srv = "ready" /\ toClient = <<Goes, Tests>>
        \/ srv = "over" /\ toClient = <<Goes, Sums>>
    BY <1>1, <1>2, <1>7, Read
  <2>2. \/ srv \in {"test", "over"} /\ toClient' = <<>>
        \/ srv = "ready" /\ toClient' = <<Tests>>
        \/ srv = "over" /\ toClient' = <<Sums>>
    <3>1. Tail(<<Goes>>) = <<>> /\ Tail(<<Goes, Tests>>) = <<Tests>> /\ Tail(<<Goes, Sums>>) = <<Sums>>
      BY Queues
    <3> QED BY <1>1, <2>1, <3>1
  <2>3. Sent' BY <1>1, <1>7 DEF IInv, Sent
  <2>4. Talk'
    <3>1. toServer' = <<>> BY <1>2, <1>7
    <3> QED BY <1>1, <1>3, <1>7, <2>2, <3>1 DEF Talk, TalkLoop
  <2>5. Book' BY <1>1, <1>7 DEF IInv, Book, Past, Measured, Noted, Place
  <2>6. Shown' BY <1>1, <1>7, NothingShown DEF IInv, Shown
  <2> QED BY <1>4, <1>5, <2>3, <2>4, <2>5, <2>6 DEF IInv
<1>8. CASE Reads("done") /\ cli' = "last" /\ UNCHANGED <<toServer, testing>>
  <2>1. \/ srv \in {"test", "over"} /\ toClient = <<Ends>> /\ Finished
        \/ srv = "over" /\ toClient = <<Ends, Sums>> /\ Finished
    BY <1>1, <1>2, <1>8, Read
  <2>2. \/ srv \in {"test", "over"} /\ toClient' = <<>> /\ Finished
        \/ srv = "over" /\ toClient' = <<Sums>> /\ Finished
    <3>1. Tail(<<Ends>>) = <<>> /\ Tail(<<Ends, Sums>>) = <<Sums>> BY Queues
    <3> QED BY <1>1, <2>1, <3>1
  <2>3. Sent' BY <1>1, <1>8 DEF IInv, Sent
  <2>4. Talk'
    <3>1. toServer' = <<>> BY <1>2, <1>8
    <3> QED BY <1>1, <1>3, <1>8, <2>2, <3>1 DEF Talk, TalkLast
  <2>5. Book' BY <1>1, <1>8, <2>1 DEF IInv, Book, Past, Measured, Noted, Place
  <2>6. Shown' BY <1>1, <1>8, NothingShown DEF IInv, Shown
  <2> QED BY <1>4, <1>5, <2>3, <2>4, <2>5, <2>6 DEF IInv
<1>9. CASE cli' = "failed" /\ UNCHANGED <<toServer, testing>> BY <1>1, <1>9, FailsStep DEF srvVars
<1> QED BY <1>6, <1>7, <1>8, <1>9 DEF RecvLoop, ClientStep

\* A client at work is alone: the server waits for its result.
LEMMA AtWork ==
  ASSUME Talk, cli \in Working
  PROVE  srv = "result" /\ toServer = <<>> /\ toClient = <<>> /\ testing = list[i]
BY DEF Talk, TalkHandshake, TalkLoop, TalkTest, TalkLast, Working

LEMMA RecvStartStep == ASSUME IInv, RecvStart PROVE IInv'
<1>1. /\ cli = "start" /\ cli' = "latency" /\ toClient # <<>> /\ toClient' = Tail(toClient)
      /\ UNCHANGED <<plan, srv, list, i, results, skipped, testing, measured, verdict, up, toServer>>
  BY DEF RecvStart, Reads, ClientStep, srvVars
<1>2. /\ srv = "result" /\ toServer = <<>> /\ toClient = <<Msg("start", list[i])>> /\ testing = list[i]
  BY <1>1 DEF IInv, Talk, TalkHandshake, TalkLoop, TalkTest, TalkLast, Working
<1>3. toClient' = <<>> BY <1>1, <1>2, Queues
<1>4. Lists' BY <1>1 DEF IInv, Lists
<1>5. Sent' BY <1>1 DEF IInv, Sent
<1>6. Talk' BY <1>1, <1>2, <1>3 DEF Talk, TalkTest, Working
<1>7. Book' BY <1>1, <1>2 DEF IInv, Book, Past, Measured, Noted, Place
<1>8. Early' BY <1>1 DEF IInv, Early
<1>9. Shown' BY <1>1, NothingShown DEF IInv, Shown
<1> QED BY <1>4, <1>5, <1>6, <1>7, <1>8, <1>9 DEF IInv

\* The measurements before the last one change nothing that is reported.
LEMMA WorkStep ==
  ASSUME IInv, cli \in Working, cli' \in Working, cli # "report", cli' # "report",
         UNCHANGED <<plan, srvVars, testing, measured, verdict, toServer, toClient>>
  PROVE  IInv'
<1>1. srv = "result" /\ toServer = <<>> /\ toClient = <<>> /\ testing = list[i] BY AtWork DEF IInv
<1>2. UNCHANGED <<srv, list, i, results, skipped>> BY DEF srvVars
<1>3. Lists' BY <1>2 DEF IInv, Lists
<1>4. Sent' BY DEF IInv, Sent
<1>5. Talk' BY <1>1, <1>2 DEF Talk, TalkTest
<1>6. Book' BY <1>1, <1>2 DEF IInv, Book, Past, Measured, Noted, Place, Working
<1>7. Early' BY <1>2 DEF IInv, Early
<1>8. Shown'
  <2>1. cli \notin {"failed", "done"} BY DEF Working
  <2> QED BY <2>1, NothingShown DEF IInv, Shown
<1> QED BY <1>3, <1>4, <1>5, <1>6, <1>7, <1>8 DEF IInv

LEMMA LossStep == ASSUME IInv, run_packet_loss_test PROVE IInv'
<1>1. /\ cli = "loss" /\ cli' = "report"
      /\ UNCHANGED <<plan, srv, list, i, results, skipped, testing, verdict, up, toServer, toClient>>
  BY DEF run_packet_loss_test, ClientStep, srvVars
<1>2. PICK loss \in LossOf : measured' = Append(measured, [protocol |-> testing, loss |-> loss])
  BY DEF run_packet_loss_test, LossOf
<1>3. srv = "result" /\ toServer = <<>> /\ toClient = <<>> /\ testing = list[i]
  BY <1>1, AtWork DEF IInv, Working
<1>4. /\ i \in Nat /\ i >= 1 /\ skipped \subseteq 1 .. i - 1 /\ i \notin skipped /\ Known(list[i])
  <2>1. i \in 1 .. Len(list) /\ i \in Nat /\ skipped \subseteq 1 .. i - 1 /\ Known(list[i])
    BY <1>3 DEF IInv, Lists
  <2>2. i >= 1 /\ i \notin 1 .. i - 1 BY <2>1 DEF IInv, Lists, IsList
  <2> QED BY <2>1, <2>2
<1>5. Lists' BY <1>1 DEF IInv, Lists
<1>6. Sent' BY <1>1 DEF IInv, Sent
<1>7. Talk' BY <1>1, <1>3 DEF Talk, TalkTest, Working
<1>8. Book'
  <2> DEFINE r == [protocol |-> testing, loss |-> loss]   n == Place(i - 1)
  <2>1. Past = i - 1 /\ Past' = i BY <1>1, <1>3 DEF Past
  <2>2. Measured(i - 1) /\ Noted BY <1>1, <2>1 DEF IInv, Book
  <2>3. r \in Results BY <1>2, <1>3, <1>4 DEF Results, Known
  <2>4. Place(i) = n + 1 /\ n \in Nat
    <3>1. Place(i) = n + 1 BY <1>4, PlaceNext DEF Place
    <3>2. i - 1 \in Int BY <1>4
    <3> QED BY <3>1, <3>2, PlaceType DEF Place
  <2>5. measured \in Seq(Results) /\ Len(measured) = n BY <2>2 DEF Measured
  <2>6. \A j \in (1 .. i - 1) \ skipped : Place(j) \in 1 .. n /\ measured[Place(j)].protocol = list[j]
    <3>1. i - 1 \in Int BY <1>4
    <3> QED BY <2>2, <3>1, PlaceWithin DEF Measured, Place
  <2>7. r.protocol = list[i] BY <1>3
  <2>8. Len(results) = n /\ \A k \in 1 .. n : results[k] = measured[k].loss BY <2>2 DEF Noted
  <2> HIDE DEF r, n
  <2>9. /\ measured' \in Seq(Results) /\ Len(measured') = n + 1 /\ measured'[n + 1] = r
        /\ \A k \in 1 .. n : measured'[k] = measured[k]
    <3>1. measured' = Append(measured, r) BY <1>2 DEF r
    <3>2. Append(measured, r) \in Seq(Results) /\ Len(Append(measured, r)) = n + 1 BY <2>3, <2>5
    <3>3. Append(measured, r)[n + 1] = r BY <2>4, <2>5
    <3>4. \A k \in 1 .. n : Append(measured, r)[k] = measured[k] BY <2>4, <2>5
    <3> QED BY <3>1, <3>2, <3>3, <3>4
  <2>10. ASSUME NEW j \in (1 .. i) \ skipped PROVE measured'[Place(j)].protocol = list[j]
    <3>1. CASE j = i BY <2>4, <2>7, <2>9, <3>1
    <3>2. CASE j # i
      <4>1. j \in (1 .. i - 1) \ skipped BY <1>4, <3>2
      <4> QED BY <2>6, <2>9, <4>1
    <3> QED BY <3>1, <3>2
  <2>11. Measured(i)' BY <1>1, <2>4, <2>9, <2>10 DEF Measured, Place
  <2>12. Noted' BY <1>1, <2>2, <2>8, <2>9 DEF Noted, Place, n
  <2> QED BY <1>1, <2>1, <2>11, <2>12 DEF Book, Measured, Place
<1>9. Early' BY <1>1, <1>3 DEF Early
<1>10. Shown' BY <1>1, NothingShown DEF IInv, Shown
<1> QED BY <1>5, <1>6, <1>7, <1>8, <1>9, <1>10 DEF IInv

LEMMA SendResultStep == ASSUME IInv, SendResult PROVE IInv'
<1>1. /\ cli = "report" /\ cli' = "loop" /\ Tells(Msg("result", Last(measured).loss))
      /\ UNCHANGED <<plan, srv, list, i, results, skipped, testing, measured, verdict, up, toClient>>
  BY DEF SendResult, ClientStep, srvVars
<1>2. srv = "result" /\ toServer = <<>> /\ toClient = <<>> BY <1>1, AtWork DEF IInv, Working
<1>3. toServer' = <<Msg("result", Last(measured).loss)>> BY <1>1, <1>2, Queues DEF Tells
<1>4. measured # <<>> /\ Last(measured).loss \in LossOf
  <2>1. i \in 1 .. Len(list) /\ i \in Nat /\ skipped \subseteq 1 .. i - 1 BY <1>2 DEF IInv, Lists
  <2>2. i >= 1 /\ i \notin 1 .. i - 1 BY <2>1 DEF IInv, Lists, IsList
  <2>3. Past = i BY <1>1, <1>2 DEF Past
  <2>4. measured \in Seq(Results) /\ Len(measured) = Place(i) BY <1>1, <2>3 DEF IInv, Book, Measured
  <2>5. i \in (1 .. i) \ skipped BY <2>1, <2>2
  <2>6. Place(i) \in 1 .. Place(i)
    <3>1. i \in Int BY <2>1
    <3> QED BY <2>5, <3>1, PlaceWithin DEF Place
  <2>7. Len(measured) \in 1 .. Len(measured) BY <2>4, <2>6
  <2>8. measured[Len(measured)] \in Results BY <2>4, <2>7
  <2>9. measured # <<>> BY <2>7
  <2> QED BY <2>8, <2>9 DEF Last, Results
<1>5. Lists' BY <1>1 DEF IInv, Lists
<1>6. Sent' BY <1>3, <1>4 DEF Sent
<1>7. Talk'
  <2>1. toServer' = <<Msg("result", Last(measured').loss)>> /\ measured' # <<>> BY <1>1, <1>3, <1>4
  <2> QED BY <1>1, <1>2, <2>1 DEF Talk, TalkLoop
<1>8. Book'
  <2>1. Past = i /\ Past' = i
    <3>1. toServer' # <<>> BY <1>3, Queues
    <3> QED BY <1>1, <1>2, <3>1 DEF Past
  <2> QED BY <1>1, <2>1 DEF IInv, Book, Measured, Noted, Place
<1>9. Early' BY <1>1 DEF IInv, Early
<1>10. Shown' BY <1>1, NothingShown DEF IInv, Shown
<1> QED BY <1>5, <1>6, <1>7, <1>8, <1>9, <1>10 DEF IInv

LEMMA RecvLastStep == ASSUME IInv, RecvLast PROVE IInv'
<1>1. /\ cli = "last" /\ cli' = "done"
      /\ UNCHANGED <<plan, srv, list, i, results, skipped, testing, measured, up, toServer>>
      /\ \/ toClient # <<>> /\ verdict' = Head(toClient).of
         \/ toClient = <<>> /\ srv = "over" /\ UNCHANGED verdict
  BY DEF RecvLast, ServerGone, ClientStep, srvVars
<1>2. /\ Finished /\ toServer = <<>>
      /\ \/ srv = "test" /\ toClient = <<>>
         \/ srv = "over" /\ toClient \in {<<>>, <<Sums>>}
  BY <1>1 DEF IInv, Talk, TalkHandshake, TalkLoop, TalkTest, TalkLast, Working
<1>3. Passing' = Passing /\ Finished' = Finished BY <1>1, SameMessages
<1>4. srv = "over" BY <1>1, <1>2
<1>5. Lists' BY <1>1 DEF IInv, Lists
<1>6. Sent' BY <1>1 DEF IInv, Sent
<1>7. Talk' BY <1>1, <1>2, <1>3, <1>4 DEF Talk, TalkLast
<1>8. Book' BY <1>1, <1>4 DEF IInv, Book, Past, Measured, Noted, Place
<1>9. Early' BY <1>1 DEF IInv, Early
<1>10. Shown'
  <2>1. CASE toClient # <<>> /\ verdict' = Head(toClient).of
    <3>1. Head(toClient) = Sums BY <1>2, <2>1, Queues
    <3>2. Sums.of = Passing BY DEF Sums, Msg
    <3> QED BY <1>1, <1>3, <2>1, <3>1, <3>2 DEF Shown
  <2>2. CASE UNCHANGED verdict BY <1>1, <2>2, NothingShown DEF IInv, Shown
  <2> QED BY <1>1, <2>1, <2>2
<1> QED BY <1>5, <1>6, <1>7, <1>8, <1>9, <1>10 DEF IInv

-----------------------------------------------------------------------------
(* Every step keeps the invariant *)

LEMMA Starts == Init => IInv
<1> SUFFICES ASSUME Init PROVE IInv OBVIOUS
<1>1. IsList(list) /\ Len(list) = 0
  <2>1. list = <<>> BY DEF Init
  <2>2. <<>> \in Seq({}) /\ Len(<<>>) = 0 OBVIOUS
  <2> QED BY <2>1, <2>2, SeqIsList
<1>2. Lists
  <2>1. i = 0 /\ skipped = {} /\ srv = "auth" /\ plan \in Plans BY DEF Init
  <2>2. i \in Nat /\ i <= Len(list) + 1 BY <1>1, <2>1
  <2> QED BY <1>1, <2>1, <2>2 DEF Lists
<1>3. Past = 0 - 1 BY DEF Init, Past
<1>4. Place(0 - 1) = 0
  <2>1. (1 .. 0 - 1) \ skipped = {} OBVIOUS
  <2> QED BY <2>1, FS_EmptySet DEF Place
<1>5. (1 .. 0 - 1) \ skipped = {} OBVIOUS
<1>6. Measured(0 - 1)
  <2>1. measured = <<>> BY DEF Init
  <2>2. measured \in Seq(Results) /\ Len(measured) = 0 BY <2>1
  <2> QED BY <1>4, <1>5, <2>2 DEF Measured
<1>7. Noted
  <2>1. results = <<>> /\ i = 0 BY DEF Init
  <2> QED BY <1>4, <2>1 DEF Noted
<1>8. Talk BY DEF Init, Talk, TalkHandshake
<1> QED BY <1>2, <1>3, <1>6, <1>7, <1>8 DEF IInv, Init, Sent, Book, Early, Shown

LEMMA ServerSteps == ASSUME IInv, serve_client PROVE IInv'
BY AuthenticateStep, SelectStep, StartTestStep, WaitReadyStep, WaitResultStep, NoticeEndStep,
   SummariseStep DEF serve_client

LEMMA ClientSteps == ASSUME IInv, run_evaluation PROVE IInv'
<1>1. ASSUME run_latency_test \/ run_bandwidth_test \/ run_upload_phase \/ UploadFails \/ run_download_phase
      PROVE  IInv'
  <2>1. /\ cli \in Working /\ cli' \in Working /\ cli # "report" /\ cli' # "report"
        /\ UNCHANGED <<plan, srvVars, testing, measured, verdict, toServer, toClient>>
    BY <1>1 DEF run_latency_test, run_bandwidth_test, run_upload_phase, UploadFails, run_download_phase,
       ClientStep, Working
  <2> QED BY <2>1, WorkStep
<1>2. ASSUME ServerLost PROVE IInv' BY <1>2, FailsStep DEF ServerLost, ClientStep
<1> QED BY <1>1, <1>2, SendAuthStep, RecvAuthStep, RecvLoopStep, RecvStartStep, LossStep, SendResultStep,
       RecvLastStep DEF run_evaluation, Dialogue, Answered

\* The target reads, and the time of the upload ends, beside all this.
LEMMA OtherSteps == ASSUME IInv, spawn_bandwidth_target \/ UploadTimeOver \/ ClientDies PROVE IInv'
<1>1. ASSUME spawn_bandwidth_target \/ UploadTimeOver PROVE IInv'
  <2>1. /\ cli \in Working /\ cli' \in Working /\ cli # "report" /\ cli' # "report"
        /\ UNCHANGED <<plan, srvVars, testing, measured, verdict, toServer, toClient>>
    BY <1>1 DEF spawn_bandwidth_target, TargetReads, UploadTimeOver, ClientStep, Working
  <2> QED BY <2>1, WorkStep
<1>2. ASSUME ClientDies PROVE IInv' BY <1>2, FailsStep DEF ClientDies, ClientStep
<1> QED BY <1>1, <1>2

LEMMA Stutters == ASSUME IInv, UNCHANGED vars PROVE IInv'
<1>1. UNCHANGED <<plan, srv, list, i, results, skipped, cli, testing, measured, verdict, up, toServer, toClient>>
  BY DEF vars, srvVars, cliVars
<1>2. Passing' = Passing /\ Sums' = Sums /\ Goes' = Goes /\ Ends' = Ends /\ Tests' = Tests
      /\ Finished' = Finished
  BY <1>1, SameMessages
<1>3. Lists' BY <1>1 DEF IInv, Lists
<1>4. Sent' BY <1>1 DEF IInv, Sent
<1>5. Talk' BY <1>1, <1>2 DEF IInv, Talk, TalkHandshake, TalkLoop, TalkTest, TalkLast
<1>6. Book' BY <1>1, BookKept DEF IInv, Past
<1>7. Early' BY <1>1 DEF IInv, Early
<1>8. Shown' BY <1>1, <1>2 DEF IInv, Shown
<1> QED BY <1>3, <1>4, <1>5, <1>6, <1>7, <1>8 DEF IInv

LEMMA Invariance == Spec => []IInv
<1>1. IInv /\ [Next]_vars => IInv' BY ServerSteps, ClientSteps, OtherSteps, Stutters DEF Next
<1> QED BY <1>1, Starts, PTL DEF Spec

\* With nothing passed over every protocol of the list has the result at its own
\* place, so a stack without a failing result has no failing protocol.
LEMMA Earned == IInv => VerdictIsEarned
<1> SUFFICES ASSUME IInv, cli = "done" PROVE VerdictIsEarned BY DEF VerdictIsEarned
<1> DEFINE n == Len(list)
<1>1. /\ srv = "over" /\ n \in Nat /\ DOMAIN list = 1 .. n /\ i - 1 = n
      /\ (verdict = {} \/ verdict = Passing)
  <2>1. srv = "over" /\ Finished
    BY DEF IInv, Talk, TalkHandshake, TalkLoop, TalkTest, TalkLast, Working
  <2>2. n \in Nat /\ DOMAIN list = 1 .. n BY DEF IInv, Lists, IsList
  <2>3. i - 1 = n BY <2>1, <2>2 DEF Finished
  <2> QED BY <2>1, <2>2, <2>3 DEF IInv, Shown
<1>2. Measured(n) /\ Noted /\ Len(results) = Place(n)
  <2>1. Past = n BY <1>1 DEF Past
  <2>2. Measured(n) /\ Noted BY <2>1 DEF IInv, Book
  <2> QED BY <1>1, <2>2 DEF Noted
<1>3. /\ measured \in Seq(Results) /\ results \in Seq(LossOf) /\ Len(measured) = Place(n)
      /\ \A k \in 1 .. Len(results) : results[k] = measured[k].loss
      /\ \A j \in (1 .. n) \ skipped : measured[Place(j)].protocol = list[j]
  BY <1>2 DEF Measured, Noted
<1>4. [k \in DOMAIN measured |-> measured[k].loss] = results
  <2>1. DOMAIN measured = 1 .. Len(results) BY <1>2, <1>3
  <2>2. results = [k \in 1 .. Len(results) |-> results[k]] BY <1>3
  <2> QED BY <1>3, <2>1, <2>2
<1>5. ASSUME skipped = {}, NEW s \in verdict, NEW p \in cluster_failing(STACKS[s]) \cap Range(list)
      PROVE  FALSE
  <2>1. ASSUME NEW j \in 0 .. n PROVE Place(j) = j
    <3>1. (1 .. j) \ skipped = 1 .. j BY <1>5
    <3>2. j \in Nat BY <1>1
    <3>3. Cardinality(1 .. j) = j BY <3>2, FS_Interval
    <3> QED BY <3>1, <3>3 DEF Place
  <2>2. PICK j \in 1 .. n : p = list[j] BY <1>1, <1>5 DEF Range
  <2>3. Place(n) = n /\ Place(j) = j BY <1>1, <2>1, <2>2
  <2>4. Len(measured) = n /\ Len(results) = n /\ measured[j].protocol = p /\ results[j] = measured[j].loss
    BY <1>2, <1>3, <1>5, <2>2, <2>3
  <2>5. [protocol |-> list[j], loss |-> results[j]] \in Range(proto_results)
    <3>1. proto_results = [k \in 1 .. n |-> [protocol |-> list[k], loss |-> results[k]]]
      BY <1>1, <2>4 DEF proto_results
    <3> QED BY <2>2, <3>1 DEF Range
  <2>6. failing(s) = {} BY <1>1, <1>5 DEF Passing
  <2>7. p \in Range(STACKS[s]) BY <1>5 DEF cluster_failing
  <2>8. results[j] = "none" BY <2>2, <2>5, <2>6, <2>7 DEF failing
  <2>9. measured[j] \in Range(measured)
    <3>1. j \in DOMAIN measured BY <1>3, <2>2, <2>4
    <3> QED BY <3>1 DEF Range
  <2> QED BY <1>5, <2>4, <2>8, <2>9 DEF cluster_failing
<1> QED BY <1>1, <1>3, <1>4, <1>5 DEF VerdictIsEarned

\* A client that ends well has measured every protocol whose targets were
\* started, the server has noted the same losses at the same places, and what
\* the client is shown as PASS lost nothing: serve_client and run_evaluation
\* agree after every interleaving, early end and passed-over protocol.
THEOREM VerdictEarned == Spec => []VerdictIsEarned
BY Invariance, Earned, PTL

-----------------------------------------------------------------------------
(* Types.  The dialogue bounds both queues while the client is there; Types    *)
(* adds what is true after it has gone, and the tunnel of the upload.          *)

Servers == {"auth", "select", "test", "ready", "result", "summary", "over"}
Clients == {"connect", "auth", "loop", "start", "latency", "bandwidth", "upload", "download",
            "loss", "report", "last", "done", "failed"}
Uploads == [pipe : Seq({"data", "BW_DOWNLOAD"}), target : {"scan", "send"}, late : BOOLEAN]
Quiet   == cli \in {"done", "failed"} => toClient = <<>>
Tunnel  == up \in Uploads /\ Len(up.pipe) <= Room
Types   == srv \in Servers /\ cli \in Clients /\ Quiet /\ Tunnel

LEMMA TypesStart == Init => Types
<1> SUFFICES ASSUME Init PROVE Types OBVIOUS
<1>1. srv = "auth" /\ cli = "connect" /\ up = Idle BY DEF Init
<1>2. Tunnel
  <2>1. Idle \in Uploads BY DEF Idle, Uploads
  <2>2. Len(Idle.pipe) = 0 BY DEF Idle
  <2> QED BY <1>1, <2>1, <2>2, EvaluationAssumption DEF Tunnel
<1> QED BY <1>1, <1>2 DEF Types, Servers, Clients, Quiet

LEMMA ServerTypes == ASSUME Types, serve_client PROVE Types'
<1>1. UNCHANGED <<cli, up>>
  BY DEF serve_client, Authenticate, Select, StartTest, WaitReady, WaitResult, NoticeEnd, Summarise, cliVars
<1>2. srv' \in Servers
  BY DEF Types, Servers, serve_client, Authenticate, Select, StartTest, WaitReady, WaitResult, NoticeEnd,
     Summarise
<1>3. cli \in {"done", "failed"} => toClient' = toClient
  BY DEF serve_client, Authenticate, Select, StartTest, WaitReady, WaitResult, NoticeEnd, Summarise, Says
<1> QED BY <1>1, <1>2, <1>3 DEF Types, Quiet, Tunnel

\* A write finds room, a read leaves more of it.
LEMMA TunnelWritten ==
  ASSUME Tunnel, Len(up.pipe) < Room, NEW m \in {"data", "BW_DOWNLOAD"},
         up' = [up EXCEPT !.pipe = Append(@, m)]
  PROVE  Tunnel'
<1>1. up \in Uploads /\ up.pipe \in Seq({"data", "BW_DOWNLOAD"}) BY DEF Tunnel, Uploads
<1>2. Append(up.pipe, m) \in Seq({"data", "BW_DOWNLOAD"}) /\ Len(Append(up.pipe, m)) = Len(up.pipe) + 1
  BY <1>1
<1>3. up' \in Uploads /\ up'.pipe = Append(up.pipe, m) BY <1>1, <1>2 DEF Uploads
<1> QED BY <1>1, <1>2, <1>3, EvaluationAssumption DEF Tunnel

LEMMA TunnelRead ==
  ASSUME Tunnel, up.pipe # <<>>, NEW t \in {"scan", "send"},
         up' = [up EXCEPT !.pipe = Tail(@), !.target = t]
  PROVE  Tunnel'
<1>1. up \in Uploads /\ up.pipe \in Seq({"data", "BW_DOWNLOAD"}) BY DEF Tunnel, Uploads
<1>2. Tail(up.pipe) \in Seq({"data", "BW_DOWNLOAD"}) /\ Len(Tail(up.pipe)) = Len(up.pipe) - 1 BY <1>1
<1>3. up' \in Uploads /\ up'.pipe = Tail(up.pipe) BY <1>1, <1>2 DEF Uploads
<1>4. Len(up.pipe) \in Nat /\ Room \in Nat /\ Len(up.pipe) <= Room
  BY <1>1, EvaluationAssumption DEF Tunnel
<1> QED BY <1>2, <1>3, <1>4 DEF Tunnel

LEMMA ClientTypes ==
  ASSUME IInv, Types, run_evaluation \/ spawn_bandwidth_target \/ UploadTimeOver \/ ClientDies
  PROVE  Types'
<1>1. UNCHANGED srv
  BY DEF run_evaluation, Dialogue, Answered, UploadFails, SendAuth, RecvAuth, RecvLoop, RecvStart, run_latency_test, run_bandwidth_test,
     run_upload_phase, run_download_phase, run_packet_loss_test, SendResult, RecvLast, ServerLost,
     spawn_bandwidth_target, TargetReads, UploadTimeOver, ClientDies, ClientStep, srvVars
<1>2. cli' \in Clients
  BY DEF Types, Clients, run_evaluation, Dialogue, Answered, UploadFails, SendAuth, RecvAuth, RecvLoop, RecvStart, run_latency_test,
     run_bandwidth_test, run_upload_phase, run_download_phase, run_packet_loss_test, SendResult, RecvLast,
     ServerLost, spawn_bandwidth_target, TargetReads, UploadTimeOver, ClientDies, ClientStep
<1>3. Tunnel'
  <2>1. CASE UNCHANGED up BY <2>1 DEF Types, Tunnel
  <2>2. CASE run_upload_phase
    <3>1. \E m \in {"data", "BW_DOWNLOAD"} : up' = [up EXCEPT !.pipe = Append(@, m)]
      BY <2>2 DEF run_upload_phase
    <3>2. Len(up.pipe) < Room BY <2>2 DEF run_upload_phase
    <3> QED BY <3>1, <3>2, TunnelWritten DEF Types
  <2>3. CASE UploadTimeOver
    <3>1. up \in Uploads /\ Len(up.pipe) <= Room BY DEF Types, Tunnel
    <3>2. up' = [up EXCEPT !.late = TRUE] BY <2>3 DEF UploadTimeOver
    <3>3. up' \in Uploads /\ up'.pipe = up.pipe BY <3>1, <3>2 DEF Uploads
    <3> QED BY <3>1, <3>3 DEF Tunnel
  <2>4. CASE run_download_phase
    <3>1. up' = Idle BY <2>4 DEF run_download_phase
    <3>2. Idle \in Uploads /\ Len(Idle.pipe) = 0 BY DEF Idle, Uploads
    <3> QED BY <3>1, <3>2, EvaluationAssumption DEF Tunnel
  <2>5. CASE spawn_bandwidth_target
    <3>1. \E t \in {"scan", "send"} : up' = [up EXCEPT !.pipe = Tail(@), !.target = t]
      BY <2>5 DEF spawn_bandwidth_target, TargetReads
    <3>2. up.pipe # <<>> BY <2>5 DEF spawn_bandwidth_target, TargetReads
    <3> QED BY <3>1, <3>2, TunnelRead DEF Types
  <2>6. UNCHANGED up \/ run_upload_phase \/ UploadTimeOver \/ run_download_phase \/ spawn_bandwidth_target
    BY DEF run_evaluation, Dialogue, Answered, UploadFails, SendAuth, RecvAuth, RecvLoop, RecvStart, run_latency_test, run_bandwidth_test,
       run_packet_loss_test, SendResult, RecvLast, ServerLost, ClientDies
  <2> QED BY <2>1, <2>2, <2>3, <2>4, <2>5, <2>6
<1>4. Quiet'
  <2>1. CASE RecvAuth
    <3>1. cli = "auth" /\ toClient # <<>> /\ toClient' = Tail(toClient) BY <2>1 DEF RecvAuth
    <3>2. \/ toClient = <<Msg("auth_ok", "")>>
          \/ toClient = <<Msg("auth_err", "")>>
      BY <3>1 DEF IInv, Talk, TalkHandshake, TalkLoop, TalkTest, TalkLast, Working
    <3>3. Tail(toClient) = <<>> BY <3>2, Queues
    <3> QED BY <3>1, <3>3 DEF Quiet
  <2>2. CASE RecvLoop
    <3>1. cli = "loop" /\ toClient # <<>> /\ toClient' = Tail(toClient) BY <2>2 DEF RecvLoop
    <3>2. CASE ~Reads("stack_summary")
      <4>1. cli' \in {"start", "loop", "last"} BY <2>2, <3>2 DEF RecvLoop, ClientStep
      <4> QED BY <4>1 DEF Quiet
    <3>3. CASE Reads("stack_summary")
      <4>1. /\ Goes.type = "next" /\ Ends.type = "done" /\ Tests.type = "test_config"
        BY DEF Goes, Ends, Tests, Msg
      <4>2. /\ Head(<<Goes>>) = Goes /\ Head(<<Ends>>) = Ends /\ Head(<<Tests>>) = Tests
            /\ Head(<<Goes, Tests>>) = Goes /\ Head(<<Goes, Sums>>) = Goes /\ Head(<<Ends, Sums>>) = Ends
        BY Queues
      <4>3. Head(toClient).type = "stack_summary" BY <3>3 DEF Reads
      <4>4. TalkLoop BY <3>1 DEF IInv, Talk, TalkHandshake, TalkTest, TalkLast, Working
      <4>5. toClient \in {<<Goes>>, <<Ends>>, <<Tests>>, <<Goes, Tests>>, <<Sums>>, <<Goes, Sums>>,
                          <<Ends, Sums>>}
        BY <3>1, <4>4 DEF TalkLoop
      <4>6. toClient = <<Sums>> BY <4>1, <4>2, <4>3, <4>5
      <4>7. Tail(toClient) = <<>> BY <4>6, Queues
      <4> QED BY <3>1, <4>7 DEF Quiet
    <3> QED BY <3>2, <3>3
  <2>3. CASE RecvLast
    <3>1. cli = "last" BY <2>3 DEF RecvLast
    <3>2. toClient \in {<<>>, <<Sums>>}
      BY <3>1 DEF IInv, Talk, TalkHandshake, TalkLoop, TalkTest, TalkLast, Working
    <3>3. toClient # <<>> => Tail(toClient) = <<>> BY <3>2, Queues
    <3>4. toClient' = IF toClient # <<>> THEN Tail(toClient) ELSE toClient BY <2>3 DEF RecvLast
    <3>5. toClient' = <<>> BY <3>3, <3>4
    <3> QED BY <3>5 DEF Quiet
  <2>4. CASE ServerLost \/ ClientDies
    <3>1. toClient' = <<>> BY <2>4 DEF ServerLost, ServerGone, ClientDies
    <3> QED BY <3>1 DEF Quiet
  <2>5. CASE cli' \notin {"done", "failed"} BY <2>5 DEF Quiet
  <2>6. RecvAuth \/ RecvLoop \/ RecvLast \/ ServerLost \/ ClientDies \/ cli' \notin {"done", "failed"}
    BY DEF run_evaluation, Dialogue, Answered, UploadFails, SendAuth, RecvStart, run_latency_test, run_bandwidth_test, run_upload_phase,
       run_download_phase, run_packet_loss_test, SendResult, spawn_bandwidth_target, TargetReads,
       UploadTimeOver, ClientStep
  <2> QED BY <2>1, <2>2, <2>3, <2>4, <2>5, <2>6
<1> QED BY <1>1, <1>2, <1>3, <1>4 DEF Types

LEMMA TypesAre == IInv /\ Types => TypeOK
<1> SUFFICES ASSUME IInv, Types PROVE TypeOK OBVIOUS
<1>1. skipped \subseteq DOMAIN list
  <2>1. /\ skipped \subseteq 1 .. i - 1 /\ i \in Nat /\ i <= Len(list) + 1
        /\ Len(list) \in Nat /\ DOMAIN list = 1 .. Len(list)
    BY DEF IInv, Lists, IsList
  <2> QED BY <2>1
<1>2. Len(toServer) <= 1
  <2>1. toServer = <<>> \/ \E m : toServer = <<m>> BY DEF IInv, Sent
  <2>2. CASE toServer = <<>> BY <2>2
  <2>3. ASSUME NEW m, toServer = <<m>> PROVE Len(toServer) <= 1
    <3>1. Len(<<m>>) = 1 OBVIOUS
    <3> QED BY <2>3, <3>1
  <2> QED BY <2>1, <2>2, <2>3
<1>3. Len(toClient) <= 2
  <2>1. toClient = <<>> \/ (\E m : toClient = <<m>>) \/ (\E m, n : toClient = <<m, n>>)
    <3>1. CASE cli \in {"done", "failed"} BY <3>1 DEF Types, Quiet
    <3>2. CASE TalkHandshake BY <3>2 DEF TalkHandshake
    <3>3. CASE TalkLoop BY <3>3 DEF TalkLoop
    <3>4. CASE TalkTest BY <3>4 DEF TalkTest
    <3>5. CASE TalkLast /\ cli # "done" BY <3>5 DEF TalkLast
    <3> QED BY <3>1, <3>2, <3>3, <3>4, <3>5 DEF IInv, Talk
  <2>2. CASE toClient = <<>> BY <2>2
  <2>3. ASSUME NEW m, toClient = <<m>> PROVE Len(toClient) <= 2
    <3>1. Len(<<m>>) = 1 OBVIOUS
    <3> QED BY <2>3, <3>1
  <2>4. ASSUME NEW m, NEW n, toClient = <<m, n>> PROVE Len(toClient) <= 2
    <3>1. Len(<<m, n>>) = 2 OBVIOUS
    <3> QED BY <2>4, <3>1
  <2> QED BY <2>1, <2>2, <2>3, <2>4
<1> QED BY <1>1, <1>2, <1>3 DEF TypeOK, Types, Servers, Clients, Quiet, Tunnel, Uploads

\* The programs take turns on the control channel: whatever is lost, skipped or
\* stopped, one message at most waits for serve_client and two for
\* run_evaluation, none for a client that has ended, and no write of the upload
\* passes the room of its tunnel.
THEOREM TypeCorrect == Spec => []TypeOK
<1>1. IInv /\ Types /\ [Next]_vars => Types'
  <2> SUFFICES ASSUME IInv, Types, [Next]_vars PROVE Types' OBVIOUS
  <2>1. CASE UNCHANGED vars
    <3>1. UNCHANGED <<srv, cli, up, toClient>> BY <2>1 DEF vars, srvVars, cliVars
    <3> QED BY <3>1 DEF Types, Quiet, Tunnel
  <2> QED BY <2>1, ServerTypes, ClientTypes DEF Next
<1> QED BY <1>1, TypesStart, TypesAre, Invariance, PTL DEF Spec

-----------------------------------------------------------------------------
(* Dialogues that agree.  Agree is kept by wrapping both sides and by putting *)
(* one dialogue behind another, so it is shown once for every exchange.       *)

Whats ==
  {"vless header", "vless response", "hello", "flight", "finished", "upgrade", "101", "post", "200",
   "connect", "password", "padding length", "challenge", "response", "auth id", "vmess header",
   "vmess response"}
Keys ==
  {"", "plain", "vision", "tls", "h3", "reality", "/eval", "/EvalService/Tun", "eval-anytls-pass",
   "eval-stls-pass", "tcp"}
Wraps ==
  {"tls", "ws frame", "h2", "hunk", "stream", "fnv header", "kcp packet", "eval-kcp-seed",
   "aes-gcm packet", "xray segment", "hmac record"}
Messages  == [out : BOOLEAN, what : Whats, key : Keys, in : SUBSET Wraps]
Dialogues == Seq(Messages)

LEMMA MessageTypes ==
  ASSUME NEW what \in Whats, NEW key \in Keys
  PROVE  Out(what, key) \in Messages /\ In(what, key) \in Messages
BY DEF Out, In, Messages

LEMMA InsideIs ==
  ASSUME NEW d \in Dialogues, NEW l \in Wraps
  PROVE  /\ Inside(l, d) \in Dialogues /\ Len(Inside(l, d)) = Len(d)
         /\ \A k \in 1 .. Len(d) : /\ d[k] \in Messages
                                   /\ Inside(l, d)[k] = [d[k] EXCEPT !.in = @ \cup {l}]
                                   /\ Inside(l, d)[k].in = d[k].in \cup {l}
<1>1. Len(d) \in Nat /\ DOMAIN d = 1 .. Len(d) /\ \A k \in 1 .. Len(d) : d[k] \in Messages
  BY DEF Dialogues
<1>2. Inside(l, d) = [k \in 1 .. Len(d) |-> [d[k] EXCEPT !.in = @ \cup {l}]] BY <1>1 DEF Inside
<1>3. \A m \in Messages : /\ [m EXCEPT !.in = @ \cup {l}] \in Messages
                          /\ [m EXCEPT !.in = @ \cup {l}].in = m.in \cup {l}
  BY DEF Messages
<1>4. Inside(l, d) \in [1 .. Len(d) -> Messages] BY <1>1, <1>2, <1>3
<1>5. Inside(l, d) \in Dialogues /\ Len(Inside(l, d)) = Len(d) BY <1>1, <1>4 DEF Dialogues
<1> QED BY <1>1, <1>2, <1>3, <1>5

LEMMA AgreeInside ==
  ASSUME NEW c \in Dialogues, NEW s \in Dialogues, NEW l \in Wraps, Agree(c, s)
  PROVE  Agree(Inside(l, c), Inside(l, s))
<1>1. Len(c) = Len(s) /\ \A k \in 1 .. Len(c) : s[k] = [c[k] EXCEPT !.out = ~@]
  BY DEF Agree, Dialogues
<1> DEFINE ci == Inside(l, c)   si == Inside(l, s)
<1>2. /\ ci \in Dialogues /\ Len(ci) = Len(c)
      /\ \A k \in 1 .. Len(c) : c[k] \in Messages /\ ci[k] = [c[k] EXCEPT !.in = @ \cup {l}]
  BY InsideIs
<1>3. /\ si \in Dialogues /\ Len(si) = Len(s)
      /\ \A k \in 1 .. Len(s) : s[k] \in Messages /\ si[k] = [s[k] EXCEPT !.in = @ \cup {l}]
  BY InsideIs
<1>4. \A m \in Messages : [[m EXCEPT !.out = ~@] EXCEPT !.in = @ \cup {l}]
                            = [[m EXCEPT !.in = @ \cup {l}] EXCEPT !.out = ~@]
  BY DEF Messages
<1> HIDE DEF ci, si
<1>5. DOMAIN ci = 1 .. Len(c) BY <1>2 DEF Dialogues
<1>6. ASSUME NEW k \in 1 .. Len(c) PROVE si[k] = [ci[k] EXCEPT !.out = ~@]
  <2>1. s[k] = [c[k] EXCEPT !.out = ~@] /\ c[k] \in Messages BY <1>1, <1>2
  <2>2. si[k] = [s[k] EXCEPT !.in = @ \cup {l}] /\ ci[k] = [c[k] EXCEPT !.in = @ \cup {l}] BY <1>1, <1>2, <1>3
  <2>3. [[c[k] EXCEPT !.out = ~@] EXCEPT !.in = @ \cup {l}] = [[c[k] EXCEPT !.in = @ \cup {l}] EXCEPT !.out = ~@]
    BY <1>4, <2>1
  <2> QED BY <2>1, <2>2, <2>3, Zenon
<1>7. Agree(ci, si) BY <1>1, <1>2, <1>3, <1>5, <1>6 DEF Agree
<1> QED BY <1>7 DEF ci, si

LEMMA AgreeThen ==
  ASSUME NEW c \in Dialogues, NEW s \in Dialogues, Agree(c, s),
         NEW d \in Dialogues, NEW t \in Dialogues, Agree(d, t)
  PROVE  c \o d \in Dialogues /\ s \o t \in Dialogues /\ Agree(c \o d, s \o t)
<1> DEFINE m == Len(c)   n == Len(d)   cd == c \o d   st == s \o t
<1>1. m \in Nat /\ n \in Nat BY DEF Dialogues
<1>2. m = Len(s) /\ \A k \in 1 .. m : s[k] = [c[k] EXCEPT !.out = ~@] BY DEF Agree, Dialogues
<1>3. n = Len(t) /\ \A k \in 1 .. n : t[k] = [d[k] EXCEPT !.out = ~@] BY DEF Agree, Dialogues
<1>4. /\ cd \in Dialogues /\ Len(cd) = m + n
      /\ \A k \in 1 .. m + n : cd[k] = IF k <= m THEN c[k] ELSE d[k - m]
  BY ConcatProperties DEF Dialogues
<1>5. /\ st \in Dialogues /\ Len(st) = Len(s) + Len(t)
      /\ \A k \in 1 .. Len(s) + Len(t) : st[k] = IF k <= Len(s) THEN s[k] ELSE t[k - Len(s)]
  BY ConcatProperties DEF Dialogues
<1> HIDE DEF m, n, cd, st
<1>6. /\ Len(st) = m + n /\ \A k \in 1 .. m + n : st[k] = IF k <= m THEN s[k] ELSE t[k - m]
  BY <1>2, <1>3, <1>5
<1>7. ASSUME NEW k \in 1 .. m + n PROVE st[k] = [cd[k] EXCEPT !.out = ~@]
  <2>1. CASE k <= m
    <3>1. k \in 1 .. m BY <1>1, <2>1
    <3> QED BY <1>2, <1>4, <1>6, <2>1, <3>1
  <2>2. CASE ~(k <= m)
    <3> DEFINE j == k - m
    <3>1. j \in 1 .. n BY <1>1, <2>2
    <3>2. cd[k] = d[j] /\ st[k] = t[j] BY <1>4, <1>6, <2>2
    <3> HIDE DEF j
    <3> QED BY <1>3, <3>1, <3>2
  <2> QED BY <2>1, <2>2
<1>8. DOMAIN cd = 1 .. m + n BY <1>4 DEF Dialogues
<1>9. Agree(cd, st) BY <1>4, <1>6, <1>7, <1>8 DEF Agree
<1> QED BY <1>4, <1>5, <1>9 DEF cd, st

LEMMA Two == ASSUME NEW T, NEW a \in T, NEW b \in T PROVE <<a, b>> \in Seq(T)
OBVIOUS

LEMMA Three == ASSUME NEW T, NEW a \in T, NEW b \in T, NEW c \in T PROVE <<a, b, c>> \in Seq(T)
OBVIOUS

LEMMA SameMessage ==
  ASSUME NEW m \in Messages, NEW n \in Messages,
         m.out = n.out, m.what = n.what, m.key = n.key, m.in = n.in
  PROVE  m = n
BY DEF Messages

LEMMA FlipIs ==
  ASSUME NEW m \in Messages
  PROVE  LET n == [m EXCEPT !.out = ~@]
         IN n \in Messages /\ n.out = ~m.out /\ n.what = m.what /\ n.key = m.key /\ n.in = m.in
BY DEF Messages

\* What one side sends the other awaits.
LEMMA Flipped ==
  ASSUME NEW what \in Whats, NEW key \in Keys
  PROVE  /\ In(what, key) = [Out(what, key) EXCEPT !.out = ~@]
         /\ Out(what, key) = [In(what, key) EXCEPT !.out = ~@]
<1> DEFINE o == Out(what, key)   a == In(what, key)
<1>1. /\ o.out = TRUE /\ o.what = what /\ o.key = key /\ o.in = {}
      /\ a.out = FALSE /\ a.what = what /\ a.key = key /\ a.in = {}
  BY DEF Out, In
<1>2. o \in Messages /\ a \in Messages BY MessageTypes
<1> HIDE DEF o, a
<1>3. a = [o EXCEPT !.out = ~@]
  <2> DEFINE n == [o EXCEPT !.out = ~@]
  <2>1. n \in Messages /\ n.out = ~o.out /\ n.what = o.what /\ n.key = o.key /\ n.in = o.in
    BY <1>2, FlipIs
  <2> HIDE DEF n
  <2>2. n.out = a.out BY <1>1, <2>1
  <2>3. n = a BY <1>1, <1>2, <2>1, <2>2, SameMessage
  <2> QED BY <2>3 DEF n
<1>4. o = [a EXCEPT !.out = ~@]
  <2> DEFINE n == [a EXCEPT !.out = ~@]
  <2>1. n \in Messages /\ n.out = ~a.out /\ n.what = a.what /\ n.key = a.key /\ n.in = a.in
    BY <1>2, FlipIs
  <2> HIDE DEF n
  <2>2. n.out = o.out BY <1>1, <2>1
  <2>3. n = o BY <1>1, <1>2, <2>1, <2>2, SameMessage
  <2> QED BY <2>3 DEF n
<1> QED BY <1>3, <1>4 DEF o, a

\* A request that is answered.
LEMMA AgreeExchange ==
  ASSUME NEW a \in Whats, NEW x \in Keys, NEW b \in Whats, NEW y \in Keys
  PROVE  /\ <<Out(a, x), In(b, y)>> \in Dialogues /\ <<In(a, x), Out(b, y)>> \in Dialogues
         /\ Agree(<<Out(a, x), In(b, y)>>, <<In(a, x), Out(b, y)>>)
<1> DEFINE c == <<Out(a, x), In(b, y)>>   s == <<In(a, x), Out(b, y)>>
<1>1. c \in Dialogues /\ s \in Dialogues BY MessageTypes DEF Dialogues
<1>2. In(a, x) = [Out(a, x) EXCEPT !.out = ~@] /\ Out(b, y) = [In(b, y) EXCEPT !.out = ~@]
  BY Flipped
<1>3. /\ Len(c) = 2 /\ Len(s) = 2 /\ DOMAIN c = {1, 2}
      /\ c[1] = Out(a, x) /\ c[2] = In(b, y) /\ s[1] = In(a, x) /\ s[2] = Out(b, y)
  OBVIOUS
<1> HIDE DEF c, s
<1>4. Agree(c, s) BY <1>2, <1>3 DEF Agree
<1> QED BY <1>1, <1>4 DEF c, s

\* A handshake: hello, flight, Finished.
LEMMA AgreeHandshake ==
  ASSUME NEW h \in Keys
  PROVE  LET c == tls_handshake(h, h)
             s == <<In("hello", h), Out("flight", h), In("finished", "")>>
         IN c \in Dialogues /\ s \in Dialogues /\ Agree(c, s)
<1> DEFINE c == tls_handshake(h, h)   s == <<In("hello", h), Out("flight", h), In("finished", "")>>
<1>0. "" \in Keys /\ "hello" \in Whats /\ "flight" \in Whats /\ "finished" \in Whats BY DEF Keys, Whats
<1>1. c \in Dialogues /\ s \in Dialogues
  <2>1. /\ Out("hello", h) \in Messages /\ In("flight", h) \in Messages /\ Out("finished", "") \in Messages
        /\ In("hello", h) \in Messages /\ Out("flight", h) \in Messages /\ In("finished", "") \in Messages
    BY <1>0, MessageTypes
  <2>2. c \in Dialogues BY <2>1, Three DEF Dialogues, tls_handshake
  <2>3. s \in Dialogues BY <2>1, Three DEF Dialogues
  <2> QED BY <2>2, <2>3
<1>2. /\ Len(c) = 3 /\ Len(s) = 3 /\ DOMAIN c = {1, 2, 3}
      /\ c[1] = Out("hello", h) /\ c[2] = In("flight", h) /\ c[3] = Out("finished", "")
      /\ s[1] = In("hello", h) /\ s[2] = Out("flight", h) /\ s[3] = In("finished", "")
  BY DEF tls_handshake
<1>3. /\ s[1] = [c[1] EXCEPT !.out = ~@] /\ s[2] = [c[2] EXCEPT !.out = ~@] /\ s[3] = [c[3] EXCEPT !.out = ~@]
  <2> HIDE DEF c, s
  <2>1. /\ In("hello", h) = [Out("hello", h) EXCEPT !.out = ~@]
        /\ Out("flight", h) = [In("flight", h) EXCEPT !.out = ~@]
        /\ In("finished", "") = [Out("finished", "") EXCEPT !.out = ~@]
    BY <1>0, Flipped
  <2> QED BY <1>2, <2>1, Zenon
<1> HIDE DEF c, s
<1>4. Agree(c, s) BY <1>2, <1>3 DEF Agree
<1> QED BY <1>1, <1>4 DEF c, s

-----------------------------------------------------------------------------
(* The proxy of one protocol *)

\* A file of one section is looked up at the place of that section.
LEMMA FirstOfOne ==
  ASSUME NEW T, NEW order \in Seq(T), NEW c, NEW s, DOMAIN c.on = {s}, NEW else,
         NEW l \in 1 .. Len(order), order[l] = s
  PROVE  FirstOf(c, order, else) = s
<1> DEFINE at == {k \in 1 .. Len(order) : Has(c, {order[k]})}
           f  == CHOOSE k \in at : \A j \in at : k <= j
<1>1. at = {k \in 1 .. Len(order) : order[k] = s} BY DEF Has
<1>2. FirstOf(c, order, else) = IF at = {} THEN else ELSE order[f] BY DEF FirstOf
<1>3. at \subseteq Nat OBVIOUS
<1>4. at # {} => f \in at
  <2> SUFFICES ASSUME at # {} PROVE \E k \in at : \A j \in at : k <= j OBVIOUS
  <2> HIDE DEF at
  <2>1. PICK k \in at : \A j \in at : ~(<<j, k>> \in OpToRel(<, Nat))
    BY <1>3, NatLessThanWellFounded, WFMin
  <2>2. \A j \in at : k <= j
    <3>1. TAKE j \in at
    <3>2. k \in Nat /\ j \in Nat BY <1>3
    <3>3. ~(j < k) BY <2>1, <3>2 DEF OpToRel
    <3> QED BY <3>2, <3>3
  <2> QED BY <2>2
<1> HIDE DEF at, f
<1> QED BY <1>1, <1>2, <1>4

LEMMA FirstOfNone ==
  ASSUME NEW order, NEW c, DOMAIN c.on = {}, NEW else PROVE FirstOf(c, order, else) = else
BY DEF FirstOf, Has

\* The sections eval-server writes, and those the TCP listener serves.
Evaluated ==
  {"reality", "anytls", "tls", "websocket", "httpupgrade", "grpc", "xhttp", "quic", "kcp",
   "webtransport", "shadowtls", "vmess"}
OnTcp == Evaluated \ {"quic", "kcp", "webtransport"}

ListenOrder ==
  <<"reality", "anytls", "shadowtls", "websocket", "httpupgrade", "grpc", "xhttp", "meek",
    "gdocsviewer", "tls", "shadowsocks", "mixed", "trojan", "vmess", "naive", "snell">>
AsideOrder == <<"hysteria2", "tuic", "quic", "kcp", "webtransport", "wireguard">>
Named ==
  {"reality", "anytls", "shadowtls", "websocket", "httpupgrade", "grpc", "xhttp", "meek",
   "gdocsviewer", "tls", "shadowsocks", "mixed", "trojan", "vmess", "naive", "snell",
   "hysteria2", "tuic", "quic", "kcp", "webtransport", "wireguard"} \cup Experimental

LEMMA ListenerServes ==
  ASSUME NEW c, NEW s \in OnTcp, DOMAIN c.on = {s} PROVE run_with_listener(c) = s
<1> DEFINE p == ListenOrder   q == ExperimentalOrder   pq == p \o q
<1>1. run_with_listener(c) = FirstOf(c, pq, "raw") BY DEF run_with_listener, ListenOrder
<1>2. p \in Seq(Named) /\ Len(p) = 16 BY DEF ListenOrder, Named
<1>3. q \in Seq(Named) /\ Len(q) = 13 BY DEF ExperimentalOrder, Experimental, Named
<1>4. \E k \in 1 .. 16 : p[k] = s
  <2>1. /\ p[1] = "reality" /\ p[2] = "anytls" /\ p[3] = "shadowtls" /\ p[4] = "websocket"
        /\ p[5] = "httpupgrade" /\ p[6] = "grpc" /\ p[7] = "xhttp" /\ p[10] = "tls" /\ p[14] = "vmess"
    BY DEF ListenOrder
  <2> HIDE DEF p
  <2> QED BY <2>1 DEF OnTcp, Evaluated
<1> HIDE DEF p, q
<1>5. /\ pq \in Seq(Named) /\ Len(pq) = 29
      /\ \A k \in 1 .. 29 : pq[k] = IF k <= 16 THEN p[k] ELSE q[k - 16]
  <2>1. p \in Seq(Named) /\ q \in Seq(Named) BY <1>2, <1>3
  <2>2. /\ pq \in Seq(Named) /\ Len(pq) = Len(p) + Len(q)
        /\ \A k \in 1 .. Len(p) + Len(q) : pq[k] = IF k <= Len(p) THEN p[k] ELSE q[k - Len(p)]
    BY <2>1, ConcatProperties
  <2> HIDE DEF pq
  <2>3. Len(p) + Len(q) = 29 BY <1>2, <1>3
  <2> QED BY <1>2, <2>2, <2>3
<1> HIDE DEF pq
<1>6. PICK k \in 1 .. Len(pq) : pq[k] = s
  <2>1. PICK j \in 1 .. 16 : p[j] = s BY <1>4
  <2>2. j \in 1 .. 29 /\ j <= 16 OBVIOUS
  <2> QED BY <1>5, <2>1, <2>2
<1>7. pq \in Seq(Named) BY <1>5
<1>8. FirstOf(c, pq, "raw") = s BY <1>6, <1>7, FirstOfOne
<1> QED BY <1>1, <1>8

LEMMA ServedOne ==
  ASSUME NEW c, NEW s \in Evaluated, DOMAIN c.on = {s} PROVE Served(c) = s
<1> DEFINE p == AsideOrder
<1>1. Served(c) = FirstOf(c, p, run_with_listener(c)) BY DEF Served, run_until_shutdown, AsideOrder
<1>2. p \in Seq(Named) /\ Len(p) = 6 BY DEF AsideOrder, Named
<1>3. /\ p[1] = "hysteria2" /\ p[2] = "tuic" /\ p[3] = "quic" /\ p[4] = "kcp" /\ p[5] = "webtransport"
      /\ p[6] = "wireguard"
  BY DEF AsideOrder
<1> HIDE DEF p
<1>4. p \in Seq(Named) BY <1>2
<1>5. CASE s \in OnTcp
  <2>1. \A k \in 1 .. 6 : p[k] # s
    <3>1. \A k \in 1 .. 6 : k \in {1, 2, 3, 4, 5, 6} OBVIOUS
    <3> QED BY <1>3, <1>5, <3>1 DEF OnTcp, Evaluated
  <2>2. \A k \in 1 .. Len(p) : p[k] # s BY <1>2, <2>1
  <2>3. FirstOf(c, p, run_with_listener(c)) = run_with_listener(c) BY <2>2 DEF FirstOf, Has
  <2> QED BY <1>1, <1>5, <2>3, ListenerServes
<1>6. CASE s \in {"quic", "kcp", "webtransport"}
  <2>1. PICK k \in 1 .. Len(p) : p[k] = s BY <1>2, <1>3, <1>6
  <2>2. FirstOf(c, p, run_with_listener(c)) = s BY <1>4, <2>1, FirstOfOne
  <2> QED BY <1>1, <2>2
<1> QED BY <1>5, <1>6 DEF OnTcp

LEMMA ServedNone == ASSUME NEW c, DOMAIN c.on = {} PROVE Served(c) = "raw"
BY FirstOfNone DEF Served, run_until_shutdown, run_with_listener

\* A file of one section.
One(c, s, q, u) == c = [flow |-> "none", user |-> u, on |-> [x \in {s} |-> q]]
Fits(s, q, u) ==
  /\ s \in Evaluated /\ q \in {"plain", "tls"}
  /\ q = "tls" => s \in {"websocket", "httpupgrade", "grpc", "xhttp"}
  /\ u = IF s = "reality" THEN "vision" ELSE IF s = "vmess" THEN "nobody" ELSE "plain"

LEMMA OneHas ==
  ASSUME NEW c, NEW s, NEW q, NEW u, One(c, s, q, u)
  PROVE  /\ DOMAIN c.on = {s} /\ c.on[s] = q /\ c.user = u
         /\ \A S : Has(c, S) <=> s \in S
         /\ \A t, Q : Is(c, t, Q) <=> t = s /\ q \in Q
<1>1. DOMAIN c.on = {s} /\ c.on[s] = q /\ c.user = u BY DEF One
<1>2. \A S : Has(c, S) <=> s \in S BY <1>1 DEF Has
<1> QED BY <1>1, <1>2 DEF Is

\* Such a file is accepted.
LEMMA OneIsValid ==
  ASSUME NEW c, NEW s, NEW q, NEW u, One(c, s, q, u), Fits(s, q, u) PROVE validate(c)
<1>1. /\ DOMAIN c.on = {s} /\ c.user = u
      /\ \A S : Has(c, S) <=> s \in S
      /\ \A t, Q : Is(c, t, Q) <=> t = s /\ q \in Q
  BY OneHas
<1>2. AtMostOneInbound(c)
  <2> DEFINE D == {s} \cap (NonVless \cup {"xhttp"} \cup Experimental)
  <2>1. D = {} \/ D = {s} OBVIOUS
  <2>2. Cardinality({}) = 0 /\ Cardinality({s}) = 1 BY FS_EmptySet, FS_Singleton
  <2> HIDE DEF D
  <2>3. Cardinality(D) <= 1 BY <2>1, <2>2
  <2> QED BY <1>1, <2>3 DEF AtMostOneInbound, D
<1>3. UsersAreValid(c) BY <1>1 DEF UsersAreValid, Fits
<1>4. CASE s = "vmess"
  <2>1. Alone(c)
    BY <1>1, <1>4 DEF Alone, check_non_vless_no_users, has_vless_users, check_non_vless_no_transports,
       VlessTransports, TlsLayers, StreamFramings, Datagrams, Fits
  <2>2. VmessIsValid(c) BY <1>1, <2>1 DEF VmessIsValid, Fits
  <2>3. /\ ShadowsocksIsValid(c) /\ MixedIsValid(c) /\ TrojanIsValid(c) /\ Hysteria2IsValid(c)
        /\ TuicIsValid(c) /\ WireGuardIsValid(c) /\ NaiveIsValid(c) /\ SnellIsValid(c)
    BY <1>1, <1>4 DEF ShadowsocksIsValid, MixedIsValid, TrojanIsValid, Hysteria2IsValid, TuicIsValid,
       WireGuardIsValid, NaiveIsValid, SnellIsValid
  <2>4. FramingsAreValid(c) /\ DatagramsAreValid(c) /\ ShadowTlsIsValid(c)
    BY <1>1, <1>4 DEF FramingsAreValid, DatagramsAreValid, ShadowTlsIsValid, StreamFramings, Datagrams
  <2> QED BY <1>2, <1>3, <2>2, <2>3, <2>4 DEF validate
<1>5. CASE s # "vmess"
  <2>1. s \notin NonVless /\ has_vless_users(c)
    <3>1. s \notin NonVless BY <1>5 DEF NonVless, Fits, Evaluated
    <3>2. u # "nobody" BY <1>5 DEF Fits
    <3> QED BY <1>1, <3>1, <3>2 DEF has_vless_users
  <2>2. /\ ShadowsocksIsValid(c) /\ MixedIsValid(c) /\ TrojanIsValid(c) /\ Hysteria2IsValid(c)
        /\ TuicIsValid(c) /\ VmessIsValid(c) /\ WireGuardIsValid(c) /\ NaiveIsValid(c) /\ SnellIsValid(c)
    BY <1>1, <2>1 DEF ShadowsocksIsValid, MixedIsValid, TrojanIsValid, Hysteria2IsValid, TuicIsValid,
       VmessIsValid, WireGuardIsValid, NaiveIsValid, SnellIsValid, NonVless
  <2>3. FramingsAreValid(c)
    <3> SUFFICES ASSUME s \in StreamFramings
                 PROVE  check_framing_transport(c, s) /\ ~Is(c, s, {"early", "badkey"})
      BY <1>1, <2>1 DEF FramingsAreValid
    <3>1. ~Is(c, s, {"early", "badkey"}) BY <1>1 DEF Fits
    <3>2. s \notin TlsLayers /\ s \notin {"quic", "kcp"} BY DEF TlsLayers, StreamFramings
    <3> QED BY <1>1, <2>1, <3>1, <3>2 DEF check_framing_transport
  <2>4. DatagramsAreValid(c)
    <3> SUFFICES ASSUME s \in Datagrams PROVE check_datagram_transport(c, s)
      BY <1>1 DEF DatagramsAreValid
    <3>1. s \notin TlsLayers /\ s \notin StreamFramings BY DEF TlsLayers, StreamFramings, Datagrams
    <3> QED BY <1>1, <2>1, <3>1 DEF check_datagram_transport
  <2>5. ShadowTlsIsValid(c)
    <3> SUFFICES ASSUME s = "shadowtls"
                 PROVE  s \notin NonVless \cup StreamFramings \cup Datagrams /\ s \notin {"reality", "anytls", "tls"}
      BY <1>1, <2>1 DEF ShadowTlsIsValid
    <3> QED BY DEF NonVless, StreamFramings, Datagrams
  <2> QED BY <1>2, <1>3, <2>2, <2>3, <2>4, <2>5 DEF validate
<1> QED BY <1>4, <1>5

\* How a section is turned into a listener.
SecOf(s, q) ==
  IF s \in {"reality", "anytls", "tls", "shadowtls"} THEN s
  ELSE IF s \in {"quic", "webtransport"} \/ q = "tls" THEN "tls" ELSE "none"

LEMMA ParsedOne ==
  ASSUME NEW s, NEW q, NEW u, Fits(s, q, u) PROVE Parsed(s, q).ok /\ Parsed(s, q).sec = SecOf(s, q)
<1>1. /\ Under("tls", q).ok /\ Under("tls", q).sec = "tls"
      /\ Under("anytls", q).ok /\ Under("anytls", q).sec = "anytls"
      /\ Under("shadowtls", q).ok /\ Under("shadowtls", q).sec = "shadowtls"
  BY DEF Under, Plain, Fits
<1>2. Within(q).ok /\ Within(q).sec = IF q = "tls" THEN "tls" ELSE "none"
  BY DEF Within, TlsTable, Under, Plain, Fits
<1>3. CASE s = "reality" BY <1>3 DEF Parsed, parse_reality_config, Plain, SecOf, Fits
<1>4. CASE s = "anytls" BY <1>1, <1>4 DEF Parsed, parse_anytls_config, SecOf
<1>5. CASE s = "tls" BY <1>1, <1>5 DEF Parsed, parse_tls_config, SecOf
<1>6. CASE s = "shadowtls" BY <1>1, <1>6 DEF Parsed, parse_shadowtls_config, SecOf
<1>7. CASE s = "websocket"
  BY <1>7 DEF Parsed, parse_ws_config, Within, TlsTable, Under, Plain, SecOf, Fits
<1>8. CASE s = "httpupgrade"
  BY <1>8 DEF Parsed, parse_httpupgrade_config, Within, TlsTable, Under, Plain, SecOf, Fits
<1>9. CASE s = "grpc" BY <1>2, <1>9 DEF Parsed, parse_grpc_config, SecOf
<1>10. CASE s = "xhttp"
  BY <1>10 DEF Parsed, parse_xhttp_config, Within, TlsTable, Under, Plain, SecOf, Fits
<1>11. CASE s = "quic" BY <1>1, <1>11 DEF Parsed, parse_quic_config, SecOf
<1>12. CASE s = "kcp" BY <1>12 DEF Parsed, parse_kcp_config, Plain, SecOf, Fits
<1>13. CASE s = "webtransport"
  BY <1>13 DEF Parsed, parse_webtransport_config, Under, Plain, SecOf, Fits
<1>14. CASE s = "vmess" BY <1>14 DEF Parsed, parse_vmess_handler_config, Plain, SecOf, Fits
<1> QED BY <1>3, <1>4, <1>5, <1>6, <1>7, <1>8, <1>9, <1>10, <1>11, <1>12, <1>13, <1>14
       DEF Fits, Evaluated

LEMMA OneServes ==
  ASSUME NEW c, NEW s, NEW q, NEW u, One(c, s, q, u), Fits(s, q, u)
  PROVE  /\ new(c) /\ Listening(c).known /\ Listening(c).sec = SecOf(s, q)
         /\ Listening(c).proto = IF s = "vmess" THEN s ELSE "vless"
         /\ Listening(c).wire = IF s \in TlsLayers \cup {"vmess"} THEN "raw" ELSE s
<1>1. /\ DOMAIN c.on = {s} /\ c.on[s] = q /\ c.user = u
      /\ \A t, Q : Is(c, t, Q) <=> t = s /\ q \in Q
  BY OneHas
<1>2. Parsed(s, q).ok /\ Parsed(s, q).sec = SecOf(s, q) BY ParsedOne
<1>3. new(c)
  <2>1. add(c) BY <1>1 DEF add, Fits
  <2> QED BY <1>1, <1>2, <2>1, OneIsValid DEF new
<1>4. Served(c) = s /\ s # "raw"
  <2>1. s \in Evaluated BY DEF Fits
  <2>2. s # "raw" BY <2>1 DEF Evaluated
  <2> QED BY <1>1, <2>1, <2>2, ServedOne
<1>5. IsVless(s) <=> s # "vmess"
  BY DEF IsVless, Fits, Evaluated, VlessTransports, TlsLayers, StreamFramings, Datagrams
<1>6. Wire(s) = IF s \in TlsLayers \cup {"vmess"} THEN "raw" ELSE s
  BY DEF Wire, Fits, Evaluated, NonVless
<1>7. has_vless_users(c) \/ s = "vmess" BY <1>1 DEF has_vless_users, Fits
<1>8. ~Is(c, "reality", {"noshort"}) BY <1>1 DEF Fits
<1>9. /\ Listening(c).proto = (IF IsVless(s) THEN "vless" ELSE s) /\ Listening(c).wire = Wire(s)
      /\ Listening(c).sec = Parsed(s, q).sec
      /\ Listening(c).known = IF IsVless(s) THEN has_vless_users(c) /\ ~Is(c, "reality", {"noshort"}) ELSE TRUE
  BY <1>1, <1>4 DEF Listening
<1>10. Listening(c).known BY <1>5, <1>7, <1>8, <1>9
<1> QED BY <1>2, <1>3, <1>5, <1>6, <1>9, <1>10

-----------------------------------------------------------------------------
(* The connectors, each against the server it is for *)

LEMMA AgreeVless ==
  ASSUME NEW flow \in {"plain", "vision"}
  PROVE  /\ connect_raw(flow) \in Dialogues /\ AnswerVless(flow) \in Dialogues
         /\ Agree(connect_raw(flow), AnswerVless(flow))
<1>1. flow \in Keys /\ "" \in Keys /\ "vless header" \in Whats /\ "vless response" \in Whats
  BY DEF Keys, Whats
<1> QED BY <1>1, AgreeExchange DEF connect_raw, AnswerVless, build_vless_header

\* Behind a handshake, inside TLS.
LEMMA AgreeTls ==
  ASSUME NEW c \in Dialogues, NEW s \in Dialogues, Agree(c, s), NEW h \in {"tls", "reality"}
  PROVE  Agree(tls_handshake(h, h) \o Inside("tls", c), AcceptTls(h, s))
<1> DEFINE a == tls_handshake(h, h)   b == <<In("hello", h), Out("flight", h), In("finished", "")>>
           ci == Inside("tls", c)   si == Inside("tls", s)
<1>1. h \in Keys /\ "tls" \in Wraps BY DEF Keys, Wraps
<1>2. a \in Dialogues /\ b \in Dialogues /\ Agree(a, b) BY <1>1, AgreeHandshake
<1>3. ci \in Dialogues /\ si \in Dialogues /\ Agree(ci, si) BY <1>1, InsideIs, AgreeInside
<1>4. AcceptTls(h, s) = b \o si BY DEF AcceptTls
<1> HIDE DEF a, b, ci, si
<1>5. Agree(a \o ci, b \o si) BY <1>2, <1>3, AgreeThen
<1> QED BY <1>4, <1>5 DEF a, b, ci, si

\* With TLS where the section says so, without it where not.
LEMMA AgreeOver ==
  ASSUME NEW c \in Dialogues, NEW s \in Dialogues, Agree(c, s), NEW tls \in BOOLEAN
  PROVE  Agree(WithTls(tls, c), IF tls THEN AcceptTls("tls", s) ELSE s)
<1>1. Agree(tls_handshake("tls", "tls") \o Inside("tls", c), AcceptTls("tls", s)) BY AgreeTls
<1>2. CASE tls
  <2>1. WithTls(tls, c) = tls_handshake("tls", "tls") \o Inside("tls", c)
    BY <1>2 DEF WithTls, tls_handshake_sync
  <2> QED BY <1>1, <1>2, <2>1
<1>3. CASE ~tls BY <1>3 DEF WithTls
<1> QED BY <1>2, <1>3

\* One exchange, then another dialogue.
LEMMA AgreeAfter ==
  ASSUME NEW a \in Whats, NEW x \in Keys, NEW b \in Whats,
         NEW c \in Dialogues, NEW s \in Dialogues, Agree(c, s)
  PROVE  LET ca == <<Out(a, x), In(b, "")>> \o c
             sa == <<In(a, x), Out(b, "")>> \o s
         IN ca \in Dialogues /\ sa \in Dialogues /\ Agree(ca, sa)
<1> DEFINE e == <<Out(a, x), In(b, "")>>   f == <<In(a, x), Out(b, "")>>
<1>1. "" \in Keys BY DEF Keys
<1>2. e \in Dialogues /\ f \in Dialogues /\ Agree(e, f) BY <1>1, AgreeExchange
<1> HIDE DEF e, f
<1>3. e \o c \in Dialogues /\ f \o s \in Dialogues /\ Agree(e \o c, f \o s) BY <1>2, AgreeThen
<1> QED BY <1>3 DEF e, f

\* VLESS inside a layer.
LEMMA AgreeWrapped ==
  ASSUME NEW l \in Wraps
  PROVE  LET c == Inside(l, connect_raw("plain"))
             s == Inside(l, AnswerVless("plain"))
         IN c \in Dialogues /\ s \in Dialogues /\ Agree(c, s)
<1> DEFINE c == connect_raw("plain")   s == AnswerVless("plain")
<1>1. c \in Dialogues /\ s \in Dialogues /\ Agree(c, s) BY AgreeVless
<1> HIDE DEF c, s
<1>2. Inside(l, c) \in Dialogues /\ Inside(l, s) \in Dialogues /\ Agree(Inside(l, c), Inside(l, s))
  BY <1>1, InsideIs, AgreeInside
<1> QED BY <1>2 DEF c, s

LEMMA Names ==
  /\ {"upgrade", "101", "post", "200", "connect", "password", "padding length", "hello", "flight",
      "finished", "auth id", "vmess header", "vmess response"} \subseteq Whats
  /\ {"", "/eval", "/EvalService/Tun", "eval-anytls-pass", "h3", "tcp", "tls", "reality"} \subseteq Keys
  /\ {"ws frame", "hunk", "h2", "stream", "tls"} \subseteq Wraps
BY DEF Whats, Keys, Wraps

LEMMA AgreeWs ==
  ASSUME NEW tls \in BOOLEAN
  PROVE  LET s == AnswerUpgrade("/eval") \o Inside("ws frame", AnswerVless("plain"))
         IN Agree(connect_ws(tls, "plain"), IF tls THEN AcceptTls("tls", s) ELSE s)
<1> DEFINE c1 == Inside("ws frame", connect_raw("plain"))   s1 == Inside("ws frame", AnswerVless("plain"))
           c2 == <<Out("upgrade", "/eval"), In("101", "")>> \o c1
           s2 == <<In("upgrade", "/eval"), Out("101", "")>> \o s1
<1>1. c1 \in Dialogues /\ s1 \in Dialogues /\ Agree(c1, s1) BY Names, AgreeWrapped
<1>2. connect_ws(tls, "plain") = WithTls(tls, c2) BY DEF connect_ws, ws_upgrade_handshake
<1>3. AnswerUpgrade("/eval") \o s1 = s2 BY DEF AnswerUpgrade
<1>4. c2 \in Dialogues /\ s2 \in Dialogues /\ Agree(c2, s2)
  <2> HIDE DEF c1, s1
  <2> QED BY <1>1, Names, AgreeAfter
<1> HIDE DEF c2, s2
<1>5. Agree(WithTls(tls, c2), IF tls THEN AcceptTls("tls", s2) ELSE s2) BY <1>4, AgreeOver
<1> QED BY <1>2, <1>3, <1>5

LEMMA AgreeHttpUpgrade ==
  ASSUME NEW tls \in BOOLEAN
  PROVE  LET s == AnswerUpgrade("/eval") \o AnswerVless("plain")
         IN Agree(connect_httpupgrade(tls, "plain"), IF tls THEN AcceptTls("tls", s) ELSE s)
<1> DEFINE c1 == connect_raw("plain")   s1 == AnswerVless("plain")
           c2 == <<Out("upgrade", "/eval"), In("101", "")>> \o c1
           s2 == <<In("upgrade", "/eval"), Out("101", "")>> \o s1
<1>1. c1 \in Dialogues /\ s1 \in Dialogues /\ Agree(c1, s1) BY AgreeVless
<1>2. connect_httpupgrade(tls, "plain") = WithTls(tls, c2) BY DEF connect_httpupgrade, http_upgrade_handshake
<1>3. AnswerUpgrade("/eval") \o s1 = s2 BY DEF AnswerUpgrade
<1>4. c2 \in Dialogues /\ s2 \in Dialogues /\ Agree(c2, s2)
  <2> HIDE DEF c1, s1
  <2> QED BY <1>1, Names, AgreeAfter
<1> HIDE DEF c2, s2
<1>5. Agree(WithTls(tls, c2), IF tls THEN AcceptTls("tls", s2) ELSE s2) BY <1>4, AgreeOver
<1> QED BY <1>2, <1>3, <1>5

LEMMA AgreeGrpc ==
  ASSUME NEW tls \in BOOLEAN
  PROVE  LET s == handle_grpc_request_stream("/EvalService/Tun", AnswerVless("plain"))
         IN Agree(connect_grpc(tls, "plain"), IF tls THEN AcceptTls("tls", s) ELSE s)
<1> DEFINE c1 == Inside("hunk", connect_raw("plain"))   s1 == Inside("hunk", AnswerVless("plain"))
           c2 == <<Out("post", "/EvalService/Tun"), In("200", "")>> \o c1
           s2 == <<In("post", "/EvalService/Tun"), Out("200", "")>> \o s1
           c3 == Inside("h2", c2)   s3 == Inside("h2", s2)
<1>1. c1 \in Dialogues /\ s1 \in Dialogues /\ Agree(c1, s1) BY Names, AgreeWrapped
<1>2. connect_grpc(tls, "plain") = WithTls(tls, c3) BY DEF connect_grpc, grpc_handshake
<1>3. handle_grpc_request_stream("/EvalService/Tun", AnswerVless("plain")) = s3
  BY DEF handle_grpc_request_stream
<1>4. c2 \in Dialogues /\ s2 \in Dialogues /\ Agree(c2, s2)
  <2> HIDE DEF c1, s1
  <2> QED BY <1>1, Names, AgreeAfter
<1> HIDE DEF c2, s2
<1>5. c3 \in Dialogues /\ s3 \in Dialogues /\ Agree(c3, s3) BY <1>4, Names, InsideIs, AgreeInside
<1> HIDE DEF c3, s3
<1>6. Agree(WithTls(tls, c3), IF tls THEN AcceptTls("tls", s3) ELSE s3) BY <1>5, AgreeOver
<1> QED BY <1>2, <1>3, <1>6

LEMMA AgreeXhttp ==
  ASSUME NEW tls \in BOOLEAN
  PROVE  LET s == handle_xhttp_request_stream("/eval", AnswerVless("plain"))
         IN Agree(connect_xhttp(tls, "plain"), IF tls THEN AcceptTls("tls", s) ELSE s)
<1> DEFINE c1 == connect_raw("plain")   s1 == AnswerVless("plain")
           c2 == <<Out("post", "/eval"), In("200", "")>> \o c1
           s2 == <<In("post", "/eval"), Out("200", "")>> \o s1
           c3 == Inside("h2", c2)   s3 == Inside("h2", s2)
<1>1. c1 \in Dialogues /\ s1 \in Dialogues /\ Agree(c1, s1) BY AgreeVless
<1>2. connect_xhttp(tls, "plain") = WithTls(tls, c3) BY DEF connect_xhttp, xhttp_handshake
<1>3. handle_xhttp_request_stream("/eval", AnswerVless("plain")) = s3
  BY DEF handle_xhttp_request_stream
<1>4. c2 \in Dialogues /\ s2 \in Dialogues /\ Agree(c2, s2)
  <2> HIDE DEF c1, s1
  <2> QED BY <1>1, Names, AgreeAfter
<1> HIDE DEF c2, s2
<1>5. c3 \in Dialogues /\ s3 \in Dialogues /\ Agree(c3, s3) BY <1>4, Names, InsideIs, AgreeInside
<1> HIDE DEF c3, s3
<1>6. Agree(WithTls(tls, c3), IF tls THEN AcceptTls("tls", s3) ELSE s3) BY <1>5, AgreeOver
<1> QED BY <1>2, <1>3, <1>6

LEMMA AgreeReality == Agree(connect_reality("vision"), AcceptTls("reality", AnswerVless("vision")))
<1> DEFINE c == connect_raw("vision")   s == AnswerVless("vision")
<1>1. c \in Dialogues /\ s \in Dialogues /\ Agree(c, s) BY AgreeVless
<1>2. connect_reality("vision") = tls_handshake("reality", "reality") \o Inside("tls", c)
  BY DEF connect_reality
<1> HIDE DEF c, s
<1>3. Agree(tls_handshake("reality", "reality") \o Inside("tls", c), AcceptTls("reality", s)) BY <1>1, AgreeTls
<1> QED BY <1>2, <1>3 DEF s

LEMMA AgreeTlsAlone == Agree(connect_tls("plain"), AcceptTls("tls", AnswerVless("plain")))
<1> DEFINE c == connect_raw("plain")   s == AnswerVless("plain")
<1>1. c \in Dialogues /\ s \in Dialogues /\ Agree(c, s) BY AgreeVless
<1>2. connect_tls("plain") = WithTls(TRUE, c) BY DEF connect_tls
<1> HIDE DEF c, s
<1>3. Agree(WithTls(TRUE, c), IF TRUE THEN AcceptTls("tls", s) ELSE s) BY <1>1, AgreeOver
<1> QED BY <1>2, <1>3 DEF s

\* The password and the length of the padding go out one behind the other.
LEMMA AgreeAnyTls ==
  Agree(connect_anytls("plain"), AcceptAnyTls("eval-anytls-pass", AnswerVless("plain")))
<1> DEFINE e == <<Out("password", "eval-anytls-pass"), Out("padding length", "")>>
           f == <<In("password", "eval-anytls-pass"), In("padding length", "")>>
           c == connect_raw("plain")   s == AnswerVless("plain")
           ec == e \o c   fs == f \o s
<1>1. c \in Dialogues /\ s \in Dialogues /\ Agree(c, s) BY AgreeVless
<1>2. e \in Dialogues /\ f \in Dialogues
  <2>1. /\ Out("password", "eval-anytls-pass") \in Messages /\ Out("padding length", "") \in Messages
        /\ In("password", "eval-anytls-pass") \in Messages /\ In("padding length", "") \in Messages
    BY Names, MessageTypes
  <2>2. e \in Dialogues BY <2>1, Two DEF Dialogues
  <2>3. f \in Dialogues BY <2>1, Two DEF Dialogues
  <2> QED BY <2>2, <2>3
<1>3. /\ Len(e) = 2 /\ Len(f) = 2 /\ DOMAIN e = {1, 2}
      /\ e[1] = Out("password", "eval-anytls-pass") /\ e[2] = Out("padding length", "")
      /\ f[1] = In("password", "eval-anytls-pass") /\ f[2] = In("padding length", "")
  OBVIOUS
<1>4. /\ In("password", "eval-anytls-pass") = [Out("password", "eval-anytls-pass") EXCEPT !.out = ~@]
      /\ In("padding length", "") = [Out("padding length", "") EXCEPT !.out = ~@]
  BY Names, Flipped
<1>5. connect_anytls("plain") = WithTls(TRUE, ec) BY DEF connect_anytls
<1>6. AcceptAnyTls("eval-anytls-pass", AnswerVless("plain")) = AcceptTls("tls", fs) BY DEF AcceptAnyTls
<1> HIDE DEF c, s, e, f
<1>7. Agree(e, f) BY <1>3, <1>4 DEF Agree
<1>8. ec \in Dialogues /\ fs \in Dialogues /\ Agree(ec, fs) BY <1>1, <1>2, <1>7, AgreeThen
<1> HIDE DEF ec, fs
<1>9. Agree(WithTls(TRUE, ec), IF TRUE THEN AcceptTls("tls", fs) ELSE fs) BY <1>8, AgreeOver
<1> QED BY <1>5, <1>6, <1>9

LEMMA AgreeQuic == Agree(connect_quic("plain"), handle_quic_connection(AnswerVless("plain")))
<1> DEFINE a == tls_handshake("h3", "h3")   b == <<In("hello", "h3"), Out("flight", "h3"), In("finished", "")>>
           c == Inside("stream", connect_raw("plain"))   s == Inside("stream", AnswerVless("plain"))
<1>1. a \in Dialogues /\ b \in Dialogues /\ Agree(a, b) BY Names, AgreeHandshake
<1>2. c \in Dialogues /\ s \in Dialogues /\ Agree(c, s) BY Names, AgreeWrapped
<1>3. connect_quic("plain") = a \o c BY DEF connect_quic, quic_handshake
<1>4. handle_quic_connection(AnswerVless("plain")) = b \o s BY DEF handle_quic_connection, AcceptQuic
<1> HIDE DEF a, b, c, s
<1>5. Agree(a \o c, b \o s) BY <1>1, <1>2, AgreeThen
<1> QED BY <1>3, <1>4, <1>5

LEMMA AgreeWebTransport ==
  Agree(connect_webtransport("plain"), handle_webtransport_session("/eval", AnswerVless("plain")))
<1> DEFINE a == tls_handshake("h3", "h3")   b == <<In("hello", "h3"), Out("flight", "h3"), In("finished", "")>>
           e == <<Out("connect", "/eval"), In("200", "")>>   f == <<In("connect", "/eval"), Out("200", "")>>
           c == Inside("stream", connect_raw("plain"))   s == Inside("stream", AnswerVless("plain"))
<1>1. a \in Dialogues /\ b \in Dialogues /\ Agree(a, b) BY Names, AgreeHandshake
<1>2. c \in Dialogues /\ s \in Dialogues /\ Agree(c, s) BY Names, AgreeWrapped
<1>3. e \in Dialogues /\ f \in Dialogues /\ Agree(e, f) BY Names, AgreeExchange
<1>4. connect_webtransport("plain") = (a \o e) \o c BY DEF connect_webtransport
<1>5. handle_webtransport_session("/eval", AnswerVless("plain")) = b \o (f \o s)
  BY DEF handle_webtransport_session, AcceptQuic
<1> HIDE DEF a, b, c, s, e, f
<1>6. (a \o e) \o c = a \o (e \o c)
  <2>1. a \in Seq(Messages) /\ e \in Seq(Messages) /\ c \in Seq(Messages) BY <1>1, <1>2, <1>3 DEF Dialogues
  <2> QED BY <2>1, ConcatAssociative
<1> DEFINE ec == e \o c   fs == f \o s
<1>7. ec \in Dialogues /\ fs \in Dialogues /\ Agree(ec, fs) BY <1>2, <1>3, AgreeThen
<1>8. connect_webtransport("plain") = a \o ec BY <1>4, <1>6
<1> HIDE DEF ec, fs
<1>9. Agree(a \o ec, b \o fs) BY <1>1, <1>7, AgreeThen
<1> QED BY <1>5, <1>8, <1>9 DEF fs

LEMMA AgreeVmess == Agree(connect_vmess, AnswerVmess)
<1> DEFINE c == connect_vmess   s == AnswerVmess
<1>1. /\ Len(c) = 3 /\ Len(s) = 3 /\ DOMAIN c = {1, 2, 3}
      /\ c[1] = Out("auth id", "") /\ c[2] = Out("vmess header", "tcp") /\ c[3] = In("vmess response", "")
      /\ s[1] = In("auth id", "") /\ s[2] = In("vmess header", "tcp") /\ s[3] = Out("vmess response", "")
  BY DEF connect_vmess, AnswerVmess
<1> HIDE DEF c, s
<1>2. /\ In("auth id", "") = [Out("auth id", "") EXCEPT !.out = ~@]
      /\ In("vmess header", "tcp") = [Out("vmess header", "tcp") EXCEPT !.out = ~@]
      /\ Out("vmess response", "") = [In("vmess response", "") EXCEPT !.out = ~@]
  BY Names, Flipped
<1>3. Agree(c, s) BY <1>1, <1>2 DEF Agree
<1> QED BY <1>3 DEF c, s

-----------------------------------------------------------------------------
(* Each protocol of the evaluator *)

LEMMA KnownProtocol == ASSUME NEW p, Known(p) PROVE p \in Protocols
<1>1. DEFAULT_PROTOCOLS \in Seq(Protocols) BY DEF DEFAULT_PROTOCOLS, Protocols
<1>2. PICK k \in DOMAIN DEFAULT_PROTOCOLS : DEFAULT_PROTOCOLS[k] = p BY DEF Known, Range
<1> QED BY <1>1, <1>2

\* What a listener speaks, by what it listens for.
LEMMA ServingIs ==
  ASSUME NEW at, NEW setting, NEW flow
  PROVE  LET vless == AnswerVless(flow)
             Of(proto, wire, sec) == at.proto = proto /\ at.wire = wire /\ at.sec = sec
             over(sec, d) == IF sec = "tls" THEN AcceptTls("tls", d) ELSE d
         IN /\ Of("vmess", "raw", "none") => Serving(at, setting, flow) = AnswerVmess
            /\ Of("vless", "raw", "none") => Serving(at, setting, flow) = vless
            /\ \A sec \in {"tls", "reality"} :
                 Of("vless", "raw", sec) => Serving(at, setting, flow) = AcceptTls(sec, vless)
            /\ Of("vless", "raw", "shadowtls") => Serving(at, setting, flow) = AcceptShadowTls(setting, vless)
            /\ Of("vless", "raw", "anytls") => Serving(at, setting, flow) = AcceptAnyTls(setting, vless)
            /\ Of("vless", "quic", "tls") => Serving(at, setting, flow) = handle_quic_connection(vless)
            /\ Of("vless", "webtransport", "tls") =>
                 Serving(at, setting, flow) = handle_webtransport_session(setting, vless)
            /\ Of("vless", "kcp", "none") => Serving(at, setting, flow) = KcpPacketMask(setting, vless)
BY DEF Serving

LEMMA ServingFramed ==
  ASSUME NEW at, NEW setting, NEW flow, at.proto = "vless", NEW d,
         \/ at.wire = "websocket" /\ d = AnswerUpgrade(setting) \o Inside("ws frame", AnswerVless(flow))
         \/ at.wire = "httpupgrade" /\ d = AnswerUpgrade(setting) \o AnswerVless(flow)
         \/ at.wire = "grpc" /\ d = handle_grpc_request_stream(setting, AnswerVless(flow))
         \/ at.wire = "xhttp" /\ d = handle_xhttp_request_stream(setting, AnswerVless(flow))
  PROVE  /\ at.sec = "none" => Serving(at, setting, flow) = d
         /\ at.sec = "tls" => Serving(at, setting, flow) = AcceptTls("tls", d)
BY DEF Serving

\* The file of every protocol but raw has one section.
LEMMA FileOf ==
  ASSUME NEW p \in Protocols, p # "raw"
  PROVE  LET q == IF p \in OverTls THEN "tls" ELSE "plain"
             u == IF p = "reality" THEN "vision" ELSE IF p = "vmess" THEN "nobody" ELSE "plain"
         IN One(build_proxy_config(p), Section(p), q, u) /\ Fits(Section(p), q, u)
<1> DEFINE q == IF p \in OverTls THEN "tls" ELSE "plain"
           u == IF p = "reality" THEN "vision" ELSE IF p = "vmess" THEN "nobody" ELSE "plain"
<1>1. One(build_proxy_config(p), Section(p), q, u) BY DEF One, build_proxy_config
<1>2. /\ Section(p) \in Evaluated
      /\ p \in OverTls => Section(p) \in {"websocket", "httpupgrade", "grpc", "xhttp"}
      /\ Section(p) = "reality" <=> p = "reality"
      /\ Section(p) = "vmess" <=> p = "vmess"
  BY DEF Section, Protocols, OverTls, Evaluated
<1>3. Fits(Section(p), q, u)
  <2>1. q \in {"plain", "tls"} /\ (q = "tls" => p \in OverTls) OBVIOUS
  <2>2. u = IF Section(p) = "reality" THEN "vision" ELSE IF Section(p) = "vmess" THEN "nobody" ELSE "plain"
    BY <1>2
  <2> HIDE DEF q, u
  <2> QED BY <1>2, <2>1, <2>2 DEF Fits
<1> QED BY <1>1, <1>3

\* What its proxy listens for.
LEMMA ProxyOf ==
  ASSUME NEW p \in Protocols, p # "raw"
  PROVE  LET c == build_proxy_config(p)
             q == IF p \in OverTls THEN "tls" ELSE "plain"
         IN /\ new(c) /\ Listening(c).known
            /\ Listening(c).proto = IF Section(p) = "vmess" THEN "vmess" ELSE "vless"
            /\ Listening(c).sec = SecOf(Section(p), q)
            /\ Listening(c).wire = IF Section(p) \in TlsLayers \cup {"vmess"} THEN "raw" ELSE Section(p)
            /\ c.user = IF p = "reality" THEN "vision" ELSE IF p = "vmess" THEN "nobody" ELSE "plain"
<1> DEFINE c == build_proxy_config(p)
           s == Section(p)
           q == IF p \in OverTls THEN "tls" ELSE "plain"
           u == IF p = "reality" THEN "vision" ELSE IF p = "vmess" THEN "nobody" ELSE "plain"
<1>1. One(c, s, q, u) /\ Fits(s, q, u) BY FileOf
<1>2. c.user = u BY DEF build_proxy_config
<1> HIDE DEF c, s, q, u
<1>3. /\ new(c) /\ Listening(c).known /\ Listening(c).sec = SecOf(s, q)
      /\ Listening(c).proto = IF s = "vmess" THEN s ELSE "vless"
      /\ Listening(c).wire = IF s \in TlsLayers \cup {"vmess"} THEN "raw" ELSE s
  BY <1>1, OneServes
<1>4. Listening(c).proto = IF s = "vmess" THEN "vmess" ELSE "vless" BY <1>3
<1> QED BY <1>2, <1>3, <1>4 DEF c, s, q, u

\* A file without sections is that of a raw listener.
LEMMA RawProxy ==
  LET c == build_proxy_config("raw")
  IN /\ new(c) /\ Listening(c).known /\ c.user = "plain"
     /\ Listening(c).proto = "vless" /\ Listening(c).wire = "raw" /\ Listening(c).sec = "none"
<1> DEFINE c == build_proxy_config("raw")
<1>1. DOMAIN c.on = {} /\ c.user = "plain" BY DEF build_proxy_config
<1> HIDE DEF c
<1>2. (\A S : ~Has(c, S)) /\ (\A t, Q : ~Is(c, t, Q)) BY <1>1 DEF Has, Is
<1>3. validate(c)
  <2>1. AtMostOneInbound(c)
    <3>1. DOMAIN c.on \cap (NonVless \cup {"xhttp"} \cup Experimental) = {} BY <1>1
    <3>2. Cardinality({}) = 0 BY FS_EmptySet
    <3> QED BY <3>1, <3>2 DEF AtMostOneInbound
  <2>2. UsersAreValid(c) BY <1>1 DEF UsersAreValid
  <2> QED BY <1>2, <2>1, <2>2 DEF validate, ShadowsocksIsValid, MixedIsValid, TrojanIsValid, Hysteria2IsValid,
         TuicIsValid, VmessIsValid, WireGuardIsValid, NaiveIsValid, SnellIsValid, FramingsAreValid,
         DatagramsAreValid, ShadowTlsIsValid
<1>4. new(c) BY <1>1, <1>3 DEF new, add
<1>5. Served(c) = "raw" BY <1>1, ServedNone
<1>6. IsVless("raw") /\ Wire("raw") = "raw" BY DEF IsVless, Wire, TlsLayers, NonVless
<1>7. has_vless_users(c) BY <1>1 DEF has_vless_users
<1>8. /\ Listening(c).known /\ Listening(c).proto = "vless" /\ Listening(c).wire = "raw"
      /\ Listening(c).sec = "none"
  BY <1>2, <1>5, <1>6, <1>7 DEF Listening, Plain
<1> QED BY <1>1, <1>4, <1>8 DEF c

\* The proxy of p starts, knows its user, and is understood unless p is a stranger.
IsServed(p) ==
  LET c == build_proxy_config(p)
  IN /\ new(c) /\ Listening(c).known
     /\ p \notin Strangers => Understood(p)

LEMMA RawIsServed == IsServed("raw")
<1> DEFINE c == build_proxy_config("raw")   at == Listening(c)
<1>1. /\ new(c) /\ at.known /\ c.user = "plain"
      /\ at.proto = "vless" /\ at.wire = "raw" /\ at.sec = "none"
  BY RawProxy
<1> HIDE DEF c, at
<1>2. Serving(at, Setting("raw"), "plain") = AnswerVless("plain") BY <1>1, ServingIs
<1>3. connect_for_protocol("raw") = connect_raw("plain") BY DEF connect_for_protocol
<1>4. Agree(connect_raw("plain"), AnswerVless("plain")) BY AgreeVless
<1>5. Understood("raw") BY <1>1, <1>2, <1>3, <1>4 DEF Understood, c, at
<1> QED BY <1>1, <1>5 DEF IsServed, c, at

\* What the proxy of p listens for, and the flow of its user.
At(p, proto, wire, sec, u) ==
  /\ p \in Protocols /\ p # "raw"
  /\ proto = IF Section(p) = "vmess" THEN "vmess" ELSE "vless"
  /\ wire = IF Section(p) \in TlsLayers \cup {"vmess"} THEN "raw" ELSE Section(p)
  /\ sec = SecOf(Section(p), IF p \in OverTls THEN "tls" ELSE "plain")
  /\ u = IF p = "reality" THEN "vision" ELSE IF p = "vmess" THEN "nobody" ELSE "plain"

LEMMA Listeners ==
  /\ At("reality", "vless", "raw", "reality", "vision")
  /\ At("anytls", "vless", "raw", "anytls", "plain")
  /\ At("tls", "vless", "raw", "tls", "plain")
  /\ At("shadowtls", "vless", "raw", "shadowtls", "plain")
  /\ At("ws", "vless", "websocket", "none", "plain")
  /\ At("ws+tls", "vless", "websocket", "tls", "plain")
  /\ At("httpupgrade", "vless", "httpupgrade", "none", "plain")
  /\ At("httpupgrade+tls", "vless", "httpupgrade", "tls", "plain")
  /\ At("grpc", "vless", "grpc", "none", "plain")
  /\ At("grpc+tls", "vless", "grpc", "tls", "plain")
  /\ At("xhttp", "vless", "xhttp", "none", "plain")
  /\ At("xhttp+tls", "vless", "xhttp", "tls", "plain")
  /\ At("quic", "vless", "quic", "tls", "plain")
  /\ At("kcp", "vless", "kcp", "none", "plain")
  /\ At("webtransport", "vless", "webtransport", "tls", "plain")
  /\ At("vmess", "vmess", "raw", "none", "nobody")
BY DEF At, Protocols, Section, TlsLayers, OverTls, SecOf

\* From the two dialogues to the two ends.
LEMMA ServedBy ==
  ASSUME NEW p, NEW proto, NEW wire, NEW sec, NEW u, At(p, proto, wire, sec, u),
         NEW d, connect_for_protocol(p) = d,
         NEW e, \A at : at.proto = proto /\ at.wire = wire /\ at.sec = sec => Serving(at, Setting(p), u) = e,
         p \notin Strangers => Agree(d, e)
  PROVE  IsServed(p)
<1> DEFINE c == build_proxy_config(p)   at == Listening(c)
<1>1. new(c) /\ at.known /\ at.proto = proto /\ at.sec = sec /\ at.wire = wire /\ c.user = u
  BY ProxyOf DEF At
<1> HIDE DEF c, at
<1>2. Serving(at, Setting(p), c.user) = e BY <1>1
<1>3. p \notin Strangers => Understood(p) BY <1>2 DEF Understood, c, at
<1> QED BY <1>1, <1>3 DEF IsServed, c, at

\* The TLS layers: the proxy of each starts, and those of reality, anytls and tls
\* are understood.
LEMMA LayersServed == \A p \in {"reality", "anytls", "tls", "shadowtls"} : IsServed(p)
<1>1. IsServed("reality")
  <2>1. connect_for_protocol("reality") = connect_reality("vision") BY DEF connect_for_protocol
  <2>2. \A at : at.proto = "vless" /\ at.wire = "raw" /\ at.sec = "reality"
                => Serving(at, Setting("reality"), "vision") = AcceptTls("reality", AnswerVless("vision"))
    BY ServingIs
  <2>3. "reality" \notin Strangers BY DEF Strangers
  <2> QED BY <2>1, <2>2, <2>3, Listeners, AgreeReality, ServedBy
<1>2. IsServed("anytls")
  <2>1. connect_for_protocol("anytls") = connect_anytls("plain") BY DEF connect_for_protocol
  <2>2. \A at : at.proto = "vless" /\ at.wire = "raw" /\ at.sec = "anytls"
                => Serving(at, Setting("anytls"), "plain") = AcceptAnyTls(Setting("anytls"), AnswerVless("plain"))
    BY ServingIs
  <2>3. "anytls" \notin Strangers /\ Setting("anytls") = "eval-anytls-pass" BY DEF Strangers, Setting
  <2>4. Agree(connect_anytls("plain"), AcceptAnyTls(Setting("anytls"), AnswerVless("plain")))
    BY <2>3, AgreeAnyTls
  <2> QED BY <2>1, <2>2, <2>3, <2>4, Listeners, ServedBy
<1>3. IsServed("tls")
  <2>1. connect_for_protocol("tls") = connect_tls("plain") BY DEF connect_for_protocol
  <2>2. \A at : at.proto = "vless" /\ at.wire = "raw" /\ at.sec = "tls"
                => Serving(at, Setting("tls"), "plain") = AcceptTls("tls", AnswerVless("plain"))
    BY ServingIs
  <2>3. "tls" \notin Strangers BY DEF Strangers
  <2> QED BY <2>1, <2>2, <2>3, Listeners, AgreeTlsAlone, ServedBy
<1>4. IsServed("shadowtls")
  <2>1. connect_for_protocol("shadowtls") = connect_shadowtls("plain") BY DEF connect_for_protocol
  <2>2. \A at : at.proto = "vless" /\ at.wire = "raw" /\ at.sec = "shadowtls"
                => Serving(at, Setting("shadowtls"), "plain")
                     = AcceptShadowTls(Setting("shadowtls"), AnswerVless("plain"))
    BY ServingIs
  <2>3. "shadowtls" \in Strangers BY DEF Strangers
  <2> QED BY <2>1, <2>2, <2>3, Listeners, ServedBy
<1> QED BY <1>1, <1>2, <1>3, <1>4

\* The framings, with and without TLS.
LEMMA FramingsServed ==
  \A p \in {"ws", "ws+tls", "httpupgrade", "httpupgrade+tls", "grpc", "grpc+tls", "xhttp", "xhttp+tls"} :
    IsServed(p)
<1> DEFINE Sec(tls) == IF tls THEN "tls" ELSE "none"
<1>1. ASSUME NEW p \in {"ws", "ws+tls"} PROVE IsServed(p)
  <2> DEFINE tls == p = "ws+tls"   s == AnswerUpgrade("/eval") \o Inside("ws frame", AnswerVless("plain"))
             e == IF tls THEN AcceptTls("tls", s) ELSE s
  <2>1. At(p, "vless", "websocket", Sec(tls), "plain") BY Listeners
  <2>2. connect_for_protocol(p) = connect_ws(tls, "plain") BY DEF connect_for_protocol, OverTls
  <2>3. Setting(p) = "/eval" /\ p \notin Strangers BY DEF Setting, Strangers
  <2>4. \A at : at.proto = "vless" /\ at.wire = "websocket" /\ at.sec = Sec(tls) => Serving(at, "/eval", "plain") = e
    <3> HIDE DEF tls
    <3> SUFFICES ASSUME NEW at, at.proto = "vless", at.wire = "websocket", at.sec = Sec(tls)
                 PROVE  Serving(at, "/eval", "plain") = e
      OBVIOUS
    <3>1. /\ at.sec = "none" => Serving(at, "/eval", "plain") = s
          /\ at.sec = "tls" => Serving(at, "/eval", "plain") = AcceptTls("tls", s)
      BY ServingFramed
    <3> QED BY <3>1
  <2>5. Agree(connect_ws(tls, "plain"), e)
    <3>1. tls \in BOOLEAN OBVIOUS
    <3> HIDE DEF tls
    <3> QED BY <3>1, AgreeWs
  <2> HIDE DEF e, tls, Sec
  <2> QED BY <2>1, <2>2, <2>3, <2>4, <2>5, ServedBy
<1>2. ASSUME NEW p \in {"httpupgrade", "httpupgrade+tls"} PROVE IsServed(p)
  <2> DEFINE tls == p = "httpupgrade+tls"   s == AnswerUpgrade("/eval") \o AnswerVless("plain")
             e == IF tls THEN AcceptTls("tls", s) ELSE s
  <2>1. At(p, "vless", "httpupgrade", Sec(tls), "plain") BY Listeners
  <2>2. connect_for_protocol(p) = connect_httpupgrade(tls, "plain") BY DEF connect_for_protocol, OverTls
  <2>3. Setting(p) = "/eval" /\ p \notin Strangers BY DEF Setting, Strangers
  <2>4. \A at : at.proto = "vless" /\ at.wire = "httpupgrade" /\ at.sec = Sec(tls) => Serving(at, "/eval", "plain") = e
    <3> HIDE DEF tls
    <3> SUFFICES ASSUME NEW at, at.proto = "vless", at.wire = "httpupgrade", at.sec = Sec(tls)
                 PROVE  Serving(at, "/eval", "plain") = e
      OBVIOUS
    <3>1. /\ at.sec = "none" => Serving(at, "/eval", "plain") = s
          /\ at.sec = "tls" => Serving(at, "/eval", "plain") = AcceptTls("tls", s)
      BY ServingFramed
    <3> QED BY <3>1
  <2>5. Agree(connect_httpupgrade(tls, "plain"), e)
    <3>1. tls \in BOOLEAN OBVIOUS
    <3> HIDE DEF tls
    <3> QED BY <3>1, AgreeHttpUpgrade
  <2> HIDE DEF e, tls, Sec
  <2> QED BY <2>1, <2>2, <2>3, <2>4, <2>5, ServedBy
<1>3. ASSUME NEW p \in {"grpc", "grpc+tls"} PROVE IsServed(p)
  <2> DEFINE tls == p = "grpc+tls"   s == handle_grpc_request_stream("/EvalService/Tun", AnswerVless("plain"))
             e == IF tls THEN AcceptTls("tls", s) ELSE s
  <2>1. At(p, "vless", "grpc", Sec(tls), "plain") BY Listeners
  <2>2. connect_for_protocol(p) = connect_grpc(tls, "plain") BY DEF connect_for_protocol, OverTls
  <2>3. Setting(p) = "/EvalService/Tun" /\ p \notin Strangers BY DEF Setting, Strangers
  <2>4. \A at : at.proto = "vless" /\ at.wire = "grpc" /\ at.sec = Sec(tls)
                => Serving(at, "/EvalService/Tun", "plain") = e
    <3> HIDE DEF tls
    <3> SUFFICES ASSUME NEW at, at.proto = "vless", at.wire = "grpc", at.sec = Sec(tls)
                 PROVE  Serving(at, "/EvalService/Tun", "plain") = e
      OBVIOUS
    <3>1. /\ at.sec = "none" => Serving(at, "/EvalService/Tun", "plain") = s
          /\ at.sec = "tls" => Serving(at, "/EvalService/Tun", "plain") = AcceptTls("tls", s)
      BY ServingFramed
    <3> QED BY <3>1
  <2>5. Agree(connect_grpc(tls, "plain"), e)
    <3>1. tls \in BOOLEAN OBVIOUS
    <3> HIDE DEF tls
    <3> QED BY <3>1, AgreeGrpc
  <2> HIDE DEF e, tls, Sec
  <2> QED BY <2>1, <2>2, <2>3, <2>4, <2>5, ServedBy
<1>4. ASSUME NEW p \in {"xhttp", "xhttp+tls"} PROVE IsServed(p)
  <2> DEFINE tls == p = "xhttp+tls"   s == handle_xhttp_request_stream("/eval", AnswerVless("plain"))
             e == IF tls THEN AcceptTls("tls", s) ELSE s
  <2>1. At(p, "vless", "xhttp", Sec(tls), "plain") BY Listeners
  <2>2. connect_for_protocol(p) = connect_xhttp(tls, "plain") BY DEF connect_for_protocol, OverTls
  <2>3. Setting(p) = "/eval" /\ p \notin Strangers BY DEF Setting, Strangers
  <2>4. \A at : at.proto = "vless" /\ at.wire = "xhttp" /\ at.sec = Sec(tls) => Serving(at, "/eval", "plain") = e
    <3> HIDE DEF tls
    <3> SUFFICES ASSUME NEW at, at.proto = "vless", at.wire = "xhttp", at.sec = Sec(tls)
                 PROVE  Serving(at, "/eval", "plain") = e
      OBVIOUS
    <3>1. /\ at.sec = "none" => Serving(at, "/eval", "plain") = s
          /\ at.sec = "tls" => Serving(at, "/eval", "plain") = AcceptTls("tls", s)
      BY ServingFramed
    <3> QED BY <3>1
  <2>5. Agree(connect_xhttp(tls, "plain"), e)
    <3>1. tls \in BOOLEAN OBVIOUS
    <3> HIDE DEF tls
    <3> QED BY <3>1, AgreeXhttp
  <2> HIDE DEF e, tls, Sec
  <2> QED BY <2>1, <2>2, <2>3, <2>4, <2>5, ServedBy
<1> QED BY <1>1, <1>2, <1>3, <1>4

\* What goes over UDP, of kcp only that its proxy starts, and VMess.
LEMMA OthersServed == \A p \in {"quic", "kcp", "webtransport", "vmess"} : IsServed(p)
<1>1. IsServed("quic")
  <2>1. connect_for_protocol("quic") = connect_quic("plain") BY DEF connect_for_protocol
  <2>2. \A at : at.proto = "vless" /\ at.wire = "quic" /\ at.sec = "tls"
                => Serving(at, Setting("quic"), "plain") = handle_quic_connection(AnswerVless("plain"))
    BY ServingIs
  <2>3. "quic" \notin Strangers BY DEF Strangers
  <2> QED BY <2>1, <2>2, <2>3, Listeners, AgreeQuic, ServedBy
<1>2. IsServed("kcp")
  <2>1. connect_for_protocol("kcp") = connect_kcp("plain") BY DEF connect_for_protocol
  <2>2. \A at : at.proto = "vless" /\ at.wire = "kcp" /\ at.sec = "none"
                => Serving(at, Setting("kcp"), "plain") = KcpPacketMask(Setting("kcp"), AnswerVless("plain"))
    BY ServingIs
  <2>3. "kcp" \in Strangers BY DEF Strangers
  <2> QED BY <2>1, <2>2, <2>3, Listeners, ServedBy
<1>3. IsServed("webtransport")
  <2>1. connect_for_protocol("webtransport") = connect_webtransport("plain") BY DEF connect_for_protocol
  <2>2. \A at : at.proto = "vless" /\ at.wire = "webtransport" /\ at.sec = "tls"
                => Serving(at, Setting("webtransport"), "plain")
                     = handle_webtransport_session(Setting("webtransport"), AnswerVless("plain"))
    BY ServingIs
  <2>3. "webtransport" \notin Strangers /\ Setting("webtransport") = "/eval" BY DEF Strangers, Setting
  <2>4. Agree(connect_webtransport("plain"),
              handle_webtransport_session(Setting("webtransport"), AnswerVless("plain")))
    BY <2>3, AgreeWebTransport
  <2> QED BY <2>1, <2>2, <2>3, <2>4, Listeners, ServedBy
<1>4. IsServed("vmess")
  <2>1. connect_for_protocol("vmess") = connect_vmess BY DEF connect_for_protocol
  <2>2. \A at : at.proto = "vmess" /\ at.wire = "raw" /\ at.sec = "none"
                => Serving(at, Setting("vmess"), "nobody") = AnswerVmess
    BY ServingIs
  <2>3. "vmess" \notin Strangers BY DEF Strangers
  <2> QED BY <2>1, <2>2, <2>3, Listeners, AgreeVmess, ServedBy
<1> QED BY <1>1, <1>2, <1>3, <1>4

LEMMA EveryProtocolServed == ASSUME NEW p, Known(p) PROVE IsServed(p)
<1>1. p \in Protocols BY KnownProtocol
<1> QED BY <1>1, RawIsServed, LayersServed, FramingsServed, OthersServed DEF Protocols

\* In every state of every run the protocol under test is one whose proxy starts
\* from the file eval-server writes (build_proxy_config, Server::new) and knows
\* the user of that file, and connect_for_protocol speaks with it message for
\* message, where it is none of kcp and shadowtls.
THEOREM EvaluatedServed == Spec => []EvaluatedIsServed
<1>1. IInv => EvaluatedIsServed
  <2> SUFFICES ASSUME Lists, srv \in {"ready", "result"} PROVE IsServed(list[i])
    BY DEF IInv, EvaluatedIsServed, IsServed
  <2> QED BY EveryProtocolServed DEF Lists
<1> QED BY <1>1, Invariance, PTL

=============================================================================
