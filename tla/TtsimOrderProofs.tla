-------------------------- MODULE TtsimOrderProofs --------------------------
(***************************************************************************)
(* Proof that the adapter, the link and the host together implement        *)
(* PcieEndpoint: the requests are executed in the order of issue, none is  *)
(* lost, and each that is waited for is completed once.  The last sections *)
(* count the completions that can be in the ring, and show that what       *)
(* somebody waits for is always somewhere.                                 *)
(***************************************************************************)
EXTENDS TtsimDmaProofs, FiniteSetTheorems, FunctionTheorems

\* What the host has sent or is about to send, and the adapter has not
\* polled yet.
Coming == h2d \o hOut

IsMmio(m) == m.type \in MmioTypes

\* The requests in line are those of reqs after the first n, in their order.
InLine(line, n, reqs) ==
  /\ \A i \in 1 .. Len(line) :
       IsMmio(line[i]) =>
         /\ line[i].id \in (n + 1) .. Len(reqs)
         /\ line[i].type = reqs[line[i].id].type
  /\ \A i, j \in 1 .. Len(line) :
       i < j /\ IsMmio(line[i]) /\ IsMmio(line[j]) => line[i].id < line[j].id
  /\ \A k \in (n + 1) .. Len(reqs) :
       \E i \in 1 .. Len(line) : IsMmio(line[i]) /\ line[i].id = k

\* A request is issued, then coming, then in mmioQ, then the one in r.
OrderInv ==
  /\ r.id + Len(mmioQ) <= Len(issued)
  /\ r.id > 0 => r.type = issued[r.id].type
  /\ \A i \in 1 .. Len(mmioQ) :
       /\ mmioQ[i].id = r.id + i
       /\ mmioQ[i].type = issued[r.id + i].type
  /\ InLine(Coming, r.id + Len(mmioQ), issued)

Completed(id) == \E i \in 1 .. Len(d2h) : d2h[i].type \in CompTypes /\ d2h[i].id = id
Replied(id) == id \in answered \/ Completed(id)

\* The request in r is still worked on.
Serving == call = "mmio" \/ pc \in ReplyPcs

\* Of the requests begun, all but the last are completed if they are waited
\* for, and the last is when it is not worked on any more.
ReplyInv ==
  /\ \A id \in Nat : Replied(id) => id \in 1 .. r.id
  /\ \A id \in 1 .. r.id :
       issued[id].type # "posted" =>
         Replied(id) \/ (id = r.id /\ (Serving \/ pc = "stopped"))
  /\ Serving => r.id > 0 /\ ~Replied(r.id)
  /\ pc \in ReplyPcs => r.type # "posted"

EndpointInv == OrderInv /\ ReplyInv
----------------------------------------------------------------------------
(* Lemmas about what is coming                                             *)

\* A message that is no request, put at the end, changes nothing.
LEMMA InLineAside ==
  ASSUME NEW Types, NEW line \in Seq(Messages(Types)), NEW m \in Messages(Types),
         ~IsMmio(m), NEW n, NEW reqs, InLine(line, n, reqs)
  PROVE  InLine(Append(line, m), n, reqs)
<1>. DEFINE new == Append(line, m)
<1>1. /\ Len(new) = Len(line) + 1
      /\ \A i \in 1 .. Len(line) : new[i] = line[i]
      /\ new[Len(line) + 1] = m
      /\ Len(line) \in Nat
  BY AppendProperties, LenProperties
<1>. HIDE DEF new
<1>2. \A i \in 1 .. Len(new) : IsMmio(new[i]) => i \in 1 .. Len(line) /\ new[i] = line[i]
  BY <1>1
<1>3. \A i \in 1 .. Len(line) : i \in 1 .. Len(new)
  BY <1>1
<1>4. InLine(new, n, reqs)
  BY <1>1, <1>2, <1>3 DEF InLine
<1>. QED  BY <1>4 DEF new

\* The request that is issued goes to the end of both.
LEMMA InLineIssue ==
  ASSUME NEW Types, NEW line \in Seq(Messages(Types)), NEW m \in Messages(Types),
         NEW S, NEW reqs \in Seq(S), NEW t \in S,
         IsMmio(m), m.id = Len(reqs) + 1, m.type = t.type,
         NEW n \in Nat, n <= Len(reqs), InLine(line, n, reqs)
  PROVE  InLine(Append(line, m), n, Append(reqs, t))
<1>. DEFINE new == Append(line, m)
            more == Append(reqs, t)
<1>1. /\ Len(new) = Len(line) + 1
      /\ \A i \in 1 .. Len(line) : new[i] = line[i]
      /\ new[Len(line) + 1] = m
      /\ Len(line) \in Nat
  BY AppendProperties, LenProperties
<1>2. /\ Len(more) = Len(reqs) + 1
      /\ \A i \in 1 .. Len(reqs) : more[i] = reqs[i]
      /\ more[Len(reqs) + 1] = t
      /\ Len(reqs) \in Nat
  BY AppendProperties, LenProperties
<1>. HIDE DEF new, more
<1>3. \A i \in 1 .. Len(new) : i \in 1 .. Len(line) \/ i = Len(line) + 1
  BY <1>1
<1>4. ASSUME NEW i \in 1 .. Len(new), IsMmio(new[i])
      PROVE  new[i].id \in (n + 1) .. Len(more) /\ new[i].type = more[new[i].id].type
  <2>1. CASE i \in 1 .. Len(line)
    <3>1. new[i].id \in (n + 1) .. Len(reqs) /\ new[i].type = reqs[new[i].id].type
      BY <1>1, <1>4, <2>1 DEF InLine
    <3>. QED  BY <1>2, <3>1
  <2>2. CASE i = Len(line) + 1
    BY <1>1, <1>2, <2>2
  <2>. QED  BY <1>3, <2>1, <2>2
<1>5. ASSUME NEW i \in 1 .. Len(new), NEW j \in 1 .. Len(new), i < j,
             IsMmio(new[i]), IsMmio(new[j])
      PROVE  new[i].id < new[j].id
  <2>0. i \in 1 .. Len(line)
    BY <1>1, <1>5
  <2>1. new[i].id \in (n + 1) .. Len(reqs)
    BY <1>1, <1>5, <2>0 DEF InLine
  <2>2. CASE j \in 1 .. Len(line)
    BY <1>1, <1>5, <2>0, <2>2 DEF InLine
  <2>3. CASE j = Len(line) + 1
    BY <1>1, <1>2, <2>1, <2>3
  <2>. QED  BY <1>3, <2>2, <2>3
<1>6. ASSUME NEW k \in (n + 1) .. Len(more)
      PROVE  \E i \in 1 .. Len(new) : IsMmio(new[i]) /\ new[i].id = k
  <2>1. CASE k \in (n + 1) .. Len(reqs)
    <3>1. PICK i \in 1 .. Len(line) : IsMmio(line[i]) /\ line[i].id = k
      BY <2>1 DEF InLine
    <3>2. i \in 1 .. Len(new) /\ new[i] = line[i]
      BY <1>1
    <3>. QED  BY <3>1, <3>2
  <2>2. CASE k = Len(reqs) + 1
    <3>1. Len(line) + 1 \in 1 .. Len(new)
      BY <1>1
    <3>. QED  BY <1>1, <2>2, <3>1
  <2>. QED  BY <1>2, <2>1, <2>2
<1>7. InLine(new, n, more)
  BY <1>4, <1>5, <1>6 DEF InLine
<1>. QED  BY <1>7 DEF new, more

\* Without its first message, when that is no request, the line is the same.
LEMMA InLineSkip ==
  ASSUME NEW Types, NEW line \in Seq(Messages(Types)), line # <<>>,
         ~IsMmio(line[1]), NEW n, NEW reqs, InLine(line, n, reqs)
  PROVE  InLine(Tail(line), n, reqs)
<1>. DEFINE rest == Tail(line)
<1>1. /\ Len(rest) = Len(line) - 1 /\ Len(line) \in Nat
      /\ \A i \in 1 .. Len(rest) : rest[i] = line[i + 1]
  BY HeadType, LenProperties
<1>. HIDE DEF rest
<1>2. \A i \in 1 .. Len(rest) : i + 1 \in 1 .. Len(line)
  BY <1>1
<1>3. ASSUME NEW k \in (n + 1) .. Len(reqs)
      PROVE  \E i \in 1 .. Len(rest) : IsMmio(rest[i]) /\ rest[i].id = k
  <2>1. PICK i \in 1 .. Len(line) : IsMmio(line[i]) /\ line[i].id = k
    BY DEF InLine
  <2>2. i - 1 \in 1 .. Len(rest) /\ (i - 1) + 1 = i
    BY <1>1, <2>1
  <2>3. rest[i - 1] = line[i]
    BY <1>1, <2>2
  <2>. QED  BY <2>1, <2>2, <2>3
<1>4. ASSUME NEW i \in 1 .. Len(rest), NEW j \in 1 .. Len(rest), i < j,
             IsMmio(rest[i]), IsMmio(rest[j])
      PROVE  rest[i].id < rest[j].id
  <2>1. i + 1 < j + 1
    BY <1>4
  <2>. QED  BY <1>1, <1>2, <1>4, <2>1 DEF InLine
<1>5. \A i \in 1 .. Len(rest) :
        IsMmio(rest[i]) =>
          /\ rest[i].id \in (n + 1) .. Len(reqs)
          /\ rest[i].type = reqs[rest[i].id].type
  BY <1>1, <1>2 DEF InLine
<1>6. InLine(rest, n, reqs)
  BY <1>3, <1>4, <1>5 DEF InLine
<1>. QED  BY <1>6 DEF rest

\* When it is a request, it is the next one.
LEMMA InLineTake ==
  ASSUME NEW Types, NEW line \in Seq(Messages(Types)), line # <<>>,
         IsMmio(line[1]), NEW S, NEW reqs \in Seq(S), NEW n \in Nat,
         InLine(line, n, reqs)
  PROVE  /\ line[1].id = n + 1 /\ n + 1 <= Len(reqs)
         /\ line[1].type = reqs[n + 1].type
         /\ InLine(Tail(line), n + 1, reqs)
<1>. DEFINE rest == Tail(line)
<1>1. /\ Len(rest) = Len(line) - 1 /\ Len(line) \in Nat /\ Len(line) >= 1
      /\ \A i \in 1 .. Len(rest) : rest[i] = line[i + 1]
      /\ Len(reqs) \in Nat
  BY HeadType, LenProperties, EmptySeq
<1>. HIDE DEF rest
<1>2. /\ line[1].id \in (n + 1) .. Len(reqs)
      /\ line[1].type = reqs[line[1].id].type
  BY <1>1 DEF InLine
<1>3. \A i \in 2 .. Len(line) : IsMmio(line[i]) => line[1].id < line[i].id
  BY <1>1 DEF InLine
<1>4. line[1].id = n + 1
  <2>1. PICK i \in 1 .. Len(line) : IsMmio(line[i]) /\ line[i].id = n + 1
    BY <1>1, <1>2 DEF InLine
  <2>2. i \notin 2 .. Len(line)
    <3>. SUFFICES ASSUME i \in 2 .. Len(line) PROVE FALSE
      OBVIOUS
    <3>1. line[1].id < n + 1
      BY <1>3, <2>1
    <3>. QED  BY <1>2, <3>1
  <2>3. i = 1
    BY <1>1, <2>2
  <2>. QED  BY <2>1, <2>3
<1>5. ASSUME NEW i \in 1 .. Len(rest), IsMmio(rest[i])
      PROVE  rest[i].id \in (n + 2) .. Len(reqs) /\ rest[i].type = reqs[rest[i].id].type
  <2>1. i + 1 \in 2 .. Len(line) /\ i + 1 \in 1 .. Len(line) /\ rest[i] = line[i + 1]
    BY <1>1
  <2>2. n + 1 < rest[i].id
    BY <1>3, <1>4, <1>5, <2>1
  <2>3. rest[i].id \in (n + 1) .. Len(reqs) /\ rest[i].type = reqs[rest[i].id].type
    BY <1>5, <2>1 DEF InLine
  <2>. QED  BY <1>1, <2>2, <2>3
<1>6. ASSUME NEW i \in 1 .. Len(rest), NEW j \in 1 .. Len(rest), i < j,
             IsMmio(rest[i]), IsMmio(rest[j])
      PROVE  rest[i].id < rest[j].id
  <2>1. i + 1 < j + 1 /\ i + 1 \in 1 .. Len(line) /\ j + 1 \in 1 .. Len(line)
    BY <1>1, <1>6
  <2>2. rest[i] = line[i + 1] /\ rest[j] = line[j + 1]
    BY <1>1
  <2>. QED  BY <1>6, <2>1, <2>2 DEF InLine
<1>7. ASSUME NEW k \in (n + 2) .. Len(reqs)
      PROVE  \E i \in 1 .. Len(rest) : IsMmio(rest[i]) /\ rest[i].id = k
  <2>1. PICK i \in 1 .. Len(line) : IsMmio(line[i]) /\ line[i].id = k
    <3>1. k \in (n + 1) .. Len(reqs)
      BY <1>1
    <3>. QED  BY <3>1 DEF InLine
  <2>2. i # 1
    BY <1>4, <2>1
  <2>3. i - 1 \in 1 .. Len(rest) /\ (i - 1) + 1 = i
    BY <1>1, <2>2
  <2>4. rest[i - 1] = line[i]
    BY <1>1, <2>3
  <2>. QED  BY <2>1, <2>3, <2>4
<1>8. InLine(rest, n + 1, reqs)
  <2>1. (n + 1) + 1 = n + 2
    OBVIOUS
  <2>. QED  BY <1>5, <1>6, <1>7, <2>1 DEF InLine
<1>9. line[1].type = reqs[n + 1].type /\ n + 1 <= Len(reqs)
  BY <1>1, <1>2, <1>4
<1>. QED  BY <1>4, <1>8, <1>9 DEF rest
\* What is coming is a sequence of messages.
LEMMA ComingType ==
  ASSUME TypeOK
  PROVE  /\ Coming \in Seq(Messages(H2DTypes))
         /\ Len(Coming) = Len(h2d) + Len(hOut)
         /\ \A i \in 1 .. Len(h2d) + Len(hOut) :
              Coming[i] = IF i <= Len(h2d) THEN h2d[i] ELSE hOut[i - Len(h2d)]
BY ConcatProperties DEF TypeOK, Coming

\* A message the host is about to send is the last one coming.
LEMMA ComingMore ==
  ASSUME TypeOK, hOut = <<>>, UNCHANGED h2d,
         NEW m \in Messages(H2DTypes), hOut' = <<m>>
  PROVE  Coming' = Append(Coming, m)
<1>1. h2d \in Seq(Messages(H2DTypes))
  BY DEF TypeOK
<1>2. Coming = h2d
  BY <1>1, ConcatEmptySeq DEF Coming
<1>3. Coming' = h2d \o <<m>>
  BY DEF Coming
<1>. QED  BY <1>1, <1>2, <1>3, AppendIsConcat

\* It stays that when it is sent.
LEMMA ComingSent ==
  ASSUME TypeOK, hOut # <<>>, h2d' = Append(h2d, Head(hOut)), hOut' = <<>>
  PROVE  Coming' = Coming
<1>. DEFINE m == Head(hOut)
<1>0. Len(hOut) \in Nat /\ Len(hOut) # 0 /\ Len(hOut) <= 1
  BY EmptySeq, LenProperties DEF TypeOK
<1>1. /\ h2d \in Seq(Messages(H2DTypes)) /\ hOut \in Seq(Messages(H2DTypes))
      /\ m \in Messages(H2DTypes) /\ m = hOut[1]
  BY HeadType DEF TypeOK
<1>. HIDE DEF m
<1>2. hOut = <<m>>
  <2>1. <<m>> \in Seq(Messages(H2DTypes)) /\ Len(<<m>>) = 1
    BY <1>1, SingletonType
  <2>2. Len(hOut) = 1
    <3>1. \A n \in Nat : n # 0 /\ n <= 1 => n = 1
      OBVIOUS
    <3>. QED  BY <1>0, <3>1
  <2>3. \A i \in 1 .. Len(hOut) : hOut[i] = <<m>>[i]
    BY <1>1, <2>2
  <2>. QED  BY <1>1, <2>1, <2>2, <2>3, SeqEqual
<1>3. h2d' = h2d \o <<m>>
  BY <1>1, AppendIsConcat DEF m
<1>4. h2d \o <<m>> \in Seq(Messages(H2DTypes))
  BY <1>1, <1>2, ConcatProperties
<1>5. Coming' = (h2d \o <<m>>) \o <<>>
  BY <1>3 DEF Coming
<1>6. (h2d \o <<m>>) \o <<>> = h2d \o <<m>>
  BY <1>4, ConcatEmptySeq
<1>. QED  BY <1>2, <1>5, <1>6 DEF Coming

\* The adapter polls the first of what is coming.
LEMMA ComingPolled ==
  ASSUME TypeOK, h2d # <<>>, h2d' = Tail(h2d), UNCHANGED hOut
  PROVE  /\ Coming # <<>> /\ Coming[1] = Head(h2d)
         /\ Coming' = Tail(Coming)
<1>. DEFINE T == Messages(H2DTypes)
<1>1. /\ h2d \in Seq(T) /\ hOut \in Seq(T) /\ Tail(h2d) \in Seq(T)
      /\ Len(Tail(h2d)) = Len(h2d) - 1 /\ Head(h2d) = h2d[1]
      /\ \A i \in 1 .. Len(Tail(h2d)) : Tail(h2d)[i] = h2d[i + 1]
  BY HeadType DEF TypeOK
<1>2. Len(h2d) \in Nat /\ Len(hOut) \in Nat /\ Len(h2d) >= 1
  BY <1>1, LenProperties, EmptySeq
<1>3. /\ Coming \in Seq(T) /\ Len(Coming) = Len(h2d) + Len(hOut)
      /\ \A i \in 1 .. Len(h2d) + Len(hOut) :
           Coming[i] = IF i <= Len(h2d) THEN h2d[i] ELSE hOut[i - Len(h2d)]
  BY ComingType
<1>4. Coming # <<>> /\ Coming[1] = Head(h2d)
  BY <1>1, <1>2, <1>3, EmptySeq
<1>5. /\ Tail(Coming) \in Seq(T) /\ Len(Tail(Coming)) = Len(Coming) - 1
      /\ \A i \in 1 .. Len(Tail(Coming)) : Tail(Coming)[i] = Coming[i + 1]
  BY <1>3, <1>4, HeadType
<1>. DEFINE rest == Tail(h2d)
            after == rest \o hOut
            want == Tail(Coming)
<1>6. /\ after \in Seq(T) /\ Len(after) = Len(rest) + Len(hOut)
      /\ \A i \in 1 .. Len(rest) + Len(hOut) :
           after[i] = IF i <= Len(rest) THEN rest[i] ELSE hOut[i - Len(rest)]
  BY <1>1, ConcatProperties
<1>7. Coming' = after
  BY DEF Coming
<1>. HIDE DEF T, rest, after, want
<1>8. after = want
  <2>1. Len(after) = Len(want) /\ want \in Seq(T) /\ after \in Seq(T)
    BY <1>1, <1>2, <1>3, <1>5, <1>6 DEF rest, want
  <2>2. ASSUME NEW i \in 1 .. Len(after) PROVE after[i] = want[i]
    <3>1. want[i] = Coming[i + 1] /\ i + 1 \in 1 .. Len(h2d) + Len(hOut)
      BY <1>2, <1>3, <1>5, <2>1 DEF want
    <3>2. CASE i <= Len(rest)
      <4>1. after[i] = h2d[i + 1] /\ i + 1 <= Len(h2d)
        BY <1>1, <1>2, <1>6, <3>2 DEF rest
      <4>. QED  BY <1>3, <3>1, <4>1
    <3>3. CASE ~(i <= Len(rest))
      <4>1. after[i] = hOut[i - Len(rest)] /\ ~(i + 1 <= Len(h2d))
        BY <1>1, <1>2, <1>6, <3>3 DEF rest
      <4>2. i - Len(rest) = (i + 1) - Len(h2d)
        BY <1>1, <1>2 DEF rest
      <4>. QED  BY <1>3, <3>1, <4>1, <4>2
    <3>. QED  BY <3>2, <3>3
  <2>. QED  BY <2>1, <2>2, SeqEqual
<1>. QED  BY <1>4, <1>7, <1>8 DEF want

----------------------------------------------------------------------------
(* Lemmas about what was completed                                         *)

\* A step that sends no completion and takes none off the ring leaves the
\* requests replied to as they are.
LEMMA SentAside ==
  ASSUME TypeOK, NEW m \in Messages(D2HTypes), m.type \notin CompTypes,
         d2h' = Append(d2h, m), UNCHANGED answered, NEW id
  PROVE  Replied(id)' <=> Replied(id)
<1>1. /\ Len(d2h') = Len(d2h) + 1 /\ Len(d2h) \in Nat
      /\ \A i \in 1 .. Len(d2h) : d2h'[i] = d2h[i]
      /\ d2h'[Len(d2h) + 1] = m
  BY AppendProperties, LenProperties DEF TypeOK
<1>2. ASSUME NEW i \in 1 .. Len(d2h'), d2h'[i].type \in CompTypes
      PROVE  i \in 1 .. Len(d2h) /\ d2h'[i] = d2h[i]
  BY <1>1, <1>2
<1>3. \A i \in 1 .. Len(d2h) : i \in 1 .. Len(d2h') /\ d2h'[i] = d2h[i]
  BY <1>1
<1>4. Completed(id)' => Completed(id)
  BY <1>2 DEF Completed
<1>5. Completed(id) => Completed(id)'
  BY <1>3 DEF Completed
<1>. QED  BY <1>4, <1>5 DEF Replied

\* The slot that was held is filled: a completion in it replies to its
\* request, a request for a chunk to nothing.
LEMMA SentHeld ==
  ASSUME TypeOK, SlotInv, NEW from \in SendPcs, NEW to, NEW type \in D2HTypes,
         NEW no \in Nat, NEW at,
         at.bar \in Nat, at.offset \in Nat, at.len \in Nat,
         SendPcieOut(from, to, type, no, at), UNCHANGED answered, NEW id
  PROVE  Replied(id)' <=> Replied(id) \/ (type \in CompTypes /\ id = no)
<1>1. d2h \in Seq(Messages(D2HTypes)) /\ d2h # <<>> /\ d2h[Len(d2h)].type = "held"
  BY DEF TypeOK, SlotInv, SendPcieOut
<1>2. Len(d2h) \in Nat /\ Len(d2h) \in 1 .. Len(d2h)
  BY <1>1, LenProperties, EmptySeq
<1>. DEFINE msg == [type |-> type, ts |-> d2h[Len(d2h)].ts, id |-> no,
                    bar |-> at.bar, offset |-> at.offset, len |-> at.len]
<1>3. d2h[Len(d2h)] \in Messages(D2HTypes)
  BY <1>1, <1>2, ElementOfSeq
<1>4. msg \in Messages(D2HTypes) /\ msg.type = type /\ msg.id = no
  BY <1>3 DEF Messages
<1>5. d2h' = [d2h EXCEPT ![Len(d2h)] = msg]
  BY DEF SendPcieOut
<1>6. /\ Len(d2h') = Len(d2h)
      /\ \A i \in 1 .. Len(d2h) : d2h'[i] = IF i = Len(d2h) THEN msg ELSE d2h[i]
  <2>. HIDE DEF msg
  <2>. QED  BY <1>1, <1>2, <1>4, <1>5, ExceptSeq
<1>. HIDE DEF msg
<1>7. ASSUME Completed(id)' PROVE Completed(id) \/ (type \in CompTypes /\ id = no)
  BY <1>4, <1>6, <1>7 DEF Completed
<1>8. ASSUME Completed(id) PROVE Completed(id)'
  <2>1. PICK i \in 1 .. Len(d2h) : d2h[i].type \in CompTypes /\ d2h[i].id = id
    BY <1>8 DEF Completed
  <2>2. i # Len(d2h)
    BY <1>1, <2>1 DEF CompTypes
  <2>3. i \in 1 .. Len(d2h') /\ d2h'[i] = d2h[i]
    BY <1>6, <2>2
  <2>. QED  BY <2>1, <2>3 DEF Completed
<1>9. ASSUME type \in CompTypes, id = no PROVE Completed(id)'
  <2>1. Len(d2h) \in 1 .. Len(d2h') /\ d2h'[Len(d2h)] = msg
    BY <1>2, <1>6
  <2>. QED  BY <1>4, <1>9, <2>1 DEF Completed
<1>. QED  BY <1>7, <1>8, <1>9 DEF Replied

\* A completion that the host takes off the ring has been replied to before,
\* and has been answered after.
LEMMA TakenOff ==
  ASSUME TypeOK, HostPoll, NEW id
  PROVE  Replied(id)' <=> Replied(id)
<1>. DEFINE m == Head(d2h)
<1>1. d2h # <<>> /\ d2h' = Tail(d2h)
  BY DEF HostPoll, Pollable, Visible
<1>2. answered' = IF m.type \in CompTypes THEN answered \cup {m.id} ELSE answered
  BY DEF HostPoll
<1>3. /\ m = d2h[1] /\ Len(d2h') = Len(d2h) - 1 /\ Len(d2h) \in Nat
      /\ \A i \in 1 .. Len(d2h') : d2h'[i] = d2h[i + 1]
      /\ 1 \in 1 .. Len(d2h)
  BY <1>1, HeadType, LenProperties, EmptySeq DEF TypeOK
<1>. HIDE DEF m
<1>4. ASSUME Completed(id)' PROVE Completed(id)
  <2>1. PICK i \in 1 .. Len(d2h') : d2h'[i].type \in CompTypes /\ d2h'[i].id = id
    BY <1>4 DEF Completed
  <2>2. i + 1 \in 1 .. Len(d2h) /\ d2h[i + 1] = d2h'[i]
    BY <1>3
  <2>. QED  BY <2>1, <2>2 DEF Completed
<1>5. ASSUME Completed(id)
      PROVE  Completed(id)' \/ (m.type \in CompTypes /\ m.id = id)
  <2>1. PICK i \in 1 .. Len(d2h) : d2h[i].type \in CompTypes /\ d2h[i].id = id
    BY <1>5 DEF Completed
  <2>2. CASE i = 1
    BY <1>3, <2>1, <2>2
  <2>3. CASE i # 1
    <3>1. i - 1 \in 1 .. Len(d2h') /\ (i - 1) + 1 = i
      BY <1>3, <2>3
    <3>2. d2h'[i - 1] = d2h[i]
      BY <1>3, <3>1
    <3>. QED  BY <2>1, <3>1, <3>2 DEF Completed
  <2>. QED  BY <2>2, <2>3
<1>6. m.type \in CompTypes => Completed(m.id)
  BY <1>3 DEF Completed
<1>. QED  BY <1>2, <1>4, <1>5, <1>6 DEF Replied
----------------------------------------------------------------------------
(* Steps the endpoint does not notice                                      *)

\* What PcieEndpoint calls replied, in the words of the refinement.
RepliedIds ==
  answered \cup {d2h[i].id : i \in {j \in 1 .. Len(d2h) : d2h[j].type \in CompTypes}}

\* They are the requests replied to.
LEMMA RepliedIdsMeaning ==
  \A id : id \in RepliedIds <=> Replied(id)
BY DEF RepliedIds, Replied, Completed

\* A step of the endpoint, or none.
EndpointStep == [Endpoint!EndpointNext]_Endpoint!endpointVars

RepliesKept == \A id : Replied(id)' <=> Replied(id)

\* Replying to the same requests is replying to the same set of them.
LEMMA RepliedIdsKept ==
  ASSUME RepliesKept
  PROVE  RepliedIds' = RepliedIds
<1>1. \A id : id \in RepliedIds' <=> Replied(id)'
  BY DEF RepliedIds, Replied, Completed
<1>. QED  BY <1>1, RepliedIdsMeaning DEF RepliesKept

\* The request in r is worked on until it is replied to, unless it is posted.
WorkKept ==
  /\ Serving' => Serving
  /\ Serving => Serving' \/ pc' = "stopped" \/ r.type = "posted"
  /\ pc = "stopped" => pc' = "stopped"
  /\ pc' \in ReplyPcs => r.type # "posted"

\* Work goes on for the same request.
LEMMA ReplyFramed ==
  ASSUME ProtocolInv, EndpointInv, UNCHANGED r, RepliesKept, WorkKept,
         \A id \in 1 .. r.id : issued'[id] = issued[id]
  PROVE  ReplyInv'
<1>1. r.id \in Nat
  BY DEF ProtocolInv, TypeOK, MmioReqs
<1>2. (\A id \in Nat : Replied(id) => id \in 1 .. r.id)'
  BY DEF EndpointInv, ReplyInv, RepliesKept
<1>3. ASSUME NEW id \in 1 .. r.id, issued[id].type # "posted"
      PROVE  Replied(id) \/ (id = r.id /\ (Serving' \/ pc' = "stopped"))
  <2>1. CASE Replied(id)
    BY <2>1
  <2>2. CASE id = r.id /\ pc = "stopped"
    BY <2>2 DEF WorkKept
  <2>3. CASE id = r.id /\ Serving
    <3>1. r.type # "posted"
      BY <1>1, <1>3, <2>3 DEF EndpointInv, OrderInv
    <3>. QED  BY <2>3, <3>1 DEF WorkKept
  <2>. QED  BY <1>3, <2>1, <2>2, <2>3 DEF EndpointInv, ReplyInv
<1>4. (Serving => r.id > 0 /\ ~Replied(r.id))'
  BY DEF EndpointInv, ReplyInv, RepliesKept, WorkKept
<1>5. (pc \in ReplyPcs => r.type # "posted")'
  BY DEF WorkKept
<1>6. (\A id \in 1 .. r.id :
         issued[id].type # "posted" =>
           Replied(id) \/ (id = r.id /\ (Serving \/ pc = "stopped")))'
  BY <1>3 DEF RepliesKept
<1>. QED  BY <1>2, <1>4, <1>5, <1>6 DEF ReplyInv

\* What is coming stays in line when it does not change.
LEMMA OrderFramed ==
  ASSUME OrderInv, UNCHANGED <<mmioQ, r, issued>>, Coming' = Coming
  PROVE  OrderInv'
BY DEF OrderInv, InLine

\* The endpoint notices nothing.
LEMMA Unnoticed ==
  ASSUME ProtocolInv, EndpointInv, OrderInv', UNCHANGED <<r, issued>>,
         RepliesKept, WorkKept
  PROVE  EndpointInv' /\ EndpointStep
<1>1. ReplyInv'
  BY ReplyFramed
<1>2. RepliedIds' = RepliedIds
  BY RepliedIdsKept
<1>3. UNCHANGED Endpoint!endpointVars
  BY <1>2 DEF Endpoint!endpointVars, RepliedIds
<1>. QED  BY <1>1, <1>3 DEF EndpointInv, EndpointStep

\* Nor when no ring changes that carries a request or a completion.
LEMMA UnnoticedInside ==
  ASSUME ProtocolInv, EndpointInv, WorkKept,
         UNCHANGED <<h2d, d2h, hOut, mmioQ, r, issued, answered>>
  PROVE  EndpointInv' /\ EndpointStep
<1>1. OrderInv'
  BY OrderFramed DEF EndpointInv, Coming
<1>2. RepliesKept
  BY DEF RepliesKept, Replied, Completed
<1>. QED  BY <1>1, <1>2, Unnoticed

\* Nor when the adapter sends something else.
LEMMA UnnoticedSend ==
  ASSUME ProtocolInv, EndpointInv, WorkKept,
         NEW m \in Messages(D2HTypes), m.type \notin CompTypes,
         d2h' = Append(d2h, m),
         UNCHANGED <<h2d, hOut, mmioQ, r, issued, answered>>
  PROVE  EndpointInv' /\ EndpointStep
<1>1. OrderInv'
  BY OrderFramed DEF EndpointInv, Coming
<1>2. RepliesKept
  BY SentAside DEF RepliesKept, ProtocolInv
<1>. QED  BY <1>1, <1>2, Unnoticed
----------------------------------------------------------------------------
(* The steps of the adapter                                                *)

\* The steps that neither take a request nor send a completion.
Inside ==
  \/ PollPcieAllEnds \/ MmioReturns \/ DrainEnds \/ WaitForPeer
  \/ JumpToDeadline \/ RunClocks \/ ClockReturns \/ LoopTail
  \/ PollOversize \/ DmaChunkDone \/ DmaCut \/ DrainOverrun \/ DmaPumpAdvance
  \/ \E kind \in {"read", "write"}, size \in DmaSizes : LibDma(kind, size)

\* They are nothing to the endpoint.
LEMMA InsideOrder ==
  ASSUME ProtocolInv, EndpointInv, UNCHANGED hostVars, Inside
  PROVE  EndpointInv' /\ EndpointStep
<1>1. UNCHANGED <<h2d, d2h, mmioQ, r>>
  BY DEF Inside, PollPcieAllEnds, MmioReturns, DrainEnds, WaitForPeer,
     JumpToDeadline, RunClocks, ClockReturns, LoopTail, PollOversize,
     DmaChunkDone, DmaCut, DrainOverrun, DmaPumpAdvance, LibDma, Exit, linkVars,
     mmioVars
<1>2. WorkKept
  <2>1. CASE MmioReturns
    <3>1. call = "mmio" /\ call' = "none" /\ pc' = NextOf(r) /\ pc = "lib"
      BY <2>1 DEF MmioReturns
    <3>2. CASE r.type = "posted"
      BY <3>1, <3>2 DEF WorkKept, Serving, NextOf, ReplyPcs
    <3>3. CASE r.type # "posted"
      BY <3>1, <3>3 DEF WorkKept, Serving, NextOf, ReplyPcs
    <3>. QED  BY <3>2, <3>3
  <2>2. CASE PollOversize \/ DmaCut \/ DrainOverrun
    <3>1. pc' = "stopped" /\ UNCHANGED call
      BY <2>2 DEF PollOversize, DmaCut, DrainOverrun, Exit, libVars
    <3>. QED  BY <3>1 DEF WorkKept, Serving, ReplyPcs
  <2>3. CASE LoopTail
    <3>1. pc = "tail" /\ pc' \in {"sync", "stopped"} /\ UNCHANGED call
      BY <2>3 DEF LoopTail, libVars
    <3>. QED  BY <3>1 DEF WorkKept, Serving, ReplyPcs
  <2>4. CASE RunClocks \/ ClockReturns
    <3>1. /\ pc \in {"clock", "lib"} /\ pc' \in {"lib", "tail"}
          /\ call # "mmio" /\ call' # "mmio"
      BY <2>4 DEF RunClocks, ClockReturns, ProtocolInv, CallInv, LoopPcs
    <3>. QED  BY <3>1 DEF WorkKept, Serving, ReplyPcs
  <2>5. CASE PollPcieAllEnds \/ DrainEnds \/ WaitForPeer \/ JumpToDeadline
    <3>1. /\ pc \in {"poll", "drain", "clock"} /\ pc' \in {"drain", "clock", "tail"}
          /\ UNCHANGED call
      BY <2>5 DEF PollPcieAllEnds, PolledDry, DrainEnds, WaitForPeer,
         JumpToDeadline, libVars
    <3>. QED  BY <3>1 DEF WorkKept, Serving, ReplyPcs
  <2>6. CASE \/ DmaChunkDone \/ DmaPumpAdvance
             \/ \E kind \in {"read", "write"}, size \in DmaSizes : LibDma(kind, size)
    <3>1. /\ pc \in {"lib", "pumpPoll"} /\ pc' \in {"dmaAlloc", "lib", "pumpSync"}
          /\ UNCHANGED call
      BY <2>6 DEF DmaChunkDone, DmaPumpAdvance, PolledDry, LibDma, libVars
    <3>. QED  BY <3>1 DEF WorkKept, Serving, ReplyPcs
  <2>. QED  BY <2>1, <2>2, <2>3, <2>4, <2>5, <2>6 DEF Inside
<1>. QED  BY <1>1, <1>2, UnnoticedInside DEF hostVars

\* Neither are the syncs.
LEMMA OutSyncOrder ==
  ASSUME ProtocolInv, EndpointInv, UNCHANGED hostVars,
         NEW from, NEW to, OutSync(from, to),
         <<from, to>> \in {<<"sync", "poll">>, <<"pumpSync", "pumpPoll">>}
  PROVE  EndpointInv' /\ EndpointStep
<1>. DEFINE m == Plain("sync", mainTime)
<1>1. m \in Messages(D2HTypes) /\ m.type \notin CompTypes
  BY PlainType DEF ProtocolInv, TypeOK, D2HTypes, Plain, CompTypes
<1>2. WorkKept
  BY DEF OutSync, WorkKept, Serving, ReplyPcs, libVars
<1>3. d2h' = Append(d2h, m) \/ UNCHANGED d2h
  BY DEF OutSync
<1>4. UNCHANGED <<h2d, mmioQ, r>>
  BY DEF OutSync, mmioVars
<1>. HIDE DEF m
<1>5. CASE d2h' = Append(d2h, m)
  BY <1>1, <1>2, <1>4, <1>5, UnnoticedSend DEF hostVars
<1>6. CASE UNCHANGED d2h
  BY <1>2, <1>4, <1>6, UnnoticedInside DEF hostVars
<1>. QED  BY <1>3, <1>5, <1>6

\* A slot that was only allocated completes nothing yet.
LEMMA AllocOrder ==
  ASSUME ProtocolInv, EndpointInv, UNCHANGED hostVars,
         NEW from, NEW to, AllocPcieOut(from, to),
         <<from, to>> \in {<<"dmaAlloc", "dmaSend">>,
                           <<"replyAlloc", "replySend">>}
  PROVE  EndpointInv' /\ EndpointStep
<1>. DEFINE m == Plain("held", mainTime)
<1>1. m \in Messages(D2HTypes) /\ m.type \notin CompTypes
  BY PlainType DEF ProtocolInv, TypeOK, D2HTypes, Plain, CompTypes
<1>2. WorkKept
  <2>1. pc = from /\ pc' \in {to, "stopped"} /\ UNCHANGED call
    BY DEF AllocPcieOut, Exit, libVars
  <2>2. pc \in ReplyPcs => r.type # "posted"
    BY DEF EndpointInv, ReplyInv
  <2>. QED  BY <2>1, <2>2 DEF WorkKept, Serving, ReplyPcs
<1>3. d2h' = Append(d2h, m) \/ UNCHANGED d2h
  BY DEF AllocPcieOut, Exit, linkVars
<1>4. UNCHANGED <<h2d, mmioQ, r>>
  BY DEF AllocPcieOut, Exit, linkVars, mmioVars
<1>. HIDE DEF m
<1>5. CASE d2h' = Append(d2h, m)
  BY <1>1, <1>2, <1>4, <1>5, UnnoticedSend DEF hostVars
<1>6. CASE UNCHANGED d2h
  BY <1>2, <1>4, <1>6, UnnoticedInside DEF hostVars
<1>. QED  BY <1>3, <1>5, <1>6

\* A request for a chunk completes nothing.
LEMMA DmaSendOrder ==
  ASSUME ProtocolInv, EndpointInv, UNCHANGED hostVars, DmaSend
  PROVE  EndpointInv' /\ EndpointStep
<1>1. dma.no \in Nat /\ dma.off \in Nat /\ dma.kind \in D2HTypes \ CompTypes
  BY DEF ProtocolInv, TypeOK, Dmas, D2HTypes, CompTypes
<1>2. Chunk \in Nat
  BY ChunkType DEF ProtocolInv, TypeOK
<1>. DEFINE at == [bar |-> 0, offset |-> dma.off, len |-> Chunk]
<1>3. /\ at.bar \in Nat /\ at.offset \in Nat /\ at.len \in Nat
      /\ SendPcieOut("dmaSend", "pumpSync", dma.kind, dma.no, at)
  BY <1>1, <1>2 DEF DmaSend
<1>. HIDE DEF at
<1>4. RepliesKept
  <2>1. "dmaSend" \in SendPcs /\ UNCHANGED answered
    BY DEF SendPcs, hostVars
  <2>2. \A id : Replied(id)' <=> Replied(id) \/ (dma.kind \in CompTypes /\ id = dma.no)
    BY <1>1, <1>3, <2>1, SentHeld DEF ProtocolInv
  <2>. QED  BY <1>1, <2>2 DEF RepliesKept
<1>5. UNCHANGED <<h2d, mmioQ, r, issued, hOut>>
  BY <1>3 DEF SendPcieOut, mmioVars, hostVars
<1>6. OrderInv'
  BY <1>5, OrderFramed DEF EndpointInv, Coming
<1>7. WorkKept
  BY <1>3 DEF SendPcieOut, WorkKept, Serving, ReplyPcs, libVars
<1>. QED  BY <1>4, <1>5, <1>6, <1>7, Unnoticed
\* The completion of the request in r: the endpoint replies.
LEMMA ReplySendOrder ==
  ASSUME ProtocolInv, EndpointInv, UNCHANGED hostVars, ReplySend
  PROVE  EndpointInv' /\ EndpointStep
<1>. DEFINE type == IF r.type = "read" THEN "readcomp" ELSE "writecomp"
<1>1. /\ r.id \in Nat /\ r.bar \in Nat /\ r.offset \in Nat /\ r.len \in Nat
      /\ type \in D2HTypes /\ type \in CompTypes
  BY DEF ProtocolInv, TypeOK, MmioReqs, D2HTypes, CompTypes
<1>2. SendPcieOut("replySend", "drain", type, r.id, r)
  BY DEF ReplySend
<1>. HIDE DEF type
<1>3. \A id : Replied(id)' <=> Replied(id) \/ id = r.id
  <2>1. "replySend" \in SendPcs /\ UNCHANGED answered
    BY DEF SendPcs, hostVars
  <2>2. \A id : Replied(id)' <=> Replied(id) \/ (type \in CompTypes /\ id = r.id)
    BY <1>1, <1>2, <2>1, SentHeld DEF ProtocolInv
  <2>. QED  BY <1>1, <2>2
<1>4. /\ UNCHANGED <<h2d, hOut, mmioQ, r, issued, call>>
      /\ pc = "replySend" /\ pc' = "drain"
  BY <1>2 DEF SendPcieOut, mmioVars, libVars, hostVars
<1>5. call = "none" /\ Serving /\ ~Serving'
  BY <1>4 DEF ProtocolInv, CallInv, Serving, ReplyPcs
<1>6. /\ r.id > 0 /\ ~Replied(r.id) /\ r.type # "posted"
      /\ issued[r.id].type # "posted"
  BY <1>4, <1>5 DEF EndpointInv, ReplyInv, OrderInv, ReplyPcs
<1>7. OrderInv'
  BY <1>4, OrderFramed DEF EndpointInv, Coming
<1>8. ReplyInv'
  <2>1. (\A id \in Nat : Replied(id) => id \in 1 .. r.id)'
    BY <1>1, <1>3, <1>4, <1>6 DEF EndpointInv, ReplyInv
  <2>2. (\A id \in 1 .. r.id :
           issued[id].type # "posted" =>
             Replied(id) \/ (id = r.id /\ (Serving \/ pc = "stopped")))'
    BY <1>3, <1>4 DEF EndpointInv, ReplyInv
  <2>3. (pc \in ReplyPcs => r.type # "posted")'
    BY <1>4 DEF ReplyPcs
  <2>. QED  BY <1>5, <2>1, <2>2, <2>3 DEF ReplyInv
<1>9. RepliedIds' = RepliedIds \cup {r.id}
  <2>1. \A id : id \in RepliedIds' <=> Replied(id)'
    BY DEF RepliedIds, Replied, Completed
  <2>. QED  BY <1>3, <2>1, RepliedIdsMeaning
<1>10. r.id \in Endpoint!Awaited(r.id) /\ r.id \notin RepliedIds
  BY <1>1, <1>6, RepliedIdsMeaning DEF Endpoint!Awaited
<1>11. Endpoint!Reply
  BY <1>4, <1>9, <1>10 DEF Endpoint!Reply, RepliedIds
<1>. QED  BY <1>7, <1>8, <1>11 DEF EndpointInv, EndpointStep, Endpoint!EndpointNext

\* A message that is no request leaves the line when it is polled.
LEMMA PollOtherOrder ==
  ASSUME ProtocolInv, EndpointInv, UNCHANGED hostVars, PollCompletion \/ PollControl
  PROVE  EndpointInv' /\ EndpointStep
<1>1. h2d # <<>> /\ h2d' = Tail(h2d) /\ Head(h2d).type \notin MmioTypes
  BY DEF PollCompletion, PollControl, Polling, Pollable, Visible, Consume,
     CompTypes, MmioTypes
<1>2. UNCHANGED <<pc, call, d2h, mmioQ, r, issued, hOut, answered>>
  BY DEF PollCompletion, PollControl, Consume, mmioVars, libVars, hostVars
<1>3. /\ Coming # <<>> /\ ~IsMmio(Coming[1]) /\ Coming' = Tail(Coming)
      /\ Coming \in Seq(Messages(H2DTypes))
  BY <1>1, <1>2, ComingPolled, ComingType DEF ProtocolInv, IsMmio
<1>4. InLine(Tail(Coming), r.id + Len(mmioQ), issued)
  BY <1>3, InLineSkip DEF EndpointInv, OrderInv
<1>5. OrderInv'
  BY <1>2, <1>3, <1>4 DEF EndpointInv, OrderInv, InLine
<1>6. RepliesKept
  BY <1>2 DEF RepliesKept, Replied, Completed
<1>7. WorkKept
  BY <1>2 DEF WorkKept, Serving, EndpointInv, ReplyInv
<1>. QED  BY <1>2, <1>5, <1>6, <1>7, Unnoticed

\* A request that is polled is the next one, and goes to the end of mmioQ.
LEMMA PollMmioOrder ==
  ASSUME ProtocolInv, EndpointInv, UNCHANGED hostVars, PollMmio
  PROVE  EndpointInv' /\ EndpointStep
<1>. DEFINE m == Head(h2d)
            q == [type |-> m.type, id |-> m.id, bar |-> m.bar,
                  offset |-> m.offset, len |-> m.len]
            n == r.id + Len(mmioQ)
<1>1. h2d # <<>> /\ h2d' = Tail(h2d) /\ IsMmio(m)
  BY DEF PollMmio, Polling, Pollable, Visible, Consume, IsMmio
<1>2. UNCHANGED <<pc, call, d2h, r, issued, hOut, answered>>
  BY DEF PollMmio, Consume, libVars, hostVars
<1>3. m \in Messages(H2DTypes)
  BY <1>1, HeadType DEF ProtocolInv, TypeOK
<1>4. q \in MmioReqs /\ q.id = m.id /\ q.type = m.type
  BY <1>1, <1>3 DEF MmioReqs, Messages, IsMmio
<1>5. mmioQ' = Append(mmioQ, q)
  BY DEF PollMmio
<1>6. /\ Coming # <<>> /\ Coming[1] = m /\ Coming' = Tail(Coming)
      /\ Coming \in Seq(Messages(H2DTypes))
  BY <1>1, <1>2, ComingPolled, ComingType DEF ProtocolInv
<1>. HIDE DEF m, q
<1>7. /\ Len(mmioQ') = Len(mmioQ) + 1 /\ Len(mmioQ) \in Nat
      /\ \A i \in 1 .. Len(mmioQ) : mmioQ'[i] = mmioQ[i]
      /\ mmioQ'[Len(mmioQ) + 1] = q
  BY <1>4, <1>5, AppendProperties, LenProperties DEF ProtocolInv, TypeOK
<1>8. r.id \in Nat /\ n \in Nat
  BY <1>7 DEF ProtocolInv, TypeOK, MmioReqs
<1>9. issued \in Seq([type : MmioTypes, bar : Nat, offset : Nat, len : Nat])
  BY DEF ProtocolInv, TypeOK
<1>10. InLine(Coming, n, issued)
  BY DEF EndpointInv, OrderInv
<1>11. IsMmio(Coming[1]) /\ n = r.id + Len(mmioQ)
  BY <1>1, <1>6
<1>. HIDE DEF n
<1>12. /\ m.id = n + 1 /\ n + 1 <= Len(issued)
       /\ m.type = issued[n + 1].type
       /\ InLine(Tail(Coming), n + 1, issued)
  BY <1>6, <1>8, <1>9, <1>10, <1>11, InLineTake
<1>13. OrderInv'
  <2>1. r.id + Len(mmioQ') = n + 1
    BY <1>7, <1>8 DEF n
  <2>2. InLine(Coming', r.id + Len(mmioQ'), issued)
    BY <1>6, <1>12, <2>1
  <2>3. ASSUME NEW i \in 1 .. Len(mmioQ')
        PROVE  mmioQ'[i].id = r.id + i /\ mmioQ'[i].type = issued[r.id + i].type
    <3>1. CASE i \in 1 .. Len(mmioQ)
      BY <1>7, <3>1 DEF EndpointInv, OrderInv
    <3>2. CASE i = Len(mmioQ) + 1
      <4>1. r.id + i = n + 1
        BY <1>7, <1>8, <1>11, <3>2
      <4>2. mmioQ'[i] = q
        BY <1>7, <3>2
      <4>. QED  BY <1>4, <1>12, <4>1, <4>2
    <3>. QED  BY <1>7, <3>1, <3>2
  <2>4. r.id + Len(mmioQ') <= Len(issued)
    BY <1>12, <2>1
  <2>5. (r.id > 0 => r.type = issued[r.id].type)'
    BY <1>2 DEF EndpointInv, OrderInv
  <2>6. InLine(Coming, r.id + Len(mmioQ), issued)'
    BY <1>2, <2>2 DEF InLine
  <2>. QED  BY <1>2, <2>3, <2>4, <2>5, <2>6 DEF OrderInv
<1>14. RepliesKept
  BY <1>2 DEF RepliesKept, Replied, Completed
<1>15. WorkKept
  BY <1>2 DEF WorkKept, Serving, EndpointInv, ReplyInv
<1>. QED  BY <1>2, <1>13, <1>14, <1>15, Unnoticed

\* The request taken off mmioQ is the one after the last: the endpoint begins.
LEMMA DrainOrder ==
  ASSUME ProtocolInv, EndpointInv, UNCHANGED hostVars, DrainRequest
  PROVE  EndpointInv' /\ EndpointStep
<1>1. /\ pc = "drain" /\ mmioQ # <<>> /\ r' = Head(mmioQ) /\ mmioQ' = Tail(mmioQ)
      /\ UNCHANGED <<h2d, d2h, hOut, issued, answered>>
  BY DEF DrainRequest, linkVars, hostVars
<1>2. /\ mmioQ \in Seq(MmioReqs) /\ r.id \in Nat
      /\ Len(issued) \in Nat
  BY LenProperties DEF ProtocolInv, TypeOK, MmioReqs
<1>3. /\ Len(mmioQ) \in Nat /\ Len(mmioQ) >= 1
      /\ r' = mmioQ[1] /\ r' \in MmioReqs
      /\ Len(mmioQ') = Len(mmioQ) - 1
      /\ \A i \in 1 .. Len(mmioQ') : mmioQ'[i] = mmioQ[i + 1]
  BY <1>1, <1>2, HeadTailProperties, LenProperties, EmptySeq
<1>4. r'.id = r.id + 1 /\ r'.type = issued[r.id + 1].type
  BY <1>3 DEF EndpointInv, OrderInv
<1>5. r.id + 1 <= Len(issued)
  BY <1>2, <1>3 DEF EndpointInv, OrderInv
<1>6. r'.id + Len(mmioQ') = r.id + Len(mmioQ)
  BY <1>2, <1>3, <1>4
<1>7. OrderInv'
  <2>1. ASSUME NEW i \in 1 .. Len(mmioQ')
        PROVE  mmioQ'[i].id = r'.id + i /\ mmioQ'[i].type = issued[r'.id + i].type
    <3>0. i + 1 \in 1 .. Len(mmioQ)
      BY <1>3
    <3>1. r.id + (i + 1) = r'.id + i
      BY <1>2, <1>4
    <3>2. mmioQ[i + 1].id = r'.id + i /\ mmioQ[i + 1].type = issued[r'.id + i].type
      BY <3>0, <3>1 DEF EndpointInv, OrderInv
    <3>. QED  BY <1>3, <3>2
  <2>2. InLine(Coming, r.id + Len(mmioQ), issued)'
    BY <1>1, <1>6 DEF EndpointInv, OrderInv, InLine, Coming
  <2>3. (r.id + Len(mmioQ) <= Len(issued))'
    BY <1>1, <1>6 DEF EndpointInv, OrderInv
  <2>4. (r.id > 0 => r.type = issued[r.id].type)'
    BY <1>1, <1>4
  <2>. QED  BY <1>1, <2>1, <2>2, <2>3, <2>4 DEF OrderInv
<1>8. RepliesKept
  BY <1>1 DEF RepliesKept, Replied, Completed
<1>9. call = "none" /\ ~Serving
  BY <1>1 DEF ProtocolInv, CallInv, LoopPcs, Serving, ReplyPcs
<1>10. \A id \in 1 .. r.id : issued[id].type # "posted" => Replied(id)
  BY <1>1, <1>9 DEF EndpointInv, ReplyInv
<1>11. pc' = "drain" => ~Serving' /\ r'.type = "posted"
  BY <1>9 DEF DrainRequest, NextOf, Serving, ReplyPcs
<1>12. /\ pc' \in {"lib", "drain", "replyAlloc"}
       /\ pc' = "lib" => call' = "mmio"
       /\ pc' = "replyAlloc" => r'.type # "posted"
  BY DEF DrainRequest, NextOf
<1>13. ~Replied(r.id + 1)
  BY <1>2 DEF EndpointInv, ReplyInv
<1>14. ReplyInv'
  <2>1. (\A id \in Nat : Replied(id) => id \in 1 .. r.id)'
    BY <1>2, <1>4, <1>8 DEF EndpointInv, ReplyInv, RepliesKept
  <2>2. ASSUME NEW id \in 1 .. r'.id, issued[id].type # "posted"
        PROVE  Replied(id)' \/ (id = r'.id /\ (Serving' \/ pc' = "stopped"))
    <3>1. CASE id \in 1 .. r.id
      BY <1>8, <1>10, <2>2, <3>1 DEF RepliesKept
    <3>2. CASE id = r.id + 1
      <4>1. r'.type # "posted"
        BY <1>4, <2>2, <3>2
      <4>2. Serving'
        BY <1>11, <1>12, <4>1 DEF Serving, ReplyPcs
      <4>. QED  BY <1>4, <3>2, <4>2
    <3>. QED  BY <1>2, <1>4, <3>1, <3>2
  <2>3. (Serving => r.id > 0 /\ ~Replied(r.id))'
    BY <1>2, <1>4, <1>8, <1>13 DEF RepliesKept
  <2>4. (pc \in ReplyPcs => r.type # "posted")'
    BY <1>12 DEF ReplyPcs
  <2>5. (\A id \in 1 .. r.id :
           issued[id].type # "posted" =>
             Replied(id) \/ (id = r.id /\ (Serving \/ pc = "stopped")))'
    BY <1>1, <2>2
  <2>. QED  BY <2>1, <2>3, <2>4, <2>5 DEF ReplyInv
<1>15. RepliedIds' = RepliedIds
  BY <1>8, RepliedIdsKept
<1>16. r.id < Len(issued)
  BY <1>2, <1>5
<1>17. Endpoint!Awaited(r.id) \subseteq RepliedIds
  BY <1>10, RepliedIdsMeaning DEF Endpoint!Awaited
<1>18. Endpoint!Begin
  BY <1>1, <1>4, <1>15, <1>16, <1>17 DEF Endpoint!Begin, RepliedIds
<1>. QED  BY <1>7, <1>14, <1>18 DEF EndpointInv, EndpointStep, Endpoint!EndpointNext
----------------------------------------------------------------------------
(* The steps of the host                                                   *)

\* The host is about to send something that is no request.
LEMMA HostOwnOrder ==
  ASSUME ProtocolInv, EndpointInv, UNCHANGED deviceVars,
         NEW m \in Messages(H2DTypes), ~IsMmio(m), hOut = <<>>, hOut' = <<m>>,
         UNCHANGED <<h2d, issued>>, RepliesKept
  PROVE  EndpointInv' /\ EndpointStep
<1>1. UNCHANGED <<pc, call, mmioQ, r>>
  BY DEF deviceVars, mmioVars, libVars
<1>2. Coming' = Append(Coming, m) /\ Coming \in Seq(Messages(H2DTypes))
  BY ComingMore, ComingType DEF ProtocolInv
<1>3. InLine(Append(Coming, m), r.id + Len(mmioQ), issued)
  BY <1>2, InLineAside DEF EndpointInv, OrderInv
<1>4. OrderInv'
  BY <1>1, <1>2, <1>3 DEF EndpointInv, OrderInv, InLine
<1>5. WorkKept
  BY <1>1 DEF WorkKept, Serving, EndpointInv, ReplyInv
<1>. QED  BY <1>1, <1>4, <1>5, Unnoticed

\* The host issues a request: so does the endpoint's.
LEMMA HostIssueOrder ==
  ASSUME ProtocolInv, EndpointInv, UNCHANGED deviceVars,
         NEW t \in Targets, HostIssue(t)
  PROVE  EndpointInv' /\ EndpointStep
<1>. DEFINE T == [type : MmioTypes, bar : Nat, offset : Nat, len : Nat]
            m == Tagged(t.type, hNow, Len(issued'), t)
            n == r.id + Len(mmioQ)
<1>1. t \in T
  BY HostAssumption DEF HostAssumption
<1>2. /\ hOut = <<>> /\ hOut' = <<m>> /\ issued' = Append(issued, t)
      /\ UNCHANGED <<h2d, d2h, answered>>
  BY DEF HostIssue, Running, linkVars
<1>3. UNCHANGED <<pc, call, mmioQ, r>>
  BY DEF deviceVars, mmioVars, libVars
<1>4. issued \in Seq(T)
  BY DEF ProtocolInv, TypeOK
<1>5. /\ Len(issued') = Len(issued) + 1 /\ Len(issued) \in Nat
      /\ \A i \in 1 .. Len(issued) : issued'[i] = issued[i]
  BY <1>1, <1>2, <1>4, AppendProperties, LenProperties
<1>6. m \in Messages(H2DTypes)
  <2>1. /\ t.type \in H2DTypes /\ Len(issued') \in Nat /\ hNow \in Nat
        /\ t.bar \in Nat /\ t.offset \in Nat /\ t.len \in Nat
    BY <1>1, <1>5 DEF ProtocolInv, TypeOK, H2DTypes
  <2>. QED  BY <2>1, TaggedType
<1>7. IsMmio(m) /\ m.id = Len(issued) + 1 /\ m.type = t.type
  BY <1>1, <1>5 DEF Tagged, IsMmio
<1>. HIDE DEF m, T
<1>8. Coming' = Append(Coming, m) /\ Coming \in Seq(Messages(H2DTypes))
  BY <1>2, <1>6, ComingMore, ComingType DEF ProtocolInv
<1>9. /\ n \in Nat /\ n <= Len(issued) /\ r.id \in Nat /\ r.id <= Len(issued)
      /\ Len(mmioQ) \in Nat
  <2>1. r.id \in Nat /\ Len(mmioQ) \in Nat
    BY LenProperties DEF ProtocolInv, TypeOK, MmioReqs
  <2>2. n <= Len(issued)
    BY DEF EndpointInv, OrderInv
  <2>. QED  BY <1>5, <2>1, <2>2
<1>10. InLine(Coming, n, issued)
  BY DEF EndpointInv, OrderInv
<1>11. n = r.id + Len(mmioQ)
  OBVIOUS
<1>. HIDE DEF n
<1>12. InLine(Append(Coming, m), n, Append(issued, t))
  BY <1>1, <1>4, <1>6, <1>7, <1>8, <1>9, <1>10, InLineIssue
<1>13. OrderInv'
  <2>1. InLine(Coming, r.id + Len(mmioQ), issued)'
    BY <1>2, <1>3, <1>8, <1>11, <1>12 DEF InLine
  <2>2. (r.id + Len(mmioQ) <= Len(issued))'
    BY <1>3, <1>5, <1>9, <1>11
  <2>3. (r.id > 0 => r.type = issued[r.id].type)'
    <3>1. r.id > 0 => r.id \in 1 .. Len(issued)
      BY <1>5, <1>9
    <3>. QED  BY <1>3, <1>5, <3>1 DEF EndpointInv, OrderInv
  <2>4. ASSUME NEW i \in 1 .. Len(mmioQ)
        PROVE  mmioQ[i].id = r.id + i /\ mmioQ[i].type = issued'[r.id + i].type
    <3>1. r.id + i \in 1 .. Len(issued)
      BY <1>5, <1>9, <1>11
    <3>. QED  BY <1>5, <3>1 DEF EndpointInv, OrderInv
  <2>. QED  BY <1>3, <2>1, <2>2, <2>3, <2>4 DEF OrderInv
<1>14. RepliesKept
  BY <1>2 DEF RepliesKept, Replied, Completed
<1>15. WorkKept
  BY <1>3 DEF WorkKept, Serving, EndpointInv, ReplyInv
<1>16. \A id \in 1 .. r.id : issued'[id] = issued[id]
  BY <1>5, <1>9
<1>17. ReplyInv'
  BY <1>3, <1>14, <1>15, <1>16, ReplyFramed
<1>18. RepliedIds' = RepliedIds
  BY <1>14, RepliedIdsKept
<1>19. Endpoint!Issue
  BY <1>2, <1>3, <1>18 DEF Endpoint!Issue, RepliedIds
<1>. QED  BY <1>13, <1>17, <1>19 DEF EndpointInv, EndpointStep, Endpoint!EndpointNext

\* The other steps of the host are nothing to the endpoint.
LEMMA HostOrder ==
  ASSUME ProtocolInv, EndpointInv, UNCHANGED deviceVars, HostNext
  PROVE  EndpointInv' /\ EndpointStep
<1>0. UNCHANGED <<pc, call, mmioQ, r>>
  BY DEF deviceVars, mmioVars, libVars
<1>1. WorkKept
  BY <1>0 DEF WorkKept, Serving, EndpointInv, ReplyInv
<1>2. CASE HostSync \/ HostTerminate
  <2>. DEFINE s == Plain("sync", hNow)
              e == Plain("terminate", hNow)
  <2>1. /\ s \in Messages(H2DTypes) /\ e \in Messages(H2DTypes)
        /\ ~IsMmio(s) /\ ~IsMmio(e)
    BY PlainType DEF ProtocolInv, TypeOK, H2DTypes, Plain, IsMmio, MmioTypes
  <2>2. /\ hOut = <<>>
        /\ hOut' = <<s>> \/ hOut' = <<e>>
        /\ UNCHANGED <<h2d, d2h, issued, answered>>
    BY <1>2 DEF HostSync, HostTerminate, Running, linkVars
  <2>3. RepliesKept
    BY <2>2 DEF RepliesKept, Replied, Completed
  <2>. HIDE DEF s, e
  <2>4. CASE hOut' = <<s>>
    BY <2>1, <2>2, <2>3, <2>4, HostOwnOrder
  <2>5. CASE hOut' = <<e>>
    BY <2>1, <2>2, <2>3, <2>5, HostOwnOrder
  <2>. QED  BY <2>2, <2>4, <2>5
<1>3. CASE \E t \in Targets : HostIssue(t)
  BY <1>3, HostIssueOrder
<1>4. CASE HostSend
  <2>1. /\ hOut # <<>> /\ h2d' = Append(h2d, Head(hOut)) /\ hOut' = <<>>
        /\ UNCHANGED <<d2h, issued, answered>>
    BY <1>4 DEF HostSend
  <2>2. Coming' = Coming
    BY <2>1, ComingSent DEF ProtocolInv
  <2>3. OrderInv'
    BY <1>0, <2>1, <2>2, OrderFramed DEF EndpointInv
  <2>4. RepliesKept
    BY <2>1 DEF RepliesKept, Replied, Completed
  <2>. QED  BY <1>0, <1>1, <2>1, <2>3, <2>4, Unnoticed
<1>5. CASE HostPoll
  <2>. DEFINE m == Head(d2h)
              rc == Tagged("readcomp", hNow, m.id, m)
              wc == Tagged("writecomp", hNow, m.id, m)
  <2>1. RepliesKept
    BY <1>5, TakenOff DEF RepliesKept, ProtocolInv
  <2>2. hOut = <<>> /\ UNCHANGED <<h2d, issued>> /\ d2h # <<>>
    BY <1>5 DEF HostPoll, Running, Pollable, Visible
  <2>3. hOut' = <<rc>> \/ hOut' = <<wc>> \/ hOut' = <<>>
    BY <1>5 DEF HostPoll
  <2>4. m \in Messages(D2HTypes)
    BY <2>2, HeadType DEF ProtocolInv, TypeOK
  <2>5. /\ rc \in Messages(H2DTypes) /\ wc \in Messages(H2DTypes)
        /\ ~IsMmio(rc) /\ ~IsMmio(wc)
    <3>. HIDE DEF m
    <3>1. m.id \in Nat /\ m.bar \in Nat /\ m.offset \in Nat /\ m.len \in Nat
      BY <2>4 DEF Messages
    <3>2. hNow \in Nat
      BY DEF ProtocolInv, TypeOK
    <3>3. rc \in Messages(H2DTypes) /\ wc \in Messages(H2DTypes)
      BY <3>1, <3>2, TaggedType DEF H2DTypes, CompTypes
    <3>4. rc.type = "readcomp" /\ wc.type = "writecomp"
      BY DEF Tagged
    <3>. HIDE DEF rc, wc
    <3>. QED  BY <3>3, <3>4 DEF IsMmio, MmioTypes
  <2>. HIDE DEF m, rc, wc
  <2>6. CASE hOut' = <<rc>>
    BY <2>1, <2>2, <2>5, <2>6, HostOwnOrder
  <2>7. CASE hOut' = <<wc>>
    BY <2>1, <2>2, <2>5, <2>7, HostOwnOrder
  <2>8. CASE hOut' = <<>>
    <3>1. OrderInv'
      BY <1>0, <2>2, <2>8, OrderFramed DEF EndpointInv, Coming
    <3>. QED  BY <1>0, <1>1, <2>1, <2>2, <3>1, Unnoticed
  <2>. QED  BY <2>3, <2>6, <2>7, <2>8
<1>6. CASE HostAdvance
  <2>1. UNCHANGED <<h2d, d2h, hOut, issued, answered>>
    BY <1>6 DEF HostAdvance, linkVars
  <2>. QED  BY <1>0, <1>1, <2>1, UnnoticedInside
<1>. QED  BY <1>2, <1>3, <1>4, <1>5, <1>6 DEF HostNext

----------------------------------------------------------------------------
(* The refinement                                                          *)

\* When the link has come up no request has been issued.
LEMMA OrderInit == Init => EndpointInv /\ Endpoint!EndpointInit
<1>. SUFFICES ASSUME Init PROVE EndpointInv /\ Endpoint!EndpointInit
  OBVIOUS
<1>1. /\ h2d = <<Plain("devctrl", 0)>> /\ d2h = <<>> /\ hOut = <<>>
      /\ mmioQ = <<>> /\ r.id = 0 /\ issued = <<>> /\ answered = {}
      /\ call = "none" /\ pc = "sync"
  BY DEF Init, LinkInit, HostInit, DeviceInit, NoReq
<1>2. Len(d2h) = 0 /\ Len(mmioQ) = 0 /\ Len(issued) = 0
  BY <1>1
<1>3. \A id : ~Replied(id)
  BY <1>1, <1>2 DEF Replied, Completed
<1>4. TypeOK
  BY ProtocolInit DEF ProtocolInv
<1>5. /\ Len(Coming) = 1 /\ Coming[1] = h2d[1]
  <2>1. Len(h2d) = 1 /\ Len(hOut) = 0
    BY <1>1
  <2>. QED  BY <1>4, <2>1, ComingType
<1>6. ~IsMmio(h2d[1])
  BY <1>1 DEF Plain, IsMmio, MmioTypes
<1>7. InLine(Coming, 0, issued)
  BY <1>2, <1>5, <1>6 DEF InLine
<1>8. OrderInv
  BY <1>1, <1>2, <1>7 DEF OrderInv
<1>9. ReplyInv
  BY <1>1, <1>3 DEF ReplyInv, Serving, ReplyPcs
<1>10. RepliedIds = {}
  BY <1>3, RepliedIdsMeaning
<1>11. Endpoint!EndpointInit
  BY <1>1, <1>10 DEF Endpoint!EndpointInit, RepliedIds
<1>. QED  BY <1>8, <1>9, <1>11 DEF EndpointInv

\* Every step is a step of the endpoint, or one it does not notice.
LEMMA OrderNext ==
  ProtocolInv /\ EndpointInv /\ [Next]_vars => EndpointInv' /\ EndpointStep
<1>. SUFFICES ASSUME ProtocolInv, EndpointInv, [Next]_vars
              PROVE  EndpointInv' /\ EndpointStep
  OBVIOUS
<1>1. CASE Device
  <2>. UNCHANGED hostVars
    BY <1>1 DEF Device
  <2>1. CASE OutSync("sync", "poll") \/ OutSync("pumpSync", "pumpPoll")
    BY <2>1, OutSyncOrder
  <2>2. CASE \/ AllocPcieOut("dmaAlloc", "dmaSend")
             \/ AllocPcieOut("replyAlloc", "replySend")
    BY <2>2, AllocOrder
  <2>3. CASE PollMmio
    BY <2>3, PollMmioOrder
  <2>4. CASE PollCompletion \/ PollControl
    BY <2>4, PollOtherOrder
  <2>5. CASE DmaSend
    BY <2>5, DmaSendOrder
  <2>6. CASE DrainRequest
    BY <2>6, DrainOrder
  <2>7. CASE ReplySend
    BY <2>7, ReplySendOrder
  <2>8. CASE Inside
    BY <2>8, InsideOrder
  <2>. QED
    BY <1>1, <2>1, <2>2, <2>3, <2>4, <2>5, <2>6, <2>7, <2>8
       DEF Device, DeviceNext, PollPcie, Inside
<1>2. CASE Host
  BY <1>2, HostOrder DEF Host
<1>3. CASE UNCHANGED vars
  <2>1. UNCHANGED <<h2d, d2h, hOut, mmioQ, r, issued, answered, pc, call>>
    BY <1>3 DEF vars, linkVars, deviceVars, mmioVars, libVars, hostVars
  <2>2. WorkKept
    BY <2>1 DEF WorkKept, Serving, EndpointInv, ReplyInv
  <2>. QED  BY <2>1, <2>2, UnnoticedInside
<1>. QED  BY <1>1, <1>2, <1>3 DEF Next, Finished

\* The device executes the requests in the order of issue, loses none, and
\* completes each that is waited for once, before it begins the next: for any
\* number of requests and of them in flight, whatever DMAs happen meanwhile.
THEOREM DeviceIsEndpoint == Spec => ImplementsEndpoint
<1>1. Init => EndpointInv /\ Endpoint!EndpointInit
  BY OrderInit
<1>2. ProtocolInv /\ EndpointInv /\ [Next]_vars
        => EndpointInv' /\ [Endpoint!EndpointNext]_Endpoint!endpointVars
  BY OrderNext DEF EndpointStep
<1>. QED
  BY <1>1, <1>2, ProtocolAlways, PTL
     DEF Spec, ImplementsEndpoint, Endpoint!EndpointSpec

\* The order invariant holds in every reachable state.
LEMMA EndpointAlways == Spec => []EndpointInv
<1>1. ProtocolInv /\ EndpointInv /\ [Next]_vars => EndpointInv'
  BY OrderNext
<1>. QED  BY <1>1, OrderInit, ProtocolAlways, PTL DEF Spec

----------------------------------------------------------------------------
(* The completions in the ring                                             *)

\* Each completion the host has yet to poll is for a request of its own that
\* is waited for, and those are as many as the host allows itself.
AwaitedInv ==
  /\ \A i \in 1 .. Len(d2h) :
       d2h[i].type \in CompTypes => d2h[i].id \in Unanswered
  /\ \A i, j \in 1 .. Len(d2h) :
       d2h[i].type \in CompTypes /\ d2h[j].type \in CompTypes
         /\ d2h[i].id = d2h[j].id => i = j
  /\ IsFiniteSet(Unanswered)
  /\ Cardinality(Unanswered) <= MaxOutstanding

\* A step that answers or issues no request, and completes none.
LEMMA AwaitedFramed ==
  ASSUME AwaitedInv, UNCHANGED <<issued, answered>>,
         NEW s \in Nat, Keeps(d2h, d2h', CompTypes, s)
  PROVE  AwaitedInv'
<1>1. Unanswered' = Unanswered
  BY DEF Unanswered
<1>2. (\A i \in 1 .. Len(d2h) :
         d2h[i].type \in CompTypes => d2h[i].id \in Unanswered)'
  BY <1>1 DEF AwaitedInv, Keeps
<1>3. ASSUME NEW i \in 1 .. Len(d2h'), NEW j \in 1 .. Len(d2h'),
             d2h'[i].type \in CompTypes, d2h'[j].type \in CompTypes,
             d2h'[i].id = d2h'[j].id
      PROVE  i = j
  <2>1. i + s = j + s
    BY <1>3 DEF AwaitedInv, Keeps
  <2>. QED  BY <2>1
<1>. QED  BY <1>1, <1>2, <1>3 DEF AwaitedInv

\* The requests that are waited for become fewer, or one more by one that the
\* host still allows itself.
LEMMA FewerAwaited ==
  ASSUME AwaitedInv, Unanswered' \subseteq Unanswered
  PROVE  IsFiniteSet(Unanswered)' /\ (Cardinality(Unanswered) <= MaxOutstanding)'
<1>1. /\ IsFiniteSet(Unanswered')
      /\ Cardinality(Unanswered') <= Cardinality(Unanswered)
  BY FS_Subset DEF AwaitedInv
<1>2. Cardinality(Unanswered) \in Nat /\ Cardinality(Unanswered') \in Nat
      /\ MaxOutstanding \in Nat
  BY <1>1, FS_CardinalityType, HostAssumption DEF AwaitedInv, HostAssumption
<1>. QED  BY <1>1, <1>2 DEF AwaitedInv

\* The host issues a request: it may be waited for as well.
LEMMA AwaitedIssue ==
  ASSUME TypeOK, AwaitedInv, NEW t \in Targets, HostIssue(t)
  PROVE  AwaitedInv'
<1>. DEFINE n == Len(issued) + 1
            T == [type : MmioTypes, bar : Nat, offset : Nat, len : Nat]
<1>1. /\ issued' = Append(issued, t) /\ UNCHANGED <<d2h, answered>>
      /\ Cardinality(Unanswered) < MaxOutstanding
  BY DEF HostIssue, linkVars
<1>2. t \in T /\ issued \in Seq(T)
  BY HostAssumption DEF HostAssumption, TypeOK
<1>. HIDE DEF T
<1>3. /\ Len(issued') = n /\ Len(issued) \in Nat
      /\ \A i \in 1 .. Len(issued) : issued'[i] = issued[i]
  BY <1>1, <1>2, AppendProperties, LenProperties
<1>4. Unanswered \subseteq Unanswered'
  BY <1>1, <1>3 DEF Unanswered
<1>5. Unanswered' \subseteq Unanswered \cup {n}
  BY <1>1, <1>3 DEF Unanswered
<1>6. IsFiniteSet(Unanswered \cup {n})
      /\ Cardinality(Unanswered \cup {n}) <= Cardinality(Unanswered) + 1
  <2>1. IsFiniteSet(Unanswered) /\ Cardinality(Unanswered) \in Nat
    BY FS_CardinalityType DEF AwaitedInv
  <2>2. /\ IsFiniteSet(Unanswered \cup {n})
        /\ Cardinality(Unanswered \cup {n}) =
             IF n \in Unanswered THEN Cardinality(Unanswered)
                                 ELSE Cardinality(Unanswered) + 1
    BY <2>1, FS_AddElement
  <2>. QED  BY <2>1, <2>2
<1>7. IsFiniteSet(Unanswered') /\ Cardinality(Unanswered') <= Cardinality(Unanswered \cup {n})
  BY <1>5, <1>6, FS_Subset
<1>8. Cardinality(Unanswered') <= MaxOutstanding
  <2>1. /\ Cardinality(Unanswered) \in Nat /\ Cardinality(Unanswered') \in Nat
        /\ Cardinality(Unanswered \cup {n}) \in Nat /\ MaxOutstanding \in Nat
    BY <1>6, <1>7, FS_CardinalityType, HostAssumption DEF AwaitedInv, HostAssumption
  <2>. QED  BY <1>1, <1>6, <1>7, <2>1
<1>. QED  BY <1>1, <1>4, <1>7, <1>8 DEF AwaitedInv

\* The host polls a message: what the ring still completes is waited for.
LEMMA AwaitedPolled ==
  ASSUME TypeOK, AwaitedInv, HostPoll
  PROVE  AwaitedInv'
<1>1. d2h # <<>> /\ d2h' = Tail(d2h) /\ UNCHANGED issued
      /\ answered' = IF Head(d2h).type \in CompTypes
                       THEN answered \cup {Head(d2h).id} ELSE answered
  BY DEF HostPoll, Pollable, Visible
<1>2. d2h \in Seq(Messages(D2HTypes)) /\ Len(d2h) \in Nat
  BY LenProperties DEF TypeOK
<1>3. Head(d2h) = d2h[1] /\ 1 \in 1 .. Len(d2h)
  BY <1>1, <1>2, HeadType, EmptySeq
<1>4. Keeps(d2h, d2h', CompTypes, 1)
  BY <1>1, <1>2, KeepsTail
<1>5. Unanswered' \subseteq Unanswered
  BY <1>1 DEF Unanswered
<1>6. ASSUME NEW i \in 1 .. Len(d2h'), d2h'[i].type \in CompTypes
      PROVE  d2h'[i].id \in Unanswered'
  <2>1. i + 1 \in 1 .. Len(d2h) /\ d2h'[i] = d2h[i + 1] /\ i + 1 # 1
    BY <1>2, <1>4, <1>6 DEF Keeps
  <2>2. d2h'[i].id \in Unanswered
    BY <1>6, <2>1 DEF AwaitedInv
  <2>3. d2h[1].type \in CompTypes => d2h'[i].id # d2h[1].id
    BY <1>3, <1>6, <2>1 DEF AwaitedInv
  <2>. QED  BY <1>1, <1>3, <2>2, <2>3 DEF Unanswered
<1>7. ASSUME NEW i \in 1 .. Len(d2h'), NEW j \in 1 .. Len(d2h'),
             d2h'[i].type \in CompTypes, d2h'[j].type \in CompTypes,
             d2h'[i].id = d2h'[j].id
      PROVE  i = j
  <2>1. i + 1 = j + 1
    BY <1>4, <1>7 DEF AwaitedInv, Keeps
  <2>. QED  BY <2>1
<1>8. IsFiniteSet(Unanswered)' /\ (Cardinality(Unanswered) <= MaxOutstanding)'
  BY <1>5, FewerAwaited
<1>. QED  BY <1>6, <1>7, <1>8 DEF AwaitedInv

\* A slot that is filled is the last, and the others are kept.
LEMMA FilledSlot ==
  ASSUME TypeOK, SlotInv, NEW from \in SendPcs, NEW to,
         NEW type \in D2HTypes, NEW id \in Nat, NEW at,
         at.bar \in Nat, at.offset \in Nat, at.len \in Nat,
         SendPcieOut(from, to, type, id, at)
  PROVE  /\ Len(d2h') = Len(d2h) /\ Len(d2h) \in Nat /\ Len(d2h) \in 1 .. Len(d2h)
         /\ \A i \in 1 .. Len(d2h) : i # Len(d2h) => d2h'[i] = d2h[i]
         /\ d2h'[Len(d2h)].type = type /\ d2h'[Len(d2h)].id = id
         /\ \A types : type \notin types => Keeps(d2h, d2h', types, 0)
<1>1. d2h \in Seq(Messages(D2HTypes)) /\ d2h # <<>>
  BY DEF TypeOK, SlotInv, SendPcieOut
<1>2. d2h' = [d2h EXCEPT ![Len(d2h)] =
               [type |-> type, ts |-> @.ts, id |-> id,
                bar |-> at.bar, offset |-> at.offset, len |-> at.len]]
  BY DEF SendPcieOut
<1>3. /\ Len(d2h') = Len(d2h) /\ d2h'[Len(d2h)].type = type
      /\ \A i \in 1 .. Len(d2h) : i # Len(d2h) => d2h'[i] = d2h[i]
  BY <1>1, <1>2, FillLast
<1>4. Len(d2h) \in Nat /\ Len(d2h) \in 1 .. Len(d2h) /\ DOMAIN d2h = 1 .. Len(d2h)
  BY <1>1, LenProperties, EmptySeq
<1>5. d2h'[Len(d2h)].id = id
  BY <1>2, <1>4
<1>6. ASSUME NEW types, type \notin types PROVE Keeps(d2h, d2h', types, 0)
  BY <1>3, <1>4, <1>6 DEF Keeps
<1>. QED  BY <1>3, <1>4, <1>5, <1>6

\* The completion of the request in r is the only one for it.
LEMMA AwaitedReply ==
  ASSUME ProtocolInv, EndpointInv, AwaitedInv, UNCHANGED hostVars, ReplySend
  PROVE  AwaitedInv'
<1>. DEFINE type == IF r.type = "read" THEN "readcomp" ELSE "writecomp"
<1>1. /\ r.id \in Nat /\ r.bar \in Nat /\ r.offset \in Nat /\ r.len \in Nat
      /\ type \in D2HTypes /\ type \in CompTypes
  BY DEF ProtocolInv, TypeOK, MmioReqs, D2HTypes, CompTypes
<1>2. SendPcieOut("replySend", "drain", type, r.id, r) /\ pc = "replySend"
  BY DEF ReplySend, SendPcieOut
<1>. HIDE DEF type
<1>3. /\ Len(d2h') = Len(d2h) /\ Len(d2h) \in Nat /\ Len(d2h) \in 1 .. Len(d2h)
      /\ \A i \in 1 .. Len(d2h) : i # Len(d2h) => d2h'[i] = d2h[i]
      /\ d2h'[Len(d2h)].id = r.id
  BY <1>1, <1>2, FilledSlot DEF ProtocolInv, SendPcs
<1>4. r.id > 0 /\ ~Replied(r.id) /\ r.type # "posted"
      /\ issued[r.id].type # "posted" /\ r.id <= Len(issued)
  <2>1. Serving
    BY <1>2 DEF Serving, ReplyPcs
  <2>2. r.id <= Len(issued)
    <3>1. Len(mmioQ) \in Nat /\ Len(issued) \in Nat
      BY LenProperties DEF ProtocolInv, TypeOK
    <3>. QED  BY <1>1, <3>1 DEF EndpointInv, OrderInv
  <2>. QED  BY <1>2, <2>1, <2>2 DEF EndpointInv, ReplyInv, OrderInv, ReplyPcs
<1>5. r.id \in Unanswered
  BY <1>1, <1>4 DEF Unanswered, Replied
<1>6. Unanswered' = Unanswered
  BY DEF hostVars, Unanswered
<1>7. \A i \in 1 .. Len(d2h) : d2h[i].type \in CompTypes => d2h[i].id # r.id
  BY <1>4 DEF Replied, Completed
<1>8. (\A i \in 1 .. Len(d2h) :
         d2h[i].type \in CompTypes => d2h[i].id \in Unanswered)'
  BY <1>3, <1>5, <1>6 DEF AwaitedInv
<1>9. (\A i, j \in 1 .. Len(d2h) :
         d2h[i].type \in CompTypes /\ d2h[j].type \in CompTypes
           /\ d2h[i].id = d2h[j].id => i = j)'
  BY <1>3, <1>7 DEF AwaitedInv
<1>. QED  BY <1>6, <1>8, <1>9 DEF AwaitedInv

\* What a step of the adapter does to its ring: nothing, or it puts a SYNC
\* that is owed or a slot to be filled at the end, or fills the slot.
LEMMA AdapterRing ==
  ASSUME DeviceNext
  PROVE  \/ UNCHANGED <<d2h, nextSync>>
         \/ \E type \in {"sync", "held"} :
              /\ type = "sync" => SyncOwed
              /\ d2h' = Append(d2h, Plain(type, mainTime))
              /\ nextSync' = mainTime + SyncInterval
         \/ UNCHANGED nextSync /\ (DmaSend \/ ReplySend)
<1>1. CASE OutSync("sync", "poll") \/ OutSync("pumpSync", "pumpPoll")
  BY <1>1 DEF OutSync
<1>2. CASE \/ AllocPcieOut("dmaAlloc", "dmaSend")
           \/ AllocPcieOut("replyAlloc", "replySend")
  BY <1>2 DEF AllocPcieOut, Exit, linkVars, timeVars
<1>3. CASE PollPcie
  BY <1>3 DEF PollPcie, PollMmio, PollOversize, PollCompletion, PollControl,
     Consume, Exit, linkVars, timeVars
<1>4. CASE DmaSend \/ ReplySend
  BY <1>4 DEF DmaSend, ReplySend, SendPcieOut, timeVars
<1>5. CASE \/ PollPcieAllEnds \/ DmaChunkDone \/ DmaCut \/ DmaPumpAdvance
           \/ DrainRequest \/ DrainOverrun \/ MmioReturns \/ DrainEnds
           \/ WaitForPeer \/ JumpToDeadline \/ RunClocks \/ ClockReturns \/ LoopTail
           \/ \E kind \in {"read", "write"}, size \in DmaSizes : LibDma(kind, size)
  BY <1>5 DEF PollPcieAllEnds, DmaChunkDone, DmaCut, DmaPumpAdvance, Exit,
     DrainRequest, DrainOverrun, MmioReturns, DrainEnds, WaitForPeer,
     JumpToDeadline, RunClocks, ClockReturns, LoopTail, LibDma, linkVars, timeVars
<1>. QED  BY <1>1, <1>2, <1>3, <1>4, <1>5 DEF DeviceNext

\* The request for a chunk fills the slot.
LEMMA AskFillsSlot ==
  ASSUME ProtocolInv, DmaSend, NEW types, types \cap AskTypes = {}
  PROVE  Keeps(d2h, d2h', types, 0)
<1>1. dma.no \in Nat /\ dma.off \in Nat /\ dma.kind \in D2HTypes
      /\ dma.kind \in AskTypes
  BY DEF ProtocolInv, TypeOK, Dmas, D2HTypes, AskTypes
<1>2. Chunk \in Nat
  BY ChunkType DEF ProtocolInv, TypeOK
<1>. DEFINE at == [bar |-> 0, offset |-> dma.off, len |-> Chunk]
<1>3. /\ at.bar \in Nat /\ at.offset \in Nat /\ at.len \in Nat
      /\ SendPcieOut("dmaSend", "pumpSync", dma.kind, dma.no, at)
  BY <1>1, <1>2 DEF DmaSend
<1>. HIDE DEF at
<1>4. "dmaSend" \in SendPcs /\ dma.kind \notin types
  BY <1>1 DEF SendPcs
<1>. QED  BY <1>1, <1>3, <1>4, FilledSlot DEF ProtocolInv

\* The completion of a request fills it.
LEMMA ReplyFillsSlot ==
  ASSUME ProtocolInv, ReplySend, NEW types, types \cap CompTypes = {}
  PROVE  Keeps(d2h, d2h', types, 0)
<1>. DEFINE type == IF r.type = "read" THEN "readcomp" ELSE "writecomp"
<1>1. /\ r.id \in Nat /\ r.bar \in Nat /\ r.offset \in Nat /\ r.len \in Nat
      /\ type \in D2HTypes /\ type \in CompTypes
  BY DEF ProtocolInv, TypeOK, MmioReqs, D2HTypes, CompTypes
<1>2. SendPcieOut("replySend", "drain", type, r.id, r)
  BY DEF ReplySend
<1>. HIDE DEF type
<1>3. "replySend" \in SendPcs /\ type \notin types
  BY <1>1 DEF SendPcs
<1>. QED  BY <1>1, <1>2, <1>3, FilledSlot DEF ProtocolInv

\* The steps of the adapter keep the completions unanswered.
LEMMA AwaitedDevice ==
  ASSUME ProtocolInv, EndpointInv, AwaitedInv, DeviceNext, UNCHANGED hostVars
  PROVE  AwaitedInv'
<1>0. UNCHANGED <<issued, answered>> /\ d2h \in Seq(Messages(D2HTypes))
  BY DEF hostVars, ProtocolInv, TypeOK
<1>1. CASE UNCHANGED d2h
  <2>1. Keeps(d2h, d2h', CompTypes, 0)
    BY <1>0, <1>1, KeepsSame
  <2>. QED  BY <1>0, <2>1, AwaitedFramed
<1>2. ASSUME NEW type \in {"sync", "held"}, d2h' = Append(d2h, Plain(type, mainTime))
      PROVE  AwaitedInv'
  <2>. DEFINE m == Plain(type, mainTime)
  <2>1. m \in Messages(D2HTypes) /\ m.type \notin CompTypes
    BY PlainType DEF ProtocolInv, TypeOK, D2HTypes, Plain, CompTypes
  <2>. HIDE DEF m
  <2>2. d2h' = Append(d2h, m)
    BY <1>2 DEF m
  <2>3. Keeps(d2h, d2h', CompTypes, 0)
    BY <1>0, <2>1, <2>2, KeepsAppend
  <2>. QED  BY <1>0, <2>3, AwaitedFramed
<1>3. CASE DmaSend
  <2>1. Keeps(d2h, d2h', CompTypes, 0)
    BY <1>3, AskFillsSlot DEF CompTypes, AskTypes
  <2>. QED  BY <1>0, <2>1, AwaitedFramed
<1>4. CASE ReplySend
  BY <1>4, AwaitedReply
<1>. QED  BY <1>1, <1>2, <1>3, <1>4, AdapterRing

\* So do those of the host.
LEMMA AwaitedHost ==
  ASSUME TypeOK, AwaitedInv, HostNext
  PROVE  AwaitedInv'
<1>1. CASE HostSync \/ HostTerminate \/ HostSend \/ HostAdvance
  <2>1. UNCHANGED <<issued, answered, d2h>>
    BY <1>1 DEF HostSync, HostTerminate, HostSend, HostAdvance, linkVars
  <2>2. Keeps(d2h, d2h', CompTypes, 0)
    BY <2>1, KeepsSame DEF TypeOK
  <2>. QED  BY <2>1, <2>2, AwaitedFramed
<1>. QED  BY <1>1, AwaitedIssue, AwaitedPolled DEF HostNext

\* The invariant holds in every reachable state.
LEMMA AwaitedAlways == Spec => []AwaitedInv
<1>1. Init => AwaitedInv
  <2>. SUFFICES ASSUME Init PROVE AwaitedInv
    OBVIOUS
  <2>1. d2h = <<>> /\ issued = <<>>
    BY DEF Init, LinkInit, HostInit
  <2>2. Len(d2h) = 0 /\ Unanswered = {}
    BY <2>1 DEF Unanswered
  <2>3. IsFiniteSet({}) /\ Cardinality({}) = 0 /\ MaxOutstanding \in Nat
    BY FS_EmptySet, HostAssumption DEF HostAssumption
  <2>. QED  BY <2>2, <2>3 DEF AwaitedInv
<1>2. ProtocolInv /\ EndpointInv /\ AwaitedInv /\ [Next]_vars => AwaitedInv'
  <2>. SUFFICES ASSUME ProtocolInv, EndpointInv, AwaitedInv, [Next]_vars
                PROVE  AwaitedInv'
    OBVIOUS
  <2>1. CASE Device
    BY <2>1, AwaitedDevice DEF Device
  <2>2. CASE Host
    BY <2>2, AwaitedHost DEF Host, ProtocolInv
  <2>3. CASE UNCHANGED vars
    <3>1. UNCHANGED <<issued, answered, d2h>>
      BY <2>3 DEF vars, linkVars, hostVars
    <3>2. Keeps(d2h, d2h', CompTypes, 0)
      BY <3>1, KeepsSame DEF ProtocolInv, TypeOK
    <3>. QED  BY <3>1, <3>2, AwaitedFramed
  <2>. QED  BY <2>1, <2>2, <2>3 DEF Next, Finished
<1>. QED  BY <1>1, <1>2, ProtocolAlways, EndpointAlways, PTL DEF Spec

----------------------------------------------------------------------------
(* Nothing is lost                                                         *)

\* While the pump waits for a slot, the chunk is asked for, in the host's
\* hands, or answered.
PendingInv ==
  pc \in PumpPcs /\ ~slotDone => ~NoAsk \/ ~NoAnswer \/ ~NoReply

\* What is in a ring stays there when a message is put behind it.
LEMMA StaysBefore ==
  ASSUME NEW Types, NEW ring \in Seq(Messages(Types)), NEW m \in Messages(Types),
         NEW types, ~NoneOf(ring, types)
  PROVE  ~NoneOf(Append(ring, m), types)
<1>. DEFINE new == Append(ring, m)
<1>1. /\ Len(new) = Len(ring) + 1 /\ Len(ring) \in Nat
      /\ \A i \in 1 .. Len(ring) : new[i] = ring[i]
  BY AppendProperties, LenProperties
<1>. HIDE DEF new
<1>2. PICK i \in 1 .. Len(ring) : ring[i].type \in types
  BY DEF NoneOf
<1>3. i \in 1 .. Len(new) /\ new[i].type \in types
  BY <1>1, <1>2
<1>4. ~NoneOf(new, types)
  BY <1>3 DEF NoneOf
<1>. QED  BY <1>4 DEF new

\* What is behind the first message of a ring stays when that is taken.
LEMMA StaysBehind ==
  ASSUME NEW Types, NEW ring \in Seq(Messages(Types)), ring # <<>>,
         NEW types, ~NoneOf(ring, types), Head(ring).type \notin types
  PROVE  ~NoneOf(Tail(ring), types)
<1>. DEFINE rest == Tail(ring)
<1>1. /\ Head(ring) = ring[1] /\ Len(ring) \in Nat /\ Len(rest) = Len(ring) - 1
      /\ \A i \in 1 .. Len(rest) : rest[i] = ring[i + 1]
  BY HeadType, LenProperties
<1>. HIDE DEF rest
<1>2. PICK i \in 1 .. Len(ring) : ring[i].type \in types
  BY DEF NoneOf
<1>3. i # 1
  BY <1>1, <1>2
<1>4. i - 1 \in 1 .. Len(rest) /\ (i - 1) + 1 = i
  BY <1>1, <1>3
<1>5. rest[i - 1] = ring[i]
  BY <1>1, <1>4
<1>6. ~NoneOf(rest, types)
  BY <1>2, <1>4, <1>5 DEF NoneOf
<1>. QED  BY <1>6 DEF rest

\* The adapter asks for the chunk before it waits, and takes nothing that is
\* about it without finishing the slot.
LEMMA PendingDevice ==
  ASSUME ProtocolInv, DmaInv, PendingInv, Device
  PROVE  PendingInv'
<1>0. /\ h2d \in Seq(Messages(H2DTypes)) /\ d2h \in Seq(Messages(D2HTypes))
      /\ UNCHANGED hOut
  BY DEF ProtocolInv, TypeOK, Device, hostVars
<1>1. CASE OutSync("sync", "poll") \/ OutSync("pumpSync", "pumpPoll")
  <2>1. SUFFICES ASSUME pc' \in PumpPcs, ~slotDone' PROVE PendingInv'
    BY DEF PendingInv
  <2>2. /\ pc \in PumpPcs /\ ~slotDone /\ UNCHANGED h2d
        /\ UNCHANGED d2h \/ d2h' = Append(d2h, Plain("sync", mainTime))
    BY <1>1, <2>1 DEF OutSync, PumpPcs, dmaVars
  <2>3. Plain("sync", mainTime) \in Messages(D2HTypes)
    BY PlainType DEF ProtocolInv, TypeOK, D2HTypes
  <2>4. ~NoAsk => ~NoAsk'
    BY <1>0, <2>2, <2>3, StaysBefore DEF NoAsk
  <2>5. (~NoAnswer => ~NoAnswer') /\ (~NoReply => ~NoReply')
    BY <1>0, <2>2 DEF NoAnswer, NoReply, NoneOf
  <2>. QED  BY <2>2, <2>4, <2>5 DEF PendingInv
<1>2. CASE PollMmio \/ PollControl
  <2>1. /\ h2d # <<>> /\ h2d' = Tail(h2d) /\ Head(h2d).type \notin CompTypes
        /\ UNCHANGED <<pc, slotDone, d2h>>
    BY <1>2 DEF PollMmio, PollControl, Polling, Pollable, Visible, Consume,
       MmioTypes, CompTypes, dmaVars
  <2>2. ~NoAnswer => ~NoAnswer'
    BY <1>0, <2>1, StaysBehind DEF NoAnswer
  <2>3. (~NoAsk => ~NoAsk') /\ (~NoReply => ~NoReply')
    BY <1>0, <2>1 DEF NoAsk, NoReply, NoneOf
  <2>. QED  BY <2>1, <2>2, <2>3 DEF PendingInv
<1>3. CASE PollCompletion
  BY <1>3 DEF PollCompletion, PendingInv
<1>4. CASE DmaPumpAdvance
  BY <1>0, <1>4 DEF DmaPumpAdvance, PolledDry, PendingInv, PumpPcs, linkVars,
     dmaVars, NoAsk, NoAnswer, NoReply, NoneOf
<1>5. CASE DmaSend
  <2>. DEFINE at == [bar |-> 0, offset |-> dma.off, len |-> Chunk]
  <2>1. /\ dma.no \in Nat /\ dma.off \in Nat /\ dma.kind \in D2HTypes
        /\ dma.kind \in AskTypes
    BY DEF ProtocolInv, TypeOK, Dmas, D2HTypes, AskTypes
  <2>2. Chunk \in Nat
    BY ChunkType DEF ProtocolInv, TypeOK
  <2>3. /\ at.bar \in Nat /\ at.offset \in Nat /\ at.len \in Nat
        /\ SendPcieOut("dmaSend", "pumpSync", dma.kind, dma.no, at)
    BY <1>5, <2>1, <2>2 DEF DmaSend
  <2>. HIDE DEF at
  <2>4. /\ Len(d2h') = Len(d2h) /\ Len(d2h) \in 1 .. Len(d2h)
        /\ d2h'[Len(d2h)].type = dma.kind
    BY <2>1, <2>3, FilledSlot DEF ProtocolInv, SendPcs
  <2>5. ~NoAsk'
    BY <2>1, <2>4 DEF NoAsk, NoneOf
  <2>. QED  BY <2>5 DEF PendingInv
<1>6. CASE pc' \notin PumpPcs
  BY <1>6 DEF PendingInv
<1>. QED
  BY <1>1, <1>2, <1>3, <1>4, <1>5, <1>6
     DEF Device, DeviceNext, PollPcie, PollOversize, Exit, PollPcieAllEnds,
     AllocPcieOut, LibDma, DmaChunkDone, DmaCut, DrainRequest, DrainOverrun, NextOf,
     MmioReturns, ReplySend, SendPcieOut, DrainEnds, WaitForPeer, JumpToDeadline,
     RunClocks, ClockReturns, LoopTail, PumpPcs

\* The host answers the chunk it is asked for, and sends the answer.
LEMMA PendingHost ==
  ASSUME ProtocolInv, PendingInv, Host
  PROVE  PendingInv'
<1>0. /\ h2d \in Seq(Messages(H2DTypes)) /\ d2h \in Seq(Messages(D2HTypes))
      /\ hOut \in Seq(Messages(H2DTypes)) /\ Len(hOut) \in Nat /\ Len(hOut) <= 1
      /\ UNCHANGED <<pc, slotDone>>
  BY LenProperties DEF ProtocolInv, TypeOK, Host, deviceVars, dmaVars
<1>1. hOut = <<>> => NoReply
  <2>1. Len(<<>>) = 0
    OBVIOUS
  <2>. QED  BY <2>1 DEF NoReply, NoneOf
<1>2. CASE HostSend
  <2>. DEFINE m == Head(hOut)
  <2>1. /\ hOut # <<>> /\ h2d' = Append(h2d, m) /\ UNCHANGED d2h
    BY <1>2 DEF HostSend
  <2>2. m \in Messages(H2DTypes) /\ m = hOut[1]
    BY <1>0, <2>1, HeadType
  <2>. HIDE DEF m
  <2>3. ~NoAsk => ~NoAsk'
    BY <2>1 DEF NoAsk, NoneOf
  <2>4. ~NoAnswer => ~NoAnswer'
    BY <1>0, <2>1, <2>2, StaysBefore DEF NoAnswer
  <2>5. ASSUME ~NoReply PROVE ~NoAnswer'
    <3>1. m.type \in CompTypes
      BY <1>0, <2>2, <2>5 DEF NoReply, NoneOf
    <3>2. /\ Len(h2d') = Len(h2d) + 1 /\ Len(h2d) \in Nat
          /\ h2d'[Len(h2d) + 1] = m
      BY <1>0, <2>1, <2>2, AppendProperties, LenProperties
    <3>. QED  BY <3>1, <3>2 DEF NoAnswer, NoneOf
  <2>. QED  BY <1>0, <2>3, <2>4, <2>5 DEF PendingInv
<1>3. CASE HostPoll
  <2>. DEFINE m == Head(d2h)
  <2>1. /\ d2h # <<>> /\ d2h' = Tail(d2h) /\ hOut = <<>> /\ UNCHANGED h2d
    BY <1>3 DEF HostPoll, Pollable, Visible, Running
  <2>2. ~NoAnswer => ~NoAnswer'
    BY <2>1 DEF NoAnswer, NoneOf
  <2>3. CASE m.type \notin AskTypes
    <3>1. ~NoAsk => ~NoAsk'
      BY <1>0, <2>1, <2>3, StaysBehind DEF NoAsk
    <3>. QED  BY <1>0, <1>1, <2>1, <2>2, <3>1 DEF PendingInv
  <2>4. CASE m.type \in AskTypes
    <3>. DEFINE c == Tagged(IF m.type = "read" THEN "readcomp" ELSE "writecomp",
                            hNow, m.id, m)
    <3>1. hOut' = <<c>>
      BY <1>3, <2>4 DEF HostPoll, AskTypes
    <3>2. c.type \in CompTypes
      BY DEF Tagged, CompTypes
    <3>. HIDE DEF c
    <3>3. Len(hOut') = 1 /\ hOut'[1] = c
      BY <3>1
    <3>4. ~NoReply'
      BY <3>2, <3>3 DEF NoReply, NoneOf
    <3>. QED  BY <3>4 DEF PendingInv
  <2>. QED  BY <2>3, <2>4
<1>4. CASE HostSync \/ HostTerminate \/ HostAdvance \/ \E t \in Targets : HostIssue(t)
  <2>1. hOut = <<>> /\ UNCHANGED <<h2d, d2h>>
    BY <1>4 DEF HostSync, HostTerminate, HostAdvance, HostIssue, Running, linkVars
  <2>2. (~NoAsk => ~NoAsk') /\ (~NoAnswer => ~NoAnswer')
    BY <2>1 DEF NoAsk, NoAnswer, NoneOf
  <2>. QED  BY <1>0, <1>1, <2>1, <2>2 DEF PendingInv
<1>. QED  BY <1>2, <1>3, <1>4 DEF Host, HostNext

\* The chunk is somewhere in every reachable state.
LEMMA PendingAlways == Spec => []PendingInv
<1>1. Init => PendingInv
  BY DEF Init, DeviceInit, PendingInv, PumpPcs
<1>2. ProtocolInv /\ DmaInv /\ PendingInv /\ [Next]_vars => PendingInv'
  <2>1. ASSUME PendingInv, UNCHANGED vars PROVE PendingInv'
    BY <2>1 DEF PendingInv, NoAsk, NoAnswer, NoReply, NoneOf, vars, linkVars,
       deviceVars, dmaVars, hostVars
  <2>. QED  BY <2>1, PendingDevice, PendingHost DEF Next, Finished
<1>. QED  BY <1>1, <1>2, ProtocolAlways, DmaAlways, PTL DEF Spec

\* No request is lost, whatever the pump polls while a libttsim call is on the
\* stack, and no chunk: the pump never waits for an answer that cannot come.
THEOREM NothingIsLost == Spec => []NothingLost
<1>1. ProtocolInv /\ DmaInv /\ EndpointInv /\ PendingInv => NothingLost
  <2>. SUFFICES ASSUME ProtocolInv, DmaInv, EndpointInv, PendingInv
                PROVE  NothingLost
    OBVIOUS
  <2>0. /\ h2d \in Seq(Messages(H2DTypes)) /\ hOut \in Seq(Messages(H2DTypes))
        /\ Len(h2d) \in Nat /\ Len(hOut) \in Nat
        /\ Len(mmioQ) \in Nat /\ r.id \in Nat
    BY LenProperties DEF ProtocolInv, TypeOK, MmioReqs
  <2>1. ASSUME pc # "stopped", NEW id \in Unanswered
        PROVE  RequestSomewhere(id)
    <3>1. id \in 1 .. Len(issued) /\ issued[id].type # "posted" /\ id \notin answered
      BY DEF Unanswered
    <3>2. CASE id \in 1 .. r.id
      <4>1. Replied(id) \/ (id = r.id /\ Serving)
        BY <2>1, <3>1, <3>2 DEF EndpointInv, ReplyInv
      <4>. QED
        BY <3>1, <4>1 DEF Replied, Completed, Serving, RequestSomewhere, InRing
    <3>3. CASE id \in (r.id + 1) .. (r.id + Len(mmioQ))
      <4>1. id - r.id \in 1 .. Len(mmioQ) /\ r.id + (id - r.id) = id
        BY <2>0, <3>3
      <4>2. mmioQ[id - r.id].id = id
        BY <4>1 DEF EndpointInv, OrderInv
      <4>. QED  BY <4>1, <4>2 DEF RequestSomewhere
    <3>4. CASE id > r.id + Len(mmioQ)
      <4>1. id \in (r.id + Len(mmioQ) + 1) .. Len(issued)
        BY <2>0, <3>1, <3>4
      <4>2. \E i \in 1 .. Len(Coming) : IsMmio(Coming[i]) /\ Coming[i].id = id
        BY <4>1 DEF EndpointInv, OrderInv, InLine
      <4>. QED  BY <4>2 DEF RequestSomewhere, InRing, IsMmio, Coming
    <3>. QED  BY <2>0, <3>1, <3>2, <3>3, <3>4
  <2>2. ASSUME pc \in PumpPcs, ~slotDone
        PROVE  ChunkSomewhere
    <3>. DEFINE coming == h2d \o hOut
    <3>1. /\ Len(coming) = Len(h2d) + Len(hOut)
          /\ \A i \in 1 .. Len(coming) :
               coming[i] = IF i <= Len(h2d) THEN h2d[i] ELSE hOut[i - Len(h2d)]
      BY <2>0, ConcatProperties
    <3>2. \A i \in 1 .. Len(coming) : CompletionFitsSlot(coming[i])
      BY ComingFits DEF CompletionsFitLiveSlot
    <3>3. ASSUME NEW i \in 1 .. Len(coming), coming[i].type \in CompTypes
          PROVE  ChunkSomewhere
      BY <3>2, <3>3 DEF ChunkSomewhere, InRing, CompletionFitsSlot
    <3>. HIDE DEF coming
    <3>4. CASE ~NoAsk
      BY <3>4 DEF NoAsk, NoneOf, DmaInv, FlightInv, AskFits, ChunkSomewhere, InRing
    <3>5. CASE ~NoAnswer
      <4>1. PICK i \in 1 .. Len(h2d) : h2d[i].type \in CompTypes
        BY <3>5 DEF NoAnswer, NoneOf
      <4>2. i \in 1 .. Len(coming) /\ coming[i] = h2d[i]
        BY <2>0, <3>1
      <4>. QED  BY <3>3, <4>1, <4>2
    <3>6. CASE ~NoReply
      <4>1. PICK i \in 1 .. Len(hOut) : hOut[i].type \in CompTypes
        BY <3>6 DEF NoReply, NoneOf
      <4>2. /\ Len(h2d) + i \in 1 .. Len(coming) /\ ~(Len(h2d) + i <= Len(h2d))
            /\ (Len(h2d) + i) - Len(h2d) = i
        BY <2>0, <3>1
      <4>3. coming[Len(h2d) + i] = hOut[i]
        BY <3>1, <4>2
      <4>. QED  BY <3>3, <4>1, <4>2, <4>3
    <3>. QED  BY <2>2, <3>4, <3>5, <3>6 DEF PendingInv
  <2>. QED  BY <2>1, <2>2 DEF NothingLost
<1>. QED
  BY <1>1, ProtocolAlways, DmaAlways, EndpointAlways, PendingAlways, PTL
=============================================================================
