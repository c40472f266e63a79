---------------------------- MODULE Iris_proofs ----------------------------
(***************************************************************************)
(* Iris and her inbox, for every number of messages, conversations,        *)
(* restarts and failures and every size of ring and batch: no message is   *)
(* answered twice, and none is passed over while the broker lives.         *)
(***************************************************************************)
EXTENDS Iris, SequenceTheorems, TLAPS

USE CapacityAssumption, MaxMessagesAssumption, MaxRestartsAssumption, MaxBatchAssumption,
    MaxIrisRestartsAssumption, MaxFailuresAssumption

(***************************************************************************)
(* The ring holds the last messages of its broker, in order: it is what    *)
(* Behind counts on.                                                       *)
(***************************************************************************)
RingInOrder ==
  /\ Len(broker.events) < broker.next
  /\ \A i \in 1 .. Len(broker.events) :
       broker.events[i].seq = broker.next - 1 - Len(broker.events) + i

Numbered == IrisTypeOK /\ broker.next <= arrived + 1 /\ RingInOrder

-----------------------------------------------------------------------------
(***************************************************************************)
(* Sequences and their elements.                                           *)
(***************************************************************************)
LEMMA AppendElements ==
  ASSUME NEW S, NEW s \in Seq(S), NEW e \in S
  PROVE  Elements(Append(s, e)) = Elements(s) \cup {e}
<1> DEFINE t == Append(s, e)
<1>1. /\ t \in Seq(S) /\ Len(t) = Len(s) + 1 /\ t[Len(s) + 1] = e
      /\ \A i \in 1 .. Len(s) : t[i] = s[i]
  BY AppendProperties
<1>2. Len(s) \in Nat /\ DOMAIN s = 1 .. Len(s) /\ DOMAIN t = 1 .. Len(t)
  BY <1>1, LenProperties
<1> HIDE DEF t
<1>3. Elements(t) = Elements(s) \cup {e}
  BY <1>1, <1>2 DEF Elements
<1> QED BY <1>3 DEF t

LEMMA HeadTailElements ==
  ASSUME NEW S, NEW s \in Seq(S), s # <<>>
  PROVE  /\ Elements(Tail(s)) \subseteq Elements(s)
         /\ Head(s) = s[1] /\ Head(s) \in Elements(s)
<1>1. /\ Tail(s) \in Seq(S) /\ Len(Tail(s)) = Len(s) - 1
      /\ \A i \in 1 .. Len(Tail(s)) : Tail(s)[i] = s[i + 1]
  BY HeadTailProperties
<1>2. Len(s) \in Nat \ {0} /\ DOMAIN s = 1 .. Len(s) /\ DOMAIN Tail(s) = 1 .. Len(Tail(s))
  BY <1>1, LenProperties, EmptySeq
<1>3. Elements(Tail(s)) \subseteq Elements(s)
  BY <1>1, <1>2 DEF Elements
<1>4. Head(s) = s[1] /\ 1 \in DOMAIN s
  BY <1>2
<1> QED BY <1>3, <1>4 DEF Elements

LEMMA LongerThanOne ==
  ASSUME NEW S, NEW s \in Seq(S), s # <<>>, Tail(s) # <<>>
  PROVE  1 \in 1 .. Len(s) - 1
<1> DEFINE t == Tail(s)
<1>1. t \in Seq(S) /\ Len(t) = Len(s) - 1 /\ t # <<>> /\ Len(s) \in Nat
  BY HeadTailProperties, LenProperties
<1> HIDE DEF t
<1>2. Len(t) \in Nat \ {0}
  BY <1>1, EmptySeq
<1> QED BY <1>1, <1>2

LEMMA NewestElements ==
  ASSUME NEW s \in Seq(Event)
  PROVE  /\ Newest(s) \in Seq(Event)
         /\ Len(Newest(s)) = IF Len(s) > Capacity THEN Capacity ELSE Len(s)
         /\ \A i \in 1 .. Len(Newest(s)) : Newest(s)[i] = s[Len(s) - Len(Newest(s)) + i]
         /\ Elements(Newest(s)) \subseteq Elements(s)
<1>1. Len(s) \in Nat /\ DOMAIN s = 1 .. Len(s)
  BY LenProperties
<1>2. CASE Len(s) <= Capacity
  <2>1. Newest(s) = s
    BY <1>1, <1>2 DEF Newest
  <2>2. \A i \in 1 .. Len(s) : Len(s) - Len(s) + i = i
    BY <1>1
  <2>3. ~ (Len(s) > Capacity)
    BY <1>1, <1>2
  <2> QED BY <2>1, <2>2, <2>3
<1>3. CASE Len(s) > Capacity
  <2> DEFINE m == Len(s) - Capacity + 1
             t == SubSeq(s, m, Len(s))
  <2>1. m \in Int /\ Len(s) \in Int /\ m <= Len(s) /\ m >= 1
    BY <1>1, <1>3
  <2>2. \A i \in m .. Len(s) : s[i] \in Event
    BY <1>1, <2>1, ElementOfSeq
  <2>3. /\ t \in Seq(Event)
        /\ Len(t) = IF m <= Len(s) THEN Len(s) - m + 1 ELSE 0
        /\ \A i \in 1 .. Len(s) - m + 1 : t[i] = s[m + i - 1]
    <3> HIDE DEF m
    <3> QED BY <2>1, <2>2, SubSeqProperties
  <2>4. Len(t) = Capacity /\ \A i \in 1 .. Capacity : t[i] = s[Len(s) - Capacity + i]
    BY <1>1, <2>1, <2>3
  <2>5. Newest(s) = t /\ DOMAIN t = 1 .. Len(t)
    BY <1>3, <2>3, LenProperties DEF Newest
  <2> HIDE DEF m, t
  <2>6. ASSUME NEW i \in 1 .. Capacity  PROVE  t[i] \in Elements(s)
    <3>1. Len(s) - Capacity + i \in DOMAIN s
      BY <1>1, <1>3
    <3> QED BY <2>4, <3>1 DEF Elements
  <2>7. Elements(t) \subseteq Elements(s)
    BY <2>4, <2>5, <2>6 DEF Elements
  <2> QED BY <1>3, <2>3, <2>4, <2>5, <2>7
<1> QED BY <1>1, <1>2, <1>3

-----------------------------------------------------------------------------
(***************************************************************************)
(* What the ring hands out.                                                *)
(***************************************************************************)
LEMMA RingFacts ==
  ASSUME Numbered
  PROVE  /\ broker.events \in Seq(Event)
         /\ Len(broker.events) \in Nat
         /\ DOMAIN broker.events = 1 .. Len(broker.events)
         /\ broker.next \in Nat
         /\ \A i \in 1 .. Len(broker.events) : broker.events[i] \in Event
<1>1. broker.events \in Seq(Event) /\ broker.next \in Nat
  BY DEF Numbered, IrisTypeOK, Broker
<1> QED BY <1>1, LenProperties, ElementOfSeq

LEMMA BehindFacts ==
  ASSUME Numbered, NEW since \in Nat
  PROVE  /\ Behind(since) \in 0 .. Len(broker.events)
         /\ \A i \in 1 .. Len(broker.events) :
              broker.events[i].seq <= since <=> i <= Behind(since)
<1> DEFINE len  == Len(broker.events)
           base == broker.next - 1 - len
           P(n) == \A i \in DOMAIN broker.events : broker.events[i].seq <= since <=> i <= n
<1>1. len \in Nat /\ DOMAIN broker.events = 1 .. len /\ base \in Nat
  BY RingFacts DEF Numbered, RingInOrder
<1>2. \A i \in 1 .. len : broker.events[i].seq = base + i
  BY DEF Numbered, RingInOrder
<1> HIDE DEF len, base
<1>3. \E n \in 0 .. len : P(n)
  <2>1. CASE since < base
    <3>1. P(0)
      BY <1>1, <1>2, <2>1
    <3> QED BY <1>1, <3>1
  <2>2. CASE since >= base /\ since <= base + len
    <3>1. P(since - base) /\ since - base \in 0 .. len
      BY <1>1, <1>2, <2>2
    <3> QED BY <3>1
  <2>3. CASE since > base + len
    <3>1. P(len)
      BY <1>1, <1>2, <2>3
    <3> QED BY <1>1, <3>1
  <2> QED BY <1>1, <2>1, <2>2, <2>3
<1>4. Behind(since) = CHOOSE n \in 0 .. len : P(n)
  BY DEF Behind, len
<1> HIDE DEF P
<1>5. Behind(since) \in 0 .. len /\ P(Behind(since))
  BY <1>3, <1>4
<1> QED BY <1>1, <1>5 DEF P, len

LEMMA CollectFacts ==
  ASSUME Numbered, NEW since \in Nat, NEW max \in Nat
  PROVE  /\ Collect(since, max) \in Seq(Event)
         /\ \A i \in 1 .. Len(Collect(since, max)) :
              /\ Behind(since) + i \in 1 .. Len(broker.events)
              /\ Collect(since, max)[i] = broker.events[Behind(since) + i]
         /\ Elements(Collect(since, max)) \subseteq Elements(broker.events)
<1> DEFINE len  == Len(broker.events)
           n    == Behind(since)
           upto == IF n + max < len THEN n + max ELSE len
           got  == SubSeq(broker.events, n + 1, upto)
<1>1. len \in Nat /\ DOMAIN broker.events = 1 .. len /\ n \in 0 .. len
  BY RingFacts, BehindFacts
<1>2. upto \in n .. len /\ n + 1 \in Int /\ upto \in Int
  <2> HIDE DEF len, n
  <2> QED BY <1>1
<1>3. Collect(since, max) = got
  BY DEF Collect
<1> HIDE DEF len, n, upto
<1>4. \A i \in n + 1 .. upto : broker.events[i] \in Event
  BY <1>1, <1>2, RingFacts DEF len
<1>5. /\ got \in Seq(Event)
      /\ Len(got) = IF n + 1 <= upto THEN upto - (n + 1) + 1 ELSE 0
      /\ \A i \in 1 .. upto - (n + 1) + 1 : got[i] = broker.events[n + 1 + i - 1]
  BY <1>2, <1>4, SubSeqProperties
<1>6. Len(got) = upto - n /\ DOMAIN got = 1 .. Len(got)
  BY <1>1, <1>2, <1>5, LenProperties
<1>7. \A i \in 1 .. Len(got) : n + i \in 1 .. len /\ got[i] = broker.events[n + i]
  BY <1>1, <1>2, <1>5, <1>6
<1> HIDE DEF got
<1>8. Elements(got) \subseteq Elements(broker.events)
  BY <1>1, <1>6, <1>7 DEF Elements
<1> QED BY <1>3, <1>5, <1>7, <1>8 DEF len, n, got

-----------------------------------------------------------------------------
(***************************************************************************)
(* Numbered is kept.                                                       *)
(***************************************************************************)
LEMMA DeliverFacts ==
  ASSUME Numbered, NEW c \in Conversations, NEW bare \in BOOLEAN, Deliver(c, bare),
         NEW e, e = [seq |-> broker.next, msg |-> arrived', conv |-> c, bare |-> bare]
  PROVE  /\ e \in Event
         /\ arrived' = arrived + 1 /\ arrived' \in 0 .. MaxMessages
         /\ broker' \in Broker
         /\ broker'.instance = broker.instance /\ broker'.next = broker.next + 1
         /\ broker'.events = Newest(Append(broker.events, e))
         /\ Elements(broker'.events) \subseteq Elements(broker.events) \cup {e}
<1>1. arrived \in 0 .. MaxMessages - 1 /\ arrived' = arrived + 1 /\ broker.next \in 1 .. arrived + 1
  BY DEF Numbered, IrisTypeOK, Broker, Deliver
<1>2. e \in Event
  BY <1>1 DEF Event, Messages
<1>3. Append(broker.events, e) \in Seq(Event)
  BY <1>2, RingFacts, AppendProperties
<1>4. /\ broker' = [broker EXCEPT !.next = @ + 1, !.events = Newest(Append(@, e))]
      /\ broker \in [instance : 1 .. MaxRestarts + 1, next : 1 .. MaxMessages + 1,
                     events : Seq(Event)]
  BY DEF Numbered, IrisTypeOK, Broker, Deliver
<1>5. Newest(Append(broker.events, e)) \in Seq(Event)
  BY <1>3, NewestElements
<1>6. /\ broker' \in Broker
      /\ broker'.instance = broker.instance /\ broker'.next = broker.next + 1
      /\ broker'.events = Newest(Append(broker.events, e))
  <2> DEFINE ring == Newest(Append(broker.events, e))
  <2>1. broker' = [broker EXCEPT !.next = broker.next + 1, !.events = ring]
    BY <1>4
  <2>2. broker.next + 1 \in 1 .. MaxMessages + 1 /\ ring \in Seq(Event)
    BY <1>1, <1>5
  <2> HIDE DEF ring
  <2>3. /\ broker' \in Broker
        /\ broker'.instance = broker.instance /\ broker'.next = broker.next + 1
        /\ broker'.events = ring
    BY <1>4, <2>1, <2>2 DEF Broker
  <2> QED BY <2>3 DEF ring
<1>7. Elements(Newest(Append(broker.events, e))) \subseteq Elements(Append(broker.events, e))
  BY <1>3, NewestElements
<1>8. Elements(Append(broker.events, e)) = Elements(broker.events) \cup {e}
  BY <1>2, RingFacts, AppendElements
<1> QED BY <1>1, <1>2, <1>6, <1>7, <1>8

LEMMA DeliverKeepsOrder ==
  ASSUME Numbered, NEW c \in Conversations, NEW bare \in BOOLEAN, Deliver(c, bare)
  PROVE  RingInOrder' /\ Len(broker'.events) <= Capacity /\ broker'.next <= arrived' + 1
<1> DEFINE e == [seq |-> broker.next, msg |-> arrived', conv |-> c, bare |-> bare]
           s == Append(broker.events, e)
<1>1. /\ e \in Event /\ arrived' = arrived + 1 /\ broker'.next = broker.next + 1
      /\ broker'.events = Newest(s)
  BY DeliverFacts
<1>2. e.seq = broker.next
  OBVIOUS
<1> HIDE DEF e
<1>3. /\ s \in Seq(Event) /\ Len(s) = Len(broker.events) + 1 /\ s[Len(s)] = e
      /\ \A i \in 1 .. Len(broker.events) : s[i] = broker.events[i]
  BY <1>1, RingFacts, AppendProperties
<1> HIDE DEF s
<1>4. /\ Len(broker.events) \in Nat /\ broker.next \in Nat /\ arrived \in Nat
      /\ Len(broker.events) < broker.next /\ broker.next <= arrived + 1
      /\ \A i \in 1 .. Len(broker.events) :
           broker.events[i].seq = broker.next - 1 - Len(broker.events) + i
  BY RingFacts DEF Numbered, IrisTypeOK, RingInOrder
<1>5. \A i \in 1 .. Len(s) : s[i].seq = broker.next - Len(s) + i
  <2>1. /\ \A i \in 1 .. Len(s) : i \in 1 .. Len(broker.events) \/ i = Len(s)
        /\ broker.next - Len(s) + Len(s) = broker.next
        /\ broker.next - 1 - Len(broker.events) = broker.next - Len(s)
    BY <1>3, <1>4
  <2> QED BY <1>2, <1>3, <1>4, <2>1
<1>6. /\ Len(Newest(s)) = IF Len(s) > Capacity THEN Capacity ELSE Len(s)
      /\ \A i \in 1 .. Len(Newest(s)) : Newest(s)[i] = s[Len(s) - Len(Newest(s)) + i]
  BY <1>3, NewestElements
<1>7. Len(Newest(s)) \in 0 .. Len(s) /\ Len(Newest(s)) <= Capacity
  BY <1>3, <1>4, <1>6
<1>8. ASSUME NEW i \in 1 .. Len(Newest(s))
      PROVE  Newest(s)[i].seq = broker.next - Len(Newest(s)) + i
  <2> DEFINE j == Len(s) - Len(Newest(s)) + i
  <2>1. /\ j \in 1 .. Len(s)
        /\ broker.next - Len(s) + j = broker.next - Len(Newest(s)) + i
    BY <1>3, <1>4, <1>7
  <2>2. Newest(s)[i] = s[j]
    BY <1>6
  <2> HIDE DEF j
  <2> QED BY <1>5, <2>1, <2>2
<1> QED BY <1>1, <1>3, <1>4, <1>7, <1>8 DEF RingInOrder

LEMMA BrokerKeepsNumbered ==
  ASSUME Numbered, BrokerNext, UNCHANGED irisVars
  PROVE  Numbered'
<1>1. /\ poller' \in Poller /\ (poller'.pc # "poll" => poller'.batch # <<>>)
      /\ turns' \in [Conversations -> SUBSET Messages] /\ handed' \subseteq Messages
      /\ served' \in Seq(Messages)
      /\ restarts' \in 0 .. MaxIrisRestarts /\ failures' \in 0 .. MaxFailures
  BY DEF Numbered, IrisTypeOK, irisVars
<1>2. ASSUME NEW c \in Conversations, NEW bare \in BOOLEAN, Deliver(c, bare)
      PROVE  Numbered'
  <2>1. arrived' \in 0 .. MaxMessages /\ broker' \in Broker
    BY <1>2, DeliverFacts
  <2>2. RingInOrder' /\ Len(broker'.events) <= Capacity /\ broker'.next <= arrived' + 1
    BY <1>2, DeliverKeepsOrder
  <2> QED BY <1>1, <2>1, <2>2 DEF Numbered, IrisTypeOK
<1>3. CASE BrokerRestart
  <2>1. /\ broker' = [instance |-> broker.instance + 1, next |-> 1, events |-> <<>>]
        /\ arrived' = arrived /\ arrived \in 0 .. MaxMessages
        /\ broker.instance + 1 \in 1 .. MaxRestarts + 1
    BY <1>3 DEF BrokerRestart, Numbered, IrisTypeOK, Broker
  <2>2. <<>> \in Seq(Event) /\ Len(<<>>) = 0
    BY EmptySeq
  <2>3. /\ broker' \in Broker /\ broker'.next = 1 /\ broker'.events = <<>>
    BY <2>1, <2>2 DEF Broker
  <2> QED BY <1>1, <2>1, <2>2, <2>3 DEF Numbered, IrisTypeOK, RingInOrder
<1> QED BY <1>2, <1>3 DEF BrokerNext

LEMMA CurrentFacts ==
  ASSUME Numbered, poller.pc # "poll"
  PROVE  /\ Current \in Event /\ Current = poller.batch[1]
         /\ Current \in Elements(poller.batch)
         /\ poller.batch \in Seq(Event) /\ poller.batch # <<>>
<1>1. poller.batch \in Seq(Event) /\ poller.batch # <<>>
  BY DEF Numbered, IrisTypeOK, Poller
<1> QED BY <1>1, HeadTailElements, HeadTailProperties DEF Current

LEMMA AdvanceFacts ==
  ASSUME Numbered, poller.pc # "poll", Advance
  PROVE  /\ poller' \in Poller
         /\ poller'.pc \in {"poll", "check"}
         /\ poller'.pc # "poll" => poller'.batch # <<>>
         /\ poller'.batch = Tail(poller.batch)
         /\ Elements(poller'.batch) \subseteq Elements(poller.batch)
         /\ poller'.last = poller.last
         /\ poller'.since = IF Current.seq > poller.since THEN Current.seq ELSE poller.since
<1> DEFINE rest  == Tail(poller.batch)
           since == IF Current.seq > poller.since THEN Current.seq ELSE poller.since
           pc    == After(rest)
<1>1. poller.batch \in Seq(Event) /\ poller.batch # <<>> /\ Current \in Event
  BY CurrentFacts
<1>2. rest \in Seq(Event) /\ Elements(rest) \subseteq Elements(poller.batch)
  BY <1>1, HeadTailProperties, HeadTailElements
<1>3. since \in Messages \cup {0}
  BY <1>1 DEF Numbered, IrisTypeOK, Poller, Event
<1>4. pc \in {"poll", "check"} /\ (pc # "poll" => rest # <<>>)
  BY DEF After
<1>5. poller' = [poller EXCEPT !.pc = pc, !.since = since, !.batch = rest]
  BY DEF Advance
<1> HIDE DEF rest, since, pc
<1>6. /\ poller' \in Poller /\ poller'.pc = pc /\ poller'.batch = rest
      /\ poller'.last = poller.last /\ poller'.since = since
  BY <1>2, <1>3, <1>4, <1>5 DEF Numbered, IrisTypeOK, Poller
<1> QED BY <1>2, <1>4, <1>6 DEF rest, since

LEMMA GotoFacts ==
  ASSUME Numbered, poller.pc # "poll", NEW pc \in {"greet", "note", "append", "run", "post"},
         Goto(pc)
  PROVE  /\ poller' \in Poller /\ poller'.pc = pc
         /\ poller'.batch = poller.batch /\ poller'.batch # <<>>
         /\ poller'.last = poller.last /\ poller'.since = poller.since
  BY DEF Numbered, IrisTypeOK, Poller, Goto

LEMMA PollFacts ==
  ASSUME Numbered, Poll
  PROVE  /\ poller' \in Poller
         /\ poller'.pc \in {"poll", "check"}
         /\ poller'.pc # "poll" => poller'.batch # <<>>
         /\ poller'.batch = Collect(poller.since, MaxBatch)
         /\ Elements(poller'.batch) \subseteq Elements(broker.events)
         /\ poller'.last = broker.instance
         /\ poller'.since = IF poller.last \in {0, broker.instance} THEN poller.since ELSE 0
<1> DEFINE got   == Collect(poller.since, MaxBatch)
           since == IF poller.last \in {0, broker.instance} THEN poller.since ELSE 0
           pc    == After(got)
<1>1. poller.since \in Messages \cup {0} /\ broker.instance \in 1 .. MaxRestarts + 1
  BY DEF Numbered, IrisTypeOK, Poller, Broker
<1>2. poller.since \in Nat /\ since \in Messages \cup {0}
  BY <1>1 DEF Messages
<1>3. got \in Seq(Event) /\ Elements(got) \subseteq Elements(broker.events)
  BY <1>2, CollectFacts
<1>4. pc \in {"poll", "check"} /\ (pc # "poll" => got # <<>>)
  BY DEF After
<1>5. poller' = [pc |-> pc, since |-> since, last |-> broker.instance, batch |-> got]
  BY DEF Poll
<1> HIDE DEF got, since, pc
<1>6. poller' \in Poller
  BY <1>1, <1>2, <1>3, <1>4, <1>5 DEF Poller
<1> QED BY <1>3, <1>4, <1>5, <1>6 DEF got, since

\* A turn once stored stays, and the number of the event is in it.
LEMMA RecordFacts ==
  ASSUME Numbered, poller.pc # "poll", Record
  PROVE  /\ turns' \in [Conversations -> SUBSET Messages]
         /\ \A c \in Conversations : turns[c] \subseteq turns'[c]
         /\ Current.seq \in turns'[Current.conv]
<1>1. Current.seq \in Messages /\ Current.conv \in Conversations
  BY CurrentFacts DEF Event
<1> QED BY <1>1 DEF Numbered, IrisTypeOK, Record

LEMMA FailuresOK ==
  ASSUME Numbered, Fails \/ Succeeds
  PROVE  failures' \in 0 .. MaxFailures
  BY DEF Numbered, IrisTypeOK, Fails, Succeeds

\* What every step of the poller leaves of the ring.
LEMMA BrokerUntouched ==
  ASSUME Numbered, UNCHANGED brokerVars
  PROVE  /\ RingInOrder' /\ broker'.next <= arrived' + 1
         /\ arrived' \in 0 .. MaxMessages /\ broker' \in Broker
         /\ Len(broker'.events) <= Capacity
  BY DEF Numbered, IrisTypeOK, RingInOrder, brokerVars

LEMMA IrisKeepsNumbered ==
  ASSUME Numbered, IrisStep \/ IrisRestart
  PROVE  Numbered'
<1> SUFFICES /\ poller' \in Poller /\ (poller'.pc # "poll" => poller'.batch # <<>>)
             /\ turns' \in [Conversations -> SUBSET Messages] /\ handed' \subseteq Messages
             /\ served' \in Seq(Messages)
             /\ restarts' \in 0 .. MaxIrisRestarts /\ failures' \in 0 .. MaxFailures
             /\ UNCHANGED brokerVars
  BY BrokerUntouched DEF Numbered, IrisTypeOK
<1> USE DEF Numbered, IrisTypeOK
<1>1. CASE Poll
  BY <1>1, PollFacts DEF Poll
<1>2. CASE Check
  <2>1. poller.pc # "poll" /\ Current.msg \in Messages
    BY <1>2, CurrentFacts DEF Check, Event
  <2>2. /\ Advance \/ Goto("greet") \/ Goto("append")
        /\ Fails \/ Succeeds
    BY <1>2 DEF Check
  <2> QED BY <1>2, <2>1, <2>2, AdvanceFacts, GotoFacts, FailuresOK DEF Check
<1>3. CASE Greet
  <2>1. poller.pc # "poll" /\ (Advance \/ Goto("note")) /\ (Fails \/ Succeeds)
    BY <1>3 DEF Greet
  <2> QED BY <1>3, <2>1, AdvanceFacts, GotoFacts, FailuresOK DEF Greet
<1>4. CASE Note
  <2>1. poller.pc # "poll" /\ (Record \/ UNCHANGED turns) /\ (Fails \/ Succeeds)
    BY <1>4 DEF Note
  <2> QED BY <1>4, <2>1, AdvanceFacts, RecordFacts, FailuresOK DEF Note
<1>5. CASE AppendTurn
  <2>1. /\ poller.pc # "poll" /\ (Record \/ UNCHANGED turns) /\ (Fails \/ Succeeds)
        /\ Advance \/ Goto("run")
    BY <1>5 DEF AppendTurn
  <2> QED BY <1>5, <2>1, AdvanceFacts, GotoFacts, RecordFacts, FailuresOK DEF AppendTurn
<1>6. CASE RunLoop
  <2>1. /\ poller.pc # "poll" /\ (Fails \/ Succeeds) /\ (Advance \/ Goto("post"))
        /\ served' = Append(served, Current.msg)
    BY <1>6 DEF RunLoop
  <2>2. served' \in Seq(Messages)
    <3>1. Current.msg \in Messages
      BY <2>1, CurrentFacts DEF Event
    <3> QED BY <2>1, <3>1, AppendProperties
  <2> QED BY <1>6, <2>1, <2>2, AdvanceFacts, GotoFacts, FailuresOK DEF RunLoop
<1>7. CASE PostReply
  BY <1>7, AdvanceFacts DEF PostReply
<1>8. CASE IrisRestart
  BY <1>8, EmptySeq DEF IrisRestart, Fresh, Poller, Messages
<1> QED BY <1>1, <1>2, <1>3, <1>4, <1>5, <1>6, <1>7, <1>8 DEF IrisStep

LEMMA StepKeepsNumbered == Numbered /\ [Next]_vars => Numbered'
<1> SUFFICES ASSUME Numbered, [Next]_vars PROVE Numbered'
  OBVIOUS
<1>1. CASE BrokerNext /\ UNCHANGED irisVars
  BY <1>1, BrokerKeepsNumbered
<1>2. CASE IrisStep \/ IrisRestart
  BY <1>2, IrisKeepsNumbered
<1>3. CASE UNCHANGED vars
  BY <1>3 DEF vars, brokerVars, irisVars, Numbered, IrisTypeOK, RingInOrder
<1> QED BY <1>1, <1>2, <1>3 DEF Next

LEMMA InitNumbered == Init => Numbered
<1> SUFFICES ASSUME Init PROVE Numbered
  OBVIOUS
<1>1. <<>> \in Seq(Event) /\ Len(<<>>) = 0 /\ <<>> \in Seq(Messages)
  BY EmptySeq
<1>2. arrived = 0 /\ broker = [instance |-> 1, next |-> 1, events |-> <<>>]
  BY DEF Init, BrokerInit
<1>3. broker \in Broker /\ RingInOrder
  BY <1>1, <1>2 DEF Broker, RingInOrder
<1>4. poller \in Poller /\ poller.pc = "poll"
  BY <1>1 DEF Init, Fresh, Poller
<1> QED BY <1>1, <1>2, <1>3, <1>4 DEF Init, Numbered, IrisTypeOK

LEMMA AlwaysNumbered == Spec => []Numbered
  BY InitNumbered, StepKeepsNumbered, PTL DEF Spec

(***************************************************************************)
(* The ring never exceeds its capacity, and the poller, the turns and the  *)
(* ring are well formed, for every size of ring and batch.                 *)
(***************************************************************************)
THEOREM IrisTypeCorrect == Spec => []IrisTypeOK
<1>1. Numbered => IrisTypeOK
  BY DEF Numbered
<1> QED BY <1>1, AlwaysNumbered, PTL

-----------------------------------------------------------------------------
(***************************************************************************)
(* Answered once.  An event that can still come before the handler, in the *)
(* ring or in the batch, and whose message was answered, is in the turns   *)
(* of its conversation, where Check will find it.                          *)
(***************************************************************************)
InSight == Elements(broker.events) \cup Elements(poller.batch)

SightSound ==
  /\ \A e \in InSight : e.msg <= arrived
  /\ \A e, f \in InSight : e.msg = f.msg => e = f
  /\ \A e \in InSight : e.msg \in Elements(served) => e.seq \in turns[e.conv]

ServedSound == (\A m \in Elements(served) : m <= arrived) /\ ServedAtMostOnce

HandlerSound ==
  /\ poller.pc \in {"append", "run"} => Current.msg \notin Elements(served)
  /\ poller.pc = "run" => Current.seq \in turns[Current.conv]

ServedInv == Numbered /\ SightSound /\ ServedSound /\ HandlerSound

LEMMA InSightEvents == ASSUME Numbered PROVE InSight \subseteq Event
<1>1. broker.events \in Seq(Event) /\ poller.batch \in Seq(Event)
  BY DEF Numbered, IrisTypeOK, Broker, Poller
<1>2. ASSUME NEW s \in Seq(Event) PROVE Elements(s) \subseteq Event
  BY LenProperties DEF Elements
<1> QED BY <1>1, <1>2 DEF InSight

LEMMA NothingNewKeeps ==
  ASSUME ServedInv, InSight' \subseteq InSight, arrived' = arrived, served' = served,
         \A c \in Conversations : turns[c] \subseteq turns'[c]
  PROVE  SightSound' /\ ServedSound'
<1>1. \A e \in InSight : e.conv \in Conversations
  BY InSightEvents DEF ServedInv, Event
<1>2. Elements(served') = Elements(served)
  OBVIOUS
<1> QED BY <1>1, <1>2 DEF ServedInv, SightSound, ServedSound, ServedAtMostOnce

LEMMA BatchShrinks ==
  ASSUME UNCHANGED brokerVars, Elements(poller'.batch) \subseteq InSight
  PROVE  InSight' \subseteq InSight
  BY DEF InSight, brokerVars

LEMMA DeliverKeepsServed ==
  ASSUME ServedInv, NEW c \in Conversations, NEW bare \in BOOLEAN, Deliver(c, bare),
         UNCHANGED irisVars
  PROVE  SightSound' /\ ServedSound' /\ HandlerSound'
<1> DEFINE e == [seq |-> broker.next, msg |-> arrived', conv |-> c, bare |-> bare]
<1>1. /\ arrived' = arrived + 1 /\ arrived \in Nat
      /\ Elements(broker'.events) \subseteq Elements(broker.events) \cup {e}
  <2>1. Numbered /\ arrived \in Nat
    BY DEF ServedInv, Numbered, IrisTypeOK
  <2>2. /\ arrived' = arrived + 1
        /\ Elements(broker'.events) \subseteq Elements(broker.events) \cup {e}
    <3> HIDE DEF e
    <3>1. e = [seq |-> broker.next, msg |-> arrived', conv |-> c, bare |-> bare]
      BY DEF e
    <3> QED BY <2>1, <3>1, DeliverFacts
  <2> QED BY <2>1, <2>2
<1>2. e.msg = arrived + 1
  BY <1>1
<1> HIDE DEF e
<1>3. InSight' \subseteq InSight \cup {e}
  BY <1>1 DEF InSight, irisVars
<1>4. \A f \in InSight : f.msg \in Nat /\ f.msg <= arrived
  BY InSightEvents DEF ServedInv, SightSound, Event, Messages
<1>5. /\ Elements(served') = Elements(served) /\ turns' = turns
      /\ \A m \in Elements(served) : m <= arrived /\ m \in Nat
  <2>1. served \in Seq(Messages)
    BY DEF ServedInv, Numbered, IrisTypeOK
  <2>2. Elements(served) \subseteq Nat
    BY <2>1, LenProperties DEF Elements, Messages
  <2> QED BY <2>2 DEF irisVars, ServedInv, ServedSound
<1>6. SightSound'
  <2>1. \A f \in InSight' : f.msg <= arrived'
    BY <1>1, <1>2, <1>3, <1>4
  <2>2. \A f, g \in InSight' : f.msg = g.msg => f = g
    BY <1>1, <1>2, <1>3, <1>4 DEF ServedInv, SightSound
  <2>3. \A f \in InSight' : f.msg \in Elements(served') => f.seq \in turns'[f.conv]
    BY <1>1, <1>2, <1>3, <1>4, <1>5 DEF ServedInv, SightSound
  <2> QED BY <2>1, <2>2, <2>3 DEF SightSound
<1>7. ServedSound'
  <2>1. \A m \in Elements(served') : m <= arrived'
    BY <1>1, <1>5
  <2> QED BY <2>1 DEF ServedInv, ServedSound, ServedAtMostOnce, irisVars
<1>8. HandlerSound'
  BY DEF ServedInv, HandlerSound, irisVars, Current, Elements
<1> QED BY <1>6, <1>7, <1>8

\* The one step that answers: its message is stored, and was not answered yet.
LEMMA RunLoopKeepsServed ==
  ASSUME ServedInv, RunLoop
  PROVE  SightSound' /\ ServedSound' /\ HandlerSound'
<1>1. /\ Numbered /\ poller.pc = "run" /\ poller.pc # "poll" /\ turns' = turns
      /\ arrived' = arrived /\ served' = Append(served, Current.msg)
      /\ Advance \/ Goto("post")
      /\ UNCHANGED brokerVars
  BY DEF ServedInv, RunLoop, brokerVars
<1>2. /\ Current \in InSight /\ Current.msg \in Messages
      /\ served \in Seq(Messages)
  BY <1>1, CurrentFacts DEF InSight, Event, Numbered, IrisTypeOK
<1>3. Elements(served') = Elements(served) \cup {Current.msg}
  BY <1>1, <1>2, AppendElements
<1>4. /\ Current.msg \notin Elements(served)
      /\ Current.seq \in turns[Current.conv]
  BY <1>1 DEF ServedInv, HandlerSound
<1>5. InSight' \subseteq InSight /\ poller'.pc \in {"poll", "check", "post"}
  <2>1. /\ Elements(poller'.batch) \subseteq Elements(poller.batch)
        /\ poller'.pc \in {"poll", "check", "post"}
    BY <1>1, AdvanceFacts, GotoFacts
  <2>2. broker' = broker
    BY DEF RunLoop, brokerVars
  <2> QED BY <2>1, <2>2 DEF InSight
<1>6. SightSound'
  BY <1>1, <1>2, <1>3, <1>4, <1>5 DEF ServedInv, SightSound
<1>7. ServedSound'
  <2>1. \A m \in Elements(served') : m <= arrived'
    BY <1>1, <1>2, <1>3 DEF ServedInv, SightSound, ServedSound
  <2>2. /\ Len(served) \in Nat /\ DOMAIN served = 1 .. Len(served)
        /\ DOMAIN served' = 1 .. Len(served) + 1 /\ served'[Len(served) + 1] = Current.msg
        /\ \A i \in 1 .. Len(served) : served'[i] = served[i]
    BY <1>1, <1>2, AppendProperties, LenProperties
  <2>3. \A i \in 1 .. Len(served) : served[i] # Current.msg
    BY <1>4, <2>2 DEF Elements
  <2>4. ServedAtMostOnce'
    BY <2>2, <2>3 DEF ServedInv, ServedSound, ServedAtMostOnce
  <2> QED BY <2>1, <2>4 DEF ServedSound
<1>8. HandlerSound'
  BY <1>5 DEF HandlerSound
<1> QED BY <1>6, <1>7, <1>8

LEMMA IrisKeepsServed ==
  ASSUME ServedInv, IrisStep \/ IrisRestart
  PROVE  SightSound' /\ ServedSound' /\ HandlerSound'
<1> USE DEF ServedInv
<1>1. CASE Poll
  <2>1. InSight' \subseteq InSight
    BY <1>1, PollFacts, BatchShrinks DEF Poll, InSight
  <2> QED BY <1>1, <2>1, PollFacts, NothingNewKeeps DEF Poll, brokerVars, HandlerSound
<1>2. CASE Check
  <2>1. /\ poller.pc # "poll" /\ UNCHANGED brokerVars /\ served' = served /\ turns' = turns
        /\ \/ Advance
           \/ Current.seq \notin turns[Current.conv] /\ Goto("append")
           \/ Goto("greet")
    BY <1>2 DEF Check
  <2>2. InSight' \subseteq InSight
    BY <2>1, AdvanceFacts, GotoFacts, BatchShrinks DEF InSight
  <2>3. HandlerSound'
    <3>1. CASE Advance
      BY <2>1, <3>1, AdvanceFacts DEF HandlerSound
    <3>2. CASE Goto("greet")
      BY <2>1, <3>2, GotoFacts DEF HandlerSound
    <3>3. CASE Current.seq \notin turns[Current.conv] /\ Goto("append")
      <4>1. Current.msg \notin Elements(served)
        BY <2>1, <3>3, CurrentFacts DEF InSight, SightSound
      <4>2. Current' = Current /\ poller'.pc = "append" /\ Elements(served') = Elements(served)
        BY <2>1, <3>3, GotoFacts DEF Current
      <4> QED BY <4>1, <4>2 DEF HandlerSound
    <3> QED BY <2>1, <3>1, <3>2, <3>3
  <2> QED BY <2>1, <2>2, <2>3, NothingNewKeeps DEF brokerVars
<1>3. CASE Greet
  <2>1. /\ poller.pc # "poll" /\ UNCHANGED brokerVars /\ served' = served /\ turns' = turns
        /\ Advance \/ Goto("note")
    BY <1>3 DEF Greet
  <2>2. InSight' \subseteq InSight /\ HandlerSound'
    BY <2>1, AdvanceFacts, GotoFacts, BatchShrinks DEF InSight, HandlerSound
  <2> QED BY <2>1, <2>2, NothingNewKeeps DEF brokerVars
<1>4. CASE Note
  <2>1. /\ poller.pc # "poll" /\ UNCHANGED brokerVars /\ served' = served
        /\ Record \/ UNCHANGED turns
        /\ Advance
    BY <1>4 DEF Note
  <2>2. InSight' \subseteq InSight /\ HandlerSound'
    BY <2>1, AdvanceFacts, BatchShrinks DEF InSight, HandlerSound
  <2> QED BY <2>1, <2>2, RecordFacts, NothingNewKeeps DEF brokerVars
<1>5. CASE AppendTurn
  <2>1. /\ poller.pc # "poll" /\ UNCHANGED brokerVars /\ served' = served
        /\ poller.pc = "append"
    BY <1>5 DEF AppendTurn
  <2>2. \/ (Record \/ UNCHANGED turns) /\ Advance
        \/ Record /\ Goto("run")
    BY <1>5 DEF AppendTurn
  <2>3. InSight' \subseteq InSight
    BY <2>1, <2>2, AdvanceFacts, GotoFacts, BatchShrinks DEF InSight
  <2>4. HandlerSound'
    <3>1. CASE Advance
      BY <2>1, <3>1, AdvanceFacts DEF HandlerSound
    <3>2. CASE Record /\ Goto("run")
      <4>1. Current' = Current /\ poller'.pc = "run" /\ Elements(served') = Elements(served)
        BY <2>1, <3>2, GotoFacts DEF Current
      <4> QED BY <2>1, <3>2, <4>1, RecordFacts DEF HandlerSound
    <3> QED BY <2>2, <3>1, <3>2
  <2> QED BY <2>1, <2>2, <2>3, <2>4, RecordFacts, NothingNewKeeps DEF brokerVars
<1>6. CASE RunLoop
  BY <1>6, RunLoopKeepsServed
<1>7. CASE PostReply
  <2>1. /\ poller.pc # "poll" /\ UNCHANGED brokerVars /\ served' = served /\ turns' = turns
        /\ Advance
    BY <1>7 DEF PostReply
  <2>2. InSight' \subseteq InSight /\ HandlerSound'
    BY <2>1, AdvanceFacts, BatchShrinks DEF InSight, HandlerSound
  <2> QED BY <2>1, <2>2, NothingNewKeeps DEF brokerVars
<1>8. CASE IrisRestart
  <2>1. /\ UNCHANGED brokerVars /\ served' = served /\ turns' = turns
        /\ poller'.pc = "poll" /\ poller'.batch = <<>>
    BY <1>8 DEF IrisRestart, Fresh
  <2>2. InSight' \subseteq InSight /\ HandlerSound'
    BY <2>1, BatchShrinks DEF Elements, HandlerSound
  <2> QED BY <2>1, <2>2, NothingNewKeeps DEF brokerVars
<1> QED BY <1>1, <1>2, <1>3, <1>4, <1>5, <1>6, <1>7, <1>8 DEF IrisStep

LEMMA StepKeepsServed == ServedInv /\ [Next]_vars => ServedInv'
<1> SUFFICES ASSUME ServedInv, [Next]_vars PROVE SightSound' /\ ServedSound' /\ HandlerSound'
  BY StepKeepsNumbered DEF ServedInv
<1>1. ASSUME NEW c \in Conversations, NEW bare \in BOOLEAN, Deliver(c, bare), UNCHANGED irisVars
      PROVE  SightSound' /\ ServedSound' /\ HandlerSound'
  BY <1>1, DeliverKeepsServed
<1>2. CASE BrokerRestart /\ UNCHANGED irisVars
  <2>1. InSight' \subseteq InSight
    BY <1>2 DEF BrokerRestart, irisVars, InSight, Elements
  <2>2. HandlerSound'
    BY <1>2 DEF irisVars, ServedInv, HandlerSound, Current, Elements
  <2> QED BY <1>2, <2>1, <2>2, NothingNewKeeps DEF BrokerRestart, irisVars
<1>3. CASE IrisStep \/ IrisRestart
  BY <1>3, IrisKeepsServed
<1>4. CASE UNCHANGED vars
  BY <1>4 DEF vars, brokerVars, irisVars, ServedInv, SightSound, ServedSound,
              ServedAtMostOnce, HandlerSound, InSight, Current, Elements
<1> QED BY <1>1, <1>2, <1>3, <1>4 DEF Next, BrokerNext

LEMMA InitServed == Init => ServedInv
<1> SUFFICES ASSUME Init PROVE ServedInv
  OBVIOUS
<1>1. Numbered
  BY InitNumbered
<1>2. broker.events = <<>> /\ poller.batch = <<>> /\ served = <<>> /\ poller.pc = "poll"
  BY DEF Init, BrokerInit, Fresh
<1>3. InSight = {} /\ Elements(served) = {}
  BY <1>2 DEF InSight, Elements
<1>4. ServedAtMostOnce
  BY <1>2 DEF ServedAtMostOnce
<1> QED BY <1>1, <1>2, <1>3, <1>4 DEF ServedInv, SightSound, ServedSound, HandlerSound

(***************************************************************************)
(* The model is run at most once for a message, in every history of        *)
(* restarts of Minos and of the pod, of failing calls, and of rings that   *)
(* overflow: what a new pod reads again is in the turns.                   *)
(***************************************************************************)
THEOREM AnsweredOnce == Spec => []ServedAtMostOnce
<1>1. ServedInv => ServedAtMostOnce
  BY DEF ServedInv, ServedSound
<1> QED BY <1>1, InitServed, StepKeepsServed, PTL DEF Spec

-----------------------------------------------------------------------------
(***************************************************************************)
(* The cursor.  As long as the first broker lives, messages are numbered   *)
(* as they arrive; whatever is below the cursor, or below the head of the  *)
(* batch, has been handed over; and the batch has no gaps.                 *)
(***************************************************************************)
NumberedAsTheyArrive ==
  /\ broker.next = arrived + 1
  /\ \A e \in InSight : e.seq = e.msg /\ e.msg <= arrived
  /\ poller.last \in {0, 1} /\ poller.since <= arrived

BatchGapless ==
  \A i \in 1 .. Len(poller.batch) - 1 : poller.batch[i + 1].seq = poller.batch[i].seq + 1

BelowHanded ==
  /\ \A e \in Elements(broker.events) : e.seq <= poller.since => e.msg \in handed
  /\ poller.batch # <<>> =>
       \A e \in Elements(broker.events) : e.seq < poller.batch[1].seq => e.msg \in handed
  /\ poller.pc \notin {"poll", "check"} => Current.msg \in handed

CursorInv ==
  /\ Numbered
  /\ broker.instance = 1 => NumberedAsTheyArrive /\ BatchGapless /\ BelowHanded

\* Handle has returned for the head of the batch, which is in handed by now.
LEMMA AdvanceKeepsCursor ==
  ASSUME CursorInv, broker.instance = 1, poller.pc # "poll", Advance,
         UNCHANGED brokerVars, handed \subseteq handed', Current.msg \in handed'
  PROVE  NumberedAsTheyArrive' /\ BatchGapless' /\ BelowHanded'
<1> USE DEF CursorInv
<1>1. /\ poller'.pc \in {"poll", "check"} /\ poller'.last = poller.last
      /\ poller'.batch = Tail(poller.batch)
      /\ Elements(poller'.batch) \subseteq Elements(poller.batch)
      /\ poller'.since = IF Current.seq > poller.since THEN Current.seq ELSE poller.since
  BY AdvanceFacts
<1>2. /\ Current \in Event /\ Current = poller.batch[1] /\ Current \in InSight
      /\ poller.batch \in Seq(Event) /\ poller.batch # <<>>
  BY CurrentFacts DEF InSight
<1>3. /\ broker' = broker /\ arrived' = arrived /\ InSight' \subseteq InSight
      /\ Elements(broker'.events) = Elements(broker.events)
  BY <1>1 DEF brokerVars, InSight
<1>4. /\ Current.seq \in Nat /\ Current.seq = Current.msg /\ Current.msg <= arrived
      /\ poller.since \in Nat /\ arrived \in Nat
  BY <1>2 DEF Event, Messages, NumberedAsTheyArrive, Numbered, IrisTypeOK, Poller
<1>5. NumberedAsTheyArrive'
  BY <1>1, <1>3, <1>4 DEF NumberedAsTheyArrive
<1>6. /\ Len(poller.batch) \in Nat \ {0} /\ Len(Tail(poller.batch)) = Len(poller.batch) - 1
      /\ \A i \in 1 .. Len(Tail(poller.batch)) : Tail(poller.batch)[i] = poller.batch[i + 1]
      /\ \A i \in 1 .. Len(poller.batch) : poller.batch[i].seq \in Nat
  <2>1. Len(poller.batch) \in Nat \ {0}
    BY <1>2, EmptySeq
  <2>2. \A i \in 1 .. Len(poller.batch) : poller.batch[i] \in Event
    BY <1>2, ElementOfSeq
  <2>3. \A i \in 1 .. Len(poller.batch) : poller.batch[i].seq \in Nat
    BY <2>2 DEF Event, Messages
  <2> QED BY <1>2, <2>1, <2>3, HeadTailProperties
<1>7. BatchGapless'
  <2> SUFFICES ASSUME NEW i \in 1 .. Len(poller.batch) - 2
               PROVE  Tail(poller.batch)[i + 1].seq = Tail(poller.batch)[i].seq + 1
    BY <1>1, <1>6 DEF BatchGapless
  <2>1. /\ i + 1 \in 1 .. Len(poller.batch) - 1
        /\ i \in 1 .. Len(Tail(poller.batch)) /\ i + 1 \in 1 .. Len(Tail(poller.batch))
    BY <1>6
  <2>2. /\ Tail(poller.batch)[i] = poller.batch[i + 1]
        /\ Tail(poller.batch)[i + 1] = poller.batch[i + 1 + 1]
    BY <1>6, <2>1
  <2>3. poller.batch[i + 1 + 1].seq = poller.batch[i + 1].seq + 1
    BY <2>1 DEF BatchGapless
  <2> QED BY <2>2, <2>3
<1>8. ASSUME NEW e \in Elements(broker.events), e.seq <= Current.seq
      PROVE  e.msg \in handed'
  <2>1. e.seq \in Nat /\ e.seq = e.msg
    BY InSightEvents DEF InSight, Event, Messages, NumberedAsTheyArrive
  <2>2. CASE e.seq = Current.seq
    BY <1>4, <2>1, <2>2
  <2>3. CASE e.seq < Current.seq
    BY <1>2, <2>3 DEF BelowHanded
  <2> QED BY <1>4, <1>8, <2>1, <2>2, <2>3
<1>9. \A e \in Elements(broker.events) : e.seq <= poller'.since => e.msg \in handed'
  BY <1>1, <1>8 DEF BelowHanded
<1>10. ASSUME poller'.batch # <<>>, NEW e \in Elements(broker.events),
              e.seq < poller'.batch[1].seq
       PROVE  e.msg \in handed'
  <2>1. Tail(poller.batch) # <<>>
    BY <1>1, <1>10
  <2>2. 1 \in 1 .. Len(poller.batch) - 1 /\ Len(Tail(poller.batch)) = Len(poller.batch) - 1
    BY <1>2, <1>6, <2>1, LongerThanOne
  <2>3. poller'.batch[1].seq = Current.seq + 1
    <3>1. Tail(poller.batch)[1] = poller.batch[1 + 1]
      BY <1>6, <2>2
    <3> QED BY <1>1, <1>2, <2>2, <3>1 DEF BatchGapless
  <2>4. e.seq \in Nat
    BY InSightEvents DEF InSight, Event, Messages
  <2>5. e.seq <= Current.seq
    BY <1>4, <1>10, <2>3, <2>4
  <2> QED BY <1>8, <2>5
<1>11. BelowHanded'
  BY <1>1, <1>3, <1>9, <1>10 DEF BelowHanded
<1> QED BY <1>5, <1>7, <1>11

\* A new batch begins right above the cursor.
LEMMA PollKeepsCursor ==
  ASSUME CursorInv, broker.instance = 1, Poll
  PROVE  NumberedAsTheyArrive' /\ BatchGapless' /\ BelowHanded'
<1> USE DEF CursorInv
<1> DEFINE n == Behind(poller.since)
<1>1. /\ UNCHANGED brokerVars /\ handed' = handed
      /\ poller'.pc \in {"poll", "check"} /\ poller'.last = 1
      /\ poller'.batch = Collect(poller.since, MaxBatch)
      /\ Elements(poller'.batch) \subseteq Elements(broker.events)
      /\ poller'.since = poller.since
  BY PollFacts DEF Poll, NumberedAsTheyArrive
<1>2. poller.since \in Nat
  BY DEF Numbered, IrisTypeOK, Poller, Messages
<1>3. /\ n \in 0 .. Len(broker.events)
      /\ \A i \in 1 .. Len(broker.events) : broker.events[i].seq <= poller.since <=> i <= n
      /\ poller'.batch \in Seq(Event)
      /\ \A i \in 1 .. Len(poller'.batch) : /\ n + i \in 1 .. Len(broker.events)
                                          /\ poller'.batch[i] = broker.events[n + i]
  <2>1. MaxBatch \in Nat /\ Numbered
    OBVIOUS
  <2>2. /\ n \in 0 .. Len(broker.events)
        /\ \A i \in 1 .. Len(broker.events) : broker.events[i].seq <= poller.since <=> i <= n
    BY <1>2, <2>1, BehindFacts
  <2>3. /\ Collect(poller.since, MaxBatch) \in Seq(Event)
        /\ \A i \in 1 .. Len(Collect(poller.since, MaxBatch)) :
             /\ n + i \in 1 .. Len(broker.events)
             /\ Collect(poller.since, MaxBatch)[i] = broker.events[n + i]
    BY <1>2, <2>1, CollectFacts
  <2> HIDE DEF n
  <2> QED BY <1>1, <2>2, <2>3
<1> HIDE DEF n
<1>4. /\ Len(broker.events) \in Nat /\ DOMAIN broker.events = 1 .. Len(broker.events)
      /\ broker.next \in Nat
      /\ \A i \in 1 .. Len(broker.events) :
           broker.events[i].seq = broker.next - 1 - Len(broker.events) + i
  BY RingFacts DEF Numbered, RingInOrder
<1>5. InSight' \subseteq InSight /\ Elements(broker'.events) = Elements(broker.events)
  BY <1>1 DEF InSight, brokerVars
<1>6. NumberedAsTheyArrive'
  BY <1>1, <1>5 DEF NumberedAsTheyArrive, brokerVars
<1>7. Len(poller'.batch) \in Nat
  BY <1>3, LenProperties
<1>8. BatchGapless'
  <2> SUFFICES ASSUME NEW i \in 1 .. Len(poller'.batch) - 1
               PROVE  poller'.batch[i + 1].seq = poller'.batch[i].seq + 1
    BY DEF BatchGapless
  <2>1. i \in 1 .. Len(poller'.batch) /\ i + 1 \in 1 .. Len(poller'.batch)
    BY <1>7
  <2>2. /\ poller'.batch[i].seq = broker.next - 1 - Len(broker.events) + (n + i)
        /\ poller'.batch[i + 1].seq = broker.next - 1 - Len(broker.events) + (n + (i + 1))
    BY <1>3, <1>4, <2>1
  <2> QED BY <1>3, <1>4, <1>7, <2>2
<1>9. ASSUME poller'.batch # <<>>, NEW e \in Elements(broker.events),
             e.seq < poller'.batch[1].seq
      PROVE  e.msg \in handed
  <2>1. Len(poller'.batch) \in Nat \ {0}
    BY <1>3, <1>9, EmptySeq
  <2>2. 1 \in 1 .. Len(poller'.batch)
    BY <2>1
  <2>3. PICK i \in 1 .. Len(broker.events) : e = broker.events[i]
    BY <1>4 DEF Elements
  <2>4. /\ poller'.batch[1].seq = broker.next - 1 - Len(broker.events) + (n + 1)
        /\ e.seq = broker.next - 1 - Len(broker.events) + i
    BY <1>3, <1>4, <2>2, <2>3
  <2>5. i <= n
    BY <1>3, <1>4, <1>9, <2>4
  <2>6. e.seq <= poller.since
    BY <1>3, <2>3, <2>5
  <2> QED BY <2>6 DEF BelowHanded
<1>10. BelowHanded'
  BY <1>1, <1>5, <1>9 DEF BelowHanded
<1> QED BY <1>6, <1>8, <1>10

LEMMA DeliverKeepsCursor ==
  ASSUME CursorInv, broker.instance = 1, NEW c \in Conversations, NEW bare \in BOOLEAN,
         Deliver(c, bare), UNCHANGED irisVars
  PROVE  NumberedAsTheyArrive' /\ BatchGapless' /\ BelowHanded'
<1> USE DEF CursorInv
<1> DEFINE e == [seq |-> broker.next, msg |-> arrived', conv |-> c, bare |-> bare]
<1>1. /\ arrived' = arrived + 1 /\ broker'.next = broker.next + 1
      /\ Elements(broker'.events) \subseteq Elements(broker.events) \cup {e}
  <2> HIDE DEF e
  <2>1. e = [seq |-> broker.next, msg |-> arrived', conv |-> c, bare |-> bare]
    BY DEF e
  <2> QED BY <2>1, DeliverFacts
<1>2. /\ poller' = poller /\ handed' = handed /\ poller.since \in Nat /\ arrived \in Nat
      /\ poller.since <= arrived
  BY DEF irisVars, Numbered, IrisTypeOK, Poller, Messages, NumberedAsTheyArrive
<1>3. e.seq = arrived + 1 /\ e.msg = arrived + 1
  BY <1>1 DEF NumberedAsTheyArrive
<1> HIDE DEF e
<1>4. InSight' \subseteq InSight \cup {e}
  BY <1>1, <1>2 DEF InSight
<1>5. \A f \in InSight : f.msg \in Nat /\ f.msg <= arrived /\ f.seq = f.msg
  BY InSightEvents DEF NumberedAsTheyArrive, Event, Messages
<1>6. NumberedAsTheyArrive'
  <2>1. \A f \in InSight' : f.seq = f.msg /\ f.msg <= arrived'
    BY <1>1, <1>2, <1>3, <1>4, <1>5
  <2>2. broker'.next = arrived' + 1 /\ poller'.last \in {0, 1} /\ poller'.since <= arrived'
    BY <1>1, <1>2 DEF NumberedAsTheyArrive
  <2> QED BY <2>1, <2>2 DEF NumberedAsTheyArrive
<1>7. \A f \in Elements(broker'.events) : f.seq <= poller.since => f.msg \in handed
  BY <1>1, <1>2, <1>3 DEF BelowHanded
<1>8. ASSUME poller.batch # <<>>, NEW f \in Elements(broker'.events),
             f.seq < poller.batch[1].seq
      PROVE  f.msg \in handed
  <2>1. poller.batch \in Seq(Event)
    BY DEF Numbered, IrisTypeOK, Poller
  <2>2. poller.batch[1] \in InSight
    BY <1>8, <2>1, HeadTailElements DEF InSight
  <2>3. poller.batch[1].seq <= arrived /\ poller.batch[1].seq \in Nat
    BY <1>5, <2>2
  <2> QED BY <1>1, <1>2, <1>3, <1>8, <2>3 DEF BelowHanded
<1>9. BatchGapless' /\ BelowHanded'
  BY <1>2, <1>7, <1>8 DEF BatchGapless, BelowHanded, Current
<1> QED BY <1>6, <1>9

\* The steps that leave the poller at the same event.
LEMMA StayKeepsCursor ==
  ASSUME CursorInv, broker.instance = 1, UNCHANGED brokerVars,
         poller'.batch = poller.batch, poller'.since = poller.since,
         poller'.last = poller.last, handed \subseteq handed',
         poller.pc \notin {"poll", "check"} \/ Current.msg \in handed'
  PROVE  NumberedAsTheyArrive' /\ BatchGapless' /\ BelowHanded'
<1>1. /\ broker' = broker /\ arrived' = arrived /\ Current' = Current
      /\ InSight' = InSight /\ Elements(broker'.events) = Elements(broker.events)
  BY DEF brokerVars, InSight, Current
<1>2. NumberedAsTheyArrive'
  BY <1>1 DEF CursorInv, NumberedAsTheyArrive
<1>3. BatchGapless'
  BY DEF CursorInv, BatchGapless
<1>4. BelowHanded'
  BY <1>1 DEF CursorInv, BelowHanded
<1> QED BY <1>2, <1>3, <1>4

LEMMA IrisKeepsCursor ==
  ASSUME CursorInv, broker.instance = 1, IrisStep \/ IrisRestart
  PROVE  NumberedAsTheyArrive' /\ BatchGapless' /\ BelowHanded'
<1>1. CASE Poll
  BY <1>1, PollKeepsCursor
<1>2. CASE Check
  <2>1. /\ poller.pc # "poll" /\ UNCHANGED brokerVars
        /\ handed' = handed \cup {Current.msg}
        /\ Advance \/ Goto("greet") \/ Goto("append")
    BY <1>2 DEF Check
  <2>2. CASE Advance
    BY <2>1, <2>2, AdvanceKeepsCursor
  <2>3. CASE Goto("greet") \/ Goto("append")
    <3>1. /\ poller'.batch = poller.batch /\ poller'.since = poller.since
          /\ poller'.last = poller.last
      BY <2>1, <2>3, GotoFacts DEF CursorInv
    <3> QED BY <2>1, <3>1, StayKeepsCursor
  <2> QED BY <2>1, <2>2, <2>3
<1>3. CASE Greet \/ Note \/ AppendTurn \/ RunLoop \/ PostReply
  <2>1. /\ poller.pc \notin {"poll", "check"} /\ UNCHANGED brokerVars /\ handed' = handed
        /\ Advance \/ Goto("note") \/ Goto("run") \/ Goto("post")
    BY <1>3 DEF Greet, Note, AppendTurn, RunLoop, PostReply
  <2>2. poller.pc # "poll" /\ Current.msg \in handed'
    BY <2>1 DEF CursorInv, BelowHanded
  <2>3. CASE Advance
    BY <2>1, <2>2, <2>3, AdvanceKeepsCursor
  <2>4. CASE Goto("note") \/ Goto("run") \/ Goto("post")
    <3>1. /\ poller'.batch = poller.batch /\ poller'.since = poller.since
          /\ poller'.last = poller.last
      BY <2>2, <2>4, GotoFacts DEF CursorInv
    <3> QED BY <2>1, <2>2, <3>1, StayKeepsCursor
  <2> QED BY <2>1, <2>3, <2>4
<1>4. CASE IrisRestart
  <2>1. /\ broker' = broker /\ arrived' = arrived /\ handed' = handed
        /\ poller' = [pc |-> "poll", since |-> 0, last |-> 0, batch |-> <<>>]
    BY <1>4 DEF IrisRestart, Fresh, brokerVars
  <2>2. arrived \in Nat
    BY DEF CursorInv, Numbered, IrisTypeOK
  <2>3. InSight' \subseteq InSight
    BY <2>1 DEF InSight, Elements
  <2>4. NumberedAsTheyArrive'
    BY <2>1, <2>2, <2>3 DEF CursorInv, NumberedAsTheyArrive
  <2>5. BatchGapless'
    BY <2>1, EmptySeq DEF BatchGapless
  <2>6. \A e \in Elements(broker.events) : e.seq \in Nat \ {0}
    BY InSightEvents DEF CursorInv, InSight, Event, Messages
  <2>7. BelowHanded'
    <3>1. Elements(broker'.events) = Elements(broker.events)
      BY <2>1
    <3>2. \A e \in Elements(broker.events) : ~ (e.seq <= 0)
      BY <2>6
    <3> QED BY <2>1, <3>1, <3>2 DEF BelowHanded
  <2> QED BY <2>4, <2>5, <2>7
<1> QED BY <1>1, <1>2, <1>3, <1>4 DEF IrisStep

LEMMA StepKeepsCursor == CursorInv /\ [Next]_vars => CursorInv'
<1> SUFFICES ASSUME CursorInv, [Next]_vars, broker'.instance = 1
             PROVE  NumberedAsTheyArrive' /\ BatchGapless' /\ BelowHanded'
  BY StepKeepsNumbered DEF CursorInv
<1>1. ASSUME NEW c \in Conversations, NEW bare \in BOOLEAN, Deliver(c, bare), UNCHANGED irisVars
      PROVE  NumberedAsTheyArrive' /\ BatchGapless' /\ BelowHanded'
  <2>1. broker.instance = 1
    BY <1>1 DEF Deliver, CursorInv, Numbered, IrisTypeOK, Broker
  <2> QED BY <1>1, <2>1, DeliverKeepsCursor
<1>2. CASE BrokerRestart /\ UNCHANGED irisVars
  <2>1. broker.instance \in Nat \ {0} /\ broker'.instance = broker.instance + 1
    BY <1>2 DEF BrokerRestart, CursorInv, Numbered, IrisTypeOK, Broker
  <2> QED BY <2>1
<1>3. CASE IrisStep \/ IrisRestart
  <2>1. broker' = broker
    BY <1>3 DEF IrisStep, Poll, Check, Greet, Note, AppendTurn, RunLoop, PostReply,
                IrisRestart, brokerVars
  <2> QED BY <1>3, <2>1, IrisKeepsCursor
<1>4. CASE UNCHANGED vars
  BY <1>4 DEF vars, brokerVars, irisVars, CursorInv, NumberedAsTheyArrive, BatchGapless,
              BelowHanded, InSight, Current, Elements
<1> QED BY <1>1, <1>2, <1>3, <1>4 DEF Next, BrokerNext

LEMMA InitCursor == Init => CursorInv
<1> SUFFICES ASSUME Init PROVE CursorInv
  OBVIOUS
<1>1. /\ broker = [instance |-> 1, next |-> 1, events |-> <<>>] /\ arrived = 0
      /\ poller = [pc |-> "poll", since |-> 0, last |-> 0, batch |-> <<>>]
  BY DEF Init, BrokerInit, Fresh
<1>2. InSight = {} /\ Elements(broker.events) = {}
  BY <1>1 DEF InSight, Elements
<1>3. NumberedAsTheyArrive /\ BelowHanded
  BY <1>1, <1>2 DEF NumberedAsTheyArrive, BelowHanded
<1>4. BatchGapless
  BY <1>1, EmptySeq DEF BatchGapless
<1> QED BY InitNumbered, <1>3, <1>4 DEF CursorInv

(***************************************************************************)
(* While the broker lives the cursor passes no message that was not given  *)
(* to Handle, whatever fails, however often the pod is replaced, and       *)
(* whatever the ring drops.                                                *)
(***************************************************************************)
THEOREM CursorPassesNone == Spec => []CursorSound
<1>1. CursorInv => CursorSound
  BY DEF CursorInv, BelowHanded, CursorSound, Skipped
<1> QED BY <1>1, InitCursor, StepKeepsCursor, PTL DEF Spec
=============================================================================
