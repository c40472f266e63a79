----------------------------- MODULE PullBuffer -----------------------------
(***************************************************************************)
(* The inbox of Iris on the Hermes broker (hermes/core): a ring buffer     *)
(* inside the Minos process that numbers the messages addressed to Iris    *)
(* and hands out those above a cursor the consumer presents.  Nothing of   *)
(* it survives a restart of Minos but the instance id, which changes.      *)
(***************************************************************************)
EXTENDS Naturals, Sequences

CONSTANTS
  Conversations,  \* (surface, thread, user) triples
  MaxMessages,    \* bound: messages that reach the broker
  Capacity,       \* irisPullCapacity
  MaxRestarts     \* bound: restarts of Minos

ASSUME CapacityAssumption    == Capacity \in Nat \ {0}
ASSUME MaxMessagesAssumption == MaxMessages \in Nat
ASSUME MaxRestartsAssumption == MaxRestarts \in Nat

VARIABLES
  arrived,   \* how many messages have been delivered to a broker
  broker     \* the broker that is running

brokerVars == <<arrived, broker>>

\* Messages are named by the order in which they arrive, whatever broker they
\* reach; seq is their number there.  bare: "@iris" and nothing else.
Messages == 1 .. MaxMessages
Event    == [seq : Messages, msg : Messages, conv : Conversations, bare : BOOLEAN]
Broker   == [instance : 1 .. MaxRestarts + 1, next : 1 .. MaxMessages + 1, events : Seq(Event)]

Elements(s) == {s[i] : i \in DOMAIN s}

BrokerInit ==
  /\ arrived = 0
  /\ broker = [instance |-> 1, next |-> 1, events |-> <<>>]

\* Variant: the ring grows.
NewestUncapped(s) == s

\* The oldest event goes when the ring is full.
Newest(s) == IF Len(s) > Capacity THEN SubSeq(s, Len(s) - Capacity + 1, Len(s)) ELSE s

\* deliver, and push into the ring of Iris.
Deliver(c, bare) ==
  /\ arrived < MaxMessages
  /\ arrived' = arrived + 1
  /\ broker' = [broker EXCEPT
       !.next   = @ + 1,
       !.events = Newest(Append(@, [seq |-> broker.next, msg |-> arrived', conv |-> c,
                                    bare |-> bare]))]

\* The ring is in the order of the numbers, so the events at or below a cursor
\* are its first few.
Behind(since) ==
  CHOOSE n \in 0 .. Len(broker.events) :
    \A i \in DOMAIN broker.events : broker.events[i].seq <= since <=> i <= n

\* Up to max events above the cursor, oldest first.
Collect(since, max) ==
  LET n    == Behind(since)
      upto == IF n + max < Len(broker.events) THEN n + max ELSE Len(broker.events)
  IN  SubSeq(broker.events, n + 1, upto)

\* A new Minos process.  What arrives while there is none reaches no broker.
BrokerRestart ==
  /\ broker.instance <= MaxRestarts
  /\ broker' = [instance |-> broker.instance + 1, next |-> 1, events |-> <<>>]
  /\ UNCHANGED arrived

BrokerNext ==
  \/ \E c \in Conversations, bare \in BOOLEAN : Deliver(c, bare)
  \/ BrokerRestart
=============================================================================
