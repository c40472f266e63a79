------------------------- MODULE Deliveries_proofs -------------------------
(***************************************************************************)
(* The two windows of cerberus fit together, for every choice of them that *)
(* keeps WindowCoversSkew, any number of deliveries and requests, any      *)
(* delays of their bodies, and restarts.                                   *)
(***************************************************************************)
EXTENDS Deliveries, TLAPS

\* A request past the timestamp check carries a time that was in the window of
\* its stamp and is not older than the longest stall.
VerifiedInTime ==
  \A v \in verified :
    /\ v.at <= now
    /\ now - v.at <= Stall
    /\ v.at - stamp[v.id] <= Skew
    /\ stamp[v.id] - v.at <= Skew

\* What the store knows of a Slack request was recorded in that window.
RecordedInTime == \A r \in Slack : seen[r] # Never => stamp[r] - seen[r] <= Skew

\* A request that was let through is in the store, until it is too old for any
\* copy, those still being read included.
AcceptedIsSeen ==
  \A r \in Slack : accepted[r] >= 1 => seen[r] # Never \/ now > stamp[r] + Skew + Stall

DeliveriesInv ==
  /\ DeliveriesTypeOK
  /\ VerifiedInTime
  /\ RecordedInTime
  /\ AcceptedIsSeen
  /\ SlackOnce

-----------------------------------------------------------------------------
(***************************************************************************)
(* The replay store.                                                       *)
(***************************************************************************)

\* The sweep drops nothing but what is older than the window, in memory.
LEMMA KeptRows ==
  ASSUME DeliveriesTypeOK, NEW t \in Times, NEW k \in Ids
  PROVE  \/ Kept(t)[k] = seen[k]
         \/ Kept(t)[k] = Never /\ backend = "memory" /\ seen[k] < t - Window
  BY DEF Kept

LEMMA KeptType ==
  ASSUME DeliveriesTypeOK, NEW t \in Times
  PROVE  Kept(t) \in [Ids -> Times \cup {Never}]
  BY DEF Kept, DeliveriesTypeOK

LEMMA SeenType ==
  ASSUME DeliveriesTypeOK, NEW t \in Times, NEW k \in Ids, Seen(k, t)
  PROVE  /\ seen' \in [Ids -> Times \cup {Never}]
         /\ accepted' \in [Ids -> 0 .. 2]
<1>1. Kept(t) \in [Ids -> Times \cup {Never}] /\ accepted \in [Ids -> 0 .. 2]
  BY KeptType DEF DeliveriesTypeOK
<1>2. (IF accepted[k] < 2 THEN accepted[k] + 1 ELSE accepted[k]) \in 0 .. 2
  BY <1>1
<1> QED
  BY <1>1, <1>2 DEF Seen

\* Seen answers for its own key, and sweeps the others.
LEMMA SeenRows ==
  ASSUME DeliveriesTypeOK, NEW t \in Times, NEW k \in Ids, Seen(k, t)
  PROVE  /\ \A i \in Ids \ {k} : seen'[i] = Kept(t)[i] /\ accepted'[i] = accepted[i]
         /\ \/ /\ Kept(t)[k] = Never
               /\ seen'[k] = t
               /\ accepted'[k] = IF accepted[k] < 2 THEN accepted[k] + 1 ELSE accepted[k]
            \/ /\ Kept(t)[k] # Never
               /\ seen'[k] = Kept(t)[k]
               /\ accepted'[k] = accepted[k]
<1>1. Kept(t) \in [Ids -> Times \cup {Never}] /\ accepted \in [Ids -> 0 .. 2]
  BY KeptType DEF DeliveriesTypeOK
<1> QED
  BY <1>1 DEF Seen

-----------------------------------------------------------------------------
(***************************************************************************)
(* One lemma per action.                                                   *)
(***************************************************************************)
LEMMA DeliveriesInitInv == DeliveriesInit => DeliveriesInv
<1> SUFFICES ASSUME DeliveriesInit PROVE DeliveriesInv
  OBVIOUS
<1>1. DeliveriesTypeOK
  BY MaxTimeAssumption, MaxRespawnsAssumption DEF DeliveriesInit, DeliveriesTypeOK, Times, Never
<1>2. VerifiedInTime /\ RecordedInTime /\ AcceptedIsSeen /\ SlackOnce
  BY DEF DeliveriesInit, VerifiedInTime, RecordedInTime, AcceptedIsSeen, SlackOnce, Ids
<1> QED
  BY <1>1, <1>2 DEF DeliveriesInv

LEMMA VerifySlackInv ==
  ASSUME DeliveriesInv, NEW r \in Slack, VerifySlack(r)
  PROVE  DeliveriesInv'
<1> USE DEF DeliveriesInv
<1>1. DeliveriesTypeOK'
  BY DEF DeliveriesTypeOK, VerifySlack
<1>2. VerifiedInTime'
  BY SkewAssumption, StallAssumption DEF DeliveriesTypeOK, VerifySlack, VerifiedInTime, InSkew, Times
<1>3. RecordedInTime' /\ AcceptedIsSeen' /\ SlackOnce'
  BY DEF VerifySlack, RecordedInTime, AcceptedIsSeen, SlackOnce
<1> QED
  BY <1>1, <1>2, <1>3

\* The step in which the two windows meet.
LEMMA HandleSlackInv ==
  ASSUME DeliveriesInv, NEW v \in verified, HandleSlack(v)
  PROVE  DeliveriesInv'
<1> DEFINE r == v.id
           t == v.at
<1>1. r \in Slack /\ r \in Ids /\ t \in Times /\ DeliveriesTypeOK
  BY DEF DeliveriesInv, DeliveriesTypeOK, Ids
<1>2. /\ now' = now /\ stamp' = stamp
      /\ verified' = verified \ {v}
      /\ Seen(r, t)
  BY DEF HandleSlack
<1>3. /\ now \in Int /\ t \in Int /\ Skew \in Nat /\ Stall \in Nat /\ Window \in Int
      /\ Window >= 2 * Skew + Stall
      /\ \A i \in Slack : stamp[i] \in Int /\ seen[i] \in Int /\ accepted[i] \in 0 .. 2
  BY <1>1, SkewAssumption, StallAssumption, WindowAssumption, WindowCoversSkew
  DEF DeliveriesTypeOK, Times, Ids, Never
<1>4. t <= now /\ now - t <= Stall /\ t - stamp[r] <= Skew /\ stamp[r] - t <= Skew
  BY DEF DeliveriesInv, VerifiedInTime
<1>5. DeliveriesTypeOK'
  BY <1>1, <1>2, SeenType DEF HandleSlack, DeliveriesTypeOK
<1>6. VerifiedInTime'
  BY <1>2 DEF DeliveriesInv, VerifiedInTime
\* A request the store has dropped is too old for every copy of it.
<1>7. ASSUME NEW i \in Slack, seen[i] # Never, Kept(t)[i] = Never
      PROVE  now > stamp[i] + Skew + Stall /\ t > stamp[i] + Skew
  <2>1. seen[i] < t - Window
    BY <1>1, <1>7, KeptRows DEF Ids
  <2>2. stamp[i] - seen[i] <= Skew
    BY <1>7 DEF DeliveriesInv, RecordedInTime
  <2> QED
    BY <1>3, <1>4, <2>1, <2>2
<1>8. ASSUME NEW i \in Slack PROVE Kept(t)[i] # Never => Kept(t)[i] = seen[i]
  BY <1>1, KeptRows DEF Ids
<1>9. ASSUME Kept(t)[r] = Never PROVE accepted[r] = 0
  <2>1. CASE seen[r] = Never
    BY <1>1, <1>3, <1>4, <2>1 DEF DeliveriesInv, AcceptedIsSeen
  <2>2. CASE seen[r] # Never
    BY <1>1, <1>3, <1>4, <1>7, <1>9, <2>2
  <2> QED
    BY <2>1, <2>2
<1>10. ASSUME NEW i \in Slack
       PROVE  /\ seen'[i] # Never => stamp'[i] - seen'[i] <= Skew
              /\ accepted'[i] >= 1 => seen'[i] # Never \/ now' > stamp'[i] + Skew + Stall
              /\ accepted'[i] <= 1
  <2>1. /\ seen[i] # Never => stamp[i] - seen[i] <= Skew
        /\ accepted[i] >= 1 => seen[i] # Never \/ now > stamp[i] + Skew + Stall
        /\ accepted[i] <= 1
    BY DEF DeliveriesInv, RecordedInTime, AcceptedIsSeen, SlackOnce
  <2>2. CASE i # r \/ Kept(t)[r] # Never
    <3>1. seen'[i] = Kept(t)[i] /\ accepted'[i] = accepted[i]
      BY <1>1, <1>2, <2>2, SeenRows DEF Ids
    <3> QED
      BY <1>2, <1>7, <1>8, <2>1, <3>1
  <2>3. CASE i = r /\ Kept(t)[r] = Never
    <3>1. seen'[i] = t /\ accepted'[i] = 1
      BY <1>1, <1>2, <1>9, <2>3, SeenRows
    <3>2. t # Never
      BY <1>1, MaxTimeAssumption DEF Times, Never
    <3> QED
      BY <1>2, <1>4, <2>3, <3>1, <3>2
  <2> QED
    BY <2>2, <2>3
<1> QED
  BY <1>5, <1>6, <1>10 DEF DeliveriesInv, RecordedInTime, AcceptedIsSeen, SlackOnce

LEMMA VerifyGithubInv ==
  ASSUME DeliveriesInv, NEW d \in Github, VerifyGithub(d)
  PROVE  DeliveriesInv'
<1>1. d \in Ids /\ d \notin Slack /\ now \in Times /\ DeliveriesTypeOK
  BY KeysAssumption DEF DeliveriesInv, DeliveriesTypeOK, Ids
<1>2. now' = now /\ stamp' = stamp /\ verified' = verified /\ Seen(d, now)
  BY DEF VerifyGithub
<1>3. /\ now \in Int /\ Skew \in Nat /\ Stall \in Nat /\ Window \in Int
      /\ Window >= 2 * Skew + Stall
      /\ \A i \in Slack : stamp[i] \in Int /\ seen[i] \in Int
  BY <1>1, SkewAssumption, StallAssumption, WindowAssumption, WindowCoversSkew
  DEF DeliveriesTypeOK, Times, Ids, Never
<1>4. DeliveriesTypeOK'
  <2>1. taken' \subseteq Github
    BY <1>1 DEF VerifyGithub, DeliveriesTypeOK
  <2> QED
    BY <1>1, <1>2, <2>1, SeenType DEF VerifyGithub, DeliveriesTypeOK
<1>5. VerifiedInTime'
  BY <1>2 DEF DeliveriesInv, VerifiedInTime
<1>6. ASSUME NEW i \in Slack
      PROVE  /\ seen'[i] # Never => stamp'[i] - seen'[i] <= Skew
             /\ accepted'[i] >= 1 => seen'[i] # Never \/ now' > stamp'[i] + Skew + Stall
             /\ accepted'[i] <= 1
  <2>1. /\ seen[i] # Never => stamp[i] - seen[i] <= Skew
        /\ accepted[i] >= 1 => seen[i] # Never \/ now > stamp[i] + Skew + Stall
        /\ accepted[i] <= 1
    BY DEF DeliveriesInv, RecordedInTime, AcceptedIsSeen, SlackOnce
  <2>2. seen'[i] = Kept(now)[i] /\ accepted'[i] = accepted[i]
    BY <1>1, <1>2, SeenRows DEF Ids
  <2>3. Kept(now)[i] = seen[i] \/ (Kept(now)[i] = Never /\ seen[i] < now - Window)
    BY <1>1, KeptRows DEF Ids
  <2>4. CASE Kept(now)[i] = seen[i]
    BY <1>2, <2>1, <2>2, <2>4
  <2>5. CASE seen[i] # Never /\ Kept(now)[i] = Never /\ seen[i] < now - Window
    BY <1>2, <1>3, <2>1, <2>2, <2>5
  <2> QED
    BY <2>3, <2>4, <2>5
<1> QED
  BY <1>4, <1>5, <1>6 DEF DeliveriesInv, RecordedInTime, AcceptedIsSeen, SlackOnce

LEMMA ClockTicksInv ==
  ASSUME DeliveriesInv, ClockTicks
  PROVE  DeliveriesInv'
<1> USE DEF DeliveriesInv
<1>1. /\ now' = now + 1
      /\ UNCHANGED <<backend, stamp, event, seen, verified, taken, accepted, bound, respawned>>
  BY DEF ClockTicks
<1>2. /\ now \in Int /\ Skew \in Nat /\ Stall \in Nat
      /\ \A i \in Slack : stamp[i] \in Int
      /\ \A v \in verified : v.at \in Int
  BY SkewAssumption, StallAssumption DEF DeliveriesTypeOK, Times
<1>3. DeliveriesTypeOK'
  BY MaxTimeAssumption DEF ClockTicks, DeliveriesTypeOK, Times
<1>4. VerifiedInTime'
  BY <1>2 DEF ClockTicks, VerifiedInTime
<1>5. AcceptedIsSeen'
  BY <1>1, <1>2 DEF AcceptedIsSeen
<1>6. RecordedInTime' /\ SlackOnce'
  BY <1>1 DEF RecordedInTime, SlackOnce
<1> QED
  BY <1>3, <1>4, <1>5, <1>6

\* The handlers of a delivery, hibernation and a crash leave the store alone.
LEMMA HandlersInv ==
  ASSUME DeliveriesInv, (\E d \in Github : HandleGithub(d)) \/ TaskHibernates \/ DeliveriesLost
  PROVE  DeliveriesInv'
<1>1. UNCHANGED <<now, backend, stamp, event, seen, accepted>> /\ verified' \subseteq verified
  BY DEF HandleGithub, TaskHibernates, DeliveriesLost
<1>2. taken' \subseteq taken
  BY DEF HandleGithub, TaskHibernates, DeliveriesLost
<1>3. /\ bound' \in {"running", "awaiting-review", "completed", "failed"}
      /\ respawned' \in 0 .. MaxRespawns
  BY MaxRespawnsAssumption
  DEF DeliveriesInv, DeliveriesTypeOK, HandleGithub, HandleClosed, HandleReview, HandleNothing,
      TaskHibernates, DeliveriesLost
<1>4. DeliveriesTypeOK'
  BY <1>1, <1>2, <1>3 DEF DeliveriesInv, DeliveriesTypeOK
<1> QED
  BY <1>1, <1>4
  DEF DeliveriesInv, VerifiedInTime, RecordedInTime, AcceptedIsSeen, SlackOnce

LEMMA DeliveriesStepInv == DeliveriesInv /\ [DeliveriesNext]_deliveryVars => DeliveriesInv'
<1> SUFFICES ASSUME DeliveriesInv, [DeliveriesNext]_deliveryVars PROVE DeliveriesInv'
  OBVIOUS
<1>1. CASE UNCHANGED deliveryVars
  BY <1>1 DEF deliveryVars, DeliveriesInv, DeliveriesTypeOK, VerifiedInTime, RecordedInTime,
              AcceptedIsSeen, SlackOnce
<1> QED
  BY <1>1, VerifySlackInv, HandleSlackInv, VerifyGithubInv, ClockTicksInv, HandlersInv
  DEF DeliveriesNext

LEMMA DeliveriesInvariant == DeliveriesSpec => []DeliveriesInv
  BY DeliveriesInitInv, DeliveriesStepInv, PTL DEF DeliveriesSpec

-----------------------------------------------------------------------------
(***************************************************************************)
(* The replay store, the requests on their way and the task stay well      *)
(* formed.                                                                 *)
(***************************************************************************)
THEOREM DeliveriesTypeCorrect == DeliveriesSpec => []DeliveriesTypeOK
<1>1. DeliveriesInv => DeliveriesTypeOK
  BY DEF DeliveriesInv
<1> QED
  BY <1>1, DeliveriesInvariant, PTL

(***************************************************************************)
(* The Slack verifier lets no request through twice: its window and that   *)
(* of the replay store fit for every value that keeps WindowCoversSkew.    *)
(***************************************************************************)
THEOREM SlackRequestsOnce == DeliveriesSpec => []SlackOnce
<1>1. DeliveriesInv => SlackOnce
  BY DEF DeliveriesInv
<1> QED
  BY <1>1, DeliveriesInvariant, PTL

\* What a step does to the deliveries of GitHub that the store knows.
LEMMA RedeliveryStep ==
  DeliveriesInv /\ [DeliveriesNext]_deliveryVars
    => [\A d \in Github :
          seen[d] # Never /\ (seen'[d] # seen[d] \/ taken' \ taken = {d})
            => backend = "memory" /\ now > seen[d] + Window]_deliveryVars
<1> SUFFICES ASSUME DeliveriesInv, [DeliveriesNext]_deliveryVars, NEW d \in Github,
                    seen[d] # Never, seen'[d] # seen[d] \/ taken' \ taken = {d}
             PROVE  backend = "memory" /\ now > seen[d] + Window
  BY Zenon
<1>1. d \in Ids /\ d \notin Slack /\ now \in Times /\ DeliveriesTypeOK
  BY KeysAssumption DEF DeliveriesInv, DeliveriesTypeOK, Ids
<1>2. now \in Int /\ seen[d] \in Int /\ Window \in Int
  BY <1>1, WindowAssumption DEF DeliveriesTypeOK, Times, Never
<1>3. ASSUME NEW t \in Times, t <= now, Kept(t)[d] # seen[d]
      PROVE  backend = "memory" /\ now > seen[d] + Window
  <2>1. t \in Int
    BY DEF Times
  <2> QED
    BY <1>1, <1>2, <1>3, <2>1, KeptRows
<1>4. CASE \E v \in verified : HandleSlack(v)
  <2>1. PICK v \in verified : HandleSlack(v)
    BY <1>4
  <2>2. v.id \in Slack /\ v.id \in Ids /\ v.at \in Times /\ v.at <= now
    BY DEF DeliveriesInv, DeliveriesTypeOK, VerifiedInTime, Ids
  <2>3. taken' = taken /\ Seen(v.id, v.at)
    BY <2>1 DEF HandleSlack
  <2>4. seen'[d] = Kept(v.at)[d]
    BY <1>1, <2>2, <2>3, SeenRows
  <2> QED
    BY <1>3, <2>2, <2>3, <2>4
<1>5. CASE \E e \in Github : VerifyGithub(e)
  <2>1. PICK e \in Github : VerifyGithub(e)
    BY <1>5
  <2>2. e \in Ids /\ Seen(e, now)
    BY <2>1 DEF VerifyGithub, Ids
  <2>3. Kept(now)[d] # seen[d]
    <3>1. CASE d # e
      <4>1. seen'[d] = Kept(now)[d] /\ taken' \ taken # {d}
        BY <1>1, <2>1, <2>2, <3>1, SeenRows DEF VerifyGithub
      <4> QED
        BY <4>1
    <3>2. CASE d = e
      BY <1>1, <2>1, <2>2, <3>2, SeenRows DEF VerifyGithub
    <3> QED
      BY <3>1, <3>2
  <2> QED
    BY <1>1, <1>2, <1>3, <2>3
<1>6. CASE \/ UNCHANGED deliveryVars
           \/ \E r \in Slack : VerifySlack(r)
           \/ \E e \in Github : HandleGithub(e)
           \/ TaskHibernates \/ DeliveriesLost \/ ClockTicks
  BY <1>6
  DEF deliveryVars, VerifySlack, HandleGithub, TaskHibernates, DeliveriesLost, ClockTicks
<1> QED
  BY <1>4, <1>5, <1>6 DEF DeliveriesNext

(***************************************************************************)
(* A delivery of GitHub reaches a handler a second time only with the      *)
(* store in memory, and only when its window has gone by; on Postgres      *)
(* never, whatever fails or restarts.                                      *)
(***************************************************************************)
THEOREM RedeliveriesWait == DeliveriesSpec => RedeliveredOnlyAfterWindow
  BY DeliveriesInvariant, RedeliveryStep, PTL DEF DeliveriesSpec, RedeliveredOnlyAfterWindow
=============================================================================
