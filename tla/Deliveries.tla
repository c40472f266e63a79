----------------------------- MODULE Deliveries -----------------------------
(***************************************************************************)
(* Webhooks: cerberus decides whether a request is new (verification and   *)
(* core/replay), the handlers of minos/core act on what it lets through.   *)
(*                                                                         *)
(* GitHub names every delivery and sends it again with the same name, by   *)
(* itself or when somebody presses "redeliver", at any later time.  Slack  *)
(* stamps a request with its time; a request presented again has the same  *)
(* stamp.  Both go through one replay store: a map with a window in        *)
(* memory, or a table that is never purged (Purge has no caller).          *)
(* Requests without a valid signature or header change nothing and are     *)
(* left out.                                                               *)
(***************************************************************************)
EXTENDS Integers

CONSTANTS
  Github,       \* X-GitHub-Delivery ids; each is about the pull request of one task
  Slack,        \* Slack requests, by timestamp and hash of the body
  Skew,         \* replayWindow of the Slack verifier
  Window,       \* how long the store in memory keeps a delivery
  Stall,        \* longest time a request waits between its two checks
  MaxTime,      \* bound: the clock stops here
  MaxRespawns   \* bound: respawns of the task

\* A UUID against "<timestamp>:<hash>".
ASSUME KeysAssumption        == Github \cap Slack = {}
ASSUME SkewAssumption        == Skew \in Nat
ASSUME StallAssumption       == Stall \in Nat
ASSUME WindowAssumption      == Window \in Nat \ {0}
ASSUME MaxTimeAssumption     == MaxTime \in Nat
ASSUME MaxRespawnsAssumption == MaxRespawns \in Nat

\* Five minutes against twenty-four hours: the body of a request has a day to
\* arrive.
ASSUME WindowCoversSkew == Window >= 2 * Skew + Stall

VARIABLES
  now,       \* the clock
  backend,   \* "memory" (-mem-store) or "postgres"
  stamp,     \* stamp[r]: the timestamp of Slack request r
  event,     \* event[d]: what delivery d says about the pull request
  seen,      \* seen[k]: when the store recorded k, or Never
  verified,  \* Slack requests past the timestamp check: [id, at]
  taken,     \* GitHub deliveries past Verify that are not handled yet
  accepted,  \* accepted[k]: how often the verifier let k through
  bound,     \* state of the task the pull request is bound to
  respawned  \* how often a delivery has respawned it

deliveryVars == <<now, backend, stamp, event, seen, verified, taken, accepted, bound, respawned>>

Ids    == Github \cup Slack
Never  == -1
Times  == 0 .. MaxTime
Events == {"merged", "closed", "changes_requested", "mention", "ignored"}

-----------------------------------------------------------------------------
(***************************************************************************)
(* Seen: the answer, and what the store holds afterwards.                  *)
(***************************************************************************)

\* gcLocked at time t; Postgres has none.
Kept(t) ==
  [k \in Ids |-> IF backend = "memory" /\ seen[k] < t - Window THEN Never ELSE seen[k]]

\* Variant: a known delivery is recorded afresh, and let through.
SeenAgain(k, t) ==
  /\ seen' = [Kept(t) EXCEPT ![k] = t]
  /\ accepted' = [accepted EXCEPT ![k] = IF @ < 2 THEN @ + 1 ELSE @]

\* New: recorded and let through.  Known: a duplicate.  (Counted up to two.)
Seen(k, t) ==
  IF Kept(t)[k] = Never
  THEN /\ seen' = [Kept(t) EXCEPT ![k] = t]
       /\ accepted' = [accepted EXCEPT ![k] = IF @ < 2 THEN @ + 1 ELSE @]
  ELSE seen' = Kept(t) /\ UNCHANGED accepted

-----------------------------------------------------------------------------
(***************************************************************************)
(* Slack.                                                                  *)
(***************************************************************************)

\* Variant: stamps from the future are let through.
InSkewPast(r) == now - stamp[r] <= Skew

InSkew(r) == now - stamp[r] <= Skew /\ stamp[r] - now <= Skew

\* The clock is read here; then the body is read and its signature checked.
VerifySlack(r) ==
  /\ InSkew(r)
  /\ verified' = verified \cup {[id |-> r, at |-> now]}
  /\ UNCHANGED <<now, backend, stamp, event, seen, taken, accepted, bound, respawned>>

\* Recorded under the time that was read; acknowledged and audited, no more.
HandleSlack(v) ==
  /\ v \in verified
  /\ verified' = verified \ {v}
  /\ Seen(v.id, v.at)
  /\ UNCHANGED <<now, backend, stamp, event, taken, bound, respawned>>

-----------------------------------------------------------------------------
(***************************************************************************)
(* GitHub.  A delivery is recorded before it is handled.                   *)
(***************************************************************************)
VerifyGithub(d) ==
  /\ Seen(d, now)
  /\ taken' = IF accepted'[d] # accepted[d] THEN taken \cup {d} ELSE taken
  /\ UNCHANGED <<now, backend, stamp, event, verified, bound, respawned>>

\* A closed pull request ends the task unless it has ended.
HandleClosed(d) ==
  /\ event[d] \in {"merged", "closed"}
  /\ bound' = IF bound \in {"completed", "failed"} THEN bound
              ELSE IF event[d] = "merged" THEN "completed" ELSE "failed"
  /\ UNCHANGED respawned

\* A review that asks for changes, or a mention, respawns a task that waits
\* for it.
HandleReview(d) ==
  /\ event[d] \in {"changes_requested", "mention"}
  /\ IF bound = "awaiting-review" /\ respawned < MaxRespawns
     THEN bound' = "running" /\ respawned' = respawned + 1
     ELSE UNCHANGED <<bound, respawned>>

\* Any other event, and a call that fails: the sender gets 200, or 500.
HandleNothing == UNCHANGED <<bound, respawned>>

HandleGithub(d) ==
  /\ d \in taken
  /\ taken' = taken \ {d}
  /\ HandleClosed(d) \/ HandleReview(d) \/ HandleNothing
  /\ UNCHANGED <<now, backend, stamp, event, seen, verified, accepted>>

\* The pod of the task is done; the task waits for the next review.
TaskHibernates ==
  /\ bound = "running"
  /\ bound' = "awaiting-review"
  /\ UNCHANGED <<now, backend, stamp, event, seen, verified, taken, accepted, respawned>>

\* Minos dies, and what it was about to handle with it.  The table stays; with
\* -mem-store the tasks are gone too, and everything starts over.
DeliveriesLost ==
  /\ backend = "postgres"
  /\ verified' = {} /\ taken' = {}
  /\ UNCHANGED <<now, backend, stamp, event, seen, accepted, bound, respawned>>

ClockTicks ==
  /\ now < MaxTime
  /\ \A v \in verified : now - v.at < Stall
  /\ now' = now + 1
  /\ UNCHANGED <<backend, stamp, event, seen, verified, taken, accepted, bound, respawned>>

-----------------------------------------------------------------------------
DeliveriesInit ==
  /\ now = 0
  /\ backend \in {"memory", "postgres"}
  /\ stamp \in [Slack -> Times]
  /\ event \in [Github -> Events]
  /\ seen = [k \in Ids |-> Never]
  /\ verified = {} /\ taken = {}
  /\ accepted = [k \in Ids |-> 0]
  /\ bound = "running"
  /\ respawned = 0

DeliveriesNext ==
  \/ \E r \in Slack : VerifySlack(r)
  \/ \E v \in verified : HandleSlack(v)
  \/ \E d \in Github : VerifyGithub(d) \/ HandleGithub(d)
  \/ TaskHibernates \/ DeliveriesLost \/ ClockTicks

DeliveriesSpec == DeliveriesInit /\ [][DeliveriesNext]_deliveryVars

-----------------------------------------------------------------------------
DeliveriesTypeOK ==
  /\ now \in Times
  /\ backend \in {"memory", "postgres"}
  /\ stamp \in [Slack -> Times]
  /\ event \in [Github -> Events]
  /\ seen \in [Ids -> Times \cup {Never}]
  /\ verified \subseteq [id : Slack, at : Times]
  /\ taken \subseteq Github
  /\ accepted \in [Ids -> 0 .. 2]
  /\ bound \in {"running", "awaiting-review", "completed", "failed"}
  /\ respawned \in 0 .. MaxRespawns

(***************************************************************************)
(* No Slack request is let through twice, on either backend: by the time   *)
(* the store has dropped it, or the body of a copy has arrived, its        *)
(* timestamp is too old.  The two windows are configured in two packages.  *)
(***************************************************************************)
SlackOnce == \A r \in Slack : accepted[r] <= 1

(***************************************************************************)
(* A GitHub delivery has no timestamp: it is forgotten, or let through     *)
(* again, only by the store in memory and only once its window has gone    *)
(* by.  On Postgres no redelivery, before or after a restart, reaches a    *)
(* handler a second time.                                                  *)
(***************************************************************************)
RedeliveredOnlyAfterWindow ==
  [][\A d \in Github :
       seen[d] # Never /\ (seen'[d] # seen[d] \/ taken' \ taken = {d})
         => backend = "memory" /\ now > seen[d] + Window]_deliveryVars
=============================================================================
