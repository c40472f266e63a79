----------------------------- MODULE BrokerAuth -----------------------------
(***************************************************************************)
(* The bearer tokens that Minos mints (minos/core, pkg/jwt) and the check  *)
(* that every service makes of them (pkg/brokerauth, and the same inline   *)
(* in hecate and apollo).  The first part is the decision, which module    *)
(* Worker uses; the second is MemReplayStore, the store for brokers whose  *)
(* operations must not be repeated.                                        *)
(***************************************************************************)
EXTENDS Naturals

CONSTANTS
  Endpoints,      \* McpEndpoints of the project, as pairs <<service, operation>>
  HecateRefs,     \* HecateCredentials of the project
  TokenLife,      \* life of a token, in ticks
  Jtis,           \* ids of the tokens presented to the replay store
  MaxClock,       \* bound: the clock of the replay store stops here
  MaxReuse        \* bound: uses counted per token

ASSUME TokenLifeAssumption == TokenLife \in Nat \ {0}
ASSUME MaxClockAssumption  == MaxClock \in Nat
ASSUME MaxReuseAssumption  == MaxReuse \in Nat \ {0}

-----------------------------------------------------------------------------
(***************************************************************************)
(* Claims.  A scope is a pair of a service and an operation on it.         *)
(***************************************************************************)
OwnScopes    == {<<"minos", "task.lifecycle">>, <<"argus", "heartbeat">>}
HecateScopes == {<<"hecate", ref>> : ref \in HecateRefs}

\* Variant: the broker of the credentials is left out of the audience.
ComposeCapabilitiesNoHecate ==
  [audience |-> {"minos", "argus"} \cup {ep[1] : ep \in Endpoints},
   scopes   |-> OwnScopes \cup HecateScopes \cup Endpoints]

\* The audience mirrors the scopes: Minos and Argus always, Hecate if there is
\* a credential to fetch, and the endpoints of the project.
ComposeCapabilities ==
  [audience |-> {"minos", "argus"} \cup {s[1] : s \in HecateScopes} \cup {ep[1] : ep \in Endpoints},
   scopes   |-> OwnScopes \cup HecateScopes \cup Endpoints]

\* The library refuses a token at the instant of its expiry.
Admits(claims, age, scope) ==
  /\ age < TokenLife
  /\ scope[1] \in claims.audience
  /\ scope \in claims.scopes

-----------------------------------------------------------------------------
(***************************************************************************)
(* The replay store.  Verify and Seen read the clock at different times.   *)
(***************************************************************************)
VARIABLES
  clock,     \* the clock
  expires,   \* expires[j]: the expiry of token j
  held,      \* the tokens the store holds
  passing,   \* requests past Verify, by token
  used       \* used[j]: how many requests with token j were let through

authVars == <<clock, expires, held, passing, used>>

\* Several requests with one token pass Verify before the store sees them; the
\* model keeps one of them at a time, which the store cannot tell apart.
VerifyBearer(j) ==
  /\ clock < expires[j]
  /\ passing' = passing \cup {j}
  /\ UNCHANGED <<clock, expires, held, used>>

\* Variant: a token is dropped at the instant of its expiry.
SweptEarly == {k \in held : expires[k] <= clock}

Swept == {k \in held : expires[k] < clock}

\* Sweep, look, record.
SeenBearer(j) ==
  /\ j \in passing
  /\ passing' = passing \ {j}
  /\ held' = (held \ Swept) \cup {j}
  /\ used' = IF j \notin held \ Swept /\ used[j] < MaxReuse
             THEN [used EXCEPT ![j] = @ + 1] ELSE used
  /\ UNCHANGED <<clock, expires>>

AuthTick ==
  /\ clock < MaxClock
  /\ clock' = clock + 1
  /\ UNCHANGED <<expires, held, passing, used>>

AuthInit ==
  /\ clock = 0
  /\ expires \in [Jtis -> 1 .. MaxClock]
  /\ held = {}
  /\ passing = {}
  /\ used = [j \in Jtis |-> 0]

AuthNext ==
  \/ \E j \in Jtis : VerifyBearer(j) \/ SeenBearer(j)
  \/ AuthTick

AuthSpec == AuthInit /\ [][AuthNext]_authVars

-----------------------------------------------------------------------------
AuthTypeOK ==
  /\ clock \in 0 .. MaxClock
  /\ expires \in [Jtis -> 1 .. MaxClock]
  /\ held \subseteq Jtis
  /\ passing \subseteq Jtis
  /\ used \in [Jtis -> 0 .. MaxReuse]

(***************************************************************************)
(* A token is good for one request as long as it is valid: the sweep never *)
(* forgets one that could still pass Verify.  (A request that was verified *)
(* before the expiry and recorded after it does get through once more.)    *)
(***************************************************************************)
SingleUse ==
  [][\A j \in Jtis : used[j] >= 1 /\ used'[j] # used[j] => clock > expires[j]]_authVars
=============================================================================
