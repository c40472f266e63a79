------------------------------ MODULE Access ------------------------------
(***************************************************************************)
(* Who may command Minos: the chat commands of minos/core (intake.go,      *)
(* pairing.go), the bootstrap from the configuration, and the registry     *)
(* they change, minos/identity/pgstore, one SQL statement at a time.       *)
(*                                                                         *)
(* The surface delivers every message in a goroutine of its own, so        *)
(* handlers interleave.  A handler reads the caller's row and checks the   *)
(* capability once, when the message arrives; SetRole, Revoke and          *)
(* AddCapability are transactions that read, then count, then write, under *)
(* READ COMMITTED: nothing they have read is locked.  MaxOpenTx is how     *)
(* many of them Postgres runs at once.  Messages that are refused, that    *)
(* only query (/status), or that are handed to Commission change nothing   *)
(* here and are left out.                                                  *)
(***************************************************************************)
EXTENDS Registry

CONSTANTS
  ChatHandlers,    \* the goroutines that handle messages
  ConfigAdmins,    \* the admins of the configuration file
  ConfigSystems,   \* its system identities
  AskedRoles,      \* the roles that commands ask for
  AskedCaps,       \* the capabilities that commands grant
  MaxOpenTx,       \* how many transactions are open at once
  MaxCommands      \* bound: how many messages are handled

ASSUME ConfigAdminsAssumption  == ConfigAdmins \subseteq People /\ ConfigAdmins # {}
ASSUME ConfigSystemsAssumption == ConfigSystems \subseteq People /\ ConfigSystems \cap ConfigAdmins = {}
ASSUME AskedRolesAssumption    == AskedRoles \subseteq Roles \ {"system"}
ASSUME AskedCapsAssumption     == AskedCaps \subseteq Capabilities
ASSUME ChatHandlersAssumption  == IsFiniteSet(ChatHandlers)
ASSUME MaxOpenTxAssumption     == MaxOpenTx \in Nat
ASSUME MaxCommandsAssumption  == MaxCommands \in Nat

VARIABLES
  chat,      \* chat[h]: the message handler h works on
  serving,   \* has Minos subscribed to the surface?
  received   \* how many messages have been handled or are being handled

chatVars   == <<chat, serving, received>>
accessVars == <<registryVars, chatVars>>

(***************************************************************************)
(* at      the next statement of the handler                               *)
(* verb    the command, on person, with a role, a capability or a token    *)
(* read    the row the transaction has read                                *)
(***************************************************************************)
Points  == {"idle", "pair", "find", "insert", "forget", "lookup", "read", "count", "write"}
Verbs   == {"pair", "approve", "revoke", "grant", "role"}
Nothing == [verb |-> "pair", person |-> CHOOSE p \in People : TRUE, role |-> "observer",
            cap |-> "task.direct", token |-> 0]
Message == [verb : Verbs, person : People, role : Roles, cap : Capabilities, token : 0 .. MaxTokens]
AtRest  == [at |-> "idle", msg |-> Nothing, read |-> Absent]

\* The capability each subcommand of /minos needs.
Needs == [approve |-> "identity.approve_pairing", revoke |-> "identity.manage",
          grant |-> "identity.manage", role |-> "identity.manage"]

Go(h, point) == chat' = [chat EXCEPT ![h].at = point]
Done(h)      == chat' = [chat EXCEPT ![h] = AtRest]

OpenTx == {h \in ChatHandlers : chat[h].at \in {"count", "write"}}

-----------------------------------------------------------------------------
(***************************************************************************)
(* A message arrives.                                                      *)
(***************************************************************************)
Receive(h, msg, point) ==
  /\ serving
  /\ chat[h].at = "idle"
  /\ received < MaxCommands
  /\ received' = received + 1
  /\ chat' = [chat EXCEPT ![h] = [at |-> point, msg |-> msg, read |-> Absent]]
  /\ UNCHANGED serving

\* /pair is open to everyone who is not paired already.
ReceivePair(h) ==
  \E p \in People :
    /\ identities[p].status # "active"
    /\ Receive(h, [Nothing EXCEPT !.verb = "pair", !.person = p], "pair")
    /\ UNCHANGED registryVars

\* /minos approve, revoke, grant and role.  Approve and role never hand out the
\* system role.
Approval(t, role)     == [Nothing EXCEPT !.verb = "approve", !.token = t, !.role = role]
Revocation(p)         == [Nothing EXCEPT !.verb = "revoke", !.person = p]
GrantOf(p, c)         == [Nothing EXCEPT !.verb = "grant", !.person = p, !.cap = c]
RoleChange(p, role)   == [Nothing EXCEPT !.verb = "role", !.person = p, !.role = role]

Commands ==
  {Approval(t, role) : t \in 1 .. minted, role \in AskedRoles}
    \cup {Revocation(p) : p \in People}
    \cup {GrantOf(p, c) : p \in People, c \in AskedCaps}
    \cup {RoleChange(p, role) : p \in People, role \in AskedRoles}

\* The caller's row is read here and not again: revoking the caller does not
\* stop a command that is under way.
ReceiveCommand(h) ==
  \E msg \in Commands, caller \in People :
    /\ HasCapability(identities[caller], Needs[msg.verb])
    /\ Receive(h, msg, IF msg.verb = "approve" THEN "find" ELSE "lookup")
    /\ UNCHANGED registryVars

-----------------------------------------------------------------------------
(***************************************************************************)
(* Pairing.                                                                *)
(***************************************************************************)

\* ErrAlreadyExists while the person has a row, expired or not.
StorePairing(h) ==
  /\ chat[h].at = "pair"
  /\ \/ PairingCreate(chat[h].msg.person)
     \/ pairings[chat[h].msg.person] # NoPairing /\ UNCHANGED <<pairings, minted>>
  /\ Done(h)
  /\ UNCHANGED <<identities, serving, received>>

FindPairing(h) ==
  /\ chat[h].at = "find"
  /\ LET found == PairingByToken(chat[h].msg.token) IN
       \/ found = {} /\ Done(h)
       \/ \E p \in found : chat' = [chat EXCEPT ![h].at = "insert", ![h].msg.person = p]
  /\ UNCHANGED <<registryVars, serving, received>>

InsertApproved(h) ==
  /\ chat[h].at = "insert"
  /\ LET msg == chat[h].msg IN
       \/ Insert(msg.person, msg.role) /\ Go(h, "forget")
       \/ identities[msg.person].status # "absent" /\ Done(h) /\ UNCHANGED identities
  /\ UNCHANGED <<pairings, minted, serving, received>>

\* The error of PairingDelete is ignored.
ForgetPairing(h) ==
  /\ chat[h].at = "forget"
  /\ PairingDelete(chat[h].msg.token) \/ UNCHANGED pairings
  /\ Done(h)
  /\ UNCHANGED <<identities, minted, serving, received>>

-----------------------------------------------------------------------------
(***************************************************************************)
(* Revoke, SetRole and mutateCaps.                                         *)
(***************************************************************************)
LookupTarget(h) ==
  /\ chat[h].at = "lookup"
  /\ IF identities[chat[h].msg.person].status = "absent" THEN Done(h) ELSE Go(h, "read")
  /\ UNCHANGED <<registryVars, serving, received>>

\* Commands that leave their target without the admin role or without its
\* status, and commands that make it an admin.
Demotes(msg)  == msg.verb = "revoke" \/ (msg.verb = "role" /\ msg.role # "admin")
Promotes(msg) == msg.verb = "role" /\ msg.role = "admin"

\* Would this command take an admin's role or status away?
Dethrones(msg, row) == row.role = "admin" /\ Demotes(msg)

\* BEGIN and the first SELECT.
BeginTx(h) ==
  /\ chat[h].at = "read"
  /\ Cardinality(OpenTx) < MaxOpenTx
  /\ LET msg == chat[h].msg
         row == identities[msg.person] IN
       IF msg.verb = "revoke" /\ row.status = "revoked" THEN Done(h)
       ELSE chat' = [chat EXCEPT ![h].read = row,
                                 ![h].at = IF Dethrones(msg, row) THEN "count" ELSE "write"]
  /\ UNCHANGED <<registryVars, serving, received>>

\* SELECT count(*): ErrLastAdmin, or on to the UPDATE.
CountAdmins(h) ==
  /\ chat[h].at = "count"
  /\ IF AdminToSpare(Cardinality(ActiveAdmins)) THEN Go(h, "write") ELSE Done(h)
  /\ UNCHANGED <<registryVars, serving, received>>

\* What the UPDATE leaves in the row: one column, or both capability lists as
\* the transform made them from the lists that were read.
Updated(msg, read, row) ==
  CASE msg.verb = "revoke" -> [row EXCEPT !.status = "revoked"]
    [] msg.verb = "role"   -> [row EXCEPT !.role = msg.role]
    [] msg.verb = "grant"  -> [row EXCEPT !.added   = Granted(read, msg.cap).added,
                                          !.removed = Granted(read, msg.cap).removed]

\* UPDATE and COMMIT.
CommitTx(h) ==
  /\ chat[h].at = "write"
  /\ LET msg == chat[h].msg IN
       identities' = [identities EXCEPT ![msg.person] = Updated(msg, chat[h].read, @)]
  /\ Done(h)
  /\ UNCHANGED <<pairings, minted, serving, received>>

-----------------------------------------------------------------------------
(***************************************************************************)
(* Minos dies, which rolls back open transactions, and starts again.       *)
(***************************************************************************)
ChatCrash ==
  /\ serving
  /\ serving' = FALSE
  /\ chat' = [h \in ChatHandlers |-> AtRest]
  /\ UNCHANGED <<registryVars, received>>

Missing(people) == {p \in people : identities[p].status = "absent"}

\* Variant: the configuration wins over the rows that are there.
SeedRoleResets(p) ==
  /\ p \in ConfigAdmins \cup ConfigSystems
  /\ identities' = [identities EXCEPT ![p] = NewIdentity(IF p \in ConfigAdmins THEN "admin" ELSE "system")]

\* Admins first; an existing row is left as it is.
SeedRole(p) ==
  \/ p \in Missing(ConfigAdmins) /\ Insert(p, "admin")
  \/ Missing(ConfigAdmins) = {} /\ p \in Missing(ConfigSystems) /\ Insert(p, "system")

Bootstrap(p) ==
  /\ ~ serving
  /\ SeedRole(p)
  /\ UNCHANGED <<pairings, minted, chatVars>>

Subscribe ==
  /\ ~ serving
  /\ Missing(ConfigAdmins \cup ConfigSystems) = {}
  /\ serving' = TRUE
  /\ UNCHANGED <<registryVars, chat, received>>

Expire(p) == PairingExpires(p) /\ UNCHANGED <<identities, minted, chatVars>>

-----------------------------------------------------------------------------
AccessInit ==
  /\ RegistryInit
  /\ chat = [h \in ChatHandlers |-> AtRest]
  /\ serving = FALSE
  /\ received = 0

HandlesMessage(h) ==
  \/ ReceivePair(h) \/ ReceiveCommand(h)
  \/ StorePairing(h) \/ FindPairing(h) \/ InsertApproved(h) \/ ForgetPairing(h)
  \/ LookupTarget(h) \/ BeginTx(h) \/ CountAdmins(h) \/ CommitTx(h)

AccessNext ==
  \/ \E h \in ChatHandlers : HandlesMessage(h)
  \/ ChatCrash \/ Subscribe
  \/ \E p \in People : Bootstrap(p) \/ Expire(p)

AccessSpec == AccessInit /\ [][AccessNext]_accessVars

-----------------------------------------------------------------------------
ChatState == [at : Points, msg : Message, read : Identity]

AccessTypeOK ==
  /\ RegistryTypeOK
  /\ chat \in [ChatHandlers -> ChatState]
  /\ serving \in BOOLEAN
  /\ received \in 0 .. MaxCommands

(***************************************************************************)
(* The statements add up to the atomic methods that identity.Store         *)
(* promises: whatever the handlers interleave around a transaction and     *)
(* wherever Minos dies, each step on the registry is one whole method or   *)
(* nothing.  This holds until two transactions clash.                      *)
(***************************************************************************)
Atomic == INSTANCE Registry

AccessImplementsRegistry == Atomic!RegistrySpec

(***************************************************************************)
(* The overlaps of open transactions that READ COMMITTED leaves unguarded: *)
(* on the same row (a lost update, or a command on a row that has become   *)
(* something else), or on two admins that are both about to go (both were  *)
(* counted as spare).  Any others may overlap.                             *)
(***************************************************************************)
Clash ==
  \E g, h \in OpenTx :
    /\ g # h
    /\ \/ chat[g].msg.person = chat[h].msg.person
       \/ /\ Dethrones(chat[g].msg, chat[g].read)
          /\ Dethrones(chat[h].msg, chat[h].read)

\* The overlaps that can cost the last admin: two demotions at once, or the
\* demotion of somebody who is being promoted.
AdminRace ==
  \E g, h \in OpenTx :
    /\ g # h
    /\ Demotes(chat[g].msg)
    /\ \/ Demotes(chat[h].msg)
       \/ Promotes(chat[h].msg) /\ chat[g].msg.person = chat[h].msg.person
=============================================================================
