----------------------------- MODULE Registry -----------------------------
(***************************************************************************)
(* What minos/identity promises: the identity registry as one object whose *)
(* methods are atomic, the way memstore implements them under its mutex.   *)
(* Module Access is the registry the deployment runs, on Postgres and one  *)
(* statement at a time, under the chat commands that change it.            *)
(*                                                                         *)
(* An identity belongs to one (surface, surface_id) tuple, and rows are    *)
(* never deleted, so identities are indexed by the person behind the       *)
(* tuple.  A pairing request is one row per person too.                    *)
(***************************************************************************)
EXTENDS Naturals, FiniteSets

CONSTANTS
  People,     \* the (surface, surface_id) tuples
  MaxTokens   \* bound: how many pairing tokens are ever minted

ASSUME PeopleAssumption    == IsFiniteSet(People)
ASSUME MaxTokensAssumption == MaxTokens \in Nat

VARIABLES
  identities,   \* identities[p]: the row of person p
  pairings,     \* pairings[p]: the pending request of person p
  minted        \* how many pairing tokens have been minted

registryVars == <<identities, pairings, minted>>

TaskCapabilities == {"task.commission.code", "task.direct", "task.query_state"}
Capabilities     == TaskCapabilities \cup {"identity.approve_pairing", "identity.manage"}

RoleCapabilities ==
  [admin |-> Capabilities, commissioner |-> TaskCapabilities,
   system |-> TaskCapabilities, observer |-> {"task.query_state"}]

Roles == {"admin", "commissioner", "observer", "system"}

Identity == [role : Roles, status : {"absent", "active", "revoked"},
             added : SUBSET Capabilities, removed : SUBSET Capabilities]

\* The row an Insert writes, and the row that is not there.
NewIdentity(role) == [role |-> role, status |-> "active", added |-> {}, removed |-> {}]
Absent      == [NewIdentity("observer") EXCEPT !.status = "absent"]

\* Tokens are numbered in the order they are minted; 0 is no request.
PairingRow == [token : 0 .. MaxTokens, expired : BOOLEAN]
NoPairing  == [token |-> 0, expired |-> FALSE]

\* An added capability wins over a removed one, a removed one over the role.
HasCapability(i, c) ==
  /\ i.status = "active"
  /\ c \in i.added \/ c \in RoleCapabilities[i.role] \ i.removed

\* Humans only: a system identity does not keep the operator in.
ActiveAdmins ==
  {p \in People : identities[p].role = "admin" /\ identities[p].status = "active"}

\* Variant: the count is not lowered by the admin that is about to go.
AdminToSpareOffByOne(n) == n >= 1

AdminToSpare(n) == n >= 2

-----------------------------------------------------------------------------
(***************************************************************************)
(* The methods.                                                            *)
(***************************************************************************)

\* Variant: an upsert, so that a revoked person can be inserted again.
InsertUpsert(p, role) ==
  /\ identities[p].status # "active"
  /\ identities' = [identities EXCEPT ![p] = NewIdentity(role)]

\* ErrAlreadyExists for every tuple that has a row, a revoked one included.
Insert(p, role) ==
  /\ identities[p].status = "absent"
  /\ identities' = [identities EXCEPT ![p] = NewIdentity(role)]

\* The count includes the target only if the target is active.
SetRole(p, role) ==
  /\ identities[p].status # "absent"
  /\ identities[p].role = "admin" /\ role # "admin" => AdminToSpare(Cardinality(ActiveAdmins))
  /\ identities' = [identities EXCEPT ![p].role = role]

Revoke(p) ==
  /\ identities[p].status = "active"
  /\ identities[p].role = "admin" => AdminToSpare(Cardinality(ActiveAdmins))
  /\ identities' = [identities EXCEPT ![p].status = "revoked"]

\* An addition undoes an earlier removal, and the other way round.
Granted(i, c)  == IF c \in i.added THEN i ELSE [i EXCEPT !.added = @ \cup {c}, !.removed = @ \ {c}]
Withheld(i, c) == IF c \in i.removed THEN i ELSE [i EXCEPT !.added = @ \ {c}, !.removed = @ \cup {c}]

AddCapability(p, c) ==
  /\ identities[p].status # "absent"
  /\ identities' = [identities EXCEPT ![p] = Granted(@, c)]

\* No check for the last admin; nothing in Minos calls it.
RemoveCapability(p, c) ==
  /\ identities[p].status # "absent"
  /\ identities' = [identities EXCEPT ![p] = Withheld(@, c)]

\* Variant: the same token is handed out again.
PairingCreateSameToken(p) ==
  /\ pairings[p] = NoPairing
  /\ minted < MaxTokens
  /\ minted' \in {minted, minted + 1}
  /\ pairings' = [pairings EXCEPT ![p] = [token |-> minted + 1, expired |-> FALSE]]

\* One request per tuple, however old: an expired row still takes the place.
PairingCreate(p) ==
  /\ pairings[p] = NoPairing
  /\ minted < MaxTokens
  /\ minted' = minted + 1
  /\ pairings' = [pairings EXCEPT ![p] = [token |-> minted + 1, expired |-> FALSE]]

\* PairingByToken: the people whose request answers to the token.
PairingByToken(token) == {p \in People : pairings[p].token = token /\ ~ pairings[p].expired}

PairingDelete(token) ==
  pairings' = [p \in People |-> IF pairings[p].token = token THEN NoPairing ELSE pairings[p]]

\* Nothing in Minos calls it.
PairingSweep ==
  pairings' = [p \in People |-> IF pairings[p].expired THEN NoPairing ELSE pairings[p]]

\* A day goes by.
PairingExpires(p) ==
  /\ pairings[p].token # 0
  /\ pairings' = [pairings EXCEPT ![p].expired = TRUE]

-----------------------------------------------------------------------------
RegistryInit ==
  /\ identities = [p \in People |-> Absent]
  /\ pairings = [p \in People |-> NoPairing]
  /\ minted = 0

IdentityChanges ==
  \E p \in People :
    \/ \E role \in Roles : Insert(p, role) \/ SetRole(p, role)
    \/ Revoke(p)
    \/ \E c \in Capabilities : AddCapability(p, c) \/ RemoveCapability(p, c)

PairingChanges ==
  \/ \E p \in People : PairingExpires(p) /\ UNCHANGED minted
  \/ \E t \in 1 .. MaxTokens : PairingDelete(t) /\ UNCHANGED minted
  \/ PairingSweep /\ UNCHANGED minted
  \/ \E p \in People : PairingCreate(p)

RegistryNext ==
  \/ IdentityChanges /\ UNCHANGED <<pairings, minted>>
  \/ PairingChanges /\ UNCHANGED identities

RegistrySpec == RegistryInit /\ [][RegistryNext]_registryVars

-----------------------------------------------------------------------------
\* Well-formed rows; and a pairing token, approved by somebody who sees nothing
\* but the token, stands for one person.
RegistryTypeOK ==
  /\ identities \in [People -> Identity]
  /\ pairings \in [People -> PairingRow]
  /\ minted \in 0 .. MaxTokens
  /\ \A p \in People : pairings[p].token <= minted
  /\ \A p, q \in People : pairings[p].token = pairings[q].token => p = q \/ pairings[p].token = 0

(***************************************************************************)
(* Last-admin protection: whatever is asked of the registry, once it has   *)
(* an active human admin it always has one.  There is no way back from     *)
(* zero: only an admin can approve, promote or grant, and a restart leaves *)
(* the rows of the configured admins as they are.                          *)
(***************************************************************************)
AdminsNeverEnd == [][ActiveAdmins # {} => ActiveAdmins' # {}]_registryVars

(***************************************************************************)
(* A revocation is final: no pairing, approval, role change or restart     *)
(* makes a revoked person active again.                                    *)
(***************************************************************************)
RevocationSticks ==
  [][\A p \in People : identities[p].status = "revoked" => identities'[p].status = "revoked"]_registryVars
=============================================================================
