---------------------------- MODULE Access_proofs ----------------------------
(***************************************************************************)
(* The identity registry, for any number of people, handlers and commands. *)
(* First the registry with atomic methods: its types, the protection of    *)
(* the last admin and the finality of a revocation.  Then the registry on  *)
(* Postgres under the chat commands: its types, that no revocation is      *)
(* undone however the statements interleave, that it implements the first  *)
(* until two transactions clash, and that only a race costs the last admin.*)
(***************************************************************************)
EXTENDS Access, FiniteSetTheorems, TLAPS

USE PeopleAssumption, MaxTokensAssumption

-----------------------------------------------------------------------------
(***************************************************************************)
(* The methods and the types.                                              *)
(***************************************************************************)
LEMMA RolesAreCapable == \A role \in Roles : RoleCapabilities[role] \subseteq Capabilities
  BY DEF Roles, RoleCapabilities, Capabilities, TaskCapabilities

LEMMA NewIdentityType == \A role \in Roles : NewIdentity(role) \in Identity
  BY DEF NewIdentity, Identity

LEMMA AbsentType == Absent \in Identity /\ Absent.status = "absent"
  BY DEF Absent, NewIdentity, Identity, Roles

\* Granting and withholding keep role and status, and the lists inside the
\* vocabulary.
LEMMA GrantedKeeps ==
  ASSUME NEW i \in Identity, NEW c \in Capabilities
  PROVE  /\ Granted(i, c) \in Identity
         /\ Granted(i, c).role = i.role
         /\ Granted(i, c).status = i.status
         /\ Withheld(i, c) \in Identity
         /\ Withheld(i, c).role = i.role
         /\ Withheld(i, c).status = i.status
  BY DEF Granted, Withheld, Identity

LEMMA IdentityChangesKeepType ==
  ASSUME identities \in [People -> Identity], IdentityChanges
  PROVE  identities' \in [People -> Identity]
<1>1. PICK p \in People :
        \/ \E role \in Roles : Insert(p, role) \/ SetRole(p, role)
        \/ Revoke(p)
        \/ \E c \in Capabilities : AddCapability(p, c) \/ RemoveCapability(p, c)
  BY DEF IdentityChanges
<1>2. ASSUME NEW role \in Roles, Insert(p, role) PROVE identities' \in [People -> Identity]
  BY <1>2, NewIdentityType DEF Insert
<1>3. ASSUME NEW role \in Roles, SetRole(p, role) PROVE identities' \in [People -> Identity]
  BY <1>3 DEF SetRole, Identity
<1>4. CASE Revoke(p)
  BY <1>4 DEF Revoke, Identity
<1>5. ASSUME NEW c \in Capabilities, AddCapability(p, c) PROVE identities' \in [People -> Identity]
  BY <1>5, GrantedKeeps DEF AddCapability
<1>6. ASSUME NEW c \in Capabilities, RemoveCapability(p, c) PROVE identities' \in [People -> Identity]
  BY <1>6, GrantedKeeps DEF RemoveCapability
<1> QED
  BY <1>1, <1>2, <1>3, <1>4, <1>5, <1>6

\* The part of the type that is about requests.
PairingsOK ==
  /\ pairings \in [People -> PairingRow]
  /\ minted \in 0 .. MaxTokens
  /\ \A p \in People : pairings[p].token <= minted
  /\ \A p, q \in People : pairings[p].token = pairings[q].token => p = q \/ pairings[p].token = 0

LEMMA NoPairingType == NoPairing \in PairingRow /\ NoPairing.token = 0
  BY DEF NoPairing, PairingRow

\* A method that only forgets requests, or lets one expire, keeps the rest.
LEMMA ForgettingKeepsPairings ==
  ASSUME PairingsOK, UNCHANGED minted, pairings' \in [People -> PairingRow],
         \A p \in People : pairings'[p].token \in {0, pairings[p].token}
  PROVE  PairingsOK'
  BY DEF PairingsOK, PairingRow

LEMMA PairingChangesKeepPairings ==
  ASSUME PairingsOK, PairingChanges
  PROVE  PairingsOK'
<1>1. ASSUME NEW p \in People, PairingExpires(p), UNCHANGED minted PROVE PairingsOK'
  <2>1. pairings' \in [People -> PairingRow]
    BY <1>1 DEF PairingsOK, PairingRow, PairingExpires
  <2>2. \A q \in People : pairings'[q].token \in {0, pairings[q].token}
    BY <1>1 DEF PairingsOK, PairingRow, PairingExpires
  <2> QED
    BY <1>1, <2>1, <2>2, ForgettingKeepsPairings
<1>2. ASSUME NEW t \in 1 .. MaxTokens, PairingDelete(t), UNCHANGED minted PROVE PairingsOK'
  <2>1. /\ pairings' \in [People -> PairingRow]
        /\ \A q \in People : pairings'[q].token \in {0, pairings[q].token}
    BY <1>2, NoPairingType DEF PairingsOK, PairingDelete
  <2> QED
    BY <1>2, <2>1, ForgettingKeepsPairings
<1>3. CASE PairingSweep /\ UNCHANGED minted
  <2>1. /\ pairings' \in [People -> PairingRow]
        /\ \A q \in People : pairings'[q].token \in {0, pairings[q].token}
    BY <1>3, NoPairingType DEF PairingsOK, PairingSweep
  <2> QED
    BY <1>3, <2>1, ForgettingKeepsPairings
<1>4. ASSUME NEW p \in People, PairingCreate(p) PROVE PairingsOK'
  <2>1. pairings'[p].token = minted + 1 /\ minted' = minted + 1 /\ minted' \in 0 .. MaxTokens
    BY <1>4 DEF PairingsOK, PairingCreate
  <2>2. \A q \in People : q # p => pairings'[q] = pairings[q]
    BY <1>4 DEF PairingsOK, PairingCreate
  <2>3. pairings' \in [People -> PairingRow]
    BY <1>4, <2>1 DEF PairingsOK, PairingCreate, PairingRow
  <2>4. \A q \in People : pairings[q].token \in Nat /\ pairings[q].token <= minted
    BY DEF PairingsOK, PairingRow
  <2> QED
    BY <2>1, <2>2, <2>3, <2>4 DEF PairingsOK
<1> QED
  BY <1>1, <1>2, <1>3, <1>4 DEF PairingChanges

LEMMA RegistryTypeParts == RegistryTypeOK <=> identities \in [People -> Identity] /\ PairingsOK
  BY DEF RegistryTypeOK, PairingsOK

LEMMA RegistryInitType == RegistryInit => RegistryTypeOK
  BY AbsentType, NoPairingType DEF RegistryInit, RegistryTypeOK

LEMMA RegistryStepType == RegistryTypeOK /\ [RegistryNext]_registryVars => RegistryTypeOK'
<1> SUFFICES ASSUME RegistryTypeOK, [RegistryNext]_registryVars
             PROVE  (identities \in [People -> Identity] /\ PairingsOK)'
  BY DEF RegistryTypeOK, PairingsOK
<1>1. CASE IdentityChanges /\ UNCHANGED <<pairings, minted>>
  BY <1>1, IdentityChangesKeepType, RegistryTypeParts DEF PairingsOK
<1>2. CASE PairingChanges /\ UNCHANGED identities
  BY <1>2, PairingChangesKeepPairings, RegistryTypeParts
<1>3. CASE UNCHANGED registryVars
  BY <1>3, RegistryTypeParts DEF registryVars, PairingsOK
<1> QED
  BY <1>1, <1>2, <1>3 DEF RegistryNext

(***************************************************************************)
(* The atomic registry keeps its rows well formed, and no two people ever  *)
(* answer to one pairing token.                                            *)
(***************************************************************************)
THEOREM RegistryTypeCorrect == RegistrySpec => []RegistryTypeOK
  BY RegistryInitType, RegistryStepType, PTL DEF RegistrySpec

-----------------------------------------------------------------------------
(***************************************************************************)
(* The last admin.                                                         *)
(***************************************************************************)
LEMMA FiniteAdmins == IsFiniteSet(ActiveAdmins)
  BY FS_Subset DEF ActiveAdmins

\* Who counts two can spare one.
LEMMA OneIsLeft ==
  ASSUME NEW S, IsFiniteSet(S), AdminToSpare(Cardinality(S)), NEW p
  PROVE  S \ {p} # {}
<1>1. Cardinality(S) \in Nat /\ Cardinality(S) >= 2
  BY FS_CardinalityType DEF AdminToSpare
<1>2. /\ IsFiniteSet(S \ {p})
      /\ Cardinality(S \ {p}) = IF p \in S THEN Cardinality(S) - 1 ELSE Cardinality(S)
  BY FS_RemoveElement
<1>3. Cardinality(S \ {p}) # 0
  BY <1>1, <1>2
<1> QED
  BY <1>2, <1>3, FS_EmptySet

\* An admin stays one as long as role and status stay.
LEMMA SameAdmins ==
  ASSUME \A q \in People : /\ identities'[q].role = identities[q].role
                           /\ identities'[q].status = identities[q].status
  PROVE  ActiveAdmins' = ActiveAdmins
  BY DEF ActiveAdmins

LEMMA ChangeKeepsAnAdmin ==
  ASSUME identities \in [People -> Identity], IdentityChanges, ActiveAdmins # {}
  PROVE  ActiveAdmins' # {}
<1>1. PICK p \in People :
        \/ \E role \in Roles : Insert(p, role) \/ SetRole(p, role)
        \/ Revoke(p)
        \/ \E c \in Capabilities : AddCapability(p, c) \/ RemoveCapability(p, c)
  BY DEF IdentityChanges
<1>2. ASSUME NEW role \in Roles, Insert(p, role) PROVE ActiveAdmins' # {}
  <2>1. \A q \in People : q # p => identities'[q] = identities[q]
    BY <1>2 DEF Insert
  <2>2. p \notin ActiveAdmins
    BY <1>2 DEF Insert, ActiveAdmins
  <2> QED
    BY <2>1, <2>2 DEF ActiveAdmins
\* Whoever loses the role or the status was counted, with somebody else.
<1>3. ASSUME \A q \in People : q # p => identities'[q] = identities[q],
             \/ p \notin ActiveAdmins
             \/ AdminToSpare(Cardinality(ActiveAdmins))
      PROVE  ActiveAdmins' # {}
  <2>1. ActiveAdmins \ {p} # {}
    BY <1>3, FiniteAdmins, OneIsLeft
  <2> QED
    BY <1>3, <2>1 DEF ActiveAdmins
<1>4. ASSUME NEW role \in Roles, SetRole(p, role) PROVE ActiveAdmins' # {}
  <2>1. CASE role = "admin"
    <3>1. \A q \in People : q # p => identities'[q] = identities[q]
      BY <1>4 DEF SetRole
    <3>2. identities'[p].role = "admin" /\ identities'[p].status = identities[p].status
      BY <1>4, <2>1 DEF SetRole, Identity
    <3> QED
      BY <3>1, <3>2 DEF ActiveAdmins
  <2>2. CASE role # "admin"
    BY <1>3, <1>4, <2>2 DEF SetRole, ActiveAdmins
  <2> QED
    BY <2>1, <2>2
<1>5. CASE Revoke(p)
  BY <1>3, <1>5 DEF Revoke, ActiveAdmins
<1>6. ASSUME NEW c \in Capabilities, AddCapability(p, c) \/ RemoveCapability(p, c)
      PROVE  ActiveAdmins' # {}
  <2>1. \A q \in People : /\ identities'[q].role = identities[q].role
                          /\ identities'[q].status = identities[q].status
    BY <1>6, GrantedKeeps DEF AddCapability, RemoveCapability
  <2> QED
    BY <2>1, SameAdmins
<1> QED
  BY <1>1, <1>2, <1>4, <1>5, <1>6

LEMMA RegistryStepKeepsAnAdmin ==
  RegistryTypeOK /\ [RegistryNext]_registryVars
    => [ActiveAdmins # {} => ActiveAdmins' # {}]_registryVars
<1> SUFFICES ASSUME RegistryTypeOK, [RegistryNext]_registryVars, ActiveAdmins # {}
             PROVE  ActiveAdmins' # {}
  OBVIOUS
<1>1. CASE IdentityChanges
  BY <1>1, ChangeKeepsAnAdmin, RegistryTypeParts
<1>2. CASE UNCHANGED identities
  BY <1>2, SameAdmins
<1> QED
  BY <1>1, <1>2 DEF RegistryNext, registryVars

(***************************************************************************)
(* With atomic methods the last active admin is never taken away.          *)
(***************************************************************************)
THEOREM RegistryKeepsAnAdmin == RegistrySpec => AdminsNeverEnd
  BY RegistryTypeCorrect, RegistryStepKeepsAnAdmin, PTL DEF RegistrySpec, AdminsNeverEnd

-----------------------------------------------------------------------------
(***************************************************************************)
(* Revocation.                                                             *)
(***************************************************************************)
LEMMA ChangeKeepsRevoked ==
  ASSUME identities \in [People -> Identity], IdentityChanges,
         NEW q \in People, identities[q].status = "revoked"
  PROVE  identities'[q].status = "revoked"
<1>1. PICK p \in People :
        \/ \E role \in Roles : Insert(p, role) \/ SetRole(p, role)
        \/ Revoke(p)
        \/ \E c \in Capabilities : AddCapability(p, c) \/ RemoveCapability(p, c)
  BY DEF IdentityChanges
<1>2. ASSUME NEW role \in Roles, Insert(p, role) PROVE identities'[q].status = "revoked"
  BY <1>2 DEF Insert
<1>3. ASSUME NEW role \in Roles, SetRole(p, role) PROVE identities'[q].status = "revoked"
  BY <1>3 DEF SetRole, Identity
<1>4. CASE Revoke(p)
  BY <1>4 DEF Revoke, Identity
<1>5. ASSUME NEW c \in Capabilities, AddCapability(p, c) \/ RemoveCapability(p, c)
      PROVE  identities'[q].status = "revoked"
  BY <1>5, GrantedKeeps DEF AddCapability, RemoveCapability
<1> QED
  BY <1>1, <1>2, <1>3, <1>4, <1>5

LEMMA RegistryStepKeepsRevoked ==
  RegistryTypeOK /\ [RegistryNext]_registryVars
    => [\A p \in People : identities[p].status = "revoked"
                            => identities'[p].status = "revoked"]_registryVars
<1> SUFFICES ASSUME RegistryTypeOK, [RegistryNext]_registryVars,
                    NEW p \in People, identities[p].status = "revoked"
             PROVE  identities'[p].status = "revoked"
  OBVIOUS
<1>1. CASE IdentityChanges
  BY <1>1, ChangeKeepsRevoked, RegistryTypeParts
<1>2. CASE UNCHANGED identities
  BY <1>2
<1> QED
  BY <1>1, <1>2 DEF RegistryNext, registryVars

(***************************************************************************)
(* No method of the registry brings a revoked person back.                 *)
(***************************************************************************)
THEOREM RegistryRevocationSticks == RegistrySpec => RevocationSticks
  BY RegistryTypeCorrect, RegistryStepKeepsRevoked, PTL DEF RegistrySpec, RevocationSticks

-----------------------------------------------------------------------------
(***************************************************************************)
(* Handlers.  A message that is being approved carries a token that was    *)
(* minted, a command about an identity is one of three, its row exists     *)
(* once it was looked up, and nobody handles a message while Minos starts. *)
(***************************************************************************)
HandlerOK(s, rows) ==
  /\ s.at \in {"find", "insert", "forget"} => s.msg.verb = "approve" /\ s.msg.token \in 1 .. MaxTokens
  /\ s.at \in {"lookup", "read", "count", "write"} => s.msg.verb \in {"revoke", "grant", "role"}
  /\ s.at \in {"read", "count", "write"} => rows[s.msg.person].status # "absent"

AccessInv ==
  /\ AccessTypeOK
  /\ \A h \in ChatHandlers : HandlerOK(chat[h], identities)
  /\ ~ serving => \A h \in ChatHandlers : chat[h].at = "idle"

RowsStay == \A p \in People : identities[p].status # "absent" => identities'[p].status # "absent"

LEMMA NothingType == Nothing \in Message
<1>1. (CHOOSE p \in People : TRUE) \in People
  BY ConfigAdminsAssumption
<1> QED
  BY <1>1 DEF Nothing, Message, Verbs, Roles, Capabilities, TaskCapabilities

LEMMA AtRestType == AtRest \in ChatState /\ \A rows : HandlerOK(AtRest, rows)
  BY NothingType, AbsentType DEF AtRest, ChatState, HandlerOK, Points

LEMMA AccessInitInv == AccessInit => AccessInv
<1> SUFFICES ASSUME AccessInit
             PROVE  AccessInv
  OBVIOUS
<1>1. RegistryTypeOK
  BY RegistryInitType DEF AccessInit
<1>2. \A h \in ChatHandlers : chat[h] = AtRest
  BY DEF AccessInit
<1>3. AtRest.at = "idle"
  BY DEF AtRest
<1>4. AccessTypeOK
  <2>1. chat \in [ChatHandlers -> ChatState]
    BY AtRestType DEF AccessInit
  <2>2. received \in 0 .. MaxCommands
    BY MaxCommandsAssumption DEF AccessInit
  <2>3. serving \in BOOLEAN
    BY Zenon DEF AccessInit
  <2> QED
    BY <1>1, <2>1, <2>2, <2>3 DEF AccessTypeOK
<1>5. \A h \in ChatHandlers : HandlerOK(chat[h], identities) /\ chat[h].at = "idle"
  BY <1>2, <1>3, AtRestType
<1> QED
  BY <1>4, <1>5 DEF AccessInv

\* A step of one handler keeps the invariant if its own new state is sound.
LEMMA OneHandlerMoves ==
  ASSUME AccessInv, RegistryTypeOK', RowsStay, serving, UNCHANGED serving,
         received' \in 0 .. MaxCommands,
         NEW h \in ChatHandlers, NEW s \in ChatState, HandlerOK(s, identities'),
         chat' = [chat EXCEPT ![h] = s]
  PROVE  AccessInv'
<1>1. chat \in [ChatHandlers -> ChatState]
  BY DEF AccessInv, AccessTypeOK
<1>2. chat' \in [ChatHandlers -> ChatState]
  BY <1>1
<1>3. \A g \in ChatHandlers : HandlerOK(chat'[g], identities')
  <2> TAKE g \in ChatHandlers
  <2>1. CASE g = h
    BY <1>1, <2>1
  <2>2. CASE g # h
    <3>1. chat'[g] = chat[g] /\ HandlerOK(chat[g], identities)
      BY <1>1, <2>2 DEF AccessInv
    <3>2. chat[g].msg.person \in People
      BY <1>1 DEF ChatState, Message
    <3> QED
      BY <3>1, <3>2 DEF HandlerOK, RowsStay
  <2> QED
    BY <2>1, <2>2
<1> QED
  BY <1>2, <1>3 DEF AccessInv, AccessTypeOK

\* A handler at work works for a Minos that serves.
LEMMA AtWork ==
  ASSUME AccessInv, NEW h \in ChatHandlers, chat[h].at # "idle"
  PROVE  serving
  BY DEF AccessInv

LEMMA HandlerTypes ==
  ASSUME AccessInv, NEW h \in ChatHandlers
  PROVE  /\ RegistryTypeOK
         /\ identities \in [People -> Identity]
         /\ chat \in [ChatHandlers -> ChatState]
         /\ chat[h] \in ChatState
         /\ HandlerOK(chat[h], identities)
         /\ received \in 0 .. MaxCommands
         /\ serving \in BOOLEAN
  BY DEF AccessInv, AccessTypeOK, RegistryTypeOK

-----------------------------------------------------------------------------
(***************************************************************************)
(* Every step but the commit of a transaction is a method of the registry, *)
(* or none.                                                                *)
(***************************************************************************)
LEMMA PairingMethods ==
  ASSUME AccessInv, NEW h \in ChatHandlers, StorePairing(h) \/ ForgetPairing(h)
  PROVE  [RegistryNext]_registryVars
<1>1. CASE StorePairing(h)
  <2>1. chat[h].msg.person \in People
    BY HandlerTypes DEF ChatState, Message
  <2> QED
    BY <1>1, <2>1 DEF StorePairing, RegistryNext, PairingChanges, registryVars
<1>2. CASE ForgetPairing(h)
  <2>1. chat[h].msg.token \in 1 .. MaxTokens
    BY <1>2, HandlerTypes DEF ForgetPairing, HandlerOK
  <2> QED
    BY <1>2, <2>1 DEF ForgetPairing, RegistryNext, PairingChanges, registryVars
<1> QED
  BY <1>1, <1>2

LEMMA InsertMethods ==
  ASSUME AccessInv, NEW h \in ChatHandlers, InsertApproved(h)
  PROVE  /\ [RegistryNext]_registryVars
         /\ \A p \in People : identities'[p] # identities[p] => identities[p].status = "absent"
<1>1. chat[h].msg.person \in People /\ chat[h].msg.role \in Roles
  BY HandlerTypes DEF ChatState, Message
<1>2. CASE Insert(chat[h].msg.person, chat[h].msg.role)
  BY <1>1, <1>2, HandlerTypes DEF InsertApproved, RegistryNext, IdentityChanges, Insert
<1>3. CASE UNCHANGED identities
  BY <1>3 DEF InsertApproved, registryVars
<1> QED
  BY <1>2, <1>3 DEF InsertApproved

LEMMA BootstrapMethods ==
  ASSUME AccessInv, NEW p \in People, Bootstrap(p)
  PROVE  /\ [RegistryNext]_registryVars
         /\ \A q \in People : identities'[q] # identities[q] => identities[q].status = "absent"
<1>1. "admin" \in Roles /\ "system" \in Roles
  BY DEF Roles
<1>2. identities \in [People -> Identity]
  BY DEF AccessInv, AccessTypeOK, RegistryTypeOK
<1>3. Insert(p, "admin") \/ Insert(p, "system")
  BY DEF Bootstrap, SeedRole
<1>4. IdentityChanges /\ UNCHANGED <<pairings, minted>>
  BY <1>1, <1>3 DEF Bootstrap, IdentityChanges
<1> QED
  BY <1>2, <1>3, <1>4 DEF RegistryNext, Insert

LEMMA ExpireMethods ==
  ASSUME NEW p \in People, Expire(p)
  PROVE  [RegistryNext]_registryVars
  BY DEF Expire, RegistryNext, PairingChanges

\* The steps that leave the registry alone.
Reads(h) ==
  \/ ReceivePair(h) \/ ReceiveCommand(h) \/ FindPairing(h)
  \/ LookupTarget(h) \/ BeginTx(h) \/ CountAdmins(h)

LEMMA ReadsChangeNothing ==
  ASSUME NEW h \in ChatHandlers, Reads(h)
  PROVE  UNCHANGED registryVars
  BY DEF Reads, ReceivePair, ReceiveCommand, FindPairing, LookupTarget, BeginTx, CountAdmins

-----------------------------------------------------------------------------
(***************************************************************************)
(* The commit: whatever was read, the row keeps its place, its owner stays *)
(* revoked if revoked, and nobody else's row changes.                      *)
(***************************************************************************)
LEMMA UpdatedKeeps ==
  ASSUME NEW msg \in Message, msg.verb \in {"revoke", "grant", "role"},
         NEW read \in Identity, NEW row \in Identity
  PROVE  /\ Updated(msg, read, row) \in Identity
         /\ row.status = "revoked" => Updated(msg, read, row).status = "revoked"
         /\ row.status # "absent" => Updated(msg, read, row).status # "absent"
<1>1. CASE msg.verb = "revoke"
  <2>1. Updated(msg, read, row) = [row EXCEPT !.status = "revoked"]
    BY <1>1 DEF Updated
  <2> QED
    BY <2>1 DEF Identity
<1>2. CASE msg.verb = "role"
  <2>1. Updated(msg, read, row) = [row EXCEPT !.role = msg.role]
    BY <1>2 DEF Updated
  <2> QED
    BY <2>1 DEF Identity, Message
<1>3. CASE msg.verb = "grant"
  <2>1. Updated(msg, read, row)
          = [row EXCEPT !.added   = Granted(read, msg.cap).added,
                        !.removed = Granted(read, msg.cap).removed]
    BY <1>3 DEF Updated
  <2>2. Granted(read, msg.cap) \in Identity
    BY GrantedKeeps DEF Message
  <2> QED
    BY <2>1, <2>2 DEF Identity
<1> QED
  BY <1>1, <1>2, <1>3

LEMMA CommitKeeps ==
  ASSUME AccessInv, NEW h \in ChatHandlers, CommitTx(h)
  PROVE  /\ RegistryTypeOK'
         /\ \A p \in People :
              /\ identities[p].status = "revoked" => identities'[p].status = "revoked"
              /\ identities[p].status # "absent" => identities'[p].status # "absent"
<1> DEFINE msg  == chat[h].msg
           read == chat[h].read
<1>1. /\ msg \in Message /\ read \in Identity /\ msg.person \in People
      /\ msg.verb \in {"revoke", "grant", "role"}
  BY HandlerTypes DEF CommitTx, ChatState, Message, HandlerOK
<1>2. identities \in [People -> Identity] /\ RegistryTypeOK
  BY HandlerTypes
<1>3. identities' = [identities EXCEPT ![msg.person] = Updated(msg, read, identities[msg.person])]
  BY DEF CommitTx
<1> HIDE DEF msg, read
<1>4. identities' \in [People -> Identity]
  BY <1>1, <1>2, <1>3, UpdatedKeeps
<1>5. \A p \in People :
        /\ identities[p].status = "revoked" => identities'[p].status = "revoked"
        /\ identities[p].status # "absent" => identities'[p].status # "absent"
  BY <1>1, <1>2, <1>3, UpdatedKeeps
<1> QED
  BY <1>2, <1>4, <1>5 DEF CommitTx, RegistryTypeOK

\* What every step does to the registry.
LEMMA RegistryUnderStep ==
  ASSUME AccessInv, [AccessNext]_accessVars
  PROVE  /\ RegistryTypeOK'
         /\ RowsStay
         /\ \A p \in People : identities[p].status = "revoked" => identities'[p].status = "revoked"
<1>1. RegistryTypeOK /\ identities \in [People -> Identity]
  BY DEF AccessInv, AccessTypeOK, RegistryTypeOK
<1>2. ASSUME [RegistryNext]_registryVars,
             \A p \in People : identities'[p] # identities[p] => identities[p].status = "absent"
      PROVE  /\ RegistryTypeOK' /\ RowsStay
             /\ \A p \in People : identities[p].status = "revoked" => identities'[p].status = "revoked"
  BY <1>1, <1>2, RegistryStepType DEF RowsStay
<1>3. ASSUME UNCHANGED identities, [RegistryNext]_registryVars
      PROVE  /\ RegistryTypeOK' /\ RowsStay
             /\ \A p \in People : identities[p].status = "revoked" => identities'[p].status = "revoked"
  BY <1>1, <1>3, RegistryStepType DEF RowsStay
<1>4. ASSUME NEW h \in ChatHandlers, Reads(h)
      PROVE  UNCHANGED identities /\ [RegistryNext]_registryVars
  BY <1>4, ReadsChangeNothing DEF registryVars
<1>5. ASSUME NEW h \in ChatHandlers, StorePairing(h) \/ ForgetPairing(h)
      PROVE  UNCHANGED identities /\ [RegistryNext]_registryVars
  <2>1. UNCHANGED identities
    BY <1>5 DEF StorePairing, ForgetPairing
  <2> QED
    BY <1>5, <2>1, PairingMethods
<1>6. CASE ChatCrash \/ Subscribe \/ UNCHANGED accessVars
  BY <1>3, <1>6 DEF ChatCrash, Subscribe, registryVars, accessVars
<1>7. ASSUME NEW p \in People, Expire(p)
      PROVE  UNCHANGED identities /\ [RegistryNext]_registryVars
  <2>1. UNCHANGED identities
    BY <1>7 DEF Expire
  <2> QED
    BY <1>7, <2>1, ExpireMethods
<1>8. ASSUME NEW h \in ChatHandlers, CommitTx(h)
      PROVE  /\ RegistryTypeOK' /\ RowsStay
             /\ \A p \in People : identities[p].status = "revoked" => identities'[p].status = "revoked"
  BY <1>8, CommitKeeps DEF RowsStay
<1> QED
  BY <1>2, <1>3, <1>4, <1>5, <1>6, <1>7, <1>8, InsertMethods, BootstrapMethods
  DEF AccessNext, HandlesMessage, Reads

-----------------------------------------------------------------------------
(***************************************************************************)
(* Every step keeps the invariant.                                         *)
(***************************************************************************)
LEMMA ReceiveKeepsInv ==
  ASSUME AccessInv, RegistryTypeOK', RowsStay, NEW h \in ChatHandlers,
         ReceivePair(h) \/ ReceiveCommand(h)
  PROVE  AccessInv'
<1>1. ASSUME NEW msg \in Message, NEW point \in Points, Receive(h, msg, point),
             HandlerOK([at |-> point, msg |-> msg, read |-> Absent], identities')
      PROVE  AccessInv'
  <2>1. [at |-> point, msg |-> msg, read |-> Absent] \in ChatState
    BY AbsentType DEF ChatState
  <2>2. received' \in 0 .. MaxCommands
    BY <1>1, HandlerTypes, MaxCommandsAssumption DEF Receive
  <2> QED
    BY <1>1, <2>1, <2>2, OneHandlerMoves DEF Receive
<1>2. CASE ReceivePair(h)
  <2>1. PICK p \in People : Receive(h, [Nothing EXCEPT !.verb = "pair", !.person = p], "pair")
    BY <1>2 DEF ReceivePair
  <2>2. [Nothing EXCEPT !.verb = "pair", !.person = p] \in Message
    BY NothingType DEF Message, Verbs
  <2>3. "pair" \in Points
    BY DEF Points
  <2> QED
    BY <1>1, <2>1, <2>2, <2>3 DEF HandlerOK
<1>3. CASE ReceiveCommand(h)
  <2>1. PICK msg \in Commands :
          Receive(h, msg, IF msg.verb = "approve" THEN "find" ELSE "lookup")
    BY <1>3 DEF ReceiveCommand
  <2>2. /\ msg \in Message
        /\ \/ msg.verb = "approve" /\ msg.token \in 1 .. MaxTokens
           \/ msg.verb \in {"revoke", "grant", "role"}
    <3>1. minted \in 0 .. MaxTokens
      BY HandlerTypes DEF RegistryTypeOK
    <3>2. ASSUME NEW t \in 1 .. minted, NEW r \in AskedRoles, msg = Approval(t, r)
          PROVE  msg \in Message /\ msg.verb = "approve" /\ msg.token \in 1 .. MaxTokens
      <4>1. t \in 0 .. MaxTokens /\ t \in 1 .. MaxTokens /\ r \in Roles
        BY <3>1, AskedRolesAssumption
      <4> QED
        BY <3>2, <4>1, NothingType DEF Message, Verbs, Approval
    <3>3. ASSUME NEW p \in People, msg = Revocation(p)
          PROVE  msg \in Message /\ msg.verb = "revoke"
      BY <3>3, NothingType DEF Message, Verbs, Revocation
    <3>4. ASSUME NEW p \in People, NEW c \in AskedCaps, msg = GrantOf(p, c)
          PROVE  msg \in Message /\ msg.verb = "grant"
      BY <3>4, NothingType, AskedCapsAssumption DEF Message, Verbs, GrantOf
    <3>5. ASSUME NEW p \in People, NEW r \in AskedRoles, msg = RoleChange(p, r)
          PROVE  msg \in Message /\ msg.verb = "role"
      BY <3>5, NothingType, AskedRolesAssumption DEF Message, Verbs, RoleChange
    <3> QED
      BY <2>1, <3>2, <3>3, <3>4, <3>5, SMT DEF Commands
  <2>3. "find" \in Points /\ "lookup" \in Points
    BY DEF Points
  <2>4. CASE msg.verb = "approve"
    BY <1>1, <2>1, <2>2, <2>3, <2>4 DEF HandlerOK
  <2>5. CASE msg.verb # "approve"
    BY <1>1, <2>1, <2>2, <2>3, <2>5 DEF HandlerOK
  <2> QED
    BY <2>4, <2>5
<1> QED
  BY <1>2, <1>3

LEMMA DoneKeepsInv ==
  ASSUME AccessInv, RegistryTypeOK', RowsStay, NEW h \in ChatHandlers,
         chat[h].at # "idle", Done(h), UNCHANGED <<serving, received>>
  PROVE  AccessInv'
  BY AtRestType, AtWork, HandlerTypes, OneHandlerMoves DEF Done

LEMMA GoKeepsInv ==
  ASSUME AccessInv, RegistryTypeOK', RowsStay, NEW h \in ChatHandlers,
         chat[h].at # "idle", NEW point \in Points, Go(h, point), UNCHANGED <<serving, received>>,
         HandlerOK([chat[h] EXCEPT !.at = point], identities')
  PROVE  AccessInv'
<1>1. [chat[h] EXCEPT !.at = point] \in ChatState
  BY HandlerTypes DEF ChatState
<1> QED
  BY <1>1, AtWork, HandlerTypes, OneHandlerMoves DEF Go

LEMMA PairingKeepsInv ==
  ASSUME AccessInv, RegistryTypeOK', RowsStay, NEW h \in ChatHandlers,
         StorePairing(h) \/ FindPairing(h) \/ InsertApproved(h) \/ ForgetPairing(h)
  PROVE  AccessInv'
<1>1. CASE StorePairing(h) \/ ForgetPairing(h)
  BY <1>1, DoneKeepsInv DEF StorePairing, ForgetPairing
<1>2. CASE FindPairing(h)
  <2>1. CASE Done(h)
    BY <1>2, <2>1, DoneKeepsInv DEF FindPairing
  <2>2. ASSUME NEW p \in People, chat' = [chat EXCEPT ![h].at = "insert", ![h].msg.person = p]
        PROVE  AccessInv'
    <3> DEFINE s == [chat[h] EXCEPT !.at = "insert", !.msg.person = p]
    <3>1. s \in ChatState
      BY HandlerTypes DEF ChatState, Message, Points
    <3>2. chat' = [chat EXCEPT ![h] = s]
      BY <2>2, HandlerTypes DEF ChatState
    <3>3. HandlerOK(s, identities')
      BY <1>2, HandlerTypes DEF FindPairing, HandlerOK, ChatState, Message
    <3>4. serving /\ UNCHANGED <<serving, received>>
      BY <1>2, AtWork DEF FindPairing
    <3> HIDE DEF s
    <3> QED
      BY <3>1, <3>2, <3>3, <3>4, HandlerTypes, OneHandlerMoves
  <2> QED
    BY <1>2, <2>1, <2>2 DEF FindPairing, PairingByToken
<1>3. CASE InsertApproved(h)
  <2>1. CASE Done(h)
    BY <1>3, <2>1, DoneKeepsInv DEF InsertApproved
  <2>2. CASE Go(h, "forget")
    <3>1. HandlerOK([chat[h] EXCEPT !.at = "forget"], identities')
      BY <1>3, HandlerTypes DEF InsertApproved, HandlerOK, ChatState
    <3>2. "forget" \in Points
      BY DEF Points
    <3> QED
      BY <1>3, <2>2, <3>1, <3>2, GoKeepsInv DEF InsertApproved
  <2> QED
    BY <1>3, <2>1, <2>2 DEF InsertApproved
<1> QED
  BY <1>1, <1>2, <1>3

LEMMA TransactionKeepsInv ==
  ASSUME AccessInv, RegistryTypeOK', RowsStay, NEW h \in ChatHandlers,
         LookupTarget(h) \/ BeginTx(h) \/ CountAdmins(h) \/ CommitTx(h)
  PROVE  AccessInv'
<1> DEFINE person == chat[h].msg.person
<1>1. person \in People
  BY HandlerTypes DEF ChatState, Message
<1>2. CASE LookupTarget(h)
  <2>1. CASE identities[person].status = "absent"
    BY <1>2, <2>1, DoneKeepsInv DEF LookupTarget
  <2>2. CASE identities[person].status # "absent"
    <3>1. HandlerOK([chat[h] EXCEPT !.at = "read"], identities')
      BY <1>1, <1>2, <2>2, HandlerTypes DEF LookupTarget, HandlerOK, ChatState, RowsStay
    <3>2. "read" \in Points
      BY DEF Points
    <3> QED
      BY <1>2, <2>2, <3>1, <3>2, GoKeepsInv DEF LookupTarget
  <2> QED
    BY <2>1, <2>2
<1>3. CASE BeginTx(h)
  <2> DEFINE row   == identities[person]
             point == IF Dethrones(chat[h].msg, row) THEN "count" ELSE "write"
             s     == [chat[h] EXCEPT !.read = row, !.at = point]
  <2>1. CASE chat[h].msg.verb = "revoke" /\ row.status = "revoked"
    BY <1>3, <2>1, DoneKeepsInv DEF BeginTx
  <2>2. CASE ~ (chat[h].msg.verb = "revoke" /\ row.status = "revoked")
    <3>1. chat' = [chat EXCEPT ![h] = s]
      BY <1>3, <2>2, HandlerTypes DEF BeginTx, ChatState
    <3>2. point \in {"count", "write"} /\ point \in Points
      BY DEF Points
    <3>3. row \in Identity
      BY <1>1, HandlerTypes
    <3>4. serving /\ UNCHANGED <<serving, received>>
      BY <1>3, AtWork DEF BeginTx
    <3>5. s \in ChatState /\ s.at = point /\ s.msg = chat[h].msg
      <4> HIDE DEF point, row
      <4> QED
        BY <3>2, <3>3, HandlerTypes DEF ChatState
    <3>6. HandlerOK(s, identities')
      <4> HIDE DEF s, point
      <4> QED
        BY <1>1, <1>3, <3>2, <3>5, HandlerTypes DEF BeginTx, HandlerOK, RowsStay
    <3> HIDE DEF s
    <3> QED
      BY <3>1, <3>4, <3>5, <3>6, HandlerTypes, OneHandlerMoves
  <2> QED
    BY <2>1, <2>2
<1>4. CASE CountAdmins(h)
  <2>1. CASE Done(h)
    BY <1>4, <2>1, DoneKeepsInv DEF CountAdmins
  <2>2. CASE Go(h, "write")
    <3>1. HandlerOK([chat[h] EXCEPT !.at = "write"], identities')
      BY <1>1, <1>4, HandlerTypes DEF CountAdmins, HandlerOK, ChatState, RowsStay
    <3>2. "write" \in Points
      BY DEF Points
    <3> QED
      BY <1>4, <2>2, <3>1, <3>2, GoKeepsInv DEF CountAdmins
  <2> QED
    BY <1>4, <2>1, <2>2 DEF CountAdmins
<1>5. CASE CommitTx(h)
  BY <1>5, DoneKeepsInv DEF CommitTx
<1> QED
  BY <1>2, <1>3, <1>4, <1>5

\* Nobody is at work: nothing but the registry and the flag can have changed.
LEMMA AtRestKeepsInv ==
  ASSUME AccessInv, RegistryTypeOK', \A h \in ChatHandlers : chat'[h] = AtRest,
         chat' \in [ChatHandlers -> ChatState], received' = received, serving' \in BOOLEAN
  PROVE  AccessInv'
<1>1. AtRest.at = "idle"
  BY DEF AtRest
<1>2. \A h \in ChatHandlers : HandlerOK(chat'[h], identities') /\ chat'[h].at = "idle"
  BY <1>1, AtRestType
<1> QED
  BY <1>2 DEF AccessInv, AccessTypeOK

\* The steps that are taken without a message.
LEMMA OtherStepsKeepInv ==
  ASSUME AccessInv, RegistryTypeOK', RowsStay, UNCHANGED <<chat, received>>,
         serving' \in BOOLEAN, serving => serving'
  PROVE  AccessInv'
<1>1. \A h \in ChatHandlers : chat[h].msg.person \in People
  BY DEF AccessInv, AccessTypeOK, ChatState, Message
<1>2. \A h \in ChatHandlers : HandlerOK(chat'[h], identities')
  BY <1>1 DEF AccessInv, HandlerOK, RowsStay
<1> QED
  BY <1>2 DEF AccessInv, AccessTypeOK

LEMMA AccessStepInv == AccessInv /\ [AccessNext]_accessVars => AccessInv'
<1> SUFFICES ASSUME AccessInv, [AccessNext]_accessVars
             PROVE  AccessInv'
  OBVIOUS
<1>1. RegistryTypeOK' /\ RowsStay
  BY RegistryUnderStep
<1>2. ASSUME NEW h \in ChatHandlers, HandlesMessage(h) PROVE AccessInv'
  BY <1>1, <1>2, ReceiveKeepsInv, PairingKeepsInv, TransactionKeepsInv DEF HandlesMessage
<1>3. CASE ChatCrash
  BY <1>1, <1>3, AtRestType, AtRestKeepsInv, Zenon DEF ChatCrash
<1>4. serving \in BOOLEAN
  BY DEF AccessInv, AccessTypeOK
<1>5. CASE Subscribe
  BY <1>1, <1>5, OtherStepsKeepInv, Zenon DEF Subscribe
<1>6. ASSUME NEW p \in People, Bootstrap(p) \/ Expire(p) PROVE AccessInv'
  BY <1>1, <1>4, <1>6, OtherStepsKeepInv, Zenon DEF Bootstrap, Expire, chatVars
<1>7. CASE UNCHANGED accessVars
  BY <1>1, <1>4, <1>7, OtherStepsKeepInv, Zenon DEF accessVars, chatVars
<1> QED
  BY <1>2, <1>3, <1>5, <1>6, <1>7 DEF AccessNext

LEMMA AccessInvariant == AccessSpec => []AccessInv
  BY AccessInitInv, AccessStepInv, PTL DEF AccessSpec

(***************************************************************************)
(* However the statements of any number of handlers interleave, and        *)
(* wherever Minos dies, rows and messages stay well formed.                *)
(***************************************************************************)
THEOREM AccessTypeCorrect == AccessSpec => []AccessTypeOK
<1>1. AccessInv => AccessTypeOK
  BY DEF AccessInv
<1> QED
  BY <1>1, AccessInvariant, PTL

(***************************************************************************)
(* On Postgres too, with any number of transactions open at once, no       *)
(* revoked person comes back.                                              *)
(***************************************************************************)
THEOREM AccessRevocationSticks == AccessSpec => RevocationSticks
<1>1. AccessInv /\ [AccessNext]_accessVars
        => [\A p \in People : identities[p].status = "revoked"
                                => identities'[p].status = "revoked"]_registryVars
  BY RegistryUnderStep
<1> QED
  BY <1>1, AccessInvariant, PTL DEF AccessSpec, RevocationSticks

-----------------------------------------------------------------------------
(***************************************************************************)
(* Transactions that do not clash.  What each of them has read is still so *)
(* when it commits: another one that is open changes other rows and takes  *)
(* no admin away while an admin is about to go, and all that the handlers  *)
(* outside of transactions do is insert rows, which adds admins.           *)
(***************************************************************************)
InTx(s) == s.at \in {"count", "write"}

TxFresh(s, rows, admins) ==
  InTx(s) =>
    /\ s.read = rows[s.msg.person]
    /\ s.msg.verb = "revoke" => s.read.status = "active"
    /\ s.at = "write" /\ Dethrones(s.msg, s.read) => AdminToSpare(Cardinality(admins))

FreshInv == \A h \in ChatHandlers : TxFresh(chat[h], identities, ActiveAdmins)

\* The rows that are there are left alone, so that the admins are still there.
Inserts == \A p \in People : identities[p].status # "absent" => identities'[p] = identities[p]

LEMMA MoreAdmins ==
  ASSUME ActiveAdmins \subseteq ActiveAdmins', AdminToSpare(Cardinality(ActiveAdmins))
  PROVE  AdminToSpare(Cardinality(ActiveAdmins'))
<1>1. IsFiniteSet(ActiveAdmins')
  BY FS_Subset DEF ActiveAdmins
<1>2. Cardinality(ActiveAdmins) <= Cardinality(ActiveAdmins')
  BY <1>1, FS_Subset
<1>3. Cardinality(ActiveAdmins) \in Nat /\ Cardinality(ActiveAdmins') \in Nat
  BY <1>1, FiniteAdmins, FS_CardinalityType
<1> QED
  BY <1>2, <1>3 DEF AdminToSpare

LEMMA InsertsKeepAdmins == Inserts => ActiveAdmins \subseteq ActiveAdmins'
  BY DEF Inserts, ActiveAdmins

\* A transaction that does not move stays fresh under inserts.
LEMMA FreshUnderInserts ==
  ASSUME AccessInv, FreshInv, Inserts, NEW h \in ChatHandlers
  PROVE  TxFresh(chat[h], identities', ActiveAdmins')
<1>1. /\ InTx(chat[h]) => identities[chat[h].msg.person].status # "absent"
      /\ chat[h].msg.person \in People
  BY HandlerTypes DEF HandlerOK, InTx, ChatState, Message
<1>2. TxFresh(chat[h], identities, ActiveAdmins)
  BY DEF FreshInv
<1> QED
  BY <1>1, <1>2, MoreAdmins, InsertsKeepAdmins DEF Inserts, TxFresh

\* A handler that is outside of a transaction after its step.
LEMMA OutsideStep ==
  ASSUME AccessInv, FreshInv, Inserts,
         \A g \in ChatHandlers : chat'[g] = chat[g] \/ ~ InTx(chat'[g])
  PROVE  FreshInv'
<1>1. ASSUME NEW g \in ChatHandlers
      PROVE  TxFresh(chat'[g], identities', ActiveAdmins')
  <2>1. CASE chat'[g] = chat[g]
    BY <2>1, FreshUnderInserts
  <2>2. CASE ~ InTx(chat'[g])
    BY <2>2 DEF TxFresh
  <2> QED
    BY <2>1, <2>2
<1> QED
  BY <1>1 DEF FreshInv

LEMMA OthersStay ==
  ASSUME AccessInv, NEW h \in ChatHandlers, NEW s, chat' = [chat EXCEPT ![h] = s]
  PROVE  chat'[h] = s /\ \A g \in ChatHandlers : g # h => chat'[g] = chat[g]
  BY HandlerTypes

LEMMA AtRestOutside == ~ InTx(AtRest)
  BY DEF AtRest, InTx

\* Handlers that do not enter or leave a transaction.
LEMMA OutsideStepsInsert ==
  ASSUME AccessInv, NEW h \in ChatHandlers,
         \/ ReceivePair(h) \/ ReceiveCommand(h)
         \/ StorePairing(h) \/ FindPairing(h) \/ InsertApproved(h) \/ ForgetPairing(h)
         \/ LookupTarget(h)
  PROVE  /\ Inserts
         /\ \A g \in ChatHandlers : chat'[g] = chat[g] \/ ~ InTx(chat'[g])
<1>1. Inserts
  <2>1. CASE InsertApproved(h)
    BY <2>1, InsertMethods DEF Inserts
  <2>2. CASE UNCHANGED identities
    BY <2>2 DEF Inserts
  <2> QED
    BY <2>1, <2>2, ReadsChangeNothing
    DEF Reads, registryVars, StorePairing, ForgetPairing
<1>2. \A g \in ChatHandlers : g # h => chat'[g] = chat[g]
  BY HandlerTypes
  DEF ReceivePair, ReceiveCommand, Receive, StorePairing, FindPairing, InsertApproved,
      ForgetPairing, LookupTarget, Done, Go
<1>3. ~ InTx(chat'[h])
  <2>1. ASSUME NEW msg, NEW point \in {"pair", "find", "lookup"}, Receive(h, msg, point)
        PROVE  ~ InTx(chat'[h])
    <3>1. chat'[h] = [at |-> point, msg |-> msg, read |-> Absent]
      BY <2>1, OthersStay DEF Receive
    <3> QED
      BY <3>1 DEF InTx
  <2>2. CASE ReceivePair(h) \/ ReceiveCommand(h)
    BY <2>1, <2>2 DEF ReceivePair, ReceiveCommand
  <2>3. CASE Done(h)
    BY <2>3, OthersStay, AtRestOutside DEF Done
  <2>4. ASSUME NEW point \in {"forget", "read"}, Go(h, point)
        PROVE  ~ InTx(chat'[h])
    BY <2>4, HandlerTypes DEF Go, InTx, ChatState
  <2>5. CASE FindPairing(h) /\ ~ Done(h)
    BY <2>5, HandlerTypes DEF FindPairing, InTx, ChatState
  <2> QED
    BY <2>2, <2>3, <2>4, <2>5
    DEF StorePairing, InsertApproved, ForgetPairing, LookupTarget
<1> QED
  BY <1>1, <1>2, <1>3

\* A transaction that commits what it was free to commit takes no admin away,
\* and touches no row but its own.
LEMMA QuietCommit ==
  ASSUME AccessInv, NEW h \in ChatHandlers, CommitTx(h),
         \/ ~ Demotes(chat[h].msg)
         \/ chat[h].msg.person \notin ActiveAdmins
  PROVE  ActiveAdmins \subseteq ActiveAdmins'
<1> DEFINE msg == chat[h].msg
           row == identities[msg.person]
<1>1. /\ msg.person \in People
      /\ msg.verb \in {"revoke", "grant", "role"}
      /\ row \in Identity /\ identities \in [People -> Identity]
  BY HandlerTypes DEF CommitTx, ChatState, Message, HandlerOK
<1>2. identities' = [identities EXCEPT ![msg.person] = Updated(msg, chat[h].read, row)]
  BY DEF CommitTx
<1>3. CASE msg.person \notin ActiveAdmins
  BY <1>1, <1>2, <1>3 DEF ActiveAdmins
<1>4. CASE msg.verb = "grant"
  <2>1. Updated(msg, chat[h].read, row).role = row.role /\ Updated(msg, chat[h].read, row).status = row.status
    BY <1>1, <1>4 DEF Updated, Identity
  <2> QED
    BY <1>1, <1>2, <2>1 DEF ActiveAdmins
<1>5. CASE msg.verb = "role" /\ msg.role = "admin"
  <2>1. Updated(msg, chat[h].read, row) = [row EXCEPT !.role = "admin"]
    BY <1>5 DEF Updated
  <2>2. [row EXCEPT !.role = "admin"].status = row.status /\ [row EXCEPT !.role = "admin"].role = "admin"
    BY <1>1 DEF Identity
  <2> HIDE DEF row
  <2>3. \A q \in ActiveAdmins : q \in ActiveAdmins'
    BY <1>1, <1>2, <2>1, <2>2 DEF ActiveAdmins, row
  <2> QED
    BY <2>3
<1> QED
  BY <1>1, <1>3, <1>4, <1>5 DEF Demotes

LEMMA TransactionSteps ==
  ASSUME AccessInv, FreshInv, ~ Clash, NEW h \in ChatHandlers,
         BeginTx(h) \/ CountAdmins(h) \/ CommitTx(h)
  PROVE  FreshInv'
<1> DEFINE msg == chat[h].msg
           row == identities[msg.person]
<1>1. CASE Done(h) /\ UNCHANGED identities
  <2>1. Inserts
    BY <1>1 DEF Inserts
  <2>2. \A g \in ChatHandlers : chat'[g] = chat[g] \/ ~ InTx(chat'[g])
    BY <1>1, OthersStay, AtRestOutside DEF Done
  <2> QED
    BY <2>1, <2>2, OutsideStep
<1>2. ASSUME NEW s, chat' = [chat EXCEPT ![h] = s], UNCHANGED identities,
             TxFresh(s, identities', ActiveAdmins')
      PROVE  FreshInv'
  <2>1. Inserts
    BY <1>2 DEF Inserts
  <2>2. ASSUME NEW g \in ChatHandlers PROVE TxFresh(chat'[g], identities', ActiveAdmins')
    BY <1>2, <2>1, OthersStay, FreshUnderInserts
  <2> QED
    BY <2>2 DEF FreshInv
<1>3. CASE BeginTx(h) /\ ~ Done(h)
  <2> DEFINE point == IF Dethrones(msg, row) THEN "count" ELSE "write"
             s     == [chat[h] EXCEPT !.read = row, !.at = point]
  <2>1. /\ chat' = [chat EXCEPT ![h] = s]
        /\ UNCHANGED identities
        /\ ~ (msg.verb = "revoke" /\ row.status = "revoked")
    BY <1>3, HandlerTypes DEF BeginTx, ChatState, registryVars
  <2>2. s.at = point /\ s.msg = msg /\ s.read = row
    BY HandlerTypes DEF ChatState
  <2>3. row.status \in {"active", "revoked"}
    <3>1. row.status # "absent"
      BY <1>3, HandlerTypes DEF BeginTx, HandlerOK
    <3>2. row \in Identity
      BY HandlerTypes DEF ChatState, Message
    <3> QED
      BY <3>1, <3>2 DEF Identity
  <2>4. TxFresh(s, identities', ActiveAdmins')
    <3>1. s.at = "write" => ~ Dethrones(s.msg, s.read)
      BY <2>2
    <3> HIDE DEF s, point
    <3> QED
      BY <2>1, <2>2, <2>3, <3>1 DEF TxFresh
  <2> HIDE DEF s
  <2> QED
    BY <1>2, <2>1, <2>4
<1>4. CASE CountAdmins(h) /\ ~ Done(h)
  <2> DEFINE s == [chat[h] EXCEPT !.at = "write"]
  <2>1. /\ chat' = [chat EXCEPT ![h] = s]
        /\ UNCHANGED identities
        /\ AdminToSpare(Cardinality(ActiveAdmins))
        /\ InTx(chat[h])
    BY <1>4 DEF CountAdmins, Go, registryVars, InTx
  <2>2. s.at = "write" /\ s.msg = msg /\ s.read = chat[h].read
    BY HandlerTypes DEF ChatState
  <2> HIDE DEF s
  <2>3. ActiveAdmins' = ActiveAdmins
    BY <2>1 DEF ActiveAdmins
  <2>4. TxFresh(chat[h], identities, ActiveAdmins)
    BY DEF FreshInv
  <2>5. TxFresh(s, identities', ActiveAdmins')
    BY <2>1, <2>2, <2>3, <2>4 DEF TxFresh, InTx
  <2> QED
    BY <1>2, <2>1, <2>5
<1>5. CASE CommitTx(h)
  <2>1. InTx(chat[h]) /\ TxFresh(chat[h], identities, ActiveAdmins)
    BY <1>5 DEF CommitTx, InTx, FreshInv
  <2>2. chat' = [chat EXCEPT ![h] = AtRest]
    BY <1>5 DEF CommitTx, Done
  <2>3. msg.person \in People /\ \A p \in People : p # msg.person => identities'[p] = identities[p]
    BY <1>5, HandlerTypes DEF CommitTx, ChatState, Message
  <2>4. ASSUME NEW g \in ChatHandlers, g # h, InTx(chat[g])
        PROVE  TxFresh(chat[g], identities', ActiveAdmins')
    <3>1. /\ chat[g].msg.person # msg.person
          /\ ~ (Dethrones(msg, chat[h].read) /\ Dethrones(chat[g].msg, chat[g].read))
      BY <2>1, <2>4 DEF Clash, OpenTx, InTx
    <3>2. chat[g].msg.person \in People /\ TxFresh(chat[g], identities, ActiveAdmins)
      BY HandlerTypes DEF ChatState, Message, FreshInv
    <3>3. identities'[chat[g].msg.person] = identities[chat[g].msg.person]
      BY <2>3, <3>1, <3>2
    <3>4. Dethrones(chat[g].msg, chat[g].read) => ActiveAdmins \subseteq ActiveAdmins'
      BY <1>5, <2>1, <3>1, QuietCommit DEF TxFresh, Dethrones, ActiveAdmins
    <3> QED
      BY <3>2, <3>3, <3>4, MoreAdmins DEF TxFresh
  <2>5. ASSUME NEW g \in ChatHandlers PROVE TxFresh(chat'[g], identities', ActiveAdmins')
    <3>1. CASE g = h
      BY <2>2, <3>1, OthersStay, AtRestOutside DEF TxFresh
    <3>2. CASE g # h
      BY <2>2, <2>4, <3>2, OthersStay DEF TxFresh
    <3> QED
      BY <3>1, <3>2
  <2> QED
    BY <2>5 DEF FreshInv
<1> QED
  BY <1>1, <1>3, <1>4, <1>5 DEF BeginTx, CountAdmins, registryVars

\* Steps that are nobody's.
LEMMA StartAndStopInsert ==
  ASSUME AccessInv,
         ChatCrash \/ Subscribe \/ (\E p \in People : Bootstrap(p) \/ Expire(p)) \/ UNCHANGED accessVars
  PROVE  /\ Inserts
         /\ \A g \in ChatHandlers : chat'[g] = chat[g] \/ ~ InTx(chat'[g])
<1>1. Inserts
  <2>1. ASSUME NEW p \in People, Bootstrap(p) PROVE Inserts
    BY <2>1, BootstrapMethods DEF Inserts
  <2>2. CASE UNCHANGED identities
    BY <2>2 DEF Inserts
  <2> QED
    BY <2>1, <2>2 DEF ChatCrash, Subscribe, Expire, registryVars, accessVars
<1>2. \A g \in ChatHandlers : chat'[g] = chat[g] \/ ~ InTx(chat'[g])
  <2>1. CASE ChatCrash
    BY <2>1, AtRestOutside DEF ChatCrash
  <2>2. CASE UNCHANGED chat
    BY <2>2
  <2> QED
    BY <2>1, <2>2 DEF Subscribe, Bootstrap, Expire, chatVars, accessVars
<1> QED
  BY <1>1, <1>2

LEMMA FreshStep == AccessInv /\ FreshInv /\ ~ Clash /\ [AccessNext]_accessVars => FreshInv'
<1> SUFFICES ASSUME AccessInv, FreshInv, ~ Clash, [AccessNext]_accessVars
             PROVE  FreshInv'
  OBVIOUS
<1>1. ASSUME NEW h \in ChatHandlers, HandlesMessage(h) PROVE FreshInv'
  BY <1>1, OutsideStepsInsert, OutsideStep, TransactionSteps DEF HandlesMessage
<1> QED
  BY <1>1, StartAndStopInsert, OutsideStep DEF AccessNext

LEMMA FreshInit == AccessInit => FreshInv
<1> SUFFICES ASSUME AccessInit
             PROVE  FreshInv
  OBVIOUS
<1>1. \A h \in ChatHandlers : ~ InTx(chat[h])
  BY AtRestOutside DEF AccessInit
<1> QED
  BY <1>1 DEF FreshInv, TxFresh

LEMMA FreshInvariant == AccessSpec /\ []~ Clash => []FreshInv
  BY FreshInit, FreshStep, AccessInvariant, PTL DEF AccessSpec

-----------------------------------------------------------------------------
(***************************************************************************)
(* A commit on fresh reads is a whole method.                              *)
(***************************************************************************)
LEMMA CommitIsMethod ==
  ASSUME AccessInv, FreshInv, NEW h \in ChatHandlers, CommitTx(h)
  PROVE  [RegistryNext]_registryVars
<1> DEFINE msg == chat[h].msg
           row == identities[msg.person]
<1>1. /\ msg.person \in People /\ msg.role \in Roles /\ msg.cap \in Capabilities
      /\ msg.verb \in {"revoke", "grant", "role"}
      /\ row.status # "absent" /\ row \in Identity
  BY HandlerTypes DEF CommitTx, ChatState, Message, HandlerOK
<1>2. /\ chat[h].read = row
      /\ msg.verb = "revoke" => row.status = "active"
      /\ Dethrones(msg, row) => AdminToSpare(Cardinality(ActiveAdmins))
  BY DEF FreshInv, TxFresh, InTx, CommitTx
<1>3. /\ identities' = [identities EXCEPT ![msg.person] = Updated(msg, row, row)]
      /\ UNCHANGED <<pairings, minted>>
  BY <1>2 DEF CommitTx
<1>4. SUFFICES IdentityChanges
  BY <1>3 DEF RegistryNext
<1>5. CASE msg.verb = "revoke"
  <2>1. Updated(msg, row, row) = [row EXCEPT !.status = "revoked"]
    BY <1>5 DEF Updated
  <2>2. Revoke(msg.person)
    BY <1>2, <1>3, <1>5, <2>1 DEF Revoke, Dethrones, Demotes
  <2> QED
    BY <1>1, <2>2 DEF IdentityChanges
<1>6. CASE msg.verb = "role"
  <2>1. Updated(msg, row, row) = [row EXCEPT !.role = msg.role]
    BY <1>6 DEF Updated
  <2>2. SetRole(msg.person, msg.role)
    BY <1>1, <1>2, <1>3, <1>6, <2>1 DEF SetRole, Dethrones, Demotes
  <2> QED
    BY <1>1, <2>2 DEF IdentityChanges
<1>7. CASE msg.verb = "grant"
  <2>1. Updated(msg, row, row) = [row EXCEPT !.added   = Granted(row, msg.cap).added,
                                             !.removed = Granted(row, msg.cap).removed]
    BY <1>7 DEF Updated
  <2>2. Updated(msg, row, row) = Granted(row, msg.cap)
    BY <1>1, <2>1 DEF Granted, Identity
  <2>3. AddCapability(msg.person, msg.cap)
    BY <1>1, <1>3, <2>2 DEF AddCapability
  <2> QED
    BY <1>1, <2>3 DEF IdentityChanges
<1> QED
  BY <1>1, <1>5, <1>6, <1>7

LEMMA StepIsMethod ==
  AccessInv /\ FreshInv /\ [AccessNext]_accessVars => [RegistryNext]_registryVars
<1> SUFFICES ASSUME AccessInv, FreshInv, [AccessNext]_accessVars
             PROVE  [RegistryNext]_registryVars
  OBVIOUS
<1>1. CASE ChatCrash \/ Subscribe \/ UNCHANGED accessVars
  BY <1>1 DEF ChatCrash, Subscribe, accessVars
<1>2. ASSUME NEW h \in ChatHandlers, Reads(h) PROVE [RegistryNext]_registryVars
  BY <1>2, ReadsChangeNothing
<1> QED
  BY <1>1, <1>2, CommitIsMethod, PairingMethods, InsertMethods, BootstrapMethods, ExpireMethods
  DEF AccessNext, HandlesMessage, Reads

LEMMA QuietImplementsRegistry == AccessSpec /\ []~ Clash => RegistrySpec
<1>1. AccessInit => RegistryInit
  BY DEF AccessInit
<1> QED
  BY <1>1, StepIsMethod, AccessInvariant, FreshInvariant, PTL DEF AccessSpec, RegistrySpec

LEMMA AtomicInit == RegistryInit => Atomic!RegistryInit
  BY DEF RegistryInit, Atomic!RegistryInit, Absent, Atomic!Absent, NewIdentity, Atomic!NewIdentity,
         NoPairing, Atomic!NoPairing

\* The instance substitutes every name for itself, so each method is the
\* method of the same name.
LEMMA AtomicIdentityMethods ==
  ASSUME NEW p \in People
  PROVE  /\ \A role \in Roles : Insert(p, role) => Atomic!Insert(p, role)
         /\ \A role \in Roles : SetRole(p, role) => Atomic!SetRole(p, role)
         /\ Revoke(p) => Atomic!Revoke(p)
         /\ \A c \in Capabilities : AddCapability(p, c) => Atomic!AddCapability(p, c)
         /\ \A c \in Capabilities : RemoveCapability(p, c) => Atomic!RemoveCapability(p, c)
<1>1. Atomic!ActiveAdmins = ActiveAdmins
  BY DEF Atomic!ActiveAdmins, ActiveAdmins
<1>2. Atomic!Cardinality(Atomic!ActiveAdmins) = Cardinality(ActiveAdmins)
  BY <1>1, Zenon DEF Cardinality, Atomic!Cardinality
<1>3. \A c \in Capabilities : Atomic!Granted(identities[p], c) = Granted(identities[p], c)
  BY DEF Granted, Atomic!Granted
<1>4. \A c \in Capabilities : Atomic!Withheld(identities[p], c) = Withheld(identities[p], c)
  BY DEF Withheld, Atomic!Withheld
<1>5. \A role \in Roles : Insert(p, role) => Atomic!Insert(p, role)
  BY DEF Insert, Atomic!Insert, NewIdentity, Atomic!NewIdentity
<1>6. \A role \in Roles : SetRole(p, role) => Atomic!SetRole(p, role)
  BY <1>2 DEF SetRole, Atomic!SetRole, AdminToSpare, Atomic!AdminToSpare
<1>7. Revoke(p) => Atomic!Revoke(p)
  BY <1>2 DEF Revoke, Atomic!Revoke, AdminToSpare, Atomic!AdminToSpare
<1>8. \A c \in Capabilities : AddCapability(p, c) => Atomic!AddCapability(p, c)
  BY <1>3 DEF AddCapability, Atomic!AddCapability
<1>9. \A c \in Capabilities : RemoveCapability(p, c) => Atomic!RemoveCapability(p, c)
  BY <1>4 DEF RemoveCapability, Atomic!RemoveCapability
<1> QED
  BY <1>5, <1>6, <1>7, <1>8, <1>9

LEMMA AtomicPairingMethods ==
  /\ \A p \in People : PairingExpires(p) => Atomic!PairingExpires(p)
  /\ \A p \in People : PairingCreate(p) => Atomic!PairingCreate(p)
  /\ \A t \in 1 .. MaxTokens : PairingDelete(t) => Atomic!PairingDelete(t)
  /\ PairingSweep => Atomic!PairingSweep
<1>1. \A p \in People : PairingExpires(p) => Atomic!PairingExpires(p)
  BY DEF PairingExpires, Atomic!PairingExpires
<1>2. \A p \in People : PairingCreate(p) => Atomic!PairingCreate(p)
  BY DEF PairingCreate, Atomic!PairingCreate, NoPairing, Atomic!NoPairing
<1>3. \A t \in 1 .. MaxTokens : PairingDelete(t) => Atomic!PairingDelete(t)
  BY DEF PairingDelete, Atomic!PairingDelete, NoPairing, Atomic!NoPairing
<1>4. PairingSweep => Atomic!PairingSweep
  BY DEF PairingSweep, Atomic!PairingSweep, NoPairing, Atomic!NoPairing
<1> QED
  BY <1>1, <1>2, <1>3, <1>4

LEMMA AtomicStep == [RegistryNext]_registryVars => [Atomic!RegistryNext]_(Atomic!registryVars)
<1>1. Atomic!Roles = Roles /\ Atomic!Capabilities = Capabilities
  BY DEF Roles, Atomic!Roles, Capabilities, Atomic!Capabilities, TaskCapabilities, Atomic!TaskCapabilities
<1>2. IdentityChanges => Atomic!IdentityChanges
  BY <1>1, AtomicIdentityMethods, Zenon DEF IdentityChanges, Atomic!IdentityChanges
<1>3. PairingChanges => Atomic!PairingChanges
  BY AtomicPairingMethods, Zenon DEF PairingChanges, Atomic!PairingChanges
<1>4. RegistryNext => Atomic!RegistryNext
  BY <1>2, <1>3, Zenon DEF RegistryNext, Atomic!RegistryNext
<1> QED
  BY <1>4, Zenon DEF registryVars, Atomic!registryVars

(***************************************************************************)
(* However many transactions Postgres runs at once, the statements of the  *)
(* handlers add up to the methods that identity.Store promises, unless two *)
(* open transactions clash at some time.                                   *)
(***************************************************************************)
THEOREM AccessImplementsUnlessClash ==
  AccessSpec => AccessImplementsRegistry \/ <>Clash
<1>1. RegistrySpec => Atomic!RegistrySpec
  BY AtomicInit, AtomicStep, PTL DEF RegistrySpec, Atomic!RegistrySpec
<1> QED
  BY <1>1, QuietImplementsRegistry, PTL DEF AccessImplementsRegistry

-----------------------------------------------------------------------------
(***************************************************************************)
(* The last admin, under any number of open transactions.  Grants may be   *)
(* lost and rows may have changed since they were read: a demotion that is *)
(* about to be written still hits nobody who counts, or one of two, as     *)
(* long as no other demotion, and no promotion of its target, is open.     *)
(***************************************************************************)
Spare(s, admins) ==
  s.at = "write" /\ Demotes(s.msg) => s.msg.person \notin admins \/ AdminToSpare(Cardinality(admins))

SpareInv == \A h \in ChatHandlers : Spare(chat[h], ActiveAdmins)

\* A handler that does not move, when no admin goes and its target is not made
\* an admin.
LEMMA SpareStays ==
  ASSUME NEW s, Spare(s, ActiveAdmins),
         ActiveAdmins \subseteq ActiveAdmins',
         s.at = "write" /\ Demotes(s.msg) /\ s.msg.person \in ActiveAdmins' =>
           s.msg.person \in ActiveAdmins
  PROVE  Spare(s, ActiveAdmins')
  BY MoreAdmins DEF Spare

LEMMA SpareUnderInserts ==
  ASSUME AccessInv, SpareInv, Inserts,
         \A g \in ChatHandlers : chat'[g] = chat[g] \/ ~ (chat'[g].at = "write")
  PROVE  SpareInv'
<1>1. ASSUME NEW g \in ChatHandlers, chat'[g] = chat[g]
      PROVE  Spare(chat'[g], ActiveAdmins')
  <2>1. /\ chat[g].at = "write" => identities[chat[g].msg.person].status # "absent"
        /\ chat[g].msg.person \in People
    BY HandlerTypes DEF HandlerOK, ChatState, Message
  <2>2. chat[g].at = "write" /\ chat[g].msg.person \in ActiveAdmins' => chat[g].msg.person \in ActiveAdmins
    BY <2>1 DEF Inserts, ActiveAdmins
  <2> QED
    BY <1>1, <2>2, SpareStays, InsertsKeepAdmins DEF SpareInv
<1> QED
  BY <1>1 DEF SpareInv, Spare

\* Of the steps of a transaction, the count and the commit matter.
LEMMA SpareUnderTransaction ==
  ASSUME AccessInv, SpareInv, ~ AdminRace, NEW h \in ChatHandlers,
         BeginTx(h) \/ CountAdmins(h) \/ CommitTx(h)
  PROVE  SpareInv'
<1> DEFINE msg == chat[h].msg
           row == identities[msg.person]
<1>1. ASSUME NEW s, chat' = [chat EXCEPT ![h] = s], UNCHANGED identities,
             Spare(s, ActiveAdmins')
      PROVE  SpareInv'
  <2>1. ActiveAdmins' = ActiveAdmins
    BY <1>1 DEF ActiveAdmins
  <2>2. ASSUME NEW g \in ChatHandlers PROVE Spare(chat'[g], ActiveAdmins')
    BY <1>1, <2>1, OthersStay DEF SpareInv
  <2> QED
    BY <2>2 DEF SpareInv
<1>2. Spare(AtRest, ActiveAdmins')
  BY DEF AtRest, Spare
<1>3. CASE BeginTx(h) /\ ~ Done(h)
  <2> DEFINE s == [chat[h] EXCEPT !.read = row,
                                  !.at = IF Dethrones(msg, row) THEN "count" ELSE "write"]
  <2>1. chat' = [chat EXCEPT ![h] = s] /\ UNCHANGED identities
    BY <1>3, HandlerTypes DEF BeginTx, ChatState, registryVars
  <2>2. s.msg = msg /\ (s.at = "write" => ~ Dethrones(msg, row))
    BY HandlerTypes DEF ChatState
  <2> HIDE DEF s
  <2>3. Spare(s, ActiveAdmins')
    BY <2>1, <2>2 DEF Spare, Dethrones, ActiveAdmins
  <2> QED
    BY <1>1, <2>1, <2>3
<1>4. CASE CountAdmins(h) /\ ~ Done(h)
  <2> DEFINE s == [chat[h] EXCEPT !.at = "write"]
  <2>1. /\ chat' = [chat EXCEPT ![h] = s]
        /\ UNCHANGED identities
        /\ AdminToSpare(Cardinality(ActiveAdmins))
    BY <1>4 DEF CountAdmins, Go, registryVars
  <2> HIDE DEF s
  <2>2. Spare(s, ActiveAdmins')
    BY <2>1 DEF Spare, ActiveAdmins
  <2> QED
    BY <1>1, <2>1, <2>2
<1>5. CASE Done(h) /\ UNCHANGED identities
  BY <1>1, <1>2, <1>5 DEF Done
<1>6. CASE CommitTx(h)
  <2>1. chat' = [chat EXCEPT ![h] = AtRest] /\ chat[h].at = "write"
    BY <1>6 DEF CommitTx, Done
  <2>2. /\ msg.person \in People /\ identities \in [People -> Identity]
        /\ msg.verb \in {"revoke", "grant", "role"}
        /\ identities' = [identities EXCEPT ![msg.person] = Updated(msg, chat[h].read, row)]
    BY <1>6, HandlerTypes DEF CommitTx, ChatState, Message, HandlerOK
  <2>3. ASSUME NEW g \in ChatHandlers, g # h, chat[g].at = "write", Demotes(chat[g].msg)
        PROVE  Spare(chat[g], ActiveAdmins')
    <3>1. ~ Demotes(msg) /\ (Promotes(msg) => chat[g].msg.person # msg.person)
      BY <2>1, <2>3 DEF AdminRace, OpenTx
    <3>2. ActiveAdmins \subseteq ActiveAdmins'
      BY <1>6, <3>1, QuietCommit
    <3>3. ASSUME chat[g].msg.person = msg.person PROVE ActiveAdmins' = ActiveAdmins
      <4>1. msg.verb = "grant"
        BY <2>2, <3>1, <3>3 DEF Demotes, Promotes
      <4>2. Updated(msg, chat[h].read, row).role = row.role /\ Updated(msg, chat[h].read, row).status = row.status
        BY <2>2, <4>1 DEF Updated, Identity
      <4> QED
        BY <2>2, <4>2 DEF ActiveAdmins
    <3>4. chat[g].msg.person \in ActiveAdmins' => chat[g].msg.person \in ActiveAdmins
      BY <2>2, <3>3 DEF ActiveAdmins
    <3> QED
      BY <3>2, <3>4, SpareStays DEF SpareInv
  <2>4. ASSUME NEW g \in ChatHandlers PROVE Spare(chat'[g], ActiveAdmins')
    <3>1. CASE g = h
      BY <1>2, <2>1, <3>1, OthersStay
    <3>2. CASE g # h
      BY <2>1, <2>3, <3>2, OthersStay DEF Spare
    <3> QED
      BY <3>1, <3>2
  <2> QED
    BY <2>4 DEF SpareInv
<1> QED
  BY <1>3, <1>4, <1>5, <1>6 DEF BeginTx, CountAdmins, registryVars

LEMMA SpareStep == AccessInv /\ SpareInv /\ ~ AdminRace /\ [AccessNext]_accessVars => SpareInv'
<1> SUFFICES ASSUME AccessInv, SpareInv, ~ AdminRace, [AccessNext]_accessVars
             PROVE  SpareInv'
  OBVIOUS
<1>1. ASSUME NEW h \in ChatHandlers,
             \/ ReceivePair(h) \/ ReceiveCommand(h)
             \/ StorePairing(h) \/ FindPairing(h) \/ InsertApproved(h) \/ ForgetPairing(h)
             \/ LookupTarget(h)
      PROVE  SpareInv'
  BY <1>1, OutsideStepsInsert, SpareUnderInserts DEF InTx
<1>2. CASE \/ ChatCrash \/ Subscribe \/ UNCHANGED accessVars
           \/ \E p \in People : Bootstrap(p) \/ Expire(p)
  BY <1>2, StartAndStopInsert, SpareUnderInserts DEF InTx
<1> QED
  BY <1>1, <1>2, SpareUnderTransaction DEF AccessNext, HandlesMessage

\* Only a commit takes an admin away, and one that does leaves another.
LEMMA SpareKeepsAnAdmin ==
  AccessInv /\ SpareInv /\ [AccessNext]_accessVars
    => [ActiveAdmins # {} => ActiveAdmins' # {}]_registryVars
<1> SUFFICES ASSUME AccessInv, SpareInv, [AccessNext]_accessVars, ActiveAdmins # {}
             PROVE  ActiveAdmins' # {}
  OBVIOUS
<1>1. ASSUME NEW h \in ChatHandlers, CommitTx(h)
      PROVE  ActiveAdmins' # {}
  <2> DEFINE p == chat[h].msg.person
  <2>1. \A q \in People : q # p => identities'[q] = identities[q]
    BY <1>1, HandlerTypes DEF CommitTx
  <2>2. CASE ~ Demotes(chat[h].msg) \/ p \notin ActiveAdmins
    BY <1>1, <2>2, QuietCommit
  <2>3. CASE Demotes(chat[h].msg) /\ p \in ActiveAdmins
    <3>1. AdminToSpare(Cardinality(ActiveAdmins))
      BY <1>1, <2>3 DEF CommitTx, SpareInv, Spare
    <3>2. ActiveAdmins \ {p} # {}
      BY <3>1, FiniteAdmins, OneIsLeft
    <3> QED
      BY <2>1, <3>2 DEF ActiveAdmins
  <2> QED
    BY <2>2, <2>3
<1>2. ASSUME NEW h \in ChatHandlers,
             \/ ReceivePair(h) \/ ReceiveCommand(h)
             \/ StorePairing(h) \/ FindPairing(h) \/ InsertApproved(h) \/ ForgetPairing(h)
             \/ LookupTarget(h) \/ BeginTx(h) \/ CountAdmins(h)
      PROVE  Inserts
  <2>1. CASE UNCHANGED identities
    BY <2>1 DEF Inserts
  <2> QED
    BY <1>2, <2>1, OutsideStepsInsert, ReadsChangeNothing DEF Reads, registryVars
<1> QED
  BY <1>1, <1>2, StartAndStopInsert, InsertsKeepAdmins DEF AccessNext, HandlesMessage

LEMMA SpareInit == AccessInit => SpareInv
  BY DEF AccessInit, AtRest, SpareInv, Spare

(***************************************************************************)
(* The last admin is lost only if two demotions overlap, or the demotion   *)
(* and the promotion of one person (MCAdmins.cfg shows the first).         *)
(***************************************************************************)
THEOREM LastAdminLostOnlyByRace == AccessSpec => AdminsNeverEnd \/ <>AdminRace
  BY SpareInit, SpareStep, SpareKeepsAnAdmin, AccessInvariant, PTL DEF AccessSpec, AdminsNeverEnd
=============================================================================
