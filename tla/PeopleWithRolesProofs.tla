------------------------- MODULE PeopleWithRolesProofs -------------------------
(***************************************************************************)
(* Proof that nobody decides a JobRequest of their own under another role: *)
(* whatever roles a person takes, the operator makes one user of them.     *)
(***************************************************************************)
EXTENDS PeopleWithRoles, JobRequestOperatorProofs, SequenceTheorems

\* A person of gds-users is known by the name that the roles share, whatever words
\* (a set that holds the roles) make it.
LEMMA GdsPersonIsOneUser ==
  ASSUME NEW Words, GdsRoles \subseteq Words,
         NEW name \in Seq(Words), name # <<>>, NEW role \in GdsRoles, NEW session
  PROVE  ParseUserIdentity(AssumedRole(Append(name, role), session)) = name
<1> DEFINE roleName == Append(name, role)
<1>1. role \in Words
  OBVIOUS
<1>2. Len(name) \in Nat /\ Len(name) # 0
  BY LenProperties, EmptySeq
<1>3. /\ roleName \in Seq(Words)
      /\ Len(roleName) = Len(name) + 1
      /\ \A i \in 1 .. Len(name) : roleName[i] = name[i]
      /\ roleName[Len(name) + 1] = role
  BY <1>1, AppendProperties
<1> HIDE DEF roleName
<1>4. IsGdsRole(roleName)
  BY <1>2, <1>3 DEF IsGdsRole, Last
<1>5. GdsUser(roleName) = name
  <2>1. Front(roleName) = SubSeq(roleName, 1, Len(name))
    BY <1>2, <1>3 DEF Front
  <2>2. /\ Front(roleName) \in Seq(Words)
        /\ Len(Front(roleName)) = Len(name)
        /\ \A i \in 1 .. Len(name) : Front(roleName)[i] = name[i]
    BY <1>2, <1>3, <2>1, SubSeqProperties
  <2>3. QED
    BY <2>2, SeqEqual DEF GdsUser
<1>6. /\ IsAssumedRole(AssumedRole(roleName, session))
      /\ AssumedRole(roleName, session).pieces = <<roleName, session>>
  BY DEF IsAssumedRole, AssumedRole, Arn
<1>7. QED
  BY <1>4, <1>5, <1>6 DEF ParseUserIdentity, roleName

\* A person of Entra ID is known by the session.
LEMMA EntraPersonIsOneUser ==
  ASSUME NEW role, ~IsGdsRole(role), NEW session, IsEntraSession(session)
  PROVE  ParseUserIdentity(AssumedRole(role, session)) = session
<1>1. /\ IsAssumedRole(AssumedRole(role, session))
      /\ AssumedRole(role, session).pieces = <<role, session>>
  BY DEF IsAssumedRole, AssumedRole, Arn
<1>2. QED
  BY <1>1 DEF ParseUserIdentity

LEMMA OnePersonOneUser ==
  ASSUME NEW arns \in ArnsOfOne
  PROVE  \E user : IdentitiesOf(arns) \subseteq {user}
<1>1. CASE \E name \in GdsPeople : arns = GdsArns(name)
  <2>1. PICK name \in GdsPeople : arns = GdsArns(name)
    BY <1>1
  <2> DEFINE Words == STRING \cup GdsRoles
  <2>2. name \in Seq(Words) /\ name # <<>>
    <3>1. name \in Seq(STRING) /\ name # <<>>
      BY RolesAssumption DEF RolesAssumption
    <3>2. QED
      BY <3>1, SeqMonotonic
  <2>3. ASSUME NEW role \in GdsRoles, NEW session \in GdsSessions
        PROVE  ParseUserIdentity(AssumedRole(Append(name, role), session)) = name
    BY <2>2, GdsPersonIsOneUser
  <2>4. IdentitiesOf(arns) \subseteq {name}
    <3>1. SUFFICES ASSUME NEW arn \in GdsArns(name)
                   PROVE  ParseUserIdentity(arn) = name
      BY <2>1, Zenon DEF IdentitiesOf
    <3>2. \E role \in GdsRoles, session \in GdsSessions :
            arn = AssumedRole(Append(name, role), session)
      BY <3>1 DEF GdsArns
    <3>3. QED
      BY <2>3, <3>2, Zenon
  <2>5. QED
    BY <2>4
<1>2. CASE \E session \in EntraPeople : arns = EntraArns(session)
  <2>1. PICK session \in EntraPeople : arns = EntraArns(session)
    BY <1>2
  <2>2. \A role \in EntraRoles : ParseUserIdentity(AssumedRole(role, session)) = session
    BY RolesAssumption, EntraPersonIsOneUser DEF RolesAssumption
  <2>3. IdentitiesOf(arns) \subseteq {session}
    BY <2>1, <2>2, Zenon DEF EntraArns, IdentitiesOf
  <2>4. QED
    BY <2>3
<1>3. CASE arns = Strangers
  <2>1. IdentitiesOf(arns) \subseteq {NoUser}
    BY <1>3, RolesAssumption, Zenon DEF RolesAssumption, IdentitiesOf
  <2>2. QED
    BY <2>1
<1>4. QED
  BY <1>1, <1>2, <1>3 DEF ArnsOfOne

\* Nobody decides a JobRequest of their own, under any disturbance and whatever roles
\* they act under.
THEOREM OwnIsDecidedByOthers == Spec => []NobodyDecidesOwn
<1>1. DecidedByAnother => NobodyDecidesOwn
  BY OnePersonOneUser DEF DecidedByAnother, NobodyDecidesOwn
<1>2. QED
  BY <1>1, DecisionsAreOfOthers, PTL
=============================================================================
