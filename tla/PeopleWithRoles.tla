---------------------------- MODULE PeopleWithRoles ----------------------------
(***************************************************************************)
(* The operator among people who act under several roles: the identities   *)
(* that people bring to their objects are what the operator makes of the   *)
(* ARNs they sign in with.                                                 *)
(***************************************************************************)
EXTENDS JobRequestOperatorProperties, UserIdentity

CONSTANTS
  GdsPeople,    \* people who sign in through gds-users, by name
  GdsSessions,  \* the session names they sign in with
  EntraPeople,  \* people who sign in through Entra ID, by session name
  EntraRoles,   \* the roles they sign in under
  Strangers     \* the ARNs of a caller that neither of the two has signed in

\* Entra ID has no role whose name ends like a role of gds-users: that role would
\* stand for the user it is named after, whoever signs in under it.
ASSUME RolesAssumption ==
  /\ GdsPeople \subseteq Seq(STRING) \ {<<>>}
  /\ \A session \in EntraPeople : IsEntraSession(session)
  /\ \A role \in EntraRoles : ~IsGdsRole(role)
  /\ \A arn \in Strangers : ParseUserIdentity(arn) = NoUser

\* The ARNs that one person may sign in with
GdsArns(name) ==
  {AssumedRole(Append(name, role), session) : role \in GdsRoles, session \in GdsSessions}
EntraArns(session) == {AssumedRole(role, session) : role \in EntraRoles}

ArnsOfOne ==
  {GdsArns(name) : name \in GdsPeople}
    \cup {EntraArns(session) : session \in EntraPeople}
    \cup {Strangers}

IdentitiesOf(arns) == {ParseUserIdentity(arn) : arn \in arns}

\* Nobody decides a JobRequest of their own, whichever of their roles they
\* request it and review it under: the identities that reviewer and requester
\* had at the decision never belong to one person.
NobodyDecidesOwn ==
  \A d \in decisions, arns \in ArnsOfOne :
    ~({d.by, d.requester} \subseteq IdentitiesOf(arns))
=============================================================================
