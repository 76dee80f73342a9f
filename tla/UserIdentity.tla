----------------------------- MODULE UserIdentity -----------------------------
(***************************************************************************)
(* From the ARN in an annotation to the name of a user.                    *)
(*                                                                         *)
(* An ARN is what splitting it makes of it: the number of its parts, what  *)
(* the fixed parts say, and the pieces of its resource.  A role name and a *)
(* session name are sequences of words: a hyphen separates the words of a  *)
(* role name, and "@" is a word of a session name that holds one.          *)
(***************************************************************************)
EXTENDS ApiServer, SequencesExt

\* validGDSUsersRoles: the last word of a role name of gds-users
GdsRoles == {"fulladmin", "tempadmin", "platformengineer",
             "developer", "readonly", "ithctester"}

\* An ARN: accountDigits counts the digits its account starts with, assumedRole
\* tells whether its resource starts with that word, and pieces follow it.
Arn(parts, awsSts, accountDigits, assumedRole, pieces) ==
  [parts |-> parts, awsSts |-> awsSts, accountDigits |-> accountDigits,
   assumedRole |-> assumedRole, pieces |-> pieces]
AssumedRole(role, session) == Arn(6, TRUE, 12, TRUE, <<role, session>>)

-----------------------------------------------------------------------------
\* The tests on the parts.  The account is matched from its start only, so
\* digits beyond the twelfth are accepted.
IsAssumedRole(arn) ==
  /\ arn.parts = 6
  /\ arn.awsSts
  /\ arn.accountDigits >= 12
  /\ arn.assumedRole

\* HasSuffix of a role name: the hyphen belongs to the suffix.
IsGdsRole(role) == Len(role) > 1 /\ Last(role) \in GdsRoles
IsEntraSession(session) == "@" \in ToSet(session)

\* Mutant: the role stays in the user's name.
GdsUserWithRole(role) == role
\* TrimSuffix: the role name without the role
GdsUser(role) == Front(role)

\* ParseUserIdentityFromARN: gds-users first, then Entra ID
ParseUserIdentity(arn) ==
  IF ~IsAssumedRole(arn) \/ Len(arn.pieces) # 2 THEN NoUser
  ELSE LET role == arn.pieces[1]
           session == arn.pieces[2]
       IN  IF IsGdsRole(role) THEN GdsUser(role)
           ELSE IF IsEntraSession(session) THEN session
           ELSE NoUser
=============================================================================
