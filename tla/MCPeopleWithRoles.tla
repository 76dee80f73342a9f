-------------------------- MODULE MCPeopleWithRoles --------------------------
(***************************************************************************)
(* joe-joe.bloggs signs in through gds-users, under any of its roles, ann  *)
(* through Entra ID under a role that is called as one of gds-users ends,  *)
(* and a caller of neither under an ARN of either shape.                   *)
(***************************************************************************)
EXTENDS PeopleWithRoles

SomeGdsPeople == {<<"joe", "joe.bloggs">>}
SomeGdsSessions == {<<"console">>}
SomeEntraPeople == {<<"ann", "@", "dsit">>}
SomeEntraRoles == {<<"Developer">>, <<"readonly">>}
SomeStrangers ==
  {AssumedRole(<<"smoke", "test">>, <<"console">>),
   Arn(6, TRUE, 12, FALSE, <<<<"smoke", "readonly">>>>)}

SomeCallers == UNION {IdentitiesOf(arns) : arns \in ArnsOfOne}
SomeUsers == SomeCallers \ {NoUser}
=============================================================================
