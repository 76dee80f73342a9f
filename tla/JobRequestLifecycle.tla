------------------------- MODULE JobRequestLifecycle -------------------------
(***************************************************************************)
(* What the operator promises about a JobRequest, without its reconcilers, *)
(* queues, caches or versions: the stages a JobRequest goes through, who   *)
(* approved it and whether its Job was launched.                           *)
(*                                                                         *)
(* Within its TTL a JobRequest is decided once.  Past the TTL it is on its *)
(* way out: it may be deleted, and as its reviews are deleted too, it may  *)
(* wait for a review again before that.                                    *)
(***************************************************************************)
CONSTANTS
  Names,   \* names a JobRequest may have
  People,  \* users who request and review
  Nobody   \* a requester that is not a user

VARIABLES
  stage,      \* the stage of the JobRequest of each name
  requester,  \* who requests it
  approvers,  \* the users whose approval took effect
  launched,   \* whether its Job was created
  old         \* the names whose JobRequest is past the TTL

lifecycleVars == <<stage, requester, approvers, launched, old>>

Ends == {"Complete", "Failed", "Malformed", "Conflicted"}
Stages == {"Absent", "Waiting", "Approved", "Rejected", "Running"} \cup Ends

LifecycleTypeOK ==
  /\ stage \in [Names -> Stages]
  /\ requester \in [Names -> People \cup {Nobody}]
  /\ approvers \in [Names -> SUBSET People]
  /\ launched \in [Names -> BOOLEAN]
  /\ old \in SUBSET Names

Init ==
  /\ stage = [n \in Names |-> "Absent"]
  /\ requester = [n \in Names |-> Nobody]
  /\ approvers = [n \in Names |-> {}]
  /\ launched = [n \in Names |-> FALSE]
  /\ old = {}

-----------------------------------------------------------------------------
\* The JobRequest n passes from a stage of the set from to the stage to.
Pass(n, from, to) ==
  /\ stage[n] \in from
  /\ stage' = [stage EXCEPT ![n] = to]

Submit(n, user) ==
  /\ Pass(n, {"Absent"}, "Waiting")
  /\ requester' = [requester EXCEPT ![n] = user]
  /\ UNCHANGED <<approvers, launched, old>>

\* Only a user other than the requester decides.
MayDecide(n, user) == requester[n] \in People \ {user}

Approve(n, user) ==
  /\ MayDecide(n, user)
  /\ Pass(n, {"Waiting"}, "Approved")
  /\ approvers' = [approvers EXCEPT ![n] = @ \cup {user}]
  /\ UNCHANGED <<requester, launched, old>>

Reject(n, user) ==
  /\ MayDecide(n, user)
  /\ Pass(n, {"Waiting"}, "Rejected")
  /\ UNCHANGED <<requester, approvers, launched, old>>

Launch(n) ==
  /\ stage[n] = "Approved"
  /\ ~launched[n]
  /\ launched' = [launched EXCEPT ![n] = TRUE]
  /\ UNCHANGED <<stage, requester, approvers, old>>

Start(n) ==
  /\ launched[n]
  /\ Pass(n, {"Approved"}, "Running")
  /\ UNCHANGED <<requester, approvers, launched, old>>

Finish(n, outcome) ==
  /\ Pass(n, {"Running"}, outcome)
  /\ UNCHANGED <<requester, approvers, launched, old>>

Refuse(n) ==
  /\ \/ Pass(n, {"Waiting", "Approved", "Rejected", "Running"}, "Malformed")
     \/ Pass(n, {"Approved"}, "Conflicted")
  /\ UNCHANGED <<requester, approvers, launched, old>>

\* Someone edits the annotation that names the requester.
Relabel(n, user) ==
  /\ stage[n] # "Absent"
  /\ requester' = [requester EXCEPT ![n] = user]
  /\ UNCHANGED <<stage, approvers, launched, old>>

Age ==
  /\ old' \in SUBSET {n \in Names : stage[n] # "Absent"}
  /\ old \subseteq old'
  /\ UNCHANGED <<stage, requester, approvers, launched>>

Reopen(n) ==
  /\ n \in old
  /\ Pass(n, {"Approved", "Rejected", "Running"}, "Waiting")
  /\ UNCHANGED <<requester, approvers, launched, old>>

Delete(n) ==
  /\ Pass(n, Stages \ {"Absent"}, "Absent")
  /\ requester' = [requester EXCEPT ![n] = Nobody]
  /\ approvers' = [approvers EXCEPT ![n] = {}]
  /\ launched' = [launched EXCEPT ![n] = FALSE]
  /\ old' = old \ {n}

-----------------------------------------------------------------------------
Next ==
  \/ \E n \in Names, user \in People \cup {Nobody} : Submit(n, user) \/ Relabel(n, user)
  \/ \E n \in Names, user \in People : Approve(n, user) \/ Reject(n, user)
  \/ \E n \in Names, outcome \in {"Complete", "Failed"} : Finish(n, outcome)
  \/ \E n \in Names :
       Launch(n) \/ Start(n) \/ Refuse(n) \/ Reopen(n) \/ Delete(n)
  \/ Age

Spec == Init /\ [][Next]_lifecycleVars
=============================================================================
