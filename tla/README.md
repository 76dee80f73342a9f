# Verification of the GOV.UK JobRequest operator

TLA+ specifications of the two reconcilers under `internal/controller`, the
Kubernetes API they act on and the people and cluster around them; TLC
configurations that check them on small instances; an abstract lifecycle of a
JobRequest that the two reconcilers implement; and TLAPS proofs, for any number of
objects, of that refinement and of every safety property that the passing runs check.
A module of its own models the metrics collector.

## 1. The system

A **JobRequest** asks for a command to be run in the container of a Deployment.
A **JobRequestReview** approves or rejects it. The operator launches a Kubernetes
**Job**, named after the JobRequest, only for a request that *another* user
approved, and copies the outcome of the Job into the JobRequest.

| Component | State | Operations | Talks to |
|---|---|---|---|
| JobRequest reconciler (`jobrequest_controller.go`) | none between reconciles; in one: the JobRequest it read, the Job template, the Job it read | get, TTL delete, annotation check, list Deployment, list reviews, get and create the Job, re-read, status update | reads straight from the API server, writes through the client; woken by JobRequests and the Jobs they own |
| JobRequestReview reconciler (`jobrequestreview_controller.go`) | none between reconciles; in one: the review from the cache, the JobRequest from the API server | cached get, TTL delete, annotation check, list JobRequest, compare users, status update of the JobRequest, status update of the review | woken by reviews only; reaches the other reconciler through the JobRequest's status |
| API server, watches, cache, work queues (external) | objects with uid and resource version; per-controller queue; trailing cache of reviews | optimistic status updates, deletes by name, events, resync | both reconcilers |
| People and admission policies (`config/extras`) | identities in annotations, stamped on CREATE only | create, edit, delete both kinds of object | API server |
| Cluster (external) | Jobs, Deployments, time | Jobs end, are collected with their owner; Deployments change; the TTL (720h) passes | API server |
| Manager (`cmd/main.go`) | one active manager (leader election) | start, restart | builds both reconcilers |
| User identities (`user_identity.go`) | none | ARN to user name | both reconcilers |
| Metrics collector (`internal/metrics/collector.go`) | one gauge per state of each kind of object; in a round: the two lists | every 30 s: list JobRequests, list reviews, tally, set the gauges | reads the manager's cache; scraped by Prometheus |
| Reconcile counters (`request_vars.go`, `review_vars.go`) | counters and one histogram, in the process | incremented by the reconcilers | written only |

**What is hard here.** Every reconcile is a chain of separate calls, so the other
reconciler, people, the Job controller and time act between any two of them. Each
call can fail, or succeed and lose its answer. Status updates are protected by the
resource version; deletes, re-reads and the ownership of Jobs go by *name*, and
names are reused. Reviews come from a cache that trails. The two status updates of a
decision are not atomic. Errors of the first read and of status updates are dropped,
so progress may hang on a later event or on the informers' resync. The list of these
hazards, each at its line, is in `PROJECT.json`.

**What makes each component correct.**

* JobRequest reconciler: no Job without an approval by another user; at most one Job
  for a JobRequest; terminal states stay; only a Job of its own gives a JobRequest
  its outcome; a JobRequest gets a state, an approval is acted on, an ended Job is
  reported, an expired JobRequest is deleted and a young one is not.
* Review reconciler: one review decides; a decision stands; a review that says it
  decided did; its state stays; a review is answered in the end.
* User identities: all ARNs of one person give one user name, so that the comparison
  of requester and reviewer holds across roles.
* Metrics collector: the gauges show one round, and catch up with the cache. Histogram:
  one sample for one review.

## 2. The modules

| Module | Models |
|---|---|
| `ApiServer` | the store (`requests`, `reviews`, `jobs`, `targets`), its `revision` counter, the TTL `horizon`, the two queues, the review cache and its events, and the effect of each call on them |
| `JobRequestController` | the JobRequest reconcile: `reqPc` names the next call; `reqObj` is the object in memory |
| `JobRequestReviewController` | the review reconcile: `revPc`, `revObj` (from the cache), `revReq` (from the API server) |
| `Cluster` | everyone else: people, owners of Deployments, the Job controller, garbage collection, time |
| `JobRequestOperator` | the composition, `Restart`, the history variables, `Spec` and the fairness of `FairSpec` |
| `JobRequestOperatorProperties` | every property, in groups by the disturbances it tolerates |
| `JobRequestLifecycle` | the abstract specification: the stages of a JobRequest, who approved it, whether its Job was launched; no reconcilers, queues, caches or versions |
| `LifecycleRefinement` | the refinement mapping from `JobRequestOperator` to `JobRequestLifecycle` |
| `ReviewTimes` | `JobRequestOperator` with the histogram of the time to a review |
| `UserIdentity` | from an ARN to a user name |
| `MetricCollector` | the collector, its gauges and the cache it reads, with its properties |
| `MCJobRequestOperator`, `MCReviewTimes` | model values and symmetry for TLC |
| `PeopleWithRoles` | the operator on the identities of people who act under several roles |
| `MCPeopleWithRoles` | three people, their ARNs and the users these make, for TLC |
| `MCMetricCollector` | the states the collector finds in its cache |
| `JobRequestOperatorProofs` | proofs of what holds under every disturbance |
| `JobRequestOperatorCalmProofs` | proofs of what needs some disturbances to be absent: launches, approvals, outcomes, truthful reviews |
| `JobRequestOperatorDecisionProofs` | proofs that decisions stand |
| `LifecycleRefinementProofs` | proof that the operator implements `JobRequestLifecycle` |
| `ReviewTimesProofs` | proof that an approval is timed once |
| `PeopleWithRolesProofs` | proof that nobody decides an own JobRequest |
| `MetricCollectorProofs` | proof that the gauges show one round |

How code and model correspond:

* **Objects.** A JobRequest is `[uid, rv, by, state, reviewName]`: `by` is the parsed
  user name of the requested-by annotation, or `NoUser` when it is missing or does not
  parse. A review is `[uid, rv, by, for, decision, state]`. A Job is
  `[phase, owner]`, where `owner` is the uid of its controlling JobRequest. `jobName`,
  the command, descriptions, events, logs and counters are left out. uid 0 marks a
  name that is not in use, so a name can be deleted and used again with a new uid.
* **Time.** `horizon` is a revision: objects created at it or earlier are past the
  TTL. uids are creation revisions, so older objects expire first.
* **Reconcile.** `BeginRequest`/`BeginReview` takes a name from the queue, reads the
  object and runs the code up to its first further call; each later action is one
  call and the code that follows it. While a worker is busy its name can be queued
  again; it is handed out when the worker is done, as the work queue does.
* **setState** changes the object in memory and sends a status update
  (`SetRequestState`, then `UpdateRequest`); a conflict or an error is dropped, as in
  the code. An update that changes nothing raises no event and no new version.
* **Errors.** `Healthy` and `Faulty` pick the outcome of a call: a call that fails
  spends the disturbance budget, and where a write may have happened before its
  answer was lost, both outcomes are there. A returned error puts the name back in
  the queue at once (back-off is only delay). A failed status update is modelled as
  not applied; one that was applied and lost its answer differs only in the log,
  because the code drops the error either way.
* **Re-read.** The status fields are `omitempty`, and the second get decodes over the
  object in memory, so a `reviewName` the stored object lacks may survive from the
  first read; `RereadRequest` allows both.
* **Watches.** Events of JobRequests and Jobs queue the JobRequest's name at once (an
  event that comes late adds a reconcile of a JobRequest that may be at rest, which is
  what `ResyncRequest` does; the theorems hold with it and without); an
  event of a review moves the cache first (`DeliverReview`, which may skip versions).
  A Job queues its owner only if it has one.
* **Restart** empties workers and queues, fills the cache from the store and queues
  every object, as the initial list of a new manager does. A call that the old manager
  had sent has landed or is lost by then: the new one must wait for the lease of the old
  one to run out (`LeaderElectionReleaseOnCancel` is commented out, `cmd/main.go:138`).
  That the list may already trail the store at once is left out; the watch would bring
  the rest as further events.
* **Abstract lifecycle.** `StageOf` reads the stage off the stored state (no state and
  Pending are both Waiting; Started is Running), the approvers and the launch are read
  off the history, and `old` is the set of names past the TTL. Most steps of the
  operator are stutters of the lifecycle: queueing, reading, failing, delivering. A
  JobRequest leaves Waiting by a decision of a user other than the requester or as
  Malformed, runs only after its one launch, and goes back to Waiting only past its
  TTL, when the pruning of its reviews makes `calculateState` say Pending.
* **Identities.** An ARN is the number of its parts, the tests on the fixed ones, and
  the pieces of its resource; role and session names are sequences of words, a hyphen
  separating the words of a role name and "@" being a word of a session name. So
  `HasSuffix` and `TrimSuffix` with a role become `Last` and `Front`, which is exact
  because every role suffix is a hyphen and one word without a hyphen (no suffix is the
  tail of another, so their order is of no consequence). The store keeps user names.
* **Histogram.** A sample is a step of the reconcile (`TimesApproval`,
  `TimesRejection`) seen from the change of its `reqPc`; `Restart` clears the samples,
  which live in the process.
* **Collector.** One tick waits at most, as in the channel of a Go ticker. The gauges are
  set one at a time in any order, as the code ranges over a map, and a gauge that gets
  the value it has is no step. The cache is the only link to the reconcilers: an
  object goes from any state to any other there, for versions may be skipped and
  names used again.
* **History.** `decisions` and `launches` record accepted decisions and created Jobs;
  only properties read them.

Not modelled:

* More than one namespace (every lookup of the reconcilers is confined to the namespace
  of its object; the collector counts objects, wherever they are).
* Two managers active at once (leader election is on in the deployed configuration), and
  a target Deployment that two requests share (each request has its own flag).
* Deletion with finalizers (the operator sets none).
* The command, the description and the pod template: no decision of the operator reads
  them but whether the container exists, which is part of the target flag.
* The other counters: each is incremented in the code of one modelled step, nothing
  reads them, and their only properties restate the line they are on.
* The account in an ARN: it is kept in `UserIdentity` and read by nobody.
* Flags, probes, TLS, registration, generated deep copies, manifests: no state of the
  operator depends on them.

## 3. What is checked

One name (`n1`) for JobRequests is enough for safety: no call of a reconcile reads
or writes an object of another name, and what links two requests is only the shared
worker, and a review given to the other one. `LiveEvents` has a second name, to which a
review may be given. Names are reused (up to two creations in `Disturbed` and the
`Recreated` runs), which is where identity matters. All runs bound the creations
(`MaxRequests`, `MaxReviews`) and the number of disturbances (`MaxDisturbances`, of the
kinds in `Disturbances`); two disturbances reach every pair of failures, edits and
deletions, in any order and at any point of both reconciles. Two users are enough:
properties compare a reviewer with a requester. Deadlock is not checked: once the
creations are spent and the queues are empty, the operator rests.

| Run | Properties | Disturbances (at most) | Objects |
|---|---|---|---|
| `Disturbed` | `TypeOK`, `JobNeedsApproval`, `TerminalIsFinal`, `ReviewStateIsFinal` | all kinds but giving a review to another JobRequest, which one name leaves no room for (2) | 2 requests of one name, 1 review |
| `TwoReviewers` | `DecisionStands`, `ReviewTellsTruth`, `JobLaunchedOnce`, `ImplementsLifecycle` | restarts, deletions of the Job, Jobs of others (1) | 1 request, 2 reviews |
| `Undisturbed` | `ApprovedMeansReviewed`, `ApprovalTimedOnce`, `DecisionStands`, `ImplementsLifecycle`, `OutcomeIsOfOwnJob` | edits, targets, Jobs of others, the TTL, restarts (2); callers without an identity; resync on | 1 request, 1 review, up to 2 samples |
| `Live` | `RequestGetsState`, `ApprovalIsActedOn`, `ExpiredIsPruned` | all but the deletion of the request (1), resync on | 1 request, 1 review |
| `LiveEvents` | `NobodyDecidesOwn`, `ReviewGetsAnswer`, `OutcomeIsReported` | edits of requests, targets, deletions of request and Job, a review given to the other name (1), resync off | two names, 1 request, 1 review; three persons under several roles each |
| `Collector` | `GaugesShowOneRound`, `GaugesCatchUp` | failed listings and restarts (2), three changes of the cache | 2 requests, 1 review |

`Disturbed` and `TwoReviewers` leave the resync out to stay short; with it they have 5.9
and 2.3 million states, four minutes each, and show the same.

The longest runs are `Disturbed`, `Undisturbed` and `LiveEvents`: 0.2 to 2.2 million
states, two to three minutes each with two workers. `Collector` has four states of a
JobRequest, two of them without a gauge (Conflicted and the empty one); three changes let
a state fill and empty between two rounds, or both kinds of object change between the
two listings of one.

What they show:

* The four properties of `Disturbed` need no assumption on what goes wrong. A Job
  that the operator created has behind it a decision, accepted by the API server, of a
  review by a user other than the requester, whatever was edited, deleted,
  recreated, lost or restarted in between.
* `DecisionStands` holds while calls succeed and reviews are not deleted by hand:
  `calculateState` takes a decided JobRequest without reviews for one that waits for a
  review, so it rests on every deciding review being younger than its request. It
  would not hold if a review could decide a request created after it, which the
  wait for a state (section 4, `EarlyReview`) happens to rule out. It rests on
  `YoungIsNotPruned`, too: in `RecreatedWhilePruning` the delete by name may take the new
  namesake of a pruned review, whose creation the cache still delivers; that review
  decides, nothing of it is left, and the next reconcile makes the JobRequest Pending
  again. The runs of `DecisionStands` are too small for it (it takes a pass of the TTL and
  a review's name used twice); the theorem has it as a hypothesis, which holds as long as
  people let names rest (`NamesRest`, section 6).
* `ReviewTellsTruth` is about the JobRequest that the review names, so it assumes that
  reviews keep that name: one that decided and is then given to another JobRequest still
  says Approved or Rejected, of the one it was for.
* `JobLaunchedOnce` holds through one restart or one deletion of the Job. With both (or
  a lost answer, or an edit that defeats the update to Started, and a deletion of the
  Job before the next reconcile) the operator would launch another one. Without
  deletions of the Job it is proved for any number of all other disturbances.
* `ImplementsLifecycle` ties the single properties together: whatever the order of the
  calls, a JobRequest moves through its stages one at a time, and no step of the
  reconcilers, of people or of the cluster moves two stages at once or leaves the order
  the lifecycle gives. Failed calls and deletions by hand are left out because a failed
  listing of the reviews, or their deletion, sends a decided JobRequest back to wait
  within its TTL.
* A review that is given to another JobRequest after it decided leaves the first one
  without a review: `calculateState` makes it Pending again, as for a deleted review;
  and one that is given away between its decision and its own status update decides the
  second JobRequest too. So `DecisionStands` assumes that reviews keep the name they
  have. `JobNeedsApproval` does not, and is proved with such reviews.
* `NobodyDecidesOwn` runs the operator on identities that come from ARNs: a person under
  two roles of gds-users, one under two roles of Entra ID, and a role without a
  user. If the role stayed in the user name, the first could approve an own JobRequest.
  It takes people to use one ARN scheme at a time (nothing in the code makes a gds-users
  name and an Entra ID session of the same person equal), and no role of Entra ID to end
  like a role of gds-users (`RolesAssumption`): whoever signs in under such a role is
  taken for the user the role is named after, and is two users under two such roles.
* `GaugesShowOneRound` is an invariant of every state, so it says what a scrape at any
  moment can see: between rounds both families come from the two listings of one round;
  during one, each gauge is as of this round or the one before. (The two listings of
  a round are not one moment: a decision between them shows in the reviews only.)
* The liveness runs show which of the dropped errors the informers' resync makes
  harmless, and what needs no resync at all.

## 4. Where code and documents disagree

Each is a run that TLC must find violated; the quotes are in `PROJECT.json`.

| Run | What happens |
|---|---|
| `EarlyReview` | A review created before the JobRequest's first reconcile: the request keeps its empty state because it has a review, the review waits for the request to have a state. Nothing ends the wait but the TTL. |
| `OwnJobConflict` | The manager stops after creating the Job and before storing Started: the restarted reconcile finds its own Job and makes the JobRequest Conflicted. |
| `UnappliedReview` | The JobRequest becomes Malformed while a review decides: the decision is refused, the review still says Approved. |
| `RecreatedWhileFinishing` | The second read of a Started reconcile takes a new JobRequest of the same name for the old one and gives it the old Job's outcome. |
| `RecreatedWhilePruning` | The TTL delete goes by name: an object created again since the age check is deleted. |
| `RejectionTimedAgain` | Rejected is not a state in which Reconcile ends early: a Rejected JobRequest adds its rejection to the histogram at every resync, restart and event, with its growing age as the time to review. |

Further divergences that need no run: the README shows a Job name that differs from the
JobRequest's, while `createJobTemplate` gives the Job the JobRequest's own name. Two
counters are looked up and not incremented (`jobrequest_controller.go:175` and `:427`),
`JobRequestConflictedStateTotal` is not registered in `cmd/init.go`, and the requeue counter
counts reconciles that are not queued again (`jobrequest_controller.go:88`,
`jobrequestreview_controller.go:81`) and misses some that are
(`jobrequest_controller.go:388`). A JobRequest that is Conflicted has no gauge.

## 5. Fairness

`FairSpec` assumes only what the runtime gives. A worker inside a reconcile goes on
(weak fairness: calls return or time out). The queue hands out every name it holds
(strong fairness of each `BeginRequest`/`BeginReview`: the worker is busy with other
names from time to time, and controller-runtime's queue serves all names in turn). Watches
deliver (weak fairness of `DeliverReview`). Where `Resync` is TRUE, informers queue
every object again (weak fairness; the default period is ten hours, so a watch is
taken to have caught up by then). Nothing is assumed of people, of Jobs, or of the
garbage collector. `Live` also assumes that people review what is Pending
(`ReviewersWait`): without it `EarlyReview` applies.

The collector's `Spec` assumes that the clock ticks (weak fairness of `Tick`) and that its
goroutine runs (weak fairness of `CollectorStep`: listings return, and an error of one ends
the round). A listing may fail twice, after which one succeeds; nothing is assumed of the
cache but that it rests after `MaxMoves` changes.

## 6. What is proved

The theorems hold for every choice of the constants that meets the named assumptions
(`NamesAssumption`: the three "nobody" values are none of the names; `BoundsAssumption`:
the bounds are numbers and the kinds of disturbance are known ones; `PeopleAssumption`:
callers are identities; `SamplesAssumption`, `RolesAssumption`, `CollectorAssumption`: of
their modules), and so for any number of names, users and creations and any budget of
disturbances. The third column says which *kinds* of disturbance a theorem excludes; every
kind it does not exclude may happen any number of times, together with the others.

| Theorem | States | Excludes |
|---|---|---|
| `TypeCorrect` | `Spec => []TypeOK` | nothing |
| `TerminalForGood` | `Spec => TerminalIsFinal` | nothing |
| `ApprovedByAnotherFirst` | `Spec => []JobNeedsApproval` | nothing |
| `ReviewStateForGood` | `Spec => ReviewStateIsFinal` | nothing |
| `DecisionsAreOfOthers` | `Spec => []DecidedByAnother` | nothing |
| `OwnIsDecidedByOthers` | `Spec => []NobodyDecidesOwn` | nothing |
| `OneLaunch` | `Spec => []JobLaunchedOnce` | deletions of Jobs |
| `ApprovedWasReviewed` | `Spec => []ApprovedMeansReviewed` | deletions of JobRequests |
| `OutcomeOfOwnJob` | `Spec => OutcomeIsOfOwnJob` | deletions of Jobs and JobRequests |
| `ApprovalIsTimedOnce` | `TimedSpec => []ApprovalTimedOnce` | failed calls; deletions of Jobs and JobRequests |
| `TruthfulReviews` | `Spec => []ReviewTellsTruth` | failed calls; edits and deletions of JobRequests; reviews given away; changes of targets; the TTL |
| `DecisionIsKept` | `Spec /\ YoungIsNotPruned => DecisionStands` | failed calls; deletions of reviews and reviews given away |
| `YoungAreKept` | `Spec /\ NamesRest => YoungIsNotPruned` | nothing |
| `DecisionIsKeptWhileNamesRest` | `Spec /\ NamesRest => DecisionStands` | as `DecisionIsKept` |
| `DecisionIsKeptInTime` | `Spec => DecisionStands` | as `DecisionIsKept`, and the TTL |
| `OperatorImplementsLifecycle` | `Spec /\ YoungIsNotPruned => ImplementsLifecycle` | failed calls; deletions by hand and reviews given away |
| `ImplementsLifecycleWhileNamesRest` | `Spec /\ NamesRest => ImplementsLifecycle` | the same |
| `ImplementsLifecycleInTime` | `Spec => ImplementsLifecycle` | the same, and the TTL |
| `OneRoundShown` | `Spec => []GaugesShowOneRound` (of `MetricCollector`) | nothing |

Why the exclusions are there, and what the code does without them:

* *Deletion of a Job* after a lost update to Started: the Job is launched, and timed,
  again. *Deletion of a JobRequest* does the same to the histogram, for it takes the Job
  with it while the worker still holds the approved copy; and it lets the second read of a
  reconcile find a namesake (`RecreatedWhileFinishing`).
* *A failed call*: a failed listing of reviews sends a decided JobRequest back to Pending; a
  refused or failed status update leaves a review that says Approved (`UnappliedReview`
  has a changed target instead of the failed call); a Job creation that fails leaves
  nothing that would stop a second sample.
* *An edit of a JobRequest*, *a change of its target* (which makes it Malformed) or *a
  deletion* between the listing and the update of a review defeats the decision, not the
  state of the review. *The TTL* prunes the JobRequest at that point to the same effect.
* *A review deleted or given away* leaves a decided JobRequest without one.
* `YoungIsNotPruned` is a hypothesis rather than an exclusion of the TTL, because the TTL
  itself does no harm to decisions: only the delete of a namesake (`RecreatedWhilePruning`)
  does. It follows, under every disturbance, from `NamesRest` (`YoungAreKept`): a name is
  created again only when no worker holds an object of that name and, for a review,
  neither the cache nor the watch still has an earlier one. Deleted objects may come back
  under their names at any later time. Nothing in the code or the deployment sees to it
  that people wait so long, which is why it is a hypothesis about people.

The arguments, module by module:

**`JobRequestOperatorProofs`**

- `TypeInv` adds to the types that a busy worker has a name, and that every version of a
  review that exists, stored, cached or on its way, names a JobRequest. Without it a
  step could look up an object under no name.
- `RequestChange` and `ReviewChange` say once what any step may do to a stored object:
  nothing, remove it, create it, edit it outside its status, or store the status that a
  worker holds, if the version it read is still there. Everything else is argued from
  these.
- `RequestInv` relates memory to the store. No stored version is ahead of the revision
  counter, so a write always gives a new version and defeats every status update that
  was read before it (`RequestVersions`). While the JobRequest worker is busy the stored
  JobRequest is not terminal, because only that worker makes it so and ends with that
  (`RequestMemory`); with more than one worker this would be false, and the theorem rests
  on the one worker that controller-runtime gives a controller by default. A JobRequest about to be
  decided is either changed since or still Pending, and its requester is a user other
  than the reviewer (`ReviewMemory`).
- `DecidedByAnother` looks at the decisions themselves: `NewDecision` shows that one is
  recorded only when the stored JobRequest is still the version whose requester was
  compared, so an edit of either annotation in between cannot slip in.
- `ApprovalInv` carries the approval from the review to the Job: an approval by another
  user stands behind every stored JobRequest in Approved or Started, behind the copy in
  the worker's memory (which may be older than the store, or of a JobRequest deleted
  since), and behind every Job with an owner. `JobNeedsApproval` alone is not inductive:
  the Job is made from the copy in memory.
- `ReviewInv`: a copy of a review, in the cache or in a watch, that has the version of
  the stored review is equal to it (`ReviewVersions`); so the worker, which takes up
  only reviews without a state, overwrites only reviews without a state, however stale
  its cache (`ReviewUndecided`).

**`JobRequestOperatorCalmProofs`**

- `LaunchInv`: a JobRequest that has launched a Job still has it. The name of the Job is
  taken as long as the JobRequest exists, for only a person or the garbage collector
  (which leaves the Job of an existing owner) removes it; so no second creation succeeds.
- `MemoryCurrent`: while JobRequests are not deleted by hand, the one in the worker's
  memory has the uid of the stored one, and once it is settled only the worker moves it
  on, so memory and store agree on the state except on what is about to be stored.
  `ApprovedMeansReviewed` follows, and with `LaunchedInv` (Started and what follows it
  needs a launch) and `OutcomeMemory` (the Job the worker saw ended has ended so, and is
  its own by `LaunchInv`) also `OutcomeIsOfOwnJob`.
- `MemoryVersion` says what the worker's copy has in common with a stored JobRequest of the
  same version. `TruthInv` is the invariant of truthful reviews: between the listing and
  the update of a decision the listed version stays the stored one, because the only other
  writer, the JobRequest worker, has nothing to write to a Pending JobRequest while its
  requester, its target and its reviews are what they are (`CalmInv`, where
  `PendingRequested` and `MalformedNotPending` exclude the two exceptions).

**`JobRequestOperatorDecisionProofs`**

- `KnowledgeInv`: what the cache, a watch or the review worker knows of a review agrees
  with the stored review of that name in uid and in the JobRequest it names, or is of an
  earlier life. It is what makes "the review that decides is still there" a fact.
- `SettledInv`: within the TTL and before the end, a JobRequest that names a review names
  one that is younger than itself and still stored, and a Pending one has only reviews
  since its creation. The second half is what a restart, a stale cache or a pruned
  namesake would have to break to reopen a decision, and `DecisionStands` follows from the
  first half, as `calculateState` reopens only what no review names.
- `AliveInv`: what a worker holds, and every version of a review that the cache or the
  watch has, is of the life that the stored object of that name is in, if it is in one;
  and what is about to be pruned is past the TTL. Only a creation could break the first
  half, and `NamesRest` is what it asks of creations. A delete by name that takes effect
  then takes the object whose age was read (`PrunesWhatItHolds`). The age of a review is
  the cache's, so the invariant must reach back through the events to the store.

**`LifecycleRefinementProofs`** proves the refinement step by step. `Stage`, `Requester`,
`Approvers`, `Launched` and `Old` name the mapped variables; `WriteMapped` says what a
write of one JobRequest does to them, and the lemmas after it show each kind of change of
`RequestChange` to be one action of the lifecycle or a stutter. `MappedInv` collects the
invariants above, that nothing is older than the TTL or younger than the store
(`AgesInv`), and that what a review moved on names a review (`SettledNamed`).

**`ReviewTimesProofs`** counts. A sample is taken when an approved JobRequest finds no Job of
its name that it keeps. `SamplesInv` says that the samples taken and the approved
JobRequests that may still be timed are together no more than the approvals; a step that
takes a sample uses up one of the latter, and nothing gives it back, as a Job, once there,
stays. `DatedInv` keeps an approval of an earlier life apart from one of the present.

**`PeopleWithRolesProofs`** proves of the ARN parser that all ARNs of one person make one user
(`OnePersonOneUser`, from the library's facts about sequences, for names of any length), and
combines it with `DecisionsAreOfOthers`.

**`MetricCollectorProofs`**: `GaugesShowOneRound` is inductive once no step adds or drops a
gauge (`GaugeInv`). The arguments are about the tallies: one starts from all states that
have a gauge, so a gauge that is not behind its tally shows it.

**Only model-checked.** All liveness (`RequestGetsState`, `ApprovalIsActedOn`,
`ExpiredIsPruned`, `ReviewGetsAnswer`, `OutcomeIsReported`, `GaugesCatchUp`): liveness under
fairness and `ENABLED` are out of the prover's reach. The violations of section 4: a
counterexample is TLC's to find.

The runs still check the properties that the theorems state, where small bounds keep a
property true with more kinds of disturbance than its theorem admits (`TwoReviewers`
allows one deletion of the Job).

## 7. Plan

1. Invariants of `JobRequestLifecycle` (a Running JobRequest was launched, an Approved one
   has an approver other than its requester, one that ended in Complete or Failed was
   launched), proved of the abstract specification and carried to the operator by
   `OperatorImplementsLifecycle`.
2. `ConflictIsWithAnother` under the exclusion of restarts and failed calls, which would
   show the restart to be its only cause beside a lost update.
3. Two JobRequests that both exist under the liveness specification (the second name of
   `LiveEvents` is only a place for a review to go).
