# vault-kube-cloud-credentials in TLA+

This directory holds a model of the two programs of the repository, the
*operator* and the *sidecar*, its model-checking runs and its proofs. Paths
below are relative to the repository's root.

## The system and its parts

The **operator** (`operator/`) watches the ServiceAccounts of a cluster. For an
account that is annotated with a cloud identity which the rules of the
configuration permit in its namespace, it keeps three objects in Vault: a
policy, a Kubernetes auth role and a secret role (AWS) or static account (GCP).
For every other account it removes them. The **sidecar** (`sidecar/`) runs next
to an application, logs in to Vault with its ServiceAccount's token, keeps the
login token and the cloud credentials alive and serves them over HTTP or in a
file. The two programs only meet in Vault: what the operator writes is what the
sidecar can read.

| Part | State | Operations | Hard about it | Correct when |
|---|---|---|---|---|
| Rules (`aws.go`, `gcp.go`, `operator.go:156-171,343-356`) | the ordered rule list | `allow`, `admitEvent` | a malformed pattern is an error that stops the evaluation, an empty list admits everything | it admits exactly what some rule grants with no malformed rule before it |
| Annotations and payloads (`aws.go`, `gcp.go`) | none | `processUpdateEvent`, `secretTTL`, `secretPayload` | the update filter must notice all that the payload depends on | a change it does not notice leaves the payload as it was |
| Reconciler (`operator.go:102-289`) | work queue, rate limiter, the worker | the event filters, `Reconcile`, `writeToVault`, `removeFromVault` | three requests that fail one by one, an account that changes meanwhile, retries | Vault ends up with what the annotations and the rules ask for |
| Garbage collection (`operator.go:50-100,291-341`) | keys listed, key in work | `Start`, `garbageCollect`, `hasServiceAccount` | runs beside the worker; acts on a check made earlier | it leaves no orphan, and interrupts nobody's access |
| Operator process (`controller.go`, `main.go`) | up or down, its rules | start, crash, new configuration, rollout | nothing is persisted but Vault; two processes overlap | a restart repairs whatever was missed, and neither process undoes the other's work |
| Vault keys (`operator.go:203-218`, `config.go:76-80`, `main.go:106-139`) | none | `name`, `parseKey`, the role pattern | text round trip in a Vault that others use too | each operator knows its own keys and no others, and the sidecar reads them |
| Login token (`login.go`) | secret, `expiresAt`, the client's token | `renewLoginToken`, `login` | expiry, maximum age, late and lost answers | there is a live token soon after Vault answers |
| Credentials (`sidecar.go:87-113`, `provider_*.go`) | credentials, metadata, key lease, key file | `renew` of both providers | uses a token another goroutine manages; several requests per attempt; a key ends with the token that created it, or at an age that its lease alone has | they are never stale for long, and fit together |
| Endpoints (`provider_*.go`) | none of their own | the handlers | read unlocked what a renewal publishes | nobody is turned away, or told things that do not fit |
| `Run` (`sidecar.go:75-188`) | two channels, two servers | start, first login, listen, shutdown | order of five goroutines | it serves only what was retrieved |
| Backoff (`backoff.go`) | attempts since the last success | `Duration`, `Reset`, `ForAttempt` | floating point that overflows | no wait is longer than the maximum |
| Metrics, configuration file, flags | none that feeds back | | | see "What is not modelled" |

How they interact: the informer's events and the rate limiter feed the queue;
worker and garbage collection share the Vault objects and the read-only cache;
an error of the garbage collection ends the process; other operators, and an
older process of the same one, write and list in the same Vault; the sidecar's
login goroutine hands its token to the renewal goroutine through the Vault
client, and both write one gauge; the handlers read what the renewal goroutine
wrote last; `Run` waits for each goroutine through a channel once.

The hazards that follow from this are listed, each at its line, in
`PROJECT.json`, together with the properties that watch them.

## The modules

| Module | What it is |
|---|---|
| `Rules` | the evaluation of the rules, as operators |
| `RuleEdits` | a rule list that is extended rule by rule, and the loop-free reference of `Rules` |
| `Annotations` | TTLs, the update filter and the content of the Vault objects |
| `Access` | the operator's promise: who can use which identity, without queues, requests and retries |
| `Operator` | one operator process, the cluster's accounts and the Vault objects; implements `Access` |
| `Rollout` | two `Operator` processes, an old and a new one, over one Vault |
| `VaultKeys` | names and keys, as operators and the sidecar's command line read them |
| `SharedVault` | operators of several prefixes and providers, and other people, in one Vault |
| `Backoff` | the waits after attempts that fail |
| `Sidecar` | one sidecar process, Vault's side of its tokens and leases, and the clock |
| `SidecarRecovery` | how soon a sidecar recovers, the ratios of leases and waits that this needs, and why |
| `Endpoints` | `Sidecar` with an application that asks it |
| `MCRules`, `MCOperator`, `MCRollout`, `MCSharedVault` | constants for TLC (the sidecar's modules are run as they are) |
| `RuleProofs`, `OperatorProofs`, `RolloutProofs`, `VaultKeyProofs`, `SidecarProofs`, `SidecarRecoveryProofs`, `EndpointsProofs` | theorems and proofs |

`Rules` and `Annotations` are used by `Operator`; `Rollout` extends `Operator`
for the new process and instantiates it for the old one; `SharedVault` extends
`VaultKeys`; `Sidecar` extends `Backoff`, and `SidecarRecovery` and `Endpoints`
extend `Sidecar`.

Definitions that begin with the comment "Mistake:" are not part of the model:
each is a definition of the model with a plausible bug in it, and one of the
properties fails when it takes the place of the correct one.

### Operator

| Variable | In the code |
|---|---|
| `accounts` | the manager's cache of ServiceAccounts while the process runs (all reads go through it, `controller.go:61`), the cluster while it does not |
| `running`, `rules` | the process, and the rules it was started with |
| `queue`, `delayed` | the work queue of controller-runtime (a set: an account is in it once, and is kept in it while the worker has it) and the accounts that wait for the rate limiter after an error |
| `work` | the one worker: the account, the annotations it read once, and the request it is at |
| `gc` | the garbage collection: which list, the keys still to look at, the account it removes and the request it is at |
| `vault` | the three objects of each account |
| `clobbered`, `steady` | history, read by no action |

Every request to Vault is one step, and so is each read of the cache; a step of
the worker, of the garbage collection, of the cluster or a crash may come
between any two. `Change` is any change of an account, with the event filter.
`ReconcileRemove`, `ReconcileWrite`, `ReconcileRejectTTL` and
`ReadEnvironmentFails` are the ways `Reconcile` can begin; `WriteStep` and
`RemoveStep` its requests; `RequestFails` an error, where Vault has served the
request or not. `GCList`, `GCCheck`, `GCRemoveStep`, `GCNext` are the garbage
collection, `GCFails` its error. `Startup` queues every admitted account
(the informer's Create events) and starts the garbage collection; `Crash` loses
everything but `accounts` and `vault`. The informer's periodic resync is an
update event without a difference, which the filter drops. A TTL is a small
integer, which for GCP may be negative, as the code does not refuse it;
`VaultAccepts` (external) says that Vault does.

Abstracted: an identity is what the rules read of it; a pattern is whatever
`Match` says; the policy has no content, because its text depends on the key
alone; an account *is* its key (what makes that right is proved in
`VaultKeyProofs`).

### Access, and why Operator implements it

`Access` knows who asks for what (`asked`), who can use what (`grants`), the
rules in force, and who has been permitted ever since the start (`entitled`).
It may grant only what the rules in force permit, and take away only from those
that are not entitled; it has no queue, no request and no garbage collection.
The mapping is in `Operator`: `asked` are the annotations, `grants` the
identity in the secret role or static account, `entitled` is `steady`. A write
of the secret is a grant, its deletion a withdrawal, and all else a stutter. That
the worker writes only what the rules of *this* process permit, though it read
the account a while ago, and that nobody deletes an object of an entitled
account, is what has to be shown. `ImplementsFairAccess` adds the liveness:
what is not permitted for ever is withdrawn, however often the account changes
meanwhile.

### Rollout

`controller.go:48` sets no leader election, and a Deployment starts the new pod
before it ends the old one. The new process has the variables of `Operator`;
the old one has its own cache, queue and worker (`oldAccounts`, `oldQueue`,
`oldWork`), the rules `OldRules`, and no garbage collection any more. `OldLearns`
is the event by which its cache catches up with the cluster. TLC shows what the
code does not promise: two accounts of what may go wrong are written into the
properties, each of them necessary. While the old process is up, an account
that the two judge differently is in dispute (`Unfinished`); and an account over
which the old one is killed, in the middle of its requests or with an event it
had not handled, may stay so (`contested`) until it changes or the new process
restarts: the new one has checked it before. What holds is the rest: when both
are done with an account, in whatever order their requests came, Vault has what
the last change asks for (`RevokedInRollout`, `ProvisionedInRollout`).
`KeepsAccessInRollout` says what happens on the way: the new process takes no
object of an account that it has admitted ever since it started, and the old one
does so only if it takes the account for one that is not admitted, or has
it queued and is going to come back to it.
Bounds: the new process learns of a change at once, the old one is at most one
change behind; requests of the workers that fail are left to `Operator`.

### VaultKeys and SharedVault

A text is the sequence of its parts between underscores. `name` and `parseKey`
are the operator's, `Launch` is `main.go:106-139`: which flags lead to which
provider, an error, the usage, or a panic. `Matches` is the role pattern of
`main.go:37`, which is not anchored but has a character class: the part before
the last three must end in a letter, a digit or a hyphen. The parts that do not
are the constant `Unreadable`; `loadConfigFromFile` accepts them all the same.

`SharedVault` has operators as records of prefix and provider, each started with
any prefix its configuration file holds that `loadConfigFromFile` accepts.

| Variable | In the code |
|---|---|
| `up`, `wanted`, `dirty` | the operators that run, the accounts each of them admits, and the events it has not handled |
| `worker` | `Reconcile`: the account, and what it is to do since it read it (`operator.go:120-138`) |
| `listed`, `collecting` | `garbageCollect`: the accounts found in the keys that it has still to look at, and the one that it found unwanted and is about to remove (`operator.go:301-309`) |
| `stored` | the keys in Vault, a key standing for all objects of that name |

What is read and what is done upon it are two steps (`Reconcile` and `Apply`,
`Collect` and `Remove`), between which all other operators, and the other
goroutine of the same one, go on. So an operator does delete objects that it
wants again by then: `DeletesOnlyOwn` says that the event that will restore them
is then still to be handled, but for the garbage collection's deletions
(finding 1), and that nothing is ever deleted that another operator writes:
"Including `<provider>` avoids the potential for clashes" (`README.md:165`).

`SharedAssumption` says that nobody else gives an object the name of one of the
accounts. An object that *looks* like an account's is another matter: the
instance has one, and the garbage collection deletes it, as it would what the
repository's own Terraform module writes
(`terraform/terraform-vault-gcp-binding/main.tf:2`) if its environment is used
as an operator's prefix. This is listed as a hazard.

### Sidecar

Everything that lasts is a count of the ticks that are left of it, so that a
state holds no dates. A goroutine that has no sleep left acts before the next
tick, and its request takes no time, but its answer may be late: what was
granted then has up to `MaxDelay` ticks less than the sidecar believes.
A failed attempt's time is part of the wait that follows (`MaxWait`), which is
one of `ForAttempt` for any number of attempts (`Duration`).

| Variable | In the code |
|---|---|
| `up` | Vault answers, the CA and the JWT can be read, the key file written |
| `present`, `binding` | whether the operator's objects are there, and how often it has written another identity |
| `token` | what the client's login token really has left at Vault, and until its maximum age |
| `login` | `manageLoginToken`: sleep left, lease, ticks until `expiresAt`, `Renewable` |
| `renewal` | the goroutine of `Run`: sleep left, request of the attempt, the identity read and the token it was read with, `firstRun` |
| `keyLease`, `creds`, `metadata` | `leaseExpiresAt`, the credentials (or the key file), the metadata of the providers; of a key also whether its lease will not be extended any more (`final`) |
| `parent` | Vault's side: what is left of the login token a key was created with, once the client has another; the key ends with it |
| `main`, `cancelled`, `server` | `Run`: `<-loggedIn`, its `select`, its context, the provider's server |
| `gauge` | whose expiry `promExpiry` shows |
| `calm` | history: for how long Vault has answered, with the objects there and no key ended, neither with its login token nor at the maximum age of its lease |

A renewal of a key's lease asks for a whole lease and takes what Vault grants
(`provider_gcp.go:154-160`). `KeyGrants` is what Vault may grant: a whole lease,
or less, which is what was left until the maximum age of the lease ("otherwise
it will be capped at maxTTL", `README.md:69`, of the AWS leases), and after that
never more than is left (`Extended`). When a lease reaches that age is left
open: it may be at the first renewal.

`Login`, `RenewToken`, `LoginFails` are the login goroutine; `RenewLease`,
`ReadSecret`, `Confirm`, `Publish`, `RenewalFails` the renewal goroutine, one
step per request or write of the file, with a third step for the assignments
that publish; `Start`, `FirstLogin`, `Listen`, `Shutdown`, `Return` are `Run`.
`Panic` is a read of an object that is gone, which the AWS provider turns into
an error (`provider_aws.go:67`) and the GCP provider dereferences
(`provider_gcp.go:111`). `Crash` is a server that cannot listen, a second signal
or a kill, and `Exit` what any end of the process leaves: the key file.
`sleepDuration` is a quarter to five twelfths of the lease (`sidecar.go:273`),
rounded up to the next tick.

### Endpoints

`Sidecar` with one request of the application under way: `Ask`, `Check` (the
handler's test for nil) and `Answer`, which reads the same field again, so that
renewals come between all three. `told` is what the application knows: the
identity of its token, and of the account it asked for after it.

## What the runs check

| Run | Instance | Distinct states | Shows |
|---|---|---|---|
| `rules` | AWS, all lists of up to 2 of 32 rules | 8 456 | `AdmitsExactlyThePermitted`, `LaterRuleNeverRevokes` |
| `operator_aws` | 1 account, 2 identities, TTL missing, empty or 2; 2 rule lists | 308 000 | `Revoked`, `Provisioned`, `SteadyKeepsAccess`, `ImplementsAccess`, and the invariant of the proofs, `IInv` |
| `operator_two` | GCP, 2 accounts of one name, one process, leftovers in Vault, TTLs that Vault refuses | 8 994 | the same safety, `EventuallyRevoked`, `EventuallyProvisioned` |
| `operator_live` | GCP, 1 account with and without scopes, 2 rule lists | 32 000 | `EventuallyProvisioned`, `ImplementsFairAccess` |
| `operator_race` | 1 account | violated | `ReconciledAccountCanLogin`, finding 1 |
| `operator_rules` | 1 account, one refused TTL | violated | `RulesEventuallyEnforced`, finding 2 |
| `rollout` | GCP, 1 account, 2 identities, an old process with more rules | 1 395 000 | `RevokedInRollout`, `ProvisionedInRollout`, `KeepsAccessInRollout`, and the invariant of the proofs, `RolloutInv` |
| `shared_vault` | two at a time of the AWS and GCP operators of one prefix, one with a prefix the sidecar cannot read and one with a prefix that is refused; 3 foreign keys | 340 000 | `ClearsOrphans`, `DeletesOnlyOwn`, `SidecarsUnderstand` |
| `sidecar_sts` | AWS, tokens may be revoked | 1 047 000 | `TypeOK`, `RecoversInTime`, `TokenEndsOfAge`, and the invariant of the proofs, `RInv` |
| `sidecar_key` | GCP key, late answers, leases capped at any age, an account that is removed or rebound | 3 137 000 | `RecoversInTime`, `KeyKeptWhileCalm` |
| `endpoints` | GCP access token, an application, one removal and rebind, short leases | 277 000 | `NeverTurnedAway`, `AccountNotOlder`, `EventuallyTold` |
| `sidecar_gauge` | AWS | violated | `GaugeTellsCredentials`, finding 3 |

**Bounds, and why they are enough.** The operator's model has no counters:
its instances are complete for their sets. One account has all the interactions
of worker, garbage collection, cluster and crashes; two accounts of the same
name in two namespaces show what one account does to another (the queue, the
keys of a listing, the search of `hasServiceAccount`, an account that Vault
refuses for ever). Two rule lists let an identity lose its permission at a
restart. `MaxRules` = 2 is enough for one rule to come before another, with
patterns in front of and behind a malformed one; the proofs cover the GCP rules,
and lists of any length. In `shared_vault`, one account's keys show every way of
confusing two operators, since `parseKey` looks at one key at a time; the proofs
cover any operators and accounts. `MaxUp` = 2 operators are up at the same time
there, any two of the four, and all four one after the other. `operator_two` is
about the progress of two accounts in a process that is left alone: nothing
changes or crashes there, and its liveness properties say nothing of crashes and
changes; those of `operator_live`, and the safety properties of `operator_aws`,
do.
The sidecar's only bound is `MaxRebinds`: one removal and one rebind separate
old from new. The properties of `endpoints` do not depend on the length of the
leases, which are short there.

The leases are chosen for the ratios that matter. In `sidecar_sts` the
credentials last 12 ticks, 6 times the longest wait of 2 (in production at least
900 s to 60 s, 15 times), a login token 4, and 10 at the most, so that it
reaches its maximum age in its third lease. In `sidecar_key` a key's lease is 7
ticks, the longest wait 1, and a login token lasts 4 and at the most 6: a key
may end with its token before its first lease is over, or later, at the maximum
age of its own lease, and it can have been calm for long enough by then
(`Recovery` is 11). `endpoints` has leases of 2 and a wait of 1.
`RecoversInTime` needs these ratios: what a sleep leaves of the lease, at least
seven twelfths, must be enough for two waits and a late answer. With shorter
leases TLC finds the behaviour that the code cannot avoid, in which the renewal
meets an expired login token and waits past the end of the credentials.
`RatioAssumption` of `SidecarRecovery` states them for any leases, and what the
operator writes satisfies it: leases of 15 minutes and more (an annotation may
ask for less with GCP, which refuses no TTL; nothing is promised then). The
instances of `endpoints`, with its short leases, and of `sidecar_gauge` do not
use that module.

`Recovery` (in `Sidecar`) is what the proof needs: a wait that began before Vault
came back, a login renewal that fails because the token ended a little sooner
than its `expiresAt`, the wait of the other goroutine (three `MaxWait` and
`AnswerLag`), a login token's lease if tokens may be revoked (`RevocationLag`),
and the key's own lease for a key, which the sidecar does not know to have ended
with its login token (`KeyLag`). It is a bound, and close to the truth: for
`sidecar_sts` without revocations TLC refutes one tick less, with them four, and
for `sidecar_key` two.

`calm` begins anew where Vault ends a key, with its login token or at the maximum
age of its lease: `RecoversInTime` then says how soon there is another one, not
that a key lasts for as long as Vault answers. That a login token takes its keys
with it no sooner than at its own maximum age is `TokenEndsOfAge`.

**Where `CHECK_DEADLOCK` is off.** A rule list that has reached its bound, and
`operator_two`, where the process, once it has done everything, waits for
changes that this instance leaves out.

**Fairness of the operator.** Kubernetes restarts the process (weak, `Startup`).
A request that is sent is answered, one way or the other, and the goroutine of
the garbage collection runs (weak). The rate limiter's timer fires (weak,
`Requeue`). The queue is first in, first out, so that an account that is in it
again and again, while the worker is busy with others in between, is taken at
some time (strong, `ReconcileBegins`). And a request that is repeated for ever,
and is one that Vault accepts, succeeds at some time (strong, per account and
step; without it Vault may refuse everything for ever). Nothing is assumed of
`Change`, `Crash`, or of errors; the liveness properties speak of behaviours in
which the process stays up from some time on.

**Fairness of the sidecar.** The container is restarted, goroutines and `Run`
are scheduled and time goes on, all weak. Nothing is assumed of Vault. In
`Endpoints` a handler that has begun goes on (weak), and the application asks
again and again for each thing (strong: a handler that is busy with another
request, or a restart, comes in between). `Rollout` and `SharedVault` have
safety properties only, and state no fairness.

## Findings

1. **An account that was just reconciled loses its objects** (`operator_race`).
   `garbageCollect` asks `hasServiceAccount` (`operator.go:303`) and removes in
   three later requests. An account that has leftovers in Vault and is annotated
   after the question, while `Reconcile` writes it, loses what was written; no
   event follows, so it stays so until an annotation changes or the operator
   restarts. `Provisioned` and `EventuallyProvisioned` therefore except objects
   that were deleted in this very way (`clobbered`), and `SteadyKeepsAccess`
   shows that only accounts that were *not* admitted at some time since the
   start are exposed.
2. **A refused TTL keeps a forbidden identity alive** (`operator_rules`). An
   account whose identity changes to one that is permitted, with a TTL that
   `secretTTL` refuses, is never written, and as it is admitted it is not
   removed either: the identity it had before stays, also when the rules of the
   running process forbid it.
3. **The expiry gauge is shared** (`sidecar_gauge`). The renewal of the login
   token overwrites the expiry of the credentials that the gauge's help text
   announces.

Smaller observations are written into the properties, or into the hazards. A TTL
annotation that becomes empty is not noticed (the filter compares texts, in
which a missing annotation is empty too, while `secretTTL` refuses the empty
one), so that `Provisioned` only speaks of TTLs that are accepted. `Run` does not
look at its context before the first login: a sidecar that is told to stop while
Vault is away waits at `<-loggedIn` until it is killed. An operator with an empty
prefix, or one that ends in anything but a letter, a digit or a hyphen (`dev.`),
is accepted, but its keys make the sidecar panic (`main.go:112`;
`SidecarsUnderstand` says so). That "only 1 key will be used for the lifecycle of
the pod" (`provider_gcp.go:145-147`) holds up to two ends that Vault may put to a
key, and up to restarts: a key ends with the login token that created it, which
the sidecar replaces at the token's maximum age, and at the maximum age of its
own lease; and a process that starts again takes a new one. `KeyKeptWhileCalm`
says that these are the only reasons. A GCP
sidecar whose static account is removed panics, restarts and panics, until the
operator has removed the login role as well.

## What is proved

All proofs are checked by TLAPS for every value of the constants that satisfies
the named assumptions: `ProviderAssumption`, `TTLAssumption`, `NoneAssumption`
(special values differ from ordinary ones), `RuleSetAssumption`,
`IdentityAssumption`, `SidecarAssumption` (positive leases, answers that are
less late than a lease is long), `RatioAssumption` (above; for
`SidecarRecoveryProofs` only), `SharedAssumption` (above).

* `RuleProofs`: `AllowIsPermitted`, `AdmitsExactly` and
  `LaterRuleNeverRevokesCorrect`, for rule lists of any length and any
  matching. The loops are all `FirstVerdict`, the first element that does not
  say "no"; the lemmas carry this from patterns to a rule to the list.
* `OperatorProofs`: `Invariance` (of `IInv`), `RevokedCorrect`,
  `ProvisionedCorrect`, `SteadyKeepsAccessCorrect` and `ImplementsAccessCorrect`,
  for any number of accounts, annotations and rule lists; and
  `UnnoticedKeepsContent`, the reason the event filter is right.
* `RolloutProofs`: `RolloutInvariance` (of `RolloutInv`),
  `RevokedInRolloutCorrect`, `ProvisionedInRolloutCorrect` and
  `KeepsAccessInRolloutCorrect`, for any two rule lists, accounts and
  annotations.
* `VaultKeyProofs`: `ClearsOrphansCorrect`, `DeletesOnlyOwnCorrect` and
  `SidecarsUnderstandCorrect`, for any operators, prefixes, accounts and
  foreign objects.
* `SidecarProofs`: `TypeCorrect`, with all leases within what Vault grants and
  the sleep of each goroutine within the longest wait or the lease it sleeps
  over, for all leases, waits, delays and rebinds; it rests on `WaitInRange`,
  that no number of attempts makes a wait longer than the maximum.
* `SidecarRecoveryProofs`: `RecoveryInvariance` (of `RInv`),
  `RecoversInTimeCorrect`, `TokenEndsOfAgeCorrect` and
  `KeyKeptWhileCalmCorrect`, for all three kinds of credentials and all leases,
  waits and delays of the ratios above.
* `EndpointsProofs`: `NeverTurnedAwayCorrect`, `AccountNotOlderCorrect`.

**The operator's invariant.** `Revoked` and `Provisioned` only speak of accounts
with nothing pending, so they say nothing of how a state gets there. `IInv` says
what must be pending: `OrphanInv`, every object of an account that is not
admitted is in front of something that will remove it (the queue, the rest of a
removal, a listing of its kind that is still to come); `ProvisionInv`, an
admitted account is queued, or is being written with its first objects in place,
or has its objects. For these to survive a change of the account, what the
worker holds must be current or the account queued again (`WriteInv`,
`RemoveInv`), which rests on the fact that an unnoticed change leaves the
content as it is (`UnnoticedKeepsContent`). `DownInv` says that a process that
is down holds nothing, `SteadyInv` that nobody removes an account that has been
admitted all along. `InvStep` has one lemma per group of actions. The refinement
needs the same invariant, and no more: each group of actions has one lemma that
maps it to a step of `Access` or to a stutter.

**The rollout's invariant.** Each worker is right about its own cache
(`WorkersInv`: the invariants of `Operator` for both processes), but an object
may now be removed, or put back, by a process that knows less than the other. So
`RolloutOrphanInv` counts what the old process is going to do as pending too, and
an account that it still admits, since it will learn otherwise (`OldRemoves`).
`RolloutProvisionInv` speaks of the accounts that are `Quiet`, for which nothing
is queued in either process or still to be heard of by the old one: then whoever
writes the account writes what it asks for now, so that the objects that either
of the two has passed (`Provides`) stay right whatever the other one adds.
`contested` is what this needs as an exception when the old process ends.
The lemma `OldInvariants` says the old process's invariants in the words of the
new one's; there is one lemma per group of actions of either process.

**The sidecar's invariants.** `SInv` adds to the types what the attempt under way
has read (`AttemptInv`), what the channels have announced (`RetrievedInv`) and
that the metadata are never older than the token (`MetadataNotOlder`). The
properties of `Endpoints` need in addition (`TInv`) that a request is only under
way once something was retrieved, and that the token that was told is of no
later identity than the metadata in memory.

`RInv` of `SidecarRecovery` relates the timers. Of the login token: either it is
`Sound`, which means that it does not end sooner than the sidecar believes, but
for a late answer, and is renewed before that or in its last lease; or Vault has
not answered for long (`Shaky`, with what `calm` and the timers may add up to).
Of the credentials: either they last until the next renewal and, if this one
fails for want of a token, until there is a new token and a renewal with it
(`Outlast`, for a key `OutlastKey`); or they may be gone, but there will be new
ones before `calm` reaches `Recovery` (`Soon`). Each failed attempt moves the
bound from one disjunct to the next, which is why no single inequality is
inductive. For a key, which ends with the login token it was created with,
`Known` says that this token is the client's or ends no later than the sidecar
expects; and a key whose lease is at its maximum age has a `keyLease` that is
not shorter, so that a new one is taken only when the old one has ended (the last
alternative of `OutlastKey`). `TickRecovers` is the step of the clock, where every timer moves at
once; the other lemmas are one per action.

**The keys' invariant.** `KInv` of `SharedVault` has three parts. `OrphanInv`: a
key of an unwanted account is still going to be looked at, or about to be
removed. `WorkerInv`: what a worker is about to do is what its operator wants, or
an event is queued that will tell it otherwise; this is why a removal on a stale
read is repaired. `KType`: an operator that is up has a prefix of one part, and
one that is down holds nothing. `WrittenInv`, for the sidecars: every key in
Vault is foreign or one that an operator with an accepted prefix wrote. The rest
are lemmas on sequences: a key of four parts is parsed by exactly one operator,
into the account it was made of.

**Only model-checked.** All liveness properties and `ImplementsFairAccess` (out
of TLAPS's reach). That what `ForAttempt` computes with floating point is the
set it is modelled as is not proved either. All invariants and all other action
properties of the runs are theorems.

## What is not modelled

* The TLS configuration that both goroutines of the sidecar reload the CA into
  (`sidecar.go:231`), beyond "the CA may be unreadable": what a racing write of
  it does is up to the TLS library.
* Counters and histograms, which tell nothing back to the program; of the
  metrics there is only the expiry gauge.
* Reading and defaulting of the configuration file, and the rest of the command
  line: they run once and keep no state. What they refuse of the prefix is in
  `VaultKeys`.
* The layout of the policies and of the endpoints' answers, and the endpoints
  that answer the same at all times.
* A request of a dead process that Vault serves after the next one has started,
  other than in a rollout; a cache of the new process that lags in a rollout.
* How requests drain when the sidecar shuts down, and its deadlines: `Shutdown`
  and `Return` are steps of the model, and no property is about them.
* How many keys Google lets an account have, which restarts of the sidecar
  use up; a lease of zero; objects left behind by a change of the prefix, for
  which the code promises nothing.
* Manifests and Terraform: data without steps of their own.

## Plan

Done: all modules above, their runs and proofs. What is left is to widen the
model:

1. Several sidecars of one account (replicas), which share the objects in Vault
   but not their tokens.
2. Requests that fail, in `Rollout`: `delayed` for both processes, with
   `RolloutOrphanInv` and `RolloutProvisionInv` extended by it.
3. The hazards without a property, as far as the code promises anything about
   them.
