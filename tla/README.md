# tupelo-lite in TLA+

A verification project for tupelo-lite: a service (the *aggregator*, Go) that keeps
ChainTrees, signed chains of blocks, for clients (TypeScript) that write them, read
them under policies and subscribe to their updates. The modules are read from the code
under `src/`; `PROJECT.json` maps each definition to its lines.

## Inventory

| Component | State | Operations | Hard because | Must be true |
|---|---|---|---|---|
| Aggregator, writing (`aggregator/aggregator.go`) | key-value store of tips, DAG store of nodes, five policy fields | `Add`, `storeState`, `GetTip`, `setupConfigTree`, `evaluateGlobalWritePolicy`, `NewAggregator` | no lock anywhere; check-then-put; errors dropped; crash between store, put, install, publish | no tip ends in a block that was not acceptable; acknowledged updates stay; tips can be loaded; policies in memory are those stored |
| Aggregator, reading | the same, read | `ResolveWithReadControls`, `GetLatest`, `evaluateGlobalReadPolicy` | reads race updates of value and policy | a value is shown only if the tree that holds it allows it |
| Policies (`aggregator/policy`) | none | `PolicyFromTree`, `PolicyValidator`, `Validator`, `ReadValidator` | evaluated twice, once without the wanted values; malformed maps | fails closed; allows what it should |
| Publisher (`api/publisher`) | the message queue | `Wrap`'s update function | failure is logged only; outside any lock | messages follow the chain's order |
| Resolver, server, Lambda handler (`api`) | process-wide `Aggregator` | `NewResolver`, `AddBlock`, `Resolve`, `IdentityToken`, `Handler`, `tokenHandler`, the middlewares | goroutines, or several processes on one store; two fronts that verify at different points | what a tree shows only to itself reaches its owners and nobody else |
| Identity (`aggregator/identity`, `client.ts`) | none | `Sign`, `FromHeader`, `Verify` | expiry; owners, grafted ones in two trees, looked up at other moments than the request is served | nobody is taken for somebody else; owners are recognised |
| PolicyTree client (`src/community`, `src/chaintree`, `client.ts`) | tip, local nodes | `subscribe`, `resolve`, `playTransactions`, `newAddBlockRequest` | state read before an await and used after it; late, repeated, reordered messages | the tip does not go back, catches up, can be read; a request carries the state it needs |
| Repo, ECDSA, MQTT set-up, schema, test helpers | | | I/O, cryptography, wiring | not modelled |

A client's `addBlock` reaches `Resolver.AddBlock`, which calls `Aggregator.Add`; `Add`
evaluates the policies, plays the block with the chaintree library, compares tips,
stores, and calls the publisher, whose message a subscribed `PolicyTree` takes as the
news of a tip; it then fetches the nodes through `Resolver.Resolve`. The *config tree*
is an object whose policies bind all others: `Add` reloads them after every update of it.
A tree may depend on another one in two ways: its policies may want a path of it
(`did:tupelo:.../...`), and its ownership may be grafted from it. Both are looked up by
name when they are needed, through `NotaryGroup.DagGetter`, which is the aggregator again.

## Modules

- `Policy` - the evaluation of a tree's policies. A Rego module is a named rule: what
  its reference evaluates to, given the wanted value (of the tree itself, or of another
  one that may be missing) and the requester, or before the wants are known.
  `PolicyFromTree` keeps every outcome of the code, panics of failed type assertions
  included.
  `PolicyDoc` says from the comment above `Validator` what a map of policies allows,
  without the two rounds; `PolicyCheck` compares the two over all inputs.
- `ChainTree` - what the aggregator uses of the chaintree and gossip libraries (not in
  the repository). A tip is a content address, so it is modelled as the sequence of
  blocks it is the hash of; policies, the wanted value and the owners are folded from
  that sequence. `ValidateAbr` is assumed to want the signature of an owner, own or
  grafted, and what `policy.Validator` allows on the tree before the block
  (`ValidatorGenerator`).
- `Aggregator` - every handler is a goroutine or Lambda invocation in `Add`; a step ends
  where another handler may look or write: each read of a policy field, each look at
  the other tree (`LatestOther`), `GetTip`, `storeState`, `Put`, each assignment of
  `setupConfigTree`, the publication. The nodes a request brings (`States`) are those of
  the tree it builds on or no more than its block needs, so a tip may name a tree the
  store does not have whole (`Loadable`, `MayMiss`). Each server has the fields of its own `Aggregator`
  (one record `agg`); `Crash` and `Restart` (`NewAggregator`) are its life, and `KeepStore`
  (`getDatastore`, `NewMemoryStore`) what outlives it. The labels `authenticate` and
  `validate` are the two validators of `ValidateAbr`. `AggregatorProps` has the properties.
- `ChainStore` - the abstract specification: the first block of an object is added to a
  chain its client brings (`Begin`), and from then on the object is one chain that only ever
  grows at its end (`Extend`), each time by an acceptable block, where what is acceptable
  may depend on some version of another chain. `Aggregator` implements it, with the tips
  as the chains.
- `Reader` - extends the aggregator with readers (`ResolveWithReadControls`) that have an
  identity or none. Coarser than the aggregator in one place: `evaluateGlobalReadPolicy`
  reads `configTree` and `hasReadWants` in one step, after the query. `newest` and `during` are history: what a reader was shown before, and
  the states the other tree had while it read.
- `PolicyTree` - one client's copy of one tree against a server that keeps one chain (as
  `ChainStore` promises), so a tip is the number of its blocks. JavaScript runs to the
  next await: a step is what runs between two awaits. A resolve that does not find its
  nodes goes to the server and answers for the server's tree, and its nodes *land* in the
  store later, since nobody awaits `putMany`. A player goes through the six moments at
  which `newAddBlockRequest` looks at the tip, collects the state, and may find in
  `getMany` that it has not landed.
- `Identity` - who a request is from: a client signs an identity (`signedIdentity`), the
  Lambda handler or the HTTP server's middleware decodes and verifies it (`FromHeader`,
  `Verify`: clock, tree, then grafted owners), and what is executed runs with what came
  out. `AtOnce` is where the two fronts differ: the handler answers empty and undecodable
  bodies before it looks at the identity, the server after. Between any two steps the
  clock may move and owners may change. `arrived`, `owned` and `always` are history: what
  was true since the request came in.
- `Service` - `Identity` and `Reader` together, on the same trees: a request is verified,
  `Resolve` runs with `RequesterFromCtx`, and the answer is delivered. `SetOwnership` of
  `Identity` happens exactly when a block that is acceptable is added (`Write`), so owners,
  grafts, policies and values change together. The aggregator's write path is taken for
  what it promises (`ChainStore`) clients that build on tips the object has had, so every tree it
  has can be loaded; there is no config tree, as in `NewResolver`.
- `MCAggregator`, `MCReader`, `MCService`, `MCPolicyTree` - blocks and placements for TLC.
- `PolicyLemmas`, `PolicyCheckProofs`, `AggregatorProofs`, `SerialProofs`, `ConfigProofs`,
  `ReaderProofs`, `ServiceProofs`, `PolicyTreeProofs` - the theorems. Each of `Aggregator`,
  `Serial`, `Config` and `Reader` extends the one before.

Definitions whose comment starts with MUTANT are wrong variants of the definition after
them, kept to show that each property notices a plausible slip in the code.

## Environment

`KnownTips`: clients build on a tip the object has had, or on the empty tree. This is a
condition on clients, and `Add` does not enforce it: while the store has no tip of an
object, because the request is the first one for it or because the store forgot,
`curr != nil && ...` (`aggregator.go:293`) compares nothing. `ValidateAbr` plays the block on
the state the request brings, whatever history that is of, and `storeState` keeps no more
of it than came. Without `KnownTips` a request may name any tip the blocks can make up
(`Drafts`), with its state or with no more than the block needs. The client in this
repository builds on what it was told (`newAddBlockRequest`).

`Serial`: clients have at most one request in flight per object. `Durable`: the store
outlives the process (the Dynamo store does, `NewMemoryStore` does not). `MayCrash`,
`Faults`: whether processes stop at any step, and whether store, queue or token calls may
fail (a failed `Put` may have reached the store). `OtherDid` is the one tree that others
may depend on, itself included when policies want a path of the tree by its name; what is
looked up there is the tip of the moment or, when it cannot be had, nothing. Grafts go one
level deep. Which of these a property needs is part of
what the project says about it.

## Runs

| Run | Environment and bounds | Shows |
|---|---|---|
| `ConcurrentWrites` | 2 handlers, 2 objects, one grafted from and wanting a path of the other, 2 blocks high, not serial, crashes that empty the store | `ChainsValid` survives races and a store in memory |
| `SerialStore` | 2 handlers, 3 blocks high, serial, the first block comes on any history the client makes up, the object is the config tree and wants its own latest state, store and queue fail, crashes | `AckedDurable`, `TipsEarned`, `ImplementsChainStore`, `PublishedInOrder`, `EveryRequestEnds` |
| `PolicyUpdates` | 1 process, 2 handlers, 2 objects, one the config tree with policies that want the other, serial, no failure | `PolicyFresh`, `UpdatesPublished` |
| `Lambdas` | 2 processes of one handler each, config tree, serial, crashes | `TipsLoadable`, `PolicyFresh`, `AckedPublished`, `PolicyEnforced` |
| `PolicyEvaluation` | all maps, inputs and both queries | `Sound`, `Complete` |
| `Reads` | reader on one process, writer on another, first blocks on any history, policies that want the tree's latest state, crashes, store failures | `ReadsAllowed`, `ReadsMonotonic`, `GlobalReadEnforced` |
| `Identities` | 1 request at a time, repeated, on either front; 2 trees, one grafted from the other, 2 keys, 2 blocks high; 3 seconds, lifetime 1 | `OwnerVouched`, `Expires`, `Recognised`, `OnlyOwnersRead`, `OwnersRead` |
| `Follower` | 1 subscriber, messages handled one at a time, reordered, 2 repeated; 4 blocks | `NeverBack`, `CatchesUp`, `ReadsItself` |
| `Writers` | 2 overlapping `playTransactions`, other clients, lost requests and replies, refusals without a tip; 3 blocks | `NeverBack`, `CarriesState` |
| `ConflictingAcks` | 2 handlers, not serial | violated: both of two conflicting blocks acknowledged |
| `PolicyReadWants` | as `PolicyEvaluation` | violated: `readWants` without `wants` is not honoured |
| `OverlappingMessages` | 2 messages handled at once, in order | violated: the tip goes back |

Two handlers are enough for the races: each is between one handler's check and
another's write. A height of 2 gives a policy and a block under it, or a fork and a
block on it; the config tree changes from one policy to another, and to none; the other
tree is missing, then locked or open. `MaxHeight` bounds the tips requests build on; in
`PolicyTree` it bounds the object, and players start below it. `Redeliver` bounds repeated
messages. `seen` holds every tip an object had, so a request may build on any of them:
that is how stale and retried requests come about, and how a store that forgot everything
is offered a block on a tip it no longer has. A history a client makes up (`Drafts`) is
any sequence of blocks below `MaxHeight`. In `SerialStore` it may give the tree to a key that
never owned it, or set policies that were never installed: the next block is judged by
those. That run is serial on one durable store; that `TipsEarned` also survives requests
that race and a store that forgets is the theorem `TipsAlwaysEarned`.

One request is enough in `Identities`: requests share nothing but the clock and the
trees, which change at any step anyway. Identities are signed in the unit the comment on
`Exp` names and in the client's (`Millis`), by owners, by others, and damaged. The blocks
of the run give a tree to the owners of the other one and hide it from everybody else,
move the other tree to a new owner, and change nothing but the tip, so the graft may be
resolved before or after the move, and the read after it.

Deadlock is checked except where the system may really stop: `SerialStore` and `Reads` (a
config tree that cannot be loaded keeps `NewAggregator` failing until someone
repairs the store), the client's runs and `PolicyCheck` (nothing left to do).

Fairness. `EveryRequestEnds` assumes `WF_vars(Serve(h))`: a goroutine that can run does.
Nothing obliges clients to send or processes to crash or restart. `CatchesUp` assumes
that the queue delivers, callbacks run and requests are answered (`Running`), which is
QoS 1 on a connection that stays up; nobody has to write. `Identity` and `Reader` make no
promise of liveness: their requests are handled by the same goroutines.

### What goes wrong, and where

The three violation runs each end in a state the code reaches:

- `Add` compares the tip and puts its own without a lock, so two conflicting requests
  that overlap are both valid, and one block is lost.
- `PolicyFromTree` looks at the key `wants` for the read policy too.
- `subscribe` compares with a height resolved before an await.

More was seen while modelling, without a run of its own:

- `Add` drops the error of `storeState`. With `Faults <- {"store"}`, `TipsLoadable` fails: when
  the store refuses the nodes and takes the tip, the update is published and
  acknowledged, and its tree cannot be loaded.
- While the store has no tip of an object, a request may name any, with a history of the
  client's making. With `KnownTips <- FALSE`, `ChainsValid` fails (blocks in the history
  that no owner signed, who then own the tree), and so does `TipsLoadable` (ancestors
  nobody stored), with a store that never fails. `TipsLoadable` fails too with
  `Durable <- FALSE`: a store that forgot a tree accepts a block on any tip of it.
  `setupConfigTree` takes a tip that is gone again for no config tree, without an error.
- With `Host <- OneServer`, two objects and two handlers, `PolicyEnforced` fails: a write is
  evaluated with the query of one config tree and `hasWriteWants` of the next (latent,
  since `NewResolver` sets no `ConfigTree`).
- Not serial, `PolicyFresh` fails: two updates of the config tree install their policies
  in the wrong order. A config tree whose policies do not compile is put, answered with
  an error and never announced, so `UpdatesPublished` fails with such a block.
- `Resolver.AddBlock` answers `Valid: true` with an undefined tip to a block the global
  policy refused (`resolvers.go:169`; latent for the same reason). A client is saved by
  `new CID("b")`, which throws in a log statement (`community.ts:74`); without that,
  `NeverBack` fails.
- With both `Callbacks` and `Players`, `NeverBack` fails: a reply that comes after the
  messages of later blocks sets the tip back (`updateChainTreeWithResponse`).
- `Identity.Exp` is in "seconds since the epoch" (`identity.go:51`); `client.ts:174` signs
  milliseconds. `Expires` is about the first; without its premise on the unit it fails.
- An identity that names a tree without a first block makes `Verify` fail and the request
  is refused (500), also the one that would send that block.
- `Setup` cancels the context it has given to the aggregator and the publisher when it
  returns (`server/main.go:64`); nothing the model has depends on that context.

`Complete` has a premise worth knowing: a rule without a default has no result in the
first round, so it refuses everything; likewise a map without `main` refuses every write.
`Sound` and `Complete` hold of read policies in maps that have `wants` exactly when
they have `readWants` (`WantsHeard`).

## Proofs

All from the named assumptions on the constants, for any number of objects, servers,
handlers and blocks; `MaxHeight` is any natural number (in `PolicyTree`, not 0).

Every safety and action property of a passing run is the conclusion of a theorem.
Hypotheses beyond the assumptions of the modules are named in the statements; each
excludes something that goes wrong in the code, as said below.

- `WriteSound` (`PolicyLemmas`): `Validator` answers "valid" only to what `PolicyDoc`
  allows. By cases on the kind of node and the wants. `AlwaysSound` and `AlwaysComplete`
  (`PolicyCheckProofs`) say so of both validators, and the converse, of all maps.
- `TypeCorrect` and `TipsAlwaysEarned` (`AggregatorProofs`) need no assumption about the
  environment: the block a tip ends in was signed by an owner, and allowed by the policies,
  of the tree it was played on, which its client may have made up. `ChainInv`, which is
  inductive, adds that tips in the store were seen (`TipsSeen`), and that a request past
  `authenticate`, or past `validate`, has a block that some version of the other tree vouched
  for (`Authenticated`, `Validated`). What was once evidence stays evidence, since `seen` only
  grows, so a store that forgets does not matter, nor what other handlers did since.
- `ChainsAlwaysValid` (`AggregatorProofs`) assumes `KnownTips`, the condition on clients, and
  nothing else: then the tip a request builds on is the empty tree or was seen (`Requested`),
  so `Put` extends a valid history by an acceptable block. Without `KnownTips` it is false.
- `TipsAlwaysLoadable` (`AggregatorProofs`) assumes `KnownTips`, `Durable` and a store that does
  not fail, and no `Serial`: `NodesInv` says that the nodes of every tip an object ever had
  are stored (`SeenStored`), that every such tip is loadable (`SeenLoadable`, from `KnownTips`)
  and that before `Put` the new nodes are stored (`StoredFirst`). It is false without any of
  the three.
- `AckedAlwaysDurable`, `Refinement` and `PublishedAlwaysInOrder` (`SerialProofs`) assume
  `Serial` and `Durable`, and nothing of the trees first blocks come on. `SerialInv` says that busy handlers work on different objects
  (`Exclusive`), that between `checkTip` and `putTip` the tip of the object is still the one
  compared with (`Matching`), that the tips an object had are prefixes of the one it has
  (`OneHistory`), and that what was acknowledged is among them. Without `Serial` the second
  part fails, which is the run `ConflictingAcks`. `Refinement`: initial states map to
  initial states, `PutTip` to `Begin` when the object had no tip and to `Extend` when it had,
  every other step to a stutter; `Bases` is every history a client can make up, or the empty
  one with `KnownTips`; the evidence of the
  aggregator is evidence of the abstract store, as all versions seen are prefixes of the
  present chain. `MessageInv`: a handler that is to publish is ahead of the last message of
  its object, which is behind the tip. `AckedAlwaysPublished` assumes besides that
  publications do not fail.
- `PolicyAlwaysEnforced` (`ConfigProofs`) assumes that a process serves one request at a
  time (`OneAtATime`: a Lambda), that policies clients send can be installed (`Compiles`), and
  that the config tree just put can be loaded, for which it takes the hypotheses of
  `TipsAlwaysLoadable` (`KnownTips`, `Durable`, a store that does not fail); no `Serial`.
  `SettledInv`: a process in
  which no handler installs has the policies of one version of the config tree, or none
  (`ServersSettled`), and one in which a handler does has the assignments made so far
  (`Stages`). That the query evaluated is the one its process still has (`OwnQuery`) needs
  `OneAtATime`: with two handlers in a process the property fails.
- `PolicyAlwaysFresh` (`ConfigProofs`) assumes `Serial` instead of `OneAtATime`, and the rest.
  `FreshInv`: who installs has the last version (`LatestTree`), and the last version is being
  installed, or is, or the process that took it has stopped (`LastInstalled`). It rests on
  `SerialInv` (nobody else updates the config tree meanwhile) and `NodesInv` (the tip just put
  is found). `UpdatesAlwaysPublished`, by `ToBeTold`, assumes besides that nothing fails or
  crashes. A store that fails, a config tree that does not compile, or one whose ancestors
  nobody stored ends `Add` between `Put` and the last assignment, and both properties fail.
- `ReadsAlwaysAllowed` (`ReaderProofs`) assumes nothing of the environment; that a policy
  that has `readWants` has `wants` (`ReadWantsAsked`) is the finding of `PolicyReadWants`.
  `ReadInv`: a reader that is to resolve its path was allowed to with the tip it has
  (`AllowedRead`), and `during` has the other tree as it is. `LatestOther` may find it missing
  when it is not: a policy that allows a read without it does not look at it
  (`ReadWithoutOther`), so it allows the read with the tree as it was. `ReadsAlwaysMonotonic`
  assumes `Serial` and `Durable`: by `SerialInv` the tips an object had are prefixes of the one
  it has, so those a reader saw are too (`MonotonicInv`). `GlobalReadAlwaysEnforced` assumes
  that readers' processes take no updates (`ReadersElsewhere`, as in the run `Reads`), since
  `evaluateGlobalReadPolicy` reads several fields of its aggregator one after the other.
- `IdentityTypeCorrect`, `OwnersVouch`, `IdentitiesExpire` and `OwnersRecognised`
  (`ServiceProofs`) are about the step that answers. `Facts` says that while a request is
  verified the authentications of every tree lie between `always` and `owned`, that those
  loaded from the tree it names did so too, that the clock was compared after the arrival,
  and that a context has an identity, or has none, for those reasons. The last theorem
  assumes that no call fails.
- `ServiceImplementsIdentity` (`ServiceProofs`): a write is a change of owners that `Identity`
  knows, every other step one of `Identity` or a stutter, so `Facts` holds of the service.
  `OnlyOwnersAreShown` and `OwnersAreShown` join it to `ReadFor`: a request that reads does so
  for the identity of its context, and one that is to resolve a path of a tree that is shown
  only to itself is from that tree. There is no hypothesis about how often owners, grafts and
  policies change between arrival, verification and answer, nor about failures. A
  tree of the service has all its ancestors, since `Write` adds to the tip there is.
- `TreeTypeCorrect` (`PolicyTreeProofs`) needs `NoneAhead` (no tip, message or answer is
  above the server's), `RequestsCarryState` needs `Carried`: a request that still builds
  on the last tip was given the nodes of that tip, since its tip was not ahead of the
  server, and for what the client lacked the server answered with the last one. Neither
  has a hypothesis. `FollowerNeverBack` and `FollowerReadsItself` are about a client
  that plays nothing and handles a message before the next (`Follower`): then the height
  compared with is that of the tip there still is (`Compared`), which
  `OverlappingMessages` shows to fail otherwise. The second assumes that requests are
  answered (`~Faults`): of the last block there is a message still, or a callback that
  has it, or its nodes have landed or are on their way (`Told`). `WriterNeverBack` is
  about a client that does not subscribe: a reply that has not been taken is ahead of
  the tip, and the only one, as the server takes the next request only if it names the
  tip of that reply (`OwnTips`).

Only model-checked: what is violated, and what needs fairness (`EveryRequestEnds`,
`CatchesUp`), since liveness is out of the proof system's reach.

## Not modelled

The chaintree library's transactions; requests of more than one block; grafts of grafts
and values that are themselves grafted from another tree; which nodes a read touches;
GraphQL encoding, AWS sessions, MQTT set-up and block storage, which are I/O or wiring;
signatures, which are the key they recover to. `PolicyTree` takes the server as atomic,
and which of a request's fields the library compares beside tips and height is left open
(`Serve`). `Service` has one server and no config tree.

## Plan

Done, in this order: `Policy`, `ChainTree`, `Aggregator` with its abstract `ChainStore`,
their proofs, `Reader`, `PolicyTree`, `Identity` and its proofs; then wants of other trees
and grafted ownership throughout, stores that forget, the requester in policies, the two
fronts, `Service`, state collection in `PolicyTree`, and the theorems about nodes and
messages; then theorems of every safety property the runs check.

Next:

1. A `PolicyTree` that both subscribes and plays: what its tip can go back to, as a theorem.
2. `PolicyTree` against `Aggregator` rather than against its abstraction, with the memory
   store's restart.
