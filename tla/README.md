# Verification of iab-agentic-primitives

TLA+ models of `iab-agentic-primitives`: the lifecycle engine and its three
canonical tables, FD-8 reconciliation, the reference seller and the contract it
keeps, the reference buyer transacting with sellers in a scenario, the sandbox
registry with its threads, file and crashes, the registry client against the
double of the real registry, the bridge between the two avails dialects, and the
conformance suite over every golden vector. Each is model-checked with TLC. The
guarantees of the engine, of reconciliation, of the seller, of its contract, of
the buyers in a scenario, of the sandbox registry, of the registry client and of
the avails bridge are also proved with TLAPS, for every value of the constants
(every table, catalog, set of bids and keys, round cap, number of buyers and their
briefs, number of threads, calls and crashes, every targeting).

Paths below are relative to `src/iab_agentic_primitives/` of the repository.

## 1. Inventory

| Component | Code | State | Operations | Hard behaviour |
|---|---|---|---|---|
| Lifecycle engine | `state/machine.py` | an immutable table, a memo of searches | construct (validate), `allowed_from`, `can_transition`, `can_progress_to`, `transition`, `entry` | which tables are let through; long legal sequences; rework loops |
| Canonical lifecycles | `state/*_lifecycle.py` | none | - | stranded or resurrected entities |
| Reconciliation | `state/reconciliation.py` | precomputed comparison tables | `classify`, `comparison_table`, `reconcile*` | statuses that are stale when compared; symmetry of verdicts |
| Roles | `harness/roles.py` | none | tiers, cost | integer rounding |
| Reference seller | `harness/reference_agents.py` | quotes, negotiations, index by quote, replay cache, deals, deals by key, id counter | `price_quote`, `handle_negotiation`, `book_deal` | retries, messages after close, booking before or after agreement, floor and cap boundaries |
| Reference buyer | same file | local variables of `transact` | discover, negotiate, check guardrails, book, book again | own view against the seller's record, holding at the ceiling, round exhaustion |
| Scenario runner | `harness/scenario.py` | sellers shared by the buyers, timeline | `run_scenario`, `_run_one`, channels | records left by earlier buyers |
| Scenario assertions | `harness/assertions.py` | none | checks of a finished result | - |
| Protocol messages | `protocol/*.py` | none | validators | cross-field rules |
| Avails bridge | `protocol/avails.py` | none | `to_spec`, `to_simplified` both ways, `avails_from_simplified`, the two parsers | zero and absent, volumes beyond an exact float, foreign entries, records without a volume |
| Sandbox registry | `sandbox_registry/store.py`, `app.py` | agent records, optional JSON file | register, list, get, set trust, verify, load, persist | threads without a lock, a file rewritten in place, crashes, restarts under a seed |
| Registry client | `registry_client.py` | bearer token and its header | typed calls over HTTP, `verified_trust` | token refresh with answers out of order, several awaits per verdict, timeouts |
| Registry test double | `sandbox_registry/real_double.py` | agents, id counter, tokens | REST handlers | look-up, await, change; two deletions at once; a scan of the dict that a deletion overtakes |
| Conformance suite | `conformance/vectors.py`, `runner.py`, `report.py` | a report under construction | replay of golden vectors and state sequences, schema and export sync | which drift or loss the report shows, and which it cannot |
| Primitives, events | `primitives/`, `events/` | none | validators | strict money, rules that no JSON Schema states |
| State spec export | `state/spec_export.py` | none | exports of tables and matrices | exports regenerated from drifted code |

How they interact. A scenario registers every participant in the sandbox
registry, sets trust, and then runs its buyers **one after another**
(`scenario.py:246-249`). Each gets channels to the discovered sellers with its
registry tier ceiling built in, and its `transact` calls the sellers' handlers
directly and synchronously. The seller drives the deal and order lifecycles when
it books; the scenario reconciles the two sides' deal statuses. Outside the
harness the same envelopes travel over HTTP, where calls are retried and arrive
in any order: the seller is therefore modelled twice, under arbitrary callers
(`ReferenceSeller`) and under the reference buyer (`ReferenceBuyer`). The sandbox
registry's handlers are plain functions, which its web framework runs in a pool
of threads; the double's are partly coroutines, interleaved at their awaits. The
client runs its callers' coroutines on one token. The conformance suite loads
the models, the lifecycles and the checked-in `spec/` and holds them against each
other.

Correctness, per component:

* engine: accepted tables have final terminals, no forward cycle and no dead
  corner, so that precedence is a strict partial order;
* reconciliation: an ordinary lag is recognised as one however stale the
  observation; both agents reach mirrored verdicts;
* seller: the private floor, bounded negotiations, a last word that is the last,
  an ask that is the one stated, replayed answers, one negotiation per quote, one
  deal per key, agreements that bind; in one formula, the abstract contract of
  offers that only come down and bookings at the price due;
* buyer and scenario: the guardrails hold on the seller's records, a forced
  negotiation succeeds exactly when a trade exists, both sides keep the same
  history, buyers do not reach each other's records, every transaction ends;
* sandbox registry: trust is only ever what a registration, an admin or the seed
  decided, never a mixture; what was acknowledged survives a crash, or the
  registry refuses to start;
* registry client and double: membership is an admin's decision, a deleted agent
  stays deleted and is deleted once, a verdict whose two halves disagree has its
  reason in a change between the two reads, an internal error has its own in
  another's deletion, tokens settle;
* avails bridge: asking in the published dialect changes neither volume nor
  price, and the status on a record is true of what the buyer asked for;
* conformance suite: the shared models conform, every drift and every loss that
  its inputs can show is reported, and money is never read leniently unseen.

## 2. Modules

| Module | Models | Notes |
|---|---|---|
| `StateMachine` | `state/machine.py` | operators over a table; one predicate per `ValueError` of `_validate` |
| `Lifecycles` | the canonical tables | an assumption states that the constructor accepts them |
| `Reconciliation` | `state/reconciliation.py` between a seller, a buyer and a sync job | `Fetch`, `Sync`, `BuyerMoves` are the calling agents' (external) |
| `StateMachine_proofs`, `Reconciliation_proofs` | theorems about the engine's search and about reconciliation | |
| `Roles` | tiers and cost of `harness/roles.py` | |
| `ReferenceSeller` | the seller's three handlers under arbitrary calls | extends `Roles`, `Lifecycles` |
| `SellerContract` | what a seller promises, whatever it says on the way | abstract; `ReferenceSeller` implements it |
| `SellerProperties` | what the seller must get right, and the refinement mapping | |
| `ReferenceSeller_proofs`, `SellerContract_proofs` | theorems about the seller; that it implements the contract | |
| `ReferenceBuyer` | `transact` and `run_scenario`'s sequence of buyers | composes with `ReferenceSeller`: its steps call the seller's actions |
| `BuyerProperties` | what a scenario must get right | |
| `ReferenceBuyer_proofs` | theorems about it; that it implements the seller's specification | on top of the seller's invariant and theorems |
| `Trust` | trust statuses and tier ceilings | shared by registry and client |
| `AgentStore` | `sandbox_registry/store.py` behind `app.py` | threads, file, crashes |
| `AgentStoreProperties` | what the sandbox registry must get right | |
| `AgentStore_proofs` | theorems about it | |
| `RegistryDouble` | `sandbox_registry/real_double.py` | the store and what each handler answers and does |
| `RegistryClient` | `registry_client.py` | composes with `RegistryDouble`: requests, answers, tokens |
| `RegistryProperties` | what the registry's clients may rely on | |
| `Registry_proofs` | theorems about it | |
| `Avails` | `protocol/avails.py` between a buyer and a seller | |
| `AvailsProperties` | what the bridge owes to both sides | |
| `Avails_proofs` | theorems about it | |
| `WireModels` | which fields the models of `primitives/`, `protocol/` and `events/` need, have and may have, what they nest, their validators | a table |
| `GoldenVectors` | `conformance/vectors.py` | every vector and every state sequence |
| `Conformance` | `conformance/runner.py` | a run over an implementation that drifted, or a checkout that lost a file |
| `ConformanceProperties` | what the report shows | |
| `MC*` | instances for TLC | |

Operators commented "Fault:" (or "fault:") are deliberately wrong variants of the
operator that follows them. No model uses them; each is there to show that some
property fails when the code has that bug.

### StateMachine, Lifecycles, Reconciliation

A table is a record; rules are a sequence, as in the code, since duplicates must
be refusable. `ReachableFrom` is the breadth-first search of `_reachable_from`
by layers, a recursive function over 0..|states|. A guard is abstracted to its
verdict, an input of the transition. `Reconciliation` precomputes reachability
and the comparison table once per table, as `_reachability` and the module-level
tables do. The seller's record is `seller` with its audit trail; the buyer's is
`buyer`; `fetched` is an observation in flight, which `Sync` compares with a
buyer record and a seller record that may both have moved on. An observation may
also be `Foreign`, a name that the machine does not have: `Reconcile` makes both
names statuses of the machine first, as the code does, and raises for it, so that
the sync job stores nothing. `BuyerMoves` lets
the buyer move its own record once, as when it has cancelled what the seller has
not yet processed. `Init` ranges over the accepted tables only: for the others
the constructor raised.

### ReferenceSeller

The variables are the attributes of the same name (`quotes` for `_quotes`, ...);
`deals` merges `_deals`, `_deal_status` and `_transitions`, which are written
together; `reply` is the last call's return value. Ids are the numbers that
`_mint` hands out; the kind that prefixes an id in the code is the function it
indexes here. Every handler runs to completion in the code (plain synchronous
methods), so a call is one action, with one disjunct per way through it:

* `PriceQuote` = `RefuseQuote`, `IssueQuote`;
* `HandleNegotiation` = `ReplayRound`, `RefuseMessage`, `ContinueNegotiation`,
  `OpenNegotiation`, the last two taking one of the nine ways through `_advance`;
* `BookDeal` = `ReplayBooking`, `RefuseBooking`, `Book`, which drives the deal and
  order lifecycles of `Lifecycles`.

Messages are those that pass the envelope's validator. A message names one
context; the code lets it carry several and looks at `negotiation_id` first, so
several behave as the first of them. `IssueQuote`, `OpenNegotiation` and `Book`
are bounded by `MaxMinted`. Amounts are exact integers; Python's integers have
no width. `round_number` and `idempotency_key` of a quote request are not fields
of the model because the handlers never read them.

Left out: flight dates, availability, product names, the concession percentages
of a round (floats for display) and rationale texts.

### ReferenceBuyer

A step is one call on a channel, together with all the buyer computes from its
answer up to the next call; `phase` is the program counter and the other fields
of `buyer[b]` are the local variables of `transact`, `_discover_cheapest` and
`_negotiate`. The sellers are one `ReferenceSeller` with its catalog divided
among them. That is sound because they share no record, ids carry the minting
seller's name, and the buyer's keys contain the quote's id. `Turn` makes buyers
run in sequence as `run_scenario` does, each on what the previous ones left.

The in-loop rejection of `_negotiate` (777-785) is modelled but never taken: a
buyer that negotiates voluntarily has a quote within its ceiling and the ask only
falls, so `seller_price <= ceiling` holds first.

Left out: catalog pages beyond the first, products without a base price, the
audience plan's content, and the currency of the brief (the code compares
amounts alone). Registration, trust and discovery are inputs: `Catalogs` and
`ceiling`.

### SellerContract

An offer has a quoted price, a floor, an ask, a status and the price agreed; it
is made, conceded on, agreed or rejected, and booked under a key. The mapping in
`SellerProperties` makes one offer of a quote and its negotiation: the ask is the
negotiation's standing ask, or the quoted price before there is one. Replays,
refusals, opening messages at an unchanged ask and everything the seller keeps to
find its records again map to stuttering. The contract leaves open how a seller
concedes; it forbids asks that rise, offers that reopen, agreements under the
floor and bookings at any other price than the one due.

### Trust, AgentStore

A thread's `pc` stops wherever the interpreter may switch and another thread's
progress can be noticed: after the existence check of `register` and the read of
`set_trust` (`store`), after the assignment (`persist`), at each entry while
`snapshot` or the listing iterates (`iterate`), before opening the file for
writing, which truncates it (`truncate`), before its content is flushed
(`write`), and before the answer. The iteration raises when the dict changed its
size since it began. The file is absent, empty, torn or whole; `Overlay` gives
what a write from the file's start may leave when another writer got in between.
A crash forgets memory and threads and keeps the file. `Start`, `BootTruncate`,
`BootWrite` and `LoadSeed` are the steps of `AgentStore()` and `create_app()`:
load the file, persist, load the seed over it, persist; an unreadable file makes
the constructor raise (`refused`).

`overlapped`, `acked` and `latest` are history: the last grant stored and the
last one acknowledged per agent, kept as long as requests were served one at a
time. A 404, a 409, `get` and `verify` change nothing and are not steps. Dict
order is abstracted to any order; a card's content to one value.

Two facts the model shows and no property claims, because the code does not
promise them: with overlapping requests the file may stay behind memory or be
torn, and a change that was stored may be answered 500 and not persisted. Loading
the seed at every start also overrides, by design, what admins decided for the
seed's agents.

### RegistryDouble, RegistryClient

`RegistryDouble` has the store and one operator per handler for its answer and
its effect. Handlers that look an agent up and then work on it take two steps,
`Lookup` and `FinishOp`: `update_agent` awaits the request body in between,
`delete_agent`, the health check and the badge run in threads. `validate_domain`
is a coroutine that goes through the dict itself (`BeginScan`, `EndScan`): no
other coroutine runs meanwhile (`LoopIsFree`), but a deletion in a thread may, and
then the scan raises unless it was through already. An agent is an
object that a handler keeps after `_Store.agents` has dropped it, hence `objects`
beside `agents`. `RegistryClient` adds the requests: a coroutine's `call` leaves
with the header of that moment, is served, answered and received in any order,
or is given up on after the timeout while the registry goes on. `Receive` absorbs
a refreshed token, maps the error and, in `verified_trust`, sends the second
request. The legacy surface of the client is the sandbox registry's own
operations and is not composed with it.

`membered`, `deletions`, `gained`, `lost` and `overtaken` are history, which no
guard reads: which agents an update with an admin's token made members, which
deletions were confirmed, and what happened to a coroutine's agent, or to the dict
it was going through, while it was under way. They name reasons: a reader sees in
`VerdictsHaveReasons` and `InternalErrorsAreRaces` that the code's only explanation
of a contradictory verdict or of a 500 is the race named there.

### Avails

One exchange: a buyer asks in the legacy dialect, in the published one, or in
both; the seller parses and bridges, prices (external: the fallback documented on
`AvailsRequest`, capped by capacity), answers in the dialect it was asked in, and
the buyer parses and bridges back. A buyer or a seller may also know the published
dialect only. Numbers that cross the bridge as the digits of a float keep its
rounding: `Exact` stands for 2^53 and `AsFloat` rounds beyond it to the nearest
even integer, as IEEE doubles do up to 2^54. The total, a product of two fields,
and the echoed dates and accounts are left out.

### WireModels, GoldenVectors, Conformance

What the runner can tell apart of a vector is which model instances it holds,
which fields each gives, and in which one way an invalid vector is corrupted. A
vector is that set of instances; an invalid one names the error it must be
refused for. A model is its required, defaulted and nullable fields, the field
that may not be empty (`NonEmpty`), its nested models and its validators, by name.
A minimum length is part of its field: it is reported beside other field errors
and stands in the JSON Schema, while a model's own validator runs only when its
fields are valid. The implementation under test is the shared
one with at most one `drift`: a field lost, added, demanded, no longer demanded or
allowed to be empty, unknown fields kept or forbidden, a validator skipped, money read leniently or as
a float, a lifecycle edge added or dropped. The checkout (`disk`) may have lost
one fixture, schema or export or hold a document of an unknown target; `spec/` is
as checked in or regenerated from the drifted code; `jsonschema` is installed or
not. A step of `Conformance` is one document, one vector or one sequence.

## 3. Runs

| Run | Instance | Checks |
|---|---|---|
| `reconciliation` | the three canonical tables with six seller moves; every table over three states that the constructor accepts (per pair no rule, a forward or a rework rule; every terminal set; a duplicate or an alien rule) with two | `TypeOK`, `LagIsBuyerBehind`, `VerdictsMirror`, `NeverStranded` (canonical tables), `SyncCatchesUp` |
| `seller` | list 20, floor 16, bids 15, 16, 17, 20, cap 3, four keys, three ids | the seller's invariants, `SellerOnlyConcedes`, the refinement `ImplementsContract` |
| `booking` | seven request kinds, two ceilings, two identities, two currencies, two keys, four ids, cap 2 | `OneDealPerKey`, `AgreementBindsBookings` |
| `one_buyer` | two sellers, three products, 1346 briefs with every kind of opening around each floor, list price and band limit; the code's caps 6 and 8 | guardrails, `SettlesWhenPossible`, `SellerCapFiresFirst`, `EveryBuyerFinishes` |
| `many_buyers` | three buyers with five briefs, same sellers, the buyer's cap lowered to 3 | `RecordsAreOwned`, `SidesAgree` |
| `agent_store` | two threads, two agents, one of them in the seed, two updates, two crashes | `StoreTypeOK`, `TrustIsDecided`, `IdleFileIsCurrent`, `AcknowledgedSurvives` |
| `registry_client` | an admin client whose token is refreshed twice, with two coroutines, and a user client with one; one agent, two calls in flight | `MembershipIsAdminSet`, `OneDeletionEach`, `VerdictsHaveReasons`, `InternalErrorsAreRaces`, `DeletedStaysDeleted`, `TokenSettles` |
| `conformance` | every single drift, with and without regenerated `spec/`; every single lost or alien file, with and without `jsonschema` | `CleanRunConforms`, `DriftIsReported`, `MoneyStaysExact`, `LossIsReported` |
| `avails` | three products (capped, open, sold out), volumes 0 to 19 around the capacities and around `Exact` = 16, budgets, targetings, foreign entries | `DialectChangesNothing`, `StatusIsHonest` |

Why the bounds are enough. Six seller moves go through a whole lifecycle or once
round a rework loop and on. Three states are the smallest number with a path that
is not an edge and a cycle that is not a self-loop. In `seller` the bids are one
below the floor, at it, one above it and at the list price, which are the cases
`_advance` distinguishes; a cap of 3 has a first, a middle and a last round; four
keys let a negotiation be played through with one key to spare for a retry or a
message after the close; three ids are a quote, its negotiation and a deal, or
two quotes. `booking` has an id more, for a second deal of one quote. Keys are
interchangeable, hence the symmetry; the action properties checked with it
quantify over keys uniformly, and no liveness property is checked with it. The
buyer's runs need no bound beyond the caps of the code (`MaxAmount` is above every
amount of their briefs and only limits what bids may be): prices are the code's
micros scaled down; in `many_buyers` the buyer's cap is below the seller's so
that the buyer's backstop, which `one_buyer` shows never to fire, is taken.

In `agent_store` two threads are every race between two requests, two agents let
one of them change the dict's size under the other's iteration, and two crashes
are one in the middle of serving or of starting and one more on what that left.
In `registry_client` two calls in flight are every pairwise race, over three
coroutines so that a third starts on what a race left; one agent is enough
because handlers touch one agent each and a scan fails on any deletion, and a token that is refreshed twice is the
shortest chain in which an old answer can put back an expired token. `conformance`
enumerates every drift and loss of its kinds; two drifts at once could mask one
another and are not considered. In `avails` the volumes are zero, one, below, at
and above each capacity, and at, one above (odd) and beyond the largest exact
float.

Deadlock is checked in `registry_client`, where some call can always start or go
on. Elsewhere it is off: an entity in a terminal status, a seller whose ids are
used up by the bound, a scenario whose buyers are done, a registry that refuses to
start, an answered query and a finished report legitimately stop.

Fairness. Only `EveryBuyerFinishes` needs any, and it is checked under weak
fairness of `BNext`: `transact` is a synchronous Python call that waits for
nothing, so as long as it can take a step it takes one. `TokenSettles` is stated
without: a network guarantees no answer, so its premise is that the client keeps
receiving answers to authenticated calls.

### Where code and documentation disagree

Each run below checks one sentence of the documentation, which TLC refutes.

| Run | Sentence | Code |
|---|---|---|
| `one_deal_per_quote` | `protocol/errors.py:53-54`: booking a booked quote is a `contention` error | `book_deal` never looks |
| `duplicates` | `sandbox_registry/app.py:23`: 409 on a duplicate id | `register` tests and stores in two steps, without a lock: two registrations in two threads both succeed and the second replaces the first |
| `foreign_entries` | `protocol/avails.py:425-427`: foreign `ProductTargeting` entries are ignored | `to_simplified` looks at the target and never at the data source |

Further places, seen while modelling, where the models follow the code and the
text says something else:

* `protocol/_base.py:9-11`: a key reused with a different body is an error; a
  booking is answered with the first deal (`ReplayBooking`).
* `protocol/deals.py:65-66`: the identity is consistent with the quote's and the
  tier re-verified; the tier is recomputed at booking and not compared (`Book`).
* `protocol/negotiation.py:30-31`: an accept takes the last stated price; without
  an echo it is recorded in USD whatever the ask's currency (`_advance`).
* `state/reconciliation.py:33-37`: a looped-back side is behind, not divergent;
  it is divergent when it has since moved elsewhere (`Classify`).
* `conformance/vectors.py:3` speaks of two to four vectors per target; some
  targets have five or six.

### What the conformance run shows of the suite

The suite reports every drift of shape and every lifecycle edge against the
checked-in `spec/`. Once `spec/` has been regenerated from drifted code only the
vectors are left, and `DriftIsReported` states exactly what they still show: an
edge if and only if a sequence walks it or is refused at it. A validator leaves
no trace in a JSON Schema, so it is guarded by vectors alone, and eight checks have no invalid vector: `create_target`,
`makegood_only`, `linear_tv_only`, `context_given`, `priced`, `text_part`,
`data_part` and `search_dates`. Of the six fields with a minimum length only
`product_ids` has an invalid vector; the parts of an A2A message and the
idempotency keys have none. No vector shows a `ContentPolicy`. Leniently
read money (whole floats) is caught by two vectors only, and a lost document of
state sequences is not reported at all. For fields that became required or
optional no claim is made after regeneration: most of these drifts then go
unseen. The counts of a clean run, 396 checks of which 93 are skipped without
`jsonschema`, are those of `STANDARDS_GAP_REPORT.md`.

## 4. Proofs

TLC checks a small instance; the theorems hold for every value of the constants
that the modules' named assumptions admit. A property named in code style is one
that a run of section 3 checks too, by itself or as a named part; the rows in
words are results that only the proofs state.

| Module | Theorem | Property |
|---|---|---|
| `StateMachine_proofs` | `SearchIsClosed`, `SearchIsLeast` | what `_reachable_from` computes |
| | `PrecedenceIsStrict` | forward moves are a strict partial order in every accepted table |
| | `TerminalsLeadNowhere` | nothing is reachable from a terminal status |
| `Reconciliation_proofs` | `RecordsAreTyped` | `TypeOK` |
| | `LagIsRecognised`, `LateSyncsCatchUp` | `LagIsBuyerBehind`, `SyncCatchesUp` |
| | `VerdictsAreMirrored` | `VerdictsMirror` |
| | `EntitiesCanEnd` | `NeverStranded` |
| `ReferenceSeller_proofs` | `TypeCorrect` | `TypeOK` |
| | `FloorIsHonoured` | `FloorHonoured` |
| | `NegotiationsTerminate` | `RoundsBounded` |
| | `FinalOffersAreFinal` | `FinalOfferIsFinal` |
| | `AsksAreStated`, `TradesAreNotMissed` | `StandingAskIsStated`, `NoMissedTrade` |
| | `NegotiationsAreUnique` | `OneNegotiationPerQuote` |
| | `BookingsAreIdempotent` | `OneDealPerKey` |
| `SellerContract_proofs` | `ReplaysAreHistory` | `ReplayIsHistory` |
| | `SellerConcedes`, `AgreementsBind` | `SellerOnlyConcedes`, `AgreementBindsBookings` |
| | `SellerImplementsContract` | `ImplementsContract` |
| `ReferenceBuyer_proofs` | `BuyersAreTyped` | `BuyerTypeOK` |
| | `GuardrailsAreKept` | `GuardrailsHold` |
| | `RecordsStayOwned`, `SidesTellOneStory` | `RecordsAreOwned`, `SidesAgree` |
| | `SellersCapEndsTalks` | `SellerCapFiresFirst`, if the buyer's cap is not the smaller one |
| | `ForcedTalksSettle` | `SettlesWhenPossible`, if moreover the seller's cap is at least 2 |
| | `ScenariosRunTheSeller` | a scenario is a behaviour of the seller's specification |
| | `SellersKeepTheirWord` | `ImplementsContract`, `FloorHonoured`, `ReplayIsHistory`, `SellerOnlyConcedes` and `AgreementBindsBookings`, in every scenario |
| | `ScenariosUseUpTheirSteps` | each step uses up one of its buyer's finitely many |
| | `EndsAreExplained` | a transaction ends with a deal or with the reason for none |
| `AgentStore_proofs` | `StoreTypeCorrect` | `StoreTypeOK` |
| | `TrustIsNeverInvented` | `TrustIsDecided` |
| | `IdleFilesAreCurrent` | `IdleFileIsCurrent` |
| | `RestartsKeepAcknowledged` | `AcknowledgedSurvives` |
| `Registry_proofs` | `MembershipIsDecided` | `MembershipIsAdminSet` |
| | `DeletionsAreToldOnce`, `DeletedAgentsStayDeleted` | `OneDeletionEach`, `DeletedStaysDeleted` |
| | `VerdictsAreExplained`, `ErrorsAreRaces` | `VerdictsHaveReasons`, `InternalErrorsAreRaces` |
| | `ClientsKeepToTheirTokens` | a header carries the first token or one that refreshing leads to |
| | `UsersAdministerNothing` | without an admin's token on that chain, nothing is administered |
| `Avails_proofs` | `StatusesAreHonest` | `StatusIsHonest` |
| | `DialectIsHarmless` | `DialectChangesNothing`, with its parts `DealsCross` and `NothingIsFabricated` |
| | `AmountsCross`, `TargetingIsCarried` | what `to_spec` and `to_simplified` together do to volume, budget and targeting |

### Engine and reconciliation

The search goes by layers; `LayersGrow` shows that each layer either adds a
status or is closed under successors, so that after as many layers as there are
statuses it is closed (`SearchIsClosed`), and `SearchIsLeast` that any closed set
with the start's successors holds every layer. Both are inductions over the
layer's number, carried out with the least-number principle on a set of numbers
(`LeastNatural`), since the library's induction rules take an operator. From
closure and minimality follow transitivity and, with `ProgressIsAcyclic`, that
precedence is strict: `classify` can never find both sides behind.

Reconciliation's invariant is `IInv == Tracked /\ Recorded /\ Lagging`. `Lagging`
is what the two lag properties need and neither says: while the seller has only
progressed and the buyer only synchronised, the buyer is at or before the
observation in flight, and that at or before the seller. Without the middle term
a sync could store a status the seller is not known to have passed.
`EntitiesCanEnd` walks from each status of the three canonical tables to a
terminal one by rules that are named in the proof. Assumed (`TablesAssumption`): a
table has finitely many statuses, and `NotFetched` and `Foreign` are none of them.

### Seller and contract

Assumed: catalog prices are integers in known currencies, bids are prices, the
cap is a positive number, tiers are known; nothing about their sizes. None of the
properties is inductive alone: that a booked deal honours the floor depends on the
floor of every recorded round, that a final offer is the last on the seller having
nothing left to concede. The inductive invariant is

    IInv == Quoted /\ NegotiationsHealthy /\ Linked /\ Cached /\ Dealt

`Quoted` types and bounds the quotes; `NegotiationsHealthy` says each one is
`Healthy`: typed, never under its floor, its asks stated, within the cap, rounds
recorded once it is closed, its final offers answered at most once and, while a
final offer stands, `Spent` (the ask is at the floor or one round is left).
`Linked` ties negotiations and index, `Cached` types the replay cache, `Dealt`
ties deals, keys and floors. `AdvanceFacts` reduces the nine ways through
`_advance` to one description of a sound answer, `RoundKeepsHealthy` shows that
recording such an answer keeps a negotiation healthy, and `NextKeepsIInv` has one
step per action.

`SellerContract_proofs` sorts every step into four kinds (`StepKinds`): a quote, a
round, a booking, or nothing recorded. `RoundEffect` says what a round does to the
records and the cache, from which `ReplayIsHistory` is inductive beside `IInv` and
both action properties follow. For the refinement, a quote is the contract's
making of an offer, a round is its concession, agreement or rejection or, when the
ask stays where it was, a stutter, and a booking is its booking at the price due;
the view of every other offer is shown to be untouched.

### Buyers and scenario

The invariant `BuyerIInv` is the seller's `IInv` and, for each buyer, `Faithful`:
what it has chosen is a candidate of its own (`Choosing`); its rounds are the
seller's and number its messages (`Bargaining`, `Agreeing`); the message it sends
next is a bid, or accepts an ask within its ceiling, or is its last word
(`Talking`); what it books passed the guardrails at the last agreed price
(`Priced`, `Booked`); and no key it may still use is known to a seller (`Unused`).
`Apart` and `Owned` tie the buyers together: no two hold one quote, and every
negotiation and deal is some buyer's.

`Unused` is what makes the argument go through. Keys consist of buyer, quote and
round, so no message of a buyer is answered from another's cache (`MessageHandled`:
a message is never a replay and never refused), and no booking but the second is a
replay. `Owned` and `Apart` give that the quote a buyer opens on has no
negotiation yet (`FreshQuote`). `Elsewhere` says what one buyer's step leaves alone
at the sellers, `OthersKept` that this keeps every other buyer `Faithful`, and
`StepKeeps` puts the pieces together, so that each action has only its own buyer to
look at. Nothing uses that buyers run one after another: the theorems hold for
every interleaving of their calls.

`Settling` is the inductive form of `SettlesWhenPossible`. After the first answer
no bid of a forced negotiation is below a floor within reach, because a bid below
the floor is answered with the floor, which the buyer then accepts; so the seller
refuses a last bid only when no trade exists. With a seller's cap of 1 the first
bid would already be the last, and with a buyer's cap below the seller's the buyer
would break off: the two hypotheses are needed, and the code's 6 and 8 meet them.

The scenario is a refinement of the seller's own specification: a buyer's step is a
quote request, a message, a booking or nothing at all to the sellers
(`AskSellerIsSellers`, `TalkIsSellers`, `BookingIsSellers`, together
`StepIsSellers`), and what it calls with is among what `Next` lets any caller send,
which for the messages is what `BuyerIInv` says of them. So every theorem about
`Spec` is one about `BSpec` too; `SellersKeepTheirWord` lists those that matter
between the parties, the refinement of `SellerContract` among them.

`ScenariosUseUpTheirSteps` gives the argument for termination that a liveness proof
would rest on. `StepsLeft` is the variant: a buyer starts with at most
`Len(Catalogs) + MAX_BUYER_ROUNDS + 3` steps (a seller to ask or to skip each, the
choice of a quote, the rounds, and a last word or the two bookings); every step
lowers its own buyer's and no other's, and it is zero for the finished and for
nobody else. `EndsAreExplained` says how the transactions end.

Assumed: a brief names integers, and none beyond a `MaxAmount` (`BriefAssumption`);
the keys, bids and ids that the buyers' messages are made of belong to the seller's
constants (`KeysAssumption`, `BriefAssumption`), which bounds the ids by `MaxMinted`
and nothing else; so do the identity, the plan and the quote request of a brief
(`CallsAssumption`); catalogs list products (`CatalogsAssumption`).

### Sandbox registry

`IInv == Typed /\ Decided /\ Sequential`, for any number of threads and crashes.
`TrustIsDecided` is not inductive: a record on its way to the store, and an entry
a thread has already copied for the file, must have been decided too (`Decided`).
`Sequential` describes, as long as requests were served one at a time, what every
stop of a thread and of a start implies for the file: `Persisting` says that up to
the truncation the file still holds every acknowledged grant, between truncation
and write it is unreadable, and after the write it is current; `Booting` says the
same of the constructor's two writes. From it follow that an idle registry's file
is current and that a restart keeps what was acknowledged.

### Registry client and double

The invariant adds to the four state properties that ids are numbered in order and
name objects for ever (`Numbered`), that an admin handler holds an object it looked
up and a request with an admin's token (`Underway`), that what a coroutine in the
middle of `verified_trust` has read so far is still so or has become otherwise for
one of the two reasons (`Coherent`), and that an agent about to be deleted is still
listed, and a dict being scanned still whole, unless a deletion got ahead
(`Faultless`). `MembershipIsDecided` needs the middle one: the admin check comes
before the look-up and the update after it, with other requests in between.

A refreshed token reaches a client by answers that overtake each other, so the
order of its tokens is not invariant: an old answer may put back an older token.
What is invariant is the set they are from. For any set `S` closed under
refreshing that holds the client's first token, `TokensWithin` says that the
client's token, its header, the bearer of each of its requests and the new token on
each of its answers are in `S`, so that absorbing an answer (`ReceiveWithin`), an
old one too, stays in `S`. `UsersAdministerNothing` takes an `S` without an
admin's token and looks at `_require_admin`.

Assumed: an update that sets the membership flag sets it to a truth value
(`ChangesAssumption`); each call is some client's and each client has a first token
(`ClientsAssumption`); the absent value is no agent's number (`NoneAssumption`).

### Avails

`AmountsCross` is about the operators alone: of the at most two entries that
`to_spec` mints, each is the last valued one of its target, and a float holds both
amounts exactly. The invariant follows the exchange: what the payload carries
(`Carried`), what the pricing is asked (`Asked`), what the answer says
(`Answered`) and what the buyer reads (`ReadBack`), each in terms of the buyer's
need. `Respond` needs `AmountsCross` to see that the price of the query is the
price of the need.

`TargetingIsCarried` is about one list flattened from as many as there are
dimensions, and taken apart again by name. `JoinsExist` and `JoinPlaces` say, by
induction over the number of lists, that a flattened list exists and where each of
its places comes from (`FlattenPlaces`); since no dimension is listed twice, the
places of one lie together and in order (`NameLiesTogether`), so that the `k`-th
of them is found `k` places on (`NthOfInterval`) and each dimension reads back as
it was (`DimensionIsReadBack`).

Assumed: catalogs, volumes and budgets are natural numbers, CPMs positive, budgets
floats (`CatalogAssumption`, `AmountsAssumption`); dimensions are listed once, as
`sorted` lists the keys of a dict, and a targeting names these (`TargetingAssumption`);
`None` is none of the values it is compared with (`NoneAssumption`). Nothing is
assumed of the entries other vendors send.

### What stays with TLC

Only model-checked: the conformance suite, whose claims are about the finitely
many vectors of the repository and are checked for all of them. Out of the
prover's reach: `EveryBuyerFinishes` and `TokenSettles`, which are liveness. What
they rest on is proved: that a scenario cannot go on for ever and how a
transaction ends, and which tokens a client can have. What TLC alone shows is that
a step can be taken whenever a buyer is not through, and that a client's token
does reach the end of its chain; both need `ENABLED`.

## 5. Not modelled, and the plan

Not modelled:

* the scenario assertions: they say of a finished run what `BuyerProperties` says
  of every state;
* the scenario's registration, trust and discovery calls: sandbox registry and
  scenario are modelled apart, since a scenario makes these calls one at a time
  before its first buyer runs;
* scalar types, value ranges, maximum lengths and enumerations of wire fields, which `pydantic`
  checks one field at a time; A2A message contents; event payloads;
* rendering: reports, exported documents, the generated schemas' text, the
  command line, the resolution of the client's backend and URL from the
  environment; timelines and timestamps;
* retried quote requests, the ignored `round_number` of a negotiation message, and
  the currency of a brief: fields the handlers never read. They are listed as
  hazards without a property, as are the registration a client repeats after a
  timeout and the iteration of the store that fails under a concurrent insertion.

Next:

* the sandbox registry composed with a scenario whose participants' trust is
  changed while its buyers run.

Every hazard, with its line and the properties that cover it, is in
`PROJECT.json`.
