# KrishiChain: a verification project

KrishiChain follows a lot of produce from the farm to the shop. Sensor nodes sign
readings and chain them by hash; a gateway verifies, stores, judges and batches them;
the root of every batch is anchored in a contract; a second contract holds the lots,
who has custody of them, and whether a breach was reported; web pages tell consumers
and operators of all of it. These modules model that path in TLA+, check it with TLC on
small instances, and prove with TLAPS the parts that do not depend on the instance.

Paths below are relative to the repository (`src/`).

## 1. The system

```
 leaf --radio--> head --HTTP POST /ingest--> gateway --JSON-RPC--> BatchAnchor, LotRegistry
                  ^                           | |  ^                      ^
                  '----- ackSeq --------------' |  '-- operator: /devices, /ops/*, scripts
                                                |                         | eth_call
                       broker <----MQTT---------+----HTTP---> consumer's page
                         |                      '----HTTP---> ops page
                       twins page
```

| component | state | operations | what is hard |
|---|---|---|---|
| `ActorRegistry.sol`, `LotRegistry.sol` | actors; per lot: lifecycle, custodian, parent, children, flag | register, revoke; create, aggregate, transfer, flag, finalize | order of reports and aggregations; the shape of the graph; revocation while custody is held |
| `packages/core/src/chain.ts` | none (pure) | `checkChain` | reordered, repeated, divergent and missing records |
| gateway `pipeline.ts`, `POST /ingest` | device directory, one chain state per device, the store, all in memory | register, revoke, ingest, acknowledge | restart forgets everything; retries |
| `companion.ts`, store | companions waiting for their record | observe, adopt | either may come first |
| `packages/core/src/consensus.ts` | per lot: observations, episodes, excursions | observe | late and replayed observations |
| gateway `store.ts`, badges | records, incidents, flags, node liveness | add, mark flagged, `lotState` | a badge joined from three pieces of state |
| gateway `chain.ts` (lot service), flag poll in `index.ts` | lots created and flagged, latched in memory; a transaction queue | `ensureLot`, `flagLot`, poll, recall | latches that outlive a failed write; state read before an await and used after it |
| gateway `batcher.ts`, `packages/core/src/merkle.ts` | open leaves, next index, previous root | add, close, resume; trees and proofs | restarts at 0 until it has asked the chain; odd trees |
| gateway `anchor.ts` | a state file of batch outcomes, the transaction queue | submit, reconcile, read the chain's head | every call may fail or time out after having had its effect |
| `BatchAnchor.sol` | the roots | anchor | the `prevRoot` check is all that orders batches |
| gateway `publisher.ts`, heartbeat, broker, dashboards | connection, retained messages, what a tab shows | publish, reconnect, subscribe, poll | dropped messages, restarts of each, answers that overtake each other |
| consumer's page (`apps/web/app/verify`) | a fetched lot and proof, a verification result | fetch, verify against the chain | the gateway moves on between its steps |
| `scripts/` | a list of requests each | simulate, seed, test end to end | runs on shared keys, beside each other, over a gateway that knows the last one or has restarted |
| firmware `chain.cpp` | next seq and previous digest in NVS | stamp, advance | power loss between append and advance, or inside the two-part save |
| firmware `ringbuffer.cpp` | slots in NOR flash, head, tail, count | append, peek, release, reopen | wrap-around over unreleased records; torn writes; reopening |
| firmware `uplink.cpp`, `node-head/main.cpp` | the POST in flight | sample, upload, release | timeouts of requests that are served all the same |
| `node-leaf/main.cpp`, `failover.h`, `link/espnow.cpp` | which way records go; a receive queue | broadcast, heartbeat, switch | two ways to the gateway; an interrupt context |
| `DeviceRegistry.sol`, encoding, deployment, Android | | | see section 7 |

Interactions. The head's loop is one thread: it samples, then uploads, and waits for
the answer. The gateway is one Node.js process: a handler runs to its next `await`
undisturbed, and anything may run while it waits. Gateway and chain share nothing but
RPC calls; the gateway's two writers share one transaction queue. Nothing in the
gateway but the anchor state file survives a restart. The pages share nothing with the
gateway but what they fetched or were sent; only the consumer's page reads the chain.

What makes each part correct, in short: evidence once given is not lost (records,
companions, flags, parents), nothing is claimed that is not so (`ANCHORED`, `VERIFIED`,
`FLAGGED`, online), nobody is accused by a retry, and what should be noticed is noticed
(gaps, corroboration, silence). `PROJECT.json` lists the hazards at their lines.

## 2. The modules

| module | models | state and actions |
|---|---|---|
| `ActorRegistry` | `ActorRegistry.sol` | `actorStatus` is the record's `registeredAt` and `active` together; `RegisterActor`, `RevokeActor` |
| `LotRegistry` | `LotRegistry.sol` | one function of `LotId` for each field; one action per transaction; a revert is a disabled action |
| `LotRecall` | `GET /lot/:lotId/recall` and the walks of `chain.ts` | operators over the state of `LotRegistry` |
| `LotService` | `LotService` and `TxQueue` of `chain.ts`, `handleFinding`, the flag poll, over `LotRegistry` | a job of the queue is one call, its `step` the await it is at; transactions wait in a mempool |
| `HashChain` | `chain.ts` | operators only: `Verdict` and `NextChain` are `checkChain` |
| `Verifier` | `pipeline.ts`, the storing part of `/ingest` | the directory, `chain`, the store `log`; `Ingest(r)` is one record's turn, `RestartGateway` forgets |
| `Consensus` | `consensus.ts` | operators only: an engine's state goes in, its next one and the findings come out |
| `Evidence` | companions, the store's part of `/ingest` and `/companion`, over `Consensus` | a POST of one record or one companion is one action |
| `DeviceUplink` | a node and the gateway: `chain.cpp`, `main.cpp`, `uplink.cpp` over `Verifier` | `Sample` and `Advance` are two steps because power may fail between them; `Upload`, `ServePost`, `HandleReply` are the three ends of a POST, `GiveUp` its timeout; a body the JSON buffer cuts off is answered 400 |
| `RecordBuffer` | what a node's buffer promises (abstract) | write, overwrite the oldest, acknowledge |
| `RingBuffer` | `ringbuffer.cpp` on NOR flash, and its caller in `main.cpp` | a slot is blank, torn or holds a record, with its magic and its state byte; `AppendRecord`, `AppendFails`, `PowerCut`, `Release`, and `Reboot`, which finds head, tail and count again by `begin` |
| `BatchAnchor` | `BatchAnchor.sol` | the roots; `ExecuteAnchor` |
| `AnchorLog` | what anchoring promises (abstract) | close, commit once, report what is committed, forget a report, also for another of its index; `owed` counts the batches of a root that are closed and not committed |
| `Anchoring` | `batcher.ts`, `anchor.ts`, start-up and badge rule of `index.ts`, over `BatchAnchor` and `MerkleTree` | one action per stretch between two awaits; `job.step` names the await `anchorOne` is at; `RpcError` is its catch |
| `MerkleTree` | `merkle.ts`, `verifyInclusion` | operators only: trees, proofs, verification over symbolic hashes |
| `Badges` | `badgeFor` | the precedence of the badges |
| `LotPage` | the store's records and flags, proofs, `lotState`, `publishLot`, the consumer's page, over `Anchoring` and `Badges` | each step of `Anchoring`, failing calls and restarts included, with what it publishes (`Ingest`, `AnchorAndPublish`, ...); `FetchLot`, `FetchProof` and `Click` are the page's steps, and the gateway may serve any index and path beside the honest ones |
| `LiveFeed` | node liveness, `publisher.ts`, the broker, the twins page, the ops page | one action per publishing handler, per outage, per message; time in heartbeat periods |
| `Journey` | the breach rule, chart and timeline of the web pages, `epcis.ts` | operators only, over a lot's readings |
| `ScriptGateway` | the gateway's routes as the scripts meet them, its transaction queue, the flag poll, and both contracts, over `Evidence`, `HashChain`, `Badges`, `Journey` | one action per request; `RunJob` is one job of the queue, from its first call to its outcome; `PollFlags`; `RestartGateway`, with the contract's head read or not |
| `Scripts` | `sim-swarm.ts`, `sim-node.ts`, `seed.ts`, `e2e-demo.ts` | a script is a list of requests per round, computed from its options, to the gateway and, where the script does so, to the contracts (`aggregate`, the wait for a lot, `getRoot` and `verifyInclusion`) |
| `MC*` | | the instances |
| `LotRegistryProofs`, `AnchoringProofs`, `LotServiceProofs`, `LotPageProofs`, `LiveFeedProofs`, `EvidenceProofs`, `DeviceUplinkProofs`, `RingBufferProofs` | | theorems about the module named, section 5; those about `Verifier` open `DeviceUplinkProofs` |

Abstractions that matter:

- Digests and signatures are opaque. A record has the fields `checkChain` reads
  and whether its signature verifies; in `Evidence` also those the rules engine reads,
  a temperature being in range, out of it, or faulted.
- Hashes are symbolic: the hash of a pair is the tagged set of the two, since pairs are
  sorted before they are hashed. A root is the tree `merkle.ts` builds from the leaves, in
  `Anchoring` and `LotPage` as in `MerkleTree`. Only `ScriptGateway` lets a batch's set
  of leaves stand for its root: `LotPageProofs` shows that a proof leads to the root from
  a leaf of the batch (`ProofLeadsToRoot`) and from nothing else (`OnlyLeavesProve`).
- The calls that store a record (`addRecord`, `batcher.add`, the rest of the loop)
  have no `await` in between, so `/ingest` is one step per request in `DeviceUplink`
  and one per record elsewhere, where no one asks what runs in between.
- `_flagCount` is the set of lots with a count; children arrays are sets. `DELIVERED`
  is in the enum and is never set.
- The loop of `flagLot` is the least set closed under `parent`. On a cycle it does not
  end, the transaction runs out of gas and reverts: `FlagLot` is disabled there.
- In `DeviceUplink` the JSON buffer of a POST is a number of records, `BodyRecords`. In
  the code it has 32128 bytes (`uplink.cpp:64`), the head of the body takes 69 and a record
  338, so that 94 of a batch of 100 fit. What the second `snprintf` writes where the text
  is already longer than the buffer is not modelled: the body is malformed either way.
- In `DeviceUplink` the ring buffer is a sequence of records whose slots are written in
  turn and erased a sector at a time (one slot to a sector in the instance). The flash
  under it is `RingBuffer`'s, where a write may clear bits only: what is written over
  other bytes is torn. There, what a cut-off write leaves without a magic counts as torn
  however many bytes there are, and erasing and reading never fail.
- A transaction that would revert is not sent: the client estimates gas, against the
  latest or the pending block as the node is made, and both are allowed. One that is
  sent may still revert when it is mined: the anchor service reads the status of its
  receipt, the lot service does not, so a reverted transaction ends a job of
  `LotService` like one that took effect.
- One `reconcile()` and one flag poll run at a time. The code does not prevent two
  `reconcile()`s asked for in quick succession, nor a poll that outlasts its timer.
- Batches and lot writes share a queue in the code. `Anchoring` and `LotService` each
  have it alone: a job of the other only delays theirs.
- `LiveFeed` keeps, of several messages of one topic, the newest; record and companion
  messages, which nothing retains, are left out.
- In `Scripts` a record of `sim-node` stands for ten, a digest is device, run and seq,
  and e2e-demo's requests, the flag poll and restarts come before the rounds `Meetings`
  of another script, or when none runs. A restart comes under one script at a time; e2e-demo is followed no
  further after one under it, since its lots are gone. A job of the transaction queue is one
  step and no call of it fails; failures and the awaits inside a job and inside the flag
  poll are `LotService`'s and `Anchoring`'s. Transactions are mined while a script waits
  for one, or when none runs, and any may come too late. Shipments are not loaded on
  others: deeper graphs are `LotRegistry`'s.

Some operators are marked as variants. No action uses them: each is a plausible slip
in the definition that follows it, and a run repeated with it must fail.

## 3. What is checked

| run | instance | shows |
|---|---|---|
| `lots_graph` | one actor, three lots and the zero lot | over all aggregation graphs on four lots, cycles included: parents and children agree (`FamilyConsistent`), every flag goes back to a report (`FlagIsTraceable`), the parent of a reported lot is flagged whatever came first (`ReportedTaintsParent`), a recall from a flagged lot leads to its cause and one from the cause to the lot (`RecallFindsCulprit`), and no transaction erases evidence (`EvidencePermanent`) |
| `lots_custody` | two actors, two lots, two signatures | custody is accepted by its holder (`NoUnsolicitedCustody`); lots of an inactive holder stand still (`InactiveCustodianFrozen`) |
| `verifier` | two devices, nine records: two histories, a false genesis, an orphan, a forgery | accepted records form linked runs (`AcceptedIsLinked`), no seq is missing in silence (`OmissionIsVisible`), over every order of arrival and with restarts |
| `evidence` | two nodes and a camera, six records, four companions, window 2, sustain 3 | a flag rests on corroboration or on one device warm twice (`FlagIsWarranted`); independent signals are found whatever order they come in (`CorroborationIsFound`); a companion waits for its record (`NoWitnessLost`) |
| `uplink` | four readings, three slots, batches of three of which a body holds two, one late request, one damage, one restart | what a node frees was stored (`FreedWasStored`); retries accuse nobody (`RetriesAreHarmless`); what is buffered arrives, or the backlog has outgrown a body for ever (`BufferedIsStored`) |
| `buffer` | a node that relays nobody; two sectors of two slots, eight writes at most, two faults, two reboots | `RingBuffer` implements `RecordBuffer` (`KeepsItsPromise`): whatever fails or is cut off, only records of the oldest sector are lost and nothing acknowledged comes back; what is offered is in the order it was written (`DrainsInOrder`) |
| `anchoring` | two records with retries, batches of up to two, one restart | `Anchoring` implements `AnchorLog` (`AnchorsOnce`): nothing is committed twice or reported too early; what is called `ANCHORED` has been committed (`AnchoredIsCommitted`), at the index its proofs name (`AnchoredIsInPlace`); `FAILED` is never said of what is there (`FailedIsNotThere`); no batch is skipped (`NoBatchSkipped`); a batch that landed unnoticed is found by the `reconcile()` that looks for it, whatever interferes, unless a call of it fails (`LandedIsReported`) |
| `flags` | a crate and a truck, one failed call or restart, one transaction of somebody else | what is shown flagged has a breach or the chain's flag behind it (`ShownIsWarranted`); a breach is on its way or on chain unless a call failed (`BreachIsCarried`); what the chain condemned is shown in the end (`CondemnedIsShown`) |
| `page` | a record of each of two lots, either perhaps repeated, batches of up to two, failing calls, one restart, honest and made-up proofs | what the page calls verified is a leaf of a committed batch, whatever the gateway served (`GreenMeansCommitted`); an honest record with its honest proof is never called invalid once its root could be read (`HonestIsGreen`); page and gateway agree on badges (`BadgesAgree`); `VERIFIED` means under a root on chain (`VerifiedIsCommitted`); the retained badge is current (`LiveIsCurrent`) |
| `feed` | a node, a lot, two outages, restarts or commands, two answers in flight | the broker calls a node online at most the deadline of 5 s and one heartbeat of 2.5 s after it fell silent (`OnlineIsRecent`); a dead node goes grey (`SilenceShows`); lots and the ops summary end up as they are (`LotsArrive`, `SummaryCatchesUp`) |
| `scripts` | five command lines of the docs, two runs in any order, the end-to-end test beside them, one restart | only what was to breach is flagged, in the store and on chain, the poll's flags included (`OnlyBreachesFlag`), and all of it is, from the warm crate on to its truck (`BreachIsFound`); a dropped record is noticed (`DropIsNoticed`); no check of the end-to-end test fails, those against the contract included, but behind a gateway that did not read the contract's head (`E2ePasses`); pages and EPCIS tell of every breach and hole (`EveryViewTells`) |
| `lots_taint` | | a disagreement, below |

Why these bounds. Four lots (the zero lot is one) hold a chain of three, a
fork, a self-loop and a cycle of two or three with a lot beside it. Two histories that part after
the genesis record and meet again nowhere are the least with a tip, a stale divergent
record and an orphan. The records of `evidence` are warm twice with and without a
reading in range between, by a clock that was set and by one that was not, with a lid
opened within and outside the window, a companion with and without its numbers, and a
record of no lot. Four readings in three slots wrap once and leave records of both
sides of the gap. Two sectors of two slots are the least with a first and a later slot in
each; six appends and two cut-off ones go round them twice, and the second fault or
reboot finds what the first one left. One of each fault of `uplink` is enough to meet
every retry, and two of a kind only repeat one. A body of two records in batches of three is outgrown by
the third reading and holds more records than can be damaged. Two leaves and three adds give batches of equal and of different
roots, before and after a restart. One fault meets each await of `LotService`, and with
the latches set by it nothing a second one could do is new. In `page` two records and
their retries make batches of one and two, of equal and of different roots and at one index
before and after the restart; trees with a promoted node, of three leaves and more, are in
reach of the proofs only. Two events let an outage meet a restart or a command;
`OfflineAfter` is the 5 s of the code in periods of 2.5 s. Two runs of scripts are the
least in which one meets the chain state of another; the options are those the
documents use, shortened to few rounds; the others act before round 2 of a script, where the swarm drops
its record, and round 5, where a breach is under way, or between scripts; and `DeviceLimit` is 8 for the 100 of
`index.ts:808`, less than a run of the seed posts.

`BufferedIsStored` holds until the backlog comes to more records than a body holds
(`Clogged`): from then on the same batch is cut off, answered 400 and posted again, for
ever, and the records in it and behind it stay until they are overwritten. It also needs a body
that holds more than the number of damaged records: the window of an upload starts at the oldest
unreleased record, so refused records that fill it would block the rest.

### Where code and documentation part

The run `lots_taint` checks a sentence of the repository and TLC finds it violated: "a
tainted child taints every parent it has been rolled into" (`LotRegistry.sol:178`). A
crate flagged before it is rolled into a pallet that is already on a truck leaves the
truck clean, because `aggregate` taints one level where `flagLot` taints all.

The modules state more sentences that the code does not meet. They are in no run;
each fails when it is added to the `.cfg` of its module's run.

| property | sentence | what happens |
|---|---|---|
| `LotRegistry!NoLotInItself` | "a cycle should be impossible" (`chain.ts:251`) | two lots rolled into each other; neither can be flagged from then on |
| `Verifier!DivergenceIsVisible` | a `seq` at or below the last is a fork unless the digest matches (`PROTOCOL.md:85`) | below the newest seq the digest is not compared |
| `DeviceUplink!LostAdvanceIsIdempotent` | a crash between append and advance "replays one record, which is idempotent on the gateway" (`chain.h:10`) | the next reading has the same seq and other bytes: `CHAIN_FORK` |
| `DeviceUplink!AckIsBehindStore` | the acknowledgement "must never run ahead of what we stored" (`pipeline.ts:136`) | after the same crash a reading is freed by the acknowledgement of the other one with its seq |
| `DeviceUplink!BacklogDrains` | "up to 100 records per request. The node drains its buffer oldest-first" (`PROTOCOL.md:148`); a malformed batch is dropped (`uplink.h:8`) | a batch of 95 or more outgrows the JSON buffer (`uplink.cpp:64`), is refused as malformed, not dropped, and posted again for ever |
| `RingBuffer!TornIsSkipped` | "a torn write fails CRC and the slot is skipped on recovery" (`ARCHITECTURE.md:130`) | the head stays at the torn slot and the next record is written over it: it is offered, and no CRC fits |
| `RingBuffer!RebootFindsItsPlace`, with `Device = {node, leaf}` | "scan flash ring buffer, find head/tail" (`ARCHITECTURE.md:120`) | the slot of the greatest seq is taken for the newest, whichever device wrote it; the next record is written over a newer one |
| `RingBuffer!DrainsInOrder`, with `Device = {node, leaf}`, `MaxRecords = 7`, no faults | "drain buffer oldest-first" (`ARCHITECTURE.md:124`) | a sector whose records are all released is erased without moving the tail in it: the newest record is offered first, a gap to the gateway. With two devices `count` also reaches 0 with unreleased records left |
| `Anchoring!AnchoredHasLanded` | "until the anchor transaction confirms, nothing outside this process has committed to anything" (`index.ts:284`) | after a restart a new batch 0 is taken for the anchored batch 0 of before. `LotPage!VerifiedIsCommitted` without `Clear` fails likewise (`store.ts:302`) |
| `Anchoring!UnknownIsResolved`, under `OperatedSpec` | "reconcile on the next tick - step 2 will resolve it" (`anchor.ts:23`) | a batch whose send fails before it reaches the chain stays `PENDING` for ever: nothing sends it again, however often an operator asks |
| `Anchoring!LandedIsFound`, under `FairSpec` | the same line, and "safe to call on a timer" (`anchor.ts:331`) | no timer calls `reconcile()`: a batch that landed after a timeout stays `PENDING` until a restart or a `POST /ops/reconcile` (it is found under `OperatedSpec`, where an operator keeps asking) |
| `LotService!BreachReachesChain` | "un-latch so a later record can retry" (`chain.ts:339`) | `ensureLot` is called for a lot's first record only and `flagLot` only when `markFlagged` is new: after one failed call the lot is never flagged on chain |
| `Evidence!ConsensusIsIndependent`, records `MCSpan` | "different KINDS of signal from ... different devices" inside a window (`consensus.ts:15-16`) | kinds and devices are counted apart, around the newest signal: a lid and a warm reading of one device before another device's warm reading suffice, though no two of them are independent within a window |
| `Evidence!OneFindingPerEpisode`, records `MCBeside` | "one episode produces one finding rather than one per record" (`consensus.ts:123`) | the cool reading of a device beside it clears the lot's latch, and the device that is still warm is reported again |
| `Evidence!ExcursionIsUnbroken` | "back in range: this device's excursion is over" (`consensus.ts:190`) | not when the reading in range arrives after the warm one that follows it |
| `LotPage!FlagIsShown` | "FLAGGED: a breach was recorded" (`SWARM-API.md:200`) | the page derives its badge from the records and never reads the flag |
| `LotPage!PendingIsSaid` | "if status is not ANCHORED the page must say PENDING ANCHOR" (`index.ts:882`) | the page never reads the status of a proof: a root that is not on chain yet is an invalid proof to it |
| `LotPage!RefusedIsWrong` | "the record was altered after anchoring, or the gateway's proof was wrong" (`VerifyPanel.tsx:150`) | also said of the honest proof of a batch whose index the contract gave to another: one offered again by a gateway that restarted and began behind, or one lost beside a batch of the same root |
| `LiveFeed!OnlineMeansHeard` | "a dead node cannot tell you it is dead" (`SWARM-API.md:78`) | a command to a node makes it seen, silent or not |
| `LiveFeed!GreyWithinFive` | a silent node "must go grey on the dashboard within 5 s" (`index.ts:971`, `SWARM-API.md:44`, `sim-swarm.ts:24`) | the deadline is 5 s and is looked at every 2.5 s: it goes grey within 7.5 s |
| `LiveFeed!DeadTurnsGrey` | a silent node goes grey at all (`index.ts:971`, its "within 5 s" aside) | the broker retains "online" of a node that a restarted gateway no longer knows |
| `LiveFeed!LotsCatchUp` | "the dashboard catches up when the broker comes back" (`publisher.ts:10-11`) | a badge whose message was dropped is not published again until it changes |
| `Scripts!E2eAlwaysPasses` | "safe to run repeatedly against a gateway that is already holding state" (`e2e-demo.ts:13`); "a gateway restart must not rewind the batcher to index 0" (`index.ts:1061-1062`) | a gateway that restarted and could not read the contract's head begins at 0: until `anchorOne` has come to the new batch and found its index taken, it reports the status of the old one, and the root on chain is another |
| `Scripts!DropIsAlwaysNoticed` | a second run with `--gap-at` shows the gap (`docs/DEMO-SCRIPT.md:154-160`) | it starts the chains at seq 0 again: its records are duplicates and forks to a gateway that knows the first run |
| `Scripts!ShadeCoversBreach` | the chart shades the breach window (header of `ColdChainChart.tsx`) | the window's ends are looked up by seq, and a lot's devices share seqs: warm readings lie outside the shade |

Properties that pass are stated with the exceptions these imply, and each exception is
named: `SeqWasStored` in `FreedWasStored`; `Clogged` in `BufferedIsStored`;
`faults.lost = 0` in `RetriesAreHarmless`;
`Spoiled` in `RingBuffer` (a record written over the rest of a cut-off one, or a reboot
where the seqs do not order the slots: two devices, or a reused seq on both sides of the
end of the flash), after which the buffer is followed no further; `RootsDiffer` in
`FailedIsNotThere`, `AnchoredIsInPlace` and `NoBatchSkipped`, for a
record posted and batched again alone, which makes two batches of one root. There the
`prevRoot` check cannot tell the two apart: of three batches of one and the same record
the second may be lost and the third, reported `ANCHORED` at index 2, be on chain at
index 1. `AnchoredIsCommitted` has no exception. `HonestIsGreen` has `RootsDiffer` and
`Sole`, `VerifiedIsCommitted` and `LiveIsCurrent` have `Clear`, `E2ePasses` has
`resumed.behind`: an index that a restarted gateway offers a second time does not tell
which of two batches is meant, and `isAnchored` (`index.ts:293-297`) joins by index
alone. `LiveIsCurrent` allows one badge more: when a call of `anchorOne` fails after a
`reconcile()` found its batch, the outcome goes back to `PENDING`, publishes no lot, and
`VERIFIED` stays retained, which is still true of the lot. `GreenMeansCommitted` has no
exception: it does not rest on the gateway at all.

Smaller things met on the way: `seed` and then `sim` on one gateway (`RUNBOOK.md:50-52`)
gives `CHAIN_FORK`, as a second run of any simulator does; `sim-node --breach` does not
flag at its defaults; `sim-swarm --single-spike` warms the head, the leaf and the phone.

## 4. Fairness

- `DeviceUplink!Fairness`. The node's loop keeps running (`WF` on `Advance`, `Upload`);
  an operator commissions the device after a gateway restart (`WF` on `Commission`);
  the network is not down for ever: a POST opened again and again is served and its
  answer read once (`SF` on `ServePost`, `HandleReply`). Nothing makes the node sample
  and nothing forces a fault. A 401 does not stop uploads in the code
  (`main.cpp` 158-160 sets an LED only), whatever `PROTOCOL.md` section 3.4 says.
- `Anchoring!ReconcileFairness`. `reconcile()` runs at start-up and on
  `POST /ops/reconcile`, and no timer in the code calls it. The run assumes only weak
  fairness of one that is running: each of its calls returns or fails. Nobody is assumed to
  ask for one. `Anchoring!Fairness` and `OperatedSpec`, which are for the stated
  `UnknownIsResolved` and `LandedIsFound` only, add that blocks are made, the batch timer
  fires and calls made for ever succeed once, and an operator who keeps asking.
- `LotService`: weak fairness of the flag poll (`setInterval`), of the queue's running
  job and of mining. Faults are bounded and nothing forces them or breaches.
- `LiveFeed!Fairness`: weak fairness of time, the heartbeat timer, the MQTT clients'
  reconnection, the delivery of a message, the ops page's timer and the answers to it.
  Outages are bounded; nothing makes a node speak.

## 5. What is proved

`LotRegistryProofs`, for any sets of addresses and lots and any number of signatures,
from `LotIdAssumption`, `AddressAssumption` and `SignatureBound`:

- The inductive invariant `LotInv` is type correctness, `GraphInv`, `TaintInv` and
  `NoUnsolicitedCustody`. `GraphInv` strengthens `FamilyConsistent` with two facts it
  needs: a lot that does not exist yet has no parent, no flag and no report, and a parent exists.
  Without the first, `createLot`, which writes `parent` and `flagged`, could tear a lot
  out of its family or clear a flag.
- `AncestorChain` and `RolledInto` are least closed sets, not recursive operators, so
  that the one lemma about graphs of any size (`ChainHolds`: whoever is an ancestor of a
  lot has that lot rolled into it) is proved by giving the closed set.
- `TypeCorrect`, `GraphConsistent`, `NoFlagWithoutReport`, `ReportReachesParent`,
  `CustodyIsAccepted` follow from `LotInv`; `NothingIsErased` and `RevokedHoldsStill`
  are action properties proved under it.
- `RecallIsComplete`: in every reachable state that is `Shallow`, however many lots there
  are and however they were aggregated, `RecallFindsCulprit`. `Shallow` says that no lot
  has more than `MaxDepth` lots above it; it is needed because the walks of `chain.ts`
  stop after `maxDepth = 8` levels, and a deeper cause is not named. A walk up either
  stands still at some level, and is then closed under parents, or gains a lot at each,
  so that after eight it has all there are (`WalkUp`); the way down from the culprit is
  the way up, backwards (`WalkDown`). The report it leads to is the one `FlagIsTraceable`
  promises.

`DeviceUplinkProofs`, its first part, about `Verifier` alone, for any devices and any set
of records (`RecordAssumption`, `DigestAssumption`): the invariant `IngestInv` puts `TipIsStored` beside
`AcceptedIsLinked` and `OmissionIsVisible`. The tip is what makes the other two
inductive: a new record is accepted because it names the tip, so the tip has to be in
the store. `GatewayTypeCorrect`, `AcceptedRunsAreLinked` and `NoSilentOmission` follow.

`AnchoringProofs`, for any leaves, batches of any size, any number of batches and restarts,
from `LeafBound` (`MaxLeaves` is positive, which is all the code asks of
`BATCH_MAX_LEAVES`) and `ZeroRootAssumption` (no tree hashes to the zero root). First what is reported, by the inductive
invariant `AnchorInv`:

- `Shape`, the types of all the state the argument touches;
- `AwaitedIsNewest`: while `anchorOne` waits for a receipt, its transaction is the newest
  of the mempool. This is why a receipt may be believed: the service sends one
  transaction at a time, and what a timeout or a restart left behind is older;
- `SuccessIsCommitted`: a receipt of success means the root is in the contract. It needs
  `AwaitedIsNewest`, since the receipt is given when the mempool becomes empty;
- `AnchoredIsCommitted` itself, which needs the previous one for `ReadReceipt`, and only
  `HoldsAt` for `ReadCount` and `ReconcileOne`.

That the roots only grow (`RootsGrow`) carries every one of these facts over a step.
Then once, and in place:

- `OnceInv` counts: what waits, is being sent, is in the mempool or is on chain with a
  root never exceeds the batches closed with it. With it `AnchorsOnceAlways` shows that
  `Anchoring` implements `AnchorLog`, step by step; `owed` is the difference.
- `ProcessInv`: the batches of one process follow each other, and only a restart forgets
  the last. From it and `AnchorInv`, `NoBatchSkippedAlways`.
- `SlotsInv` and `RecordsInv`, which hold when no two batches have the same root (that is
  the exception `RootsDiffer` of the properties): a transaction lands at the index of its
  batch or not at all, because the batch whose root it extends has the index before; and
  every outcome in the state file rests on evidence the chain cannot take back.
  `AnchoredIsInPlaceAlways` and `FailedIsNotThereAlways` follow.

`LotServiceProofs`, for any lots, faults and restarts and whatever others do on chain,
from `ServiceAssumption`: `ServiceRunsRegistry` shows that every behaviour of the service
is one of `LotRegistry`, so that module's theorems hold beside it
(`ServiceFlagsAreTraceable` is one carried over). `ServiceInv` says why a `flagLot`
cannot fail for want of its lot: the job that opens the lot is ahead of it in the queue
(`OpenedFirst`), a job leaves the queue when its transaction took effect or was dropped
(`ReceiptCounts`), and a `flagLot` is only sent for a lot that exists
(`SentFlagsExist`). `ShownIsWarrantedAlways` and `BreachIsCarriedAlways` follow.

`LotPageProofs`, for batches of every size, any number of records and restarts and any
made-up proofs, from `LeafBound`, `ZeroRootAssumption` and `PageAssumption` (digests are
not hashes of pairs). The first part is about `merkle.ts` alone: `ProofLeadsToRoot`, that
the proof of every leaf of every tree verifies against its root, promoted nodes included,
and `OnlyLeavesProve`, that by no path at all does anything else; both by induction over
the levels. Then every step is shown to be one of `Anchoring`'s (`StepIsAnchorings`), so
that the invariant of `AnchoringProofs` holds too (`FullInv`). `LotPageInv` adds to it:

- `CountsInv`: batches waiting, in hand, sent and on chain are never more than were
  closed, nor these than records were added. So an index always names a slot of the state
  file, and of the contract's roots each is a batch's;
- `BooksInv`: the proofs map points at a closed batch with the record, the roots on chain
  are those of closed batches, the state file speaks of closed batches;
- `PageInv`: the page's verdict is that of the leaf and path it has and the root it read;
- `LiveIsCurrent` itself, by the steps that publish.

`GreenMeansCommittedAlways` needs only `OnlyLeavesProve` of the tree, and nothing of the
gateway. `HonestIsGreenAlways`, `BadgesAgreeAlways`, `VerifiedIsCommittedAlways` and
`LiveIsCurrentAlways` follow.

`LiveFeedProofs`, for any nodes, outages, restarts and silences, from `FeedAssumption`:
`FeedInv` says that `lastSeenAt` is right about nodes no command has touched
(`SeenIsHeard`) and that the retained message is at most one heartbeat behind it
(`RetainedFollows`). `OnlineIsRecentAlways` follows: the deadline of 5 s and one heartbeat.

`EvidenceProofs`, for any devices, lots, records, companions and configurations of the
engine, from `EvidenceAssumption`, `ConfigAssumption` and `DigestAssumption` (no two
records have one digest):

- `NoWitnessLostAlways`, from `WaitInv`: a pool holds companions of its subject that
  have no lot yet.
- `FlagIsWarrantedAlways`, from `GroundedInv`, which adds that the engine's observations,
  latches and excursions all rest on what the gateway holds of the lot. A turn of the
  engine that is `Sound` keeps it.
- `CorroborationIsFoundAlways`, from `HeardInv`: no trusted claim is forgotten while it
  could still corroborate, and no independent pair went unnoticed. This one assumes
  `TwoAreEnough`, at most two kinds of signal and two devices: with more, a pair is not a
  breach. They are the defaults of `consensus.ts:118-119`, which `index.ts:174` leaves.

`DeviceUplinkProofs`, its second part, for a buffer, batches and a history of any length,
any number of requests given up and served late, and any restarts, from `NodeAssumption` and
`BufferAssumption`. `ShapeInv` says what is where: the buffer is in the order of seq and
digest, what is on its way and what was stored is not newer than the node's seq.

- `FreedWasStoredAlways`, from `FreedInv`. What lies behind a stored record is accounted
  for (`BehindIsAccounted`); a request served keeps this because a batch on its way
  carries, with each of its records, whatever the buffer holds before it, unless it is
  accounted for by now (`BatchIsWhole`); so an acknowledgement in flight is safe
  (`AckIsSafe`). It assumes `FewDamaged`, a batch longer than the number of records
  damaged: of a batch of damaged records nothing is stored, the gateway's `?? 0`
  acknowledges seq 0, and an intact record of that seq behind the batch would be freed.
- `RetriesAreHarmlessAlways`, from `RetryInv`, without that assumption. While no advance
  was lost, the record of seq n names the one before it and is the only one of its seq
  (`LinkedInv`), so a record judged is a duplicate, the next one or a gap. While nothing
  else happened either, every reading above the gateway's tip is in the buffer, and every
  batch on its way is `Whole` above it (`WholeInv`), so it is no gap.

`RingBufferProofs`, for a flash of any number of sectors and slots and any number of
records, faults and reboots, from `RingAssumption` and `Alone`, that the node relays
nobody. `Alone` is what makes the properties true: with a leaf `DrainsInOrder` fails
(section 3), because `releaseThrough` leaves holes between the records of several devices
and `begin` takes the greatest seq of any device for the newest record.

- `LogInv`: records are written in the order of their seq and, where a seq is used again,
  of the attempt.
- `Window` is the invariant. The `count` slots from `tail` on, around the end of the
  flash, hold the newest `count` records of the log, oldest first, and end before `head`;
  nothing else is live. Whatever else is on the flash was written once, which is what `begin`
  relies on, and from `head` to the end of its sector nothing has been completed since the erase
  (`Fresh`), so a record cut off there was no record yet.
- One lemma for each thing the code does to a window: making room cuts a whole sector off
  its old end or nothing (`RoomIs`, through `EraseCuts`), and never more than leaves
  `TotalSlots - SlotsPerSector` records; a completed record extends it (`CompleteIs`); what a
  failed write leaves does not touch it (`PartialIs`); `begin` finds it again where the
  seqs order the slots (`FoundIs`); a release cuts its old end (`ReleaseIs`).
- `DrainsInOrderAlways`: the walk of `peekCanonical` over a window gives the end of the
  log (`OfferedIs`, `DrainIs`).
- `KeepsPromise`, the refinement of `RecordBuffer`: what is gone is what lies before the
  window (`GoneIs`), so it maps to a prefix of the log. A step that writes or loses moves
  the prefix by a sector at most (`KeptIsPromised`), a release moves it to the seq
  acknowledged (`ReleaseIsPromised`).
- `SpoiledByFaultsOnly` bounds the exception `Spoiled` of the other two: a buffer without
  faults never meets it, and `begin` is misled only if two written records share a seq.
  `HistoryInv` says why: no two slots hold the same record intact, and no slot is torn
  before the first fault.

Induction. The library's induction theorems take an operator as a parameter and cannot
be used, but the least-element principle of a well-founded relation can: the proof
modules that need induction over the naturals state it for sets (`InductSet`: a set of naturals with 0
and closed under successor is all of them). Recursion is written as recursive functions
in the modules proved about (`MerkleTree`, `Adopted` of `Evidence`, `Walk` of `LotRecall`,
`Without` and `IngestAll` of `DeviceUplink`, `Only` of `RingBuffer`), and a lemma each
(`WalkIs`, `WithoutIs`, `IngestAllIs`, `OnlyIs`) gives their equations.

## 6. Only model-checked

- Liveness (`BufferedIsStored`, `LandedIsReported`, `CondemnedIsShown`, `SilenceShows`,
  `LotsArrive`, `SummaryCatchesUp`) and `ENABLED` are out of the prover's reach.
- The ring buffer of a head with leaves, and what a spoiled buffer does, are neither
  proved nor followed by a run; the sentences of section 3 say what goes wrong there.
- `Scripts`: its request lists are computed by folds and recursive operators, which the
  provers do not see through. What `Consensus` (apart from what `EvidenceProofs` says of a turn) and
  `Journey` compute is checked over the inputs of their runs.
- A recall in a graph deeper than `MaxDepth`, which the code cuts short by design.
- Type invariants are stated in the modules; those of `LotRegistry`, `Verifier` and
  `Anchoring` are proved as they stand, the others as the `Shape` parts of the inductive
  invariants. No run repeats them.

## 7. Not modelled

- Byte layout and cryptography (`record.ts`, `crypto.ts`, `companion.ts`, `record.cpp`,
  `identity.cpp`, `frame.cpp`): out of a model checker's reach. Digests, signatures and
  hashes are opaque or symbolic.
- `DeviceRegistry.sol`: the gateway does not read it, its directory is in memory.
- Layout of the web pages, maps and trends, the label page, the Android client: no state
  that another part reads.
- Deployment scripts: run once.
- Statistics of the ring buffer other than `count`, `verifyRun`, and schema refusals (400)
  of the gateway but that of a body its sender cut off.
- The leaf, the camera's loop, the radio and the sampling period: the plan below.

## 8. Plan

1. `LeafLink`: broadcast, heartbeat acknowledgement, failover, the receive queue, and a
   revoked leaf's records in the head's buffer, over `RingBuffer` with two devices.
2. `DeviceRegistry`, sampling and heartbeat tracking as pure functions against reference
   definitions.
