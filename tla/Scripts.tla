------------------------------ MODULE Scripts --------------------------------
(***************************************************************************)
(* The repository's scripts against one gateway: scripts/sim-swarm.ts,     *)
(* sim-node.ts and seed.ts, which share keys, one after another, and       *)
(* e2e-demo.ts beside them; the gateway may restart under any of them.     *)
(*                                                                         *)
(* A script is a list of requests per round, computed from its options.    *)
(* Every device that is alive emits one record a round, so its seq is the  *)
(* round, and a digest is device, run and seq.  Temperatures are in tenths *)
(* of a degree, times in seconds; humidity, battery, BOOT and BUFFERED     *)
(* are left out.  A record of sim-node stands for ten of the code's.       *)
(***************************************************************************)
EXTENDS ScriptGateway

CONSTANTS Options,        \* the command lines that are used
          StepSeconds,    \* --step
          Pauses,         \* seconds before a script is started
          Meetings,       \* bound: rounds before which the others act
          MaxRuns,        \* bound: scripts started
          MaxRestarts     \* bound: gateway restarts

VARIABLES clock,          \* wall clock
          runs,           \* the simulators' runs, oldest first; the last may be running
          job,            \* where the running one is: a round, and a request of it
          e2e,            \* where e2e-demo is, and the checks that failed
          restarts        \* gateway restarts so far

vars == <<gatewayVars, clock, runs, job, e2e, restarts>>

Never == -1
DemoLot == "demo"

-----------------------------------------------------------------------------
(* Requests.                                                               *)

Commission(d) == [kind |-> "device", dev |-> d]

Digest(d, id, n) == IF n < 0 THEN ZeroDigest ELSE <<d, id, n>>

(* emit, build: the next record of a device's chain, signed.               *)
Emit(d, id, n, lot, ts, t, flags) ==
  [dev |-> d, seq |-> n, prev |-> Digest(d, id, n - 1), digest |-> Digest(d, id, n),
   signed |-> TRUE, at |-> ts, synced |-> TRUE, lot |-> lot, t |-> t,
   temp |-> IF t > TempMax THEN "hot" ELSE "ok", flags |-> flags]

PostOf(record) == [kind |-> "ingest", rec |-> record]

(* witness: an attestation of a device about another's record.             *)
Witness(d, n, subject, ts, flags, numbers) ==
  [kind |-> "companion",
   companion |-> [dev |-> d, seq |-> n, subject |-> subject, at |-> ts, flags |-> flags,
                  digest |-> <<d, n, subject, "companion">>, imu |-> numbers,
                  shown |-> numbers # "none", lies |-> FALSE]]

FlushBatch == [kind |-> "flush"]

(* Math.round(Math.sin(n / 6) * 4) and (n / 8), for n up to 12 and for     *)
(* every tenth n up to 110.                                                *)
SwarmWobble == <<0, 1, 1, 2, 2, 3, 3, 4, 4, 4, 4, 4>>
NodeWobble == <<0, 4, 2, -2, -4, 0, 4, 2, -2, -4, 0, 4>>

-----------------------------------------------------------------------------
(* sim-swarm.ts                                                            *)

SwarmNodes == <<"HEAD", "LEAF", "CAM", "PHONE">>

SwarmTemperature(o, round) ==
  LET base == 40 + SwarmWobble[round + 1]
      half == o.count \div 2
      ramp == base + 30 * (round - half)
  IN CASE o.scenario = "spike" -> IF round = half THEN 210 ELSE base
       [] o.scenario = "breach" /\ round >= half -> IF ramp < 260 THEN ramp ELSE 260
       [] OTHER -> base

BreachRounds(o) == {round \in 0 .. o.count - 1 : SwarmTemperature(o, round) > TempMax}

FirstBreachRound(o) == IF BreachRounds(o) = {} THEN Never ELSE Min(BreachRounds(o))

HeadAlive(o, round) == o.kill = Never \/ round < o.kill

(* The witness's verdict on the lid, while the breach is young.            *)
LidOpen(o, round) ==
  LET first == FirstBreachRound(o)
  IN o.scenario = "breach" /\ first # Never /\ round \in first .. first + 2

Shock(o, round) == o.scenario = "breach" /\ round = FirstBreachRound(o)

Subject(o, round) == IF HeadAlive(o, round) THEN "HEAD" ELSE "LEAF"

SwarmRound(o, id, start, round) ==
  LET now == start + StepSeconds * round
      t == SwarmTemperature(o, round)
      Reads(d, reading) == PostOf(Emit(d, id, round, DemoLot, now, reading, {}))
      subject == Digest(Subject(o, round), id, round)
  IN When(HeadAlive(o, round), <<Reads("HEAD", t)>>)
       \o When(round # o.gap, <<Reads("LEAF", t + 3)>>)
       \o <<Reads("PHONE", t + 1)>>
       \o When(round % 3 = 0 \/ LidOpen(o, round),
               <<Witness("CAM", round, subject, now, IF LidOpen(o, round) THEN {"LID"} ELSE {}, "none")>>)
       \o When(Shock(o, round), <<Witness("PHONE", round, subject, now, {"SHOCK"}, "strong")>>)

SwarmRequests(o, id, start, round) ==
  CASE round = Never -> [i \in DOMAIN SwarmNodes |-> Commission(SwarmNodes[i])]
    [] round = o.count -> <<FlushBatch>>
    [] OTHER -> SwarmRound(o, id, start, round)

-----------------------------------------------------------------------------
(* sim-node.ts: HEAD's key and sim-swarm's lot.                            *)

NodeTemperature(o, n) ==
  LET base == 40 + NodeWobble[n + 1]
      climb == 22 * (n - o.count \div 2)
  IN IF o.scenario = "breach" /\ 2 * n >= o.count THEN Min({base + climb, 280}) ELSE base

NodeRecord(o, id, start, n) ==
  Emit("HEAD", id, n, DemoLot, start + (5 * n) \div 2, NodeTemperature(o, n),
       IF n = o.tamper THEN {"LID"} ELSE {})

Sends(o, n) == n # o.offline /\ n # o.gap

(* What a POST carries: its record and all that were held since the last.  *)
Buffered(o, n) == {m \in 0 .. n : m # o.gap /\ \A k \in m .. n - 1 : ~Sends(o, k)}

NodeRequests(o, id, start, n) ==
  LET records_ == SetToSortSeq(Buffered(o, n), <)
  IN CASE n = Never -> <<Commission("HEAD")>>
       [] n = o.count -> <<FlushBatch>>
       [] OTHER -> When(Sends(o, n), [i \in DOMAIN records_ |-> PostOf(NodeRecord(o, id, start, records_[i]))])

-----------------------------------------------------------------------------
(* seed.ts: three farms and their truck, on the swarm's keys.              *)

Farm(d, lot, count, delay) == [dev |-> d, lot |-> lot, count |-> count, delay |-> delay]

Farms == <<Farm("HEAD", "kadam", 12, 0), Farm("LEAF", "pawar", 12, 0),
           Farm("CAM", "shinde", 12, 0), Farm("PHONE", "truck", 8, 200)>>

FarmTemperature(farm, n) ==
  CASE farm.lot = "truck"                    -> 42 + (n % 4)
    [] farm.lot = "kadam" /\ n >= 6          -> 120 + 8 * n
    [] OTHER                                 -> 40 + (n % 5)

FarmRun(farm, id, start) ==
  <<Commission(farm.dev)>>
    \o [i \in 1 .. farm.count |->
          PostOf(Emit(farm.dev, id, i - 1, farm.lot, start - 3600 + farm.delay + 10 * (i - 1),
                      FarmTemperature(farm, i - 1), {}))]

(* A run for each farm, then the wait for its lots to be on chain, the     *)
(* aggregation and the flush.                                              *)
SeedRequests(id, start, round) ==
  CASE round \in 0 .. 3 -> FarmRun(Farms[round + 1], id, start)
    [] round = 4 -> [i \in DOMAIN Farms |-> [kind |-> "await", lot |-> Farms[i].lot]]
    [] round = 5 -> <<[kind |-> "aggregate", lot |-> "truck", crates |-> {"kadam", "pawar", "shinde"}]>>
    [] round = 6 -> <<FlushBatch>>
    [] OTHER -> <<>>

-----------------------------------------------------------------------------
(* e2e-demo.ts: requests, and what the answer to each must have.           *)

E2eId == 0
Ask(request) == [request |-> request, expect |-> <<>>]
AskFor(request, expect) == [request |-> request, expect |-> expect]

Send(d, n, lot, ts, t) == PostOf(Emit(d, E2eId, n, lot, ts, t, {}))

Forged(request) == [request EXCEPT !.rec.signed = FALSE, !.rec.t = 999]

E2eIngest(t0) ==
  << Ask(Commission("node")),
     AskFor(Send("node", 0, "lotA", t0, 40), [accepted |-> 1, ackSeq |-> 0]),
     AskFor(Send("stranger", 0, "lotA", t0, 40), [status |-> 401, accepted |-> 0]),
     Ask(Commission("tamperNode")),
     AskFor(Forged(Send("tamperNode", 0, "lotA", t0, 40)), [accepted |-> 0, reason |-> "BAD_SIGNATURE"]),
     Ask(Commission("gapNode")),
     Ask(Send("gapNode", 0, "lotA", t0, 40)),
     AskFor(Send("gapNode", 2, "lotA", t0 + 20, 40), [verdict |-> "CHAIN_GAP", accepted |-> 1]) >>

E2eRules(t0) ==
  << Ask(Commission("spikeNode")),
     Ask(Send("spikeNode", 0, "lotSpike", t0, 40)),
     AskFor(Send("spikeNode", 1, "lotSpike", t0 + 10, 210), [found |-> {}]),
     Ask(Send("spikeNode", 2, "lotSpike", t0 + 20, 41)),
     Ask(Commission("tempNode")),
     Ask(Commission("camNode")),
     Ask(Send("tempNode", 0, "lotBreach", t0, 40)),
     AskFor(Send("tempNode", 1, "lotBreach", t0 + 10, 200), [found |-> {}]) >>

Lying(request) == [request EXCEPT !.companion.lies = TRUE]

E2eWitness(t0) ==
  LET subject == Digest("tempNode", E2eId, 1)
  IN << AskFor(Witness("camNode", 1, subject, t0 + 12, {"LID"}, "none"), [found |-> {"CONSENSUS_BREACH"}]),
        AskFor(Lying(Witness("camNode", 2, subject, t0 + 12, {"SHOCK"}, "strong")), [reason |-> "PAYLOAD_MISMATCH"]) >>

(* The proof of the lot's first record, locally and, if it was anchored,   *)
(* against the contract; a leaf that was altered is proved by neither.     *)
E2eProofs ==
  << Ask(FlushBatch),
     AskFor([kind |-> "lot", lot |-> "lotA"], [stored |-> TRUE]),
     AskFor([kind |-> "proof", lot |-> "lotA"], [exists |-> TRUE, proves |-> TRUE, lies |-> FALSE]),
     AskFor([kind |-> "root", lot |-> "lotA"], [matches |-> TRUE, proves |-> TRUE, lies |-> FALSE]) >>

E2eBadges ==
  << AskFor([kind |-> "lot", lot |-> "lotBreach"], [badge |-> "FLAGGED"]),
     AskFor([kind |-> "lot", lot |-> "lotA"], [badge |-> "UNVERIFIABLE"]),
     AskFor([kind |-> "lot", lot |-> "lotSpike"], [flagged |-> FALSE]) >>

E2eSteps(t0) == E2eIngest(t0) \o E2eRules(t0) \o E2eWitness(t0) \o E2eProofs \o E2eBadges

E2eLast == Len(E2eSteps(0))

RootStep == CHOOSE k \in 1 .. E2eLast : E2eSteps(0)[k].request.kind = "root"

Met(expect, reply) == \A field \in DOMAIN expect : reply[field] = expect[field]

-----------------------------------------------------------------------------
(* Requests meet the gateway.                                              *)

Altered == <<"altered">>      \* the digest of a record that was tampered with

LotReply(l) ==
  [stored |-> entries[l] # <<>>, badge |-> Badge(l), flagged |-> l \in flaggedLots]

Sample(l) == IF entries[l] = <<>> THEN Altered ELSE Head(entries[l]).rec.digest

NoProof == [exists |-> FALSE, proves |-> FALSE, lies |-> FALSE, status |-> "none"]

(* The newest batch of the lot's first record, and what is said of it.     *)
ProofReply(l) ==
  LET known_ == BatchesWith(Sample(l))
      leaves == batches[Max(known_)]
  IN IF known_ = {} THEN NoProof
     ELSE [exists |-> TRUE, proves |-> Sample(l) \in leaves, lies |-> Altered \in leaves,
           status |-> AnchorFor(Max(known_))]

(* getRoot and verifyInclusion of the contract at the index the proof      *)
(* names; a proof leads to no root but its own batch's.                    *)
RootReply(l) ==
  LET i == Max(BatchesWith(Sample(l)))
      root == IF IndexOf(i) \in DOMAIN onChain.roots THEN onChain.roots[IndexOf(i)] ELSE NoRoot
  IN [matches |-> root = batches[i],
      proves |-> root = batches[i] /\ Sample(l) \in batches[i],
      lies |-> root = batches[i] /\ Altered \in batches[i]]

Reply(request) ==
  CASE request.kind = "ingest" -> IngestReply(request.rec)
    [] request.kind = "companion" -> WitnessReply(request.companion)
    [] request.kind = "lot" -> LotReply(request.lot)
    [] request.kind = "proof" -> ProofReply(request.lot)
    [] request.kind = "root" -> RootReply(request.lot)
    [] OTHER -> [status |-> 200]

Handle(request) ==
  \/ request.kind = "device" /\ PostDevice(request.dev)
  \/ request.kind = "ingest" /\ IngestOne(request.rec)
  \/ request.kind = "companion" /\ PostWitness(request.companion)
  \/ request.kind = "flush" /\ Flush
  \/ request.kind \in {"lot", "proof", "root"} /\ UNCHANGED gatewayVars
  \/ request.kind = "await" /\ request.lot \in onChain.lots /\ UNCHANGED gatewayVars
  \/ request.kind = "aggregate" /\ Aggregate(request.lot, request.crates)

-----------------------------------------------------------------------------
(* The simulators, one at a time.                                          *)

ScriptInit ==
  /\ GatewayInit
  /\ clock = 10000
  /\ runs = <<>>
  /\ job = [round |-> Never, k |-> 1]
  /\ e2e = [at |-> 0, start |-> 0, failed |-> {}]
  /\ restarts = 0

Running == runs # <<>> /\ Last(runs).state = "running"

Requests(n, round) ==
  LET o == runs[n].o
      start == runs[n].start
  IN CASE o.script = "sim-swarm" -> SwarmRequests(o, n, start, round)
       [] o.script = "sim-node" -> NodeRequests(o, n, start, round)
       [] o.script = "seed" -> SeedRequests(n, start, round)

LastRound(o) == IF o.script = "seed" THEN 6 ELSE o.count

NodesOf(o) == IF o.script = "sim-node" THEN {"HEAD"} ELSE ToSet(SwarmNodes)

Invoked == Len(runs) + (IF e2e.at = 0 THEN 0 ELSE 1)

(* fresh: the gateway holds no chain of its devices yet.                   *)
Start(o, pause) ==
  /\ ~Running
  /\ Invoked < MaxRuns
  /\ Invoked = 0 => pause = Min(Pauses)
  /\ clock' = clock + pause
  /\ runs' = Append(runs, [o |-> o, start |-> clock', state |-> "running", cut |-> FALSE,
                           fresh |-> \A d \in NodesOf(o) : chain[d] = Chain!EmptyChain])
  /\ job' = [round |-> IF o.script = "seed" THEN 0 ELSE Never, k |-> 1]
  /\ UNCHANGED <<gatewayVars, e2e, restarts>>

Ends(state) == runs' = [runs EXCEPT ![Len(runs)].state = state]

(* The next request: of this round, or of the first round after it that    *)
(* has any.                                                                *)
Proceed ==
  LET later == {round \in job.round + 1 .. LastRound(Last(runs).o) : Requests(Len(runs), round) # <<>>}
  IN IF job.k < Len(Requests(Len(runs), job.round))
     THEN job' = [job EXCEPT !.k = @ + 1] /\ UNCHANGED runs
     ELSE IF later # {}
     THEN job' = [round |-> Min(later), k |-> 1] /\ UNCHANGED runs
     ELSE Ends("done") /\ UNCHANGED job

(* sim-node stops at a 401 and flushes; the others never look.             *)
JobStep ==
  LET request == Requests(Len(runs), job.round)[job.k]
      o == Last(runs).o
  IN /\ Running
     /\ Handle(request)
     /\ IF o.script = "sim-node" /\ Reply(request).status = 401
        THEN job' = [round |-> o.count, k |-> 1] /\ UNCHANGED runs
        ELSE Proceed
     /\ UNCHANGED <<clock, e2e, restarts>>

(* seed gives up on a lot that is not on chain, and on a reverted          *)
(* aggregation.                                                            *)
SeedFails ==
  LET request == Requests(Len(runs), job.round)[job.k]
  IN /\ Running
     /\ Last(runs).o.script = "seed"
     /\ \/ request.kind = "await" /\ request.lot \notin onChain.lots
        \/ request.kind = "aggregate" /\ ~MayAggregate(request.lot, request.crates)
     /\ Ends("died")
     /\ UNCHANGED <<gatewayVars, clock, job, e2e, restarts>>

(* Bound: the others act before the simulator's rounds Meetings, whose     *)
(* requests are about other devices and lots than e2e-demo's, or when no   *)
(* simulator runs.                                                         *)
AtMeeting == Running => job.k = 1 /\ job.round \in Meetings

-----------------------------------------------------------------------------
(* Beside them.                                                            *)

E2eRunning == e2e.at \in 1 .. E2eLast

AtRoot == e2e.at = RootStep

E2eStart ==
  /\ e2e.at = 0
  /\ Invoked < MaxRuns
  /\ e2e' = [e2e EXCEPT !.at = 1, !.start = clock]
  /\ UNCHANGED <<gatewayVars, clock, runs, job, restarts>>

E2eStep ==
  /\ E2eRunning
  /\ AtMeeting
  /\ LET step == E2eSteps(e2e.start)[e2e.at]
     IN /\ AtRoot => ProofReply(step.request.lot).status = "ANCHORED"
        /\ Handle(step.request)
        /\ e2e' = [e2e EXCEPT !.at = @ + 1,
                     !.failed = IF Met(step.expect, Reply(step.request)) THEN @ ELSE @ \cup {e2e.at}]
  /\ UNCHANGED <<clock, runs, job, restarts>>

(* Not anchored in time: the contract is not asked.                        *)
E2eSkip ==
  /\ AtRoot
  /\ ProofReply(E2eSteps(e2e.start)[e2e.at].request.lot).status # "ANCHORED"
  /\ e2e' = [e2e EXCEPT !.at = @ + 1]
  /\ UNCHANGED <<gatewayVars, clock, runs, job, restarts>>

(* The gateway's transactions and its flag poll.  Bound: transactions are  *)
(* mined where a script waits for them, or no simulator runs; any may come *)
(* too late.                                                               *)
Awaited ==
  /\ Running => Last(runs).o.script = "seed" /\ job.round = 4
  /\ E2eRunning => AtRoot

ChainStep ==
  /\ Awaited
  /\ RunJob
  /\ UNCHANGED <<clock, runs, job, e2e, restarts>>

FlagPoll ==
  /\ AtMeeting
  /\ PollFlags(clock)
  /\ UNCHANGED <<clock, runs, job, e2e, restarts>>

(* Everything in memory is gone; a script that was waiting for an answer   *)
(* fails with it, one that was not does not notice.  Bound: e2e-demo,      *)
(* whose lots are gone, is followed no further.                            *)
Restart(noticed, headRead) ==
  /\ restarts < MaxRestarts
  /\ ~(Running /\ E2eRunning)                 \* bound: under one script at a time
  /\ AtMeeting
  /\ RestartGateway(headRead)
  /\ noticed => Running
  /\ runs' = [i \in DOMAIN runs |->
                [runs[i] EXCEPT !.cut = TRUE,
                   !.state = IF noticed /\ i = Len(runs) THEN "died" ELSE @]]
  /\ e2e' = IF E2eRunning THEN [e2e EXCEPT !.at = E2eLast + 1] ELSE e2e
  /\ restarts' = restarts + 1
  /\ UNCHANGED <<clock, job>>

ScriptNext ==
  \/ \E o \in Options, pause \in Pauses : Start(o, pause)
  \/ JobStep \/ SeedFails
  \/ E2eStart \/ E2eStep \/ E2eSkip
  \/ ChainStep \/ FlagPoll
  \/ \E noticed, headRead \in BOOLEAN : Restart(noticed, headRead)

ScriptSpec == ScriptInit /\ [][ScriptNext]_vars

-----------------------------------------------------------------------------
Used(script, scenario) == \E i \in DOMAIN runs : runs[i].o.script = script /\ runs[i].o.scenario = scenario
Tampered == \E i \in DOMAIN runs : runs[i].o.tamper # Never

(* What a flag may rest on: a run that was to breach, a lone spike and an  *)
(* opened lid that two runs put into one lot, or a warm crate on the truck.*)
MeantToBreach ==
  (IF Used("sim-swarm", "breach") \/ Used("sim-node", "breach") \/ (Used("sim-swarm", "spike") /\ Tampered)
   THEN {DemoLot} ELSE {})
    \cup (IF Used("seed", "plain") THEN {"kadam"} ELSE {})
    \cup {load[2] : load \in {x \in onChain.loads : x[1] = "kadam"}}
    \cup (IF e2e.at = 0 THEN {} ELSE {"lotBreach"})

(* "one lone temperature spike -- must NOT flag the lot"                   *)
(* (sim-swarm.ts:272): no lot is flagged, in the store or on chain, that   *)
(* no run was meant to breach, whatever ran before it on the same keys,    *)
(* was dropped, killed or cut off by a restart, and whatever the flag poll *)
(* brought back from the chain.                                            *)
OnlyBreachesFlag == flaggedLots \cup onChain.flagged \subseteq MeantToBreach

Completed(run) == run.state = "done" /\ ~run.cut

(* "run the 2-of-3 corroborated breach" (sim-swarm.ts:22) and "the warm    *)
(* crate flags itself" (seed.ts:264): a run that was meant to breach and   *)
(* was not cut off has flagged its lot, without its HEAD or a reading of   *)
(* its LEAF, and after any other run on the same keys; and the flag has    *)
(* propagated to the truck on chain, or is still waiting to be sent there, *)
(* whichever of flagging and loading came first.                           *)
BreachIsFound ==
  \A i \in DOMAIN runs : Completed(runs[i]) =>
    /\ runs[i].o.script = "sim-swarm" /\ runs[i].o.scenario = "breach" => DemoLot \in flaggedLots
    /\ runs[i].o.script = "seed" =>
         /\ "kadam" \in flaggedLots
         /\ "truck" \in onChain.flagged \/ Job("flagLot", "kadam") \in ToSet(txQueue)

Dropper(o) == IF o.script = "sim-node" THEN "HEAD" ELSE "LEAF"

DropNoticed(i) ==
  LET o == runs[i].o
  IN o.gap # Never /\ o.gap + 1 < o.count
     => \E e \in ToSet(entries[Dropper(o)]) :
          e.rec.digest = Digest(Dropper(o), i, o.gap + 1) /\ e.verdict = "CHAIN_GAP"

(* "record will be dropped -> expect CHAIN_GAP" (sim-swarm.ts:273): on a   *)
(* chain the gateway did not know, a record that is dropped is reported    *)
(* with the one after it, held back by an outage or not.                   *)
DropIsNoticed == \A i \in DOMAIN runs : Completed(runs[i]) /\ runs[i].fresh => DropNoticed(i)

(* "safe to run repeatedly against a gateway that is already holding state *)
(* from a demo" (e2e-demo.ts:13): no check fails beside or after any other *)
(* script, nor after a restart; of one under it, see Restart.  The one     *)
(* exception: a gateway that began behind the contract shows, until it has *)
(* tried to anchor the batch, what is on record for another at its index.  *)
E2ePasses ==
  \A k \in e2e.failed : resumed.behind /\ k = RootStep

LotTells(l) ==
  LET shown == ShownOf(l)
      rows == BuildRows(shown)
      total[n \in 0 .. Len(rows)] == IF n = 0 THEN 0 ELSE total[n - 1] + rows[n].count
      told == {e \in EpcisDocument(shown, BreachesOf(l)) : e.incident # "none"}
  IN /\ l \in flaggedLots => \E e \in told : e.incident # "CHAIN_FORK"
     /\ \A i \in DOMAIN shown : IsBreaching(shown[i]) =>
          ReadingRow(i) \in ToSet(rows) /\ DotColor(shown[i]) # "verified"
     /\ total[Len(rows)] = Len(shown)

DeviceTells(d) ==
  LET view == DeviceView(d)
      taken == SelectSeq(view.records, LAMBDA e : Chain!Advances(e.verdict))
      Follows(i) == taken[i].rec.seq = IF i = 1 THEN 0 ELSE taken[i - 1].rec.seq + 1
      UnderGap(e) == \E x \in view.incidents : x.kind = "CHAIN_GAP" /\ x.evidence = {e.rec.digest}
      Cut(i) == i = 1 /\ view.recordCount > DeviceLimit
  IN /\ taken # <<>> => Last(taken).rec.digest = view.chain.digest
     /\ \A i \in DOMAIN taken : Follows(i) \/ UnderGap(taken[i]) \/ Cut(i)

(* "a recall system needs to see the finding" (epcis.ts:109) and "every    *)
(* anomalous one is always shown individually" (JourneyTimeline.tsx:3): a  *)
(* flagged lot's breach is in its EPCIS document, of whichever kind, the   *)
(* poll's included; every warm reading has a row of its own that is not    *)
(* green, and the rows are all the lot's readings; of the records that     *)
(* moved a device's chain, its page shows the newest last, and an incident *)
(* over every hole between those it has room for.                          *)
EveryViewTells == (\A l \in LotIndex : LotTells(l)) /\ (\A d \in Device : DeviceTells(d))

-----------------------------------------------------------------------------
(* What a header and the pages say and the code does not do.               *)

(* "safe to run repeatedly against a gateway that is already holding       *)
(* state" (e2e-demo.ts:13), one that began behind the contract included.   *)
E2eAlwaysPasses == e2e.failed = {}

(* docs/DEMO-SCRIPT.md:154-160 runs the simulator a second time, with      *)
(* --gap-at, on a gateway that knows the first run's chain.                *)
DropIsAlwaysNoticed == \A i \in DOMAIN runs : Completed(runs[i]) => DropNoticed(i)

(* The chart shades "the breach window" (ColdChainChart.tsx): every warm   *)
(* reading lies in it.                                                     *)
ShadeCoversBreach ==
  \A l \in Lot : LET shown == ShownOf(l)
                 IN \A i \in DOMAIN shown : IsBreaching(shown[i]) => i \in Shaded(shown)
=============================================================================
