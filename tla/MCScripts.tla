------------------------------ MODULE MCScripts ------------------------------
(* The command lines of the docs and of the scripts' headers.              *)
EXTENDS Scripts

MCDevice == {"HEAD", "LEAF", "CAM", "PHONE", "node", "stranger", "tamperNode", "gapNode",
             "spikeNode", "tempNode", "camNode"}
MCLot == {"demo", "kadam", "pawar", "shinde", "truck", "lotA", "lotSpike", "lotBreach"}

Plain(script, count) ==
  [script |-> script, scenario |-> "plain", count |-> count, gap |-> Never, kill |-> Never,
   offline |-> Never, tamper |-> Never]

Swarm(scenario, count, gap, kill) ==
  [Plain("sim-swarm", count) EXCEPT !.scenario = scenario, !.gap = gap, !.kill = kill]

Node(scenario, count, gap, offline, tamper) ==
  [Plain("sim-node", count) EXCEPT !.scenario = scenario, !.gap = gap, !.offline = offline, !.tamper = tamper]

MCOptions ==
  {Plain("seed", 12), Swarm("breach", 6, 2, 4), Swarm("spike", 6, Never, Never),
   Node("plain", 6, Never, Never, 2), Node("breach", 8, 4, 3, Never)}
=============================================================================
