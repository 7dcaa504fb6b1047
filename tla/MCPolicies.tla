----------------------------- MODULE MCPolicies -----------------------------
(* Two settings with one rule between them, the start and the end of the day, *)
(* and a fee schedule whose price may be missing (0).                         *)
EXTENDS Policies

MCSetting == {"dayStart", "dayEnd"}

MCValues == [k \in MCSetting \cup {"fee"} |-> CASE k = "dayStart" -> {1, 2} [] k = "dayEnd" -> {2, 3} [] OTHER -> {0, 1, 2}]

MCDefault == [k \in MCSetting |-> IF k = "dayStart" THEN 1 ELSE 3]

MCAreas == {MCSetting, {"fee"}}

MCMaxEdits == [x \in MCAreas |-> IF x = MCSetting THEN 4 ELSE 2]

MCRule == {[on |-> MCSetting, met |-> {f \in [MCSetting -> 1..3] : f["dayStart"] < f["dayEnd"]}]}

\* The rule about the end of the night, which names two of the three settings
\* it looks at; at first there is a night, from 2 to 3.
NightSetting == {"dayEnd", "nightEnabled", "nightEnd"}

NightValues == [k \in NightSetting \cup {"fee"} |-> IF k = "nightEnabled" THEN {0, 1} ELSE {2, 3}]

NightDefault == [k \in NightSetting |-> CASE k = "dayEnd" -> 2 [] k = "nightEnd" -> 3 [] OTHER -> 1]

NightAreas == {NightSetting}

NightMaxEdits == [x \in NightAreas |-> 2]

NightRule ==
  {[on |-> {"dayEnd", "nightEnd"},
    met |-> {f \in [NightSetting -> 0..3] : f["nightEnabled"] = 0 \/ f["dayEnd"] < f["nightEnd"]}]}
=============================================================================
