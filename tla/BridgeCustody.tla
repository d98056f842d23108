---------------------------- MODULE BridgeCustody ----------------------------
(***************************************************************************)
(* What the standby manager promises about browser bridges: each bridge    *)
(* has one custodian from its creation to its end, at most one is kept     *)
(* warm, at most one speaks, and a bridge given up is terminated and never *)
(* comes back.                                                             *)
(***************************************************************************)
CONSTANT Bridges

VARIABLE custodian  \* of each bridge: who has to see to it that its browser ends

Custodians == {"nobody", "standby", "synth", "doomed", "gone"}

Init == custodian = [b \in Bridges |-> "nobody"]

\* A bridge is created, warmed for the synthesizer, handed over, given up or
\* stopped.  One step may give several bridges a new custodian: what the manager
\* held is given up in the step that puts something in its place.
MayBecome == [nobody  |-> {"nobody", "standby", "synth"},
              standby |-> {"standby", "synth", "doomed"},
              synth   |-> {"synth", "standby", "doomed"},
              doomed  |-> {"doomed", "gone"},
              gone    |-> {"gone"}]

Next ==
  /\ custodian' \in [Bridges -> Custodians]
  /\ \A b \in Bridges : custodian'[b] \in MayBecome[custodian[b]]
  /\ \A b, c \in Bridges : custodian'[b] = custodian'[c] /\ custodian'[b] \in {"standby", "synth"} => b = c

Spec == Init /\ [][Next]_custodian

=============================================================================
