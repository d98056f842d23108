------------------------------ MODULE MCStandby ------------------------------
(* Instances of Standby for TLC.                                               *)
EXTENDS StandbyProps

\* Threads and bridges of a kind are interchangeable: they are taken in order.
TakenInOrder ==
  /\ \A w \in Workers : at[w] = "unused" /\ at'[w] # "unused"
                          => w = CHOOSE v \in Workers : at[v] = "unused"
  /\ \A x \in Watchers : watch[x] = "unborn" /\ watch'[x] # "unborn"
                          => x = CHOOSE y \in Watchers : watch[y] = "unborn"
  /\ \A b \in Bridges : life[b] = "unborn" /\ life'[b] # "unborn"
                          => b = CHOOSE c \in Bridges : life[c] = "unborn"

=============================================================================
