--------------------------- MODULE VoiceManagerProps ---------------------------
(***************************************************************************)
(* What the voice manager promises its user.                               *)
(***************************************************************************)
EXTENDS VoiceManager

Tasks(kinds) == [kind : kinds, packages : SUBSET Packages, known : SUBSET Packages]

\* The variables have their types, what waits or runs is a task, and the dialog does
\* not go away as long as anything waits or runs.
ManagerTypeOK ==
  /\ installed \subseteq Packages /\ listed \subseteq Packages
  /\ variant \in Packages \cup {NoPackage} /\ profile \in Spoken \cup {NoPackage}
  /\ google \in BOOLEAN /\ shown \in BOOLEAN /\ away \in BOOLEAN
  /\ prompt \in {NoTask} \cup Tasks({"download", "remove", "switch"})
  /\ pending \in {NoTask} \cup Tasks({"remove"})
  /\ attempts \in 0..MaxAttempts
  /\ job \in {NoJob} \cup
       [kind : {"download", "remove"}, todo : SUBSET Packages,
        now : Packages \cup {NoPackage}, failed : SUBSET Packages, gone : SUBSET Packages, known : SUBSET Packages]
  /\ prompt # NoTask \/ pending # NoTask \/ isBusy => shown

\* A package that lands has all it requires, whatever part of the download failed
\* and whatever was removed between the choice and the confirmation.
BaseFirst ==
  [][\A p \in Packages : p \in installed' \ installed => Chain(p) \subseteq installed']_managerVars

\* A package is not taken away from under one that requires it: its dependents go
\* first.  What is left behind is a dependent that could not be removed, or one that
\* was downloaded after the list was made, while the removal was pending.
BaseLast ==
  [][\A b \in installed \ installed' :
       \A p \in installed' : Base[p] = b => p \in job.failed \/ p \notin job.known]_managerVars

\* The last usable voice is not removed as long as the user does not switch away
\* from Google TTS.
LastVoiceKept ==
  [][Usable(installed) # {} /\ Usable(installed') = {} => away]_managerVars

\* Once a removal is done the configuration names no package that it has removed: the
\* profile has a usable voice of its language or none, the variant a usable voice,
\* unless no usable voice is left.
ConfigFollows ==
  [][isBusy /\ ~isBusy' /\ shown' =>
       /\ variant' \in job.gone => Usable(installed') = {}
       /\ profile' \notin job.gone
       /\ variant' # variant => variant' \in Usable(installed')
       /\ profile' # profile => profile' \in Usable(installed') \cup {NoPackage}]_managerVars

\* A removal that waits for the switch does not wait for ever, and the dialog is not
\* busy for ever.
WaitEnds == pending # NoTask ~> pending = NoTask
JobEnds == isBusy ~> ~isBusy

\* Downloads and removals, in part or whole, take no package away from under one that
\* requires it and bring none without what it requires, with BaseLast's two exceptions.
DependenciesKept == BaseFirst /\ BaseLast
=============================================================================
