----------------------------- MODULE VoiceManager -----------------------------
(***************************************************************************)
(* The voice manager's dialog: what it downloads and removes, the confirm- *)
(* ations it asks for, its one worker thread, and the removal that waits   *)
(* for the user to switch to another synthesizer.  wx runs timers and      *)
(* posted calls while a confirmation is on the screen.  The files of a     *)
(* package are VoiceStore's matter: here a package is installed or not.    *)
(***************************************************************************)
EXTENDS VoicePackages

CONSTANTS
  Spoken,        \* packages of the language that has an automatic profile
  MaxAttempts,   \* bound: polls for a switch of the synthesizer (600 in the code)
  ManagerFaults  \* what may go wrong: "network", "file", "dialog", "exit"

ASSUME SpokenAreKnown == Spoken \subseteq Packages
ASSUME AttemptsAreNatural == MaxAttempts \in Nat
ASSUME ManagerFaultsAreKnown == ManagerFaults \subseteq {"network", "file", "dialog", "exit"}

VARIABLES
  installed,  \* packages whose file is there and verified
  google,     \* Google TTS is the current synthesizer
  variant,    \* the package of the configured voice
  profile,    \* the package of the profile's voice, or none
  shown,      \* there is a dialog
  listed,     \* _allInstalledPackages: the installed ones at the last refresh
  prompt,     \* the confirmation on the screen, and what it is about
  pending,    \* _pendingRemoveAfterSynthSwitch
  attempts,   \* polls of it so far
  job,        \* the worker's: isBusy is TRUE from its start to its done
  away        \* history: another synthesizer has been current since the last
              \* removal was asked for

configVars == <<variant, profile>>
dialogVars == <<shown, listed, prompt>>
waitVars == <<pending, attempts>>
managerVars == <<installed, google, configVars, dialogVars, waitVars, job, away>>

\* known: what was listed when the packages were chosen.
Task(kind, packages, known) == [kind |-> kind, packages |-> packages, known |-> known]
NoTask == Task("none", {}, {})

\* todo: not yet tried; now: the package under way; failed, gone: those
\* tried in vain and with success.
Job(task) == [kind |-> task.kind, todo |-> task.packages, now |-> NoPackage,
              failed |-> {}, gone |-> {}, known |-> task.known]
NoJob == Job(NoTask)
isBusy == job # NoJob

\* Any set of packages may be there, put by an earlier version or by hand.
ManagerInit ==
  /\ installed \in SUBSET Packages /\ google \in BOOLEAN
  /\ variant \in Packages \cup {NoPackage} /\ profile \in Spoken \cup {NoPackage}
  /\ shown = FALSE /\ listed = {} /\ prompt = NoTask
  /\ pending = NoTask /\ attempts = 0
  /\ job = NoJob /\ away = FALSE

-----------------------------------------------------------------------------
(* The dialog                                                                *)

OpenDialog ==
  /\ ~shown /\ shown' = TRUE /\ listed' = installed
  /\ UNCHANGED <<installed, google, configVars, prompt, waitVars, job, away>>

\* Mutant: no veto.
CloseAnyway ==
  /\ shown /\ prompt = NoTask
  /\ shown' = FALSE /\ listed' = {} /\ pending' = NoTask /\ attempts' = 0
  /\ UNCHANGED <<installed, google, configVars, prompt, job, away>>

\* on_close vetoes while busy.  A timer of a dialog that is gone does nothing.
CloseDialog ==
  /\ shown /\ ~isBusy /\ prompt = NoTask
  /\ shown' = FALSE /\ listed' = {} /\ pending' = NoTask /\ attempts' = 0
  /\ UNCHANGED <<installed, google, configVars, prompt, job, away>>

\* The controls are enabled, and no confirmation is on the screen.
Ready == shown /\ ~isBusy /\ prompt = NoTask

Refresh ==
  /\ Ready /\ listed' = installed
  /\ UNCHANGED <<installed, google, configVars, shown, prompt, waitVars, job, away>>

\* _run_worker does nothing while the worker is busy.
RunWorker(task) == job' = IF isBusy THEN job ELSE Job(task)

\* on_download_selected, up to the worker or the confirmation.
AskDownload(checked) ==
  LET selected == checked \cap Supported
      task == Task("download", WithRequired(selected, listed), listed)
  IN /\ Ready /\ checked \subseteq Packages \ listed /\ selected # {}
     /\ IF task.packages = selected
          THEN RunWorker(task) /\ UNCHANGED prompt
          ELSE prompt' = task /\ UNCHANGED job
     /\ UNCHANGED <<installed, google, configVars, shown, listed, waitVars, away>>

\* Mutant: what depends on the checked packages is left alone.
RemovalOfChecked(checked) == checked

\* _with_installed_dependents
Removal(checked) == WithDependents(checked, listed)

\* _removes_all_usable_voices
RemovesAll(packages) == Usable(listed) # {} /\ Usable(listed \ packages) = {}

\* on_remove_selected, up to the confirmation.
AskRemove(checked) ==
  LET packages == Removal(checked)
      kind == IF RemovesAll(packages) /\ google THEN "switch" ELSE "remove"
  IN /\ Ready /\ pending = NoTask /\ checked \subseteq listed /\ checked # {}
     /\ prompt' = Task(kind, packages, listed)
     /\ away' = ~google
     /\ UNCHANGED <<installed, google, configVars, shown, listed, waitVars, job>>

\* Mutant: the removal of the last voice does not wait for the switch.
AcceptAtOnce ==
  /\ prompt # NoTask /\ prompt' = NoTask
  /\ RunWorker([prompt EXCEPT !.kind = IF @ = "switch" THEN "remove" ELSE @])
  /\ UNCHANGED <<installed, google, configVars, shown, listed, waitVars, away>>

\* Yes.  The removal of the last voice waits, once NVDA's dialog has opened.
Accept ==
  /\ prompt # NoTask /\ prompt' = NoTask
  /\ \/ /\ prompt.kind # "switch" /\ RunWorker(prompt) /\ UNCHANGED waitVars
     \/ /\ prompt.kind = "switch" /\ attempts' = 0 /\ UNCHANGED job
        /\ \/ pending' = [prompt EXCEPT !.kind = "remove"]
           \/ "dialog" \in ManagerFaults /\ pending' = NoTask
  /\ UNCHANGED <<installed, google, configVars, shown, listed, away>>

Decline ==
  /\ prompt # NoTask /\ prompt' = NoTask
  /\ UNCHANGED <<installed, google, configVars, shown, listed, waitVars, job, away>>

-----------------------------------------------------------------------------
(* _remove_after_synth_switch, from its timer                                *)

\* Mutant: it asks for ever.
PollForever ==
  /\ pending # NoTask
  /\ IF ~google THEN pending' = NoTask /\ RunWorker(pending) ELSE UNCHANGED <<pending, job>>
  /\ UNCHANGED <<installed, google, configVars, dialogVars, attempts, away>>

Poll ==
  /\ pending # NoTask
  /\ IF ~google
       THEN pending' = NoTask /\ attempts' = 0 /\ RunWorker(pending)
       ELSE /\ UNCHANGED job
            /\ IF attempts >= MaxAttempts
                 THEN pending' = NoTask /\ attempts' = 0
                 ELSE attempts' = attempts + 1 /\ UNCHANGED pending
  /\ UNCHANGED <<installed, google, configVars, dialogVars, away>>

-----------------------------------------------------------------------------
(* The worker                                                                *)

\* Mutant: bases are removed first.
InWrongTurn(p) == \A q \in job.todo : Depth(p, job.known) <= Depth(q, job.known)

\* The next package: _dependencies_first, or _dependents_first among the known.
InTurn(p) ==
  \A q \in job.todo :
    IF job.kind = "download" THEN Depth(p, Packages) <= Depth(q, Packages)
                             ELSE Depth(p, job.known) >= Depth(q, job.known)

Idle == isBusy /\ job.now = NoPackage
TakesUp(p) == p \in job.todo /\ InTurn(p)

\* Mutant: a package is downloaded although its base could not be.
DownloadAnyway(p) ==
  /\ Idle /\ job.kind = "download" /\ TakesUp(p)
  /\ job' = [job EXCEPT !.todo = @ \ {p}, !.now = p]
  /\ UNCHANGED <<installed, google, configVars, dialogVars, waitVars, away>>

\* A package is not downloaded while one that it requires is missing.
Download(p) ==
  /\ Idle /\ job.kind = "download" /\ TakesUp(p)
  /\ job' = IF IsMissing(p, installed)
              THEN [job EXCEPT !.todo = @ \ {p}, !.failed = @ \cup {p}]
              ELSE [job EXCEPT !.todo = @ \ {p}, !.now = p]
  /\ UNCHANGED <<installed, google, configVars, dialogVars, waitVars, away>>

\* download_package returns, or raises: the worker goes on with the next package.
Downloaded ==
  /\ isBusy /\ job.now # NoPackage
  /\ \/ /\ installed' = installed \cup {job.now}
        /\ job' = [job EXCEPT !.now = NoPackage]
     \/ /\ "network" \in ManagerFaults /\ UNCHANGED installed
        /\ job' = [job EXCEPT !.now = NoPackage, !.failed = @ \cup {job.now}]
  /\ UNCHANGED <<google, configVars, dialogVars, waitVars, away>>

\* remove_package returns, or raises when the file is in use.
Remove(p) ==
  /\ Idle /\ job.kind = "remove" /\ TakesUp(p)
  /\ \/ /\ installed' = installed \ {p}
        /\ job' = [job EXCEPT !.todo = @ \ {p}, !.gone = @ \cup {p}]
     \/ /\ "file" \in ManagerFaults /\ p \in installed /\ UNCHANGED installed
        /\ job' = [job EXCEPT !.todo = @ \ {p}, !.failed = @ \cup {p}]
  /\ UNCHANGED <<google, configVars, dialogVars, waitVars, away>>

\* _reset_configured_voice_if_removed, with the voices that are usable now.
ResetVariant(usable) ==
  IF variant \in job.gone /\ usable # {} THEN variant' \in usable ELSE UNCHANGED variant

\* _reset_auto_language_profile_variants_if_removed, also when the voice was no voice of
\* the language before.
ResetProfile(usable) ==
  LET valid == usable \cap Spoken
  IN IF /\ job.gone # {} /\ profile # NoPackage
        /\ profile \in job.gone \/ (valid # {} /\ profile \notin valid)
       THEN \/ valid # {} /\ profile' \in valid
            \/ valid = {} /\ profile' = NoPackage
       ELSE UNCHANGED profile

\* Mutant: the lists are refreshed at the end.
DoneStale ==
  /\ Idle /\ job.todo = {}
  /\ job' = NoJob /\ listed' = installed
  /\ ResetVariant(Usable(listed)) /\ ResetProfile(Usable(listed))
  /\ UNCHANGED <<installed, google, shown, prompt, waitVars, away>>

\* done, posted to the main thread.  It also lets the current driver warm its voice up
\* and standby refresh its browser, which are SpeechDriver's and Standby's.
Done ==
  /\ Idle /\ job.todo = {}
  /\ job' = NoJob /\ listed' = installed
  /\ ResetVariant(Usable(listed')) /\ ResetProfile(Usable(listed'))
  /\ UNCHANGED <<installed, google, shown, prompt, waitVars, away>>

-----------------------------------------------------------------------------
(* The surroundings                                                          *)

\* NVDA opens no dialog of its own while a confirmation is on the screen.
Switch ==
  /\ prompt = NoTask
  /\ google' = ~google /\ away' = (away \/ google)
  /\ UNCHANGED <<installed, configVars, dialogVars, waitVars, job>>

\* NVDA ends in the middle of anything, and is started again.
Exit ==
  /\ "exit" \in ManagerFaults
  /\ shown' = FALSE /\ listed' = {} /\ prompt' = NoTask
  /\ pending' = NoTask /\ attempts' = 0 /\ job' = NoJob
  /\ UNCHANGED <<installed, google, configVars, away>>

Worker == (\E p \in Packages : Download(p) \/ Remove(p)) \/ Downloaded \/ Done

ManagerNext ==
  \/ OpenDialog \/ CloseDialog \/ Refresh
  \/ \E checked \in SUBSET Packages : AskDownload(checked) \/ AskRemove(checked)
  \/ Accept \/ Decline
  \/ Poll
  \/ Worker
  \/ Switch \/ Exit

\* The timer comes, the worker's calls return, and wx runs what is posted.  What the
\* user does is not fair.
ManagerFairness == WF_managerVars(Poll) /\ WF_managerVars(Worker)

ManagerSpec == ManagerInit /\ [][ManagerNext]_managerVars /\ ManagerFairness
=============================================================================
