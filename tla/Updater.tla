------------------------------- MODULE Updater -------------------------------
(***************************************************************************)
(* The updater: a check for an update (its thread and _finish_check), the  *)
(* download (its thread, download_update, and the dialog from which it is  *)
(* cancelled), the installation, and the files all this puts in its folder *)
(* of temporary files.  A manual check and an automatic one differ in what *)
(* they tell the user.  The dialog of the download only goes away with a   *)
(* result, or with NVDA.                                                   *)
(***************************************************************************)

CONSTANT UpdateFaults  \* what may go wrong: "network", "folder", "window", "exit"
ASSUME UpdateFaultsAreKnown == UpdateFaults \subseteq {"network", "folder", "window", "exit"}

VARIABLES
  inProgress,  \* _updateCheckInProgress
  stage,       \* where the controller is
  found,       \* what the check has found
  manifest,    \* there is a file stable.json
  partial,     \* the .download file: "none", "part", "whole" or "bad"
  package,     \* the file to install: "none", "whole" or "bad"
  fetcher,     \* where the download's thread is
  cancelEvent, \* the dialog's
  outcome,     \* the download's, posted to the dialog
  late,        \* history: it was cancelled after it had returned
  left         \* history: files may be left by an exit or by a cleanup that failed

fileVars == <<manifest, partial, package>>
fetchVars == <<fetcher, outcome>>
updateVars == <<inProgress, stage, found, fileVars, fetchVars, cancelEvent, late, left>>

UpdateInit ==
  /\ inProgress = FALSE /\ stage = "none" /\ found = "none"
  /\ manifest \in BOOLEAN /\ partial \in {"none", "part"} /\ package \in {"none", "whole", "bad"}
  /\ left = (manifest \/ partial # "none" \/ package # "none")
  /\ fetcher = "none" /\ outcome = "none" /\ cancelEvent = FALSE /\ late = FALSE

-----------------------------------------------------------------------------
(* The check                                                                 *)

\* _finish_update_check, and the dialogs and threads of the check are over.
FinishUpdateCheck ==
  /\ inProgress' = FALSE /\ stage' = "none" /\ found' = "none"
  /\ fetcher' = "none" /\ outcome' = "none" /\ cancelEvent' = FALSE /\ late' = FALSE

\* cleanup_update_files removes the folder, and ignores errors.
CleanUp ==
  \/ manifest' = FALSE /\ partial' = "none" /\ package' = "none" /\ left' = FALSE
  \/ "folder" \in UpdateFaults /\ left' = TRUE /\ UNCHANGED fileVars

RemoveManifest == manifest' = FALSE /\ UNCHANGED <<partial, package, left>>

StartCheck ==
  /\ ~inProgress /\ inProgress' = TRUE /\ stage' = "check"
  /\ UNCHANGED <<found, fileVars, fetchVars, cancelEvent, late, left>>

\* check_for_update: the manifest stays when it could be read.
FetchManifest ==
  /\ stage = "check" /\ stage' = "checked"
  /\ \/ found' \in {"available", "none"} /\ manifest' = TRUE
     \/ "network" \in UpdateFaults /\ found' = "error" /\ manifest' = FALSE
  /\ UNCHANGED <<inProgress, partial, package, fetchVars, cancelEvent, late, left>>

\* _finish_check, up to the question whether to install the update.
FinishCheck ==
  /\ stage = "checked"
  /\ \/ found = "error" /\ CleanUp /\ FinishUpdateCheck
     \/ /\ found = "none" \/ (found = "available" /\ "window" \in UpdateFaults)
        /\ RemoveManifest /\ FinishUpdateCheck
     \/ /\ found = "available" /\ stage' = "ask"
        /\ UNCHANGED <<inProgress, found, fileVars, fetchVars, cancelEvent, late, left>>

AnswerNo == stage = "ask" /\ RemoveManifest /\ FinishUpdateCheck

\* _start_download, unless the window has gone meanwhile.
AnswerYes ==
  /\ stage = "ask"
  /\ \/ /\ stage' = "download" /\ fetcher' = "prepare"
        /\ UNCHANGED <<inProgress, found, fileVars, outcome, cancelEvent, late, left>>
     \/ "window" \in UpdateFaults /\ CleanUp /\ FinishUpdateCheck

-----------------------------------------------------------------------------
(* download_update.  It looks for a cancel between its steps.                *)

Fetching(where) == fetcher = where
FetchGoes(where) == fetcher' = where /\ UNCHANGED outcome
Ends(how) == fetcher' = "ended" /\ outcome' = how
DiscardPartial == partial' = "none" /\ UNCHANGED package

\* Files of an earlier download are removed, if they can be.
PrepareDownload ==
  /\ Fetching("prepare")
  /\ \/ cancelEvent /\ Ends("cancelled") /\ UNCHANGED <<partial, package>>
     \/ /\ ~cancelEvent /\ partial' = "none" /\ package' = "none"
        /\ FetchGoes("read")
     \/ /\ ~cancelEvent /\ "folder" \in UpdateFaults
        /\ Ends("failed") /\ UNCHANGED <<partial, package>>
  /\ UNCHANGED <<inProgress, stage, found, manifest, cancelEvent, late, left>>

\* The response is read, of any length: a wrong one is discarded.
ReadResponse ==
  /\ Fetching("read")
  /\ \/ cancelEvent /\ DiscardPartial /\ Ends("cancelled")
     \/ /\ ~cancelEvent /\ partial' \in {"whole", "bad"} /\ UNCHANGED package
        /\ FetchGoes("check")
     \/ ~cancelEvent /\ "network" \in UpdateFaults /\ DiscardPartial /\ Ends("failed")
     \/ ~cancelEvent /\ partial = "none" /\ partial' = "part" /\ UNCHANGED <<package, fetchVars>>
  /\ UNCHANGED <<inProgress, stage, found, manifest, cancelEvent, late, left>>

\* Mutant: the size will do.
CheckSizeOnly ==
  /\ Fetching("check")
  /\ IF cancelEvent THEN Ends("cancelled") ELSE FetchGoes("replace")
  /\ UNCHANGED <<inProgress, stage, found, fileVars, cancelEvent, late, left>>

\* A cancel found here leaves the file to the dialog's cleanup.
CheckDigest ==
  /\ Fetching("check")
  /\ \/ cancelEvent /\ Ends("cancelled") /\ UNCHANGED <<partial, package>>
     \/ ~cancelEvent /\ partial = "whole" /\ FetchGoes("replace") /\ UNCHANGED <<partial, package>>
     \/ ~cancelEvent /\ partial = "bad" /\ DiscardPartial /\ Ends("failed")
  /\ UNCHANGED <<inProgress, stage, found, manifest, cancelEvent, late, left>>

ReplacePackage ==
  /\ Fetching("replace")
  /\ \/ cancelEvent /\ Ends("cancelled") /\ UNCHANGED <<partial, package>>
     \/ ~cancelEvent /\ package' = partial /\ partial' = "none" /\ FetchGoes("return")
     \/ ~cancelEvent /\ "folder" \in UpdateFaults /\ DiscardPartial /\ Ends("failed")
  /\ UNCHANGED <<inProgress, stage, found, manifest, cancelEvent, late, left>>

\* Mutant: no look for a cancel after the file is in place.
ReturnAnyway ==
  /\ Fetching("return") /\ Ends("update")
  /\ UNCHANGED <<inProgress, stage, found, fileVars, cancelEvent, late, left>>

ReturnPackage ==
  /\ Fetching("return")
  /\ IF cancelEvent THEN package' = "none" /\ Ends("cancelled")
                    ELSE UNCHANGED package /\ Ends("update")
  /\ UNCHANGED <<inProgress, stage, found, manifest, partial, cancelEvent, late, left>>

-----------------------------------------------------------------------------
(* The dialog of the download, and the installation                          *)

\* _cancel_download, until the dialog has finished.
CancelDownload ==
  /\ stage = "download" /\ ~cancelEvent /\ cancelEvent' = TRUE
  /\ late' = (outcome # "none")
  /\ UNCHANGED <<inProgress, stage, found, fileVars, fetchVars, left>>

\* Mutant: a cancel is treated as any other failure.
FinishAsFailed ==
  /\ stage = "download" /\ outcome # "none"
  /\ \/ outcome # "update" /\ RemoveManifest /\ FinishUpdateCheck
     \/ /\ outcome = "update" /\ RemoveManifest /\ stage' = "install"
        /\ UNCHANGED <<inProgress, found, fetchVars, cancelEvent, late>>

\* Mutant: a cancel, once noticed, leaves the dialog open.
FinishUncancelled ==
  /\ stage = "download" /\ outcome \notin {"none", "cancelled"}
  /\ \/ outcome = "failed" /\ RemoveManifest /\ FinishUpdateCheck
     \/ /\ outcome = "update" /\ RemoveManifest /\ stage' = "install"
        /\ UNCHANGED <<inProgress, found, fetchVars, cancelEvent, late>>

\* finish, posted by the thread, and _finish_download up to the installer.
FinishDownload ==
  /\ stage = "download" /\ outcome # "none"
  /\ \/ outcome = "cancelled" /\ CleanUp /\ FinishUpdateCheck
     \/ outcome = "failed" /\ RemoveManifest /\ FinishUpdateCheck
     \/ /\ outcome = "update" /\ RemoveManifest /\ stage' = "install"
        /\ UNCHANGED <<inProgress, found, fetchVars, cancelEvent, late>>

\* installAddon returns or raises; the package is removed after it.
Install ==
  /\ stage = "install" /\ package' = "none" /\ FinishUpdateCheck
  /\ UNCHANGED <<manifest, partial, left>>

\* NVDA ends, and with it the threads; what is in the folder stays there.
ExitNVDA ==
  /\ "exit" \in UpdateFaults /\ inProgress
  /\ FinishUpdateCheck /\ left' = TRUE /\ UNCHANGED fileVars

DownloadUpdate ==
  PrepareDownload \/ ReadResponse \/ CheckDigest \/ ReplacePackage \/ ReturnPackage
Controller == FetchManifest \/ FinishCheck \/ FinishDownload

UpdateNext ==
  \/ StartCheck \/ AnswerNo \/ AnswerYes \/ CancelDownload \/ Install \/ ExitNVDA
  \/ DownloadUpdate \/ Controller

\* Network calls return, since they time out, and wx runs what is posted.  What the
\* user answers, and when, is not fair.
UpdateFairness == WF_updateVars(DownloadUpdate) /\ WF_updateVars(Controller)

UpdateSpec == UpdateInit /\ [][UpdateNext]_updateVars /\ UpdateFairness
=============================================================================
