----------------------------- MODULE UpdaterProps -----------------------------
(***************************************************************************)
(* What the updater promises.                                              *)
(***************************************************************************)
EXTENDS Updater

\* The variables have their types; the thread and the dialog live within a check.
UpdateTypeOK ==
  /\ inProgress \in BOOLEAN /\ manifest \in BOOLEAN /\ left \in BOOLEAN
  /\ stage \in {"none", "check", "checked", "ask", "download", "install"}
  /\ inProgress <=> stage # "none"
  /\ found \in {"none", "available", "error"}
  /\ partial \in {"none", "part", "whole", "bad"} /\ package \in {"none", "whole", "bad"}
  /\ fetcher \in {"none", "prepare", "read", "check", "replace", "return", "ended"}
  /\ outcome \in {"none", "update", "cancelled", "failed"}
  /\ cancelEvent \in BOOLEAN /\ late \in BOOLEAN

\* NVDA's installer only gets a package whose size and checksum are those of the
\* manifest, whatever an earlier download has left under its name.
InstallsVerified == stage = "install" => package = "whole"

\* A download that was cancelled before it had returned is not installed.
CancelHonoured == stage = "install" => ~cancelEvent \/ late

\* Between two checks the folder is empty, however a check has ended: download_update
\* leaves its file when it is cancelled at some points, and the dialog removes it.
\* Unless NVDA was ended during a check, or the folder could not be removed.
Tidy == ~inProgress /\ ~left => ~manifest /\ partial = "none" /\ package = "none"

\* A check ends, and with it the time in which no other can begin, unless it waits
\* for the user.
CheckEnds == []<>(~inProgress \/ stage \in {"ask", "install"})

\* Only a verified, uncancelled update is installed, and nothing else of it stays.
UpdateSafe == InstallsVerified /\ CancelHonoured /\ Tidy
=============================================================================
