---------------------------- MODULE VoiceStoreProps ----------------------------
(***************************************************************************)
(* What the store promises those who ask it whether a package is installed.*)
(***************************************************************************)
EXTENDS VoiceStore

Steps == {"idle", "list", "next", "stat", "look", "mark", "open", "hash", "remember",
          "forget", "save", "fetch", "replace", "note", "unlink"}
Stamps == 0..MaxStamp

\* The variables have their types; only the worker installs, only the others scan, and
\* what is looked up, read or remembered has a stamp.
StoreTypeOK ==
  /\ file \in [Stored -> [content : {"none", "good", "bad", "short"}, stamp : Stamps]]
  /\ clock \in Stamps
  /\ verified \in [Stored -> Stamps] /\ trusted \in [Stored -> Stamps]
  /\ saved \in [Stored -> Stamps] /\ owes \in [Threads -> SUBSET Stored]
  /\ step \in [Threads -> Steps] /\ doing \in [Threads -> {"check", "scan", "download", "remove"}]
  /\ \A t \in Checkers : doing[t] \in {"check", "scan"}
  /\ \A t \in Threads :
       /\ step[t] \in {"list", "next"} => doing[t] = "scan"
       /\ step[t] \in {"stat", "mark"} => doing[t] # "scan"
       /\ step[t] \in {"fetch", "replace", "note"} => doing[t] = "download"
       /\ step[t] = "unlink" => doing[t] = "remove"
       /\ step[t] \in {"look", "mark", "open", "hash", "remember"} => Seen(t) # NoStamp
  /\ at \in [Threads -> Stored] /\ rest \in [Threads -> SUBSET Stored]
  /\ seen \in [Threads -> [Stored -> Stamps]]
  /\ fit \in [Threads -> SUBSET Stored] /\ unsaved \subseteq Stored

\* A file that any of the caches takes for verified is good: whatever the order in
\* which threads check, replace, delete and forget, however often NVDA is restarted in
\* between, and whatever the user does to the file, as long as a change of a file
\* shows in its size or its modification time.
TrustedIsGood ==
  \A p \in Stored :
    file[p] # NoFile /\ file[p].stamp \in {verified[p], trusted[p], saved[p]}
      => file[p].content = "good"

\* When a check answers that a package is installed, or a scan takes it for installed,
\* its file was good at some moment since its stamp was read, also when the file was
\* replaced or deleted before the answer.
Accepts(t) ==
  \/ Look(t) /\ step'[t] \notin {"mark", "open"}
  \/ Mark(t)
  \/ Remember(t) /\ doing[t] = "scan"
  \/ Save(t) /\ doing[t] # "scan" /\ Seen(t) # NoStamp
AnswersTrue == [][\A t \in Threads : Accepts(t) => at[t] \in fit[t]]_storeVars

Scanning(t) == doing[t] = "scan" /\ step[t] # "idle"

\* The cache's file holds what memory holds of a package, whatever the order of the
\* changes and saves of checks, scans, downloads and removals; unless a thread is about
\* to save it, or its last change was lost: with a file that could not be written or
\* read, or with a scan that an unreadable package ended before its one save
\* (physically_installed_packages), and only what that scan had changed.
NothingUnsaved ==
  \A p \in Stored :
    saved[p] # trusted[p] =>
      p \in unsaved \/ \E t \in Threads : p \in owes[t] /\ (step[t] = "save" \/ Scanning(t))

\* The caches vouch for good files only, and what memory vouches for survives a restart.
CacheSound == TrustedIsGood /\ NothingUnsaved
=============================================================================
