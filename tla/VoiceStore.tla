------------------------------ MODULE VoiceStore ------------------------------
(***************************************************************************)
(* The store of voice packages: the files, the two caches of what has been *)
(* verified, and the threads that check, scan, download and remove.  A      *)
(* check is is_package_installed; a scan is physically_installed_packages,  *)
(* which reads the stamps of all files, then decides package by package and *)
(* saves once, at its end.  Packages share nothing but the scans and the    *)
(* cache's file, which is always written as a whole.                       *)
(*                                                                         *)
(* A file has a content and a stamp, its modification time: every write    *)
(* gives a new one.  Content is "good", "bad" (the right size and another  *)
(* checksum) or "short" (another size).  Every package of the catalog has  *)
(* a size and a checksum.                                                  *)
(***************************************************************************)
EXTENDS Naturals

CONSTANTS
  Stored,      \* packages
  Checkers,    \* threads that check and scan: any but the worker
  Installer,   \* the voice manager's worker, which downloads and removes
  MaxStamp,    \* bound: writes of package files
  StoreFaults  \* what may go wrong: "network", "save", "locked", "crash", "byhand"

ASSUME InstallerIsNoChecker == Installer \notin Checkers
ASSUME MaxStampIsPositive == MaxStamp \in Nat \ {0}
ASSUME StoreFaultsAreKnown == StoreFaults \subseteq {"network", "save", "locked", "crash", "byhand"}

Threads == Checkers \cup {Installer}
NoStamp == 0
NoFile == [content |-> "none", stamp |-> NoStamp]

VARIABLES
  file,      \* the file of each package
  clock,     \* the last stamp given
  verified,  \* _verifiedPackageCache: the stamp known to be good
  trusted,   \* _persistentVerifiedPackageCache, in memory
  saved,     \* and in verified_voices.json
  owes,      \* the packages each thread has changed in memory and not saved:
             \* none, or the check's, or those of the scan (verificationCacheUpdated)
  step,      \* where each thread is
  doing,     \* what it is called for: "check", "scan", "download" or "remove"
  at,        \* the package it works on
  rest,      \* the packages its scan has still to list, and then to decide
  seen,      \* the stamps it has read of files of the right size, until it answers
  fit,       \* history: those of them whose file has been good since then
  unsaved    \* history: packages whose last change in memory was not written: the
             \* cache's file could not be written or read, or a scan did not get there

cacheVars == <<verified, trusted, saved, owes, unsaved>>
threadVars == <<step, doing, at, rest, seen>>
storeVars == <<file, clock, cacheVars, threadVars, fit>>

Unseen == [p \in Stored |-> NoStamp]

StoreInit ==
  /\ file \in [Stored -> {NoFile} \cup [content : {"good", "bad", "short"}, stamp : {1}]]
  /\ clock = 1
  /\ verified = Unseen /\ trusted = Unseen /\ saved = Unseen
  /\ owes = [t \in Threads |-> {}]
  /\ step = [t \in Threads |-> "idle"] /\ doing = [t \in Threads |-> "check"]
  /\ at \in [Threads -> Stored]
  /\ rest = [t \in Threads |-> {}]
  /\ seen = [t \in Threads |-> Unseen]
  /\ fit = [t \in Threads |-> {}] /\ unsaved = {}

Goes(t, s) == step' = [step EXCEPT ![t] = s]
Sees(t, p, stamp) == seen' = [seen EXCEPT ![t] = [@ EXCEPT ![p] = stamp]]
Unfits(t) == fit' = [fit EXCEPT ![t] = @ \ {at[t]}]
Rests(t) ==
  Goes(t, "idle") /\ seen' = [seen EXCEPT ![t] = Unseen] /\ fit' = [fit EXCEPT ![t] = {}]
Of(t) == file[at[t]]
Seen(t) == seen[t][at[t]]

\* A check goes on with files of the package's size only.
Measured(p) == IF file[p].content \in {"good", "bad"} THEN file[p].stamp ELSE NoStamp
Reads(t, p, stamp) ==
  /\ Sees(t, p, stamp)
  /\ fit' = [fit EXCEPT ![t] = IF stamp # NoStamp /\ file[p].content = "good"
                                THEN @ \cup {p} ELSE @ \ {p}]

\* A file changes under the checks and scans that have read its stamp.
Becomes(p, new) ==
  /\ file' = [file EXCEPT ![p] = new]
  /\ fit' = [t \in Threads |->
               IF new.content = "good" /\ seen[t][p] # NoStamp THEN fit[t] \cup {p} ELSE fit[t]]

Begin(t, what, p) ==
  /\ step[t] = "idle"
  /\ at' = [at EXCEPT ![t] = p] /\ doing' = [doing EXCEPT ![t] = what]
  /\ Goes(t, IF what = "remove" THEN "forget" ELSE "stat")
  /\ UNCHANGED <<file, clock, cacheVars, rest, seen, fit>>

-----------------------------------------------------------------------------
(* physically_installed_packages                                             *)

Scan(t) ==
  /\ step[t] = "idle"
  /\ doing' = [doing EXCEPT ![t] = "scan"] /\ rest' = [rest EXCEPT ![t] = Stored]
  /\ Goes(t, "list")
  /\ UNCHANGED <<file, clock, cacheVars, at, seen, fit>>

\* _voice_files_by_name: one entry of the folder after the other, in any order; what
\* cannot be read is taken for missing.
List(t) ==
  /\ step[t] = "list"
  /\ \E p \in rest[t] :
       /\ Reads(t, p, Measured(p)) \/ ("locked" \in StoreFaults /\ Reads(t, p, NoStamp))
       /\ IF rest[t] = {p}
            THEN rest' = [rest EXCEPT ![t] = Stored] /\ Goes(t, "next")
            ELSE rest' = [rest EXCEPT ![t] = @ \ {p}] /\ UNCHANGED step
  /\ UNCHANGED <<file, clock, cacheVars, doing, at>>

\* Mutant: a scan changes the caches in memory only.
TurnUnsaved(t) ==
  /\ step[t] = "next"
  /\ \/ \E p \in rest[t] :
          /\ at' = [at EXCEPT ![t] = p] /\ rest' = [rest EXCEPT ![t] = @ \ {p}]
          /\ Goes(t, IF seen[t][p] = NoStamp THEN "forget" ELSE "look")
     \/ rest[t] = {} /\ Goes(t, "idle") /\ UNCHANGED <<at, rest>>
  /\ UNCHANGED <<file, clock, cacheVars, doing, seen, fit>>

\* The loop over the catalog's packages, and the one save behind it.
Turn(t) ==
  /\ step[t] = "next"
  /\ \/ \E p \in rest[t] :
          /\ at' = [at EXCEPT ![t] = p] /\ rest' = [rest EXCEPT ![t] = @ \ {p}]
          /\ Goes(t, IF seen[t][p] = NoStamp THEN "forget" ELSE "look")
     \/ rest[t] = {} /\ Goes(t, IF owes[t] = {} THEN "idle" ELSE "save") /\ UNCHANGED <<at, rest>>
  /\ UNCHANGED <<file, clock, cacheVars, doing, seen, fit>>

-----------------------------------------------------------------------------
(* _check_package_file_installed, and what a scan does for a package         *)

Stat(t) ==
  /\ step[t] = "stat"
  /\ Reads(t, at[t], Measured(at[t]))
  /\ Goes(t, IF Measured(at[t]) = NoStamp THEN "forget" ELSE "look")
  /\ UNCHANGED <<file, clock, cacheVars, doing, at, rest>>

\* The package is decided: a check answers, a scan goes on with the next one.
Decided(t) ==
  /\ Goes(t, IF doing[t] = "scan" THEN "next" ELSE "idle")
  /\ Sees(t, at[t], NoStamp) /\ Unfits(t)

\* Mutant: any verified file of the package will do.
LookById(t) ==
  /\ step[t] = "look"
  /\ IF verified[at[t]] # NoStamp THEN Decided(t)
     ELSE UNCHANGED <<seen, fit>> /\ Goes(t, IF trusted[at[t]] = Seen(t) THEN "mark" ELSE "open")
  /\ UNCHANGED <<file, clock, cacheVars, doing, at, rest>>

\* Both caches.  A scan looks into both and marks under one lock, a check marks later.
Look(t) ==
  /\ step[t] = "look"
  /\ IF Seen(t) = verified[at[t]] \/ (doing[t] = "scan" /\ Seen(t) = trusted[at[t]])
       THEN verified' = [verified EXCEPT ![at[t]] = Seen(t)] /\ Decided(t)
       ELSE /\ Goes(t, IF trusted[at[t]] = Seen(t) THEN "mark" ELSE "open")
            /\ UNCHANGED <<verified, seen, fit>>
  /\ UNCHANGED <<file, clock, trusted, saved, owes, unsaved, doing, at, rest>>

Mark(t) ==
  /\ step[t] = "mark"
  /\ verified' = [verified EXCEPT ![at[t]] = Seen(t)]
  /\ Decided(t)
  /\ UNCHANGED <<file, clock, trusted, saved, owes, unsaved, doing, at, rest>>

\* sha256 raises when the file has gone or is locked.  That ends the check, and a whole
\* scan with the save it owes.
Open(t) ==
  /\ step[t] = "open"
  /\ \/ /\ Of(t) = NoFile \/ "locked" \in StoreFaults
        /\ Rests(t)
        /\ owes' = [owes EXCEPT ![t] = {}] /\ unsaved' = unsaved \cup owes[t]
        /\ rest' = [rest EXCEPT ![t] = {}]
     \/ Of(t) # NoFile /\ Goes(t, "hash") /\ UNCHANGED <<owes, unsaved, rest, seen, fit>>
  /\ UNCHANGED <<file, clock, verified, trusted, saved, doing, at>>

\* The file is open while it is read: nobody can write, replace or delete it.
Reading(p) == \E t \in Threads : step[t] = "hash" /\ at[t] = p

Hash(t) ==
  /\ step[t] = "hash"
  /\ Goes(t, IF Of(t).content = "good" THEN "remember" ELSE "forget")
  /\ UNCHANGED <<file, clock, cacheVars, doing, at, rest, seen, fit>>

Owes(t) == owes' = [owes EXCEPT ![t] = @ \cup {at[t]}]

\* Mutant: the file is asked for its stamp once more when it is remembered.
RememberAsIs(t) ==
  /\ step[t] = "remember"
  /\ verified' = [verified EXCEPT ![at[t]] = Of(t).stamp]
  /\ trusted' = [trusted EXCEPT ![at[t]] = Of(t).stamp]
  /\ Owes(t)
  /\ IF doing[t] = "scan" THEN Decided(t) ELSE Goes(t, "save") /\ UNCHANGED <<seen, fit>>
  /\ UNCHANGED <<file, clock, saved, unsaved, doing, at, rest>>

\* _remember_verified_package, up to the save; a scan saves later.
Remember(t) ==
  /\ step[t] = "remember"
  /\ verified' = [verified EXCEPT ![at[t]] = Seen(t)]
  /\ trusted' = [trusted EXCEPT ![at[t]] = Seen(t)]
  /\ Owes(t)
  /\ IF doing[t] = "scan" THEN Decided(t) ELSE Goes(t, "save") /\ UNCHANGED <<seen, fit>>
  /\ UNCHANGED <<file, clock, saved, unsaved, doing, at, rest>>

After(t) ==
  CASE doing[t] = "check" -> "idle"
    [] doing[t] = "scan" -> "next"
    [] doing[t] = "download" -> "fetch"
    [] doing[t] = "remove" -> "unlink"

\* Mutant: the cache's file is left as it is.
ForgetInMemory(t) ==
  /\ step[t] = "forget"
  /\ verified' = [verified EXCEPT ![at[t]] = NoStamp]
  /\ trusted' = [trusted EXCEPT ![at[t]] = NoStamp]
  /\ Sees(t, at[t], NoStamp) /\ Unfits(t) /\ Goes(t, After(t))
  /\ UNCHANGED <<file, clock, saved, owes, unsaved, doing, at, rest>>

\* _forget_verified_package: nothing to save when the package is not in the cache.
Forget(t) ==
  /\ step[t] = "forget"
  /\ verified' = [verified EXCEPT ![at[t]] = NoStamp]
  /\ trusted' = [trusted EXCEPT ![at[t]] = NoStamp]
  /\ Sees(t, at[t], NoStamp) /\ Unfits(t)
  /\ IF trusted[at[t]] = NoStamp THEN UNCHANGED owes ELSE Owes(t)
  /\ Goes(t, IF trusted[at[t]] = NoStamp \/ doing[t] = "scan" THEN After(t) ELSE "save")
  /\ UNCHANGED <<file, clock, saved, unsaved, doing, at, rest>>

\* _save_persistent_verification_cache, under the lock; its errors are ignored.
Save(t) ==
  /\ step[t] = "save"
  /\ \/ saved' = trusted /\ unsaved' = {}
     \/ "save" \in StoreFaults /\ UNCHANGED saved /\ unsaved' = unsaved \cup owes[t]
  /\ owes' = [owes EXCEPT ![t] = {}]
  /\ IF Seen(t) = NoStamp /\ doing[t] # "scan"
       THEN Goes(t, After(t)) /\ UNCHANGED <<seen, fit>>
       ELSE Rests(t)
  /\ UNCHANGED <<file, clock, verified, trusted, doing, at, rest>>

-----------------------------------------------------------------------------
(* download_package and remove_package, after their check or their forgetting *)

\* The download is verified under another name: what is put in place is good.
Fetch(t) ==
  /\ step[t] = "fetch"
  /\ \/ Goes(t, "replace") /\ UNCHANGED <<seen, fit>>
     \/ "network" \in StoreFaults /\ Rests(t)
  /\ UNCHANGED <<file, clock, cacheVars, doing, at, rest>>

\* os.replace raises while somebody reads the old file.
Replace(t) ==
  /\ step[t] = "replace" /\ clock < MaxStamp
  /\ IF Reading(at[t])
       THEN Rests(t) /\ UNCHANGED <<file, clock>>
       ELSE /\ Becomes(at[t], [content |-> "good", stamp |-> clock + 1])
            /\ clock' = clock + 1
            /\ Goes(t, "note") /\ UNCHANGED seen
  /\ UNCHANGED <<cacheVars, doing, at, rest>>

\* The stamp that is remembered is read after the file is in place.
Note(t) ==
  /\ step[t] = "note"
  /\ IF Of(t) = NoFile
       THEN Rests(t)
       ELSE Reads(t, at[t], Of(t).stamp) /\ Goes(t, "remember")
  /\ UNCHANGED <<file, clock, cacheVars, doing, at, rest>>

\* unlink raises while somebody reads the file, and not when there is none.
Unlink(t) ==
  /\ step[t] = "unlink"
  /\ IF Reading(at[t]) THEN UNCHANGED <<file, fit>> ELSE Becomes(at[t], NoFile)
  /\ Goes(t, "idle")
  /\ UNCHANGED <<clock, cacheVars, doing, at, rest, seen>>

-----------------------------------------------------------------------------
(* The surroundings                                                          *)

\* The user changes a file in the voices folder; not between a download's last two
\* steps, where a new file would be taken for the one downloaded.
ByHand(p) ==
  /\ "byhand" \in StoreFaults /\ ~Reading(p)
  /\ \/ Becomes(p, NoFile) /\ UNCHANGED clock
     \/ /\ clock < MaxStamp /\ ~(step[Installer] = "note" /\ at[Installer] = p)
        /\ \E c \in {"good", "bad", "short"} : Becomes(p, [content |-> c, stamp |-> clock + 1])
        /\ clock' = clock + 1
  /\ UNCHANGED <<cacheVars, threadVars>>

\* NVDA ends, and starts again with what the disk holds, or without the cache when
\* its file cannot be read.
Crash ==
  /\ "crash" \in StoreFaults
  /\ verified' = Unseen
  /\ \/ trusted' = saved /\ unsaved' = {}
     \/ "save" \in StoreFaults /\ trusted' = Unseen /\ unsaved' = {p \in Stored : saved[p] # NoStamp}
  /\ owes' = [t \in Threads |-> {}]
  /\ step' = [t \in Threads |-> "idle"] /\ seen' = [t \in Threads |-> Unseen]
  /\ rest' = [t \in Threads |-> {}] /\ fit' = [t \in Threads |-> {}]
  /\ UNCHANGED <<file, clock, saved, doing, at>>

Check(t) ==
  \/ List(t) \/ Turn(t)
  \/ Stat(t) \/ Look(t) \/ Mark(t) \/ Open(t) \/ Hash(t) \/ Remember(t) \/ Forget(t) \/ Save(t)

StoreNext ==
  \/ \E t \in Checkers : Scan(t) \/ \E p \in Stored : Begin(t, "check", p)
  \/ \E what \in {"download", "remove"}, p \in Stored : Begin(Installer, what, p)
  \/ \E t \in Threads : Check(t) \/ Fetch(t) \/ Replace(t) \/ Note(t) \/ Unlink(t)
  \/ \E p \in Stored : ByHand(p)
  \/ Crash

StoreSpec == StoreInit /\ [][StoreNext]_storeVars
=============================================================================
