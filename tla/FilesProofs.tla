----------------------------- MODULE FilesProofs -----------------------------
(***************************************************************************)
(* What the add-on keeps on the disk, for any packages, threads, catalog   *)
(* without cycles and faults.                                              *)
(*                                                                         *)
(* The caches of verified packages are sound.  The argument: a stamp is    *)
(* given once, so that what a stamp stood for does not change (Vouched); and*)
(* a thread that has seen a bad file and no good one since holds a stamp   *)
(* that nobody vouches for (Unfit).  Who changes a cache owes its save until*)
(* it has saved, and only a scan goes on with other packages meanwhile      *)
(* (Owed), where an unreadable package may end it (Open).                   *)
(*                                                                         *)
(* What the voice manager installs has what it requires, what it removes   *)
(* goes in the right order, and the last usable voice stays while Google TTS*)
(* is the synthesizer.  The argument: a removal's packages contain the     *)
(* dependents of all of them, and a dependent is deeper than what it depends*)
(* on.                                                                     *)
(*                                                                         *)
(* Only a verified update that was not cancelled is installed, and nothing *)
(* of an update stays in its folder.  The invariant says what the files are*)
(* at each point of the download's thread, what its outcome vouches for, and*)
(* what a check finds and leaves.                                          *)
(***************************************************************************)
EXTENDS MCFiles, FiniteSetTheorems, TLAPS

-----------------------------------------------------------------------------
(* The store of voice packages                                             *)

\* A file is there with a content and a stamp that has been given, or not at all.
Files ==
  \A p \in Stored :
    /\ file[p].stamp <= clock
    /\ file[p].content = "none" => file[p] = NoFile
    /\ file[p].content # "none" => file[p].stamp # NoStamp

\* The stamp s has been given, and was not given to a file that is not good.
Vouches(p, s) ==
  /\ s <= clock
  /\ file[p].content # "none" /\ file[p].stamp = s => file[p].content = "good"

\* Whatever a cache holds, or a thread is about to put in one, vouches for a good file.
Vouched ==
  /\ \A p \in Stored : Vouches(p, verified[p]) /\ Vouches(p, trusted[p]) /\ Vouches(p, saved[p])
  /\ \A t \in Threads :
       /\ \A p \in Stored : seen[t][p] <= clock
       /\ step[t] \in {"mark", "remember"} => Vouches(at[t], Seen(t))
       /\ step[t] = "note" => file[at[t]].content \in {"none", "good"}

\* A thread that has read a stamp and finds a good file now has had one since.
FitNow ==
  \A t \in Threads, p \in Stored :
    seen[t][p] # NoStamp /\ file[p].content = "good" => p \in fit[t]

\* Nobody vouches for the stamp of a thread that has had no good file.
CachesRefuse(u, p) ==
  seen[u][p] # NoStamp /\ p \notin fit[u] => seen[u][p] \notin {verified[p], trusted[p], saved[p]}
ThreadRefuses(u, v) ==
  step[v] \in {"mark", "remember"} /\ seen[u][at[v]] # NoStamp /\ at[v] \notin fit[u]
    => Seen(v) # seen[u][at[v]]
Unfit ==
  \A u \in Threads :
    (\A p \in Stored : CachesRefuse(u, p)) /\ (\A v \in Threads : ThreadRefuses(u, v))

\* What is saved last of a check was good.
FitAtEnd ==
  \A t \in Threads : step[t] = "save" /\ doing[t] # "scan" /\ Seen(t) # NoStamp => at[t] \in fit[t]

\* A thread owes a save only where it is about to save, or in a scan.
Owed == \A t \in Threads : owes[t] # {} => step[t] = "save" \/ Scanning(t)

StoreInv ==
  StoreTypeOK /\ Files /\ Vouched /\ FitNow /\ Unfit /\ FitAtEnd /\ Owed /\ NothingUnsaved

LEMMA StampsAreNatural == Stamps \subseteq Nat /\ NoStamp \in Stamps /\ 1 \in Stamps
  BY MaxStampIsPositive DEF Stamps, NoStamp

LEMMA NoFileIsNone == NoFile.content = "none" /\ NoFile.stamp = NoStamp /\ NoStamp = 0
  BY DEF NoFile, NoStamp

FileType == [content : {"none", "good", "bad", "short"}, stamp : Stamps]

\* The two parts of StoreTypeOK.
Sets ==
  /\ file \in [Stored -> FileType] /\ clock \in Stamps
  /\ verified \in [Stored -> Stamps] /\ trusted \in [Stored -> Stamps]
  /\ saved \in [Stored -> Stamps] /\ owes \in [Threads -> SUBSET Stored]
  /\ step \in [Threads -> Steps] /\ doing \in [Threads -> {"check", "scan", "download", "remove"}]
  /\ at \in [Threads -> Stored] /\ rest \in [Threads -> SUBSET Stored]
  /\ seen \in [Threads -> [Stored -> Stamps]]
  /\ fit \in [Threads -> SUBSET Stored] /\ unsaved \subseteq Stored

Places ==
  /\ \A t \in Checkers : doing[t] \in {"check", "scan"}
  /\ \A t \in Threads :
       /\ step[t] \in {"list", "next"} => doing[t] = "scan"
       /\ step[t] \in {"stat", "mark"} => doing[t] # "scan"
       /\ step[t] \in {"fetch", "replace", "note"} => doing[t] = "download"
       /\ step[t] = "unlink" => doing[t] = "remove"
       /\ step[t] \in {"look", "mark", "open", "hash", "remember"} => Seen(t) # NoStamp

LEMMA TypeParts == StoreTypeOK <=> Sets /\ Places
  BY DEF StoreTypeOK, Sets, Places, FileType

LEMMA InitStore == StoreInit => StoreInv
<1> SUFFICES ASSUME StoreInit PROVE StoreInv
  OBVIOUS
<1> USE StampsAreNatural, NoFileIsNone DEF StoreInit, Unseen
<1>0. \A p \in Stored : \/ file[p] = NoFile
                        \/ file[p] \in [content : {"good", "bad", "short"}, stamp : {1}]
  OBVIOUS
<1>1. Sets
  <2>1. NoFile \in FileType
    BY DEF NoFile, FileType
  <2>2. [content : {"good", "bad", "short"}, stamp : {1}] \subseteq FileType
    BY DEF FileType
  <2>3. file \in [Stored -> FileType]
    BY <2>1, <2>2
  <2>4. step \in [Threads -> Steps] /\ doing \in [Threads -> {"check", "scan", "download", "remove"}]
    BY DEF Steps
  <2> QED BY <2>3, <2>4 DEF Sets
<1>2. Places
  BY InstallerIsNoChecker DEF Places, Threads
<1>3. Files
  <2> SUFFICES ASSUME NEW p \in Stored
               PROVE  /\ file[p].stamp <= clock
                      /\ file[p].content = "none" => file[p] = NoFile
                      /\ file[p].content # "none" => file[p].stamp # NoStamp
    BY DEF Files
  <2>1. CASE file[p] = NoFile BY <2>1
  <2>2. CASE file[p] \in [content : {"good", "bad", "short"}, stamp : {1}] BY <2>2
  <2> QED BY <1>0, <2>1, <2>2
<1>4. Vouched
  BY <1>3, <1>1 DEF Vouched, Vouches, Files, Sets
<1>5. FitNow /\ Unfit /\ FitAtEnd
  BY DEF FitNow, Unfit, CachesRefuse, ThreadRefuses, FitAtEnd
<1>6. Owed /\ NothingUnsaved
  BY DEF Owed, NothingUnsaved
<1> QED BY <1>1, <1>2, <1>3, <1>4, <1>5, <1>6, TypeParts DEF StoreInv

-----------------------------------------------------------------------------
(* Types                                                                     *)

LEMMA BecomesTyped ==
  ASSUME Sets, NEW p \in Stored, NEW new \in FileType, Becomes(p, new)
  PROVE  /\ file' \in [Stored -> FileType] /\ fit' \in [Threads -> SUBSET Stored]
         /\ file' = [file EXCEPT ![p] = new]
  BY DEF Becomes, Sets

LEMMA NoFileTyped == NoFile \in FileType
  BY StampsAreNatural DEF NoFile, FileType

LEMMA NewFileTyped ==
  ASSUME Sets, clock < MaxStamp, NEW c \in {"good", "bad", "short"}
  PROVE  /\ clock + 1 \in Stamps
         /\ [content |-> c, stamp |-> clock + 1] \in FileType
<1>1. clock \in Nat /\ clock + 1 \in Stamps
  BY MaxStampIsPositive DEF Sets, Stamps
<1> QED BY <1>1 DEF FileType

LEMMA MeasuredTyped == ASSUME Sets, NEW p \in Stored PROVE Measured(p) \in Stamps
  BY StampsAreNatural DEF Sets, FileType, Measured

\* What a step does to what a thread has read.
LEMMA SeesIs ==
  ASSUME Sets, NEW t \in Threads, NEW p \in Stored, NEW s \in Stamps, Sees(t, p, s)
  PROVE  /\ seen' \in [Threads -> [Stored -> Stamps]]
         /\ seen'[t][p] = s
         /\ \A u \in Threads, q \in Stored : u # t \/ q # p => seen'[u][q] = seen[u][q]
  BY DEF Sees, Sets

LEMMA RestsIs ==
  ASSUME Sets, NEW t \in Threads, Rests(t)
  PROVE  /\ seen' \in [Threads -> [Stored -> Stamps]] /\ fit' \in [Threads -> SUBSET Stored]
         /\ step' = [step EXCEPT ![t] = "idle"] /\ step' \in [Threads -> Steps]
         /\ fit'[t] = {} /\ \A q \in Stored : seen'[t][q] = NoStamp
         /\ \A u \in Threads : u # t => seen'[u] = seen[u] /\ fit'[u] = fit[u]
  BY StampsAreNatural DEF Rests, Goes, Unseen, Sets, Steps

LEMMA ReadsIs ==
  ASSUME Sets, NEW t \in Threads, NEW p \in Stored, NEW s \in Stamps, Reads(t, p, s)
  PROVE  /\ seen' \in [Threads -> [Stored -> Stamps]] /\ fit' \in [Threads -> SUBSET Stored]
         /\ seen'[t][p] = s /\ (s # NoStamp /\ file[p].content = "good" => p \in fit'[t])
         /\ \A u \in Threads, q \in Stored : u # t \/ q # p =>
              seen'[u][q] = seen[u][q] /\ (q \in fit'[u] <=> q \in fit[u])
<1>1. fit' = [fit EXCEPT ![t] = IF s # NoStamp /\ file[p].content = "good"
                                  THEN @ \cup {p} ELSE @ \ {p}]
  BY DEF Reads
<1>2. fit' \in [Threads -> SUBSET Stored]
  <2>1. fit[t] \cup {p} \in SUBSET Stored /\ fit[t] \ {p} \in SUBSET Stored
    BY DEF Sets
  <2> QED BY <1>1, <2>1 DEF Sets
<1>3. /\ s # NoStamp /\ file[p].content = "good" => p \in fit'[t]
      /\ \A u \in Threads, q \in Stored : u # t \/ q # p => (q \in fit'[u] <=> q \in fit[u])
  BY <1>1 DEF Sets
<1> QED BY <1>2, <1>3, SeesIs DEF Reads

\* A package of a thread is decided, and its stamp forgotten.
LEMMA DropsIs ==
  ASSUME Sets, NEW t \in Threads, Sees(t, at[t], NoStamp), Unfits(t)
  PROVE  /\ seen' \in [Threads -> [Stored -> Stamps]] /\ fit' \in [Threads -> SUBSET Stored]
         /\ seen'[t][at[t]] = NoStamp
         /\ \A u \in Threads, q \in Stored : u # t \/ q # at[t] =>
              seen'[u][q] = seen[u][q] /\ (q \in fit'[u] <=> q \in fit[u])
<1>1. at[t] \in Stored
  BY DEF Sets
<1>2. /\ fit' \in [Threads -> SUBSET Stored]
      /\ \A u \in Threads, q \in Stored : u # t \/ q # at[t] => (q \in fit'[u] <=> q \in fit[u])
  BY DEF Unfits, Sets
<1> QED BY <1>1, <1>2, SeesIs, StampsAreNatural

LEMMA GoesTyped ==
  ASSUME Sets, NEW t \in Threads, NEW s \in Steps, Goes(t, s)
  PROVE  step' \in [Threads -> Steps]
  BY DEF Sets, Goes

LEMMA StepsAre ==
  /\ "idle" \in Steps /\ "list" \in Steps /\ "next" \in Steps /\ "stat" \in Steps
  /\ "look" \in Steps /\ "mark" \in Steps /\ "open" \in Steps /\ "hash" \in Steps
  /\ "remember" \in Steps /\ "forget" \in Steps /\ "save" \in Steps /\ "fetch" \in Steps
  /\ "replace" \in Steps /\ "note" \in Steps /\ "unlink" \in Steps
  BY DEF Steps

LEMMA AfterTyped == ASSUME Sets, NEW t \in Threads PROVE After(t) \in Steps
<1>1. doing[t] \in {"check", "scan", "download", "remove"}
  BY DEF Sets
<1> QED BY <1>1 DEF After, Steps

LEMMA SetsKept == Sets /\ [StoreNext]_storeVars => Sets'
<1> SUFFICES ASSUME Sets, [StoreNext]_storeVars PROVE Sets'
  OBVIOUS
<1>0. \A t \in Threads : at[t] \in Stored /\ Seen(t) \in Stamps
  BY DEF Sets, Seen
<1> USE <1>0, StampsAreNatural, NoFileIsNone, StepsAre, AfterTyped, GoesTyped
    DEF Sets, Of, cacheVars, threadVars
<1>1. ASSUME NEW t \in Checkers, NEW p \in Stored, Begin(t, "check", p) PROVE Sets'
  <2>1. (IF "check" = "remove" THEN "forget" ELSE "stat") \in Steps
    OBVIOUS
  <2>2. at' \in [Threads -> Stored] /\ doing' \in [Threads -> {"check", "scan", "download", "remove"}]
    BY <1>1, InstallerIsNoChecker DEF Begin, Threads
  <2> QED BY <1>1, <2>1, <2>2 DEF Begin, Threads
<1>2. ASSUME NEW what \in {"download", "remove"}, NEW p \in Stored, Begin(Installer, what, p) PROVE Sets'
  BY <1>2, InstallerIsNoChecker DEF Begin, Threads
<1>3. ASSUME NEW t \in Checkers, Scan(t) PROVE Sets'
  BY <1>3, InstallerIsNoChecker DEF Scan, Threads, Goes
<1>4. ASSUME NEW t \in Threads, List(t) PROVE Sets'
  <2>1. PICK p \in rest[t] :
          /\ Reads(t, p, Measured(p)) \/ Reads(t, p, NoStamp)
          /\ \/ rest' = [rest EXCEPT ![t] = Stored] /\ Goes(t, "next")
             \/ rest' = [rest EXCEPT ![t] = @ \ {p}] /\ UNCHANGED step
    BY <1>4 DEF List
  <2>2. p \in Stored /\ Measured(p) \in Stamps
    BY MeasuredTyped
  <2>3. seen' \in [Threads -> [Stored -> Stamps]] /\ fit' \in [Threads -> SUBSET Stored]
    BY <2>1, <2>2, ReadsIs
  <2>4. CASE rest' = [rest EXCEPT ![t] = Stored] /\ Goes(t, "next")
    <3>1. step' \in [Threads -> Steps]
      BY <2>4
    <3>2. rest' \in [Threads -> SUBSET Stored]
      BY <2>4
    <3> QED BY <1>4, <2>3, <3>1, <3>2 DEF List
  <2>5. CASE rest' = [rest EXCEPT ![t] = @ \ {p}] /\ UNCHANGED step
    BY <1>4, <2>3, <2>5 DEF List
  <2> QED BY <2>1, <2>4, <2>5
<1>5. ASSUME NEW t \in Threads, Turn(t) PROVE Sets'
  <2>1. step' \in [Threads -> Steps]
    BY <1>5 DEF Turn
  <2>2. at' \in [Threads -> Stored] /\ rest' \in [Threads -> SUBSET Stored]
    BY <1>5 DEF Turn
  <2> QED BY <1>5, <2>1, <2>2 DEF Turn
<1>6. ASSUME NEW t \in Threads, Stat(t) PROVE Sets'
  <2>1. seen' \in [Threads -> [Stored -> Stamps]] /\ fit' \in [Threads -> SUBSET Stored]
    BY <1>6, MeasuredTyped, ReadsIs DEF Stat
  <2> QED BY <1>6, <2>1 DEF Stat
<1>7. ASSUME NEW t \in Threads, Look(t) PROVE Sets'
  <2>1. CASE Decided(t) /\ verified' = [verified EXCEPT ![at[t]] = Seen(t)]
    <3>1. step' \in [Threads -> Steps]
      BY <2>1 DEF Decided
    <3> QED BY <1>7, <2>1, <3>1, DropsIs DEF Look, Decided
  <2>2. CASE UNCHANGED <<verified, seen, fit>> /\ Goes(t, IF trusted[at[t]] = Seen(t) THEN "mark" ELSE "open")
    <3>1. step' \in [Threads -> Steps]
      BY <2>2
    <3> QED BY <1>7, <2>2, <3>1 DEF Look
  <2> QED BY <1>7, <2>1, <2>2 DEF Look
<1>8. ASSUME NEW t \in Threads, Mark(t) PROVE Sets'
  <2>1. step' \in [Threads -> Steps]
    BY <1>8 DEF Mark, Decided
  <2> QED BY <1>8, <2>1, DropsIs DEF Mark, Decided
<1>9. ASSUME NEW t \in Threads, Open(t) PROVE Sets'
  <2>1. CASE Rests(t)
    BY <1>9, <2>1, RestsIs DEF Open
  <2>2. CASE Goes(t, "hash") /\ UNCHANGED <<owes, unsaved, rest, seen, fit>>
    BY <1>9, <2>2 DEF Open
  <2> QED BY <1>9, <2>1, <2>2 DEF Open
<1>10. ASSUME NEW t \in Threads, Hash(t) PROVE Sets'
  BY <1>10 DEF Hash
<1>11. ASSUME NEW t \in Threads, Remember(t) PROVE Sets'
  <2>1. /\ verified' \in [Stored -> Stamps] /\ trusted' \in [Stored -> Stamps]
        /\ owes' \in [Threads -> SUBSET Stored]
    BY <1>11 DEF Remember, Owes
  <2>2. CASE Decided(t)
    <3>1. step' \in [Threads -> Steps]
      BY <2>2 DEF Decided
    <3> QED BY <1>11, <2>1, <2>2, <3>1, DropsIs DEF Remember, Decided
  <2>3. CASE Goes(t, "save") /\ UNCHANGED <<seen, fit>>
    BY <1>11, <2>1, <2>3 DEF Remember
  <2> QED BY <1>11, <2>2, <2>3 DEF Remember
<1>12. ASSUME NEW t \in Threads, Forget(t) PROVE Sets'
  <2>1. /\ verified' \in [Stored -> Stamps] /\ trusted' \in [Stored -> Stamps]
        /\ owes' \in [Threads -> SUBSET Stored]
    BY <1>12 DEF Forget, Owes
  <2>2. step' \in [Threads -> Steps]
    BY <1>12 DEF Forget
  <2> QED BY <1>12, <2>1, <2>2, DropsIs DEF Forget
<1>13. ASSUME NEW t \in Threads, Save(t) PROVE Sets'
  <2>1. saved' \in [Stored -> Stamps] /\ owes' \in [Threads -> SUBSET Stored] /\ unsaved' \subseteq Stored
    BY <1>13 DEF Save
  <2>2. CASE Goes(t, After(t)) /\ UNCHANGED <<seen, fit>>
    BY <1>13, <2>1, <2>2 DEF Save
  <2>3. CASE Rests(t)
    BY <1>13, <2>1, <2>3, RestsIs DEF Save
  <2> QED BY <1>13, <2>2, <2>3 DEF Save
<1>14. ASSUME NEW t \in Threads, Fetch(t) PROVE Sets'
  <2>1. CASE Goes(t, "replace") /\ UNCHANGED <<seen, fit>>
    BY <1>14, <2>1 DEF Fetch
  <2>2. CASE Rests(t)
    BY <1>14, <2>2, RestsIs DEF Fetch
  <2> QED BY <1>14, <2>1, <2>2 DEF Fetch
<1>15. ASSUME NEW t \in Threads, Replace(t) PROVE Sets'
  <2>1. CASE Reading(at[t])
    BY <1>15, <2>1, RestsIs DEF Replace
  <2>2. CASE ~Reading(at[t])
    <3>1. /\ Becomes(at[t], [content |-> "good", stamp |-> clock + 1]) /\ clock < MaxStamp
          /\ clock' = clock + 1 /\ Goes(t, "note")
          /\ UNCHANGED <<verified, trusted, saved, owes, unsaved, doing, at, rest, seen>>
      BY <1>15, <2>2 DEF Replace
    <3>2. at[t] \in Stored
      OBVIOUS
    <3> QED BY <3>1, <3>2, NewFileTyped, BecomesTyped
  <2> QED BY <2>1, <2>2
<1>16. ASSUME NEW t \in Threads, Note(t) PROVE Sets'
  <2>1. file[at[t]].stamp \in Stamps
    BY DEF FileType
  <2>2. CASE Of(t) = NoFile BY <1>16, <2>2, RestsIs DEF Note
  <2>3. CASE Of(t) # NoFile BY <1>16, <2>1, <2>3, ReadsIs DEF Note
  <2> QED BY <2>2, <2>3
<1>17. ASSUME NEW t \in Threads, Unlink(t) PROVE Sets'
  <2>1. CASE Reading(at[t])
    BY <1>17, <2>1 DEF Unlink
  <2>2. CASE ~Reading(at[t])
    <3>1. /\ Becomes(at[t], NoFile) /\ Goes(t, "idle")
          /\ UNCHANGED <<clock, verified, trusted, saved, owes, unsaved, doing, at, rest, seen>>
      BY <1>17, <2>2 DEF Unlink
    <3>2. at[t] \in Stored
      OBVIOUS
    <3> QED BY <3>1, <3>2, NoFileTyped, BecomesTyped
  <2> QED BY <2>1, <2>2
<1>18. ASSUME NEW p \in Stored, ByHand(p) PROVE Sets'
  <2>1. UNCHANGED <<verified, trusted, saved, owes, unsaved, step, doing, at, rest, seen>>
    BY <1>18 DEF ByHand
  <2>2. CASE Becomes(p, NoFile) /\ UNCHANGED clock
    BY <2>1, <2>2, NoFileTyped, BecomesTyped
  <2>3. ASSUME clock < MaxStamp, NEW c \in {"good", "bad", "short"},
               Becomes(p, [content |-> c, stamp |-> clock + 1]), clock' = clock + 1
        PROVE  Sets'
    BY <2>1, <2>3, NewFileTyped, BecomesTyped
  <2> QED BY <1>18, <2>2, <2>3 DEF ByHand
<1>19. CASE Crash
  BY <1>19 DEF Crash, Unseen
<1>20. CASE UNCHANGED storeVars
  BY <1>20 DEF storeVars
<1> QED
  BY <1>1, <1>2, <1>3, <1>4, <1>5, <1>6, <1>7, <1>8, <1>9, <1>10, <1>11, <1>12, <1>13, <1>14, <1>15, <1>16, <1>17, <1>18, <1>19, <1>20
  DEF StoreNext, Check

LEMMA PlacesKept == StoreInv /\ [StoreNext]_storeVars => Places'
<1> SUFFICES ASSUME StoreInv, [StoreNext]_storeVars PROVE Places'
  OBVIOUS
<1>a. Sets
  BY TypeParts DEF StoreInv
<1>0. \A t \in Threads : at[t] \in Stored /\ Seen(t) \in Stamps
  BY <1>a DEF Sets, Seen
<1>b. ASSUME NEW t \in Threads, NEW p \in Stored, NEW s \in Stamps, Reads(t, p, s)
      PROVE  seen'[t][p] = s /\ \A u \in Threads, q \in Stored : u # t => seen'[u][q] = seen[u][q]
  BY <1>a, <1>b, ReadsIs
<1>c. ASSUME NEW t \in Threads, Decided(t)
      PROVE  \A u \in Threads, q \in Stored : u # t => seen'[u][q] = seen[u][q]
  BY <1>a, <1>c, DropsIs DEF Decided
<1> USE <1>0, TypeParts, NoFileIsNone, StampsAreNatural
    DEF StoreInv, Sets, Places, Goes, Of, Seen, cacheVars, threadVars
<1>1. ASSUME NEW t \in Checkers, NEW p \in Stored, Begin(t, "check", p) PROVE Places'
  BY <1>1, InstallerIsNoChecker DEF Begin, Threads
<1>2. ASSUME NEW what \in {"download", "remove"}, NEW p \in Stored, Begin(Installer, what, p) PROVE Places'
  BY <1>2, InstallerIsNoChecker DEF Begin, Threads
<1>3. ASSUME NEW t \in Checkers, Scan(t) PROVE Places'
  BY <1>3, InstallerIsNoChecker DEF Scan, Threads
<1>4. ASSUME NEW t \in Threads, List(t) PROVE Places'
  <2>1. PICK p \in rest[t] :
          /\ Reads(t, p, Measured(p)) \/ Reads(t, p, NoStamp)
          /\ Goes(t, "next") \/ UNCHANGED step
    BY <1>4 DEF List
  <2>2. p \in Stored /\ Measured(p) \in Stamps
    BY MeasuredTyped
  <2>3. \A u \in Threads, q \in Stored : u # t => seen'[u][q] = seen[u][q]
    BY <1>b, <2>1, <2>2
  <2> QED BY <1>4, <2>1, <2>3 DEF List
<1>5. ASSUME NEW t \in Threads, Turn(t) PROVE Places'
  BY <1>5 DEF Turn
<1>6. ASSUME NEW t \in Threads, Stat(t) PROVE Places'
  <2>1. /\ seen'[t][at[t]] = Measured(at[t])
        /\ \A u \in Threads, q \in Stored : u # t => seen'[u][q] = seen[u][q]
    BY <1>6, <1>b, MeasuredTyped DEF Stat
  <2> QED BY <1>6, <2>1 DEF Stat
<1>7. ASSUME NEW t \in Threads, Look(t) PROVE Places'
  BY <1>7, <1>c DEF Look, Decided
<1>8. ASSUME NEW t \in Threads, Mark(t) PROVE Places'
  <2>1. step' = [step EXCEPT ![t] = "idle"] /\ Decided(t) /\ UNCHANGED <<doing, at>>
    BY <1>8 DEF Mark, Decided
  <2> QED BY <1>c, <2>1
<1>9. ASSUME NEW t \in Threads, Open(t) PROVE Places'
  <2>1. CASE Rests(t)
    BY <1>9, <2>1, RestsIs DEF Open
  <2>2. CASE Goes(t, "hash") /\ UNCHANGED <<owes, unsaved, rest, seen, fit>>
    BY <1>9, <2>2 DEF Open
  <2> QED BY <1>9, <2>1, <2>2 DEF Open
<1>10. ASSUME NEW t \in Threads, Hash(t) PROVE Places'
  BY <1>10 DEF Hash
<1>11. ASSUME NEW t \in Threads, Remember(t) PROVE Places'
  <2>1. CASE Decided(t)
    <3>1. /\ step' = [step EXCEPT ![t] = IF doing[t] = "scan" THEN "next" ELSE "idle"] /\ doing[t] = "scan"
          /\ UNCHANGED <<doing, at>>
      BY <1>11, <2>1 DEF Remember, Decided
    <3> QED BY <1>c, <2>1, <3>1
  <2>2. CASE Goes(t, "save") /\ UNCHANGED <<seen, fit>>
    BY <1>11, <2>2 DEF Remember
  <2> QED BY <1>11, <2>1, <2>2 DEF Remember
<1>12. ASSUME NEW t \in Threads, Forget(t) PROVE Places'
  BY <1>12, DropsIs DEF Forget, After
<1>13. ASSUME NEW t \in Threads, Save(t) PROVE Places'
  BY <1>13, RestsIs DEF Save, After
<1>14. ASSUME NEW t \in Threads, Fetch(t) PROVE Places'
  BY <1>14, RestsIs DEF Fetch
<1>15. ASSUME NEW t \in Threads, Replace(t) PROVE Places'
  BY <1>15, RestsIs DEF Replace, Becomes
<1>16. ASSUME NEW t \in Threads, Note(t) PROVE Places'
  <2>1. CASE Of(t) = NoFile
    <3>1. Rests(t) /\ UNCHANGED <<doing, at>>
      BY <1>16, <2>1 DEF Note
    <3> QED BY <3>1, RestsIs
  <2>2. CASE Of(t) # NoFile
    <3>1. file[at[t]].stamp \in Stamps /\ file[at[t]].stamp # NoStamp
      BY <2>2 DEF Files, FileType
    <3>2. Reads(t, at[t], file[at[t]].stamp) /\ UNCHANGED <<doing, at>> /\ step[t] = "note"
          /\ step' = [step EXCEPT ![t] = "remember"]
      BY <1>16, <2>2 DEF Note
    <3>3. /\ seen'[t][at[t]] = file[at[t]].stamp
          /\ \A u \in Threads, q \in Stored : u # t => seen'[u][q] = seen[u][q]
      BY <1>b, <3>1, <3>2
    <3> QED BY <3>1, <3>2, <3>3
  <2> QED BY <2>1, <2>2
<1>17. ASSUME NEW t \in Threads, Unlink(t) PROVE Places'
  BY <1>17 DEF Unlink, Becomes
<1>18. ASSUME NEW p \in Stored, ByHand(p) PROVE Places'
  BY <1>18 DEF ByHand, Becomes
<1>19. CASE Crash
  BY <1>19 DEF Crash, Unseen
<1>20. CASE UNCHANGED storeVars
  BY <1>20 DEF storeVars
<1> QED
  BY <1>1, <1>2, <1>3, <1>4, <1>5, <1>6, <1>7, <1>8, <1>9, <1>10, <1>11, <1>12, <1>13, <1>14, <1>15, <1>16, <1>17, <1>18, <1>19, <1>20
  DEF StoreNext, Check

-----------------------------------------------------------------------------
(* Files and stamps                                                          *)

\* A file stays as it is, goes, or comes with a new stamp.
FileStep ==
  \/ UNCHANGED <<file, clock>>
  \/ \E p \in Stored : file' = [file EXCEPT ![p] = NoFile] /\ UNCHANGED clock
  \/ \E p \in Stored, c \in {"good", "bad", "short"} :
       /\ file' = [file EXCEPT ![p] = [content |-> c, stamp |-> clock + 1]]
       /\ clock' = clock + 1

LEMMA AnyFileStep == StoreTypeOK /\ [StoreNext]_storeVars => FileStep
<1> SUFFICES ASSUME StoreTypeOK, [StoreNext]_storeVars PROVE FileStep
  OBVIOUS
<1> USE TypeParts DEF FileStep, Sets, Becomes, Of, cacheVars, threadVars
<1>1. ASSUME NEW t \in Checkers, NEW p \in Stored, Begin(t, "check", p) PROVE FileStep
  BY <1>1, InstallerIsNoChecker DEF Begin, Threads
<1>2. ASSUME NEW what \in {"download", "remove"}, NEW p \in Stored, Begin(Installer, what, p) PROVE FileStep
  BY <1>2, InstallerIsNoChecker DEF Begin, Threads
<1>3. ASSUME NEW t \in Checkers, Scan(t) PROVE FileStep
  BY <1>3, InstallerIsNoChecker DEF Scan, Threads
<1>4. ASSUME NEW t \in Threads, List(t) PROVE FileStep
  BY <1>4 DEF List, Reads
<1>5. ASSUME NEW t \in Threads, Turn(t) PROVE FileStep
  BY <1>5 DEF Turn
<1>6. ASSUME NEW t \in Threads, Stat(t) PROVE FileStep
  BY <1>6 DEF Stat, Reads
<1>7. ASSUME NEW t \in Threads, Look(t) PROVE FileStep
  BY <1>7 DEF Look
<1>8. ASSUME NEW t \in Threads, Mark(t) PROVE FileStep
  BY <1>8 DEF Mark
<1>9. ASSUME NEW t \in Threads, Open(t) PROVE FileStep
  BY <1>9 DEF Open
<1>10. ASSUME NEW t \in Threads, Hash(t) PROVE FileStep
  BY <1>10 DEF Hash
<1>11. ASSUME NEW t \in Threads, Remember(t) PROVE FileStep
  BY <1>11 DEF Remember
<1>12. ASSUME NEW t \in Threads, Forget(t) PROVE FileStep
  BY <1>12 DEF Forget, After
<1>13. ASSUME NEW t \in Threads, Save(t) PROVE FileStep
  BY <1>13 DEF Save, After
<1>14. ASSUME NEW t \in Threads, Fetch(t) PROVE FileStep
  BY <1>14 DEF Fetch
<1>15. ASSUME NEW t \in Threads, Replace(t) PROVE FileStep
  BY <1>15 DEF Replace
<1>16. ASSUME NEW t \in Threads, Note(t) PROVE FileStep
  BY <1>16 DEF Note, Reads
<1>17. ASSUME NEW t \in Threads, Unlink(t) PROVE FileStep
  BY <1>17 DEF Unlink
<1>18. ASSUME NEW p \in Stored, ByHand(p) PROVE FileStep
  BY <1>18 DEF ByHand
<1>19. CASE Crash
  BY <1>19 DEF Crash
<1>20. CASE UNCHANGED storeVars
  BY <1>20 DEF storeVars
<1> QED
  BY <1>1, <1>2, <1>3, <1>4, <1>5, <1>6, <1>7, <1>8, <1>9, <1>10, <1>11, <1>12, <1>13, <1>14, <1>15, <1>16, <1>17, <1>18, <1>19, <1>20
  DEF StoreNext, Check

LEMMA FilesKept == StoreInv /\ FileStep => Files'
<1> SUFFICES ASSUME StoreInv, FileStep, NEW p \in Stored
             PROVE  /\ file'[p].stamp <= clock'
                    /\ file'[p].content = "none" => file'[p] = NoFile
                    /\ file'[p].content # "none" => file'[p].stamp # NoStamp
  BY DEF Files
<1>0. /\ clock \in Nat /\ file[p] \in FileType /\ file[p].stamp \in Nat
      /\ file \in [Stored -> FileType]
  BY TypeParts, StampsAreNatural DEF StoreInv, Sets, FileType
<1> USE <1>0, NoFileIsNone DEF StoreInv, Files, FileStep
<1>1. CASE UNCHANGED <<file, clock>> BY <1>1
<1>2. ASSUME NEW q \in Stored, file' = [file EXCEPT ![q] = NoFile], UNCHANGED clock
      PROVE  /\ file'[p].stamp <= clock'
             /\ file'[p].content = "none" => file'[p] = NoFile
             /\ file'[p].content # "none" => file'[p].stamp # NoStamp
  BY <1>2
<1>3. ASSUME NEW q \in Stored, NEW c \in {"good", "bad", "short"}, clock' = clock + 1,
             file' = [file EXCEPT ![q] = [content |-> c, stamp |-> clock + 1]]
      PROVE  /\ file'[p].stamp <= clock'
             /\ file'[p].content = "none" => file'[p] = NoFile
             /\ file'[p].content # "none" => file'[p].stamp # NoStamp
  <2>1. CASE p = q BY <1>3, <2>1
  <2>2. CASE p # q BY <1>3, <2>2
  <2> QED BY <2>1, <2>2
<1> QED BY <1>1, <1>2, <1>3

\* What a stamp vouches for, it vouches for ever.
LEMMA VouchesForEver ==
  ASSUME StoreInv, FileStep, NEW p \in Stored, NEW s \in Stamps, Vouches(p, s)
  PROVE  Vouches(p, s)'
<1>0. /\ clock \in Nat /\ s \in Nat /\ file \in [Stored -> FileType]
  BY TypeParts, StampsAreNatural DEF StoreInv, Sets, FileType
<1> USE <1>0, NoFileIsNone DEF Vouches, FileStep
<1>1. CASE UNCHANGED <<file, clock>> BY <1>1
<1>2. ASSUME NEW q \in Stored, file' = [file EXCEPT ![q] = NoFile], UNCHANGED clock
      PROVE  Vouches(p, s)'
  <2>1. CASE p = q BY <1>2, <2>1
  <2>2. CASE p # q BY <1>2, <2>2
  <2> QED BY <2>1, <2>2
<1>3. ASSUME NEW q \in Stored, NEW c \in {"good", "bad", "short"}, clock' = clock + 1,
             file' = [file EXCEPT ![q] = [content |-> c, stamp |-> clock + 1]]
      PROVE  Vouches(p, s)'
  <2>1. CASE p = q BY <1>3, <2>1
  <2>2. CASE p # q BY <1>3, <2>2
  <2> QED BY <2>1, <2>2
<1> QED BY <1>1, <1>2, <1>3

LEMMA NoStampVouches == ASSUME StoreInv, NEW p \in Stored PROVE Vouches(p, NoStamp)
<1>1. clock \in Nat
  BY TypeParts, StampsAreNatural DEF StoreInv, Sets
<1> QED BY <1>1, NoFileIsNone DEF StoreInv, Files, Vouches

\* A file that is there and good vouches for its stamp, and so does it for any stamp
\* that has been given.
LEMMA GoodVouches ==
  ASSUME NEW p \in Stored, NEW s, s <= clock, file[p].content \in {"none", "good"}
  PROVE  Vouches(p, s)
  BY DEF Vouches

\* What a step puts in a cache was vouched for before it.
Filled(q) ==
  Vouches(q, verified'[q]) /\ Vouches(q, trusted'[q]) /\ Vouches(q, saved'[q])

LEMMA CachesFilled ==
  ASSUME StoreInv, NEW q \in Stored, [StoreNext]_storeVars
  PROVE  Filled(q)
<1> USE TypeParts, NoStampVouches DEF Filled, StoreInv, Vouched, Sets, Of, Seen, cacheVars, threadVars
<1>1. ASSUME NEW t \in Checkers, NEW p \in Stored, Begin(t, "check", p) PROVE Filled(q)
  BY <1>1, InstallerIsNoChecker DEF Begin, Threads
<1>2. ASSUME NEW what \in {"download", "remove"}, NEW p \in Stored, Begin(Installer, what, p) PROVE Filled(q)
  BY <1>2, InstallerIsNoChecker DEF Begin, Threads
<1>3. ASSUME NEW t \in Checkers, Scan(t) PROVE Filled(q)
  BY <1>3, InstallerIsNoChecker DEF Scan, Threads
<1>4. ASSUME NEW t \in Threads, List(t) PROVE Filled(q)
  BY <1>4 DEF List, Reads
<1>5. ASSUME NEW t \in Threads, Turn(t) PROVE Filled(q)
  BY <1>5 DEF Turn
<1>6. ASSUME NEW t \in Threads, Stat(t) PROVE Filled(q)
  BY <1>6 DEF Stat, Reads
<1>7. ASSUME NEW t \in Threads, Look(t) PROVE Filled(q)
  BY <1>7 DEF Look
<1>8. ASSUME NEW t \in Threads, Mark(t) PROVE Filled(q)
  BY <1>8 DEF Mark
<1>9. ASSUME NEW t \in Threads, Open(t) PROVE Filled(q)
  BY <1>9 DEF Open
<1>10. ASSUME NEW t \in Threads, Hash(t) PROVE Filled(q)
  BY <1>10 DEF Hash
<1>11. ASSUME NEW t \in Threads, Remember(t) PROVE Filled(q)
  BY <1>11 DEF Remember
<1>12. ASSUME NEW t \in Threads, Forget(t) PROVE Filled(q)
  BY <1>12 DEF Forget, After
<1>13. ASSUME NEW t \in Threads, Save(t) PROVE Filled(q)
  BY <1>13 DEF Save, After
<1>14. ASSUME NEW t \in Threads, Fetch(t) PROVE Filled(q)
  BY <1>14 DEF Fetch
<1>15. ASSUME NEW t \in Threads, Replace(t) PROVE Filled(q)
  BY <1>15 DEF Replace
<1>16. ASSUME NEW t \in Threads, Note(t) PROVE Filled(q)
  BY <1>16 DEF Note, Reads
<1>17. ASSUME NEW t \in Threads, Unlink(t) PROVE Filled(q)
  BY <1>17 DEF Unlink
<1>18. ASSUME NEW p \in Stored, ByHand(p) PROVE Filled(q)
  BY <1>18 DEF ByHand
<1>19. CASE Crash
  BY <1>19 DEF Crash, Unseen
<1>20. CASE UNCHANGED storeVars
  BY <1>20 DEF storeVars
<1> QED
  BY <1>1, <1>2, <1>3, <1>4, <1>5, <1>6, <1>7, <1>8, <1>9, <1>10, <1>11, <1>12, <1>13, <1>14, <1>15, <1>16, <1>17, <1>18, <1>19, <1>20
  DEF StoreNext, Check

\* What a thread has read of a package after a step: nothing, what it had read before, or
\* the stamp of the file; and a good file is noted.
SeenStep(u, q) ==
  \/ seen'[u][q] = NoStamp
  \/ seen'[u][q] = seen[u][q] /\ (q \in fit[u] => q \in fit'[u])
  \/ /\ file[q].content # "none" /\ seen'[u][q] = file[q].stamp
     /\ file[q].content = "good" => q \in fit'[u]

LEMMA SeenSteps ==
  ASSUME StoreInv, NEW u \in Threads, NEW q \in Stored, [StoreNext]_storeVars
  PROVE  SeenStep(u, q)
<1>a. Sets
  BY TypeParts DEF StoreInv
<1>b. ASSUME NEW t \in Threads, NEW p \in Stored, NEW s \in Stamps, Reads(t, p, s),
             s = NoStamp \/ (file[p].content # "none" /\ s = file[p].stamp)
      PROVE  SeenStep(u, q)
  <2>1. CASE u = t /\ q = p BY <1>a, <1>b, <2>1, ReadsIs DEF SeenStep
  <2>2. CASE u # t \/ q # p BY <1>a, <1>b, <2>2, ReadsIs DEF SeenStep
  <2> QED BY <2>1, <2>2
<1>c. ASSUME NEW t \in Threads, Sees(t, at[t], NoStamp), Unfits(t) PROVE SeenStep(u, q)
  BY <1>a, <1>c, DropsIs DEF SeenStep
<1>d. ASSUME NEW t \in Threads, Rests(t) PROVE SeenStep(u, q)
  BY <1>a, <1>d, RestsIs DEF SeenStep
<1>e. UNCHANGED <<seen, fit>> => SeenStep(u, q)
  BY DEF SeenStep
<1>f. ASSUME NEW p \in Stored, NEW new, Becomes(p, new), UNCHANGED seen PROVE SeenStep(u, q)
  BY <1>a, <1>f DEF SeenStep, Becomes, Sets
<1>g. \A p \in Stored : Measured(p) = NoStamp \/ (file[p].content # "none" /\ Measured(p) = file[p].stamp)
  BY DEF Measured
<1>h. \A t \in Threads : at[t] \in Stored /\ file[at[t]].stamp \in Stamps
  BY <1>a DEF Sets, FileType
<1> USE DEF cacheVars, threadVars, Of
<1>1. ASSUME NEW t \in Checkers, NEW p \in Stored, Begin(t, "check", p) PROVE SeenStep(u, q)
  BY <1>e, <1>1 DEF Begin
<1>2. ASSUME NEW what \in {"download", "remove"}, NEW p \in Stored, Begin(Installer, what, p) PROVE SeenStep(u, q)
  BY <1>e, <1>2 DEF Begin
<1>3. ASSUME NEW t \in Checkers, Scan(t) PROVE SeenStep(u, q)
  BY <1>e, <1>3 DEF Scan
<1>4. ASSUME NEW t \in Threads, List(t) PROVE SeenStep(u, q)
  <2>1. PICK p \in rest[t] : Reads(t, p, Measured(p)) \/ Reads(t, p, NoStamp)
    BY <1>4 DEF List
  <2>2. p \in Stored
    BY <1>a, <1>4 DEF Sets
  <2>3. Measured(p) \in Stamps
    BY <1>a, <2>2, MeasuredTyped
  <2> QED BY <1>b, <1>g, <2>1, <2>2, <2>3, StampsAreNatural
<1>5. ASSUME NEW t \in Threads, Turn(t) PROVE SeenStep(u, q)
  BY <1>e, <1>5 DEF Turn
<1>6. ASSUME NEW t \in Threads, Stat(t) PROVE SeenStep(u, q)
  BY <1>a, <1>b, <1>g, <1>h, <1>6, MeasuredTyped DEF Stat
<1>7. ASSUME NEW t \in Threads, Look(t) PROVE SeenStep(u, q)
  BY <1>c, <1>e, <1>7 DEF Look, Decided
<1>8. ASSUME NEW t \in Threads, Mark(t) PROVE SeenStep(u, q)
  BY <1>c, <1>8 DEF Mark, Decided
<1>9. ASSUME NEW t \in Threads, Open(t) PROVE SeenStep(u, q)
  BY <1>d, <1>e, <1>9 DEF Open
<1>10. ASSUME NEW t \in Threads, Hash(t) PROVE SeenStep(u, q)
  BY <1>e, <1>10 DEF Hash
<1>11. ASSUME NEW t \in Threads, Remember(t) PROVE SeenStep(u, q)
  BY <1>c, <1>e, <1>11 DEF Remember, Decided
<1>12. ASSUME NEW t \in Threads, Forget(t) PROVE SeenStep(u, q)
  BY <1>c, <1>12 DEF Forget
<1>13. ASSUME NEW t \in Threads, Save(t) PROVE SeenStep(u, q)
  BY <1>d, <1>e, <1>13 DEF Save
<1>14. ASSUME NEW t \in Threads, Fetch(t) PROVE SeenStep(u, q)
  BY <1>d, <1>e, <1>14 DEF Fetch
<1>15. ASSUME NEW t \in Threads, Replace(t) PROVE SeenStep(u, q)
  BY <1>d, <1>f, <1>h, <1>15 DEF Replace
<1>16. ASSUME NEW t \in Threads, Note(t) PROVE SeenStep(u, q)
  <2>1. CASE Rests(t) BY <1>d, <2>1
  <2>2. CASE file[at[t]] # NoFile /\ Reads(t, at[t], file[at[t]].stamp)
    <3>1. file[at[t]].content # "none"
      BY <1>h, <2>2 DEF StoreInv, Files
    <3> QED BY <1>b, <1>h, <2>2, <3>1
  <2> QED BY <1>16, <2>1, <2>2 DEF Note
<1>17. ASSUME NEW t \in Threads, Unlink(t) PROVE SeenStep(u, q)
  BY <1>e, <1>f, <1>h, <1>17 DEF Unlink
<1>18. ASSUME NEW p \in Stored, ByHand(p) PROVE SeenStep(u, q)
  BY <1>f, <1>18 DEF ByHand
<1>19. CASE Crash
  BY <1>19 DEF Crash, Unseen, SeenStep
<1>20. CASE UNCHANGED storeVars
  BY <1>e, <1>20 DEF storeVars
<1> QED
  BY <1>1, <1>2, <1>3, <1>4, <1>5, <1>6, <1>7, <1>8, <1>9, <1>10, <1>11, <1>12, <1>13, <1>14, <1>15, <1>16, <1>17, <1>18, <1>19, <1>20
  DEF StoreNext, Check

\* What a thread is about to put in a cache after a step: what it was about to before, a
\* stamp that a cache holds, or that of a file which is good.
Held(v, p, s) ==
  \/ step[v] \in {"mark", "remember"} /\ p = at[v] /\ s = Seen(v)
  \/ p \in Stored /\ s = trusted[p]
  \/ p \in Stored /\ file[p].content = "good"
HeldStep(v) == step'[v] \in {"mark", "remember"} => Held(v, at'[v], seen'[v][at'[v]])

LEMMA HeldSteps ==
  ASSUME StoreInv, NEW u \in Threads, [StoreNext]_storeVars
  PROVE  HeldStep(u)
<1>a. Sets
  BY TypeParts DEF StoreInv
<1>0. \A t \in Threads : at[t] \in Stored /\ file[at[t]].stamp \in Stamps
  BY <1>a DEF Sets, FileType
<1>b. ASSUME NEW t \in Threads, NEW p \in Stored, NEW s \in Stamps, Reads(t, p, s), UNCHANGED at,
             step'[t] \notin {"mark", "remember"} \/ (p = at[t] /\ file[p].content = "good"),
             \A v \in Threads : v # t => step'[v] = step[v]
      PROVE  HeldStep(u)
  <2>1. \A v \in Threads, q \in Stored : v # t \/ q # p => seen'[v][q] = seen[v][q]
    BY <1>a, <1>b, ReadsIs
  <2>2. CASE u = t
    BY <1>0, <1>b, <2>2 DEF HeldStep, Held
  <2>3. CASE u # t
    BY <1>0, <1>b, <2>1, <2>3 DEF HeldStep, Held, Seen
  <2> QED BY <2>2, <2>3
<1>c. ASSUME NEW t \in Threads, Sees(t, at[t], NoStamp), Unfits(t), UNCHANGED at,
             step'[t] \notin {"mark", "remember"}, \A v \in Threads : v # t => step'[v] = step[v]
      PROVE  HeldStep(u)
  <2>1. \A v \in Threads, q \in Stored : v # t => seen'[v][q] = seen[v][q]
    BY <1>a, <1>c, DropsIs
  <2> QED BY <1>0, <1>c, <2>1 DEF HeldStep, Held, Seen
<1>d. ASSUME NEW t \in Threads, Rests(t), UNCHANGED at PROVE HeldStep(u)
  <2>1. /\ step' = [step EXCEPT ![t] = "idle"]
        /\ \A v \in Threads : v # t => seen'[v] = seen[v]
    BY <1>a, <1>d, RestsIs
  <2>2. step'[t] = "idle" /\ (u # t => step'[u] = step[u])
    BY <1>a, <2>1 DEF Sets
  <2> QED BY <1>0, <1>d, <2>1, <2>2 DEF HeldStep, Held, Seen
<1>e. ASSUME NEW t \in Threads, UNCHANGED seen, \A v \in Threads : v # t => at'[v] = at[v] /\ step'[v] = step[v],
             step'[t] \notin {"mark", "remember"} \/ (UNCHANGED at /\ Held(t, at[t], Seen(t)))
      PROVE  HeldStep(u)
  <2>1. CASE u = t
    BY <1>e, <2>1 DEF HeldStep, Seen
  <2>2. CASE u # t
    BY <1>e, <2>2 DEF HeldStep, Held, Seen
  <2> QED BY <2>1, <2>2
<1>f. \A t \in Threads, s \in Steps : Goes(t, s) =>
        step'[t] = s /\ \A v \in Threads : v # t => step'[v] = step[v]
  BY <1>a DEF Goes, Sets
<1>g. UNCHANGED <<at, seen, step>> => HeldStep(u)
  BY DEF HeldStep, Held, Seen
<1>h. \A p \in Stored : Measured(p) \in Stamps
  BY <1>a, MeasuredTyped
<1> USE StepsAre DEF cacheVars, threadVars
<1>1. ASSUME NEW t \in Checkers, NEW p \in Stored, Begin(t, "check", p) PROVE HeldStep(u)
  <2>1. t \in Threads /\ UNCHANGED seen /\ Goes(t, "stat")
    BY <1>1 DEF Begin, Threads
  <2>2. \A v \in Threads : v # t => at'[v] = at[v]
    BY <1>a, <1>1 DEF Begin, Sets
  <2> QED BY <1>e, <1>f, <2>1, <2>2
<1>2. ASSUME NEW what \in {"download", "remove"}, NEW p \in Stored, Begin(Installer, what, p) PROVE HeldStep(u)
  <2>1. Installer \in Threads /\ UNCHANGED seen /\ (Goes(Installer, "stat") \/ Goes(Installer, "forget"))
    BY <1>2 DEF Begin, Threads
  <2>2. \A v \in Threads : v # Installer => at'[v] = at[v]
    BY <1>a, <1>2 DEF Begin, Sets
  <2> QED BY <1>e, <1>f, <2>1, <2>2
<1>3. ASSUME NEW t \in Checkers, Scan(t) PROVE HeldStep(u)
  <2>1. t \in Threads /\ UNCHANGED <<seen, at>> /\ Goes(t, "list")
    BY <1>3 DEF Scan, Threads
  <2> QED BY <1>e, <1>f, <2>1
<1>4. ASSUME NEW t \in Threads, List(t) PROVE HeldStep(u)
  <2>1. PICK p \in rest[t] :
          /\ Reads(t, p, Measured(p)) \/ Reads(t, p, NoStamp)
          /\ Goes(t, "next") \/ UNCHANGED step
    BY <1>4 DEF List
  <2>2. p \in Stored /\ UNCHANGED at /\ step[t] = "list"
    BY <1>a, <1>4 DEF List, Sets
  <2>3. step'[t] \notin {"mark", "remember"} /\ \A v \in Threads : v # t => step'[v] = step[v]
    BY <1>f, <2>1, <2>2
  <2> QED BY <1>b, <1>h, <2>1, <2>2, <2>3, StampsAreNatural
<1>5. ASSUME NEW t \in Threads, Turn(t) PROVE HeldStep(u)
  <2>1. UNCHANGED seen /\ \E s \in {"forget", "look", "idle", "save"} : Goes(t, s)
    BY <1>5 DEF Turn
  <2>2. \A v \in Threads : v # t => at'[v] = at[v]
    BY <1>a, <1>5 DEF Turn, Sets
  <2> QED BY <1>e, <1>f, <2>1, <2>2
<1>6. ASSUME NEW t \in Threads, Stat(t) PROVE HeldStep(u)
  <2>1. Reads(t, at[t], Measured(at[t])) /\ UNCHANGED at /\ \E s \in {"forget", "look"} : Goes(t, s)
    BY <1>6 DEF Stat
  <2> QED BY <1>0, <1>b, <1>f, <1>h, <2>1
<1>7. ASSUME NEW t \in Threads, Look(t) PROVE HeldStep(u)
  <2>1. CASE Decided(t)
    <3>1. Sees(t, at[t], NoStamp) /\ Unfits(t) /\ UNCHANGED at /\ \E s \in {"next", "idle"} : Goes(t, s)
      BY <1>7, <2>1 DEF Look, Decided
    <3> QED BY <1>c, <1>f, <3>1
  <2>2. CASE UNCHANGED seen /\ Goes(t, "mark") /\ trusted[at[t]] = Seen(t)
    <3>1. Held(t, at[t], Seen(t)) /\ UNCHANGED at
      BY <1>0, <1>7, <2>2 DEF Look, Held
    <3> QED BY <1>e, <1>f, <2>2, <3>1
  <2>3. CASE UNCHANGED seen /\ Goes(t, "open")
    <3>1. UNCHANGED at
      BY <1>7 DEF Look
    <3> QED BY <1>e, <1>f, <2>3, <3>1
  <2> QED BY <1>7, <2>1, <2>2, <2>3 DEF Look
<1>8. ASSUME NEW t \in Threads, Mark(t) PROVE HeldStep(u)
  <2>1. Sees(t, at[t], NoStamp) /\ Unfits(t) /\ UNCHANGED at /\ \E s \in {"next", "idle"} : Goes(t, s)
    BY <1>8 DEF Mark, Decided
  <2> QED BY <1>c, <1>f, <2>1
<1>9. ASSUME NEW t \in Threads, Open(t) PROVE HeldStep(u)
  <2>1. CASE Rests(t) BY <1>d, <1>9, <2>1 DEF Open
  <2>2. CASE Goes(t, "hash") /\ UNCHANGED <<owes, unsaved, rest, seen, fit>>
    BY <1>e, <1>f, <1>9, <2>2 DEF Open
  <2> QED BY <1>9, <2>1, <2>2 DEF Open
<1>10. ASSUME NEW t \in Threads, Hash(t) PROVE HeldStep(u)
  <2>1. UNCHANGED <<seen, at>> /\ \E s \in {"remember", "forget"} : Goes(t, s)
    BY <1>10 DEF Hash
  <2>2. Held(t, at[t], Seen(t)) \/ Goes(t, "forget")
    BY <1>0, <1>10 DEF Hash, Of, Held
  <2> QED BY <1>e, <1>f, <2>1, <2>2
<1>11. ASSUME NEW t \in Threads, Remember(t) PROVE HeldStep(u)
  <2>1. CASE Decided(t)
    <3>1. Sees(t, at[t], NoStamp) /\ Unfits(t) /\ UNCHANGED at /\ \E s \in {"next", "idle"} : Goes(t, s)
      BY <1>11, <2>1 DEF Remember, Decided
    <3> QED BY <1>c, <1>f, <3>1
  <2>2. CASE Goes(t, "save") /\ UNCHANGED <<seen, fit>>
    BY <1>e, <1>f, <1>11, <2>2 DEF Remember
  <2> QED BY <1>11, <2>1, <2>2 DEF Remember
<1>12. ASSUME NEW t \in Threads, Forget(t) PROVE HeldStep(u)
  <2>1. /\ Sees(t, at[t], NoStamp) /\ Unfits(t) /\ UNCHANGED at
        /\ \E s \in {"idle", "next", "fetch", "unlink", "save"} : Goes(t, s)
    BY <1>a, <1>12 DEF Forget, After, Sets
  <2> QED BY <1>c, <1>f, <2>1
<1>13. ASSUME NEW t \in Threads, Save(t) PROVE HeldStep(u)
  <2>1. CASE Rests(t) BY <1>d, <1>13, <2>1 DEF Save
  <2>2. CASE Goes(t, After(t)) /\ UNCHANGED <<seen, fit>>
    <3>1. UNCHANGED <<seen, at>> /\ \E s \in {"idle", "next", "fetch", "unlink"} : Goes(t, s)
      BY <1>a, <1>13, <2>2 DEF Save, After, Sets
    <3> QED BY <1>e, <1>f, <3>1
  <2> QED BY <1>13, <2>1, <2>2 DEF Save
<1>14. ASSUME NEW t \in Threads, Fetch(t) PROVE HeldStep(u)
  <2>1. CASE Rests(t) BY <1>d, <1>14, <2>1 DEF Fetch
  <2>2. CASE Goes(t, "replace") /\ UNCHANGED <<seen, fit>>
    BY <1>e, <1>f, <1>14, <2>2 DEF Fetch
  <2> QED BY <1>14, <2>1, <2>2 DEF Fetch
<1>15. ASSUME NEW t \in Threads, Replace(t) PROVE HeldStep(u)
  <2>1. CASE Rests(t) BY <1>d, <1>15, <2>1 DEF Replace
  <2>2. CASE Goes(t, "note") /\ UNCHANGED seen
    BY <1>e, <1>f, <1>15, <2>2 DEF Replace
  <2> QED BY <1>15, <2>1, <2>2 DEF Replace
<1>16. ASSUME NEW t \in Threads, Note(t) PROVE HeldStep(u)
  <2>1. CASE Rests(t) BY <1>d, <1>16, <2>1 DEF Note
  <2>2. CASE Of(t) # NoFile /\ Reads(t, at[t], Of(t).stamp) /\ Goes(t, "remember")
    <3>1. UNCHANGED at /\ file[at[t]].content \in {"none", "good"}
      BY <1>16 DEF Note, StoreInv, Vouched
    <3>2. file[at[t]].content = "good"
      BY <1>0, <2>2, <3>1 DEF Of, StoreInv, Files
    <3> QED BY <1>0, <1>b, <1>f, <2>2, <3>1, <3>2 DEF Of
  <2> QED BY <1>16, <2>1, <2>2 DEF Note
<1>17. ASSUME NEW t \in Threads, Unlink(t) PROVE HeldStep(u)
  <2>1. UNCHANGED <<seen, at>> /\ Goes(t, "idle")
    BY <1>17 DEF Unlink
  <2> QED BY <1>e, <1>f, <2>1
<1>18. ASSUME NEW p \in Stored, ByHand(p) PROVE HeldStep(u)
  BY <1>g, <1>18 DEF ByHand
<1>19. CASE Crash
  BY <1>19 DEF Crash, HeldStep
<1>20. CASE UNCHANGED storeVars
  BY <1>g, <1>20 DEF storeVars
<1> QED
  BY <1>1, <1>2, <1>3, <1>4, <1>5, <1>6, <1>7, <1>8, <1>9, <1>10, <1>11, <1>12, <1>13, <1>14, <1>15, <1>16, <1>17, <1>18, <1>19, <1>20
  DEF StoreNext, Check

\* So what a thread holds was vouched for before the step.
Holding(u) ==
  /\ \A q \in Stored : seen'[u][q] <= clock
  /\ step'[u] \in {"mark", "remember"} => Vouches(at'[u], seen'[u][at'[u]])

LEMMA StampsHeld ==
  ASSUME StoreInv, NEW u \in Threads, [StoreNext]_storeVars
  PROVE  Holding(u)
<1>1. Sets
  BY TypeParts DEF StoreInv
<1>2. clock \in Nat /\ NoStamp <= clock
  BY <1>1, StampsAreNatural DEF Sets, NoStamp
<1>3. \A q \in Stored : seen'[u][q] <= clock
  BY <1>2, SeenSteps DEF SeenStep, StoreInv, Files, Vouched
<1>4. at'[u] \in Stored
  BY <1>1, SetsKept DEF Sets
<1>5. step'[u] \in {"mark", "remember"} => Vouches(at'[u], seen'[u][at'[u]])
  <2> SUFFICES ASSUME Held(u, at'[u], seen'[u][at'[u]]) PROVE Vouches(at'[u], seen'[u][at'[u]])
    BY HeldSteps DEF HeldStep
  <2> QED BY <1>3, <1>4, GoodVouches DEF Held, StoreInv, Vouched
<1> QED BY <1>3, <1>5 DEF Holding

\* Between a download's last two steps only the worker can change the file.
NoteGood(u) == step[u] = "note" => file[at[u]].content \in {"none", "good"}

LEMMA NotesGood ==
  ASSUME StoreInv, NEW u \in Threads, [StoreNext]_storeVars
  PROVE  NoteGood(u)'
<1> USE TypeParts, NoFileIsNone, InstallerIsNoChecker
    DEF NoteGood, StoreInv, Vouched, Places, Becomes, Threads, Sets, Goes, Rests, Decided, Of, cacheVars, threadVars
<1>1. ASSUME NEW t \in Checkers, NEW p \in Stored, Begin(t, "check", p) PROVE NoteGood(u)'
  BY <1>1, InstallerIsNoChecker DEF Begin, Threads
<1>2. ASSUME NEW what \in {"download", "remove"}, NEW p \in Stored, Begin(Installer, what, p) PROVE NoteGood(u)'
  BY <1>2, InstallerIsNoChecker DEF Begin, Threads
<1>3. ASSUME NEW t \in Checkers, Scan(t) PROVE NoteGood(u)'
  BY <1>3, InstallerIsNoChecker DEF Scan, Threads
<1>4. ASSUME NEW t \in Threads, List(t) PROVE NoteGood(u)'
  BY <1>4 DEF List, Reads
<1>5. ASSUME NEW t \in Threads, Turn(t) PROVE NoteGood(u)'
  BY <1>5 DEF Turn
<1>6. ASSUME NEW t \in Threads, Stat(t) PROVE NoteGood(u)'
  BY <1>6 DEF Stat, Reads
<1>7. ASSUME NEW t \in Threads, Look(t) PROVE NoteGood(u)'
  BY <1>7 DEF Look
<1>8. ASSUME NEW t \in Threads, Mark(t) PROVE NoteGood(u)'
  BY <1>8 DEF Mark
<1>9. ASSUME NEW t \in Threads, Open(t) PROVE NoteGood(u)'
  BY <1>9 DEF Open
<1>10. ASSUME NEW t \in Threads, Hash(t) PROVE NoteGood(u)'
  BY <1>10 DEF Hash
<1>11. ASSUME NEW t \in Threads, Remember(t) PROVE NoteGood(u)'
  BY <1>11 DEF Remember
<1>12. ASSUME NEW t \in Threads, Forget(t) PROVE NoteGood(u)'
  BY <1>12 DEF Forget, After
<1>13. ASSUME NEW t \in Threads, Save(t) PROVE NoteGood(u)'
  BY <1>13 DEF Save, After
<1>14. ASSUME NEW t \in Threads, Fetch(t) PROVE NoteGood(u)'
  BY <1>14 DEF Fetch
<1>15. ASSUME NEW t \in Threads, Replace(t) PROVE NoteGood(u)'
  BY <1>15 DEF Replace
<1>16. ASSUME NEW t \in Threads, Note(t) PROVE NoteGood(u)'
  BY <1>16 DEF Note, Reads
<1>17. ASSUME NEW t \in Threads, Unlink(t) PROVE NoteGood(u)'
  BY <1>17 DEF Unlink
<1>18. ASSUME NEW p \in Stored, ByHand(p) PROVE NoteGood(u)'
  <2>1. UNCHANGED <<step, at>>
    BY <1>18 DEF ByHand
  <2>2. CASE Becomes(p, NoFile)
    BY <2>1, <2>2
  <2>3. CASE ~(step[Installer] = "note" /\ at[Installer] = p) /\ \E new : Becomes(p, new)
    BY <2>1, <2>3
  <2> QED BY <1>18, <2>2, <2>3 DEF ByHand
<1>19. CASE Crash
  BY <1>19 DEF Crash
<1>20. CASE UNCHANGED storeVars
  BY <1>20 DEF storeVars
<1> QED
  BY <1>1, <1>2, <1>3, <1>4, <1>5, <1>6, <1>7, <1>8, <1>9, <1>10, <1>11, <1>12, <1>13, <1>14, <1>15, <1>16, <1>17, <1>18, <1>19, <1>20
  DEF StoreNext, Check

LEMMA VouchedKept == StoreInv /\ [StoreNext]_storeVars => Vouched'
<1> SUFFICES ASSUME StoreInv, [StoreNext]_storeVars PROVE Vouched'
  OBVIOUS
<1>0. Sets' /\ FileStep
  BY SetsKept, AnyFileStep, TypeParts DEF StoreInv
<1>1. ASSUME NEW p \in Stored
      PROVE  Vouches(p, verified[p])' /\ Vouches(p, trusted[p])' /\ Vouches(p, saved[p])'
  <2>1. verified'[p] \in Stamps /\ trusted'[p] \in Stamps /\ saved'[p] \in Stamps
    BY <1>0 DEF Sets
  <2>2. Vouches(p, verified'[p]) /\ Vouches(p, trusted'[p]) /\ Vouches(p, saved'[p])
    BY CachesFilled DEF Filled
  <2> QED BY <1>0, <2>1, <2>2, VouchesForEver DEF Vouches
<1>2. ASSUME NEW u \in Threads
      PROVE  /\ \A p \in Stored : seen'[u][p] <= clock'
             /\ step'[u] \in {"mark", "remember"} => Vouches(at[u], Seen(u))'
             /\ step'[u] = "note" => file'[at'[u]].content \in {"none", "good"}
  <2>1. Holding(u)
    BY StampsHeld
  <2>2. at'[u] \in Stored /\ \A p \in Stored : seen'[u][p] \in Stamps
    BY <1>0 DEF Sets
  <2>3. clock \in Nat /\ (clock' = clock \/ clock' = clock + 1)
    BY <1>0, StampsAreNatural, TypeParts DEF StoreInv, Sets, FileStep
  <2>4. \A p \in Stored : seen'[u][p] <= clock'
    <3>1. \A p \in Stored : seen'[u][p] \in Nat /\ seen'[u][p] <= clock
      BY <2>1, <2>2, StampsAreNatural DEF Holding
    <3> QED BY <2>3, <3>1
  <2>5. step'[u] \in {"mark", "remember"} => Vouches(at[u], Seen(u))'
    BY <1>0, <2>1, <2>2, VouchesForEver DEF Holding, Vouches, Seen
  <2> QED BY <2>4, <2>5, NotesGood DEF NoteGood
<1> QED BY <1>1, <1>2 DEF Vouched

-----------------------------------------------------------------------------
(* Threads and what they have seen                                           *)

FitThread(u, q) == seen[u][q] # NoStamp /\ file[q].content = "good" => q \in fit[u]

\* A file that becomes good is noted for those that have read its stamp.
LEMMA FitThreadKept ==
  ASSUME StoreInv, NEW u \in Threads, NEW q \in Stored, [StoreNext]_storeVars
  PROVE  FitThread(u, q)'
<1>a. Sets /\ FitThread(u, q)
  BY TypeParts DEF StoreInv, FitNow, FitThread
<1>b. ASSUME NEW t \in Threads, NEW p \in Stored, NEW s \in Stamps, Reads(t, p, s), UNCHANGED file
      PROVE  FitThread(u, q)'
  BY <1>a, <1>b, ReadsIs DEF FitThread
<1>c. ASSUME NEW t \in Threads, Sees(t, at[t], NoStamp), Unfits(t), UNCHANGED file
      PROVE  FitThread(u, q)'
  BY <1>a, <1>c, DropsIs DEF FitThread
<1>d. ASSUME NEW t \in Threads, Rests(t), UNCHANGED file PROVE FitThread(u, q)'
  <2>1. CASE u = t BY <1>a, <1>d, <2>1, RestsIs DEF FitThread
  <2>2. CASE u # t BY <1>a, <1>d, <2>2, RestsIs DEF FitThread
  <2> QED BY <2>1, <2>2
<1>e. UNCHANGED <<seen, fit, file>> => FitThread(u, q)'
  BY <1>a DEF FitThread
<1>f. ASSUME NEW p \in Stored, NEW new \in FileType, Becomes(p, new), UNCHANGED seen
      PROVE  FitThread(u, q)'
  <2>1. file' = [file EXCEPT ![p] = new] /\ fit'[u] =
          IF new.content = "good" /\ seen[u][p] # NoStamp THEN fit[u] \cup {p} ELSE fit[u]
    BY <1>f DEF Becomes
  <2>2. CASE q = p
    BY <1>a, <1>f, <2>1, <2>2 DEF FitThread, Sets
  <2>3. CASE q # p
    BY <1>a, <1>f, <2>1, <2>3 DEF FitThread, Sets
  <2> QED BY <2>2, <2>3
<1>g. \A t \in Threads : at[t] \in Stored
  BY <1>a DEF Sets
<1>h. \A t \in Threads : file[at[t]].stamp \in Stamps
  BY <1>a, <1>g DEF Sets, FileType
<1> USE DEF cacheVars, threadVars, Of
<1>1. ASSUME NEW t \in Checkers, NEW p \in Stored, Begin(t, "check", p) PROVE FitThread(u, q)'
  BY <1>e, <1>1 DEF Begin
<1>2. ASSUME NEW what \in {"download", "remove"}, NEW p \in Stored, Begin(Installer, what, p) PROVE FitThread(u, q)'
  BY <1>e, <1>2 DEF Begin
<1>3. ASSUME NEW t \in Checkers, Scan(t) PROVE FitThread(u, q)'
  BY <1>e, <1>3 DEF Scan
<1>4. ASSUME NEW t \in Threads, List(t) PROVE FitThread(u, q)'
  <2>1. PICK p \in rest[t] : Reads(t, p, Measured(p)) \/ Reads(t, p, NoStamp)
    BY <1>4 DEF List
  <2>2. p \in Stored /\ UNCHANGED file
    BY <1>a, <1>4 DEF List, Sets
  <2> QED BY <1>a, <1>b, <2>1, <2>2, MeasuredTyped, StampsAreNatural
<1>5. ASSUME NEW t \in Threads, Turn(t) PROVE FitThread(u, q)'
  BY <1>e, <1>5 DEF Turn
<1>6. ASSUME NEW t \in Threads, Stat(t) PROVE FitThread(u, q)'
  BY <1>a, <1>b, <1>g, <1>6, MeasuredTyped DEF Stat
<1>7. ASSUME NEW t \in Threads, Look(t) PROVE FitThread(u, q)'
  BY <1>c, <1>e, <1>7 DEF Look, Decided
<1>8. ASSUME NEW t \in Threads, Mark(t) PROVE FitThread(u, q)'
  BY <1>c, <1>8 DEF Mark, Decided
<1>9. ASSUME NEW t \in Threads, Open(t) PROVE FitThread(u, q)'
  BY <1>d, <1>e, <1>9 DEF Open
<1>10. ASSUME NEW t \in Threads, Hash(t) PROVE FitThread(u, q)'
  BY <1>e, <1>10 DEF Hash
<1>11. ASSUME NEW t \in Threads, Remember(t) PROVE FitThread(u, q)'
  BY <1>c, <1>e, <1>11 DEF Remember, Decided
<1>12. ASSUME NEW t \in Threads, Forget(t) PROVE FitThread(u, q)'
  BY <1>c, <1>12 DEF Forget
<1>13. ASSUME NEW t \in Threads, Save(t) PROVE FitThread(u, q)'
  BY <1>d, <1>e, <1>13 DEF Save
<1>14. ASSUME NEW t \in Threads, Fetch(t) PROVE FitThread(u, q)'
  BY <1>d, <1>e, <1>14 DEF Fetch
<1>15. ASSUME NEW t \in Threads, Replace(t) PROVE FitThread(u, q)'
  <2>1. CASE Reading(at[t]) BY <1>d, <1>15, <2>1 DEF Replace
  <2>2. CASE ~Reading(at[t])
    <3>1. /\ Becomes(at[t], [content |-> "good", stamp |-> clock + 1]) /\ UNCHANGED seen
          /\ clock < MaxStamp
      BY <1>15, <2>2 DEF Replace
    <3> QED BY <1>a, <1>f, <1>g, <3>1, NewFileTyped
  <2> QED BY <2>1, <2>2
<1>16. ASSUME NEW t \in Threads, Note(t) PROVE FitThread(u, q)'
  BY <1>b, <1>d, <1>g, <1>h, <1>16 DEF Note
<1>17. ASSUME NEW t \in Threads, Unlink(t) PROVE FitThread(u, q)'
  <2>1. CASE Reading(at[t]) BY <1>e, <1>17, <2>1 DEF Unlink
  <2>2. CASE ~Reading(at[t]) BY <1>f, <1>g, <1>17, <2>2, NoFileTyped DEF Unlink
  <2> QED BY <2>1, <2>2
<1>18. ASSUME NEW p \in Stored, ByHand(p) PROVE FitThread(u, q)'
  <2>1. CASE Becomes(p, NoFile)
    BY <1>f, <1>18, <2>1, NoFileTyped DEF ByHand
  <2>2. ASSUME clock < MaxStamp, NEW c \in {"good", "bad", "short"},
               Becomes(p, [content |-> c, stamp |-> clock + 1])
        PROVE  FitThread(u, q)'
    BY <1>a, <1>f, <1>18, <2>2, NewFileTyped DEF ByHand
  <2> QED BY <1>18, <2>1, <2>2 DEF ByHand
<1>19. CASE Crash
  BY <1>19 DEF Crash, Unseen, FitThread
<1>20. CASE UNCHANGED storeVars
  BY <1>e, <1>20 DEF storeVars
<1> QED
  BY <1>1, <1>2, <1>3, <1>4, <1>5, <1>6, <1>7, <1>8, <1>9, <1>10, <1>11, <1>12, <1>13, <1>14, <1>15, <1>16, <1>17, <1>18, <1>19, <1>20
  DEF StoreNext, Check

LEMMA FitNowKept == StoreInv /\ [StoreNext]_storeVars => FitNow'
  BY FitThreadKept DEF FitNow, FitThread

\* What a step puts in a cache was in one, or with a thread that was about to put it there.
Kept(q) == {verified[q], trusted[q], saved[q], NoStamp}
             \cup {s \in Stamps : \E v \in Threads :
                     step[v] \in {"mark", "remember"} /\ at[v] = q /\ s = Seen(v)}
CachesFrom(q) == verified'[q] \in Kept(q) /\ trusted'[q] \in Kept(q) /\ saved'[q] \in Kept(q)

LEMMA CachesComeFrom ==
  ASSUME StoreInv, NEW q \in Stored, [StoreNext]_storeVars
  PROVE  CachesFrom(q)
<1>a. Sets
  BY TypeParts DEF StoreInv
<1>b. \A t \in Threads : at[t] \in Stored /\ Seen(t) \in Stamps
  BY <1>a DEF Sets, Seen
<1>c. UNCHANGED <<verified, trusted, saved>> => CachesFrom(q)
  BY DEF CachesFrom, Kept
<1> USE DEF cacheVars, threadVars
<1>1. ASSUME NEW t \in Checkers, NEW p \in Stored, Begin(t, "check", p) PROVE CachesFrom(q)
  BY <1>c, <1>1 DEF Begin
<1>2. ASSUME NEW what \in {"download", "remove"}, NEW p \in Stored, Begin(Installer, what, p) PROVE CachesFrom(q)
  BY <1>c, <1>2 DEF Begin
<1>3. ASSUME NEW t \in Checkers, Scan(t) PROVE CachesFrom(q)
  BY <1>c, <1>3 DEF Scan
<1>4. ASSUME NEW t \in Threads, List(t) PROVE CachesFrom(q)
  BY <1>c, <1>4 DEF List
<1>5. ASSUME NEW t \in Threads, Turn(t) PROVE CachesFrom(q)
  BY <1>c, <1>5 DEF Turn
<1>6. ASSUME NEW t \in Threads, Stat(t) PROVE CachesFrom(q)
  BY <1>c, <1>6 DEF Stat
<1>7. ASSUME NEW t \in Threads, Look(t) PROVE CachesFrom(q)
  BY <1>a, <1>b, <1>c, <1>7 DEF Look, CachesFrom, Kept, Sets
<1>8. ASSUME NEW t \in Threads, Mark(t) PROVE CachesFrom(q)
  BY <1>a, <1>b, <1>8 DEF Mark, CachesFrom, Kept, Sets
<1>9. ASSUME NEW t \in Threads, Open(t) PROVE CachesFrom(q)
  BY <1>c, <1>9 DEF Open
<1>10. ASSUME NEW t \in Threads, Hash(t) PROVE CachesFrom(q)
  BY <1>c, <1>10 DEF Hash
<1>11. ASSUME NEW t \in Threads, Remember(t) PROVE CachesFrom(q)
  BY <1>a, <1>b, <1>11 DEF Remember, CachesFrom, Kept, Sets
<1>12. ASSUME NEW t \in Threads, Forget(t) PROVE CachesFrom(q)
  BY <1>a, <1>12 DEF Forget, CachesFrom, Kept, Sets
<1>13. ASSUME NEW t \in Threads, Save(t) PROVE CachesFrom(q)
  BY <1>a, <1>13 DEF Save, CachesFrom, Kept, Sets
<1>14. ASSUME NEW t \in Threads, Fetch(t) PROVE CachesFrom(q)
  BY <1>c, <1>14 DEF Fetch
<1>15. ASSUME NEW t \in Threads, Replace(t) PROVE CachesFrom(q)
  BY <1>c, <1>15 DEF Replace
<1>16. ASSUME NEW t \in Threads, Note(t) PROVE CachesFrom(q)
  BY <1>c, <1>16 DEF Note
<1>17. ASSUME NEW t \in Threads, Unlink(t) PROVE CachesFrom(q)
  BY <1>c, <1>17 DEF Unlink
<1>18. ASSUME NEW p \in Stored, ByHand(p) PROVE CachesFrom(q)
  BY <1>c, <1>18 DEF ByHand
<1>19. CASE Crash
  BY <1>a, <1>19 DEF Crash, Unseen, CachesFrom, Kept, Sets
<1>20. CASE UNCHANGED storeVars
  BY <1>c, <1>20 DEF storeVars
<1> QED
  BY <1>1, <1>2, <1>3, <1>4, <1>5, <1>6, <1>7, <1>8, <1>9, <1>10, <1>11, <1>12, <1>13, <1>14, <1>15, <1>16, <1>17, <1>18, <1>19, <1>20
  DEF StoreNext, Check

\* A bad file's stamp is not in a cache when it is read, and does not get there; nor does
\* another thread that holds it find the file good meanwhile.
LEMMA UnfitKept == StoreInv /\ [StoreNext]_storeVars => Unfit'
<1> SUFFICES ASSUME StoreInv, [StoreNext]_storeVars PROVE Unfit'
  OBVIOUS
<1>1. ASSUME NEW u \in Threads, NEW q \in Stored PROVE CachesRefuse(u, q)'
  <2> SUFFICES ASSUME seen'[u][q] # NoStamp, q \notin fit'[u]
               PROVE  seen'[u][q] \notin {verified'[q], trusted'[q], saved'[q]}
    BY DEF CachesRefuse
  <2>1. CASE seen'[u][q] = seen[u][q] /\ (q \in fit[u] => q \in fit'[u])
    <3>1. seen[u][q] \notin Kept(q)
      BY <2>1 DEF StoreInv, Unfit, CachesRefuse, ThreadRefuses, Kept
    <3> QED BY <2>1, <3>1, CachesComeFrom DEF CachesFrom
  <2>2. CASE /\ file[q].content # "none" /\ seen'[u][q] = file[q].stamp
             /\ file[q].content = "good" => q \in fit'[u]
    BY <2>2, CachesFilled DEF Filled, Vouches
  <2> QED BY <2>1, <2>2, SeenSteps DEF SeenStep
<1>2. ASSUME NEW u \in Threads, NEW v \in Threads PROVE ThreadRefuses(u, v)'
  <2> DEFINE q == at'[v]
  <2>0. q \in Stored
    BY SetsKept, TypeParts DEF StoreInv, Sets
  <2> SUFFICES ASSUME step'[v] \in {"mark", "remember"}, seen'[u][q] # NoStamp, q \notin fit'[u]
               PROVE  seen'[v][q] # seen'[u][q]
    BY DEF ThreadRefuses, Seen
  <2>1. CASE seen'[u][q] = seen[u][q] /\ (q \in fit[u] => q \in fit'[u])
    <3>1. Held(v, q, seen'[v][q])
      BY HeldSteps DEF HeldStep
    <3>2. q \notin fit[u] /\ seen[u][q] # NoStamp
      BY <2>1
    <3> QED BY <2>0, <2>1, <3>1, <3>2
         DEF Held, StoreInv, FitNow, Unfit, CachesRefuse, ThreadRefuses
  <2>2. CASE /\ file[q].content # "none" /\ seen'[u][q] = file[q].stamp
             /\ file[q].content = "good" => q \in fit'[u]
    BY <2>2, StampsHeld DEF Holding, Vouches
  <2> QED BY <2>0, <2>1, <2>2, SeenSteps DEF SeenStep
<1> QED BY <1>1, <1>2 DEF Unfit, CachesRefuse, ThreadRefuses, Seen

AtEnd(u) == step[u] = "save" /\ doing[u] # "scan" /\ Seen(u) # NoStamp => at[u] \in fit[u]

\* What is remembered was good at some moment of the check.
LEMMA FitAtEndHolds ==
  ASSUME StoreInv, NEW u \in Threads, [StoreNext]_storeVars
  PROVE  AtEnd(u)'
<1>a. Sets /\ Places /\ AtEnd(u)
  BY TypeParts DEF StoreInv, FitAtEnd, AtEnd
<1>0. \A t \in Threads : at[t] \in Stored /\ file[at[t]].stamp \in Stamps
  BY <1>a DEF Sets, FileType
<1>b. ASSUME NEW t \in Threads, NEW p \in Stored, NEW s \in Stamps, Reads(t, p, s), UNCHANGED <<at, doing>>,
             step'[t] # "save", \A v \in Threads : v # t => step'[v] = step[v]
      PROVE  AtEnd(u)'
  BY <1>a, <1>0, <1>b, ReadsIs DEF AtEnd, Seen
<1>c. ASSUME NEW t \in Threads, Sees(t, at[t], NoStamp), Unfits(t), UNCHANGED <<at, doing>>,
             \A v \in Threads : v # t => step'[v] = step[v]
      PROVE  AtEnd(u)'
  BY <1>a, <1>0, <1>c, DropsIs DEF AtEnd, Seen
<1>d. ASSUME NEW t \in Threads, Rests(t), UNCHANGED <<at, doing>> PROVE AtEnd(u)'
  <2>1. /\ step' = [step EXCEPT ![t] = "idle"]
        /\ \A v \in Threads : v # t => seen'[v] = seen[v] /\ fit'[v] = fit[v]
    BY <1>a, <1>d, RestsIs
  <2>2. step'[t] = "idle" /\ (u # t => step'[u] = step[u])
    BY <1>a, <2>1 DEF Sets
  <2> QED BY <1>a, <1>d, <2>1, <2>2 DEF AtEnd, Seen
<1>e. ASSUME NEW t \in Threads, UNCHANGED <<seen, fit>>,
             \A v \in Threads : v # t => at'[v] = at[v] /\ step'[v] = step[v] /\ doing'[v] = doing[v],
             step'[t] # "save" \/ doing'[t] = "scan" \/ (UNCHANGED at /\ at[t] \in fit[t])
      PROVE  AtEnd(u)'
  BY <1>a, <1>e DEF AtEnd, Seen
<1>f. ASSUME NEW t \in Threads, NEW p \in Stored, NEW new, Becomes(p, new), UNCHANGED <<at, doing, seen>>,
             step'[t] # "save" \/ UNCHANGED step, \A v \in Threads : v # t => step'[v] = step[v]
      PROVE  AtEnd(u)'
  BY <1>a, <1>0, <1>f DEF AtEnd, Seen, Becomes
<1>g. \A t \in Threads, s \in Steps : Goes(t, s) =>
        step'[t] = s /\ \A v \in Threads : v # t => step'[v] = step[v]
  BY <1>a DEF Goes, Sets
<1>h. \A p \in Stored : Measured(p) \in Stamps
  BY <1>a, MeasuredTyped
<1> USE StepsAre DEF cacheVars, threadVars
<1>1. ASSUME NEW t \in Checkers, NEW p \in Stored, Begin(t, "check", p) PROVE AtEnd(u)'
  <2>1. t \in Threads /\ UNCHANGED <<seen, fit>> /\ Goes(t, "stat")
    BY <1>1 DEF Begin, Threads
  <2>2. \A v \in Threads : v # t => at'[v] = at[v] /\ doing'[v] = doing[v]
    BY <1>a, <1>1 DEF Begin, Sets
  <2> QED BY <1>e, <1>g, <2>1, <2>2
<1>2. ASSUME NEW what \in {"download", "remove"}, NEW p \in Stored, Begin(Installer, what, p) PROVE AtEnd(u)'
  <2>1. Installer \in Threads /\ UNCHANGED <<seen, fit>> /\ (Goes(Installer, "stat") \/ Goes(Installer, "forget"))
    BY <1>2 DEF Begin, Threads
  <2>2. \A v \in Threads : v # Installer => at'[v] = at[v] /\ doing'[v] = doing[v]
    BY <1>a, <1>2 DEF Begin, Sets
  <2> QED BY <1>e, <1>g, <2>1, <2>2
<1>3. ASSUME NEW t \in Checkers, Scan(t) PROVE AtEnd(u)'
  <2>1. t \in Threads /\ UNCHANGED <<seen, fit, at>> /\ Goes(t, "list")
    BY <1>3 DEF Scan, Threads
  <2>2. \A v \in Threads : v # t => doing'[v] = doing[v]
    BY <1>a, <1>3 DEF Scan, Sets
  <2> QED BY <1>e, <1>g, <2>1, <2>2
<1>4. ASSUME NEW t \in Threads, List(t) PROVE AtEnd(u)'
  <2>1. PICK p \in rest[t] :
          /\ Reads(t, p, Measured(p)) \/ Reads(t, p, NoStamp)
          /\ Goes(t, "next") \/ UNCHANGED step
    BY <1>4 DEF List
  <2>2. p \in Stored /\ UNCHANGED <<at, doing>> /\ step[t] = "list"
    BY <1>a, <1>4 DEF List, Sets
  <2>3. step'[t] # "save" /\ \A v \in Threads : v # t => step'[v] = step[v]
    BY <1>g, <2>1, <2>2
  <2> QED BY <1>b, <1>h, <2>1, <2>2, <2>3, StampsAreNatural
<1>5. ASSUME NEW t \in Threads, Turn(t) PROVE AtEnd(u)'
  <2>1. UNCHANGED <<seen, fit, doing>> /\ doing[t] = "scan" /\ \E s \in {"forget", "look", "idle", "save"} : Goes(t, s)
    BY <1>a, <1>5 DEF Turn, Places
  <2>2. \A v \in Threads : v # t => at'[v] = at[v]
    BY <1>a, <1>5 DEF Turn, Sets
  <2> QED BY <1>e, <1>g, <2>1, <2>2
<1>6. ASSUME NEW t \in Threads, Stat(t) PROVE AtEnd(u)'
  <2>1. Reads(t, at[t], Measured(at[t])) /\ UNCHANGED <<at, doing>> /\ \E s \in {"forget", "look"} : Goes(t, s)
    BY <1>6 DEF Stat
  <2> QED BY <1>0, <1>b, <1>g, <1>h, <2>1
<1>7. ASSUME NEW t \in Threads, Look(t) PROVE AtEnd(u)'
  <2>1. CASE Decided(t)
    <3>1. Sees(t, at[t], NoStamp) /\ Unfits(t) /\ UNCHANGED <<at, doing>> /\ \E s \in {"next", "idle"} : Goes(t, s)
      BY <1>7, <2>1 DEF Look, Decided
    <3> QED BY <1>c, <1>g, <3>1
  <2>2. CASE UNCHANGED <<seen, fit>> /\ (Goes(t, "mark") \/ Goes(t, "open"))
    <3>1. UNCHANGED <<at, doing>>
      BY <1>7 DEF Look
    <3> QED BY <1>e, <1>g, <2>2, <3>1
  <2> QED BY <1>7, <2>1, <2>2 DEF Look
<1>8. ASSUME NEW t \in Threads, Mark(t) PROVE AtEnd(u)'
  <2>1. Sees(t, at[t], NoStamp) /\ Unfits(t) /\ UNCHANGED <<at, doing>> /\ \E s \in {"next", "idle"} : Goes(t, s)
    BY <1>8 DEF Mark, Decided
  <2> QED BY <1>c, <1>g, <2>1
<1>9. ASSUME NEW t \in Threads, Open(t) PROVE AtEnd(u)'
  <2>1. CASE Rests(t) BY <1>d, <1>9, <2>1 DEF Open
  <2>2. CASE Goes(t, "hash") /\ UNCHANGED <<owes, unsaved, rest, seen, fit>>
    BY <1>e, <1>g, <1>9, <2>2 DEF Open
  <2> QED BY <1>9, <2>1, <2>2 DEF Open
<1>10. ASSUME NEW t \in Threads, Hash(t) PROVE AtEnd(u)'
  <2>1. UNCHANGED <<seen, fit, at, doing>> /\ \E s \in {"remember", "forget"} : Goes(t, s)
    BY <1>10 DEF Hash
  <2> QED BY <1>e, <1>g, <2>1
<1>11. ASSUME NEW t \in Threads, Remember(t) PROVE AtEnd(u)'
  <2>1. CASE Decided(t)
    <3>1. Sees(t, at[t], NoStamp) /\ Unfits(t) /\ UNCHANGED <<at, doing>> /\ \E s \in {"next", "idle"} : Goes(t, s)
      BY <1>11, <2>1 DEF Remember, Decided
    <3> QED BY <1>c, <1>g, <3>1
  <2>2. CASE Goes(t, "save") /\ UNCHANGED <<seen, fit>>
    <3>1. UNCHANGED <<at, doing>> /\ step[t] = "remember"
      BY <1>11 DEF Remember
    <3>2. at[t] \in fit[t]
      BY <1>a, <1>0, <3>1 DEF StoreInv, Unfit, ThreadRefuses, Places, Seen
    <3> QED BY <1>e, <1>g, <2>2, <3>1, <3>2
  <2> QED BY <1>11, <2>1, <2>2 DEF Remember
<1>12. ASSUME NEW t \in Threads, Forget(t) PROVE AtEnd(u)'
  <2>1. /\ Sees(t, at[t], NoStamp) /\ Unfits(t) /\ UNCHANGED <<at, doing>>
        /\ \E s \in {"idle", "next", "fetch", "unlink", "save"} : Goes(t, s)
    BY <1>a, <1>12 DEF Forget, After, Sets
  <2> QED BY <1>c, <1>g, <2>1
<1>13. ASSUME NEW t \in Threads, Save(t) PROVE AtEnd(u)'
  <2>1. CASE Rests(t) BY <1>d, <1>13, <2>1 DEF Save
  <2>2. CASE Goes(t, After(t)) /\ UNCHANGED <<seen, fit>>
    <3>1. UNCHANGED <<at, doing>> /\ \E s \in {"idle", "next", "fetch", "unlink"} : Goes(t, s)
      BY <1>a, <1>13, <2>2 DEF Save, After, Sets
    <3> QED BY <1>e, <1>g, <2>2, <3>1
  <2> QED BY <1>13, <2>1, <2>2 DEF Save
<1>14. ASSUME NEW t \in Threads, Fetch(t) PROVE AtEnd(u)'
  <2>1. CASE Rests(t) BY <1>d, <1>14, <2>1 DEF Fetch
  <2>2. CASE Goes(t, "replace") /\ UNCHANGED <<seen, fit>>
    BY <1>e, <1>g, <1>14, <2>2 DEF Fetch
  <2> QED BY <1>14, <2>1, <2>2 DEF Fetch
<1>15. ASSUME NEW t \in Threads, Replace(t) PROVE AtEnd(u)'
  <2>1. CASE Rests(t) BY <1>d, <1>15, <2>1 DEF Replace
  <2>2. CASE /\ Becomes(at[t], [content |-> "good", stamp |-> clock + 1])
             /\ Goes(t, "note") /\ UNCHANGED seen
    BY <1>f, <1>g, <1>0, <1>15, <2>2 DEF Replace
  <2> QED BY <1>15, <2>1, <2>2 DEF Replace
<1>16. ASSUME NEW t \in Threads, Note(t) PROVE AtEnd(u)'
  <2>1. CASE Rests(t) BY <1>d, <1>16, <2>1 DEF Note
  <2>2. CASE Reads(t, at[t], file[at[t]].stamp) /\ Goes(t, "remember")
    BY <1>0, <1>b, <1>g, <1>16, <2>2 DEF Note
  <2> QED BY <1>16, <2>1, <2>2 DEF Note, Of
<1>17. ASSUME NEW t \in Threads, Unlink(t) PROVE AtEnd(u)'
  <2>1. UNCHANGED <<seen, at, doing>> /\ Goes(t, "idle") /\ (UNCHANGED fit \/ Becomes(at[t], NoFile))
    BY <1>17 DEF Unlink
  <2> QED BY <1>0, <1>e, <1>f, <1>g, <2>1
<1>18. ASSUME NEW p \in Stored, ByHand(p) PROVE AtEnd(u)'
  <2>1. UNCHANGED <<at, doing, seen, step>> /\ \E new : Becomes(p, new)
    BY <1>18 DEF ByHand
  <2> QED BY <1>f, <2>1
<1>19. CASE Crash
  BY <1>19 DEF Crash, AtEnd
<1>20. CASE UNCHANGED storeVars
  BY <1>a, <1>20 DEF storeVars, AtEnd, Seen
<1> QED
  BY <1>1, <1>2, <1>3, <1>4, <1>5, <1>6, <1>7, <1>8, <1>9, <1>10, <1>11, <1>12, <1>13, <1>14, <1>15, <1>16, <1>17, <1>18, <1>19, <1>20
  DEF StoreNext, Check

\* Who changes a cache owes its save, unless the change was none.
OwedBy(u) == owes[u] # {} => step[u] = "save" \/ Scanning(u)
Unsaved(p) == saved[p] # trusted[p] => p \in unsaved \/ \E t \in Threads : p \in owes[t]

LEMMA UnsavedIs == Owed => (NothingUnsaved <=> \A p \in Stored : Unsaved(p))
  BY DEF NothingUnsaved, Unsaved, Owed

LEMMA OwedKept ==
  ASSUME StoreInv, NEW u \in Threads, [StoreNext]_storeVars
  PROVE  OwedBy(u)'
<1> USE TypeParts DEF StoreInv, Owed, OwedBy, Scanning, Sets, Places, Goes, Rests, Decided, cacheVars, threadVars
<1>1. ASSUME NEW t \in Checkers, NEW p \in Stored, Begin(t, "check", p) PROVE OwedBy(u)'
  BY <1>1, InstallerIsNoChecker DEF Begin, Threads
<1>2. ASSUME NEW what \in {"download", "remove"}, NEW p \in Stored, Begin(Installer, what, p) PROVE OwedBy(u)'
  BY <1>2, InstallerIsNoChecker DEF Begin, Threads
<1>3. ASSUME NEW t \in Checkers, Scan(t) PROVE OwedBy(u)'
  BY <1>3, InstallerIsNoChecker DEF Scan, Threads
<1>4. ASSUME NEW t \in Threads, List(t) PROVE OwedBy(u)'
  BY <1>4 DEF List, Reads
<1>5. ASSUME NEW t \in Threads, Turn(t) PROVE OwedBy(u)'
  BY <1>5 DEF Turn
<1>6. ASSUME NEW t \in Threads, Stat(t) PROVE OwedBy(u)'
  BY <1>6 DEF Stat, Reads
<1>7. ASSUME NEW t \in Threads, Look(t) PROVE OwedBy(u)'
  BY <1>7 DEF Look
<1>8. ASSUME NEW t \in Threads, Mark(t) PROVE OwedBy(u)'
  BY <1>8 DEF Mark
<1>9. ASSUME NEW t \in Threads, Open(t) PROVE OwedBy(u)'
  BY <1>9 DEF Open
<1>10. ASSUME NEW t \in Threads, Hash(t) PROVE OwedBy(u)'
  BY <1>10 DEF Hash
<1>11. ASSUME NEW t \in Threads, Remember(t) PROVE OwedBy(u)'
  BY <1>11 DEF Remember, Owes
<1>12. ASSUME NEW t \in Threads, Forget(t) PROVE OwedBy(u)'
  BY <1>12 DEF Forget, After, Owes
<1>13. ASSUME NEW t \in Threads, Save(t) PROVE OwedBy(u)'
  BY <1>13 DEF Save, After
<1>14. ASSUME NEW t \in Threads, Fetch(t) PROVE OwedBy(u)'
  BY <1>14 DEF Fetch
<1>15. ASSUME NEW t \in Threads, Replace(t) PROVE OwedBy(u)'
  BY <1>15 DEF Replace
<1>16. ASSUME NEW t \in Threads, Note(t) PROVE OwedBy(u)'
  BY <1>16 DEF Note, Reads
<1>17. ASSUME NEW t \in Threads, Unlink(t) PROVE OwedBy(u)'
  BY <1>17 DEF Unlink
<1>18. ASSUME NEW p \in Stored, ByHand(p) PROVE OwedBy(u)'
  BY <1>18 DEF ByHand
<1>19. CASE Crash
  BY <1>19 DEF Crash
<1>20. CASE UNCHANGED storeVars
  BY <1>20 DEF storeVars
<1> QED
  BY <1>1, <1>2, <1>3, <1>4, <1>5, <1>6, <1>7, <1>8, <1>9, <1>10, <1>11, <1>12, <1>13, <1>14, <1>15, <1>16, <1>17, <1>18, <1>19, <1>20
  DEF StoreNext, Check

LEMMA UnsavedKept ==
  ASSUME StoreInv, NEW q \in Stored, [StoreNext]_storeVars
  PROVE  Unsaved(q)'
<1>a. Sets /\ Unsaved(q)
  BY TypeParts, UnsavedIs DEF StoreInv
<1>b. \A t \in Threads : at[t] \in Stored
  BY <1>a DEF Sets
<1>c. UNCHANGED <<trusted, saved, owes, unsaved>> => Unsaved(q)'
  BY <1>a DEF Unsaved
<1> USE DEF cacheVars, threadVars
<1>1. ASSUME NEW t \in Checkers, NEW p \in Stored, Begin(t, "check", p) PROVE Unsaved(q)'
  BY <1>c, <1>1 DEF Begin
<1>2. ASSUME NEW what \in {"download", "remove"}, NEW p \in Stored, Begin(Installer, what, p) PROVE Unsaved(q)'
  BY <1>c, <1>2 DEF Begin
<1>3. ASSUME NEW t \in Checkers, Scan(t) PROVE Unsaved(q)'
  BY <1>c, <1>3 DEF Scan
<1>4. ASSUME NEW t \in Threads, List(t) PROVE Unsaved(q)'
  BY <1>c, <1>4 DEF List
<1>5. ASSUME NEW t \in Threads, Turn(t) PROVE Unsaved(q)'
  BY <1>c, <1>5 DEF Turn
<1>6. ASSUME NEW t \in Threads, Stat(t) PROVE Unsaved(q)'
  BY <1>c, <1>6 DEF Stat
<1>7. ASSUME NEW t \in Threads, Look(t) PROVE Unsaved(q)'
  BY <1>c, <1>7 DEF Look
<1>8. ASSUME NEW t \in Threads, Mark(t) PROVE Unsaved(q)'
  BY <1>c, <1>8 DEF Mark
<1>9. ASSUME NEW t \in Threads, Open(t) PROVE Unsaved(q)'
  BY <1>a, <1>9 DEF Open, Unsaved, Sets
<1>10. ASSUME NEW t \in Threads, Hash(t) PROVE Unsaved(q)'
  BY <1>c, <1>10 DEF Hash
<1>11. ASSUME NEW t \in Threads, Remember(t) PROVE Unsaved(q)'
  BY <1>a, <1>b, <1>11 DEF Remember, Owes, Unsaved, Sets
<1>12. ASSUME NEW t \in Threads, Forget(t) PROVE Unsaved(q)'
  BY <1>a, <1>b, <1>12 DEF Forget, Owes, Unsaved, Sets
<1>13. ASSUME NEW t \in Threads, Save(t) PROVE Unsaved(q)'
  BY <1>a, <1>13 DEF Save, Unsaved, Sets
<1>14. ASSUME NEW t \in Threads, Fetch(t) PROVE Unsaved(q)'
  BY <1>c, <1>14 DEF Fetch
<1>15. ASSUME NEW t \in Threads, Replace(t) PROVE Unsaved(q)'
  BY <1>c, <1>15 DEF Replace
<1>16. ASSUME NEW t \in Threads, Note(t) PROVE Unsaved(q)'
  BY <1>c, <1>16 DEF Note
<1>17. ASSUME NEW t \in Threads, Unlink(t) PROVE Unsaved(q)'
  BY <1>c, <1>17 DEF Unlink
<1>18. ASSUME NEW p \in Stored, ByHand(p) PROVE Unsaved(q)'
  BY <1>c, <1>18 DEF ByHand
<1>19. CASE Crash
  BY <1>a, <1>19 DEF Crash, Unseen, Unsaved, Sets
<1>20. CASE UNCHANGED storeVars
  BY <1>c, <1>20 DEF storeVars
<1> QED
  BY <1>1, <1>2, <1>3, <1>4, <1>5, <1>6, <1>7, <1>8, <1>9, <1>10, <1>11, <1>12, <1>13, <1>14, <1>15, <1>16, <1>17, <1>18, <1>19, <1>20
  DEF StoreNext, Check

-----------------------------------------------------------------------------
(* The theorems                                                              *)

LEMMA StoreInvariant == StoreSpec => []StoreInv
<1>1. StoreInv /\ [StoreNext]_storeVars => StoreInv'
  <2> SUFFICES ASSUME StoreInv, [StoreNext]_storeVars PROVE StoreInv'
    OBVIOUS
  <2>1. StoreTypeOK'
    <3>1. Sets' /\ Places'
      BY SetsKept, PlacesKept, TypeParts DEF StoreInv
    <3> QED BY <3>1 DEF StoreTypeOK, Sets, Places, FileType
  <2>2. Files' /\ Vouched'
    BY AnyFileStep, FilesKept, VouchedKept DEF StoreInv
  <2>3. FitNow' /\ Unfit' /\ FitAtEnd'
    BY FitNowKept, UnfitKept, FitAtEndHolds DEF FitAtEnd, AtEnd
  <2>4. Owed' /\ NothingUnsaved'
    <3>1. Owed'
      BY OwedKept DEF Owed, OwedBy
    <3>2. \A q \in Stored : Unsaved(q)'
      BY UnsavedKept
    <3> QED BY <3>1, <3>2 DEF NothingUnsaved, Unsaved, Owed
  <2> QED BY <2>1, <2>2, <2>3, <2>4 DEF StoreInv
<1> QED BY <1>1, InitStore, PTL DEF StoreSpec

\* Type correctness of the store: only the worker downloads or removes, and a thread
\* that looks up, reads or remembers a stamp has one.
THEOREM StoreTypesHold == StoreSpec => []StoreTypeOK
<1>1. StoreInv => StoreTypeOK
  BY DEF StoreInv
<1> QED BY <1>1, StoreInvariant, PTL

\* voice_store.py: whatever the threads, their scans of all packages, the restarts, the
\* failed saves and the changes by hand, a file that a cache takes for verified is good;
\* and the cache's file holds what memory holds of every package, but for those a thread
\* is about to save, and those whose save failed or was lost with a scan that a package
\* nobody could read has ended.
THEOREM CachesAreSound == StoreSpec => []CacheSound
<1>1. StoreInv => TrustedIsGood
  BY NoFileIsNone DEF StoreInv, Vouched, Vouches, Files, TrustedIsGood
<1>2. StoreInv => CacheSound
  BY <1>1 DEF StoreInv, CacheSound
<1> QED BY <1>2, StoreInvariant, PTL

\* is_package_installed and the scan take a package for installed only if its file was
\* good at some moment since its stamp was read, whichever cache or digest says so.
THEOREM AnswersAreTrue == StoreSpec => AnswersTrue
<1>1. ASSUME StoreInv, NEW t \in Threads, Accepts(t) PROVE at[t] \in fit[t]
  <2>1. /\ at[t] \in Stored /\ CachesRefuse(t, at[t]) /\ ThreadRefuses(t, t) /\ step \in [Threads -> Steps]
        /\ step[t] \in {"look", "mark", "remember"} => Seen(t) # NoStamp
    BY TypeParts, <1>1 DEF StoreInv, Unfit, Sets, Places
  <2>2. CASE Look(t) /\ step'[t] \notin {"mark", "open"}
    BY <2>1, <2>2 DEF Look, Goes, CachesRefuse, Seen
  <2>3. CASE Mark(t) \/ Remember(t)
    BY <2>1, <2>3 DEF Mark, Remember, ThreadRefuses, Seen
  <2>4. CASE Save(t) /\ doing[t] # "scan" /\ Seen(t) # NoStamp
    BY <1>1, <2>4 DEF Save, StoreInv, FitAtEnd
  <2> QED BY <1>1, <2>2, <2>3, <2>4 DEF Accepts
<1>2. StoreInv => [\A t \in Threads : Accepts(t) => at[t] \in fit[t]]_storeVars
  BY <1>1
<1> QED BY <1>2, StoreInvariant, PTL DEF AnswersTrue

-----------------------------------------------------------------------------
(* Packages and what they require                                            *)

LEMMA ChainsArePackages ==
  ASSUME NEW p, NEW S PROVE ChainIn(p, S) \subseteq Packages /\ IsFiniteSet(ChainIn(p, S))
<1>1. ChainIn(p, S) \subseteq Packages
  BY DEF ChainIn
<1> QED BY <1>1, PackagesAreFinite, FS_Subset

\* A package's chain has its base, and the base's chain.
LEMMA ChainGrows ==
  ASSUME NEW p \in Packages, NEW b \in Packages, NEW S, Base[p] = b, b \in S
  PROVE  ChainIn(b, S) \cup {b} \subseteq ChainIn(p, S)
<1>1. ASSUME NEW c \in ChainIn(b, S) \cup {b}, NEW T \in SUBSET Packages,
             \A q \in T \cup {p} : Base[q] \in S => Base[q] \in T
      PROVE  c \in T
  <2>1. b \in T
    BY <1>1
  <2>2. \A q \in T \cup {b} : Base[q] \in S => Base[q] \in T
    BY <1>1, <2>1
  <2> QED BY <1>1, <2>1, <2>2 DEF ChainIn
<1>2. ChainIn(b, S) \cup {b} \subseteq Packages
  BY ChainsArePackages
<1> QED BY <1>1, <1>2 DEF ChainIn

\* No package is in its own chain, of whatever packages.
LEMMA ChainEnds ==
  ASSUME NEW p \in Packages, NEW S \in SUBSET Packages
  PROVE  p \notin ChainIn(p, S)
<1>1. ChainIn(p, S) \subseteq ChainIn(p, Packages)
  BY DEF ChainIn
<1> QED BY <1>1, NoCycles DEF Chain

\* _dependency_depth: what depends on a package is deeper.
LEMMA DependentIsDeeper ==
  ASSUME NEW p \in Packages, NEW b \in Packages, NEW S \in SUBSET Packages, Base[p] = b, b \in S
  PROVE  ~(Depth(b, S) >= Depth(p, S))
<1> DEFINE low == ChainIn(b, S)
           high == ChainIn(p, S)
<1>1. IsFiniteSet(low) /\ IsFiniteSet(high)
  BY ChainsArePackages
<1>2. b \notin low
  BY ChainEnds
<1>3. IsFiniteSet(low \cup {b}) /\ Cardinality(low \cup {b}) = Cardinality(low) + 1
  BY <1>1, <1>2, FS_AddElement
<1>4. Cardinality(low \cup {b}) <= Cardinality(high)
  BY <1>1, ChainGrows, FS_Subset
<1>5. Cardinality(low) \in Nat /\ Cardinality(high) \in Nat
  BY <1>1, FS_CardinalityType
<1>6. ~(Cardinality(low) >= Cardinality(high))
  BY <1>3, <1>4, <1>5
<1> QED BY <1>6 DEF Depth

\* The packages of a removal are known ones, and what depends on one is one of them.
Closed(S, known) == S \subseteq known /\ \A p \in known : Base[p] \in S => p \in S

LEMMA DependentsAreClosed ==
  ASSUME NEW S \in SUBSET Packages, NEW L \in SUBSET Packages, S \subseteq L
  PROVE  WithDependents(S, L) \in SUBSET Packages /\ Closed(WithDependents(S, L), L)
<1> DEFINE W == WithDependents(S, L)
<1>1. W \subseteq Packages
  BY DEF WithDependents
<1>2. W \subseteq L
  BY DEF WithDependents
<1>3. ASSUME NEW p \in L, Base[p] \in W PROVE p \in W
  <2>1. ASSUME NEW T \in SUBSET Packages, S \subseteq T,
               \A q \in L : Base[q] \in T => q \in T
        PROVE  p \in T
    <3>1. Base[p] \in T
      BY <1>3, <2>1 DEF WithDependents
    <3> QED BY <2>1, <3>1
  <2> QED BY <2>1 DEF WithDependents
<1> QED BY <1>1, <1>2, <1>3 DEF Closed

LEMMA RequiredArePackages ==
  ASSUME NEW S \in SUBSET Packages, NEW L PROVE WithRequired(S, L) \in SUBSET Packages
  BY ChainsArePackages DEF WithRequired

\* More packages, more usable ones.
LEMMA UsableGrows ==
  ASSUME NEW S, NEW T, S \subseteq T PROVE Usable(S) \subseteq Usable(T)
  BY DEF Usable

-----------------------------------------------------------------------------
(* Types                                                                     *)

JobType ==
  [kind : {"download", "remove"}, todo : SUBSET Packages, now : Packages \cup {NoPackage},
   failed : SUBSET Packages, gone : SUBSET Packages, known : SUBSET Packages]

LEMMA JobTyped ==
  ASSUME NEW task \in Tasks({"download", "remove"})
  PROVE  /\ Job(task) \in JobType
         /\ Job(task).kind = task.kind /\ Job(task).todo = task.packages
         /\ Job(task).now = NoPackage /\ Job(task).failed = {} /\ Job(task).gone = {}
         /\ Job(task).known = task.known
  BY DEF Job, JobType, Tasks

LEMMA NoneIs == NoTask.kind = "none" /\ NoJob.kind = "none" /\ NoJob \notin JobType
  BY DEF NoTask, NoJob, Task, Job, JobType

LEMMA TaskTyped ==
  ASSUME NEW k \in {"download", "remove", "switch"}, NEW P \in SUBSET Packages, NEW K \in SUBSET Packages
  PROVE  /\ Task(k, P, K) \in Tasks({"download", "remove", "switch"})
         /\ Task(k, P, K).kind = k /\ Task(k, P, K).packages = P /\ Task(k, P, K).known = K
         /\ k # "switch" => Task(k, P, K) \in Tasks({"download", "remove"})
         /\ k = "remove" => Task(k, P, K) \in Tasks({"remove"})
         /\ Task(k, P, K) # NoTask
  BY DEF Task, Tasks, NoTask

\* The types without the values of the dialog's life.
Plain ==
  /\ installed \subseteq Packages /\ listed \subseteq Packages
  /\ variant \in Packages \cup {NoPackage} /\ profile \in Spoken \cup {NoPackage}
  /\ google \in BOOLEAN /\ shown \in BOOLEAN /\ away \in BOOLEAN
  /\ prompt \in {NoTask} \cup Tasks({"download", "remove", "switch"})
  /\ pending \in {NoTask} \cup Tasks({"remove"})
  /\ attempts \in 0..MaxAttempts
  /\ job \in {NoJob} \cup JobType
Shown == prompt # NoTask \/ pending # NoTask \/ isBusy => shown

LEMMA TypeIs == ManagerTypeOK <=> Plain /\ Shown
  BY DEF ManagerTypeOK, Plain, Shown, JobType

LEMMA RunWorkerTyped ==
  ASSUME Plain, NEW task \in Tasks({"download", "remove"}), RunWorker(task)
  PROVE  job' \in {NoJob} \cup JobType
  BY JobTyped DEF RunWorker, Plain

\* What is asked for is a task of the kind asked.
LEMMA AskDownloadTyped ==
  ASSUME Plain, NEW checked \in SUBSET Packages, AskDownload(checked)
  PROVE  /\ Ready
         /\ \/ prompt' \in Tasks({"download", "remove", "switch"}) /\ prompt'.kind = "download" /\ UNCHANGED job
            \/ UNCHANGED prompt /\ \E task \in Tasks({"download", "remove"}) : task.kind = "download" /\ RunWorker(task)
         /\ UNCHANGED <<installed, google, variant, profile, shown, listed, pending, attempts, away>>
<1> DEFINE required == WithRequired(checked \cap Supported, listed)
           task == Task("download", required, listed)
<1>1. required \in SUBSET Packages /\ listed \in SUBSET Packages
  BY RequiredArePackages DEF Plain
<1> HIDE DEF required
<1>2. /\ task \in Tasks({"download", "remove", "switch"}) /\ task.kind = "download"
      /\ task \in Tasks({"download", "remove"})
  BY <1>1, TaskTyped
<1> HIDE DEF task
<1>3. /\ Ready
      /\ \/ prompt' = task /\ UNCHANGED job
         \/ RunWorker(task) /\ UNCHANGED prompt
      /\ UNCHANGED <<installed, google, variant, profile, shown, listed, pending, attempts, away>>
  BY DEF AskDownload, configVars, waitVars, task, required
<1> QED BY <1>2, <1>3

LEMMA AskRemoveTyped ==
  ASSUME Plain, NEW checked \in SUBSET Packages, AskRemove(checked)
  PROVE  /\ Ready /\ pending = NoTask /\ away' = ~google
         /\ prompt' \in Tasks({"download", "remove", "switch"}) /\ prompt' # NoTask
         /\ \/ prompt'.kind = "switch" /\ google
            \/ prompt'.kind = "remove" /\ (RemovesAll(prompt'.packages) => ~google)
         /\ prompt'.known = listed /\ Closed(prompt'.packages, listed)
         /\ UNCHANGED <<installed, google, variant, profile, shown, listed, pending, attempts, job>>
<1> DEFINE packages == Removal(checked)
           kind == IF RemovesAll(packages) /\ google THEN "switch" ELSE "remove"
<1>1. /\ Ready /\ pending = NoTask /\ checked \subseteq listed /\ prompt' = Task(kind, packages, listed)
      /\ away' = ~google
      /\ UNCHANGED <<installed, google, variant, profile, shown, listed, pending, attempts, job>>
  BY DEF AskRemove, configVars, waitVars
<1>2. packages \in SUBSET Packages /\ Closed(packages, listed)
  BY <1>1, DependentsAreClosed DEF Removal, Plain
<1>3. /\ prompt' \in Tasks({"download", "remove", "switch"}) /\ prompt' # NoTask
      /\ prompt'.kind = kind /\ prompt'.packages = packages /\ prompt'.known = listed
  BY <1>1, <1>2, TaskTyped DEF Plain
<1>4. (kind = "switch" /\ google) \/ (kind = "remove" /\ (RemovesAll(packages) => ~google))
  OBVIOUS
<1> HIDE DEF packages, kind
<1> QED BY <1>1, <1>2, <1>3, <1>4

LEMMA ExitTyped ==
  ASSUME NEW x PROVE (x = NoJob => x \in {NoJob} \cup JobType) /\ 0 \in 0..MaxAttempts
  BY AttemptsAreNatural

\* The worker's steps on a job.
LEMMA JobSteps ==
  ASSUME Plain, isBusy
  PROVE  /\ job \in JobType
         /\ \A p \in job.todo : p \in Packages
         /\ \A p \in Packages :
              /\ [job EXCEPT !.todo = @ \ {p}, !.failed = @ \cup {p}] \in JobType
              /\ [job EXCEPT !.todo = @ \ {p}, !.gone = @ \cup {p}] \in JobType
              /\ [job EXCEPT !.todo = @ \ {p}, !.now = p] \in JobType
         /\ [job EXCEPT !.now = NoPackage] \in JobType
         /\ job.now # NoPackage => [job EXCEPT !.now = NoPackage, !.failed = @ \cup {job.now}] \in JobType
<1>1. job \in JobType
  BY DEF Plain, isBusy
<1> QED BY <1>1 DEF JobType

LEMMA DownloadTyped ==
  ASSUME Plain, NEW p \in Packages, Download(p)
  PROVE  isBusy /\ job' \in JobType /\ UNCHANGED <<installed, google, variant, profile, shown, listed, prompt, pending, attempts, away>>
<1>1. isBusy /\ UNCHANGED <<installed, google, variant, profile, shown, listed, prompt, pending, attempts, away>>
  BY DEF Download, Idle, dialogVars, waitVars, configVars
<1>2. \/ job' = [job EXCEPT !.todo = @ \ {p}, !.failed = @ \cup {p}]
      \/ job' = [job EXCEPT !.todo = @ \ {p}, !.now = p]
  BY DEF Download
<1> QED BY <1>1, <1>2, JobSteps

LEMMA RemoveTyped ==
  ASSUME Plain, NEW p \in Packages, Remove(p)
  PROVE  isBusy /\ job' \in JobType /\ installed' \subseteq installed /\ UNCHANGED <<google, variant, profile, shown, listed, prompt, pending, attempts, away>>
<1>1. isBusy /\ UNCHANGED <<google, variant, profile, shown, listed, prompt, pending, attempts, away>>
  BY DEF Remove, Idle, dialogVars, waitVars, configVars
<1>2. \/ job' = [job EXCEPT !.todo = @ \ {p}, !.failed = @ \cup {p}] /\ installed' = installed
      \/ job' = [job EXCEPT !.todo = @ \ {p}, !.gone = @ \cup {p}] /\ installed' = installed \ {p}
  BY DEF Remove
<1> QED BY <1>1, <1>2, JobSteps

LEMMA DownloadedTyped ==
  ASSUME Plain, Downloaded
  PROVE  /\ isBusy /\ job' \in JobType /\ job.now \in Packages
         /\ installed' = installed \/ installed' = installed \cup {job.now}
         /\ UNCHANGED <<google, variant, profile, shown, listed, prompt, pending, attempts, away>>
<1>1. isBusy /\ job.now # NoPackage /\ UNCHANGED <<google, variant, profile, shown, listed, prompt, pending, attempts, away>>
  BY DEF Downloaded, dialogVars, waitVars, configVars
<1>2. \/ job' = [job EXCEPT !.now = NoPackage] /\ installed' = installed \cup {job.now}
      \/ job' = [job EXCEPT !.now = NoPackage, !.failed = @ \cup {job.now}] /\ installed' = installed
  BY DEF Downloaded
<1>3. job.now \in Packages
  BY <1>1, JobSteps DEF JobType
<1> QED BY <1>1, <1>2, <1>3, JobSteps

LEMMA AcceptTyped ==
  ASSUME Plain, Accept
  PROVE  /\ prompt # NoTask /\ prompt' = NoTask
         /\ \/ prompt \in Tasks({"download", "remove"}) /\ RunWorker(prompt) /\ UNCHANGED <<pending, attempts>>
            \/ /\ prompt.kind = "switch" /\ attempts' = 0 /\ UNCHANGED job
               /\ \/ pending' = NoTask
                  \/ /\ pending' \in Tasks({"remove"}) /\ pending' # NoTask
                     /\ pending'.packages = prompt.packages /\ pending'.known = prompt.known
         /\ UNCHANGED <<installed, google, variant, profile, shown, listed, away>>
<1>1. /\ prompt # NoTask /\ prompt' = NoTask
      /\ \/ prompt.kind # "switch" /\ RunWorker(prompt) /\ UNCHANGED <<pending, attempts>>
         \/ /\ prompt.kind = "switch" /\ attempts' = 0 /\ UNCHANGED job
            /\ pending' = NoTask \/ pending' = [prompt EXCEPT !.kind = "remove"]
      /\ UNCHANGED <<installed, google, variant, profile, shown, listed, away>>
  BY DEF Accept, waitVars, configVars
<1>2. prompt \in Tasks({"download", "remove", "switch"})
  BY <1>1 DEF Plain
<1>3. prompt.kind # "switch" => prompt \in Tasks({"download", "remove"})
  BY <1>2 DEF Tasks
<1>4. /\ [prompt EXCEPT !.kind = "remove"] \in Tasks({"remove"})
      /\ [prompt EXCEPT !.kind = "remove"].packages = prompt.packages
      /\ [prompt EXCEPT !.kind = "remove"].known = prompt.known
  BY <1>2 DEF Tasks
<1>5. \A x \in Tasks({"remove"}) : x # NoTask
  BY NoneIs DEF Tasks
<1> QED BY <1>1, <1>3, <1>4, <1>5

LEMMA PollTyped ==
  ASSUME Plain, Poll
  PROVE  /\ pending # NoTask /\ pending \in Tasks({"remove"}) /\ pending \in Tasks({"download", "remove"})
         /\ \/ ~google /\ pending' = NoTask /\ attempts' = 0 /\ RunWorker(pending)
            \/ google /\ UNCHANGED job /\ pending' \in {pending, NoTask} /\ attempts' \in 0..MaxAttempts
         /\ UNCHANGED <<installed, google, variant, profile, shown, listed, prompt, away>>
<1>1. pending # NoTask /\ pending \in Tasks({"remove"})
  BY DEF Poll, Plain
<1>2. pending \in Tasks({"download", "remove"})
  BY <1>1 DEF Tasks
<1>3. attempts \in 0..MaxAttempts /\ MaxAttempts \in Nat
  BY AttemptsAreNatural DEF Plain
<1>4. \/ ~google /\ pending' = NoTask /\ attempts' = 0 /\ RunWorker(pending)
      \/ google /\ UNCHANGED job /\ pending' \in {pending, NoTask} /\ attempts' \in 0..MaxAttempts
  BY <1>3 DEF Poll
<1> QED BY <1>1, <1>2, <1>4 DEF Poll, dialogVars, configVars

LEMMA DoneTyped ==
  ASSUME Plain, Done
  PROVE  /\ isBusy /\ job' = NoJob /\ listed' = installed
         /\ variant' \in Packages \cup {NoPackage} /\ profile' \in Spoken \cup {NoPackage}
         /\ UNCHANGED <<installed, google, shown, prompt, pending, attempts, away>>
<1>1. Usable(installed) \subseteq Packages
  BY DEF Usable, Plain
<1>2. isBusy /\ job' = NoJob /\ listed' = installed /\ UNCHANGED <<installed, google, shown, prompt, pending, attempts, away>>
  BY DEF Done, Idle, waitVars
<1>3. ResetVariant(Usable(installed)) /\ ResetProfile(Usable(installed))
  BY <1>2 DEF Done
<1>4. variant' \in Packages \cup {NoPackage}
  BY <1>1, <1>3 DEF ResetVariant, Plain
<1>5. profile' \in Spoken \cup {NoPackage}
  BY <1>3 DEF ResetProfile, Plain
<1> QED BY <1>2, <1>4, <1>5

LEMMA PlainKept ==
  ASSUME Plain, [ManagerNext]_managerVars
  PROVE  Plain'
<1> USE RunWorkerTyped, ExitTyped DEF Plain, dialogVars, waitVars, configVars
<1>1. CASE OpenDialog
  BY <1>1 DEF OpenDialog
<1>2. CASE CloseDialog
  BY <1>2 DEF CloseDialog
<1>3. CASE Refresh
  BY <1>3 DEF Refresh, Ready
<1>4. ASSUME NEW checked \in SUBSET Packages, AskDownload(checked) PROVE Plain'
  BY <1>4, AskDownloadTyped
<1>5. ASSUME NEW checked \in SUBSET Packages, AskRemove(checked) PROVE Plain'
  BY <1>5, AskRemoveTyped
<1>6. CASE Accept
  BY <1>6, AcceptTyped
<1>7. CASE Decline
  BY <1>7 DEF Decline
<1>8. CASE Poll
  BY <1>8, PollTyped
<1>9. ASSUME NEW p \in Packages, Download(p) PROVE Plain'
  BY <1>9, DownloadTyped
<1>10. ASSUME NEW p \in Packages, Remove(p) PROVE Plain'
  BY <1>10, RemoveTyped
<1>11. CASE Downloaded
  BY <1>11, DownloadedTyped
<1>12. CASE Done
  BY <1>12, DoneTyped
<1>13. CASE Switch
  BY <1>13 DEF Switch
<1>14. CASE Exit
  BY <1>14 DEF Exit
<1>15. CASE UNCHANGED managerVars
  BY <1>15 DEF managerVars
<1> QED
  BY <1>1, <1>2, <1>3, <1>4, <1>5, <1>6, <1>7, <1>8, <1>9, <1>10, <1>11, <1>12, <1>13, <1>14, <1>15
  DEF ManagerNext, Worker

LEMMA ShownKept ==
  ASSUME Plain, Shown, [ManagerNext]_managerVars
  PROVE  Shown'
<1> USE NoneIs DEF Plain, Shown, isBusy, dialogVars, waitVars, configVars
<1>1. CASE OpenDialog
  BY <1>1 DEF OpenDialog
<1>2. CASE CloseDialog
  BY <1>2 DEF CloseDialog
<1>3. CASE Refresh
  BY <1>3 DEF Refresh, Ready
<1>4. ASSUME NEW checked \in SUBSET Packages, AskDownload(checked) PROVE Shown'
  BY <1>4, AskDownloadTyped DEF Ready
<1>5. ASSUME NEW checked \in SUBSET Packages, AskRemove(checked) PROVE Shown'
  BY <1>5, AskRemoveTyped DEF Ready
<1>6. CASE Accept
  BY <1>6, AcceptTyped DEF RunWorker
<1>7. CASE Decline
  BY <1>7 DEF Decline
<1>8. CASE Poll
  BY <1>8, PollTyped DEF RunWorker
<1>9. ASSUME NEW p \in Packages, Download(p) PROVE Shown'
  BY <1>9, DownloadTyped
<1>10. ASSUME NEW p \in Packages, Remove(p) PROVE Shown'
  BY <1>10, RemoveTyped
<1>11. CASE Downloaded
  BY <1>11, DownloadedTyped
<1>12. CASE Done
  BY <1>12, DoneTyped
<1>13. CASE Switch
  BY <1>13 DEF Switch
<1>14. CASE Exit
  BY <1>14 DEF Exit
<1>15. CASE UNCHANGED managerVars
  BY <1>15 DEF managerVars
<1> QED
  BY <1>1, <1>2, <1>3, <1>4, <1>5, <1>6, <1>7, <1>8, <1>9, <1>10, <1>11, <1>12, <1>13, <1>14, <1>15
  DEF ManagerNext, Worker

-----------------------------------------------------------------------------
(* Jobs and questions                                                        *)

Touched(j) == j.todo \cup j.failed \cup j.gone

\* The user has another synthesizer, or S, or nothing was usable in the first place.
Spared(S) == away \/ Usable(installed) = {} \/ Usable(S) # {}

\* What is under way may land; what is removed is closed under dependents, and what is
\* not removed is there.
JobOK(j) ==
  /\ j.kind = "download" => j.gone = {} /\ (j.now # NoPackage => Chain(j.now) \subseteq installed)
  /\ j.kind = "remove" =>
       /\ j.now = NoPackage /\ j.gone \cap installed = {}
       /\ Closed(Touched(j), j.known) /\ j.known \ Touched(j) \subseteq installed
       /\ Spared(j.known \ Touched(j))

\* A removal that is asked for is about what is installed now; one that waits, about
\* what still is.
AskOK ==
  /\ prompt.kind \in {"remove", "switch"} =>
       /\ ~isBusy /\ pending = NoTask
       /\ Closed(prompt.packages, prompt.known) /\ prompt.known = installed
  /\ prompt.kind = "remove" => Spared(prompt.known \ prompt.packages)
  /\ prompt.kind = "switch" => google \/ away

WaitOK ==
  pending # NoTask =>
    /\ job.kind # "remove" /\ (google \/ away)
    /\ Closed(pending.packages, pending.known) /\ pending.known \subseteq installed

Listing == shown /\ ~isBusy => listed = installed

ManagerInv == Plain /\ Shown /\ JobOK(job) /\ AskOK /\ WaitOK /\ Listing

LEMMA InitManager == ManagerInit => ManagerInv
<1> SUFFICES ASSUME ManagerInit PROVE ManagerInv
  OBVIOUS
<1>1. Plain
  BY ExitTyped DEF ManagerInit, Plain
<1>2. Shown /\ JobOK(job) /\ AskOK /\ WaitOK /\ Listing
  BY NoneIs DEF ManagerInit, Shown, isBusy, JobOK, AskOK, WaitOK, Listing
<1> QED BY <1>1, <1>2 DEF ManagerInv

\* A job that begins with a removal that may begin.
LEMMA RemovalBegins ==
  ASSUME NEW task \in Tasks({"download", "remove"}),
         task.kind = "remove" =>
           /\ Closed(task.packages, task.known) /\ task.known \subseteq installed
           /\ Spared(task.known \ task.packages)
  PROVE  JobOK(Job(task))
<1>1. /\ Job(task).kind = task.kind /\ Job(task).now = NoPackage /\ Job(task).gone = {}
      /\ Job(task).known = task.known /\ Touched(Job(task)) = task.packages
  BY JobTyped DEF Touched
<1> QED BY <1>1 DEF JobOK

LEMMA JobStays ==
  ASSUME JobOK(job), UNCHANGED <<job, installed>>, away => away'
  PROVE  JobOK(job)'
  BY DEF JobOK, Touched, Spared

\* The same with a job that begins.
LEMMA JobBegins ==
  ASSUME NEW task, JobOK(Job(task)), JobOK(job), RunWorker(task), UNCHANGED <<installed, away>>
  PROVE  JobOK(job)'
<1>1. CASE job' = job BY <1>1, JobStays
<1>2. CASE job' = Job(task) BY <1>2 DEF JobOK, Touched, Spared
<1> QED BY <1>1, <1>2 DEF RunWorker

LEMMA JobOKKept ==
  ASSUME ManagerInv, [ManagerNext]_managerVars
  PROVE  JobOK(job)'
<1> USE DEF ManagerInv
<1>1. CASE OpenDialog \/ CloseDialog \/ Refresh \/ Decline \/ Switch \/ UNCHANGED managerVars
  <2>1. UNCHANGED <<job, installed>> /\ (away => away')
    BY <1>1 DEF OpenDialog, CloseDialog, Refresh, Decline, Switch, managerVars, Plain
  <2> QED BY <2>1, JobStays
<1>2. ASSUME NEW checked \in SUBSET Packages, AskDownload(checked) PROVE JobOK(job)'
  <2>1. CASE UNCHANGED job BY <1>2, <2>1, AskDownloadTyped, JobStays
  <2>2. ASSUME NEW task \in Tasks({"download", "remove"}), task.kind = "download", RunWorker(task)
        PROVE  JobOK(job)'
    BY <1>2, <2>2, AskDownloadTyped, RemovalBegins, JobBegins
  <2> QED BY <1>2, <2>1, <2>2, AskDownloadTyped
<1>3. ASSUME NEW checked \in SUBSET Packages, AskRemove(checked) PROVE JobOK(job)'
  <2>1. job' = NoJob
    BY <1>3, AskRemoveTyped DEF Ready, isBusy
  <2> QED BY <2>1, NoneIs DEF JobOK
<1>4. CASE Accept
  <2>1. CASE UNCHANGED job BY <1>4, <2>1, AcceptTyped, JobStays
  <2>2. CASE prompt \in Tasks({"download", "remove"}) /\ RunWorker(prompt)
    <3>1. JobOK(Job(prompt))
      BY <2>2, RemovalBegins DEF AskOK
    <3> QED BY <1>4, <2>2, <3>1, AcceptTyped, JobBegins
  <2> QED BY <1>4, <2>1, <2>2, AcceptTyped
<1>5. CASE Poll
  <2>1. CASE UNCHANGED job BY <1>5, <2>1, PollTyped, JobStays
  <2>2. CASE ~google /\ RunWorker(pending)
    <3>1. JobOK(Job(pending))
      BY <1>5, <2>2, PollTyped, RemovalBegins DEF WaitOK, Spared
    <3> QED BY <1>5, <2>2, <3>1, PollTyped, JobBegins
  <2> QED BY <1>5, <2>1, <2>2, PollTyped
<1>6. ASSUME NEW p \in Packages, Download(p) PROVE JobOK(job)'
  <2>1. /\ job \in JobType /\ job.kind = "download" /\ job.gone = {} /\ job.now = NoPackage
        /\ UNCHANGED installed
    BY <1>6, JobSteps DEF Download, Idle, JobOK
  <2>2. CASE IsMissing(p, installed)
    BY <1>6, <2>1, <2>2 DEF Download, JobOK, JobType
  <2>3. CASE ~IsMissing(p, installed)
    <3>1. Chain(p) \subseteq installed
      BY <2>3 DEF IsMissing
    <3>2. job'.kind = "download" /\ job'.gone = {} /\ job'.now = p
      BY <1>6, <2>1, <2>3 DEF Download, JobType
    <3> QED BY <2>1, <3>1, <3>2 DEF JobOK
  <2> QED BY <2>2, <2>3
<1>7. ASSUME NEW p \in Packages, Remove(p) PROVE JobOK(job)'
  <2>1. /\ job \in JobType /\ job.kind = "remove" /\ job.now = NoPackage /\ p \in job.todo
        /\ installed' \subseteq installed /\ away' = away
    BY <1>7, JobSteps, RemoveTyped DEF Remove, Idle, TakesUp
  <2>2. \/ /\ job' = [job EXCEPT !.todo = @ \ {p}, !.failed = @ \cup {p}]
           /\ installed' = installed
        \/ /\ job' = [job EXCEPT !.todo = @ \ {p}, !.gone = @ \cup {p}]
           /\ installed' = installed \ {p}
    BY <1>7 DEF Remove
  <2>3. /\ job'.kind = "remove" /\ job'.now = NoPackage /\ job'.known = job.known
        /\ job'.todo \cup job'.failed \cup job'.gone = job.todo \cup job.failed \cup job.gone
    BY <2>1, <2>2, ZenonT(30) DEF JobType
  <2>4. Touched(job)' = Touched(job) /\ Touched(job') = Touched(job)
    BY <2>3 DEF Touched
  <2>5. job'.gone \cap installed' = {} /\ installed \ {p} \subseteq installed'
    BY <2>1, <2>2 DEF JobType, JobOK
  <2>6. job.known \ Touched(job) \subseteq installed'
    BY <2>1, <2>5 DEF JobOK, Touched
  <2>7. away' \/ Usable(installed') = {} \/ Usable(job.known \ Touched(job)) # {}
    <3>1. Usable(installed') \subseteq Usable(installed)
      BY <2>1, UsableGrows
    <3> QED BY <2>1, <3>1 DEF JobOK, Spared
  <2>8. Closed(Touched(job), job.known)
    BY <2>1 DEF JobOK
  <2>9. Spared(job.known \ Touched(job))'
    BY <2>3, <2>4, <2>7 DEF Spared
  <2>10. Closed(Touched(job), job.known)'
    BY <2>3, <2>4, <2>8 DEF Closed
  <2> HIDE DEF ManagerInv
  <2> QED BY <2>3, <2>4, <2>5, <2>6, <2>9, <2>10 DEF JobOK
<1>8. CASE Downloaded
  <2>1. job \in JobType /\ job.now # NoPackage
    BY <1>8, DownloadedTyped, JobSteps DEF Downloaded
  <2>2. job.kind = "download"
    BY <2>1 DEF JobOK, JobType
  <2>3. job'.kind = "download" /\ job'.gone = {} /\ job'.now = NoPackage
    BY <1>8, <2>1, <2>2 DEF Downloaded, JobType, JobOK
  <2> QED BY <2>3 DEF JobOK
<1>9. CASE Done \/ Exit
  <2>1. job' = NoJob
    BY <1>9 DEF Done, Exit
  <2> QED BY <2>1, NoneIs DEF JobOK
<1> QED
  BY <1>1, <1>2, <1>3, <1>4, <1>5, <1>6, <1>7, <1>8, <1>9 DEF ManagerNext, Worker

LEMMA RunWorkerRuns ==
  ASSUME Plain, NEW task \in Tasks({"download", "remove"}), RunWorker(task)
  PROVE  isBusy' /\ job'.kind \in {job.kind, task.kind} /\ (isBusy => job' = job)
<1>1. Job(task).kind = task.kind /\ Job(task) # NoJob
  BY JobTyped, NoneIs
<1> QED BY <1>1 DEF RunWorker, isBusy

\* A step of the worker on a job keeps its kind, and the dialog busy.
LEMMA JobGoesOn ==
  ASSUME Plain, NEW p \in Packages, Download(p) \/ Remove(p) \/ Downloaded
  PROVE  isBusy /\ isBusy' /\ job'.kind = job.kind
<1>1. isBusy /\ job' \in JobType
  BY DownloadTyped, RemoveTyped, DownloadedTyped
<1>2. isBusy'
  BY <1>1, NoneIs DEF isBusy
<1>3. job'.kind = job.kind
  BY <1>1, JobSteps DEF Download, Remove, Downloaded, JobType
<1> QED BY <1>1, <1>2, <1>3

LEMMA AskOKKept ==
  ASSUME ManagerInv, [ManagerNext]_managerVars
  PROVE  AskOK'
<1> USE DEF ManagerInv
<1>1. CASE OpenDialog \/ Refresh \/ UNCHANGED managerVars
  <2>1. UNCHANGED <<prompt, pending, job, installed, google, away>>
    BY <1>1 DEF OpenDialog, Refresh, managerVars, dialogVars, waitVars
  <2> QED BY <2>1 DEF AskOK, Spared, Closed, isBusy
<1>2. CASE CloseDialog \/ Decline \/ Exit \/ Accept \/ Switch
  <2>1. prompt' = NoTask
    BY <1>2 DEF CloseDialog, Decline, Exit, Accept, Switch, dialogVars
  <2> QED BY <2>1, NoneIs DEF AskOK
<1>3. ASSUME NEW checked \in SUBSET Packages, AskDownload(checked) PROVE AskOK'
  <2>1. prompt'.kind \notin {"remove", "switch"}
    BY <1>3, AskDownloadTyped, NoneIs DEF Ready
  <2> QED BY <2>1 DEF AskOK
<1>4. ASSUME NEW checked \in SUBSET Packages, AskRemove(checked) PROVE AskOK'
  <2>1. ~isBusy' /\ pending' = NoTask /\ listed = installed /\ installed' = installed
    BY <1>4, AskRemoveTyped DEF Ready, isBusy, Listing
  <2>2. prompt'.kind = "remove" => Spared(prompt.known \ prompt.packages)'
    BY <1>4, <2>1, AskRemoveTyped DEF Spared, RemovesAll
  <2>3. Closed(prompt.packages, prompt.known)' /\ prompt'.known = installed'
    BY <1>4, <2>1, AskRemoveTyped DEF Closed
  <2>4. prompt'.kind = "switch" => google' \/ away'
    BY <1>4, AskRemoveTyped
  <2> QED BY <2>1, <2>2, <2>3, <2>4 DEF AskOK
<1>5. CASE Poll
  <2>1. prompt'.kind \notin {"remove", "switch"}
    BY <1>5, PollTyped DEF AskOK
  <2> QED BY <2>1 DEF AskOK
<1>6. CASE Worker
  <2>1. isBusy /\ prompt' = prompt
    BY <1>6, DownloadTyped, RemoveTyped, DownloadedTyped, DoneTyped DEF Worker
  <2> QED BY <2>1 DEF AskOK
<1> QED BY <1>1, <1>2, <1>3, <1>4, <1>5, <1>6 DEF ManagerNext

LEMMA WaitOKKept ==
  ASSUME ManagerInv, [ManagerNext]_managerVars
  PROVE  WaitOK'
<1> USE DEF ManagerInv
<1>1. CASE OpenDialog \/ Refresh \/ Decline \/ UNCHANGED managerVars
  BY <1>1 DEF OpenDialog, Refresh, Decline, managerVars, waitVars, WaitOK
<1>2. CASE CloseDialog \/ Exit
  BY <1>2 DEF CloseDialog, Exit, WaitOK
<1>3. CASE Switch
  BY <1>3 DEF Switch, waitVars, WaitOK
<1>4. ASSUME NEW checked \in SUBSET Packages, AskDownload(checked) PROVE WaitOK'
  <2>1. job'.kind \in {job.kind, "download"}
    BY <1>4, AskDownloadTyped, RunWorkerRuns
  <2> QED BY <1>4, <2>1, AskDownloadTyped DEF WaitOK
<1>5. ASSUME NEW checked \in SUBSET Packages, AskRemove(checked) PROVE WaitOK'
  BY <1>5, AskRemoveTyped DEF WaitOK
<1>6. CASE Accept
  <2>1. CASE prompt \in Tasks({"download", "remove"}) /\ RunWorker(prompt) /\ UNCHANGED pending
    <3>1. CASE prompt.kind = "remove"
      BY <2>1, <3>1 DEF AskOK, WaitOK
    <3>2. CASE prompt.kind = "download"
      <4>1. job'.kind \in {job.kind, "download"}
        BY <2>1, <3>2, RunWorkerRuns
      <4> QED BY <1>6, <2>1, <4>1, AcceptTyped DEF WaitOK
    <3> QED BY <2>1, <3>1, <3>2 DEF Tasks
  <2>2. CASE /\ prompt.kind = "switch" /\ UNCHANGED job /\ pending' # NoTask
             /\ pending'.packages = prompt.packages /\ pending'.known = prompt.known
    <3>1. job' = NoJob /\ (google' \/ away')
      BY <1>6, <2>2, AcceptTyped DEF AskOK, isBusy
    <3>2. Closed(pending.packages, pending.known)' /\ pending'.known = installed'
      BY <1>6, <2>2, AcceptTyped DEF AskOK, Closed
    <3> QED BY <3>1, <3>2, NoneIs DEF WaitOK
  <2>3. CASE pending' = NoTask
    BY <2>3 DEF WaitOK
  <2> QED BY <1>6, <2>1, <2>2, <2>3, AcceptTyped
<1>7. CASE Poll
  BY <1>7, PollTyped DEF WaitOK
<1>8. ASSUME NEW p \in Packages, Download(p) \/ Downloaded PROVE WaitOK'
  <2>1. /\ installed \subseteq installed' /\ UNCHANGED <<pending, google, away>>
        /\ job'.kind = job.kind
    BY <1>8, DownloadTyped, DownloadedTyped, JobGoesOn
  <2> QED BY <2>1 DEF WaitOK
<1>9. ASSUME NEW p \in Packages, Remove(p) PROVE WaitOK'
  <2>1. job.kind = "remove"
    BY <1>9 DEF Remove
  <2>2. pending' = pending
    BY <1>9 DEF Remove, waitVars
  <2> QED BY <2>1, <2>2 DEF WaitOK
<1>10. CASE Done
  BY <1>10, DoneTyped, NoneIs DEF WaitOK
<1>11. CASE Downloaded
  <2>1. installed \subseteq installed' /\ UNCHANGED <<pending, google, away>> /\ job.now \in Packages
    BY <1>11, DownloadedTyped
  <2>2. job'.kind = job.kind
    BY <1>11, <2>1, JobGoesOn
  <2> QED BY <2>1, <2>2 DEF WaitOK
<1> QED
  BY <1>1, <1>2, <1>3, <1>4, <1>5, <1>6, <1>7, <1>8, <1>9, <1>10, <1>11 DEF ManagerNext, Worker

LEMMA ListingKept ==
  ASSUME ManagerInv, [ManagerNext]_managerVars
  PROVE  Listing'
<1> USE DEF ManagerInv
<1>1. CASE OpenDialog \/ Refresh \/ CloseDialog \/ Decline \/ Switch \/ Exit \/ UNCHANGED managerVars
  BY <1>1 DEF OpenDialog, Refresh, CloseDialog, Decline, Switch, Exit, managerVars, dialogVars, Listing, isBusy
<1>2. ASSUME NEW checked \in SUBSET Packages, AskDownload(checked) PROVE Listing'
  <2>1. CASE UNCHANGED job BY <1>2, <2>1, AskDownloadTyped DEF Listing, isBusy
  <2>2. ASSUME NEW task \in Tasks({"download", "remove"}), RunWorker(task) PROVE Listing'
    BY <2>2, RunWorkerRuns DEF Listing
  <2> QED BY <1>2, <2>1, <2>2, AskDownloadTyped
<1>3. ASSUME NEW checked \in SUBSET Packages, AskRemove(checked) PROVE Listing'
  BY <1>3, AskRemoveTyped DEF Listing, isBusy
<1>4. CASE Accept
  <2>1. CASE UNCHANGED job BY <1>4, <2>1, AcceptTyped DEF Listing, isBusy
  <2>2. CASE prompt \in Tasks({"download", "remove"}) /\ RunWorker(prompt)
    BY <2>2, RunWorkerRuns DEF Listing
  <2> QED BY <1>4, <2>1, <2>2, AcceptTyped
<1>5. CASE Poll
  <2>1. CASE UNCHANGED job BY <1>5, <2>1, PollTyped DEF Listing, isBusy
  <2>2. CASE RunWorker(pending)
    BY <1>5, <2>2, PollTyped, RunWorkerRuns DEF Listing
  <2> QED BY <1>5, <2>1, <2>2, PollTyped
<1>6. ASSUME NEW p \in Packages, Download(p) \/ Remove(p) PROVE Listing'
  BY <1>6, JobGoesOn DEF Listing
<1>7. CASE Downloaded
  BY <1>7, DownloadedTyped, JobGoesOn DEF Listing
<1>8. CASE Done
  BY <1>8, DoneTyped DEF Listing
<1> QED
  BY <1>1, <1>2, <1>3, <1>4, <1>5, <1>6, <1>7, <1>8 DEF ManagerNext, Worker

-----------------------------------------------------------------------------
(* The theorems                                                              *)

LEMMA ManagerInvariant == ManagerSpec => []ManagerInv
<1>1. ManagerInv /\ [ManagerNext]_managerVars => ManagerInv'
  <2> SUFFICES ASSUME ManagerInv, [ManagerNext]_managerVars PROVE ManagerInv'
    OBVIOUS
  <2>1. Plain' /\ Shown'
    BY PlainKept, ShownKept DEF ManagerInv
  <2>2. JobOK(job)' /\ AskOK' /\ WaitOK' /\ Listing'
    BY JobOKKept, AskOKKept, WaitOKKept, ListingKept
  <2> QED BY <2>1, <2>2 DEF ManagerInv
<1> QED BY <1>1, InitManager, PTL DEF ManagerSpec

\* Type correctness of the dialog, its questions and its worker: none of them goes on
\* without the dialog.
THEOREM ManagerTypesHold == ManagerSpec => []ManagerTypeOK
<1>1. ManagerInv => ManagerTypeOK
  BY TypeIs DEF ManagerInv
<1> QED BY <1>1, ManagerInvariant, PTL

\* What a step adds is a downloaded package, what it takes away a removed one.
LEMMA InstalledChanges ==
  ASSUME ManagerInv, [ManagerNext]_managerVars, installed' # installed
  PROVE  Downloaded \/ \E p \in Packages : Remove(p)
<1> USE DEF ManagerInv
<1>1. CASE OpenDialog \/ Refresh \/ CloseDialog \/ Decline \/ Switch \/ Exit \/ UNCHANGED managerVars
  BY <1>1 DEF OpenDialog, Refresh, CloseDialog, Decline, Switch, Exit, managerVars
<1>2. ASSUME NEW checked \in SUBSET Packages, AskDownload(checked) \/ AskRemove(checked) PROVE FALSE
  BY <1>2, AskDownloadTyped, AskRemoveTyped
<1>3. CASE Accept \/ Poll
  BY <1>3, AcceptTyped, PollTyped
<1>4. ASSUME NEW p \in Packages, Download(p) PROVE FALSE
  BY <1>4, DownloadTyped
<1>5. CASE Done
  BY <1>5, DoneTyped
<1> QED BY <1>1, <1>2, <1>3, <1>4, <1>5 DEF ManagerNext, Worker

\* A package lands with all it requires (_missing_dependency_for_package before each
\* download), and goes after all that require it (_with_installed_dependents,
\* _dependents_first), whatever fails on the way.
THEOREM KeepsDependencies == ManagerSpec => DependenciesKept
<1>1. ManagerInv /\ [ManagerNext]_managerVars =>
        [\A p \in Packages : p \in installed' \ installed => Chain(p) \subseteq installed']_managerVars
  <2> SUFFICES ASSUME ManagerInv, [ManagerNext]_managerVars, NEW p \in Packages,
                      p \in installed' \ installed
               PROVE  Chain(p) \subseteq installed'
    OBVIOUS
  <2>1. Downloaded
    BY InstalledChanges, RemoveTyped DEF ManagerInv
  <2>2. p = job.now /\ isBusy /\ installed \subseteq installed' /\ job \in JobType /\ job.now # NoPackage
    BY <2>1, DownloadedTyped, JobSteps, NoPackageIsNone DEF ManagerInv
  <2>3. Chain(job.now) \subseteq installed
    BY <2>2 DEF ManagerInv, JobOK, JobType
  <2> QED BY <2>2, <2>3
<1>2. ManagerInv /\ [ManagerNext]_managerVars =>
        [\A b \in installed \ installed' :
           \A p \in installed' : Base[p] = b => p \in job.failed \/ p \notin job.known]_managerVars
  <2> SUFFICES ASSUME ManagerInv, [ManagerNext]_managerVars, NEW b \in installed \ installed',
                      NEW p \in installed', Base[p] = b, p \in job.known
               PROVE  p \in job.failed
    OBVIOUS
  <2>1. PICK r \in Packages : Remove(r)
    BY InstalledChanges, DownloadedTyped DEF ManagerInv
  <2>2. /\ job \in JobType /\ job.kind = "remove" /\ r = b /\ b \in job.todo
        /\ installed' \subseteq installed
        /\ \A q \in job.todo : Depth(b, job.known) >= Depth(q, job.known)
    BY <2>1, RemoveTyped, JobSteps DEF ManagerInv, Remove, Idle, TakesUp, InTurn
  <2>3. job.gone \cap installed = {} /\ Closed(Touched(job), job.known)
    BY <2>2 DEF ManagerInv, JobOK
  <2>4. b \in job.known /\ p \in Touched(job) /\ p \notin job.gone
    BY <2>2, <2>3 DEF Closed, Touched
  <2>5. p \notin job.todo
    <3>1. p \in Packages /\ b \in Packages /\ job.known \in SUBSET Packages
      BY <2>1, <2>2 DEF JobType
    <3>2. ~(Depth(b, job.known) >= Depth(p, job.known))
      BY <2>4, <3>1, DependentIsDeeper
    <3> QED BY <2>2, <3>2
  <2> QED BY <2>4, <2>5 DEF Touched
<1>3. ManagerSpec => BaseFirst
  BY <1>1, ManagerInvariant, PTL DEF ManagerSpec, BaseFirst
<1>4. ManagerSpec => BaseLast
  BY <1>2, ManagerInvariant, PTL DEF ManagerSpec, BaseLast
<1> QED BY <1>3, <1>4, PTL DEF DependenciesKept

\* _removes_all_usable_voices and the removal that waits for the switch: the last usable
\* voice goes only after the user has gone to another synthesizer.
THEOREM KeepsLastVoice == ManagerSpec => LastVoiceKept
<1>1. ManagerInv /\ [ManagerNext]_managerVars =>
        [Usable(installed) # {} /\ Usable(installed') = {} => away]_managerVars
  <2> SUFFICES ASSUME ManagerInv, [ManagerNext]_managerVars,
                      Usable(installed) # {}, Usable(installed') = {}
               PROVE  away
    OBVIOUS
  <2>1. PICK p \in Packages : Remove(p)
    <3>1. ~Downloaded
      <4> SUFFICES ASSUME Downloaded PROVE FALSE
        OBVIOUS
      <4>1. Usable(installed) \subseteq Usable(installed')
        BY DownloadedTyped, UsableGrows DEF ManagerInv
      <4> QED BY <4>1
    <3> QED BY <3>1, InstalledChanges
  <2>2. job.kind = "remove" /\ p \in job.todo /\ installed \ {p} \subseteq installed'
    BY <2>1 DEF Remove, TakesUp
  <2>3. job.known \ Touched(job) \subseteq installed' /\ Spared(job.known \ Touched(job))
    BY <2>2 DEF ManagerInv, JobOK, Touched
  <2>4. Usable(job.known \ Touched(job)) \subseteq Usable(installed')
    BY <2>3, UsableGrows
  <2> QED BY <2>3, <2>4 DEF Spared
<1> QED BY <1>1, ManagerInvariant, PTL DEF ManagerSpec, LastVoiceKept

\* _reset_configured_voice_if_removed and its fellow for the profile: after a removal
\* the configuration names only voices that are there, if any are.
THEOREM ConfigurationFollows == ManagerSpec => ConfigFollows
<1>1. ASSUME ManagerInv, [ManagerNext]_managerVars, isBusy, ~isBusy', shown'
      PROVE  Done
  <2>1. CASE OpenDialog \/ Refresh \/ CloseDialog \/ Decline \/ Switch \/ UNCHANGED managerVars
    BY <1>1, <2>1 DEF OpenDialog, Refresh, CloseDialog, Decline, Switch, managerVars, isBusy
  <2>2. ASSUME NEW checked \in SUBSET Packages, AskDownload(checked) \/ AskRemove(checked) PROVE FALSE
    BY <1>1, <2>2 DEF AskDownload, AskRemove, Ready
  <2>3. CASE Accept
    BY <1>1, <2>3, AcceptTyped, RunWorkerRuns DEF ManagerInv, isBusy
  <2>4. CASE Poll
    BY <1>1, <2>4, PollTyped, RunWorkerRuns DEF ManagerInv, isBusy
  <2>5. ASSUME NEW p \in Packages, Download(p) \/ Remove(p) PROVE FALSE
    BY <1>1, <2>5, JobGoesOn DEF ManagerInv
  <2>6. ~Downloaded
    BY <1>1, DownloadedTyped, JobGoesOn DEF ManagerInv
  <2>7. CASE Exit
    BY <1>1, <2>7 DEF Exit
  <2> QED BY <1>1, <2>1, <2>2, <2>3, <2>4, <2>5, <2>6, <2>7 DEF ManagerNext, Worker
<1>2. ASSUME ManagerInv, Done
      PROVE  /\ variant' \in job.gone => Usable(installed') = {}
             /\ profile' \notin job.gone
             /\ variant' # variant => variant' \in Usable(installed')
             /\ profile' # profile => profile' \in Usable(installed') \cup {NoPackage}
  <2>1. installed' = installed /\ ResetVariant(Usable(installed)) /\ ResetProfile(Usable(installed))
    BY <1>2 DEF Done
  <2>2. job.gone \cap installed = {} /\ NoPackage \notin job.gone
    BY <1>2, JobSteps, NoPackageIsNone, DoneTyped DEF ManagerInv, JobOK, JobType
  <2>3. Usable(installed) \subseteq installed
    BY DEF Usable
  <2>4. /\ variant' \in job.gone => Usable(installed) = {}
        /\ variant' # variant => variant' \in Usable(installed)
    BY <2>1, <2>2, <2>3 DEF ResetVariant
  <2>5. /\ profile' \notin job.gone
        /\ profile' # profile => profile' \in Usable(installed) \cup {NoPackage}
    BY <2>1, <2>2, <2>3 DEF ResetProfile
  <2> QED BY <2>1, <2>4, <2>5
<1>3. ManagerInv /\ [ManagerNext]_managerVars =>
        [isBusy /\ ~isBusy' /\ shown' =>
           /\ variant' \in job.gone => Usable(installed') = {}
           /\ profile' \notin job.gone
           /\ variant' # variant => variant' \in Usable(installed')
           /\ profile' # profile => profile' \in Usable(installed') \cup {NoPackage}]_managerVars
  BY <1>1, <1>2
<1> QED BY <1>3, ManagerInvariant, PTL DEF ManagerSpec, ConfigFollows

-----------------------------------------------------------------------------
(* The update                                                                *)

\* FinishCheck and FinishDownload end the check, or go on.
LEMMA FinishCheckEnds ==
  ASSUME FinishCheck
  PROVE  /\ stage = "checked"
         /\ \/ FinishUpdateCheck /\ (CleanUp \/ RemoveManifest)
            \/ found = "available" /\ stage' = "ask" /\ UNCHANGED <<inProgress, found, fileVars, fetchVars, cancelEvent, late, left>>
  BY DEF FinishCheck

LEMMA FinishDownloadEnds ==
  ASSUME FinishDownload
  PROVE  /\ stage = "download"
         /\ \/ FinishUpdateCheck /\ (CleanUp \/ (outcome = "failed" /\ RemoveManifest))
            \/ outcome = "update" /\ stage' = "install" /\ RemoveManifest /\ UNCHANGED <<inProgress, found, fetchVars, cancelEvent, late>>
  BY DEF FinishDownload

\* The thread of the download, and its outcome, exist while the dialog does.
Thread ==
  /\ stage = "download" => fetcher # "none"
  /\ stage \notin {"download", "install"} => fetcher = "none"
  /\ stage = "install" => fetcher = "ended" /\ outcome = "update"
  /\ outcome # "none" <=> fetcher = "ended"
  /\ stage \notin {"download", "install"} => ~cancelEvent

\* What has been verified, and what a finished download vouches for.
Verified ==
  /\ fetcher = "replace" => partial = "whole"
  /\ fetcher = "return" => package = "whole"
  /\ outcome = "update" => package = "whole" /\ (~cancelEvent \/ late)

\* What is in the folder, unless it was left over.
InFolder ==
  /\ stage \in {"none", "check"} => ~manifest
  /\ stage = "checked" /\ found = "error" => ~manifest
  /\ stage = "install" => ~manifest
  /\ fetcher \in {"none", "prepare"} \/ outcome = "failed" => partial = "none" /\ package = "none"
  /\ fetcher \in {"read", "check", "replace"} => package = "none"
  /\ fetcher = "return" \/ outcome = "update" => partial = "none"

UpdateInv == UpdateTypeOK /\ Thread /\ Verified /\ (~left => InFolder)

LEMMA InitUpdate == UpdateInit => UpdateInv
  BY DEF UpdateInit, UpdateInv, UpdateTypeOK, Thread, Verified, InFolder

LEMMA TypesKept == UpdateInv /\ [UpdateNext]_updateVars => UpdateTypeOK'
<1> SUFFICES ASSUME UpdateInv, [UpdateNext]_updateVars PROVE UpdateTypeOK'
  OBVIOUS
<1> USE DEF UpdateInv, UpdateTypeOK, Thread, fileVars, fetchVars
<1>1. CASE StartCheck BY <1>1 DEF StartCheck
<1>2. CASE FetchManifest BY <1>2 DEF FetchManifest
<1>3. CASE FinishCheck BY <1>3, FinishCheckEnds DEF FinishUpdateCheck, CleanUp, RemoveManifest
<1>4. CASE AnswerNo BY <1>4 DEF AnswerNo, FinishUpdateCheck, RemoveManifest
<1>5. CASE AnswerYes BY <1>5 DEF AnswerYes, FinishUpdateCheck, CleanUp
<1>6. CASE PrepareDownload BY <1>6 DEF PrepareDownload, Fetching, FetchGoes, Ends
<1>7. CASE ReadResponse BY <1>7 DEF ReadResponse, Fetching, FetchGoes, Ends, DiscardPartial
<1>8. CASE CheckDigest BY <1>8 DEF CheckDigest, Fetching, FetchGoes, Ends, DiscardPartial
<1>9. CASE ReplacePackage BY <1>9 DEF ReplacePackage, Fetching, FetchGoes, Ends, DiscardPartial, Verified
<1>10. CASE ReturnPackage BY <1>10 DEF ReturnPackage, Fetching, Ends
<1>11. CASE CancelDownload BY <1>11 DEF CancelDownload
<1>12. CASE FinishDownload BY <1>12, FinishDownloadEnds DEF FinishUpdateCheck, CleanUp, RemoveManifest
<1>13. CASE Install BY <1>13 DEF Install, FinishUpdateCheck
<1>14. CASE ExitNVDA BY <1>14 DEF ExitNVDA, FinishUpdateCheck
<1>15. CASE UNCHANGED updateVars BY <1>15 DEF updateVars
<1> QED
  BY <1>1, <1>2, <1>3, <1>4, <1>5, <1>6, <1>7, <1>8, <1>9, <1>10, <1>11, <1>12, <1>13, <1>14, <1>15
  DEF UpdateNext, DownloadUpdate, Controller

LEMMA ThreadsKept == UpdateInv /\ [UpdateNext]_updateVars => Thread'
<1> SUFFICES ASSUME UpdateInv, [UpdateNext]_updateVars PROVE Thread'
  OBVIOUS
<1> USE DEF UpdateInv, UpdateTypeOK, Thread, fileVars, fetchVars
<1>1. CASE StartCheck BY <1>1 DEF StartCheck
<1>2. CASE FetchManifest BY <1>2 DEF FetchManifest
<1>3. CASE FinishCheck
  <2>1. CASE FinishUpdateCheck BY <2>1 DEF FinishUpdateCheck
  <2>2. CASE stage = "checked" /\ stage' = "ask" /\ UNCHANGED <<fetchVars, cancelEvent>>
    BY <2>2
  <2> QED BY <1>3, <2>1, <2>2, FinishCheckEnds
<1>4. CASE AnswerNo BY <1>4 DEF AnswerNo, FinishUpdateCheck, RemoveManifest
<1>5. CASE AnswerYes BY <1>5 DEF AnswerYes, FinishUpdateCheck, CleanUp
<1>6. CASE PrepareDownload BY <1>6 DEF PrepareDownload, Fetching, FetchGoes, Ends
<1>7. CASE ReadResponse BY <1>7 DEF ReadResponse, Fetching, FetchGoes, Ends, DiscardPartial
<1>8. CASE CheckDigest BY <1>8 DEF CheckDigest, Fetching, FetchGoes, Ends, DiscardPartial
<1>9. CASE ReplacePackage BY <1>9 DEF ReplacePackage, Fetching, FetchGoes, Ends, DiscardPartial
<1>10. CASE ReturnPackage BY <1>10 DEF ReturnPackage, Fetching, Ends
<1>11. CASE CancelDownload BY <1>11 DEF CancelDownload
<1>12. CASE FinishDownload BY <1>12, FinishDownloadEnds DEF FinishUpdateCheck, CleanUp, RemoveManifest
<1>13. CASE Install BY <1>13 DEF Install, FinishUpdateCheck
<1>14. CASE ExitNVDA BY <1>14 DEF ExitNVDA, FinishUpdateCheck
<1>15. CASE UNCHANGED updateVars BY <1>15 DEF updateVars
<1> QED
  BY <1>1, <1>2, <1>3, <1>4, <1>5, <1>6, <1>7, <1>8, <1>9, <1>10, <1>11, <1>12, <1>13, <1>14, <1>15
  DEF UpdateNext, DownloadUpdate, Controller

\* A cancel that comes before the outcome is known keeps the thread from the outcome
\* "update"; the package is not touched between the check of its digest and the end.
LEMMA VerifiedKept == UpdateInv /\ [UpdateNext]_updateVars => Verified'
<1> SUFFICES ASSUME UpdateInv, [UpdateNext]_updateVars PROVE Verified'
  OBVIOUS
<1> USE DEF UpdateInv, Thread, Verified, fileVars, fetchVars
<1>1. CASE StartCheck BY <1>1 DEF StartCheck
<1>2. CASE FetchManifest BY <1>2 DEF FetchManifest
<1>3. CASE FinishCheck BY <1>3 DEF FinishCheck, FinishUpdateCheck, CleanUp, RemoveManifest
<1>4. CASE AnswerNo BY <1>4 DEF AnswerNo, FinishUpdateCheck, RemoveManifest
<1>5. CASE AnswerYes BY <1>5 DEF AnswerYes, FinishUpdateCheck, CleanUp
<1>6. CASE PrepareDownload BY <1>6 DEF PrepareDownload, Fetching, FetchGoes, Ends
<1>7. CASE ReadResponse BY <1>7 DEF ReadResponse, Fetching, FetchGoes, Ends, DiscardPartial
<1>8. CASE CheckDigest BY <1>8 DEF CheckDigest, Fetching, FetchGoes, Ends, DiscardPartial
<1>9. CASE ReplacePackage BY <1>9 DEF ReplacePackage, Fetching, FetchGoes, Ends, DiscardPartial
<1>10. CASE ReturnPackage BY <1>10 DEF ReturnPackage, Fetching, Ends, UpdateTypeOK
<1>11. CASE CancelDownload BY <1>11 DEF CancelDownload
<1>12. CASE FinishDownload
  <2>1. CASE FinishUpdateCheck BY <2>1 DEF FinishUpdateCheck
  <2>2. CASE RemoveManifest /\ UNCHANGED <<fetchVars, cancelEvent, late>>
    BY <2>2 DEF RemoveManifest
  <2> QED BY <1>12, <2>1, <2>2, FinishDownloadEnds
<1>13. CASE Install BY <1>13 DEF Install, FinishUpdateCheck
<1>14. CASE ExitNVDA BY <1>14 DEF ExitNVDA, FinishUpdateCheck
<1>15. CASE UNCHANGED updateVars BY <1>15 DEF updateVars
<1> QED
  BY <1>1, <1>2, <1>3, <1>4, <1>5, <1>6, <1>7, <1>8, <1>9, <1>10, <1>11, <1>12, <1>13, <1>14, <1>15
  DEF UpdateNext, DownloadUpdate, Controller

LEMMA FolderKept == UpdateInv /\ [UpdateNext]_updateVars => (~left => InFolder)'
<1> SUFFICES ASSUME UpdateInv, [UpdateNext]_updateVars, ~left' PROVE InFolder'
  OBVIOUS
<1> USE DEF UpdateInv, UpdateTypeOK, Thread, InFolder, fileVars, fetchVars
<1>1. CASE StartCheck BY <1>1 DEF StartCheck
<1>2. CASE FetchManifest BY <1>2 DEF FetchManifest
<1>3. CASE FinishCheck BY <1>3 DEF FinishCheck, FinishUpdateCheck, CleanUp, RemoveManifest
<1>4. CASE AnswerNo BY <1>4 DEF AnswerNo, FinishUpdateCheck, RemoveManifest
<1>5. CASE AnswerYes BY <1>5 DEF AnswerYes, FinishUpdateCheck, CleanUp
<1>6. CASE PrepareDownload BY <1>6 DEF PrepareDownload, Fetching, FetchGoes, Ends
<1>7. CASE ReadResponse BY <1>7 DEF ReadResponse, Fetching, FetchGoes, Ends, DiscardPartial
<1>8. CASE CheckDigest BY <1>8 DEF CheckDigest, Fetching, FetchGoes, Ends, DiscardPartial
<1>9. CASE ReplacePackage BY <1>9 DEF ReplacePackage, Fetching, FetchGoes, Ends, DiscardPartial
<1>10. CASE ReturnPackage BY <1>10 DEF ReturnPackage, Fetching, Ends
<1>11. CASE CancelDownload BY <1>11 DEF CancelDownload
<1>12. CASE FinishDownload BY <1>12, FinishDownloadEnds DEF FinishUpdateCheck, CleanUp, RemoveManifest
<1>13. CASE Install BY <1>13 DEF Install, FinishUpdateCheck
<1>14. CASE ExitNVDA BY <1>14 DEF ExitNVDA, FinishUpdateCheck
<1>15. CASE UNCHANGED updateVars BY <1>15 DEF updateVars
<1> QED
  BY <1>1, <1>2, <1>3, <1>4, <1>5, <1>6, <1>7, <1>8, <1>9, <1>10, <1>11, <1>12, <1>13, <1>14, <1>15
  DEF UpdateNext, DownloadUpdate, Controller

LEMMA UpdateInvariant == UpdateSpec => []UpdateInv
<1>1. UpdateInv /\ [UpdateNext]_updateVars => UpdateInv'
  BY TypesKept, ThreadsKept, VerifiedKept, FolderKept DEF UpdateInv
<1> QED BY <1>1, InitUpdate, PTL DEF UpdateSpec

\* The updater's variables have their types, whatever fails: _updateCheckInProgress
\* is TRUE exactly while a check, its questions and its download last.
THEOREM UpdateTypesHold == UpdateSpec => []UpdateTypeOK
<1>1. UpdateInv => UpdateTypeOK
  BY DEF UpdateInv
<1> QED BY <1>1, UpdateInvariant, PTL

\* _finish_download installs only what download_update has verified and returned
\* uncancelled, and a check leaves no file, whichever step of the download failed or
\* noticed the cancel; unless NVDA ended during it or the folder could not be removed.
THEOREM UpdatesAreSafe == UpdateSpec => []UpdateSafe
<1>1. UpdateInv => InstallsVerified /\ CancelHonoured
  BY DEF UpdateInv, Thread, Verified, InstallsVerified, CancelHonoured
<1>2. UpdateInv => Tidy
  BY DEF UpdateInv, UpdateTypeOK, Thread, InFolder, Tidy
<1>3. UpdateInv => UpdateSafe
  BY <1>1, <1>2 DEF UpdateSafe
<1> QED BY <1>3, UpdateInvariant, PTL

-----------------------------------------------------------------------------
(* The parts together                                                        *)

\* A behaviour of MCFiles is one of the store, one of the dialog and one of the
\* updater: a step of one part is a stutter of the others.
LEMMA EachPartItsOwn == FilesSpec => StoreSpec /\ ManagerSpec /\ UpdateSpec
<1>1. FilesInit => StoreInit /\ ManagerInit /\ UpdateInit
  BY DEF FilesInit
<1>2. [FilesNext]_filesVars => [StoreNext]_storeVars
  BY DEF FilesNext, StorePartNext, filesVars
<1>3. [FilesNext]_filesVars => [ManagerNext]_managerVars
  BY DEF FilesNext, filesVars
<1>4. [FilesNext]_filesVars => [UpdateNext]_updateVars
  BY DEF FilesNext, filesVars
<1> QED BY <1>1, <1>2, <1>3, <1>4, PTL DEF FilesSpec, StoreSpec, ManagerSpec, UpdateSpec

\* The store of voice_store.py, the dialog of voiceManager.py and the updater keep
\* their types side by side, whichever of them moves.
THEOREM FilesAreTyped == FilesSpec => []FilesTypeOK
<1>1. StoreTypeOK /\ ManagerTypeOK /\ UpdateTypeOK <=> FilesTypeOK
  BY DEF FilesTypeOK
<1> QED BY <1>1, EachPartItsOwn, StoreTypesHold, ManagerTypesHold, UpdateTypesHold, PTL

\* What the parts promise alone holds when the add-on's files are taken together: the
\* caches and the answers are sound, no update is installed unverified, packages go in
\* order, and the last voice and the configuration are kept.
THEOREM FilesAreSafe ==
  FilesSpec => /\ []CacheSound /\ []UpdateSafe
               /\ AnswersTrue /\ DependenciesKept /\ LastVoiceKept /\ ConfigFollows
  BY EachPartItsOwn, CachesAreSound, UpdatesAreSafe, AnswersAreTrue, KeepsDependencies,
     KeepsLastVoice, ConfigurationFollows, PTL
=============================================================================
