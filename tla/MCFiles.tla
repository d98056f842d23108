------------------------------- MODULE MCFiles -------------------------------
(***************************************************************************)
(* Small instances of what the add-on keeps on the disk: the store of voice *)
(* packages, the voice manager and the updater.  They share no variable, so *)
(* a behaviour moves one part: interleaving them would show nothing more.   *)
(***************************************************************************)
EXTENDS VoiceStoreProps, VoiceManagerProps, UpdaterProps, TLC

CONSTANTS base, voice, odd, top

\* voice requires base, and top requires voice; so does odd base, which the engine
\* cannot speak.
Catalog == {base, voice, odd, top}
Bases == base :> NoPackage @@ voice :> base @@ odd :> base @@ top :> voice
Speakable == {base, voice, top}
OwnLanguage == {voice, top}

VARIABLE part

filesVars == <<part, storeVars, managerVars, updateVars>>

\* The store twice: the file of one package, in depth, and scans of all packages while
\* the worker replaces and removes one of them.
StoreParts == {"package", "packages"}
OthersMissing(files) == \A p \in Stored \ {base} : files[p] = NoFile
MaxScanned == 2   \* bound: the last stamp, while there are several packages

FilesInit ==
  /\ part \in StoreParts \cup {"manager", "updater"}
  /\ StoreInit /\ at = [t \in Threads |-> base]
  /\ part # "packages" => OthersMissing(file)
  /\ part \notin StoreParts => file[base] = NoFile
  /\ ManagerInit /\ (part # "manager" => installed = {} /\ google /\ variant = NoPackage /\ profile = NoPackage)
  /\ UpdateInit /\ (part # "updater" => ~left)

StorePartNext ==
  /\ StoreNext /\ at'[Installer] = base
  /\ part = "package" => OthersMissing(file')
  /\ part = "packages" =>
       /\ clock' <= MaxScanned /\ \A p \in Stored : ~ByHand(p)
       /\ \A t \in Checkers : step'[t] # "idle" => doing'[t] = "scan"

FilesNext ==
  /\ \/ part \in StoreParts /\ StorePartNext /\ UNCHANGED <<managerVars, updateVars>>
     \/ part = "manager" /\ ManagerNext /\ UNCHANGED <<storeVars, updateVars>>
     \/ part = "updater" /\ UpdateNext /\ UNCHANGED <<storeVars, managerVars>>
  /\ UNCHANGED part

\* The variables of each part have their types.
FilesTypeOK == StoreTypeOK /\ ManagerTypeOK /\ UpdateTypeOK

\* Nothing that the user has started keeps the dialogs busy for ever.
AllEnds == WaitEnds /\ JobEnds /\ CheckEnds

FilesSpec == FilesInit /\ [][FilesNext]_filesVars /\ ManagerFairness /\ UpdateFairness
=============================================================================
