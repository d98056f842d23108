---------------------------- MODULE VoicePackages ----------------------------
(***************************************************************************)
(* The packages of the voice catalog and what they require of one another: *)
(* a package may depend on another one (dependentVoiceId), without which   *)
(* it cannot speak.                                                        *)
(***************************************************************************)
EXTENDS Naturals, FiniteSets

CONSTANTS
  Packages,   \* the packages of the catalog
  NoPackage,  \* no package: an empty dependentVoiceId
  Base,       \* dependentVoiceId of each package
  Supported   \* those that the bundled engine can speak

ASSUME PackagesAreFinite == IsFiniteSet(Packages)
ASSUME NoPackageIsNone == NoPackage \notin Packages
ASSUME BasesAreKnown == Base \in [Packages -> Packages \cup {NoPackage}]
ASSUME SupportedAreKnown == Supported \subseteq Packages

\* What a package requires, and what that requires, as long as the chain stays in S.
ChainIn(p, S) ==
  {b \in Packages :
     \A T \in SUBSET Packages :
       (\A q \in T \cup {p} : Base[q] \in S => Base[q] \in T) => b \in T}
Chain(p) == ChainIn(p, Packages)

\* No package requires itself.
ASSUME NoCycles == \A p \in Packages : p \notin Chain(p)

\* usable_installed_packages: the supported packages whose base is usable too.
Usable(S) == {p \in S \cap Supported : Chain(p) \subseteq S \cap Supported}

\* _with_installed_dependents: S and the listed packages that require any of them.
WithDependents(S, listed) ==
  {p \in Packages :
     \A T \in SUBSET Packages :
       S \subseteq T /\ (\A q \in listed : Base[q] \in T => q \in T) => p \in T}

\* _with_required_download_dependencies: the chain ends at an unsupported package.
WithRequired(S, listed) == S \cup (UNION {ChainIn(p, Supported) : p \in S} \ listed)

\* _missing_dependency_for_package finds one.
IsMissing(p, installed) == ~(Chain(p) \subseteq installed \cap Supported)

\* _dependency_depth among the packages S.
Depth(p, S) == Cardinality(ChainIn(p, S))
=============================================================================
