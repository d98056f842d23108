----------------------------- MODULE StandbyProps -----------------------------
(* What the standby manager's workers, watchers and callers may rely on.       *)
EXTENDS Standby

ManagerTypes ==
  /\ bridge \in Bridges \cup {None} /\ signature \in Signatures \cup {None}
  /\ generation \in Nat
  /\ current \in Workers \cup {None} /\ worker \in Workers \cup {None}
  /\ watcher \in Watchers \cup {None}
SwitchTypes == ready \in BOOLEAN /\ synthActive \in BOOLEAN /\ shutdown \in BOOLEAN /\ keep \in BOOLEAN
WorldTypes ==
  /\ pack \in Packages \cup {None} /\ setting \in Settings
  /\ synth \in Bridges \cup {None} /\ synthPack \in Packages \cup {None}
  /\ op \in {"idle", "note", "refresh", "claim", "unbridged"}
  /\ ops \in 0..MaxOps /\ changes \in 0..MaxChanges
BridgeTypes ==
  /\ life \in [Bridges -> {"unborn", "alive", "dead"}]
  /\ made \in [Bridges -> Settings \cup {None}]
  /\ drop \in [Actors -> Bridges \cup {None}]
WorkTypes ==
  /\ at \in [Workers -> {"unused", "early", "load", "none", "pick", "warm", "publish",
                         "failed", "finish", "end", "done"}]
  /\ cancelled \in [Workers -> BOOLEAN] /\ restart \in [Workers -> BOOLEAN]
  /\ workGen \in [Workers -> Nat]
  /\ loaded \in [Workers -> Packages \cup {None}]
  /\ using \in [Workers -> Bridges \cup {None}]
  /\ workSig \in [Workers -> Signatures \cup {None}]
WatchTypes ==
  /\ watch \in [Watchers -> {"unborn", "starting", "on", "off"}]
  /\ call \in [Watchers -> {"wait", "check", "refresh"}]
  /\ watchGen \in [Watchers -> Nat]

TypeOK == ManagerTypes /\ SwitchTypes /\ WorldTypes /\ BridgeTypes /\ WorkTypes /\ WatchTypes

-----------------------------------------------------------------------------
\* The custodian of each bridge, as the manager's and the threads' variables
\* tell it; a running bridge that nobody refers to would be "lost".
Custodian(b) ==
  CASE life[b] = "unborn" -> "nobody"
    [] life[b] = "dead" -> "gone"
    [] life[b] = "alive" /\ b = bridge -> "standby"
    [] life[b] = "alive" /\ b = synth -> "synth"
    [] life[b] = "alive" /\ (\E a \in Actors : drop[a] = b) -> "doomed"
    [] OTHER -> "lost"

Custody == INSTANCE BridgeCustody WITH custodian <- [b \in Bridges |-> Custodian(b)]

\* However claims, releases, refreshes and workers interleave, every bridge
\* passes from one custodian to the next as BridgeCustody says: none is lost,
\* and none comes back after it was terminated.
HandedOver == Custody!Spec

Owned(b) == b = bridge \/ b = synth \/ \E a \in Actors : drop[a] = b

\* A running bridge has an owner, an owned bridge runs, and no bridge has two
\* owners: the synthesizer's bridge is never kept warm or terminated by another.
OneOwner ==
  /\ \A b \in Bridges : life[b] = "alive" <=> Owned(b)
  /\ bridge # None => bridge # synth
  /\ \A a \in Actors : drop[a] # None =>
       /\ drop[a] # bridge /\ drop[a] # synth
       /\ \A c \in Actors \ {a} : drop[c] # drop[a]

\* A replacement worker never warms the bridge that the one it replaces may
\* still be unwinding a request on.
NoSharedWarmup ==
  \A v, w \in Workers : at[v] = "warm" /\ at[w] = "warm" /\ using[v] = using[w] => v = w

\* A synthesizer never gets a bridge that a worker is still warming.  The files
\* must stay as they are: a worker that found the warm bridge outdated takes it
\* after all when they have changed back.
ClaimedIsIdle == \A w \in Workers : at[w] = "warm" => using[w] # synth

\* While a synthesizer of this add-on speaks, after the plugin's end, and once
\* the setting is off, the manager keeps no browser and watches no files.
NothingKeptUnwanted ==
  shutdown \/ synthActive \/ (~keep /\ op \in {"idle", "claim"})
    => bridge = None /\ watcher = None

AtWork == \E w \in Workers : Alive(w) /\ Current(w)
Started == \E w \in Workers : at[w] # "unused" /\ Current(w)

\* After a refresh, whatever came of it, and as long as a bridge is kept warm,
\* the files are watched or a worker is about to look at them.  A catalog that
\* cannot be loaded is the exception.
Tended == op = "idle" /\ (bridge # None \/ Started) => watcher # None \/ AtWork

Quiet ==
  /\ op = "idle"
  /\ \A w \in Workers : ~Alive(w)
  /\ \A x \in Watchers : call[x] = "wait" /\ watch[x] # "starting"

\* Once everything has come to rest, a warm bridge is kept for the packages
\* and settings of now, whatever was saved, claimed or released meanwhile.  A
\* change of files behind the manager's back may come after a worker has read
\* them and before they are watched.
SettledIsCurrent ==
  Quiet /\ ready /\ changes = 0 => signature = <<pack, setting>>

\* The comment on _wasm_engine_signature: replacing the engine files forces
\* standby to discard the stale bridge.  So one whose signature is that of the
\* present files was started with them.
StaleIsDiscarded == Quiet /\ ready /\ Fits(<<pack, setting>>) => made[bridge] = setting

\* A worker that has been superseded changes neither the kept bridge nor
\* whether it is ready.
SupersededIsHarmless ==
  [][\A w \in Workers :
       Alive(w) /\ ~Current(w) /\ at'[w] # at[w] => UNCHANGED <<bridge, signature, ready>>]_vars

Wanted == op = "idle" /\ keep /\ ~synthActive /\ ~shutdown /\ pack # None /\ Started

\* A refresh that is wanted and not superseded ends with a warm bridge, unless
\* connecting fails, which is not tried again, or files change unwatched.
Undisturbed == changes = 0 /\ \A w \in Workers : at[w] # "failed"
WarmsUp == []Undisturbed /\ (<>[]Wanted) => <>[]ready

\* What is kept warm is watched, and at rest it is up to date.
KeptCurrent == Tended /\ SettledIsCurrent
=============================================================================
