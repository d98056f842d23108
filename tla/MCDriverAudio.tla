---------------------------- MODULE MCDriverAudio ----------------------------
(***************************************************************************)
(* Small instances of the driver's threads, of the sound of a text and of   *)
(* the chunks of a speech sequence.  They share no variable, so a behaviour *)
(* moves one part: interleaving them would show nothing more.               *)
(***************************************************************************)
EXTENDS MCSpeechDriver, SpeechAudioProps, SpeechChunksProps

\* A segment with a pause at its end, one with a pause inside, and a silent one.
Shapes == <<<<1, 0, 0>>, <<1, 0, 1>>, <<0, 0>>>>

\* Texts that share segments in different places, with and without a next one; two of
\* them have a tempo.
Text(segs, tempo, mode, marks) ==
  [segs |-> segs, voice |-> 1, tempo |-> tempo, mode |-> mode, marks |-> marks]
SharedSegments == <<
  Text(<<1, 1>>, FALSE, "end pauses", <<0, 1, 2, 4>>),
  Text(<<1, 1, 2>>, FALSE, "end pauses", <<3, 5>>),
  Text(<<3, 1>>, FALSE, "end pauses", <<2, 3>>),
  Text(<<1, 2>>, FALSE, "all pauses", <<>>),
  Text(<<1, 2>>, TRUE, "all pauses", <<>>),
  Text(<<1, 3>>, TRUE, "no pauses", <<>>)>>

\* Every sequence of two different texts and two commands.
SpokenTexts ==
  {<<"text", chars>> : chars \in {<<"a", ".", " ", "a">>, <<" ", "a", ",">>, <<"n", "a">>}}
Commands ==
  {<<"index">>, <<"break">>, <<"rate", 1>>, <<"language", 1>>, <<"spell", TRUE>>, <<"spell", FALSE>>}
TwoTextsTwoCommands ==
  {u \in [1..4 -> SpokenTexts \cup Commands] :
     \E i, j \in 1..4 : /\ {k \in 1..4 : u[k] \in SpokenTexts} = {i, j}
                        /\ u[i] # u[j]}
OneUtterance == <<<<"index">>, <<"text", <<"n", "a">>>>, <<"index">>, <<"text", <<" ", "a", ",">>>>>>
OneSetting == [pauses |-> "all pauses", detects |-> TRUE]
PausesAndLanguages ==
  {OneSetting, [pauses |-> "end pauses", detects |-> FALSE]}

VARIABLE part

driverAudioVars == <<part, vars, audioVars, chunkVars>>

DriverAudioInit ==
  /\ part \in {"driver", "audio", "chunks"}
  /\ Init /\ (part # "driver" => ~up)
  /\ AudioInit /\ group = Len(Groups)
  /\ \/ part = "chunks"
     \/ part # "chunks" /\ utterance = OneUtterance /\ settings = OneSetting
  /\ ChunksInit

DriverAudioNext ==
  /\ \/ part = "driver" /\ Next /\ UNCHANGED <<audioVars, chunkVars>>
     \/ part = "audio" /\ AudioNext /\ UNCHANGED <<vars, chunkVars>>
     \/ part = "chunks" /\ ChunksNext /\ UNCHANGED <<vars, audioVars>>
  /\ UNCHANGED part

DriverAudioSpec == DriverAudioInit /\ [][DriverAudioNext]_driverAudioVars
=============================================================================
