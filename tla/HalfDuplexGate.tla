--------------------------- MODULE HalfDuplexGate ---------------------------
(***************************************************************************)
(* What the text-to-speech gate promises, without saying how: while the    *)
(* agent speaks on a call the caller's audio is not captured, it is        *)
(* captured as soon as nobody speaks, and every speaker falls silent.      *)
(* The module TtsGating (session store, conversation coordinator and       *)
(* playback manager) is shown to implement it.                             *)
(***************************************************************************)
CONSTANTS Calls,        \* the calls
          Playbacks,    \* what may speak: the playback identifiers
          CallOf        \* the call each playback identifier belongs to

VARIABLES status,       \* status[c]: "new", "live" or "over"
          speaking,     \* the playbacks that hold the gate of their call
          open          \* the calls whose audio is captured

vars == <<status, speaking, open>>

Speakers(c) == {p \in speaking : CallOf[p] = c}

TypeOK ==
  /\ status \in [Calls -> {"new", "live", "over"}]
  /\ speaking \subseteq Playbacks
  /\ open \subseteq Calls

Init ==
  /\ status = [c \in Calls |-> "new"]
  /\ speaking = {}
  /\ open = {}

Answer(c) ==
  /\ status[c] = "new"
  /\ status' = [status EXCEPT ![c] = "live"]
  /\ open' = open \cup {c}
  /\ UNCHANGED speaking

(* A playback starts to speak: its call's gate closes with it. *)
Speak(p) ==
  /\ status[CallOf[p]] = "live"
  /\ p \notin speaking
  /\ speaking' = speaking \cup {p}
  /\ open' = open \ {CallOf[p]}
  /\ UNCHANGED status

(* Some speakers of a call fall silent; the gate opens with the last one. *)
Silence(c, S) ==
  /\ status[c] = "live"
  /\ S # {}
  /\ S \subseteq Speakers(c)
  /\ speaking' = speaking \ S
  /\ open' = IF Speakers(c) = S THEN open \cup {c} ELSE open
  /\ UNCHANGED status

HangUp(c) ==
  /\ status[c] = "live"
  /\ status' = [status EXCEPT ![c] = "over"]
  /\ speaking' = speaking \ Speakers(c)
  /\ open' = open \ {c}

Next ==
  \/ \E c \in Calls : Answer(c) \/ HangUp(c) \/ \E S \in SUBSET Playbacks : Silence(c, S)
  \/ \E p \in Playbacks : Speak(p)

Safety == Init /\ [][Next]_vars

(* Every speaker stops, by itself, with others, or with its call. *)
FallSilent(p) == Next /\ p \in speaking /\ p \notin speaking'

Spec == Safety /\ \A p \in Playbacks : WF_vars(FallSilent(p))

-----------------------------------------------------------------------------
(* The gate of a live call is open exactly when nobody speaks on it. *)
OpenIffSilent == \A c \in Calls : status[c] = "live" => (c \in open <=> Speakers(c) = {})
=============================================================================
