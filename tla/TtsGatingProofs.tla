-------------------------- MODULE TtsGatingProofs --------------------------
(***************************************************************************)
(* Proofs about TtsGating, for any calls, playbacks and barge-ins.         *)
(***************************************************************************)
EXTENDS TtsGating, FiniteSetTheorems, TLAPS

(* What is true of a session object wherever it is held. *)
Consistent(s) ==
  /\ s \in CallSession
  /\ IsFiniteSet(s.tts_tokens)
  /\ s.tts_active_count = Cardinality(s.tts_tokens)
  /\ s.tts_playing <=> s.tts_tokens # {}

(* The caller is heard exactly while there are no tokens. *)
Heard(s) == s.audio_capture_enabled <=> s.tts_tokens = {}

-----------------------------------------------------------------------------
(* Adding a token closes the gate and keeps the session consistent. *)
LEMMA SetToken ==
  ASSUME NEW s, Consistent(s), NEW p \in Playbacks
  PROVE  /\ Consistent(set_gating_token(s, p))
         /\ Heard(set_gating_token(s, p))
         /\ set_gating_token(s, p).tts_tokens = s.tts_tokens \cup {p}
         /\ set_gating_token(s, p).tts_playing
         /\ ~set_gating_token(s, p).audio_capture_enabled
<1> DEFINE tokens == s.tts_tokens \cup {p}
           t == set_gating_token(s, p)
<1>1. IsFiniteSet(tokens) /\ tokens # {}
  BY FS_AddElement DEF Consistent
<1>2. Cardinality(tokens) \in Nat /\ Cardinality(tokens) > 0
  <2>1. Cardinality(tokens) \in Nat /\ Cardinality(tokens) # 0
    BY <1>1, FS_CardinalityType, FS_EmptySet
  <2> QED  BY <2>1, SMT
<1>3. t = [tts_tokens |-> tokens, tts_active_count |-> Cardinality(tokens),
           tts_playing |-> TRUE, audio_capture_enabled |-> FALSE,
           media_rx_confirmed |-> s.media_rx_confirmed]
  BY <1>2 DEF set_gating_token
<1>4. s \in CallSession /\ tokens \subseteq Playbacks
  BY DEF Consistent, CallSession
<1>5. t \in CallSession /\ t.tts_tokens = tokens /\ t.tts_active_count = Cardinality(tokens)
      /\ t.tts_playing = TRUE /\ t.audio_capture_enabled = FALSE
  <2> HIDE DEF tokens, t
  <2> QED BY <1>2, <1>3, <1>4 DEF CallSession
<1> QED
  BY <1>1, <1>5 DEF Consistent, Heard

(* Removing tokens keeps the session consistent; if the gate followed the   *)
(* tokens before, it does so after.                                         *)
LEMMA ClearTokens ==
  ASSUME NEW s, Consistent(s), NEW P
  PROVE  /\ Consistent(clear_gating_token(s, P))
         /\ Heard(s) => Heard(clear_gating_token(s, P))
         /\ clear_gating_token(s, P).tts_tokens = s.tts_tokens \ P
<1> DEFINE tokens == s.tts_tokens \ P
           count == Cardinality(tokens)
           end == s.tts_active_count > 0 /\ count = 0
           t == clear_gating_token(s, P)
<1>1. IsFiniteSet(tokens) /\ tokens \subseteq s.tts_tokens
  BY FS_Subset DEF Consistent
<1>2. count \in Nat /\ (count = 0 <=> tokens = {})
  BY <1>1, FS_CardinalityType, FS_EmptySet
<1>3. s.tts_active_count \in Nat /\ (s.tts_active_count = 0 <=> s.tts_tokens = {})
  BY FS_CardinalityType, FS_EmptySet DEF Consistent
<1>4. t = [tts_tokens |-> tokens, tts_active_count |-> count,
           tts_playing |-> IF end THEN FALSE ELSE IF count > 0 THEN TRUE ELSE s.tts_playing,
           audio_capture_enabled |->
             IF end THEN TRUE ELSE IF count > 0 THEN FALSE ELSE s.audio_capture_enabled,
           media_rx_confirmed |-> s.media_rx_confirmed]
  BY DEF clear_gating_token
<1>5. s \in CallSession /\ tokens \subseteq Playbacks
  BY DEF Consistent, CallSession
<1>6. /\ t \in CallSession /\ t.tts_tokens = tokens /\ t.tts_active_count = count
      /\ t.tts_playing = IF end THEN FALSE ELSE IF count > 0 THEN TRUE ELSE s.tts_playing
      /\ t.audio_capture_enabled =
           IF end THEN TRUE ELSE IF count > 0 THEN FALSE ELSE s.audio_capture_enabled
  <2>1. end \in BOOLEAN /\ (count > 0) \in BOOLEAN
    OBVIOUS
  <2> HIDE DEF tokens, t, count, end
  <2> QED  BY <1>2, <1>4, <1>5, <2>1 DEF CallSession
<1>7. (t.tts_playing <=> tokens # {}) /\ (Heard(s) => Heard(t))
  <2>1. CASE tokens # {}
    <3>1. count > 0 /\ ~end
      BY <1>2, <2>1
    <3> QED  BY <1>6, <2>1, <3>1 DEF Heard
  <2>2. CASE tokens = {} /\ s.tts_tokens # {}
    <3>1. end
      BY <1>2, <1>3, <2>2
    <3> QED  BY <1>6, <2>2, <3>1 DEF Heard
  <2>3. CASE s.tts_tokens = {}
    <3>1. ~end /\ count = 0 /\ tokens = {}
      BY <1>2, <1>3, <2>3
    <3> QED  BY <1>6, <2>3, <3>1 DEF Heard, Consistent
  <2> QED  BY <2>1, <2>2, <2>3
<1> QED
  BY <1>1, <1>6, <1>7 DEF Consistent

-----------------------------------------------------------------------------
(* The inductive invariant.                                                *)

(* One call: its object is consistent, a served call is stored, heard when  *)
(* silent and shown by the gauges, a new one is untouched.                  *)
CallInv(c) ==
  /\ Consistent(session[c])
  /\ Served(c) => /\ c \in stored
                  /\ Heard(session[c])
                  /\ c \in gated <=> session[c].tts_playing
                  /\ c \in captured <=> session[c].audio_capture_enabled
  /\ phase[c] = "new" => c \notin stored /\ Heard(session[c]) /\ session[c].tts_tokens = {}
  /\ c \notin stored => c \notin gated /\ c \notin captured

(* A running barge-in works on a call that was registered. *)
BargeInv == \A b \in Bargers : barge[b] # Idle =>
              barge[b].call \in Calls /\ phase[barge[b].call] # "new"

OwnTokens == \A c \in Calls : \A p \in session[c].tts_tokens : CallOf[p] = c

IInv ==
  /\ TypeOK
  /\ \A c \in Calls : CallInv(c)
  /\ BargeInv
  /\ OwnTokens
  /\ TokenHasReleaser

LEMMA InitIInv == Init => IInv
<1> SUFFICES ASSUME Init PROVE IInv
  OBVIOUS
<1> DEFINE s0 == [tts_tokens |-> {}, tts_active_count |-> 0, tts_playing |-> FALSE,
                  audio_capture_enabled |-> TRUE, media_rx_confirmed |-> FALSE]
<1>1. s0 \in CallSession
  BY DEF CallSession
<1>2. \A c \in Calls : session[c] = s0
  BY DEF Init
<1>3. Consistent(s0) /\ Heard(s0)
  BY <1>1, FS_EmptySet DEF Consistent, Heard
<1>4. TypeOK
  <2>1. session \in [Calls -> CallSession]
    BY <1>1 DEF Init
  <2>2. barge \in [Bargers -> Barge]
    <3>1. Idle \in Barge
      BY DEF Idle, Barge
    <3> QED  BY <3>1 DEF Init
  <2> QED  BY <2>1, <2>2 DEF Init, TypeOK
<1>5. \A c \in Calls : CallInv(c)
  <2> SUFFICES ASSUME NEW c \in Calls PROVE CallInv(c)
    OBVIOUS
  <2>1. phase[c] = "new" /\ ~Served(c)
    BY DEF Init, Served
  <2>2. stored = {} /\ gated = {} /\ captured = {} /\ session[c].tts_tokens = {}
    BY <1>2 DEF Init
  <2> QED  BY <1>2, <1>3, <2>1, <2>2 DEF CallInv
<1>6. BargeInv
  BY DEF Init, BargeInv
<1>7. OwnTokens /\ TokenHasReleaser
  <2>1. \A c \in Calls : session[c].tts_tokens = {}
    BY <1>2
  <2> QED  BY <2>1 DEF OwnTokens, TokenHasReleaser
<1> QED
  BY <1>4, <1>5, <1>6, <1>7 DEF IInv

(* Every way a step touches a session: one call c is given the object s,    *)
(* and for a served call the gauges say of c what s says.                   *)
Gives(c, s) ==
  /\ session' = [session EXCEPT ![c] = s]
  /\ phase' = phase
  /\ stored' = stored \cup {c}
  /\ gated' \in SUBSET Calls /\ captured' \in SUBSET Calls
  /\ \A d \in Calls \ {c} : (d \in gated' <=> d \in gated) /\ (d \in captured' <=> d \in captured)
  /\ Served(c) => /\ c \in gated' <=> s.tts_playing
                  /\ c \in captured' <=> s.audio_capture_enabled

LEMMA GivesCallInv ==
  ASSUME TypeOK, \A d \in Calls : CallInv(d),
         NEW c \in Calls, NEW s, Gives(c, s),
         Consistent(s), Served(c) => Heard(s), phase[c] # "new"
  PROVE  /\ \A d \in Calls : CallInv(d)'
         /\ session' \in [Calls -> CallSession]
         /\ stored' \subseteq Calls
         /\ gated' \subseteq Calls
         /\ captured' \subseteq Calls
         /\ \A d \in Calls : session'[d] = IF d = c THEN s ELSE session[d]
<1>1. \A d \in Calls : session'[d] = IF d = c THEN s ELSE session[d]
  BY DEF Gives, TypeOK
<1>2. session' \in [Calls -> CallSession] /\ stored' \subseteq Calls
  BY DEF Gives, TypeOK, Consistent
<1>3. ASSUME NEW d \in Calls PROVE CallInv(d)'
  <2>1. CASE d = c
    <3>1. session'[d] = s /\ d \in stored' /\ phase'[d] # "new" /\ (Served(d)' <=> Served(c))
      BY <1>1, <2>1 DEF Gives, Served
    <3> QED  BY <2>1, <3>1 DEF CallInv, Gives
  <2>2. CASE d # c
    <3>1. session'[d] = session[d] /\ (d \in stored' <=> d \in stored) /\ phase'[d] = phase[d]
          /\ (Served(d)' <=> Served(d))
          /\ (d \in gated' <=> d \in gated) /\ (d \in captured' <=> d \in captured)
      BY <1>1, <2>2 DEF Gives, Served
    <3> QED  BY <3>1 DEF CallInv
  <2> QED  BY <2>1, <2>2
<1> QED
  BY <1>1, <1>2, <1>3 DEF Gives

(* A stored call is a registered call, and its object is as it should be. *)
LEMMA StoredCalls ==
  ASSUME TypeOK, \A d \in Calls : CallInv(d), NEW c \in stored
  PROVE  c \in Calls /\ phase[c] # "new" /\ Consistent(session[c]) /\ (Served(c) => Heard(session[c]))
BY DEF TypeOK, CallInv

LEMMA PutMember ==
  ASSUME NEW S \in SUBSET Calls, NEW c \in Calls, NEW b \in BOOLEAN
  PROVE  /\ Put(S, c, b) \in SUBSET Calls
         /\ c \in Put(S, c, b) <=> b
         /\ \A d \in Calls \ {c} : d \in Put(S, c, b) <=> d \in S
BY DEF Put

LEMMA SaveGives ==
  ASSUME TypeOK, NEW c \in Calls, NEW s, Consistent(s), SaveSession(c, s), phase' = phase
  PROVE  Gives(c, s)
<1>1. s.tts_playing \in BOOLEAN /\ s.audio_capture_enabled \in BOOLEAN
  BY DEF Consistent, CallSession
<1>2. gated \in SUBSET Calls /\ captured \in SUBSET Calls
  BY DEF TypeOK
<1> QED
  BY <1>1, <1>2, PutMember DEF Gives, SaveSession

LEMMA StartGives ==
  ASSUME TypeOK, \A d \in Calls : CallInv(d), NEW c \in stored, NEW p \in Playbacks,
         on_tts_start(c, p), UNCHANGED <<phase, stored>>
  PROVE  Gives(c, set_gating_token(session[c], p))
<1>1. c \in Calls /\ Consistent(session[c])
  BY StoredCalls
<1>2. /\ set_gating_token(session[c], p).tts_playing
      /\ ~set_gating_token(session[c], p).audio_capture_enabled
  BY <1>1, SetToken
<1>3. /\ session' = [session EXCEPT ![c] = set_gating_token(session[c], p)]
      /\ gated' = gated \cup {c}
      /\ captured' = captured \ {c}
  BY DEF on_tts_start
<1>4. gated \in SUBSET Calls /\ captured \in SUBSET Calls
  BY DEF TypeOK
<1> QED
  BY <1>1, <1>2, <1>3, <1>4 DEF Gives

LEMMA EndGives ==
  ASSUME TypeOK, \A d \in Calls : CallInv(d), NEW c \in stored, NEW P,
         on_tts_end(c, P), UNCHANGED <<phase, stored>>
  PROVE  Gives(c, clear_gating_token(session[c], P))
<1> DEFINE s == clear_gating_token(session[c], P)
<1>1. c \in Calls /\ Consistent(session[c])
  BY StoredCalls
<1>2. Consistent(s)
  BY <1>1, ClearTokens
<1>3. SaveSession(c, s)
  BY DEF on_tts_end, SaveSession
<1> HIDE DEF s
<1>4. Gives(c, s)
  BY <1>1, <1>2, <1>3, SaveGives
<1> QED  BY <1>4 DEF s

(* The end of a barge-in: no token is left if the session was stored. *)
LEMMA ReleaseGives ==
  ASSUME TypeOK, \A d \in Calls : CallInv(d), NEW c \in Calls, NEW s0, NEW force \in BOOLEAN,
         Consistent(s0), Served(c) => Heard(s0), Served(c) => c \in stored,
         ReleaseAndSave(c, s0, force), phase' = phase
  PROVE  \E t : /\ Gives(c, t)
                /\ Consistent(t)
                /\ Served(c) => Heard(t)
                /\ t.tts_tokens \subseteq s0.tts_tokens
                /\ c \in stored => t.tts_tokens = {}
<1> DEFINE s == IF c \in stored THEN clear_gating_token(s0, s0.tts_tokens) ELSE s0
           t == IF force THEN [s EXCEPT !.audio_capture_enabled = TRUE] ELSE s
<1>1. /\ Consistent(s)
      /\ Served(c) => Heard(s)
      /\ s.tts_tokens \subseteq s0.tts_tokens
      /\ c \in stored => s.tts_tokens = {}
  BY ClearTokens
<1>2. /\ session' = [session EXCEPT ![c] = t]
      /\ stored' = stored \cup {c}
      /\ gated' = Put(gated, c, s.tts_playing)
      /\ captured' = Put(captured, c, s.audio_capture_enabled)
  BY DEF ReleaseAndSave
<1>3. s.tts_playing \in BOOLEAN /\ s.audio_capture_enabled \in BOOLEAN /\ s \in CallSession
  BY <1>1 DEF Consistent, CallSession
<1>4. /\ t \in CallSession /\ t.tts_tokens = s.tts_tokens /\ t.tts_active_count = s.tts_active_count
      /\ t.tts_playing = s.tts_playing
      /\ t.audio_capture_enabled = IF force THEN TRUE ELSE s.audio_capture_enabled
  <2> HIDE DEF s
  <2> QED  BY <1>3 DEF CallSession
<1> HIDE DEF s, t
<1>5. Consistent(t)
  BY <1>1, <1>4 DEF Consistent
<1>6. Served(c) => Heard(t) /\ t.audio_capture_enabled = s.audio_capture_enabled
  BY <1>1, <1>3, <1>4 DEF Heard
<1>7. gated \in SUBSET Calls /\ captured \in SUBSET Calls
  BY DEF TypeOK
<1>8. Gives(c, t)
  <2>1. /\ gated' \in SUBSET Calls /\ (c \in gated' <=> s.tts_playing)
        /\ \A d \in Calls \ {c} : d \in gated' <=> d \in gated
    BY <1>2, <1>3, <1>7, PutMember
  <2>2. /\ captured' \in SUBSET Calls /\ (c \in captured' <=> s.audio_capture_enabled)
        /\ \A d \in Calls \ {c} : d \in captured' <=> d \in captured
    BY <1>2, <1>3, <1>7, PutMember
  <2> QED  BY <1>2, <1>4, <1>6, <2>1, <2>2 DEF Gives
<1> QED
  BY <1>1, <1>4, <1>5, <1>6, <1>8

(* The types of what a step on a session does not decide. *)
RestOK ==
  /\ refs \subseteq Playbacks
  /\ play \in [Playbacks -> {"idle", "requested", "started", "failed", "aborted"}]
  /\ fallback \subseteq Playbacks
  /\ barge \in [Bargers -> Barge]
  /\ ari \in [Playbacks -> {"none", "queued", "playing", "over"}]
  /\ events \subseteq Playbacks

(* Somebody will release the token of p. *)
Released(p) == p \in refs /\ (play[p] = "requested" \/ p \in fallback)

(* What a step has to show when it gives the object s to one call. *)
LEMMA GivesIInv ==
  ASSUME IInv, NEW c \in stored, NEW s, Gives(c, s), Consistent(s), Served(c) => Heard(s),
         RestOK', BargeInv',
         \A p \in s.tts_tokens : CallOf[p] = c /\ (phase[c] \in {"live", "cleaning"} => Released(p)'),
         \A p \in Playbacks : CallOf[p] # c /\ Released(p) => Released(p)'
  PROVE  IInv'
<1>1. c \in Calls /\ phase[c] # "new"
  BY StoredCalls DEF IInv
<1>2. /\ \A d \in Calls : CallInv(d)'
      /\ session' \in [Calls -> CallSession]
      /\ stored' \subseteq Calls
      /\ gated' \subseteq Calls
      /\ captured' \subseteq Calls
      /\ \A d \in Calls : session'[d] = IF d = c THEN s ELSE session[d]
  BY <1>1, GivesCallInv DEF IInv
<1>3. phase' = phase
  BY DEF Gives
<1>4. TypeOK'
  BY <1>2, <1>3 DEF IInv, TypeOK, RestOK
<1>5. OwnTokens'
  BY <1>2 DEF IInv, OwnTokens
<1>6. TokenHasReleaser'
  <2> SUFFICES ASSUME NEW d \in Calls, phase'[d] \in {"live", "cleaning"},
                      NEW p \in session'[d].tts_tokens
               PROVE  CallOf[p] = d /\ Released(p)'
    BY DEF TokenHasReleaser, Released
  <2>1. CASE d = c
    BY <1>2, <1>3, <2>1
  <2>2. CASE d # c
    <3>1. p \in session[d].tts_tokens /\ phase[d] \in {"live", "cleaning"}
      BY <1>2, <1>3, <2>2
    <3>2. CallOf[p] = d /\ Released(p)
      BY <3>1 DEF IInv, TokenHasReleaser, Released
    <3>3. p \in Playbacks
      BY <3>2 DEF Released, IInv, TypeOK
    <3> QED  BY <2>2, <3>2, <3>3
  <2> QED  BY <2>1, <2>2
<1> QED
  BY <1>2, <1>4, <1>5, <1>6 DEF IInv

(* What a step has to show when it touches no session object. *)
LEMMA QuietIInv ==
  ASSUME IInv, UNCHANGED session, phase' \in [Calls -> {"new", "live", "cleaning", "cancelled", "ended"}],
         stored' \subseteq Calls, gated' \subseteq Calls, captured' \subseteq Calls,
         \A c \in Calls : CallInv(c)', RestOK', BargeInv',
         \A p \in Playbacks :
           phase'[CallOf[p]] \in {"live", "cleaning"} /\ phase[CallOf[p]] # "new" /\ Released(p)
             => Released(p)',
         \A c \in Calls : phase'[c] \in {"live", "cleaning"} =>
                           phase[c] \in {"live", "cleaning"} \/ phase[c] = "new"
  PROVE  IInv'
<1>1. TypeOK'
  BY DEF IInv, TypeOK, RestOK
<1>2. OwnTokens'
  BY DEF IInv, OwnTokens
<1>3. TokenHasReleaser'
  <2> SUFFICES ASSUME NEW d \in Calls, phase'[d] \in {"live", "cleaning"},
                      NEW p \in session[d].tts_tokens
               PROVE  CallOf[p] = d /\ Released(p)'
    BY DEF TokenHasReleaser, Released
  <2>1. phase[d] # "new"
    BY DEF IInv, CallInv
  <2>2. CallOf[p] = d /\ Released(p)
    BY <2>1 DEF IInv, TokenHasReleaser, Released
  <2>3. p \in Playbacks
    BY <2>2 DEF Released, IInv, TypeOK
  <2> QED  BY <2>1, <2>2, <2>3
<1> QED
  BY <1>1, <1>2, <1>3 DEF IInv

(* The end of the playbacks P on a call, and of their references. *)
LEMMA EndIInv ==
  ASSUME IInv, NEW c \in Calls, NEW P \in SUBSET Playbacks, on_tts_end(c, P),
         UNCHANGED <<phase, stored, barge>>, RestOK',
         \A p \in P : CallOf[p] = c,
         \A p \in Playbacks \ P : Released(p) => Released(p)'
  PROVE  IInv'
<1>1. BargeInv'
  BY DEF IInv, BargeInv
<1>2. CASE c \in stored
  <2> DEFINE s == clear_gating_token(session[c], P)
  <2>1. Consistent(session[c]) /\ (Served(c) => Heard(session[c]))
    BY <1>2, StoredCalls DEF IInv
  <2>2. Consistent(s) /\ (Served(c) => Heard(s)) /\ s.tts_tokens = session[c].tts_tokens \ P
    BY <2>1, ClearTokens
  <2>3. Gives(c, s)
    BY <1>2, EndGives DEF IInv
  <2> HIDE DEF s
  <2>4. \A p \in s.tts_tokens : p \in Playbacks
    BY <2>2 DEF Consistent, CallSession
  <2>5. \A p \in s.tts_tokens : CallOf[p] = c /\ (phase[c] \in {"live", "cleaning"} => Released(p)')
    BY <2>2, <2>4 DEF IInv, OwnTokens, TokenHasReleaser, Released
  <2>6. \A p \in Playbacks : CallOf[p] # c /\ Released(p) => Released(p)'
    OBVIOUS
  <2> QED  BY <1>1, <1>2, <2>2, <2>3, <2>5, <2>6, GivesIInv
<1>3. CASE c \notin stored
  <2>1. UNCHANGED <<session, gated, captured>>
    BY <1>3 DEF on_tts_end
  <2>2. \A d \in Calls : CallInv(d)'
    BY <2>1 DEF IInv, CallInv, Served
  <2>3. \A p \in P : ~(phase'[CallOf[p]] \in {"live", "cleaning"})
    BY <1>3 DEF IInv, CallInv, Served
  <2>4. \A p \in Playbacks : phase'[CallOf[p]] \in {"live", "cleaning"} /\ phase[CallOf[p]] # "new"
                            /\ Released(p) => Released(p)'
    BY <2>3
  <2>5. phase' \in [Calls -> {"new", "live", "cleaning", "cancelled", "ended"}]
        /\ stored' \subseteq Calls /\ gated' \subseteq Calls /\ captured' \subseteq Calls
    BY <2>1 DEF IInv, TypeOK
  <2>6. \A d \in Calls : phase'[d] \in {"live", "cleaning"} =>
                         phase[d] \in {"live", "cleaning"} \/ phase[d] = "new"
    OBVIOUS
  <2> QED  BY <1>1, <2>1, <2>2, <2>4, <2>5, <2>6, QuietIInv
<1> QED
  BY <1>2, <1>3

LEMMA PlaybackStepIInv ==
  ASSUME IInv, NEW p \in Playbacks, PlaybackStep(p)
  PROVE  IInv'
<1>1. TypeOK /\ RestOK /\ CallOf[p] \in Calls
  BY CallOfType DEF IInv, TypeOK, RestOK
<1>2. ASSUME CallOf[p] \in stored PROVE CallOf[p] \in Calls /\ Consistent(session[CallOf[p]])
  BY <1>2, StoredCalls DEF IInv
<1>3. CASE PlayAudio(p)
  <2> DEFINE c == CallOf[p]
             s == set_gating_token(session[c], p)
  <2>1. c \in stored /\ UNCHANGED <<phase, stored, barge>> /\ on_tts_start(c, p)
    BY <1>3 DEF PlayAudio
  <2>2. Consistent(s) /\ Heard(s) /\ s.tts_tokens = session[c].tts_tokens \cup {p}
    BY <1>2, <2>1, SetToken
  <2>3. Gives(c, s)
    BY <2>1, StartGives DEF IInv
  <2> HIDE DEF s
  <2>4. RestOK' /\ BargeInv'
    BY <1>1, <1>3 DEF PlayAudio, RestOK, IInv, BargeInv
  <2>5. \A q \in Playbacks : Released(q) => Released(q)'
    BY <1>1, <1>3 DEF PlayAudio, Released, RestOK
  <2>6. Released(p)'
    BY <1>1, <1>3 DEF PlayAudio, Released, RestOK
  <2>7. \A q \in s.tts_tokens : q \in Playbacks
    BY <2>2 DEF Consistent, CallSession
  <2>8. \A q \in s.tts_tokens : CallOf[q] = c /\ (phase[c] \in {"live", "cleaning"} => Released(q)')
    BY <1>2, <2>1, <2>2, <2>5, <2>6, <2>7 DEF IInv, OwnTokens, TokenHasReleaser, Released
  <2> QED  BY <2>1, <2>2, <2>3, <2>4, <2>5, <2>8, GivesIInv
<1>4. CASE PlayRejected(p)
  <2> DEFINE c == CallOf[p]
             s0 == set_gating_token(session[c], p)
             s == clear_gating_token(s0, {p})
  <2>1. c \in stored /\ UNCHANGED <<phase, refs, fallback, barge>> /\ SaveSession(c, s)
    BY <1>4 DEF PlayRejected
  <2>2. Consistent(s0) /\ Heard(s0) /\ s0.tts_tokens = session[c].tts_tokens \cup {p}
    BY <1>2, <2>1, SetToken
  <2> HIDE DEF s0
  <2>3. Consistent(s) /\ Heard(s) /\ s.tts_tokens = s0.tts_tokens \ {p}
    BY <2>2, ClearTokens
  <2>4. Gives(c, s)
    BY <1>1, <2>1, <2>3, SaveGives
  <2> HIDE DEF s
  <2>5. RestOK' /\ BargeInv'
    BY <1>1, <1>4 DEF PlayRejected, asterisk, RestOK, IInv, BargeInv
  <2>6. \A q \in Playbacks \ {p} : Released(q) => Released(q)'
    BY <1>1, <1>4 DEF PlayRejected, Released, RestOK
  <2>7. \A q \in s.tts_tokens : q \in Playbacks \ {p} /\ q \in session[c].tts_tokens
    BY <2>2, <2>3 DEF Consistent, CallSession
  <2>8. \A q \in s.tts_tokens : CallOf[q] = c /\ (phase[c] \in {"live", "cleaning"} => Released(q)')
    BY <1>2, <2>1, <2>6, <2>7 DEF IInv, OwnTokens, TokenHasReleaser, Released
  <2>9. \A q \in Playbacks : CallOf[q] # c /\ Released(q) => Released(q)'
    BY <2>6
  <2> QED  BY <2>1, <2>3, <2>4, <2>5, <2>8, <2>9, GivesIInv
<1>5. CASE PlayStarted(p)
  <2>1. UNCHANGED <<phase, stored, session, gated, captured, barge>> /\ RestOK'
    BY <1>1, <1>5 DEF PlayStarted, store, asterisk, RestOK
  <2>2. \A q \in Playbacks : Released(q) => Released(q)'
    BY <1>1, <1>5 DEF PlayStarted, Released, RestOK
  <2> QED  BY <2>1, <2>2 DEF IInv, TypeOK, RestOK, CallInv, Served, BargeInv, OwnTokens,
                             TokenHasReleaser, Released
<1>6. CASE PlayFailed(p)
  <2>1. on_tts_end(CallOf[p], {p}) /\ UNCHANGED <<phase, stored, barge>> /\ RestOK'
    BY <1>1, <1>6 DEF PlayFailed, RestOK
  <2>2. \A q \in Playbacks \ {p} : Released(q) => Released(q)'
    BY <1>1, <1>6 DEF PlayFailed, Released, RestOK
  <2> QED  BY <1>1, <2>1, <2>2, EndIInv
<1>7. ASSUME PopPlayback(p), UNCHANGED <<phase, stored, play, barge>>, RestOK',
             fallback' = fallback \/ fallback' = fallback \ {p}
      PROVE  IInv'
  <2>1. CASE p \in refs
    <3>1. on_tts_end(CallOf[p], {p}) /\ refs' = refs \ {p}
      BY <1>7, <2>1 DEF PopPlayback
    <3>2. \A q \in Playbacks \ {p} : Released(q) => Released(q)'
      BY <1>7, <3>1 DEF Released
    <3> QED  BY <1>1, <1>7, <3>1, <3>2, EndIInv
  <2>2. CASE p \notin refs
    <3>1. UNCHANGED <<refs, session, gated, captured>>
      BY <1>7, <2>2 DEF PopPlayback
    <3>2. \A q \in Playbacks : Released(q) => Released(q)'
      BY <1>7, <2>2, <3>1 DEF Released
    <3> QED  BY <1>7, <3>1, <3>2 DEF IInv, TypeOK, RestOK, CallInv, Served, BargeInv, OwnTokens,
                                     TokenHasReleaser, Released
  <2> QED  BY <2>1, <2>2
<1>8. CASE PlaybackFinished(p)
  <2>1. PopPlayback(p) /\ UNCHANGED <<phase, stored, play, barge, fallback>>
    BY <1>8 DEF PlaybackFinished
  <2>2. refs' \subseteq refs
    BY <2>1 DEF PopPlayback
  <2>3. RestOK'
    BY <1>1, <1>8, <2>2 DEF PlaybackFinished, RestOK
  <2> QED  BY <1>7, <2>1, <2>3
<1>9. CASE GatingFallback(p)
  <2>1. PopPlayback(p) /\ UNCHANGED <<phase, stored, play, barge>> /\ fallback' = fallback \ {p}
    BY <1>9 DEF GatingFallback
  <2>2. refs' \subseteq refs
    BY <2>1 DEF PopPlayback
  <2>3. RestOK'
    BY <1>1, <1>9, <2>2 DEF GatingFallback, asterisk, RestOK
  <2> QED  BY <1>7, <2>1, <2>3
<1> QED
  BY <1>3, <1>4, <1>5, <1>6, <1>8, <1>9 DEF PlaybackStep

LEMMA CallStepIInv ==
  ASSUME IInv, NEW c \in Calls, CallStep(c)
  PROVE  IInv'
<1>1. TypeOK /\ RestOK /\ CallInv(c)
  BY DEF IInv, TypeOK, RestOK
<1>2. CASE RegisterCall(c)
  <2> DEFINE s == session[c]
  <2>1. /\ phase[c] = "new"
        /\ phase' = [phase EXCEPT ![c] = "live"]
        /\ session' = [session EXCEPT ![c] = s]
        /\ stored' = stored \cup {c}
        /\ gated' = Put(gated, c, s.tts_playing)
        /\ captured' = Put(captured, c, s.audio_capture_enabled)
        /\ UNCHANGED <<refs, play, fallback, barge, ari, events>>
    BY <1>2 DEF RegisterCall, SaveSession, asterisk
  <2>2. Consistent(s) /\ Heard(s) /\ s.tts_tokens = {}
    BY <1>1, <2>1 DEF CallInv
  <2>3. session' = session
    BY <1>1, <2>1 DEF TypeOK
  <2>4. s.tts_playing \in BOOLEAN /\ s.audio_capture_enabled \in BOOLEAN
    BY <2>2 DEF Consistent, CallSession
  <2>5. gated \in SUBSET Calls /\ captured \in SUBSET Calls
    BY <1>1 DEF TypeOK
  <2>6. /\ gated' \in SUBSET Calls /\ (c \in gated' <=> s.tts_playing)
        /\ \A d \in Calls \ {c} : d \in gated' <=> d \in gated
    BY <2>1, <2>4, <2>5, PutMember
  <2>7. /\ captured' \in SUBSET Calls /\ (c \in captured' <=> s.audio_capture_enabled)
        /\ \A d \in Calls \ {c} : d \in captured' <=> d \in captured
    BY <2>1, <2>4, <2>5, PutMember
  <2>8. phase'[c] = "live" /\ \A d \in Calls \ {c} : phase'[d] = phase[d]
    BY <1>1, <2>1 DEF TypeOK
  <2>9. ASSUME NEW d \in Calls PROVE CallInv(d)'
    <3>1. CASE d = c
      BY <2>1, <2>2, <2>3, <2>6, <2>7, <2>8, <3>1 DEF CallInv
    <3>2. CASE d # c
      BY <2>1, <2>3, <2>6, <2>7, <2>8, <3>2 DEF CallInv, Served, IInv
    <3> QED  BY <3>1, <3>2
  <2>10. phase' \in [Calls -> {"new", "live", "cleaning", "cancelled", "ended"}] /\ stored' \subseteq Calls
    BY <1>1, <2>1 DEF TypeOK
  <2>11. RestOK' /\ BargeInv'
    BY <1>1, <2>1, <2>8 DEF RestOK, BargeInv, IInv
  <2>12. \A p \in Playbacks : Released(p) => Released(p)'
    BY <2>1 DEF Released
  <2>13. \A d \in Calls : phase'[d] \in {"live", "cleaning"} =>
                          phase[d] \in {"live", "cleaning"} \/ phase[d] = "new"
    BY <2>1, <2>8
  <2> QED  BY <2>3, <2>6, <2>7, <2>9, <2>10, <2>11, <2>12, <2>13, QuietIInv
<1>3. CASE MediaRx(c)
  <2> DEFINE s == [session[c] EXCEPT !.media_rx_confirmed = TRUE]
  <2>1. c \in stored /\ SaveSession(c, s) /\ UNCHANGED <<phase, refs, play, fallback, barge, ari, events>>
    BY <1>3 DEF MediaRx, asterisk
  <2>2. Consistent(session[c]) /\ (Served(c) => Heard(session[c]))
    BY <2>1, StoredCalls DEF IInv
  <2>3. /\ s \in CallSession /\ s.tts_tokens = session[c].tts_tokens
        /\ s.tts_active_count = session[c].tts_active_count
        /\ s.tts_playing = session[c].tts_playing
        /\ s.audio_capture_enabled = session[c].audio_capture_enabled
    BY <2>2 DEF Consistent, CallSession
  <2> HIDE DEF s
  <2>4. Consistent(s) /\ (Served(c) => Heard(s))
    BY <2>2, <2>3 DEF Consistent, Heard
  <2>5. Gives(c, s)
    BY <1>1, <2>1, <2>4, SaveGives
  <2>6. RestOK' /\ BargeInv'
    BY <1>1, <2>1 DEF RestOK, BargeInv, IInv
  <2>7. \A p \in Playbacks : Released(p) => Released(p)'
    BY <2>1 DEF Released
  <2>8. \A p \in s.tts_tokens : CallOf[p] = c /\ (phase[c] \in {"live", "cleaning"} => Released(p)')
    BY <2>1, <2>3 DEF IInv, OwnTokens, TokenHasReleaser, Released
  <2> QED  BY <2>1, <2>4, <2>5, <2>6, <2>7, <2>8, GivesIInv
<1>4. CASE ClearTtsGating(c)
  <2> DEFINE P == session[c].tts_tokens
  <2>1. c \in stored /\ on_tts_end(c, P) /\ UNCHANGED <<phase, stored, refs, play, fallback, barge, ari, events>>
    BY <1>4 DEF ClearTtsGating, asterisk
  <2>2. P \in SUBSET Playbacks /\ \A p \in P : CallOf[p] = c
    BY <1>1 DEF CallInv, Consistent, CallSession, IInv, OwnTokens
  <2>3. RestOK' /\ \A p \in Playbacks : Released(p) => Released(p)'
    BY <1>1, <2>1 DEF RestOK, Released
  <2> HIDE DEF P
  <2> QED  BY <2>1, <2>2, <2>3, EndIInv
<1>5. CASE CleanupBegin(c)
  <2>1. /\ c \in stored /\ phase[c] = "live"
        /\ phase' = [phase EXCEPT ![c] = "cleaning"]
        /\ UNCHANGED <<stored, session, refs, gated, captured, play, fallback, barge, ari, events>>
    BY <1>5 DEF CleanupBegin, asterisk
  <2>2. phase'[c] = "cleaning" /\ \A d \in Calls \ {c} : phase'[d] = phase[d]
    BY <1>1, <2>1 DEF TypeOK
  <2>3. \A d \in Calls : CallInv(d)'
    BY <2>1, <2>2 DEF IInv, CallInv, Served
  <2>4. phase' \in [Calls -> {"new", "live", "cleaning", "cancelled", "ended"}]
        /\ stored' \subseteq Calls /\ gated' \subseteq Calls /\ captured' \subseteq Calls
    BY <1>1, <2>1 DEF TypeOK
  <2>5. RestOK' /\ BargeInv'
    BY <1>1, <2>1, <2>2 DEF RestOK, BargeInv, IInv
  <2>6. \A p \in Playbacks : Released(p) => Released(p)'
    BY <2>1 DEF Released
  <2>7. \A d \in Calls : phase'[d] \in {"live", "cleaning"} =>
                         phase[d] \in {"live", "cleaning"} \/ phase[d] = "new"
    BY <2>1, <2>2
  <2> QED  BY <2>1, <2>3, <2>4, <2>5, <2>6, <2>7, QuietIInv
<1>6. ASSUME NEW S \in SUBSET Playbacks, CleanupCancel(c, S) PROVE IInv'
  <2>1. /\ phase[c] = "cleaning"
        /\ \A p \in S : CallOf[p] = c
        /\ phase' = [phase EXCEPT ![c] = "cancelled"]
        /\ play' = [p \in Playbacks |-> IF p \in S THEN "aborted" ELSE play[p]]
        /\ UNCHANGED <<stored, session, refs, gated, captured, fallback, barge, ari, events>>
    BY <1>6 DEF CleanupCancel, asterisk
  <2>2. phase'[c] = "cancelled" /\ \A d \in Calls \ {c} : phase'[d] = phase[d]
    BY <1>1, <2>1 DEF TypeOK
  <2>3. \A d \in Calls : CallInv(d)'
    BY <2>1, <2>2 DEF IInv, CallInv, Served
  <2>4. phase' \in [Calls -> {"new", "live", "cleaning", "cancelled", "ended"}]
        /\ stored' \subseteq Calls /\ gated' \subseteq Calls /\ captured' \subseteq Calls
    BY <1>1, <2>1 DEF TypeOK
  <2>5. RestOK' /\ BargeInv'
    BY <1>1, <2>1, <2>2 DEF RestOK, BargeInv, IInv
  <2>6. \A p \in Playbacks : phase'[CallOf[p]] \in {"live", "cleaning"} /\ Released(p) => Released(p)'
    BY <2>1, <2>2, CallOfType DEF Released
  <2>7. \A d \in Calls : phase'[d] \in {"live", "cleaning"} =>
                         phase[d] \in {"live", "cleaning"} \/ phase[d] = "new"
    BY <2>1, <2>2
  <2> QED  BY <2>1, <2>3, <2>4, <2>5, <2>6, <2>7, QuietIInv
<1>7. CASE CleanupRemove(c)
  <2>1. /\ phase[c] = "cancelled"
        /\ phase' = [phase EXCEPT ![c] = "ended"]
        /\ stored' = stored \ {c} /\ gated' = gated \ {c} /\ captured' = captured \ {c}
        /\ UNCHANGED <<session, refs, play, fallback, barge, ari, events>>
    BY <1>7 DEF CleanupRemove, asterisk
  <2>2. phase'[c] = "ended" /\ \A d \in Calls \ {c} : phase'[d] = phase[d]
    BY <1>1, <2>1 DEF TypeOK
  <2>3. \A d \in Calls : CallInv(d)'
    BY <2>1, <2>2 DEF IInv, CallInv, Served
  <2>4. phase' \in [Calls -> {"new", "live", "cleaning", "cancelled", "ended"}]
        /\ stored' \subseteq Calls /\ gated' \subseteq Calls /\ captured' \subseteq Calls
    BY <1>1, <2>1 DEF TypeOK
  <2>5. RestOK' /\ BargeInv'
    BY <1>1, <2>1, <2>2 DEF RestOK, BargeInv, IInv
  <2>6. \A p \in Playbacks : Released(p) => Released(p)'
    BY <2>1 DEF Released
  <2>7. \A d \in Calls : phase'[d] \in {"live", "cleaning"} =>
                         phase[d] \in {"live", "cleaning"} \/ phase[d] = "new"
    BY <2>1, <2>2
  <2> QED  BY <2>1, <2>3, <2>4, <2>5, <2>6, <2>7, QuietIInv
<1> QED
  BY <1>2, <1>3, <1>4, <1>5, <1>6, <1>7 DEF CallStep

(* The common end of a barge-in that found nothing to stop and of one that  *)
(* has stopped what it found.                                               *)
LEMMA ReleaseIInv ==
  ASSUME IInv, NEW c \in Calls, NEW s0, NEW force \in BOOLEAN, phase[c] # "new",
         ReleaseAndSave(c, s0, force), Consistent(s0), Served(c) => Heard(s0),
         s0.tts_tokens = session[c].tts_tokens,
         UNCHANGED <<phase, refs, play, fallback>>, RestOK', BargeInv'
  PROVE  IInv'
<1>1. Served(c) => c \in stored
  BY DEF IInv, CallInv
<1>2. PICK t : /\ Gives(c, t) /\ Consistent(t) /\ (Served(c) => Heard(t))
               /\ t.tts_tokens \subseteq s0.tts_tokens
               /\ c \in stored => t.tts_tokens = {}
  BY <1>1, ReleaseGives DEF IInv
<1>3. \A p \in Playbacks : Released(p) => Released(p)'
  BY DEF Released
<1>4. CASE c \in stored
  BY <1>2, <1>3, <1>4, GivesIInv
<1>5. CASE c \notin stored
  <2>1. ~Served(c)
    BY <1>1, <1>5
  <2>2. /\ \A d \in Calls : CallInv(d)'
        /\ session' \in [Calls -> CallSession]
        /\ stored' \subseteq Calls /\ gated' \subseteq Calls /\ captured' \subseteq Calls
        /\ \A d \in Calls : session'[d] = IF d = c THEN t ELSE session[d]
    BY <1>2, GivesCallInv DEF IInv
  <2>3. TypeOK'
    BY <2>2 DEF IInv, TypeOK, RestOK
  <2>4. OwnTokens'
    BY <1>2, <2>2 DEF IInv, OwnTokens
  <2>5. TokenHasReleaser'
    BY <2>1, <2>2 DEF IInv, TokenHasReleaser, Served
  <2> QED  BY <2>2, <2>3, <2>4, <2>5 DEF IInv
<1> QED
  BY <1>4, <1>5

LEMMA BargeStepIInv ==
  ASSUME IInv, NEW b \in Bargers, BargeStep(b)
  PROVE  IInv'
<1>1. TypeOK /\ RestOK
  BY DEF IInv, TypeOK, RestOK
<1>2. ASSUME NEW c \in Calls, NEW source \in BargeSources, BargeIn(b, c, source) PROVE IInv'
  <2> DEFINE s == [session[c] EXCEPT !.media_rx_confirmed = TRUE]
             force == source = "pipeline_vad"
             P == PlaybacksOf(c)
             run == [call |-> c, listed |-> P, todo |-> P, force |-> force]
  <2>1. c \in stored /\ UNCHANGED <<phase, refs, play, fallback, ari, events>>
    BY <1>2 DEF BargeIn, asterisk
  <2>2. Consistent(session[c]) /\ (Served(c) => Heard(session[c])) /\ phase[c] # "new"
    BY <2>1, StoredCalls DEF IInv
  <2>3. /\ s \in CallSession /\ s.tts_tokens = session[c].tts_tokens
        /\ s.tts_active_count = session[c].tts_active_count
        /\ s.tts_playing = session[c].tts_playing
        /\ s.audio_capture_enabled = session[c].audio_capture_enabled
    BY <2>2 DEF Consistent, CallSession
  <2>4. \/ P = {} /\ ReleaseAndSave(c, s, force) /\ UNCHANGED barge
        \/ P # {} /\ barge' = [barge EXCEPT ![b] = run] /\ SaveSession(c, s)
    BY <1>2 DEF BargeIn
  <2>5. run \in Barge
    BY <1>1 DEF Barge, PlaybacksOf, RestOK
  <2> HIDE DEF s, force, P
  <2>6. Consistent(s) /\ (Served(c) => Heard(s))
    BY <2>2, <2>3 DEF Consistent, Heard
  <2>7. CASE ReleaseAndSave(c, s, force) /\ UNCHANGED barge
    <3>1. RestOK' /\ BargeInv'
      BY <1>1, <2>1, <2>7 DEF RestOK, BargeInv, IInv
    <3>2. force \in BOOLEAN
      BY DEF force
    <3> QED  BY <2>1, <2>2, <2>3, <2>6, <2>7, <3>1, <3>2, ReleaseIInv
  <2>8. CASE barge' = [barge EXCEPT ![b] = run] /\ SaveSession(c, s)
    <3>1. Gives(c, s)
      BY <1>1, <2>1, <2>6, <2>8, SaveGives
    <3>2. RestOK'
      BY <1>1, <2>1, <2>5, <2>8 DEF RestOK
    <3>3. BargeInv'
      <4> SUFFICES ASSUME NEW a \in Bargers, barge'[a] # Idle
                   PROVE  barge'[a].call \in Calls /\ phase'[barge'[a].call] # "new"
        BY DEF BargeInv
      <4>1. CASE a = b
        BY <1>1, <2>1, <2>2, <2>8, <4>1 DEF RestOK
      <4>2. CASE a # b
        BY <1>1, <2>1, <2>8, <4>2 DEF RestOK, IInv, BargeInv
      <4> QED  BY <4>1, <4>2
    <3>4. \A p \in Playbacks : Released(p) => Released(p)'
      BY <2>1 DEF Released
    <3>5. \A p \in s.tts_tokens : CallOf[p] = c /\ (phase[c] \in {"live", "cleaning"} => Released(p)')
      BY <2>1, <2>3 DEF IInv, OwnTokens, TokenHasReleaser, Released
    <3> QED  BY <2>1, <2>6, <3>1, <3>2, <3>3, <3>4, <3>5, GivesIInv
  <2> QED  BY <2>4, <2>7, <2>8
<1>3. ASSUME NEW p \in Playbacks, BargeStop(b, p) PROVE IInv'
  <2>1. /\ barge' = [barge EXCEPT ![b].todo = @ \ {p}]
        /\ UNCHANGED <<phase, stored, session, gated, captured, refs, play, fallback>>
        /\ ari' \in [Playbacks -> {"none", "queued", "playing", "over"}]
        /\ events' \subseteq Playbacks
    BY <1>1, <1>3 DEF BargeStop, store, asterisk, RestOK
  <2>2. barge[b] \in Barge /\ barge[b] # Idle
    BY <1>1, <1>3 DEF RestOK, BargeStop, Idle
  <2>3. barge' \in [Bargers -> Barge] /\ barge'[b].call = barge[b].call
    BY <1>1, <2>1, <2>2 DEF RestOK, Barge
  <2>4. BargeInv'
    <3> SUFFICES ASSUME NEW a \in Bargers, barge'[a] # Idle
                 PROVE  barge'[a].call \in Calls /\ phase'[barge'[a].call] # "new"
      BY DEF BargeInv
    <3>1. barge[a] # Idle /\ barge'[a].call = barge[a].call
      BY <1>1, <2>1, <2>2, <2>3 DEF RestOK
    <3> QED  BY <2>1, <3>1 DEF IInv, BargeInv
  <2> QED  BY <1>1, <2>1, <2>3, <2>4 DEF IInv, TypeOK, RestOK, CallInv, Served, OwnTokens, TokenHasReleaser
<1>4. CASE BargeFinish(b)
  <2> DEFINE c == barge[b].call
  <2>1. /\ barge[b] # Idle
        /\ ReleaseAndSave(c, session[c], barge[b].force)
        /\ barge' = [barge EXCEPT ![b] = Idle]
        /\ UNCHANGED <<phase, refs, play, fallback, ari, events>>
    BY <1>4 DEF BargeFinish, asterisk
  <2>2. c \in Calls /\ phase[c] # "new" /\ barge[b].force \in BOOLEAN
    BY <1>1, <2>1 DEF IInv, BargeInv, RestOK, Barge
  <2>3. Consistent(session[c]) /\ (Served(c) => Heard(session[c]))
    BY <2>2 DEF IInv, CallInv
  <2>4. Idle \in Barge
    BY DEF Idle, Barge
  <2>5. RestOK'
    BY <1>1, <2>1, <2>4 DEF RestOK
  <2>6. BargeInv'
    <3>1. \A a \in Bargers : barge'[a] = Idle \/ barge'[a] = barge[a]
      BY <1>1, <2>1 DEF RestOK
    <3> QED  BY <2>1, <3>1 DEF IInv, BargeInv
  <2> QED  BY <2>1, <2>2, <2>3, <2>5, <2>6, ReleaseIInv
<1> QED
  BY <1>2, <1>3, <1>4 DEF BargeStep

LEMMA AsteriskStepIInv ==
  ASSUME IInv, AsteriskStep
  PROVE  IInv'
<1>1. TypeOK
  BY DEF IInv
<1>2. /\ UNCHANGED <<phase, stored, session, gated, captured, refs, play, fallback, barge>>
      /\ ari' \in [Playbacks -> {"none", "queued", "playing", "over"}]
      /\ events' \subseteq Playbacks
  BY <1>1 DEF AsteriskStep, AsteriskPlays, AsteriskFinishes, EventsLost, store, TypeOK
<1> QED
  BY <1>1, <1>2 DEF IInv, TypeOK, CallInv, Served, BargeInv, OwnTokens, TokenHasReleaser

LEMMA NextIInv == IInv /\ [Next]_vars => IInv'
<1> SUFFICES ASSUME IInv, [Next]_vars PROVE IInv'
  OBVIOUS
<1>1. CASE UNCHANGED vars
  BY <1>1 DEF vars, IInv, TypeOK, CallInv, Served, BargeInv, OwnTokens, TokenHasReleaser
<1>2. CASE Next
  BY <1>2, CallStepIInv, PlaybackStepIInv, BargeStepIInv, AsteriskStepIInv DEF Next
<1> QED
  BY <1>1, <1>2

LEMMA Invariance == Safety => []IInv
BY InitIInv, NextIInv, PTL DEF Safety

-----------------------------------------------------------------------------
(* Type correctness: every variable keeps its type, for any number of       *)
(* calls, playbacks and barge-ins.                                          *)
THEOREM TypeCorrect == Safety => []TypeOK
<1>1. IInv => TypeOK
  BY DEF IInv
<1> QED
  BY <1>1, Invariance, PTL

(* The gate of a served call follows its tokens, and the token counter and  *)
(* the playing flag never drift from the token set.                         *)
THEOREM GateCorrect == Safety => []GateFollowsTokens
<1>1. IInv => GateFollowsTokens
  BY DEF IInv, CallInv, Consistent, Heard, GateFollowsTokens
<1> QED
  BY <1>1, Invariance, PTL

(* The coordinator's gauges describe the sessions. *)
THEOREM GaugesCorrect == Safety => []GaugesFollowSessions
<1>1. IInv => GaugesFollowSessions
  BY DEF IInv, CallInv, GaugesFollowSessions
<1> QED
  BY <1>1, Invariance, PTL

(* No gating token of a served call is orphaned. *)
THEOREM TokensReleased == Safety => []TokenHasReleaser
<1>1. IInv => TokenHasReleaser
  BY DEF IInv
<1> QED
  BY <1>1, Invariance, PTL

-----------------------------------------------------------------------------
(* TtsGating implements the safety part of HalfDuplexGate.                 *)

(* A step that changes at most the tokens of one call. *)
OnlyTokensOf(c) == phase' = phase /\ \A d \in Calls \ {c} : session'[d].tts_tokens = session[d].tts_tokens

GateStep == Gate!Next \/ UNCHANGED Gate!vars

(* What the abstract state is made of, under the invariant. *)
LEMMA GateView ==
  ASSUME IInv
  PROVE  \A c \in Calls :
           /\ Gate!Speakers(c) = IF Served(c) THEN session[c].tts_tokens ELSE {}
           /\ Served(c) => (session[c].audio_capture_enabled <=> session[c].tts_tokens = {})
<1> SUFFICES ASSUME NEW c \in Calls
             PROVE  /\ Gate!Speakers(c) = IF Served(c) THEN session[c].tts_tokens ELSE {}
                    /\ Served(c) => (session[c].audio_capture_enabled <=> session[c].tts_tokens = {})
  OBVIOUS
<1>1. session[c].tts_tokens \subseteq Playbacks /\ \A p \in session[c].tts_tokens : CallOf[p] = c
  BY DEF IInv, CallInv, Consistent, CallSession, OwnTokens
<1>2. Gate!Speakers(c) = {p \in Playbacks : CallOf[p] = c /\ Served(c) /\ p \in session[c].tts_tokens}
  BY DEF Gate!Speakers
<1>3. Served(c) => (session[c].audio_capture_enabled <=> session[c].tts_tokens = {})
  BY DEF IInv, CallInv, Heard
<1> QED
  BY <1>1, <1>2, <1>3

LEMMA SilenceSteps ==
  ASSUME NEW c \in Calls, NEW S \in SUBSET Playbacks, Gate!Silence(c, S)
  PROVE  GateStep
BY DEF GateStep, Gate!Next, Gate!Silence

(* Tokens are only removed from a call: its speakers fall silent. *)
LEMMA ShrinkSilences ==
  ASSUME IInv, IInv', NEW c \in Calls, OnlyTokensOf(c), session'[c].tts_tokens \subseteq session[c].tts_tokens
  PROVE  GateStep
<1> DEFINE S == session[c].tts_tokens \ session'[c].tts_tokens
           status == [d \in Calls |-> IF Served(d) THEN "live"
                                      ELSE IF phase[d] = "ended" THEN "over" ELSE "new"]
           speaking == {p \in Playbacks : Served(CallOf[p]) /\ p \in session[CallOf[p]].tts_tokens}
           open == {d \in Calls : Served(d) /\ session[d].audio_capture_enabled}
<1>1. \A d \in Calls : Served(d)' <=> Served(d)
  BY DEF OnlyTokensOf, Served
<1>2. status' = status
  BY <1>1 DEF OnlyTokensOf
<1>3. \A d \in Calls : Served(d) => /\ session[d].audio_capture_enabled <=> session[d].tts_tokens = {}
                                    /\ session'[d].audio_capture_enabled <=> session'[d].tts_tokens = {}
  BY <1>1 DEF IInv, CallInv, Heard
<1>4. \A p \in session[c].tts_tokens : p \in Playbacks /\ CallOf[p] = c
  BY DEF IInv, CallInv, Consistent, CallSession, OwnTokens
<1>5. CASE ~Served(c) \/ S = {}
  <2>0. S = {} => session'[c].tts_tokens = session[c].tts_tokens
    OBVIOUS
  <2> HIDE DEF S
  <2>1. \A d \in Calls : Served(d) => session'[d].tts_tokens = session[d].tts_tokens
    BY <1>5, <2>0 DEF OnlyTokensOf
  <2>2. speaking' = speaking
    BY <1>1, <2>1, CallOfType
  <2>3. open' = open
    BY <1>1, <1>3, <2>1
  <2> QED  BY <1>2, <2>2, <2>3 DEF GateStep, Gate!vars
<1>6. CASE Served(c) /\ S # {}
  <2>1. Gate!Speakers(c) = session[c].tts_tokens
    BY <1>6, GateView
  <2>2. \A p \in Playbacks : p \in speaking' <=> p \in speaking /\ p \notin S
    BY <1>1, <1>4, <1>6, CallOfType DEF OnlyTokensOf
  <2>3. speaking' = speaking \ S
    BY <2>2
  <2>4. session[c].tts_tokens = S <=> session'[c].tts_tokens = {}
    OBVIOUS
  <2>5. \A d \in Calls : d \in open' <=> d \in (IF session[c].tts_tokens = S THEN open \cup {c} ELSE open)
    <3>1. ASSUME NEW d \in Calls, d # c PROVE d \in open' <=> d \in open
      BY <1>1, <1>3, <3>1 DEF OnlyTokensOf
    <3>2. c \in open' <=> c \in (IF session[c].tts_tokens = S THEN open \cup {c} ELSE open)
      BY <1>1, <1>3, <1>6, <2>4
    <3> QED  BY <3>1, <3>2
  <2>6. open' = IF session[c].tts_tokens = S THEN open \cup {c} ELSE open
    BY <2>5
  <2>7. status[c] = "live" /\ S \subseteq session[c].tts_tokens /\ S \in SUBSET Playbacks
    BY <1>4, <1>6
  <2>8. PICK T \in SUBSET Playbacks : T = S
    BY <2>7
  <2>9. Gate!Silence(c, T)
    BY <1>2, <1>6, <2>1, <2>3, <2>6, <2>7, <2>8 DEF Gate!Silence
  <2> QED  BY <2>9, SilenceSteps
<1> QED
  BY <1>5, <1>6

(* A token is added to a call: its playback speaks, or spoke already. *)
LEMMA GrowSpeaks ==
  ASSUME IInv, IInv', NEW p \in Playbacks, OnlyTokensOf(CallOf[p]),
         session'[CallOf[p]].tts_tokens = session[CallOf[p]].tts_tokens \cup {p}
  PROVE  GateStep
<1> DEFINE c == CallOf[p]
           status == [d \in Calls |-> IF Served(d) THEN "live"
                                      ELSE IF phase[d] = "ended" THEN "over" ELSE "new"]
           speaking == {q \in Playbacks : Served(CallOf[q]) /\ q \in session[CallOf[q]].tts_tokens}
           open == {d \in Calls : Served(d) /\ session[d].audio_capture_enabled}
<1>1. c \in Calls /\ \A d \in Calls : Served(d)' <=> Served(d)
  BY CallOfType DEF OnlyTokensOf, Served
<1>2. status' = status
  BY <1>1 DEF OnlyTokensOf
<1>3. \A d \in Calls : Served(d) => /\ session[d].audio_capture_enabled <=> session[d].tts_tokens = {}
                                    /\ session'[d].audio_capture_enabled <=> session'[d].tts_tokens = {}
  BY <1>1 DEF IInv, CallInv, Heard
<1>4. CASE ~Served(c) \/ p \in session[c].tts_tokens
  <2>1. \A d \in Calls : Served(d) => session'[d].tts_tokens = session[d].tts_tokens
    BY <1>4 DEF OnlyTokensOf
  <2>2. speaking' = speaking
    BY <1>1, <2>1, CallOfType
  <2>3. open' = open
    BY <1>1, <1>3, <2>1
  <2> QED  BY <1>2, <2>2, <2>3 DEF GateStep, Gate!vars
<1>5. CASE Served(c) /\ p \notin session[c].tts_tokens
  <2>1. \A q \in Playbacks : q \in speaking' <=> q \in speaking \/ q = p
    BY <1>1, <1>5, CallOfType DEF OnlyTokensOf
  <2>2. speaking' = speaking \cup {p}
    BY <2>1
  <2>3. \A d \in Calls : d \in open' <=> d \in open /\ d # c
    <3>1. ASSUME NEW d \in Calls, d # c PROVE d \in open' <=> d \in open
      BY <1>1, <1>3, <3>1 DEF OnlyTokensOf
    <3>2. c \notin open'
      BY <1>1, <1>3, <1>5
    <3> QED  BY <3>1, <3>2
  <2>4. open' = open \ {c}
    BY <2>3
  <2>5. status[c] = "live" /\ p \notin speaking
    BY <1>1, <1>5
  <2>6. Gate!Speak(p)
    BY <1>2, <2>2, <2>4, <2>5 DEF Gate!Speak
  <2> QED  BY <2>6 DEF GateStep, Gate!Next
<1> QED
  BY <1>4, <1>5

(* A step that gives an object with no new token to one call. *)
LEMMA GivesSilences ==
  ASSUME IInv, IInv', NEW c \in Calls, NEW s, Gives(c, s), s.tts_tokens \subseteq session[c].tts_tokens
  PROVE  GateStep
<1>1. OnlyTokensOf(c) /\ session'[c] = s
  BY DEF OnlyTokensOf, Gives, IInv, TypeOK
<1> QED
  BY <1>1, ShrinkSilences

(* A step that leaves the tokens alone, and serves the same calls. *)
LEMMA QuietStutters ==
  ASSUME IInv, IInv', UNCHANGED session,
         \A c \in Calls : (Served(c)' <=> Served(c)) /\ (phase'[c] = "ended" <=> phase[c] = "ended")
  PROVE  UNCHANGED Gate!vars
<1>1. \A p \in Playbacks : Served(CallOf[p])' <=> Served(CallOf[p])
  BY CallOfType
<1> QED
  BY <1>1 DEF Gate!vars

LEMMA EndSilences ==
  ASSUME IInv, IInv', NEW c \in Calls, NEW P, on_tts_end(c, P), UNCHANGED <<phase, stored>>
  PROVE  GateStep
<1>1. CASE c \in stored
  <2>1. Gives(c, clear_gating_token(session[c], P))
    BY <1>1, EndGives DEF IInv
  <2>2. clear_gating_token(session[c], P).tts_tokens \subseteq session[c].tts_tokens
    BY ClearTokens DEF IInv, CallInv
  <2> QED  BY <2>1, <2>2, GivesSilences
<1>2. CASE c \notin stored
  <2>1. UNCHANGED <<session, phase>>
    BY <1>2 DEF on_tts_end
  <2> QED  BY <2>1, QuietStutters DEF GateStep, Served
<1> QED
  BY <1>1, <1>2

LEMMA CallStepRefines ==
  ASSUME IInv, IInv', NEW c \in Calls, CallStep(c)
  PROVE  GateStep
<1>1. CASE RegisterCall(c)
  <2>1. /\ phase[c] = "new" /\ phase' = [phase EXCEPT ![c] = "live"]
        /\ session' = [session EXCEPT ![c] = session[c]]
    BY <1>1 DEF RegisterCall, SaveSession
  <2>2. session' = session /\ session[c].tts_tokens = {} /\ session[c].audio_capture_enabled
    BY <2>1 DEF IInv, TypeOK, CallInv, Heard
  <2>3. /\ ~Served(c) /\ Served(c)' /\ phase'[c] = "live"
        /\ \A d \in Calls \ {c} : phase'[d] = phase[d] /\ (Served(d)' <=> Served(d))
    BY <2>1 DEF Served, IInv, TypeOK
  <2>4. Gate!Answer(c)
    <3>1. \A p \in Playbacks : /\ CallOf[p] = c => p \notin session[CallOf[p]].tts_tokens
                               /\ CallOf[p] # c => (Served(CallOf[p])' <=> Served(CallOf[p]))
      BY <2>2, <2>3, CallOfType
    <3> QED  BY <2>1, <2>2, <2>3, <3>1 DEF Gate!Answer
  <2> QED  BY <2>4 DEF GateStep, Gate!Next
<1>2. CASE MediaRx(c)
  <2> DEFINE s == [session[c] EXCEPT !.media_rx_confirmed = TRUE]
  <2>1. Consistent(session[c]) /\ SaveSession(c, s) /\ phase' = phase
    BY <1>2 DEF MediaRx, IInv, CallInv
  <2>2. Consistent(s) /\ s.tts_tokens = session[c].tts_tokens
    BY <2>1 DEF Consistent, CallSession
  <2>3. Gives(c, s)
    BY <2>1, <2>2, SaveGives DEF IInv
  <2> QED  BY <2>2, <2>3, GivesSilences
<1>3. CASE ClearTtsGating(c)
  BY <1>3, EndSilences DEF ClearTtsGating
<1>4. CASE CleanupBegin(c)
  BY <1>4, QuietStutters DEF CleanupBegin, GateStep, Served, IInv, TypeOK
<1>5. ASSUME NEW S, CleanupCancel(c, S) PROVE GateStep
  BY <1>5, QuietStutters DEF CleanupCancel, GateStep, Served, IInv, TypeOK
<1>6. CASE CleanupRemove(c)
  <2>1. phase[c] = "cancelled" /\ phase' = [phase EXCEPT ![c] = "ended"] /\ session' = session
    BY <1>6 DEF CleanupRemove
  <2>2. /\ Served(c) /\ ~Served(c)' /\ phase'[c] = "ended"
        /\ \A d \in Calls \ {c} : phase'[d] = phase[d] /\ (Served(d)' <=> Served(d))
    BY <2>1 DEF Served, IInv, TypeOK
  <2>3. Gate!HangUp(c)
    <3>1. \A p \in Playbacks : CallOf[p] # c => (Served(CallOf[p])' <=> Served(CallOf[p]))
      BY <2>2, CallOfType
    <3> QED  BY <2>1, <2>2, <3>1 DEF Gate!HangUp, Gate!Speakers
  <2> QED  BY <2>3 DEF GateStep, Gate!Next
<1> QED
  BY <1>1, <1>2, <1>3, <1>4, <1>5, <1>6 DEF CallStep

LEMMA PlaybackStepRefines ==
  ASSUME IInv, IInv', NEW p \in Playbacks, PlaybackStep(p)
  PROVE  GateStep
<1> DEFINE c == CallOf[p]
<1>0. c \in Calls
  BY CallOfType
<1>1. CASE PlayAudio(p)
  <2>1. c \in stored /\ on_tts_start(c, p) /\ UNCHANGED <<phase, stored>>
    BY <1>1 DEF PlayAudio
  <2>2. Gives(c, set_gating_token(session[c], p))
    BY <2>1, StartGives DEF IInv
  <2>3. OnlyTokensOf(c) /\ session'[c] = set_gating_token(session[c], p)
    BY <1>0, <2>2 DEF OnlyTokensOf, Gives, IInv, TypeOK
  <2>4. session'[c].tts_tokens = session[c].tts_tokens \cup {p}
    BY <1>0, <2>3, SetToken DEF IInv, CallInv
  <2> QED  BY <2>3, <2>4, GrowSpeaks
<1>2. CASE PlayRejected(p)
  <2> DEFINE r == set_gating_token(session[c], p)
             s == clear_gating_token(r, {p})
  <2>1. SaveSession(c, s) /\ phase' = phase
    BY <1>2 DEF PlayRejected
  <2>2. Consistent(r) /\ r.tts_tokens = session[c].tts_tokens \cup {p}
    BY <1>0, SetToken DEF IInv, CallInv
  <2>3. Consistent(s) /\ s.tts_tokens = r.tts_tokens \ {p}
    BY <2>2, ClearTokens
  <2> HIDE DEF r, s
  <2>4. Gives(c, s)
    BY <1>0, <2>1, <2>3, SaveGives DEF IInv
  <2>5. s.tts_tokens \subseteq session[c].tts_tokens
    BY <2>2, <2>3
  <2> QED  BY <1>0, <2>4, <2>5, GivesSilences
<1>3. CASE PlayStarted(p)
  BY <1>3, QuietStutters DEF PlayStarted, store, GateStep, Served
<1>4. CASE PlayFailed(p)
  BY <1>0, <1>4, EndSilences DEF PlayFailed
<1>5. ASSUME PopPlayback(p), UNCHANGED <<phase, stored>> PROVE GateStep
  <2>1. CASE p \in refs
    BY <1>0, <1>5, <2>1, EndSilences DEF PopPlayback
  <2>2. CASE p \notin refs
    BY <1>5, <2>2, QuietStutters DEF PopPlayback, GateStep, Served
  <2> QED  BY <2>1, <2>2
<1>6. CASE PlaybackFinished(p) \/ GatingFallback(p)
  BY <1>5, <1>6 DEF PlaybackFinished, GatingFallback
<1> QED
  BY <1>1, <1>2, <1>3, <1>4, <1>6 DEF PlaybackStep

LEMMA ReleaseRefines ==
  ASSUME IInv, IInv', NEW c \in Calls, NEW s0, NEW force \in BOOLEAN,
         Consistent(s0), Served(c) => Heard(s0), s0.tts_tokens = session[c].tts_tokens,
         ReleaseAndSave(c, s0, force), phase' = phase
  PROVE  GateStep
<1>1. PICK t : Gives(c, t) /\ t.tts_tokens \subseteq s0.tts_tokens
  BY ReleaseGives DEF IInv, CallInv
<1> QED
  BY <1>1, GivesSilences

LEMMA BargeStepRefines ==
  ASSUME IInv, IInv', NEW b \in Bargers, BargeStep(b)
  PROVE  GateStep
<1>1. ASSUME NEW c \in Calls, NEW source \in BargeSources, BargeIn(b, c, source)
      PROVE  GateStep
  <2> DEFINE s == [session[c] EXCEPT !.media_rx_confirmed = TRUE]
             force == source = "pipeline_vad"
  <2>1. Consistent(session[c]) /\ (Served(c) => Heard(session[c]))
    BY DEF IInv, CallInv
  <2>2. Consistent(s) /\ (Served(c) => Heard(s)) /\ s.tts_tokens = session[c].tts_tokens
    BY <2>1 DEF Consistent, CallSession, Heard
  <2>3. phase' = phase /\ (ReleaseAndSave(c, s, force) \/ SaveSession(c, s))
    BY <1>1 DEF BargeIn
  <2>4. force \in BOOLEAN
    OBVIOUS
  <2> HIDE DEF s, force
  <2>5. CASE ReleaseAndSave(c, s, force)
    BY <2>2, <2>3, <2>4, <2>5, ReleaseRefines
  <2>6. CASE SaveSession(c, s)
    <3>1. Gives(c, s)
      BY <2>2, <2>3, <2>6, SaveGives DEF IInv
    <3> QED  BY <2>2, <3>1, GivesSilences
  <2> QED  BY <2>3, <2>5, <2>6
<1>2. ASSUME NEW p, BargeStop(b, p) PROVE GateStep
  BY <1>2, QuietStutters DEF BargeStop, store, GateStep, Served
<1>3. CASE BargeFinish(b)
  <2> DEFINE c == barge[b].call
  <2>1. barge[b] # Idle /\ ReleaseAndSave(c, session[c], barge[b].force) /\ phase' = phase
    BY <1>3 DEF BargeFinish
  <2>2. c \in Calls /\ barge[b].force \in BOOLEAN
    BY <2>1 DEF IInv, BargeInv, TypeOK, Barge
  <2>3. Consistent(session[c]) /\ (Served(c) => Heard(session[c]))
    BY <2>2 DEF IInv, CallInv
  <2> QED  BY <2>1, <2>2, <2>3, ReleaseRefines
<1> QED
  BY <1>1, <1>2, <1>3 DEF BargeStep

LEMMA StepRefines == IInv /\ IInv' /\ [Next]_vars => GateStep
<1> SUFFICES ASSUME IInv, IInv', [Next]_vars PROVE GateStep
  OBVIOUS
<1>1. CASE UNCHANGED vars
  BY <1>1, QuietStutters DEF vars, GateStep, Served
<1>2. CASE AsteriskStep
  <2>1. UNCHANGED <<phase, session>>
    BY <1>2 DEF AsteriskStep, AsteriskPlays, AsteriskFinishes, EventsLost, store
  <2> QED  BY <2>1, QuietStutters DEF GateStep, Served
<1> QED
  BY <1>1, <1>2, CallStepRefines, PlaybackStepRefines, BargeStepRefines DEF Next

(* Every behaviour of the engine's gate is one the abstract gate allows. *)
THEOREM Refinement == Safety => GateSafety
<1>1. Init => Gate!Init
  <2> SUFFICES ASSUME Init PROVE Gate!Init
    OBVIOUS
  <2>1. \A c \in Calls : phase[c] = "new" /\ ~Served(c)
    BY DEF Init, Served
  <2> QED  BY <2>1, CallOfType DEF Gate!Init
<1>2. IInv /\ IInv' /\ [Next]_vars => [Gate!Next]_(Gate!vars)
  BY StepRefines DEF GateStep
<1> QED
  BY <1>1, <1>2, Invariance, PTL DEF Safety, GateSafety, Gate!Safety

(* So what the abstract gate promises holds of the engine: the audio of a  *)
(* served call is captured exactly when no playback holds a token of it.   *)
THEOREM GatePromise == Safety => []Gate!OpenIffSilent
<1>1. IInv => Gate!OpenIffSilent
  <2> SUFFICES ASSUME IInv, NEW c \in Calls, Served(c)
               PROVE  c \in {d \in Calls : Served(d) /\ session[d].audio_capture_enabled}
                        <=> Gate!Speakers(c) = {}
    BY DEF Gate!OpenIffSilent
  <2> QED  BY GateView
<1>2. QED
  BY <1>1, Invariance, PTL DEF Safety

-----------------------------------------------------------------------------
(* A token is withdrawn by its owner.                                      *)

(* What TokensWithdrawnByOwner says of one step. *)
OwnerWithdraws ==
  \A c \in Calls : Served(c) =>
    \A p \in session[c].tts_tokens \ session'[c].tts_tokens :
      p \in refs' => session'[c].tts_tokens = {}

(* The invariant this needs: a playback that has not begun has no token, so *)
(* that a rejected one cannot give up a token it found.                     *)
Begun == \A c \in Calls : \A p \in session[c].tts_tokens : play[p] # "idle"

(* A playback that has begun stays so. *)
StaysBegun == \A p \in Playbacks : play'[p] = "idle" => play[p] = "idle"

LEMMA QuietOwned ==
  ASSUME IInv, Begun, UNCHANGED session, StaysBegun
  PROVE  OwnerWithdraws /\ Begun'
BY DEF OwnerWithdraws, Begun, StaysBegun, IInv, CallInv, Consistent, CallSession

(* One call is given an object: what is new on it has begun, what is gone   *)
(* has lost its reference too, or nothing is left.                          *)
LEMMA GivesOwned ==
  ASSUME IInv, Begun, StaysBegun, NEW c \in Calls, NEW s, Gives(c, s), Consistent(s),
         \A p \in s.tts_tokens \ session[c].tts_tokens : play'[p] # "idle",
         s.tts_tokens = {} \/ \A p \in session[c].tts_tokens \ s.tts_tokens : p \notin refs'
  PROVE  OwnerWithdraws /\ Begun'
<1>1. \A d \in Calls : session'[d] = IF d = c THEN s ELSE session[d]
  BY DEF Gives, IInv, TypeOK
<1>2. s.tts_tokens \subseteq Playbacks /\ \A d \in Calls : session[d].tts_tokens \subseteq Playbacks
  BY DEF Consistent, CallSession, IInv, CallInv
<1>3. OwnerWithdraws
  BY <1>1 DEF OwnerWithdraws
<1>4. ASSUME NEW d \in Calls, NEW p \in session'[d].tts_tokens PROVE play'[p] # "idle"
  BY <1>1, <1>2, <1>4 DEF Begun, StaysBegun
<1> QED
  BY <1>3, <1>4 DEF Begun

LEMMA EndOwned ==
  ASSUME IInv, Begun, StaysBegun, NEW c \in Calls, NEW P, on_tts_end(c, P), UNCHANGED <<phase, stored>>,
         session[c].tts_tokens \subseteq P \/ \A p \in P : p \notin refs'
  PROVE  OwnerWithdraws /\ Begun'
<1>1. CASE c \in stored
  <2> DEFINE s == clear_gating_token(session[c], P)
  <2>1. Gives(c, s)
    BY <1>1, EndGives DEF IInv
  <2>2. Consistent(s) /\ s.tts_tokens = session[c].tts_tokens \ P
    BY ClearTokens DEF IInv, CallInv
  <2> HIDE DEF s
  <2> QED  BY <2>1, <2>2, GivesOwned
<1>2. CASE c \notin stored
  BY <1>2, QuietOwned DEF on_tts_end
<1> QED
  BY <1>1, <1>2

LEMMA ReleaseOwned ==
  ASSUME IInv, Begun, StaysBegun, NEW c \in Calls, NEW s0, NEW force \in BOOLEAN,
         Consistent(s0), Served(c) => Heard(s0), s0.tts_tokens = session[c].tts_tokens,
         ReleaseAndSave(c, s0, force), phase' = phase
  PROVE  OwnerWithdraws /\ Begun'
<1>1. PICK t : /\ Gives(c, t) /\ Consistent(t)
               /\ t.tts_tokens \subseteq s0.tts_tokens /\ (c \in stored => t.tts_tokens = {})
  BY ReleaseGives DEF IInv, CallInv
<1>2. CASE c \in stored
  BY <1>1, <1>2, GivesOwned
<1>3. CASE c \notin stored
  <2>1. ~Served(c)
    BY <1>3 DEF IInv, CallInv
  <2>2. \A d \in Calls : session'[d] = IF d = c THEN t ELSE session[d]
    BY <1>1 DEF Gives, IInv, TypeOK
  <2>3. OwnerWithdraws
    BY <2>1, <2>2 DEF OwnerWithdraws
  <2>4. \A d \in Calls : session'[d].tts_tokens \subseteq session[d].tts_tokens /\ session[d].tts_tokens \subseteq Playbacks
    BY <1>1, <2>2 DEF IInv, CallInv, Consistent, CallSession
  <2> QED  BY <2>3, <2>4 DEF Begun, StaysBegun
<1> QED
  BY <1>2, <1>3

LEMMA CallStepOwned ==
  ASSUME IInv, Begun, NEW c \in Calls, CallStep(c)
  PROVE  OwnerWithdraws /\ Begun'
<1>1. CASE RegisterCall(c)
  <2>1. session' = session
    BY <1>1 DEF RegisterCall, SaveSession, IInv, TypeOK
  <2> QED  BY <1>1, <2>1, QuietOwned DEF RegisterCall, StaysBegun
<1>2. CASE MediaRx(c)
  <2> DEFINE s == [session[c] EXCEPT !.media_rx_confirmed = TRUE]
  <2>1. Consistent(session[c]) /\ SaveSession(c, s) /\ phase' = phase /\ StaysBegun
    BY <1>2 DEF MediaRx, IInv, CallInv, StaysBegun
  <2>2. Consistent(s) /\ s.tts_tokens = session[c].tts_tokens
    BY <2>1 DEF Consistent, CallSession
  <2> HIDE DEF s
  <2>3. Gives(c, s)
    BY <2>1, <2>2, SaveGives DEF IInv
  <2> QED  BY <2>1, <2>2, <2>3, GivesOwned
<1>3. CASE ClearTtsGating(c)
  BY <1>3, EndOwned DEF ClearTtsGating, StaysBegun
<1>4. CASE CleanupBegin(c) \/ CleanupRemove(c)
  BY <1>4, QuietOwned DEF CleanupBegin, CleanupRemove, StaysBegun
<1>5. ASSUME NEW S, CleanupCancel(c, S) PROVE OwnerWithdraws /\ Begun'
  BY <1>5, QuietOwned DEF CleanupCancel, StaysBegun
<1> QED
  BY <1>1, <1>2, <1>3, <1>4, <1>5 DEF CallStep

LEMMA PlaybackStepOwned ==
  ASSUME IInv, Begun, NEW p \in Playbacks, PlaybackStep(p)
  PROVE  OwnerWithdraws /\ Begun'
<1> DEFINE c == CallOf[p]
<1>0. c \in Calls
  BY CallOfType
<1>1. CASE PlayAudio(p)
  <2> DEFINE s == set_gating_token(session[c], p)
  <2>1. /\ c \in stored /\ on_tts_start(c, p) /\ UNCHANGED <<phase, stored>>
        /\ play' = [play EXCEPT ![p] = "requested"]
    BY <1>1 DEF PlayAudio
  <2>2. Gives(c, s)
    BY <2>1, StartGives DEF IInv
  <2>3. Consistent(s) /\ s.tts_tokens = session[c].tts_tokens \cup {p}
    BY <1>0, SetToken DEF IInv, CallInv
  <2>4. play'[p] # "idle" /\ StaysBegun
    BY <2>1 DEF IInv, TypeOK, StaysBegun
  <2> HIDE DEF s
  <2> QED  BY <1>0, <2>2, <2>3, <2>4, GivesOwned
<1>2. CASE PlayRejected(p)
  <2> DEFINE r == set_gating_token(session[c], p)
             s == clear_gating_token(r, {p})
  <2>1. /\ SaveSession(c, s) /\ phase' = phase /\ play[p] = "idle"
        /\ play' = [play EXCEPT ![p] = "failed"]
    BY <1>2 DEF PlayRejected
  <2>2. Consistent(r) /\ r.tts_tokens = session[c].tts_tokens \cup {p}
    BY <1>0, SetToken DEF IInv, CallInv
  <2>3. Consistent(s) /\ s.tts_tokens = r.tts_tokens \ {p}
    BY <2>2, ClearTokens
  <2> HIDE DEF r, s
  <2>4. Gives(c, s) /\ StaysBegun
    BY <1>0, <2>1, <2>3, SaveGives DEF IInv, TypeOK, StaysBegun
  <2>5. s.tts_tokens = session[c].tts_tokens
    BY <1>0, <2>1, <2>2, <2>3 DEF Begun
  <2> QED  BY <1>0, <2>3, <2>4, <2>5, GivesOwned
<1>3. CASE PlayStarted(p)
  BY <1>3, QuietOwned DEF PlayStarted, store, StaysBegun, IInv, TypeOK
<1>4. CASE PlayFailed(p)
  <2>1. /\ on_tts_end(c, {p}) /\ UNCHANGED <<phase, stored>> /\ p \notin refs'
        /\ play' = [play EXCEPT ![p] = "failed"]
    BY <1>4 DEF PlayFailed
  <2>2. StaysBegun
    BY <2>1 DEF IInv, TypeOK, StaysBegun
  <2> QED  BY <1>0, <2>1, <2>2, EndOwned
<1>5. ASSUME PopPlayback(p), UNCHANGED <<phase, stored, play>> PROVE OwnerWithdraws /\ Begun'
  <2>1. StaysBegun
    BY <1>5 DEF StaysBegun
  <2>2. CASE p \in refs
    <3>1. on_tts_end(c, {p}) /\ p \notin refs'
      BY <1>5, <2>2 DEF PopPlayback
    <3> QED  BY <1>0, <1>5, <2>1, <3>1, EndOwned
  <2>3. CASE p \notin refs
    BY <1>5, <2>1, <2>3, QuietOwned DEF PopPlayback
  <2> QED  BY <2>2, <2>3
<1>6. CASE PlaybackFinished(p) \/ GatingFallback(p)
  BY <1>5, <1>6 DEF PlaybackFinished, GatingFallback
<1> QED
  BY <1>1, <1>2, <1>3, <1>4, <1>6 DEF PlaybackStep

LEMMA BargeStepOwned ==
  ASSUME IInv, Begun, NEW b \in Bargers, BargeStep(b)
  PROVE  OwnerWithdraws /\ Begun'
<1>1. ASSUME NEW c \in Calls, NEW source \in BargeSources, BargeIn(b, c, source)
      PROVE  OwnerWithdraws /\ Begun'
  <2> DEFINE s == [session[c] EXCEPT !.media_rx_confirmed = TRUE]
             force == source = "pipeline_vad"
  <2>1. Consistent(session[c]) /\ (Served(c) => Heard(session[c]))
    BY DEF IInv, CallInv
  <2>2. Consistent(s) /\ (Served(c) => Heard(s)) /\ s.tts_tokens = session[c].tts_tokens
    BY <2>1 DEF Consistent, CallSession, Heard
  <2>3. phase' = phase /\ StaysBegun /\ (ReleaseAndSave(c, s, force) \/ SaveSession(c, s))
    BY <1>1 DEF BargeIn, StaysBegun
  <2>4. force \in BOOLEAN
    OBVIOUS
  <2> HIDE DEF s, force
  <2>5. CASE ReleaseAndSave(c, s, force)
    BY <2>2, <2>3, <2>4, <2>5, ReleaseOwned
  <2>6. CASE SaveSession(c, s)
    <3>1. Gives(c, s)
      BY <2>2, <2>3, <2>6, SaveGives DEF IInv
    <3> QED  BY <2>2, <2>3, <3>1, GivesOwned
  <2> QED  BY <2>3, <2>5, <2>6
<1>2. ASSUME NEW p, BargeStop(b, p) PROVE OwnerWithdraws /\ Begun'
  BY <1>2, QuietOwned DEF BargeStop, store, StaysBegun
<1>3. CASE BargeFinish(b)
  <2> DEFINE c == barge[b].call
  <2>1. barge[b] # Idle /\ ReleaseAndSave(c, session[c], barge[b].force) /\ phase' = phase /\ StaysBegun
    BY <1>3 DEF BargeFinish, StaysBegun
  <2>2. c \in Calls /\ barge[b].force \in BOOLEAN
    BY <2>1 DEF IInv, BargeInv, TypeOK, Barge
  <2>3. Consistent(session[c]) /\ (Served(c) => Heard(session[c]))
    BY <2>2 DEF IInv, CallInv
  <2> QED  BY <2>1, <2>2, <2>3, ReleaseOwned
<1> QED
  BY <1>1, <1>2, <1>3 DEF BargeStep

LEMMA StepOwned == IInv /\ Begun /\ [Next]_vars => OwnerWithdraws /\ Begun'
<1> SUFFICES ASSUME IInv, Begun, [Next]_vars PROVE OwnerWithdraws /\ Begun'
  OBVIOUS
<1>1. CASE UNCHANGED vars
  BY <1>1, QuietOwned DEF vars, StaysBegun
<1>2. CASE AsteriskStep
  <2>1. UNCHANGED <<session, play>>
    BY <1>2 DEF AsteriskStep, AsteriskPlays, AsteriskFinishes, EventsLost, store
  <2> QED  BY <2>1, QuietOwned DEF StaysBegun
<1> QED
  BY <1>1, <1>2, CallStepOwned, PlaybackStepOwned, BargeStepOwned DEF Next

(* The end of one playback never opens the gate for another that still      *)
(* speaks: a token goes with its own reference, or with all of its call.    *)
THEOREM WithdrawnByOwner == Safety => TokensWithdrawnByOwner
<1>1. Init => Begun
  BY DEF Init, Begun
<1>2. IInv /\ Begun /\ [Next]_vars => [OwnerWithdraws]_vars
  BY StepOwned
<1>3. Safety => [][OwnerWithdraws]_vars
  BY <1>1, <1>2, StepOwned, Invariance, PTL DEF Safety
<1> QED
  BY <1>3 DEF TokensWithdrawnByOwner, OwnerWithdraws
=============================================================================
