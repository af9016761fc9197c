------------------------- MODULE CallLifecycleProofs -------------------------
(***************************************************************************)
(* For any transports, starters and number of visits: a call is cleaned up *)
(* once, has one provider, keeps a caller it transferred, and a call that  *)
(* had finished setting up leaves nothing behind and is forgotten.         *)
(***************************************************************************)
EXTENDS CallLifecycle, FiniteSetTheorems, TLAPS

-----------------------------------------------------------------------------
(* The inductive invariant, part by part.                                   *)

Early == {"vars", "bridge", "add", "added"}
Late  == {"config", "create", "created", "attach", "attached"}

(* The guards let one cleanup pass, and its time stamp is never taken back. *)
OneCleanup ==
    /\ entries \in {0, 1} /\ (completed <=> entries = 1)
    /\ cleanup # "none" => entries = 1

(* Until its session is stored, nothing of the call runs but its setup. *)
EarlyAlone ==
    setup \in Early =>
        /\ ~stored /\ cleanup = "none" /\ mediah = "idle" /\ "MediaStart" \notin inbox
        /\ \A s \in Starters : starter[s] = "none"
        /\ xfer = "none" /\ chan # "dialplan"
        /\ sess.transfer \/ provider = 0

(* The session says that the call is transferred before Asterisk is asked,  *)
(* and a cleanup that found it in the dialplan knows.                       *)
TransferKnown ==
    /\ xfer = "asked" => ~sess.transfer
    /\ xfer = "flagged" => sess.transfer /\ chan # "dialplan"
    /\ chan = "dialplan" => sess.transfer
    /\ cleanup \in {"streaming", "provider"} /\ enteredIn = "dialplan" => sess.transfer
    /\ cleanup \in {"bridge", "media", "caller"} =>
           /\ enteredIn = "dialplan" => keep
           /\ keep => sess.transfer

(* The single flight: only the start task that is recorded runs. *)
SingleFlight ==
    /\ task # 0 => starter[task] # "none"
    /\ \A s \in Starters : starter[s] # "none" => task = s

(* Before the cleanup: a provider is started for a stored session, and is   *)
(* the only one whose session is open.                                      *)
ProviderOwned ==
    entries = 0 =>
        /\ setup \in Late \/ task # 0 \/ provider # 0 => stored
        /\ live = IF provider = 0 THEN {} ELSE {provider}
        /\ provider # 0 => sess.active \/ starter[provider] = "connecting"
        /\ \A s \in Starters : /\ starter[s] = "precall" => provider = 0
                               /\ starter[s] = "connecting" => provider = s

(* On the first visit the session comes to know the media channel and the   *)
(* mappings that were made for it.                                          *)
MediaKnown ==
    visits = 1 =>
        /\ setup \in Early \cup {"config", "create"} => media = "none"
        /\ media = "none" => mediah = "idle" /\ "MediaStart" \notin inbox
        /\ setup \in Early \cup {"config", "create", "created"} \/ External => maps = {}
        /\ External /\ media # "none" /\ setup # "created" => sess.media
        /\ ~External /\ MediaUp => "MediaStart" \in inbox \/ mediah # "idle" \/ sess.media
        /\ entries = 0 \/ settled => ("uuid" \in maps => sess.uuid)

(* The steps of the cleanup that are behind it when it stands at one of     *)
(* these, or is over.                                                       *)
Remove  == {"none"}
Release == Remove \cup {"tools"}
Caller  == Release \cup {"release"}
Media   == Caller \cup {"caller"}
Bridge  == Media \cup {"media"}
Stopped == Bridge \cup {"bridge"}

(* The cleanup of a call that had finished setting up: what is done stays   *)
(* done.                                                                    *)
CleanedInOrder ==
    entries = 1 /\ visits = 1 /\ settled =>
        /\ SettledNow /\ task = 0
        /\ cleanup = "streaming" => live \subseteq {provider}
        /\ cleanup = "provider" => provider = 0 /\ live \subseteq {stopping}
        /\ cleanup \in Stopped => provider = 0 /\ live = {}
        /\ cleanup \in Bridge => (bridge = "up" => "bridge" \in refused)
        /\ cleanup \in Media => (MediaUp => "media" \in refused)
        /\ cleanup \in Caller => (chan = "stasis" => "caller" \in refused \/ sess.transfer)
        /\ cleanup \in Release => ~rtp /\ maps \subseteq (IF sess.media THEN {} ELSE {"pending"})
        /\ cleanup \in Remove => ~stored

IInv ==
    /\ TypeOK /\ OneCleanup /\ EarlyAlone /\ TransferKnown /\ SingleFlight
    /\ ProviderOwned /\ MediaKnown /\ CleanedInOrder

-----------------------------------------------------------------------------
(* Types.                                                                   *)

LEMMA BeginCleanupType ==
    ASSUME AriType, CleanType, NEW found, BeginCleanup(found)
    PROVE  CleanType'
<1> USE DEF CleanType
<1>1. CASE found /\ ~completed /\ cleanup = "none"
  <2>1. settled' = (settled /\ SettledNow) /\ (settled /\ SettledNow) \in BOOLEAN
    BY <1>1 DEF BeginCleanup
  <2>2. enteredIn' \in {"none", "stasis", "dialplan", "gone"}
    BY <1>1 DEF BeginCleanup, AriType
  <2>3. entries' \in Nat /\ cleanup' = "streaming" /\ completed' = TRUE
        /\ UNCHANGED <<stopping, keep, refused>>
    BY <1>1 DEF BeginCleanup
  <2> QED
    BY <2>1, <2>2, <2>3
<1>2. CASE ~(found /\ ~completed /\ cleanup = "none")
  BY <1>2 DEF BeginCleanup, clean
<1> QED
  BY <1>1, <1>2

LEMMA AriTypeKeeps ==
    ASSUME TypeOK, Next
    PROVE  AriType'
<1> USE DEF TypeOK, AriType, ari
<1>1. CASE CallerHangsUp \/ MediaLost \/ CallerReturns
  BY <1>1 DEF CallerHangsUp, MediaLost, CallerReturns
<1>2. CASE Setup
  BY <1>2 DEF Setup, SetupVars, SetupBridge, SetupAdd, SetupFails, SetupStored, SetupConfig,
       SetupCreate, SetupCreateFails, SetupCreated, SetupAttach, SetupAttachFails, SetupAttached
<1>3. CASE Handlers
  BY <1>3 DEF Handlers, CallerEnded, MediaEnded, MediaStarted, MediaRetries, MediaAdds,
       MediaAdded, Attend
<1>4. CASE Starting \/ AudioKickoff
  BY <1>4 DEF Starting, AudioKickoff, StarterBegins, StarterConnects, StarterStarted, StarterFails
<1>5. CASE TransferAsked \/ TransferFlag \/ TransferContinue
  BY <1>5 DEF TransferAsked, TransferFlag, TransferContinue
<1>6. CASE Cleanup
  BY <1>6 DEF Cleanup, CleanupProvider, CleanupStopped, CleanupBridge, CleanupMedia,
       CleanupCaller, CleanupRelease, CleanupRemove
<1> QED
  BY <1>1, <1>2, <1>3, <1>4, <1>5, <1>6 DEF Next

LEMMA MakerTypeKeeps ==
    ASSUME TypeOK, Next
    PROVE  MakerType'
<1> USE DEF TypeOK, MakerType, maker
<1>1. CASE CallerHangsUp \/ MediaLost
  BY <1>1 DEF CallerHangsUp, MediaLost
<1>2. CASE CallerReturns
  <2>1. 0 \in 0 .. AttachTries
    BY LifecycleAssumption
  <2> QED
    BY <1>2, <2>1, LifecycleAssumption DEF CallerReturns
<1>3. CASE SetupAttachFails
  <2>1. tries' \in 0 .. AttachTries /\ (tries' = AttachTries => setup' = "done")
    BY <1>3, LifecycleAssumption DEF SetupAttachFails
  <2> QED
    BY <1>3, <2>1 DEF SetupAttachFails
<1>4. CASE Setup /\ ~SetupAttachFails
  BY <1>4 DEF Setup, SetupVars, SetupBridge, SetupAdd, SetupFails, SetupStored, SetupConfig,
       SetupCreate, SetupCreateFails, SetupCreated, SetupAttach, SetupAttached
<1>5. CASE Handlers
  BY <1>5 DEF Handlers, CallerEnded, MediaEnded, MediaStarted, MediaRetries, MediaAdds,
       MediaAdded, Attend
<1>6. CASE Starting \/ AudioKickoff
  BY <1>6 DEF Starting, AudioKickoff, StarterBegins, StarterConnects, StarterStarted, StarterFails
<1>7. CASE TransferAsked \/ TransferFlag \/ TransferContinue
  BY <1>7 DEF TransferAsked, TransferFlag, TransferContinue
<1>8. CASE Cleanup
  BY <1>8 DEF Cleanup, CleanupProvider, CleanupStopped, CleanupBridge, CleanupMedia,
       CleanupCaller, CleanupRelease, CleanupRemove
<1> QED
  BY <1>1, <1>2, <1>3, <1>4, <1>5, <1>6, <1>7, <1>8 DEF Next

LEMMA ProvTypeKeeps ==
    ASSUME TypeOK, Next
    PROVE  ProvType'
<1> USE DEF TypeOK, ProvType, prov
<1>1. CASE CallerHangsUp \/ MediaLost \/ CallerReturns
  BY <1>1 DEF CallerHangsUp, MediaLost, CallerReturns
<1>2. CASE Setup
  BY <1>2 DEF Setup, SetupVars, SetupBridge, SetupAdd, SetupFails, SetupStored, SetupConfig,
       SetupCreate, SetupCreateFails, SetupCreated, SetupAttach, SetupAttachFails, SetupAttached,
       EnsureProvider
<1>3. CASE Handlers
  BY <1>3 DEF Handlers, CallerEnded, MediaEnded, MediaStarted, MediaRetries, MediaAdds,
       MediaAdded, EnsureProvider
<1>4. CASE Starting \/ AudioKickoff
  BY <1>4 DEF Starting, AudioKickoff, StarterBegins, StarterConnects, StarterStarted,
       StarterFails, Ends, EnsureProvider
<1>5. CASE TransferAsked \/ TransferFlag \/ TransferContinue
  BY <1>5 DEF TransferAsked, TransferFlag, TransferContinue
<1>6. CASE Cleanup
  BY <1>6 DEF Cleanup, CleanupProvider, CleanupStopped, CleanupBridge, CleanupMedia,
       CleanupCaller, CleanupRelease, CleanupRemove
<1> QED
  BY <1>1, <1>2, <1>3, <1>4, <1>5, <1>6 DEF Next

LEMMA CleanTypeKeeps ==
    ASSUME TypeOK, Next
    PROVE  CleanType'
<1>0. AriType /\ CleanType /\ SessionType /\ ProvType
  BY DEF TypeOK
<1>1. CASE CallerHangsUp \/ MediaLost \/ CallerReturns
  BY <1>0, <1>1 DEF CallerHangsUp, MediaLost, CallerReturns, CleanType, clean
<1>2. ASSUME UNCHANGED clean \/ \E found : BeginCleanup(found)
      PROVE  CleanType'
  BY <1>0, <1>2, BeginCleanupType DEF CleanType, clean
<1>3. CASE Setup
  BY <1>2, <1>3 DEF Setup, SetupVars, SetupBridge, SetupAdd, SetupFails, SetupStored, SetupConfig,
       SetupCreate, SetupCreateFails, SetupCreated, SetupAttach, SetupAttachFails, SetupAttached
<1>4. ASSUME NEW e \in CallerEvents, CallerEnded(e) PROVE CleanType'
  <2>1. CASE stored
    BY <1>2, <1>4, <2>1 DEF CallerEnded
  <2>2. CASE ~stored
    <3>1. settled' = (settled /\ SettledNow) /\ (settled /\ SettledNow) \in BOOLEAN
      BY <1>4, <2>2 DEF CallerEnded
    <3> QED
      BY <1>0, <1>4, <2>2, <3>1 DEF CallerEnded, CleanType
  <2> QED
    BY <2>1, <2>2
<1>5. CASE MediaEnded \/ MediaStarted \/ MediaRetries \/ MediaAdds \/ MediaAdded
  BY <1>2, <1>5 DEF MediaEnded, MediaStarted, MediaRetries, MediaAdds, MediaAdded
<1>6. CASE Starting \/ AudioKickoff
  BY <1>2, <1>6 DEF Starting, AudioKickoff, StarterBegins, StarterConnects, StarterStarted,
       StarterFails
<1>7. CASE TransferAsked \/ TransferFlag \/ TransferContinue
  BY <1>2, <1>7 DEF TransferAsked, TransferFlag, TransferContinue
<1>8. CASE CleanupProvider \/ CleanupStopped
  <2>1. sess.transfer \in BOOLEAN
    BY <1>0 DEF SessionType
  <2> QED
    BY <1>0, <1>8, <2>1 DEF CleanupProvider, CleanupStopped, CleanType, ProvType
<1>9. CASE CleanupBridge \/ CleanupMedia \/ CleanupCaller
  <2>1. refused' \subseteq refused \cup {"bridge", "media", "caller"}
    BY <1>9 DEF CleanupBridge, CleanupMedia, CleanupCaller
  <2> QED
    BY <1>0, <1>9, <2>1 DEF CleanupBridge, CleanupMedia, CleanupCaller, CleanType
<1>10. CASE CleanupRelease \/ CleanupRemove
  BY <1>0, <1>10 DEF CleanupRelease, CleanupRemove, CleanType
<1> QED
  BY <1>1, <1>3, <1>4, <1>5, <1>6, <1>7, <1>8, <1>9, <1>10 DEF Next, Handlers, Cleanup

LEMMA SessionTypeKeeps ==
    ASSUME TypeOK, Next
    PROVE  SessionType'
<1> USE DEF TypeOK, SessionType
<1>1. CASE CallerHangsUp \/ MediaLost \/ CallerReturns
  BY <1>1 DEF CallerHangsUp, MediaLost, CallerReturns
<1>2. CASE SetupStored
  BY <1>2 DEF SetupStored, NewSession
<1>3. CASE SetupCreated
  BY <1>3 DEF SetupCreated
<1>4. CASE Setup /\ ~SetupStored /\ ~SetupCreated
  BY <1>4 DEF Setup, SetupVars, SetupBridge, SetupAdd, SetupFails, SetupConfig,
       SetupCreate, SetupCreateFails, SetupAttach, SetupAttachFails, SetupAttached
<1>5. CASE Handlers
  BY <1>5 DEF Handlers, CallerEnded, MediaEnded, MediaStarted, MediaRetries, MediaAdds, MediaAdded
<1>6. CASE Starting \/ AudioKickoff
  BY <1>6 DEF Starting, AudioKickoff, StarterBegins, StarterConnects, StarterStarted, StarterFails
<1>7. CASE TransferAsked \/ TransferFlag \/ TransferContinue
  BY <1>7 DEF TransferAsked, TransferFlag, TransferContinue
<1>8. CASE Cleanup
  BY <1>8 DEF Cleanup, CleanupProvider, CleanupStopped, CleanupBridge, CleanupMedia,
       CleanupCaller, CleanupRelease, CleanupRemove
<1> QED
  BY <1>1, <1>2, <1>3, <1>4, <1>5, <1>6, <1>7, <1>8 DEF Next

LEMMA EventTypeKeeps ==
    ASSUME TypeOK, Next
    PROVE  inbox' \subseteq CallerEvents \cup {"MediaStart", "MediaEnd"}
<1>0. inbox \subseteq CallerEvents \cup {"MediaStart", "MediaEnd"}
  BY DEF TypeOK
<1> USE <1>0 DEF CallerEvents
<1>1. CASE CallerHangsUp \/ MediaLost \/ CallerReturns
  BY <1>1 DEF CallerHangsUp, MediaLost, CallerReturns
<1>2. CASE Setup
  BY <1>2 DEF Setup, SetupVars, SetupBridge, SetupAdd, SetupFails, SetupStored, SetupConfig,
       SetupCreate, SetupCreateFails, SetupCreated, SetupAttach, SetupAttachFails, SetupAttached
<1>3. CASE Handlers
  BY <1>3 DEF Handlers, CallerEnded, MediaEnded, MediaStarted, MediaRetries, MediaAdds, MediaAdded
<1>4. CASE Starting \/ AudioKickoff
  BY <1>4 DEF Starting, AudioKickoff, StarterBegins, StarterConnects, StarterStarted, StarterFails
<1>5. CASE TransferAsked \/ TransferFlag \/ TransferContinue
  BY <1>5 DEF TransferAsked, TransferFlag, TransferContinue
<1>6. CASE Cleanup
  BY <1>6 DEF Cleanup, CleanupProvider, CleanupStopped, CleanupBridge, CleanupMedia,
       CleanupCaller, CleanupRelease, CleanupRemove
<1> QED
  BY <1>1, <1>2, <1>3, <1>4, <1>5, <1>6 DEF Next

LEMMA RestTypeKeeps ==
    ASSUME TypeOK, Next
    PROVE  /\ transport' \in Transports /\ visits' \in 1 .. MaxVisits
           /\ rtp' \in BOOLEAN /\ maps' \subseteq {"pending", "uuid"}
           /\ xfer' \in {"none", "asked", "flagged"}
<1> USE DEF TypeOK
<1>1. CASE CallerHangsUp \/ MediaLost \/ CallerReturns
  <2>1. visits' \in 1 .. MaxVisits
    BY <1>1, LifecycleAssumption DEF CallerHangsUp, MediaLost, CallerReturns
  <2> QED
    BY <1>1, <2>1 DEF CallerHangsUp, MediaLost, CallerReturns
<1>2. CASE Setup
  BY <1>2 DEF Setup, SetupVars, SetupBridge, SetupAdd, SetupFails, SetupStored, SetupConfig,
       SetupCreate, SetupCreateFails, SetupCreated, SetupAttach, SetupAttachFails, SetupAttached
<1>3. CASE Handlers
  BY <1>3 DEF Handlers, CallerEnded, MediaEnded, MediaStarted, MediaRetries, MediaAdds,
       MediaAdded, Attend
<1>4. CASE Starting \/ AudioKickoff
  BY <1>4 DEF Starting, AudioKickoff, StarterBegins, StarterConnects, StarterStarted, StarterFails
<1>5. CASE TransferAsked \/ TransferFlag \/ TransferContinue
  BY <1>5 DEF TransferAsked, TransferFlag, TransferContinue
<1>6. CASE Cleanup
  BY <1>6 DEF Cleanup, CleanupProvider, CleanupStopped, CleanupBridge, CleanupMedia,
       CleanupCaller, CleanupRelease, CleanupRemove
<1> QED
  BY <1>1, <1>2, <1>3, <1>4, <1>5, <1>6 DEF Next

LEMMA TypeKeeps ==
    ASSUME TypeOK, Next
    PROVE  TypeOK'
BY AriTypeKeeps, MakerTypeKeeps, ProvTypeKeeps, CleanTypeKeeps, SessionTypeKeeps, EventTypeKeeps,
   RestTypeKeeps DEF TypeOK, CallerEvents

-----------------------------------------------------------------------------
(* One cleanup; an early setup is alone; transfers; the single flight.      *)

LEMMA OneCleanupKeeps ==
    ASSUME OneCleanup, Next
    PROVE  OneCleanup'
<1> USE DEF OneCleanup, clean
<1>1. ASSUME NEW found, BeginCleanup(found)
      PROVE  OneCleanup'
  BY <1>1 DEF BeginCleanup
<1>2. CASE CallerHangsUp \/ MediaLost \/ CallerReturns
  BY <1>2 DEF CallerHangsUp, MediaLost, CallerReturns
<1>3. CASE SetupFails
  BY <1>1, <1>3 DEF SetupFails
<1>4. CASE SetupCreateFails
  BY <1>1, <1>4 DEF SetupCreateFails
<1>5. CASE SetupVars \/ SetupBridge \/ SetupAdd \/ SetupStored \/ SetupConfig \/ SetupCreate
           \/ SetupCreated \/ SetupAttach \/ SetupAttachFails \/ SetupAttached
  <2>1. UNCHANGED clean
    BY <1>5 DEF SetupVars, SetupBridge, SetupAdd, SetupStored, SetupConfig, SetupCreate,
         SetupCreated, SetupAttach, SetupAttachFails, SetupAttached
  <2> QED
    BY <2>1
<1>6. CASE Handlers
  <2>1. ASSUME NEW e \in CallerEvents, CallerEnded(e)
        PROVE  OneCleanup'
    BY <1>1, <2>1 DEF CallerEnded
  <2>2. CASE MediaEnded
    BY <1>1, <2>2 DEF MediaEnded
  <2>3. CASE MediaStarted \/ MediaRetries \/ MediaAdds \/ MediaAdded
    BY <2>3 DEF MediaStarted, MediaRetries, MediaAdds, MediaAdded
  <2> QED
    BY <1>6, <2>1, <2>2, <2>3 DEF Handlers
<1>7. CASE Starting \/ AudioKickoff
  BY <1>7 DEF Starting, AudioKickoff, StarterBegins, StarterConnects, StarterStarted, StarterFails
<1>8. CASE TransferAsked \/ TransferFlag \/ TransferContinue
  BY <1>8 DEF TransferAsked, TransferFlag, TransferContinue
<1>9. CASE Cleanup
  BY <1>9 DEF Cleanup, CleanupProvider, CleanupStopped, CleanupBridge, CleanupMedia,
       CleanupCaller, CleanupRelease, CleanupRemove
<1> QED
  BY <1>2, <1>3, <1>4, <1>5, <1>6, <1>7, <1>8, <1>9 DEF Next, Setup

LEMMA EarlyAloneKeeps ==
    ASSUME IInv, Next
    PROVE  EarlyAlone'
<1> USE DEF IInv, EarlyAlone, Early, ari, maker, prov, clean
<1>1. CASE CallerHangsUp \/ MediaLost
  BY <1>1 DEF CallerHangsUp, MediaLost, CallerEvents
<1>2. CASE CallerReturns
  \* who was transferred comes back with a session that says so
  <2>1. xfer \in {"none", "asked", "flagged"}
    BY DEF TypeOK
  <2> QED
    BY <1>2, <2>1 DEF CallerReturns, SettledNow, TransferKnown
<1>3. CASE SetupFails
  BY <1>3 DEF SetupFails, BeginCleanup
<1>4. CASE Setup /\ ~SetupFails
  BY <1>4 DEF Setup, SetupVars, SetupBridge, SetupAdd, SetupStored, SetupConfig, SetupCreate,
       SetupCreateFails, SetupCreated, SetupAttach, SetupAttachFails, SetupAttached
<1>5. CASE Handlers
  BY <1>5 DEF Handlers, CallerEnded, MediaEnded, MediaStarted, MediaRetries, MediaAdds, MediaAdded,
       BeginCleanup
<1>6. CASE Starting \/ AudioKickoff
  BY <1>6 DEF Starting, AudioKickoff, StarterBegins, StarterConnects, StarterStarted, StarterFails
<1>7. CASE TransferAsked \/ TransferFlag \/ TransferContinue
  BY <1>7 DEF TransferAsked, TransferFlag, TransferContinue
<1>8. CASE Cleanup
  BY <1>8 DEF Cleanup, CleanupProvider, CleanupStopped, CleanupBridge, CleanupMedia,
       CleanupCaller, CleanupRelease, CleanupRemove
<1> QED
  BY <1>1, <1>2, <1>3, <1>4, <1>5, <1>6, <1>7, <1>8 DEF Next

LEMMA TransferKnownKeeps ==
    ASSUME IInv, Next
    PROVE  TransferKnown'
<1> USE DEF IInv, TransferKnown, ari, clean
<1>1. CASE CallerHangsUp \/ MediaLost \/ CallerReturns
  BY <1>1 DEF CallerHangsUp, MediaLost, CallerReturns
<1>2. CASE SetupFails \/ SetupCreateFails
  BY <1>2 DEF SetupFails, SetupCreateFails, BeginCleanup
<1>3. CASE SetupStored
  \* an early setup is alone: no transfer, and no cleanup
  BY <1>3 DEF SetupStored, EarlyAlone, Early
<1>4. CASE SetupCreated
  BY <1>4 DEF SetupCreated, TypeOK, SessionType
<1>5. CASE SetupVars \/ SetupBridge \/ SetupAdd \/ SetupConfig \/ SetupCreate
           \/ SetupAttach \/ SetupAttachFails \/ SetupAttached
  <2>1. UNCHANGED <<chan, sess, xfer, clean>>
    BY <1>5 DEF SetupVars, SetupBridge, SetupAdd, SetupConfig, SetupCreate,
         SetupAttach, SetupAttachFails, SetupAttached
  <2> QED
    BY <2>1
<1>6. CASE Handlers
  BY <1>6 DEF Handlers, CallerEnded, MediaEnded, MediaStarted, MediaRetries, MediaAdds, MediaAdded,
       BeginCleanup, TypeOK, SessionType
<1>7. CASE Starting \/ AudioKickoff
  BY <1>7 DEF Starting, AudioKickoff, StarterBegins, StarterConnects, StarterStarted, StarterFails,
       TypeOK, SessionType
<1>8. CASE TransferAsked \/ TransferFlag \/ TransferContinue
  BY <1>8 DEF TransferAsked, TransferFlag, TransferContinue, TypeOK, SessionType
<1>9. CASE Cleanup
  BY <1>9 DEF Cleanup, CleanupProvider, CleanupStopped, CleanupBridge, CleanupMedia,
       CleanupCaller, CleanupRelease, CleanupRemove
<1> QED
  BY <1>1, <1>2, <1>3, <1>4, <1>5, <1>6, <1>7, <1>8, <1>9 DEF Next, Setup

LEMMA SingleFlightKeeps ==
    ASSUME TypeOK, SingleFlight, Next
    PROVE  SingleFlight'
<1>0. ProvType
  BY DEF TypeOK
<1> USE <1>0, LifecycleAssumption DEF SingleFlight, prov, ProvType
<1>1. CASE CallerHangsUp \/ MediaLost \/ CallerReturns
  BY <1>1 DEF CallerHangsUp, MediaLost, CallerReturns
<1>2. CASE SetupAttached
  BY <1>2 DEF SetupAttached, EnsureProvider
<1>3. CASE Setup /\ ~SetupAttached
  BY <1>3 DEF Setup, SetupVars, SetupBridge, SetupAdd, SetupFails, SetupStored, SetupConfig,
       SetupCreate, SetupCreateFails, SetupCreated, SetupAttach, SetupAttachFails
<1>4. CASE Handlers
  BY <1>4 DEF Handlers, CallerEnded, MediaEnded, MediaStarted, MediaRetries, MediaAdds, MediaAdded,
       EnsureProvider
<1>5. CASE Starting \/ AudioKickoff
  BY <1>5 DEF Starting, AudioKickoff, StarterBegins, StarterConnects, StarterStarted, StarterFails,
       Ends, EnsureProvider
<1>6. CASE TransferAsked \/ TransferFlag \/ TransferContinue
  BY <1>6 DEF TransferAsked, TransferFlag, TransferContinue
<1>7. CASE Cleanup
  BY <1>7 DEF Cleanup, CleanupProvider, CleanupStopped, CleanupBridge, CleanupMedia,
       CleanupCaller, CleanupRelease, CleanupRemove
<1> QED
  BY <1>1, <1>2, <1>3, <1>4, <1>5, <1>6, <1>7 DEF Next

-----------------------------------------------------------------------------
(* The provider; what the session knows of its media.                       *)

LEMMA BeginCleanupOnce ==
    ASSUME OneCleanup, NEW found, BeginCleanup(found)
    PROVE  /\ entries' = 0 => entries = 0
           /\ settled' => settled
BY DEF OneCleanup, BeginCleanup, clean

LEMMA ProviderOwnedKeeps ==
    ASSUME IInv, Next
    PROVE  ProviderOwned'
<1>0. ProvType /\ OneCleanup /\ SingleFlight /\ ProviderOwned /\ EarlyAlone /\ SessionType
  BY DEF IInv, TypeOK
<1> USE <1>0, LifecycleAssumption DEF ProviderOwned, Late, prov, maker, clean
<1>1. CASE CallerHangsUp \/ MediaLost \/ CallerReturns
  BY <1>1 DEF CallerHangsUp, MediaLost, CallerReturns
<1>2. CASE SetupStored
  \* an early setup has no provider
  BY <1>2 DEF SetupStored, EarlyAlone, Early
<1>3. CASE SetupFails \/ SetupCreateFails
  <2>1. entries' = 0 => entries = 0
    BY <1>3, BeginCleanupOnce DEF SetupFails, SetupCreateFails
  <2> QED
    BY <1>3, <2>1 DEF SetupFails, SetupCreateFails
<1>4. CASE SetupCreated
  BY <1>4 DEF SetupCreated, SessionType
<1>5. CASE SetupVars \/ SetupBridge \/ SetupAdd \/ SetupConfig \/ SetupCreate \/ SetupAttach
           \/ SetupAttachFails
  BY <1>5 DEF SetupVars, SetupBridge, SetupAdd, SetupConfig, SetupCreate, SetupAttach,
       SetupAttachFails
<1>6. CASE SetupAttached
  BY <1>6 DEF SetupAttached, EnsureProvider, SingleFlight, ProvType
<1>7. CASE MediaEnded \/ \E e \in CallerEvents : CallerEnded(e)
  <2>1. entries' = 0 => entries = 0
    BY <1>7, BeginCleanupOnce DEF CallerEnded, MediaEnded
  <2> QED
    BY <1>7, <2>1 DEF CallerEnded, MediaEnded
<1>8. CASE MediaStarted \/ MediaRetries \/ MediaAdds
  BY <1>8 DEF MediaStarted, MediaRetries, MediaAdds
<1>9. CASE MediaAdded
  BY <1>9 DEF MediaAdded, EnsureProvider, SingleFlight, ProvType, SessionType
<1>10. ASSUME NEW s \in Starters, StarterBegins(s) PROVE ProviderOwned'
  \* a registered provider that is not active is being connected by another starter
  <2>1. starter[s] = "new" /\ task = s /\ UNCHANGED <<stored, sess, setup, provider, live, entries>>
    BY <1>10 DEF StarterBegins, SingleFlight
  <2>2. CASE ~stored \/ (sess.active /\ provider # 0)
    BY <1>10, <2>1, <2>2 DEF StarterBegins, Ends, ProvType, SingleFlight
  <2>3. CASE stored /\ ~(sess.active /\ provider # 0)
    <3>1. entries = 0 => provider = 0
      BY <2>1, <2>3 DEF ProvType, SingleFlight
    <3> QED
      BY <1>10, <2>1, <2>3, <3>1 DEF StarterBegins, ProvType, SingleFlight
  <2> QED
    BY <2>2, <2>3, <1>0 DEF SessionType
<1>11. ASSUME NEW s \in Starters, StarterConnects(s) PROVE ProviderOwned'
  BY <1>11 DEF StarterConnects, Ends, ProvType, SingleFlight
<1>12. ASSUME NEW s \in Starters, StarterStarted(s) PROVE ProviderOwned'
  BY <1>12 DEF StarterStarted, Ends, ProvType, SingleFlight, SessionType
<1>13. ASSUME NEW s \in Starters, StarterFails(s) PROVE ProviderOwned'
  BY <1>13 DEF StarterFails, Ends, ProvType, SingleFlight
<1>14. CASE AudioKickoff
  BY <1>14 DEF AudioKickoff, EnsureProvider, ProvType, SingleFlight
<1>15. CASE TransferAsked \/ TransferFlag \/ TransferContinue
  BY <1>15 DEF TransferAsked, TransferFlag, TransferContinue, SessionType
<1>16. CASE Cleanup
  \* no provider is claimed for a call that is cleaned up
  <2>1. entries' = entries /\ cleanup # "none"
    BY <1>16 DEF Cleanup, CleanupProvider, CleanupStopped, CleanupBridge, CleanupMedia,
         CleanupCaller, CleanupRelease, CleanupRemove
  <2> QED
    BY <2>1 DEF OneCleanup
<1> QED
  BY <1>1, <1>2, <1>3, <1>4, <1>5, <1>6, <1>7, <1>8, <1>9, <1>10, <1>11, <1>12, <1>13, <1>14,
     <1>15, <1>16 DEF Next, Setup, Handlers, Starting

LEMMA MediaKnownKeeps ==
    ASSUME IInv, Next
    PROVE  MediaKnown'
<1>0. SessionType /\ AriType /\ MediaKnown /\ visits \in 1 .. MaxVisits /\ maps \subseteq {"pending", "uuid"}
  BY DEF IInv, TypeOK
<1> USE <1>0, LifecycleAssumption DEF MediaKnown, Early, External, MediaUp, ari, maker, clean
<1>1. CASE CallerHangsUp \/ MediaLost
  <2>1. "MediaStart" \in inbox' <=> "MediaStart" \in inbox
    BY <1>1 DEF CallerHangsUp, MediaLost, CallerEvents
  <2> QED
    BY <1>1, <2>1 DEF CallerHangsUp, MediaLost
<1>2. CASE CallerReturns
  <2>1. visits' # 1
    BY <1>2 DEF CallerReturns
  <2> QED
    BY <2>1
<1>3. CASE SetupFails \/ SetupCreateFails
  BY <1>3 DEF SetupFails, SetupCreateFails, BeginCleanup
<1>4. CASE SetupStored
  BY <1>4 DEF SetupStored
<1>5. CASE SetupCreated
  \* setup was not over, so the call has its session, or did not end settled
  <2>1. entries = 0 /\ visits = 1 => stored
    BY <1>5 DEF IInv, ProviderOwned, Late, SetupCreated
  <2>2. entries # 0 /\ visits = 1 => ~settled
    BY <1>5 DEF IInv, OneCleanup, CleanedInOrder, SettledNow, SetupCreated
  <2> QED
    BY <1>5, <2>1, <2>2 DEF SetupCreated, SessionType
<1>6. CASE SetupVars \/ SetupBridge \/ SetupAdd \/ SetupConfig \/ SetupCreate \/ SetupAttach
           \/ SetupAttachFails \/ SetupAttached
  BY <1>6 DEF SetupVars, SetupBridge, SetupAdd, SetupConfig, SetupCreate, SetupAttach,
       SetupAttachFails, SetupAttached
<1>7. ASSUME NEW e \in CallerEvents, CallerEnded(e) PROVE MediaKnown'
  <2>1. (entries' = 0 => entries = 0) /\ (settled' => settled)
    BY <1>7, BeginCleanupOnce DEF CallerEnded, IInv
  <2>2. "MediaStart" \in inbox' <=> "MediaStart" \in inbox
    BY <1>7 DEF CallerEnded, CallerEvents
  <2> QED
    BY <1>7, <2>1, <2>2 DEF CallerEnded
<1>8. CASE MediaEnded
  <2>1. (entries' = 0 => entries = 0) /\ (settled' => settled)
    BY <1>8, BeginCleanupOnce DEF MediaEnded, IInv
  <2> QED
    BY <1>8, <2>1 DEF MediaEnded
<1>9. CASE MediaStarted
  BY <1>9 DEF MediaStarted, Attend
<1>10. CASE MediaRetries
  BY <1>10 DEF MediaRetries, Attend
<1>11. CASE MediaAdds
  BY <1>11 DEF MediaAdds
<1>12. CASE MediaAdded
  BY <1>12 DEF MediaAdded, SessionType
<1>13. CASE Starting \/ AudioKickoff
  BY <1>13 DEF Starting, AudioKickoff, StarterBegins, StarterConnects, StarterStarted, StarterFails,
       SessionType
<1>14. CASE TransferAsked \/ TransferFlag \/ TransferContinue
  BY <1>14 DEF TransferAsked, TransferFlag, TransferContinue, SessionType
<1>15. CASE CleanupMedia
  BY <1>15 DEF CleanupMedia
<1>16. CASE CleanupCaller
  <2>1. "MediaStart" \in inbox' <=> "MediaStart" \in inbox
    BY <1>16 DEF CleanupCaller, CallerEvents
  <2> QED
    BY <1>16, <2>1 DEF CleanupCaller
<1>17. CASE CleanupProvider \/ CleanupStopped \/ CleanupBridge \/ CleanupRelease \/ CleanupRemove
  BY <1>17 DEF CleanupProvider, CleanupStopped, CleanupBridge, CleanupRelease, CleanupRemove
<1> QED
  BY <1>1, <1>2, <1>3, <1>4, <1>5, <1>6, <1>7, <1>8, <1>9, <1>10, <1>11, <1>12, <1>13, <1>14, <1>15,
     <1>16, <1>17 DEF Next, Setup, Handlers, Cleanup

-----------------------------------------------------------------------------
(* The cleanup of a call that had finished setting up.                      *)

LEMMA CleanedInOrderKeeps ==
    ASSUME IInv, Next
    PROVE  CleanedInOrder'
<1>0. TypeOK /\ OneCleanup /\ SingleFlight /\ ProviderOwned /\ MediaKnown /\ CleanedInOrder
  BY DEF IInv
<1>1. SUFFICES ASSUME entries' = 1, visits' = 1, settled'
               PROVE  CleanedInOrder'
  BY DEF CleanedInOrder
<1> USE DEF clean
<1>2. visits \in Nat /\ ~CallerReturns /\ visits = 1
  <2>1. visits \in Nat /\ visits >= 1
    BY <1>0, LifecycleAssumption DEF TypeOK
  <2>2. ~CallerReturns
    <3>1. CallerReturns => visits' = visits + 1
      BY DEF CallerReturns
    <3> QED
      BY <1>1, <2>1, <3>1
  <2>3. visits' = visits
    BY <2>2 DEF Next, CallerHangsUp, MediaLost, Setup, SetupVars, SetupBridge, SetupAdd, SetupFails,
         SetupStored, SetupConfig, SetupCreate, SetupCreateFails, SetupCreated, SetupAttach,
         SetupAttachFails, SetupAttached, Handlers, CallerEnded, MediaEnded, MediaStarted,
         MediaRetries, MediaAdds, MediaAdded, Starting, StarterBegins, StarterConnects,
         StarterStarted, StarterFails, AudioKickoff, TransferAsked, TransferFlag, TransferContinue,
         Cleanup, CleanupProvider, CleanupStopped, CleanupBridge, CleanupMedia, CleanupCaller,
         CleanupRelease, CleanupRemove
  <2> QED
    BY <1>1, <2>1, <2>2, <2>3
<1>3. entries = 0 \/ entries = 1
  BY <1>0 DEF OneCleanup
(* An event begins the cleanup: the call had finished setting up just then. *)
<1>4. CASE entries = 0
  <2>0. ASSUME NEW found, BeginCleanup(found)
        PROVE  SettledNow /\ cleanup' = "streaming"
    <3> HIDE DEF SettledNow
    <3>1. entries' # entries
      BY <1>1, <1>4
    <3> QED
      BY <1>1, <2>0, <3>1 DEF BeginCleanup
  <2>1. (MediaEnded \/ \E e \in CallerEvents : CallerEnded(e))
        /\ \E found : BeginCleanup(found) /\ entries' # entries
    <3>1. ~SetupFails /\ ~SetupCreateFails
      \* setup is not over, so the end is not settled
      BY <1>1, <1>4, <2>0 DEF SetupFails, SetupCreateFails, SettledNow
    <3>2. entries' # entries
      BY <1>1, <1>4
    <3> QED
      BY <1>2, <3>1, <3>2 DEF Next, CallerHangsUp, MediaLost, Setup, SetupVars, SetupBridge,
         SetupAdd, SetupStored, SetupConfig, SetupCreate, SetupCreated, SetupAttach,
         SetupAttachFails, SetupAttached, Handlers, CallerEnded, MediaEnded, MediaStarted,
         MediaRetries, MediaAdds, MediaAdded, Starting, StarterBegins, StarterConnects,
         StarterStarted, StarterFails, AudioKickoff, TransferAsked, TransferFlag, TransferContinue,
         Cleanup, CleanupProvider, CleanupStopped, CleanupBridge, CleanupMedia, CleanupCaller,
         CleanupRelease, CleanupRemove
  <2>2. SettledNow /\ cleanup' = "streaming"
    BY <2>0, <2>1
  <2>3. SettledNow'
    BY <2>1, <2>2 DEF MediaEnded, CallerEnded, SettledNow, MediaUp, ari, maker, prov
  <2>4. task = 0 /\ live \subseteq {provider}
    BY <1>0, <1>4, <2>2 DEF SettledNow, SingleFlight, ProviderOwned, TypeOK, ProvType
  <2>5. UNCHANGED prov
    BY <2>1 DEF MediaEnded, CallerEnded
  <2> QED
    BY <2>2, <2>3, <2>4, <2>5
       DEF CleanedInOrder, Stopped, Bridge, Media, Caller, Release, Remove, prov
(* It goes on or is over: only the events still to come, a transfer that is  *)
(* under way and the cleanup itself are left.                                *)
<1>5. CASE entries = 1
  <2>0. settled
    BY <1>0, <1>1, <1>5 DEF Next, CallerHangsUp, MediaLost, CallerReturns, Setup, SetupVars,
         SetupBridge, SetupAdd, SetupFails,
         SetupStored, SetupConfig, SetupCreate, SetupCreateFails, SetupCreated, SetupAttach,
         SetupAttachFails, SetupAttached, Handlers, CallerEnded, MediaEnded, MediaStarted,
         MediaRetries, MediaAdds, MediaAdded, Starting, StarterBegins, StarterConnects,
         StarterStarted, StarterFails, AudioKickoff, TransferAsked, TransferFlag, TransferContinue,
         Cleanup, CleanupProvider, CleanupStopped, CleanupBridge, CleanupMedia, CleanupCaller,
         CleanupRelease, CleanupRemove, BeginCleanup
  <2>1. SettledNow /\ task = 0 /\ completed
    BY <1>0, <1>2, <1>5, <2>0 DEF CleanedInOrder, OneCleanup
  <2>2. ~Setup /\ ~Starting /\ ~AudioKickoff /\ ~MediaStarted /\ ~MediaRetries /\ ~MediaAdds
        /\ ~MediaAdded
    BY <2>1 DEF SettledNow, MediaUp, Setup, SetupVars, SetupBridge, SetupAdd, SetupFails,
         SetupStored, SetupConfig, SetupCreate, SetupCreateFails, SetupCreated, SetupAttach,
         SetupAttachFails, SetupAttached, MediaStarted, MediaRetries, MediaAdds, MediaAdded,
         Starting, StarterBegins, StarterConnects, StarterStarted, StarterFails, AudioKickoff
  <2> USE <1>5, <1>2, <2>0, <2>1 DEF CleanedInOrder, SettledNow, MediaUp, ari, maker, prov,
         Stopped, Bridge, Media, Caller, Release, Remove
  <2>3. CASE CallerHangsUp \/ MediaLost
    <3>1. "MediaStart" \in inbox' <=> "MediaStart" \in inbox
      BY <2>3 DEF CallerHangsUp, MediaLost, CallerEvents
    <3> QED
      BY <1>0, <2>3, <3>1 DEF CallerHangsUp, MediaLost
  <2>4. ASSUME NEW e \in CallerEvents, CallerEnded(e) PROVE CleanedInOrder'
    BY <1>0, <2>4 DEF CallerEnded, BeginCleanup, CallerEvents
  <2>5. CASE MediaEnded
    BY <1>0, <2>5 DEF MediaEnded, BeginCleanup
  <2>6. CASE TransferAsked \/ TransferFlag
    <3>1. sess'.active = sess.active /\ sess'.media = sess.media
          /\ (sess.transfer => sess'.transfer)
      <4>1. sess' = sess \/ sess' = [sess EXCEPT !.transfer = TRUE]
        BY <2>6 DEF TransferAsked, TransferFlag
      <4> QED
        BY <1>0, <4>1 DEF TypeOK, SessionType
    <3> QED
      BY <1>0, <2>6, <3>1 DEF TransferAsked, TransferFlag
  <2>14. CASE TransferContinue
    <3>1. "MediaStart" \in inbox' <=> "MediaStart" \in inbox
      BY <2>14 DEF TransferContinue
    <3> QED
      BY <1>0, <2>14, <3>1 DEF TransferContinue
  <2>7. CASE CleanupProvider
    BY <1>0, <2>7 DEF CleanupProvider
  <2>8. CASE CleanupStopped
    BY <1>0, <2>8 DEF CleanupStopped
  <2>9. CASE CleanupBridge
    BY <1>0, <2>9 DEF CleanupBridge
  <2>10. CASE CleanupMedia
    \* the session knows the media channel, so the request is made
    <3>1. MediaUp => sess.media
      BY <1>0 DEF MediaKnown, External, Early
    <3> QED
      BY <1>0, <2>10, <3>1 DEF CleanupMedia
  <2>11. CASE CleanupCaller
    \* the caller is left alone only when the session says that it was transferred
    <3>1. keep => sess.transfer
      BY <2>11 DEF CleanupCaller, IInv, TransferKnown
    <3> QED
      BY <1>0, <2>11, <3>1 DEF CleanupCaller, CallerEvents
  <2>12. CASE CleanupRelease
    <3>1. "uuid" \in maps => sess.uuid
      BY <1>0 DEF MediaKnown
    <3>2. maps' \subseteq IF sess.media THEN {} ELSE {"pending"}
      BY <1>0, <2>12, <3>1 DEF CleanupRelease, TypeOK
    <3> QED
      BY <1>0, <2>12, <3>2 DEF CleanupRelease
  <2>13. CASE CleanupRemove
    BY <1>0, <2>13 DEF CleanupRemove
  <2> QED
    BY <1>2, <2>2, <2>3, <2>4, <2>5, <2>6, <2>7, <2>8, <2>9, <2>10, <2>11, <2>12, <2>13,
       <2>14
       DEF Next, Handlers, Cleanup
<1> QED
  BY <1>3, <1>4, <1>5

-----------------------------------------------------------------------------
(* The theorems.                                                            *)

LEMMA InitIInv ==
    Init => IInv
<1> SUFFICES ASSUME Init PROVE IInv
  OBVIOUS
<1> USE LifecycleAssumption DEF Init
<1>1. TypeOK
  <2>1. 1 \in 1 .. MaxVisits /\ 0 \in 0 .. AttachTries /\ AttachTries # 0
    OBVIOUS
  <2> QED
    BY <2>1 DEF TypeOK, AriType, MakerType, ProvType, CleanType, SessionType, NewSession
<1>2. OneCleanup /\ EarlyAlone /\ TransferKnown
  BY DEF OneCleanup, EarlyAlone, Early, TransferKnown
<1>3. SingleFlight /\ ProviderOwned
  BY DEF SingleFlight, ProviderOwned, Late
<1>4. MediaKnown /\ CleanedInOrder
  BY DEF MediaKnown, MediaUp, CleanedInOrder
<1> QED
  BY <1>1, <1>2, <1>3, <1>4 DEF IInv

LEMMA StutterIInv ==
    ASSUME IInv, UNCHANGED vars
    PROVE  IInv'
<1> USE DEF IInv, vars, ari, maker, prov, clean
<1>1. TypeOK'
  BY DEF TypeOK, AriType, MakerType, ProvType, CleanType, SessionType
<1>2. OneCleanup' /\ EarlyAlone' /\ TransferKnown'
  BY DEF OneCleanup, EarlyAlone, TransferKnown
<1>3. SingleFlight' /\ ProviderOwned'
  BY DEF SingleFlight, ProviderOwned
<1>4. MediaKnown'
  BY DEF MediaKnown, External, MediaUp
<1>5. CleanedInOrder'
  BY DEF CleanedInOrder, SettledNow, MediaUp
<1> QED
  BY <1>1, <1>2, <1>3, <1>4, <1>5

(* The inductive invariant holds of every execution. *)
THEOREM Safety == Spec => []IInv
<1>1. Init => IInv
  BY InitIInv
<1>2. IInv /\ [Next]_vars => IInv'
  <2> SUFFICES ASSUME IInv, [Next]_vars PROVE IInv'
    OBVIOUS
  <2>1. CASE Next
    <3>1. TypeOK /\ OneCleanup /\ SingleFlight
      BY DEF IInv
    <3> QED
      BY <2>1, <3>1, TypeKeeps, OneCleanupKeeps, EarlyAloneKeeps, TransferKnownKeeps, SingleFlightKeeps,
         ProviderOwnedKeeps, MediaKnownKeeps, CleanedInOrderKeeps DEF IInv
  <2>2. CASE UNCHANGED vars
    BY <2>2, StutterIInv
  <2> QED
    BY <2>1, <2>2
<1> QED
  BY <1>1, <1>2, PTL DEF Spec

(* Every variable keeps its type, in particular the attach loop makes no     *)
(* more attempts than it may.                                                *)
THEOREM TypeCorrect == Spec => []TypeOK
<1>1. IInv => TypeOK
  BY DEF IInv
<1> QED
  BY <1>1, Safety, PTL

(* _cleanup_call runs at most once for each time the call entered Stasis. *)
THEOREM CleansOnce == Spec => []CleanedOnce
<1>1. IInv => CleanedOnce
  BY LifecycleAssumption DEF IInv, TypeOK, OneCleanup, CleanedOnce
<1> QED
  BY <1>1, Safety, PTL

(* While a call goes on, the only open provider session is the registered    *)
(* one, whichever of setup, media handler and audio frames started it.       *)
THEOREM OneProvider == Spec => []SingleProvider
<1>1. IInv => SingleProvider
  <2> SUFFICES ASSUME IInv, entries = 0
               PROVE  live \subseteq {provider} /\ Cardinality(live) <= 1
    BY DEF SingleProvider
  <2>1. live = {} \/ live = {provider}
    BY DEF IInv, ProviderOwned
  <2>2. Cardinality({}) = 0 /\ Cardinality({provider}) = 1
    BY FS_EmptySet, FS_Singleton
  <2> QED
    BY <2>1, <2>2
<1> QED
  BY <1>1, Safety, PTL

(* When the cleanup of a call that had finished setting up is over, all that *)
(* the call held is released, or Asterisk refused to release it.             *)
THEOREM LeavesNothing == Spec => []NothingLeftBehind
<1>1. IInv => NothingLeftBehind
  <2> SUFFICES ASSUME IInv, entries = visits, cleanup = "none", settled
               PROVE  NothingLeftBehind
    BY DEF NothingLeftBehind
  <2>1. entries = 1 /\ visits = 1
    BY LifecycleAssumption DEF IInv, TypeOK, OneCleanup
  <2> QED
    BY <2>1 DEF IInv, CleanedInOrder, NothingLeftBehind, Stopped, Bridge, Media, Caller, Release, Remove
<1> QED
  BY <1>1, Safety, PTL

(* Only the caller, or a cleanup that began before the transfer, takes a     *)
(* transferred caller down.                                                  *)
THEOREM TransfersSurvive == Spec => TransferSurvivesCleanup
<1>1. IInv /\ [Next]_vars =>
          [chan = "dialplan" /\ chan' = "gone" /\ cleanup' # cleanup => enteredIn # "dialplan"]_vars
  <2> SUFFICES ASSUME IInv, Next, chan = "dialplan", chan' = "gone", cleanup' # cleanup
               PROVE  enteredIn # "dialplan"
    OBVIOUS
  <2>1. CleanupCaller
    BY DEF Next, CallerHangsUp, MediaLost, CallerReturns, Setup, SetupVars, SetupBridge, SetupAdd,
         SetupFails, SetupStored, SetupConfig, SetupCreate, SetupCreateFails, SetupCreated, SetupAttach,
         SetupAttachFails, SetupAttached, Handlers, CallerEnded, MediaEnded, MediaStarted,
         MediaRetries, MediaAdds, MediaAdded, Starting, StarterBegins, StarterConnects,
         StarterStarted, StarterFails, AudioKickoff, TransferAsked, TransferFlag, TransferContinue,
         Cleanup, CleanupProvider, CleanupStopped, CleanupBridge, CleanupMedia, CleanupRelease,
         CleanupRemove, ari, clean
  <2> QED
    BY <2>1 DEF CleanupCaller, IInv, TransferKnown
<1> QED
  BY <1>1, Safety, PTL DEF Spec, TransferSurvivesCleanup

-----------------------------------------------------------------------------
(* A caller who is gone is noticed.                                         *)

(* Before the cleanup: the end of the caller is still to be handled, or a   *)
(* handler found that there was nothing to end and nothing to come.         *)
EndNoted ==
    visits = 1 /\ entries = 0 /\ chan = "gone" /\ settled =>
        inbox \cap CallerEvents # {} \/ (~stored /\ SettledNow)

LEMMA EndNotedKeeps ==
    ASSUME IInv, EndNoted, Next
    PROVE  EndNoted'
<1>0. TypeOK /\ OneCleanup /\ SessionType /\ AriType
  BY DEF IInv, TypeOK
<1> SUFFICES ASSUME visits' = 1, entries' = 0, chan' = "gone", settled'
             PROVE  inbox' \cap CallerEvents # {} \/ (~stored' /\ SettledNow')
  BY DEF EndNoted
<1>1. entries = 0 /\ cleanup = "none" /\ ~completed /\ ~Cleanup
  <2>1. entries = 0
    BY <1>0 DEF OneCleanup, Next, CallerHangsUp, MediaLost, CallerReturns, Setup, SetupVars,
         SetupBridge, SetupAdd, SetupFails, SetupStored, SetupConfig, SetupCreate, SetupCreateFails,
         SetupCreated, SetupAttach, SetupAttachFails, SetupAttached, Handlers, CallerEnded, MediaEnded,
         MediaStarted, MediaRetries, MediaAdds, MediaAdded, Starting, StarterBegins, StarterConnects,
         StarterStarted, StarterFails, AudioKickoff, TransferAsked, TransferFlag, TransferContinue,
         Cleanup, CleanupProvider, CleanupStopped, CleanupBridge, CleanupMedia, CleanupCaller,
         CleanupRelease, CleanupRemove, BeginCleanup, clean
  <2>2. cleanup = "none" /\ ~completed
    BY <1>0, <2>1 DEF OneCleanup
  <2>3. ~Cleanup
    BY <2>2 DEF Cleanup, CleanupProvider, CleanupStopped, CleanupBridge, CleanupMedia,
       CleanupCaller, CleanupRelease, CleanupRemove
  <2> QED
    BY <2>1, <2>2, <2>3
<1>2. CASE CallerHangsUp
  BY <1>2 DEF CallerHangsUp, CallerEvents
<1>3. CASE CallerReturns
  BY <1>3 DEF CallerReturns
<1>4. ASSUME NEW e \in CallerEvents, CallerEnded(e)
      PROVE  ~stored' /\ SettledNow'
  <2>1. ~stored
    <3>1. CASE stored
      <4>1. BeginCleanup(TRUE)
        BY <1>4, <3>1 DEF CallerEnded
      <4>2. entries' = 1
        BY <1>1, <4>1 DEF BeginCleanup
      <4> QED
        BY <4>2
    <3> QED
      BY <3>1
  <2>2. SettledNow
    BY <1>4, <2>1 DEF CallerEnded
  <2>3. "MediaStart" \in inbox' => "MediaStart" \in inbox
    BY <1>4 DEF CallerEnded
  <2> QED
    BY <1>4, <2>1, <2>2, <2>3 DEF CallerEnded, SettledNow, MediaUp, ari, maker, prov
<1>5. CASE ~CallerHangsUp /\ ~CallerReturns /\ ~\E e \in CallerEvents : CallerEnded(e)
  <2>1. visits = 1 /\ chan = "gone" /\ settled
    BY <1>0, <1>1, <1>5 DEF Next, MediaLost, Setup, SetupVars,
         SetupBridge, SetupAdd, SetupFails, SetupStored, SetupConfig, SetupCreate, SetupCreateFails,
         SetupCreated, SetupAttach, SetupAttachFails, SetupAttached, Handlers, MediaEnded,
         MediaStarted, MediaRetries, MediaAdds, MediaAdded, Starting, StarterBegins, StarterConnects,
         StarterStarted, StarterFails, AudioKickoff, TransferAsked, TransferFlag, TransferContinue,
         BeginCleanup, ari, clean
  <2>2. CASE inbox \cap CallerEvents # {}
    <3>1. inbox' \cap CallerEvents = inbox \cap CallerEvents
      BY <1>1, <1>5, <2>1 DEF Next, MediaLost, Setup, SetupVars,
           SetupBridge, SetupAdd, SetupFails, SetupStored, SetupConfig, SetupCreate, SetupCreateFails,
           SetupCreated, SetupAttach, SetupAttachFails, SetupAttached, Handlers, MediaEnded,
           MediaStarted, MediaRetries, MediaAdds, MediaAdded, Starting, StarterBegins, StarterConnects,
           StarterStarted, StarterFails, AudioKickoff, TransferAsked, TransferFlag, TransferContinue,
           CallerEvents
    <3> QED
      BY <2>2, <3>1
  (* Nothing is left that would store the session or begin to build. *)
  <2>3. CASE ~stored /\ SettledNow
    <3>1. MediaLost \/ MediaEnded \/ TransferAsked \/ TransferFlag \/ TransferContinue
      BY <1>1, <1>5, <2>3 DEF SettledNow, Next, Setup, SetupVars,
           SetupBridge, SetupAdd, SetupFails, SetupStored, SetupConfig, SetupCreate, SetupCreateFails,
           SetupCreated, SetupAttach, SetupAttachFails, SetupAttached, Handlers,
           MediaStarted, MediaRetries, MediaAdds, MediaAdded, Starting, StarterBegins, StarterConnects,
           StarterStarted, StarterFails, AudioKickoff
    <3>2. /\ ~stored' /\ sess' = sess /\ ("MediaStart" \in inbox' => "MediaStart" \in inbox)
          /\ UNCHANGED <<setup, mediah, starter>> /\ (media' = media \/ media' = "gone")
      BY <2>1, <2>3, <3>1 DEF MediaLost, MediaEnded, TransferAsked, TransferFlag, TransferContinue,
         ari, maker, prov
    <3> QED
      BY <2>3, <3>2 DEF SettledNow, MediaUp
  <2> QED
    BY <1>1, <2>1, <2>2, <2>3 DEF EndNoted
<1> QED
  BY <1>2, <1>3, <1>4, <1>5

(* A caller who is gone is forgotten: when no event is left to handle and   *)
(* nothing runs, the session is not stored any more, whichever of the end   *)
(* events were dropped because they came too early or too late.             *)
THEOREM QuietForgets == Spec => []QuietMeansForgotten
<1>1. Init => EndNoted
  BY DEF Init, EndNoted
<1>2. IInv /\ EndNoted /\ [Next]_vars => EndNoted'
  <2>1. ASSUME EndNoted, UNCHANGED vars
        PROVE  EndNoted'
    BY <2>1 DEF EndNoted, SettledNow, MediaUp, vars, ari, maker, prov, clean
  <2> QED
    BY <2>1, EndNotedKeeps
<1>3. IInv /\ EndNoted => QuietMeansForgotten
  <2> SUFFICES ASSUME IInv, EndNoted, visits = 1, chan = "gone", inbox = {}, cleanup = "none", settled
               PROVE  ~stored
    BY DEF QuietMeansForgotten
  <2>1. CASE entries = 0
    BY <2>1 DEF EndNoted
  <2>2. CASE entries = 1
    BY <2>2 DEF IInv, CleanedInOrder, Remove
  <2> QED
    BY <2>1, <2>2 DEF IInv, OneCleanup
<1> QED
  BY <1>1, <1>2, <1>3, Safety, PTL DEF Spec
=============================================================================
