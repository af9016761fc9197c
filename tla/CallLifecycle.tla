--------------------------- MODULE CallLifecycle ---------------------------
(***************************************************************************)
(* One call of the engine from StasisStart to the removal of its session:  *)
(* the caller's setup handler, the media channel's handler, the start of   *)
(* the per-call provider, transfers to the dialplan and _cleanup_call.     *)
(* They are asyncio tasks; each action is what runs between two awaits     *)
(* that really suspend.  Calls share nothing but dictionaries keyed by the *)
(* call, so one call is enough.                                            *)
(***************************************************************************)
EXTENDS Naturals, FiniteSets

CONSTANTS Transports,   \* config.audio_transport, drawn in Init
          Starters,     \* identities of start tasks and provider instances
          AttachTries,  \* attempts of the direct attach (25 in the code)
          MaxVisits     \* bound: times the same channel enters Stasis

ASSUME LifecycleAssumption ==
    /\ Transports \subseteq {"externalmedia", "audiosocket"}
    /\ 0 \notin Starters
    /\ AttachTries \in Nat \ {0}
    /\ MaxVisits \in Nat \ {0}

VARIABLES
    transport,  \* the configured media transport
    chan,       \* the caller's channel: "stasis", "dialplan" or "gone"
    bridge,     \* the mixing bridge: "none", "up" or "gone"
    media,      \* ExternalMedia or AudioSocket channel: "none", "stasis", "bridged", "gone"
    inbox,      \* ARI events not yet handled
    stored,     \* the session is in the SessionStore
    sess,       \* the CallSession object, shared by all who hold it
    rtp,        \* an RTP session and its port are allocated to the call
    maps,       \* pending_audiosocket_channels and uuidext_to_channel entries
    setup,      \* where _handle_caller_stasis_start_hybrid is
    tries,      \* attempts of its attach loop
    mediah,     \* where the media channel's StasisStart handler is
    task,       \* _provider_start_tasks[call]: a starter or 0
    starter,    \* where each _start_provider_session is
    provider,   \* _call_providers[call]: a starter's instance or 0
    live,       \* provider instances whose session is open
    xfer,       \* the transfer tool: "none", "asked" for or "flagged"
    cleanup,    \* the step _cleanup_call is at, "none" when it is not running
    stopping,   \* the provider instance the cleanup is stopping
    keep,       \* transfer_active as the cleanup read it
    completed,  \* _cleanup_completed_at[call] is set (its TTL exceeds any event)
    entries,    \* history: cleanups that passed the guards
    enteredIn,  \* history: chan when the last cleanup began
    settled,    \* history: nothing was half-way when the call began to end
    refused,    \* history: cleanup requests Asterisk did not carry out
    visits      \* times the channel entered Stasis

ari   == <<chan, bridge, media>>
maker == <<setup, tries, mediah>>
prov  == <<task, starter, provider, live>>
clean == <<cleanup, stopping, keep, completed, entries, enteredIn, settled, refused>>
vars  == <<transport, ari, inbox, stored, sess, rtp, maps, maker, prov, xfer, clean, visits>>

NewSession == [media |-> FALSE, uuid |-> FALSE, active |-> FALSE, transfer |-> FALSE]

External == transport = "externalmedia"
MediaUp  == media \in {"stasis", "bridged"}
CallerEvents == {"CallerEnd", "CallerDestroyed"}

\* Nothing of the call's construction is under way, and no audio frame can
\* start a provider any more.
SettledNow ==
    /\ setup = "done" /\ mediah = "idle" /\ "MediaStart" \notin inbox
    /\ \A s \in Starters : starter[s] = "none"
    /\ sess.active \/ ~MediaUp

Init ==
    /\ transport \in Transports
    /\ chan = "stasis" /\ bridge = "none" /\ media = "none" /\ inbox = {}
    /\ stored = FALSE /\ sess = NewSession /\ rtp = FALSE /\ maps = {}
    /\ setup = "vars" /\ tries = 0 /\ mediah = "idle"
    /\ task = 0 /\ starter = [s \in Starters |-> "none"] /\ provider = 0 /\ live = {}
    /\ xfer = "none"
    /\ cleanup = "none" /\ stopping = 0 /\ keep = FALSE /\ completed = FALSE
    /\ entries = 0 /\ enteredIn = "none" /\ settled = TRUE /\ refused = {}
    /\ visits = 1

-----------------------------------------------------------------------------
(* What the caller and Asterisk do by themselves.                          *)

CallerHangsUp ==
    /\ chan # "gone"
    /\ chan' = "gone"
    /\ inbox' = inbox \cup (IF chan = "stasis" THEN CallerEvents ELSE {"CallerDestroyed"})
    /\ UNCHANGED <<transport, bridge, media, stored, sess, rtp, maps, maker, prov, xfer, clean, visits>>

MediaLost ==
    /\ MediaUp
    /\ media' = "gone"
    /\ inbox' = inbox \cup {"MediaEnd"}
    /\ UNCHANGED <<transport, chan, bridge, stored, sess, rtp, maps, maker, prov, xfer, clean, visits>>

\* The dialplan (a queue that times out) sends the caller back to the
\* application on the same channel, hence under the same call id.
CallerReturns ==
    /\ chan = "dialplan" /\ visits < MaxVisits
    /\ inbox = {} /\ cleanup = "none" /\ SettledNow /\ ~stored /\ ~MediaUp
    /\ chan' = "stasis" /\ visits' = visits + 1
    /\ setup' = "vars" /\ tries' = 0 /\ bridge' = "none" /\ media' = "none"
    /\ UNCHANGED <<transport, inbox, stored, sess, rtp, maps, mediah, prov, xfer, clean>>

-----------------------------------------------------------------------------
(* _cleanup_call.                                                          *)

\* Only the in-progress guard, as before the completed one was added.
BeginCleanup_InProgressOnly(found) ==
    IF found /\ cleanup = "none"
    THEN /\ cleanup' = "streaming" /\ completed' = TRUE /\ entries' = entries + 1
         /\ enteredIn' = chan
         /\ settled' = (settled /\ SettledNow)
         /\ UNCHANGED <<stopping, keep, refused>>
    ELSE UNCHANGED clean

\* The completed mark is set before the session is looked up.
BeginCleanup_MarkFirst(found) ==
    IF found /\ ~completed /\ cleanup = "none"
    THEN /\ cleanup' = "streaming" /\ completed' = TRUE /\ entries' = entries + 1
         /\ enteredIn' = chan
         /\ settled' = (settled /\ SettledNow)
         /\ UNCHANGED <<stopping, keep, refused>>
    ELSE /\ completed' = TRUE
         /\ UNCHANGED <<cleanup, entries, enteredIn, settled, stopping, keep, refused>>

\* Up to its first await: the lookup, the completed and in-progress guards
\* and the upsert of the outcome.
BeginCleanup(found) ==
    IF found /\ ~completed /\ cleanup = "none"
    THEN /\ cleanup' = "streaming" /\ completed' = TRUE /\ entries' = entries + 1
         /\ enteredIn' = chan
         /\ settled' = (settled /\ SettledNow)
         /\ UNCHANGED <<stopping, keep, refused>>
    ELSE UNCHANGED clean

\* The popped instance is not stopped when a start was cancelled.
CleanupProvider_Unstopped ==
    /\ cleanup = "streaming"
    /\ task' = 0
    /\ starter' = IF task = 0 THEN starter ELSE [starter EXCEPT ![task] = "none"]
    /\ provider' = 0 /\ stopping' = 0
    /\ cleanup' = "provider"
    /\ UNCHANGED <<transport, ari, inbox, stored, sess, rtp, maps, maker, live, xfer,
                   keep, completed, entries, enteredIn, settled, refused, visits>>

\* Streaming and music are stopped; then the start task is cancelled (its
\* CancelledError escapes every handler) and the instance is popped.
CleanupProvider ==
    /\ cleanup = "streaming"
    /\ task' = 0
    /\ starter' = IF task = 0 THEN starter ELSE [starter EXCEPT ![task] = "none"]
    /\ provider' = 0 /\ stopping' = provider
    /\ cleanup' = "provider"
    /\ UNCHANGED <<transport, ari, inbox, stored, sess, rtp, maps, maker, live, xfer,
                   keep, completed, entries, enteredIn, settled, refused, visits>>

\* stop_session returns; transfer_active is read for the rest of the cleanup.
CleanupStopped ==
    /\ cleanup = "provider"
    /\ live' = live \ {stopping} /\ stopping' = 0
    /\ keep' = sess.transfer
    /\ cleanup' = "bridge"
    /\ UNCHANGED <<transport, ari, inbox, stored, sess, rtp, maps, maker, task, starter,
                   provider, xfer, completed, entries, enteredIn, settled, refused, visits>>

\* Destroying the bridge leaves its channels in Stasis.
CleanupBridge ==
    /\ cleanup = "bridge"
    /\ \/ /\ bridge' = "gone"
          /\ media' = IF media = "bridged" THEN "stasis" ELSE media
          /\ UNCHANGED refused
       \/ /\ refused' = refused \cup {"bridge"}
          /\ UNCHANGED <<bridge, media>>
    /\ cleanup' = "media"
    /\ UNCHANGED <<transport, chan, inbox, stored, sess, rtp, maps, maker, prov, xfer,
                   stopping, keep, completed, entries, enteredIn, settled, visits>>

\* The media channel, if the session knows it.
CleanupMedia ==
    /\ cleanup = "media"
    /\ \/ /\ sess.media /\ MediaUp
          /\ media' = "gone" /\ inbox' = inbox \cup {"MediaEnd"}
          /\ UNCHANGED refused
       \/ /\ refused' = IF sess.media /\ MediaUp THEN refused \cup {"media"} ELSE refused
          /\ UNCHANGED <<media, inbox>>
    /\ cleanup' = "caller"
    /\ UNCHANGED <<transport, chan, bridge, stored, sess, rtp, maps, maker, prov, xfer,
                   stopping, keep, completed, entries, enteredIn, settled, visits>>

\* The caller, unless the flag read earlier says that it was transferred.
CleanupCaller ==
    /\ cleanup = "caller"
    /\ \/ /\ ~keep /\ chan # "gone"
          /\ chan' = "gone"
          /\ inbox' = inbox \cup (IF chan = "stasis" THEN CallerEvents ELSE {"CallerDestroyed"})
          /\ UNCHANGED refused
       \/ /\ refused' = IF ~keep /\ chan # "gone" THEN refused \cup {"caller"} ELSE refused
          /\ UNCHANGED <<chan, inbox>>
    /\ cleanup' = "release"
    /\ UNCHANGED <<transport, bridge, media, stored, sess, rtp, maps, maker, prov, xfer,
                   stopping, keep, completed, entries, enteredIn, settled, visits>>

\* RTP session and residual mappings; then the tools, e-mails and history.
CleanupRelease ==
    /\ cleanup = "release"
    /\ rtp' = FALSE
    /\ maps' = maps \ ((IF sess.media THEN {"pending"} ELSE {}) \cup (IF sess.uuid THEN {"uuid"} ELSE {}))
    /\ cleanup' = "tools"
    /\ UNCHANGED <<transport, ari, inbox, stored, sess, maker, prov, xfer,
                   stopping, keep, completed, entries, enteredIn, settled, refused, visits>>

\* The session is saved once more after its removal.
CleanupRemove_Resaved ==
    /\ cleanup = "tools"
    /\ cleanup' = "none"
    /\ UNCHANGED <<transport, ari, inbox, stored, sess, rtp, maps, maker, prov, xfer,
                   stopping, keep, completed, entries, enteredIn, settled, refused, visits>>

\* remove_call, and the guard's time stamp again.
CleanupRemove ==
    /\ cleanup = "tools"
    /\ stored' = FALSE
    /\ cleanup' = "none"
    /\ UNCHANGED <<transport, ari, inbox, sess, rtp, maps, maker, prov, xfer,
                   stopping, keep, completed, entries, enteredIn, settled, refused, visits>>

Cleanup ==
    \/ CleanupProvider \/ CleanupStopped \/ CleanupBridge \/ CleanupMedia
    \/ CleanupCaller \/ CleanupRelease \/ CleanupRemove
-----------------------------------------------------------------------------
(* The provider's single-flight start.                                     *)

\* No single flight: whoever finds the media path ready starts a provider.
EnsureProvider_NotSingle ==
    \E s \in Starters :
        /\ starter[s] = "none" /\ s \notin live
        /\ task' = s /\ starter' = [starter EXCEPT ![s] = "new"]

EnsureProvider ==
    IF task # 0
    THEN UNCHANGED <<task, starter>>
    ELSE \E s \in Starters :
             /\ starter[s] = "none" /\ s \notin live
             /\ task' = s /\ starter' = [starter EXCEPT ![s] = "new"]

Ends(s) == /\ starter' = [starter EXCEPT ![s] = "none"]
           /\ task' = IF task = s THEN 0 ELSE task

\* _start_provider_session up to the pre-call tools.
StarterBegins(s) ==
    /\ starter[s] = "new"
    /\ IF ~stored \/ (sess.active /\ provider # 0)
       THEN Ends(s)
       ELSE starter' = [starter EXCEPT ![s] = "precall"] /\ UNCHANGED task
    /\ UNCHANGED <<transport, ari, inbox, stored, sess, rtp, maps, maker, provider, live,
                   xfer, clean, visits>>

\* The instance is registered before start_session opens its connection.  Only
\* when a tool returned results is the session read again, and its absence an error.
StarterConnects(s) ==
    /\ starter[s] = "precall"
    /\ \/ /\ starter' = [starter EXCEPT ![s] = "connecting"]
          /\ provider' = s /\ live' = live \cup {s}
          /\ UNCHANGED task
       \/ ~stored /\ Ends(s) /\ provider' = 0 /\ UNCHANGED live
    /\ UNCHANGED <<transport, ari, inbox, stored, sess, rtp, maps, maker, xfer, clean, visits>>

\* start_session returns: the session is marked active and saved.
StarterStarted(s) ==
    /\ starter[s] = "connecting"
    /\ Ends(s)
    /\ sess' = [sess EXCEPT !.active = TRUE] /\ stored' = TRUE
    /\ UNCHANGED <<transport, ari, inbox, rtp, maps, maker, provider, live, xfer, clean, visits>>

\* start_session raises: the call's instance is popped, this one is stopped.
StarterFails(s) ==
    /\ starter[s] = "connecting"
    /\ Ends(s)
    /\ provider' = 0 /\ live' = live \ {s}
    /\ UNCHANGED <<transport, ari, inbox, stored, sess, rtp, maps, maker, xfer, clean, visits>>

\* An audio frame of a call without provider starts one.
AudioKickoff ==
    /\ stored /\ media = "bridged" /\ (External => rtp)
    /\ provider = 0 /\ task = 0 /\ ~sess.active
    /\ EnsureProvider
    /\ UNCHANGED <<transport, ari, inbox, stored, sess, rtp, maps, maker, provider, live,
                   xfer, clean, visits>>

-----------------------------------------------------------------------------
(* _handle_caller_stasis_start_hybrid.  "bridge", "add", "create" and       *)
(* "attach": a request on its way to Asterisk; "added", "created",          *)
(* "attached": its answer on the way back.                                  *)

\* AAVA_OUTBOUND is read; a call that has a session is left alone.
SetupVars ==
    /\ setup = "vars"
    /\ setup' = IF stored THEN "done" ELSE "bridge"
    /\ UNCHANGED <<transport, ari, inbox, stored, sess, rtp, maps, tries, mediah, prov,
                   xfer, clean, visits>>

SetupBridge ==
    /\ setup = "bridge"
    /\ bridge' = "up" /\ setup' = "add"
    /\ UNCHANGED <<transport, chan, media, inbox, stored, sess, rtp, maps, tries, mediah,
                   prov, xfer, clean, visits>>

SetupAdd ==
    /\ setup = "add" /\ chan = "stasis"
    /\ setup' = "added"
    /\ UNCHANGED <<transport, ari, inbox, stored, sess, rtp, maps, tries, mediah, prov,
                   xfer, clean, visits>>

\* A refused bridge, or a caller that cannot be added: the exception handler
\* cleans up a call that has no session yet.
SetupFails ==
    /\ setup \in {"bridge", "add"}
    /\ setup' = "done"
    /\ BeginCleanup(stored)
    /\ UNCHANGED <<transport, ari, inbox, stored, sess, rtp, maps, tries, mediah, prov,
                   xfer, visits>>

SetupStored ==
    /\ setup = "added"
    /\ stored' = TRUE /\ sess' = NewSession
    /\ setup' = "config"
    /\ UNCHANGED <<transport, ari, inbox, rtp, maps, tries, mediah, prov, xfer, clean, visits>>

\* Variables, profile, codec and provider are read, each read followed by a
\* save; the RTP port is allocated just before the media channel is requested.
SetupConfig ==
    /\ setup = "config"
    /\ stored' = TRUE
    /\ rtp' = IF External THEN TRUE ELSE rtp
    /\ setup' = "create"
    /\ UNCHANGED <<transport, ari, inbox, sess, maps, tries, mediah, prov, xfer, clean, visits>>

SetupCreate ==
    /\ setup = "create"
    /\ media' = "stasis" /\ inbox' = inbox \cup {"MediaStart"}
    /\ setup' = "created"
    /\ UNCHANGED <<transport, chan, bridge, stored, sess, rtp, maps, tries, mediah, prov,
                   xfer, clean, visits>>

\* ExternalMedia: the port is given back and the failure is only logged.
\* AudioSocket: the exception reaches the handler, which cleans up.
SetupCreateFails ==
    /\ setup = "create"
    /\ setup' = "done"
    /\ rtp' = IF External THEN FALSE ELSE rtp
    /\ IF External THEN UNCHANGED clean ELSE BeginCleanup(stored)
    /\ UNCHANGED <<transport, ari, inbox, stored, sess, maps, tries, mediah, prov, xfer, visits>>

SetupCreated ==
    /\ setup = "created"
    /\ IF External
       THEN /\ sess' = [sess EXCEPT !.media = TRUE] /\ stored' = TRUE
            /\ setup' = "attach" /\ UNCHANGED maps
       ELSE /\ maps' = {"pending", "uuid"}
            /\ sess' = IF stored THEN [sess EXCEPT !.uuid = TRUE] ELSE sess
            /\ setup' = "done" /\ UNCHANGED stored
    /\ UNCHANGED <<transport, ari, inbox, rtp, tries, mediah, prov, xfer, clean, visits>>

SetupAttach ==
    /\ setup = "attach" /\ bridge = "up" /\ MediaUp
    /\ media' = "bridged" /\ setup' = "attached"
    /\ UNCHANGED <<transport, chan, bridge, inbox, stored, sess, rtp, maps, tries, mediah,
                   prov, xfer, clean, visits>>

\* The attach loop goes one attempt too far.
SetupAttachFails_OffByOne ==
    /\ setup = "attach"
    /\ tries' = tries + 1
    /\ setup' = IF tries' > AttachTries THEN "done" ELSE "attach"
    /\ UNCHANGED <<transport, ari, inbox, stored, sess, rtp, maps, mediah, prov, xfer, clean, visits>>

SetupAttachFails ==
    /\ setup = "attach"
    /\ tries' = tries + 1
    /\ setup' = IF tries' = AttachTries THEN "done" ELSE "attach"
    /\ UNCHANGED <<transport, ari, inbox, stored, sess, rtp, maps, mediah, prov, xfer, clean, visits>>

SetupAttached ==
    /\ setup = "attached"
    /\ stored' = TRUE
    /\ setup' = "done"
    /\ IF sess.active THEN UNCHANGED <<task, starter>> ELSE EnsureProvider
    /\ UNCHANGED <<transport, ari, inbox, sess, rtp, maps, tries, mediah, provider, live,
                   xfer, clean, visits>>

Setup ==
    \/ SetupVars \/ SetupBridge \/ SetupAdd \/ SetupFails \/ SetupStored \/ SetupConfig
    \/ SetupCreate \/ SetupCreateFails \/ SetupCreated
    \/ SetupAttach \/ SetupAttachFails \/ SetupAttached
-----------------------------------------------------------------------------
(* The media channel's StasisStart.                                        *)

\* The call the channel belongs to: by the session's channel id, or by the
\* AudioSocket mappings.
Known == IF External THEN stored /\ sess.media ELSE maps # {}

\* What follows the lookup.  An AudioSocket channel whose session is gone is
\* hung up.
Attend ==
    /\ maps' = maps \ {"pending"}
    /\ IF External \/ stored
       THEN mediah' = "adding" /\ UNCHANGED media
       ELSE mediah' = "idle" /\ media' = "gone"

MediaStarted ==
    /\ "MediaStart" \in inbox
    /\ inbox' = inbox \ {"MediaStart"}
    /\ IF Known THEN Attend ELSE mediah' = "retry" /\ UNCHANGED <<maps, media>>
    /\ UNCHANGED <<transport, chan, bridge, stored, sess, rtp, setup, tries, prov, xfer, clean, visits>>

\* 25 attempts of 0.1 s for ExternalMedia, 5 of 0.05 s for AudioSocket.
MediaRetries ==
    /\ mediah = "retry"
    /\ \/ Known /\ Attend
       \/ /\ ~Known
          /\ mediah' = "idle"
          /\ media' = IF External THEN media ELSE "gone"
          /\ UNCHANGED maps
    /\ UNCHANGED <<transport, chan, bridge, inbox, stored, sess, rtp, setup, tries, prov, xfer, clean, visits>>

MediaAdds ==
    /\ mediah = "adding"
    /\ \/ /\ bridge = "up" /\ MediaUp
          /\ media' = "bridged" /\ mediah' = "added"
       \/ /\ External /\ mediah' \in {"idle", "retry"} /\ UNCHANGED media
       \/ /\ ~External /\ mediah' = "idle" /\ media' = "gone"
    /\ UNCHANGED <<transport, chan, bridge, inbox, stored, sess, rtp, maps, setup, tries, prov, xfer, clean, visits>>

MediaAdded ==
    /\ mediah = "added"
    /\ sess' = [sess EXCEPT !.media = TRUE] /\ stored' = TRUE
    /\ mediah' = "idle"
    /\ IF sess.active THEN UNCHANGED <<task, starter>> ELSE EnsureProvider
    /\ UNCHANGED <<transport, ari, inbox, rtp, maps, setup, tries, provider, live, xfer, clean, visits>>

-----------------------------------------------------------------------------
(* Transfers to the dialplan: the flag is saved before the continue request. *)

TransferAsked ==
    /\ provider # 0 /\ sess.active /\ xfer = "none" /\ ~sess.transfer
    /\ xfer' = "asked"
    /\ UNCHANGED <<transport, ari, inbox, stored, sess, rtp, maps, maker, prov, clean, visits>>

\* The flag is not saved before the continue request.
TransferFlag_Unsaved ==
    /\ xfer = "asked"
    /\ xfer' = IF stored THEN "flagged" ELSE "none"
    /\ UNCHANGED <<transport, ari, inbox, stored, sess, rtp, maps, maker, prov, clean, visits>>

\* update_session raises when the session is gone, which ends the tool.
TransferFlag ==
    /\ xfer = "asked"
    /\ xfer' = IF stored THEN "flagged" ELSE "none"
    /\ sess' = IF stored THEN [sess EXCEPT !.transfer = TRUE] ELSE sess
    /\ UNCHANGED <<transport, ari, inbox, stored, rtp, maps, maker, prov, clean, visits>>

TransferContinue ==
    /\ xfer = "flagged"
    /\ xfer' = "none"
    /\ \/ /\ chan = "stasis"
          /\ chan' = "dialplan" /\ inbox' = inbox \cup {"CallerEnd"}
       \/ UNCHANGED <<chan, inbox>>
    /\ UNCHANGED <<transport, bridge, media, stored, sess, rtp, maps, maker, prov, clean, visits>>

-----------------------------------------------------------------------------
(* The event handlers that end a call.                                     *)

CallerEnded(e) ==
    /\ e \in inbox
    /\ inbox' = inbox \ {e}
    /\ IF stored
       THEN BeginCleanup(TRUE)
       ELSE /\ settled' = (settled /\ SettledNow)
            /\ UNCHANGED <<cleanup, stopping, keep, completed, entries, enteredIn, refused>>
    /\ UNCHANGED <<transport, ari, stored, sess, rtp, maps, maker, prov, xfer, visits>>

MediaEnded ==
    /\ "MediaEnd" \in inbox
    /\ inbox' = inbox \ {"MediaEnd"}
    /\ BeginCleanup(stored /\ sess.media)
    /\ UNCHANGED <<transport, ari, stored, sess, rtp, maps, maker, prov, xfer, visits>>

Handlers ==
    \/ \E e \in CallerEvents : CallerEnded(e)
    \/ MediaEnded \/ MediaStarted \/ MediaRetries \/ MediaAdds \/ MediaAdded

Starting ==
    \E s \in Starters :
        StarterBegins(s) \/ StarterConnects(s) \/ StarterStarted(s) \/ StarterFails(s)

Next ==
    \/ CallerHangsUp \/ MediaLost \/ CallerReturns
    \/ Setup \/ Handlers \/ Starting \/ AudioKickoff
    \/ TransferAsked \/ TransferFlag \/ TransferContinue \/ Cleanup

\* The event loop runs every task that is ready; requests are answered.
Fairness ==
    /\ WF_vars(Setup) /\ WF_vars(Cleanup)
    /\ \A e \in CallerEvents : WF_vars(CallerEnded(e))

Spec == Init /\ [][Next]_vars /\ Fairness
-----------------------------------------------------------------------------
(* Properties.                                                             *)

AriType ==
    /\ chan \in {"stasis", "dialplan", "gone"}
    /\ bridge \in {"none", "up", "gone"}
    /\ media \in {"none", "stasis", "bridged", "gone"}

MakerType ==
    /\ setup \in {"vars", "bridge", "add", "added", "config", "create", "created",
                  "attach", "attached", "done"}
    /\ tries \in 0 .. AttachTries /\ (tries = AttachTries => setup = "done")
    /\ mediah \in {"idle", "retry", "adding", "added"}

ProvType ==
    /\ task \in Starters \cup {0} /\ provider \in Starters \cup {0}
    /\ starter \in [Starters -> {"none", "new", "precall", "connecting"}]
    /\ live \subseteq Starters

CleanType ==
    /\ cleanup \in {"none", "streaming", "provider", "bridge", "media", "caller", "release", "tools"}
    /\ stopping \in Starters \cup {0}
    /\ keep \in BOOLEAN /\ completed \in BOOLEAN /\ settled \in BOOLEAN
    /\ entries \in Nat
    /\ enteredIn \in {"none", "stasis", "dialplan", "gone"}
    /\ refused \subseteq {"bridge", "media", "caller"}

SessionType ==
    /\ stored \in BOOLEAN
    /\ sess \in [media : BOOLEAN, uuid : BOOLEAN, active : BOOLEAN, transfer : BOOLEAN]

TypeOK ==
    /\ transport \in Transports /\ visits \in 1 .. MaxVisits
    /\ inbox \subseteq CallerEvents \cup {"MediaStart", "MediaEnd"}
    /\ rtp \in BOOLEAN /\ maps \subseteq {"pending", "uuid"}
    /\ xfer \in {"none", "asked", "flagged"}
    /\ SessionType /\ AriType /\ MakerType /\ ProvType /\ CleanType

\* A call is cleaned up at most once for each time it entered Stasis, however
\* many events announce its end and whoever stores its session again
\* (engine.py:5502, "can re-upsert the session ... may cause cleanup (and email
\* sends) to run twice").
CleanedOnce == entries <= visits

\* While a call goes on, every open provider session is the one registered for
\* it: setup, the media handler, retries and audio frames never open two.
SingleProvider ==
    cleanup = "none" /\ entries = 0 => live \subseteq {provider} /\ Cardinality(live) <= 1

\* A call that had finished setting up leaves nothing behind: whichever of the
\* end events came first, whatever else ran meanwhile, every resource is
\* released or Asterisk refused to release it.
NothingLeftBehind ==
    entries = visits /\ cleanup = "none" /\ settled =>
        /\ ~stored /\ ~rtp /\ maps \subseteq (IF sess.media THEN {} ELSE {"pending"})
        /\ live = {} /\ provider = 0 /\ task = 0
        /\ bridge = "up" => "bridge" \in refused
        /\ MediaUp => "media" \in refused
        /\ chan = "stasis" => "caller" \in refused \/ sess.transfer

\* When a caller is gone and nothing is left to run, its session is forgotten:
\* an end event is never spent on a session that stays.  A caller who came back
\* is excepted: the second session is never cleaned up.
QuietMeansForgotten ==
    visits = 1 /\ chan = "gone" /\ inbox = {} /\ cleanup = "none" /\ settled /\ SettledNow => ~stored

\* The cleanup of a call that was transferred when it began never hangs up the
\* caller (unified_transfer.py:273).
TransferSurvivesCleanup ==
    [][ chan = "dialplan" /\ chan' = "gone" /\ cleanup' # cleanup => enteredIn # "dialplan" ]_vars

\* Whenever it is hung up, a call leaves no channel, port, provider session or
\* stored session behind (docs/RELEASE_CHECKLIST.md:20, "Clean hangup (no orphan
\* channels / stuck Stasis sessions)").  Violated: setup goes on after the cleanup.
CleanHangup ==
    entries > 0 /\ cleanup = "none" /\ inbox = {} /\ SettledNow /\ refused = {} =>
        ~stored /\ ~rtp /\ ~MediaUp /\ live = {}

\* A cleanup never hangs up a caller who is already in the dialplan
\* (unified_transfer.py:273, "this prevents cleanup from hanging up the caller").
\* Violated: the cleanup read the flag before the transfer set it.
TransferredCallerKept ==
    [][ chan = "dialplan" /\ chan' = "gone" => cleanup' = cleanup ]_vars

\* A settled call whose end is announced is forgotten, if it is the first one of
\* its channel.
EndedCallForgotten ==
    (visits = 1 /\ stored /\ settled /\ SettledNow /\ inbox \cap CallerEvents # {}) ~> ~stored
=============================================================================
