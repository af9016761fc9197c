---------------------------- MODULE AudioSocket ----------------------------
(***************************************************************************)
(* audiosocket_server.py and the engine's handlers of its callbacks: the   *)
(* TCP connections of the AudioSocket transport and the tables that bind   *)
(* them to calls.  Asterisk may connect before the engine has recorded the *)
(* UUID of the channel it asked for, and may connect again.  Frames are    *)
(* left out, they change no table; the call's UUID is the call itself.     *)
(***************************************************************************)
EXTENDS Naturals

CONSTANTS Calls, Conns, NoConn, NoCall

\* Assumed by the module that gives the constants their values.
SocketAssumption == NoConn \notin Conns /\ NoCall \notin Calls

VARIABLES
    serving,             \* the server has not been stopped
    origin,              \* the originate request: "none", "sent", "answered" or "failed"
    chan,                \* the AudioSocket channel: "none", "up", "added" (to the
                         \* bridge), "kept" (stored in the session) or "gone"
    stored,              \* the session is in the SessionStore
    cleanup,             \* _cleanup_call: "none", "leaving", "closing", "forgot" or "over"
    known,               \* calls whose session has audiosocket_uuid
    audiosocket_conn_id, \* the session's
    uuidext_to_channel,  \* calls whose UUID is registered
    conn,                \* "idle", "open", "looking" (for its UUID), "bound", "closing"
                         \* or "ended"
    uuid,                \* the call whose UUID the connection presents
    writers,             \* _writers
    conn_to_channel, channel_to_conn, channel_to_conns,
    primary              \* audiosocket_primary_conn

legs   == <<origin, chan, stored, cleanup, known>>
tables == <<conn_to_channel, channel_to_conn, channel_to_conns, primary>>
tcp    == <<conn, uuid, writers>>
vars   == <<serving, legs, audiosocket_conn_id, uuidext_to_channel, tcp, tables>>

Init ==
    /\ serving = TRUE
    /\ origin = [c \in Calls |-> "none"] /\ chan = [c \in Calls |-> "none"]
    /\ stored = [c \in Calls |-> TRUE] /\ cleanup = [c \in Calls |-> "none"]
    /\ known = {} /\ audiosocket_conn_id = [c \in Calls |-> NoConn]
    /\ uuidext_to_channel = {}
    /\ conn = [k \in Conns |-> "idle"] /\ uuid = [k \in Conns |-> NoCall] /\ writers = {}
    /\ conn_to_channel = [k \in Conns |-> NoCall]
    /\ channel_to_conn = [c \in Calls |-> NoConn]
    /\ channel_to_conns = [c \in Calls |-> {}] /\ primary = [c \in Calls |-> NoConn]

-----------------------------------------------------------------------------
(* The channel.                                                             *)

\* _originate_audiosocket_channel_hybrid, up to its request.
Originate(c) ==
    /\ origin[c] = "none" /\ cleanup[c] = "none"
    /\ origin' = [origin EXCEPT ![c] = "sent"]
    /\ UNCHANGED <<serving, chan, stored, cleanup, known, audiosocket_conn_id,
                   uuidext_to_channel, tcp, tables>>

\* Asterisk creates the channel before or after it answers.
ChannelUp(c) ==
    /\ origin[c] \in {"sent", "answered"} /\ chan[c] = "none"
    /\ chan' = [chan EXCEPT ![c] = "up"]
    /\ UNCHANGED <<serving, origin, stored, cleanup, known, audiosocket_conn_id,
                   uuidext_to_channel, tcp, tables>>

\* The answer: the UUID is registered, though the call may be over.
Recorded(c) ==
    /\ origin[c] = "sent"
    /\ origin' = [origin EXCEPT ![c] = "answered"]
    /\ uuidext_to_channel' = uuidext_to_channel \cup {c}
    /\ known' = IF stored[c] THEN known \cup {c} ELSE known
    /\ UNCHANGED <<serving, chan, stored, cleanup, audiosocket_conn_id, tcp, tables>>

\* No answer, or a refusal; the channel may exist all the same.
NotRecorded(c) ==
    /\ origin[c] = "sent"
    /\ origin' = [origin EXCEPT ![c] = "failed"]
    /\ UNCHANGED <<serving, chan, stored, cleanup, known, audiosocket_conn_id,
                   uuidext_to_channel, tcp, tables>>

\* StasisStart: the caller is found through the registered UUID or the pending
\* channel, and its session through the caller.
Channel(c, from, to) ==
    /\ chan[c] = from
    /\ chan' = [chan EXCEPT ![c] = to]
    /\ UNCHANGED <<serving, origin, cleanup, known, audiosocket_conn_id,
                   uuidext_to_channel, tcp, tables>>
ChannelAdded(c)   == origin[c] = "answered" /\ stored[c] /\ cleanup[c] = "none"
                     /\ Channel(c, "up", "added") /\ UNCHANGED stored
\* No caller, no session, or a bridge that is no more: the channel is hung up.
ChannelUnknown(c) == (origin[c] # "answered" \/ ~stored[c] \/ cleanup[c] # "none")
                     /\ Channel(c, "up", "gone") /\ UNCHANGED stored
\* The bridge accepted the channel: the session is stored, again if it was removed.
ChannelKept(c)    == Channel(c, "added", "kept") /\ stored' = [stored EXCEPT ![c] = TRUE]
ChannelRefused(c) == Channel(c, "added", "gone") /\ UNCHANGED stored

\* Asterisk ends the channel, for its own reasons or because its connection closed.
ChannelGone(c) ==
    /\ chan[c] \in {"up", "added", "kept"}
    /\ chan' = [chan EXCEPT ![c] = "gone"]
    /\ UNCHANGED <<serving, origin, stored, cleanup, known, audiosocket_conn_id,
                   uuidext_to_channel, tcp, tables>>

-----------------------------------------------------------------------------
(* The connections.                                                         *)

\* _handle_client.
Accept(k, c) ==
    /\ serving /\ conn[k] = "idle" /\ chan[c] \in {"up", "added", "kept"}
    /\ conn' = [conn EXCEPT ![k] = "open"] /\ uuid' = [uuid EXCEPT ![k] = c]
    /\ writers' = writers \cup {k}
    /\ UNCHANGED <<serving, legs, audiosocket_conn_id, uuidext_to_channel, tables>>

\* _audiosocket_handle_uuid: the mapping is there, at once or at a retry.
Bind(k) ==
    /\ conn[k] \in {"open", "looking"} /\ uuid[k] \in uuidext_to_channel
    /\ conn' = [conn EXCEPT ![k] = "bound"]
    /\ LET c == uuid[k] IN
         /\ conn_to_channel' = [conn_to_channel EXCEPT ![k] = c]
         /\ channel_to_conn' = [channel_to_conn EXCEPT ![c] = k]
         /\ channel_to_conns' = [channel_to_conns EXCEPT ![c] = @ \cup {k}]
         /\ primary' = [primary EXCEPT ![c] = IF @ = NoConn THEN k ELSE @]
         /\ audiosocket_conn_id' = [audiosocket_conn_id EXCEPT
                                      ![c] = IF stored[c] THEN k ELSE @]
         /\ known' = IF stored[c] THEN known \cup {c} ELSE known
    /\ UNCHANGED <<serving, origin, chan, stored, cleanup, uuidext_to_channel, uuid, writers>>

Looks(k) ==
    /\ conn[k] = "open" /\ uuid[k] \notin uuidext_to_channel
    /\ conn' = [conn EXCEPT ![k] = "looking"]
    /\ UNCHANGED <<serving, legs, audiosocket_conn_id, uuidext_to_channel, uuid, writers,
                   tables>>

\* The end of the connection loop: UUID not recognised after the retries, a bad
\* first frame, the peer closed, or disconnect closed the writer.
Ends(k) ==
    /\ \/ conn[k] \in {"open", "bound", "closing"}
       \/ conn[k] = "looking" /\ uuid[k] \notin uuidext_to_channel
    /\ conn' = [conn EXCEPT ![k] = "ended"]
    /\ writers' = writers \ {k}

\* _audiosocket_handle_disconnect forgets the connection of a call that has a
\* newer one.
Unbound_Newest(k, c) == NoConn

\* The session's connection after k ended: a newer one is left alone.
Unbound(k, c) == IF audiosocket_conn_id[c] = k THEN NoConn ELSE audiosocket_conn_id[c]

\* ... and _audiosocket_handle_disconnect.
Disconnected(k) ==
    /\ Ends(k)
    /\ conn_to_channel' = [conn_to_channel EXCEPT ![k] = NoCall]
    /\ IF conn_to_channel[k] = NoCall
       THEN UNCHANGED <<channel_to_conns, primary, audiosocket_conn_id>>
       ELSE LET c == conn_to_channel[k] IN
              LET left == channel_to_conns[c] \ {k} IN
              /\ channel_to_conns' = [channel_to_conns EXCEPT ![c] = left]
              /\ \E p \in IF primary[c] # k THEN {primary[c]}
                          ELSE IF left = {} THEN {NoConn} ELSE left :
                    primary' = [primary EXCEPT ![c] = p]
              /\ audiosocket_conn_id' = [audiosocket_conn_id EXCEPT
                                           ![c] = IF stored[c] THEN Unbound(k, c) ELSE @]
    /\ UNCHANGED <<serving, legs, uuidext_to_channel, uuid, channel_to_conn>>

\* stop: every connection loop is cancelled.
Stop ==
    /\ serving /\ serving' = FALSE
    /\ conn' = [k \in Conns |-> IF conn[k] \in {"open", "looking", "bound"}
                                THEN "closing" ELSE conn[k]]
    /\ writers' = {}
    /\ UNCHANGED <<legs, audiosocket_conn_id, uuidext_to_channel, uuid, tables>>

-----------------------------------------------------------------------------
(* The call's cleanup.                                                      *)

\* The channel of the session is hung up.
CleanupHangs(c) ==
    /\ cleanup[c] = "none"
    /\ cleanup' = [cleanup EXCEPT ![c] = "leaving"]
    /\ chan' = [chan EXCEPT ![c] = IF @ = "kept" THEN "gone" ELSE @]
    /\ UNCHANGED <<serving, origin, stored, known, audiosocket_conn_id, uuidext_to_channel,
                   tcp, tables>>

\* The UUID is forgotten together with the session's channel.
Forgotten(c) == uuidext_to_channel \ (IF c \in known THEN {c} ELSE {})

\* The cleanup leaves the connection to Asterisk.
CleanupDisconnects_Skips(c) ==
    /\ cleanup[c] = "leaving" /\ audiosocket_conn_id[c] \in writers
    /\ cleanup' = [cleanup EXCEPT ![c] = "closing"]
    /\ UNCHANGED <<serving, origin, chan, stored, known, audiosocket_conn_id,
                   uuidext_to_channel, tcp, tables>>

\* disconnect of the session's connection; the cleanup waits for it to close.
CleanupDisconnects(c) ==
    /\ cleanup[c] = "leaving" /\ audiosocket_conn_id[c] \in writers
    /\ cleanup' = [cleanup EXCEPT ![c] = "closing"]
    /\ writers' = writers \ {audiosocket_conn_id[c]}
    /\ conn' = [conn EXCEPT ![audiosocket_conn_id[c]] = "closing"]
    /\ UNCHANGED <<serving, origin, chan, stored, known, audiosocket_conn_id,
                   uuidext_to_channel, uuid, tables>>

\* The UUID is forgotten ...
CleanupForgets(c) ==
    /\ \/ cleanup[c] = "closing"
       \/ cleanup[c] = "leaving" /\ audiosocket_conn_id[c] \notin writers
    /\ cleanup' = [cleanup EXCEPT ![c] = "forgot"]
    /\ uuidext_to_channel' = Forgotten(c)
    /\ UNCHANGED <<serving, origin, chan, stored, known, audiosocket_conn_id, tcp, tables>>

\* ... and, after other waits, the session removed.
CleanupRemoves(c) ==
    /\ cleanup[c] = "forgot"
    /\ cleanup' = [cleanup EXCEPT ![c] = "over"]
    /\ stored' = [stored EXCEPT ![c] = FALSE]
    /\ UNCHANGED <<serving, origin, chan, known, audiosocket_conn_id, uuidext_to_channel,
                   tcp, tables>>

Cleanup(c) == CleanupDisconnects(c) \/ CleanupForgets(c) \/ CleanupRemoves(c)

-----------------------------------------------------------------------------

Next ==
    \/ \E c \in Calls :
         \/ Originate(c) \/ ChannelUp(c) \/ Recorded(c) \/ NotRecorded(c)
         \/ ChannelAdded(c) \/ ChannelUnknown(c) \/ ChannelKept(c) \/ ChannelRefused(c)
         \/ ChannelGone(c) \/ CleanupHangs(c) \/ Cleanup(c)
         \/ \E k \in Conns : Accept(k, c)
    \/ \E k \in Conns : Bind(k) \/ Looks(k) \/ Disconnected(k)
    \/ Stop

\* The engine's tasks go on, requests are answered, and Asterisk closes the connections
\* of a channel that ended and ends a channel whose connection was closed.
Leaving(k) ==
    /\ conn[k] \in {"looking", "closing"} \/ (uuid[k] # NoCall /\ chan[uuid[k]] = "gone")
    /\ Disconnected(k)
Cut(c) == (\E k \in Conns : uuid[k] = c /\ conn[k] = "ended") /\ ChannelGone(c)

Fairness ==
    /\ \A k \in Conns : WF_vars(Leaving(k))
    /\ \A c \in Calls : WF_vars(ChannelUnknown(c)) /\ WF_vars(Cut(c)) /\ WF_vars(Cleanup(c))

Spec == Init /\ [][Next]_vars /\ Fairness

-----------------------------------------------------------------------------
(* Properties.                                                              *)

\* The tables of the engine agree on the connections of each call, and the session's
\* connection, to which the streaming player writes, is its newest one whenever that
\* one is still bound and never one that ended, in whatever order connections come and
\* go (_audiosocket_handle_uuid, _audiosocket_handle_disconnect).
ConnectionsAgree ==
    \A c \in Calls :
        /\ channel_to_conns[c] = {k \in Conns : conn_to_channel[k] = c}
        /\ IF channel_to_conns[c] = {} THEN primary[c] = NoConn
           ELSE primary[c] \in channel_to_conns[c]
        /\ cleanup[c] # "over" =>
             IF channel_to_conn[c] \in channel_to_conns[c]
             THEN audiosocket_conn_id[c] = channel_to_conn[c]
             ELSE audiosocket_conn_id[c] = NoConn

\* After a call's cleanup no connection stays bound to it, though its UUID may be
\* registered, its channel added and its connections bound while the cleanup runs.
EndedCallDisconnected ==
    \A c \in Calls :
        [](cleanup[c] = "over" => <>[](\A k \in Conns : conn_to_channel[k] # c))
=============================================================================
