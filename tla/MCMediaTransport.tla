-------------------------- MODULE MCMediaTransport --------------------------
(***************************************************************************)
(* The two media transports for TLC.  The engine starts the server of the  *)
(* configured one only (config.audio_transport), so a run picks one.       *)
(***************************************************************************)
EXTENDS RtpServer

CONSTANTS SocketCalls, Conns, NoConn

VARIABLES
    audio_transport, serving, origin, chan, stored, cleanup, known, audiosocket_conn_id,
    uuidext_to_channel, conn, uuid, writers, conn_to_channel, channel_to_conn,
    channel_to_conns, primary

AS == INSTANCE AudioSocket WITH Calls <- SocketCalls

ASSUME SocketsGiven == AS!SocketAssumption

sockets == <<serving, origin, chan, stored, cleanup, known, audiosocket_conn_id,
             uuidext_to_channel, conn, uuid, writers, conn_to_channel, channel_to_conn,
             channel_to_conns, primary>>

MCInit == audio_transport \in {"externalmedia", "audiosocket"} /\ Init /\ AS!Init

MCNext ==
    /\ UNCHANGED audio_transport
    /\ IF audio_transport = "externalmedia" THEN Next /\ UNCHANGED sockets
                                            ELSE AS!Next /\ UNCHANGED vars

MCSpec == MCInit /\ [][MCNext]_<<audio_transport, vars, sockets>> /\ Fairness /\ AS!Fairness

ConnectionsAgree == AS!ConnectionsAgree
EndedCallDisconnected == AS!EndedCallDisconnected
=============================================================================
