------------------------ MODULE MediaTransportProofs ------------------------
(***************************************************************************)
(* The two media servers, each under its own specification.  For any       *)
(* calls, ports and width of the sequence numbers: the RTP server's tables *)
(* agree, a loop that can still deliver holds its port, and what is sent   *)
(* is numbered without a gap.  For any calls and connections: the engine's *)
(* tables of the AudioSocket connections agree with each other and with    *)
(* the sessions, and no connection is left bound to a call that is over.   *)
(***************************************************************************)
EXTENDS MCMediaTransport, TLAPS

-----------------------------------------------------------------------------
(* RTP: the inductive invariant.                                            *)

\* A loop that can still deliver belongs to a session that is open, or cancelled
\* and being closed.
LoopsHaveSessions ==
    \A p \in Ports :
        /\ receiver[p] \in {"waits", "delivers"} => phase[p] = "open"
        /\ receiver[p] = "cancelled" => phase[p] \in {"open", "closing"}

\* While the server runs a port that is in use is reserved, for the call of its
\* session if it has one.
UsedPortsReserved ==
    \A p \in Ports : running =>
        /\ phase[p] \in {"open", "closing"} => port_allocation[p] = call[p] /\ call[p] \in Calls
        /\ phase[p] = "unbound" => port_allocation[p] \in Calls

Tables == TypeOK /\ SessionsHavePorts /\ LoopsHaveSessions /\ UsedPortsReserved
IInv == Tables /\ OutboundContinuous

\* A remainder is smaller than the modulus.
LEMMA Remainder ==
    ASSUME NEW n \in Nat, NEW m \in Nat \ {0}
    PROVE  n % m \in 0 .. m - 1
OBVIOUS

\* The initial state.
LEMMA InitIInv == Init => IInv
<1> SUFFICES ASSUME Init PROVE IInv OBVIOUS
<1> USE RtpAssumption DEF Init
<1>1. TypeOK BY DEF TypeOK, Seqs
<1>2. SessionsHavePorts /\ LoopsHaveSessions /\ UsedPortsReserved
  BY DEF SessionsHavePorts, LoopsHaveSessions, UsedPortsReserved
<1>3. OutboundContinuous BY DEF OutboundContinuous
<1> QED BY <1>1, <1>2, <1>3 DEF IInv, Tables

-----------------------------------------------------------------------------
(* One lemma per kind of step.                                              *)

\* A new session: its port was free, so no other session or loop has it.
LEMMA AllocateKeeps ==
    ASSUME IInv, NEW c \in Calls, allocate_session(c)
    PROVE  IInv'
<1> USE RtpAssumption DEF IInv, Tables
<1>1. PICK p \in Ports :
        /\ Reservable(p)
        /\ port_allocation' = [port_allocation EXCEPT ![p] = c]
        /\ \/ Opened(c, p)
           \/ /\ phase' = [phase EXCEPT ![p] = "unbound"]
              /\ UNCHANGED <<sessions, session_tasks, loop, rtp, out>>
  BY DEF allocate_session
<1>2. running /\ running' /\ sessions[c] = 0 BY DEF allocate_session
<1>3. phase[p] = "free" /\ receiver[p] \notin {"waits", "delivers", "cancelled"}
  <2>1. port_allocation[p] = NoCall BY <1>1 DEF Reservable
  <2>2. phase[p] \notin {"open", "closing", "unbound"} BY <1>2, <2>1 DEF UsedPortsReserved
  <2> QED BY <2>2 DEF TypeOK, LoopsHaveSessions
<1>4. \A d \in Calls : sessions[d] # p BY <1>3 DEF SessionsHavePorts
<1>5. CASE Opened(c, p)
  <2> USE <1>1, <1>2, <1>5 DEF Opened
  <2>1. TypeOK' BY DEF TypeOK, Seqs
  <2>2. SessionsHavePorts' BY <1>3, <1>4 DEF SessionsHavePorts, TypeOK
  <2>3. LoopsHaveSessions' BY DEF LoopsHaveSessions, TypeOK
  <2>4. UsedPortsReserved' BY DEF UsedPortsReserved, TypeOK
  <2>5. OutboundContinuous'
    <3>1. last'[p] = None BY DEF TypeOK
    <3>2. \A q \in Ports \ {p} :
            seeded'[q] = seeded[q] /\ sequence'[q] = sequence[q] /\ last'[q] = last[q]
      BY DEF TypeOK
    <3> QED BY <3>1, <3>2 DEF OutboundContinuous
  <2> QED BY <2>1, <2>2, <2>3, <2>4, <2>5
<1>6. CASE /\ phase' = [phase EXCEPT ![p] = "unbound"]
           /\ UNCHANGED <<sessions, session_tasks, loop, rtp, out>>
  <2> USE <1>1, <1>2, <1>6 DEF loop, rtp, out
  <2>1. TypeOK' BY DEF TypeOK
  <2>2. SessionsHavePorts' BY <1>3, <1>4 DEF SessionsHavePorts, TypeOK
  <2>3. LoopsHaveSessions' BY <1>3 DEF LoopsHaveSessions, TypeOK
  <2>4. UsedPortsReserved' BY DEF UsedPortsReserved, TypeOK
  <2>5. OutboundContinuous' BY DEF OutboundContinuous
  <2> QED BY <2>1, <2>2, <2>3, <2>4, <2>5
<1> QED BY <1>1, <1>5, <1>6

\* A session leaves the table: its loop is cancelled and it keeps its port.
LEMMA CleanupKeeps ==
    ASSUME IInv, NEW c \in Calls, cleanup_session(c)
    PROVE  IInv'
<1> USE RtpAssumption DEF IInv, Tables
<1> DEFINE p == sessions[c]
<1>1. p \in Ports /\ p # 0 /\ phase[p] = "open" /\ port_allocation[p] = c /\ call[p] = c
  <2>1. p \in Ports /\ p # 0 BY DEF cleanup_session, TypeOK
  <2>2. phase[p] = "open" /\ port_allocation[p] = c BY <2>1 DEF SessionsHavePorts
  <2> QED BY <2>1, <2>2 DEF SessionsHavePorts
<1>2. /\ phase' = [phase EXCEPT ![p] = "closing"]
      /\ receiver' = [receiver EXCEPT ![p] = Cancelled(p)]
      /\ sessions' = [sessions EXCEPT ![c] = 0]
      /\ UNCHANGED <<running, port_allocation, session_tasks, call, rtp, out>>
  BY DEF cleanup_session
<1> HIDE DEF p
<1> USE <1>2 DEF rtp, out, Cancelled
<1>3. TypeOK' BY <1>1 DEF TypeOK
<1>4. SessionsHavePorts' BY <1>1 DEF SessionsHavePorts, TypeOK
<1>5. LoopsHaveSessions' BY <1>1 DEF LoopsHaveSessions, TypeOK
<1>6. UsedPortsReserved' BY <1>1 DEF UsedPortsReserved, TypeOK
<1>7. OutboundContinuous' BY DEF OutboundContinuous
<1> QED BY <1>3, <1>4, <1>5, <1>6, <1>7

\* A port is given back when its loop has ended and its session has left the table.
LEMMA ClosedKeeps ==
    ASSUME IInv, NEW p \in Ports, Closed(p)
    PROVE  IInv'
<1> USE RtpAssumption DEF IInv, Tables, Closed, Finished, loop, out
<1>1. TypeOK' BY DEF TypeOK
<1>2. SessionsHavePorts' BY DEF SessionsHavePorts, TypeOK
<1>3. LoopsHaveSessions' BY DEF LoopsHaveSessions, TypeOK
<1>4. UsedPortsReserved' BY DEF UsedPortsReserved, TypeOK
<1>5. OutboundContinuous' BY DEF OutboundContinuous
<1> QED BY <1>1, <1>2, <1>3, <1>4, <1>5

\* The server stops.
LEMMA StopKeeps ==
    ASSUME IInv, Stop \/ Stopped
    PROVE  IInv'
<1> USE RtpAssumption DEF IInv, Tables, pool, loop, rtp, out, Cancelled
<1>1. CASE Stop
  <2> USE <1>1 DEF Stop
  <2>1. TypeOK' BY DEF TypeOK
  <2>2. SessionsHavePorts' /\ UsedPortsReserved' BY DEF SessionsHavePorts, UsedPortsReserved
  <2>3. LoopsHaveSessions' BY DEF LoopsHaveSessions, TypeOK
  <2>4. OutboundContinuous' BY DEF OutboundContinuous
  <2> QED BY <2>1, <2>2, <2>3, <2>4
<1>2. CASE Stopped
  <2> USE <1>2 DEF Stopped
  <2>1. TypeOK' BY DEF TypeOK
  <2>2. SessionsHavePorts' BY DEF SessionsHavePorts
  <2>3. LoopsHaveSessions' BY DEF LoopsHaveSessions, TypeOK
  <2>4. UsedPortsReserved' BY DEF UsedPortsReserved
  <2>5. OutboundContinuous' BY DEF OutboundContinuous
  <2> QED BY <2>1, <2>2, <2>3, <2>4, <2>5
<1> QED BY <1>1, <1>2

\* The receive loop's steps leave the tables alone; only a packet moves the
\* sequence, and only before the first one sent.
LEMMA LoopKeeps ==
    ASSUME IInv, NEW p \in Ports,
           \/ Delivered(p) \/ ReceiverFails(p) \/ ReceiverCancelled(p)
           \/ \E e \in Endpoints, s \in Ssrcs : Packet(p, e, s)
    PROVE  IInv'
<1> USE RtpAssumption DEF IInv, Tables, pool
<1>1. CASE Delivered(p) \/ ReceiverFails(p) \/ ReceiverCancelled(p)
  <2> USE <1>1 DEF Delivered, ReceiverFails, ReceiverCancelled, rtp, out
  <2>1. TypeOK' BY DEF TypeOK
  <2>2. SessionsHavePorts' BY DEF SessionsHavePorts
  <2>3. LoopsHaveSessions' BY DEF LoopsHaveSessions, TypeOK
  <2>4. UsedPortsReserved' BY DEF UsedPortsReserved
  <2>5. OutboundContinuous' BY DEF OutboundContinuous
  <2> QED BY <2>1, <2>2, <2>3, <2>4, <2>5
<1>2. ASSUME NEW e \in Endpoints, NEW s \in Ssrcs, Packet(p, e, s) PROVE IInv'
  <2> USE <1>2 DEF Packet
  <2>1. PICK n \in Seqs : sequence' = [sequence EXCEPT ![p] = IF Seeds(p) THEN n ELSE @]
    OBVIOUS
  <2>2. TypeOK' BY <2>1 DEF TypeOK
  <2>3. SessionsHavePorts' BY DEF SessionsHavePorts
  <2>4. LoopsHaveSessions' BY DEF LoopsHaveSessions, TypeOK
  <2>5. UsedPortsReserved' BY DEF UsedPortsReserved
  <2>6. OutboundContinuous' BY <2>1 DEF OutboundContinuous, Seeds, TypeOK
  <2> QED BY <2>2, <2>3, <2>4, <2>5, <2>6
<1> QED BY <1>1, <1>2

\* A packet is sent with the sequence number after the last one's.
LEMMA SendKeeps ==
    ASSUME IInv, NEW c \in Calls, send_audio(c)
    PROVE  IInv'
<1> USE RtpAssumption DEF IInv, Tables
<1> DEFINE p == sessions[c]
<1>1. p \in Ports BY DEF send_audio, TypeOK
<1>2. PICK e \in {connected[p], remote[p]}, n \in Start(p) :
        /\ connected' = [connected EXCEPT ![p] = IF @ = None THEN e ELSE @]
        /\ seeded' = [seeded EXCEPT ![p] = TRUE]
        /\ \/ /\ sequence' = [sequence EXCEPT ![p] = (n + 1) % SeqMod]
              /\ last' = [last EXCEPT ![p] = n]
           \/ sequence' = [sequence EXCEPT ![p] = n] /\ UNCHANGED last
  BY DEF send_audio
<1>3. UNCHANGED <<running, pool, loop, remote, ssrc, ssrc_to_call_id>> BY DEF send_audio
<1> HIDE DEF p
<1>4. n \in Seqs /\ (seeded[p] => n = sequence[p]) BY <1>1, <1>2 DEF Start, TypeOK
<1>5. (n + 1) % SeqMod \in Seqs BY <1>4, Remainder DEF Seqs
<1>6. TypeOK' BY <1>1, <1>2, <1>3, <1>4, <1>5 DEF TypeOK, pool, loop
<1>7. SessionsHavePorts' /\ LoopsHaveSessions' /\ UsedPortsReserved'
  BY <1>3 DEF SessionsHavePorts, LoopsHaveSessions, UsedPortsReserved, pool, loop
<1>8. OutboundContinuous'
  <2>1. last[p] # None => sequence[p] = n /\ n = (last[p] + 1) % SeqMod
    BY <1>1, <1>4 DEF OutboundContinuous
  <2>2. \A q \in Ports \ {p} :
          seeded'[q] = seeded[q] /\ sequence'[q] = sequence[q] /\ last'[q] = last[q]
    BY <1>1, <1>2 DEF TypeOK
  <2>3. seeded'[p] BY <1>1, <1>2 DEF TypeOK
  <2>4. CASE sequence' = [sequence EXCEPT ![p] = (n + 1) % SeqMod] /\ last' = [last EXCEPT ![p] = n]
    BY <1>1, <2>2, <2>3, <2>4 DEF OutboundContinuous, TypeOK
  <2>5. CASE sequence' = [sequence EXCEPT ![p] = n] /\ UNCHANGED last
    BY <1>1, <2>1, <2>2, <2>3, <2>5 DEF OutboundContinuous, TypeOK
  <2> QED BY <1>2, <2>4, <2>5
<1> QED BY <1>6, <1>7, <1>8

\* Every step keeps the invariant.
LEMMA StepIInv == IInv /\ [Next]_vars => IInv'
<1> SUFFICES ASSUME IInv, [Next]_vars PROVE IInv' OBVIOUS
<1>1. ASSUME NEW c \in Calls, allocate_session(c) \/ cleanup_session(c) \/ send_audio(c)
      PROVE IInv'
  BY <1>1, AllocateKeeps, CleanupKeeps, SendKeeps
<1>2. ASSUME NEW p \in Ports,
             \/ Delivered(p) \/ ReceiverFails(p) \/ ReceiverCancelled(p)
             \/ \E e \in Endpoints, s \in Ssrcs : Packet(p, e, s)
      PROVE IInv'
  BY <1>2, LoopKeeps
<1>3. ASSUME NEW p \in Ports, Closed(p) PROVE IInv'
  BY <1>3, ClosedKeeps
<1>4. CASE Stop \/ Stopped BY <1>4, StopKeeps
<1>5. CASE UNCHANGED vars
  BY <1>5 DEF IInv, Tables, TypeOK, SessionsHavePorts, LoopsHaveSessions, UsedPortsReserved,
              OutboundContinuous, vars, pool, loop, rtp, out
<1> QED BY <1>1, <1>2, <1>3, <1>4, <1>5 DEF Next

\* The invariant holds of every behaviour.
THEOREM Invariance == Spec => []IInv
BY InitIInv, StepIInv, PTL DEF Spec

\* Every reachable state is well typed; sequence numbers never leave their width.
THEOREM RtpTypeCorrect == Spec => []TypeOK
<1>1. IInv => TypeOK BY DEF IInv, Tables
<1> QED BY <1>1, Invariance, PTL

\* Each session has its own port and each open port its session, for any number of
\* calls and ports.
THEOREM SessionsCorrect == Spec => []SessionsHavePorts
<1>1. IInv => SessionsHavePorts BY DEF IInv, Tables
<1> QED BY <1>1, Invariance, PTL

\* A loop that can still deliver holds its port: no call hears another's caller.
THEOREM LoopsCorrect == Spec => []LoopsHoldPorts
<1>1. IInv => LoopsHoldPorts
  BY DEF IInv, Tables, LoopsHoldPorts, LoopsHaveSessions, UsedPortsReserved
<1> QED BY <1>1, Invariance, PTL

\* What is sent is numbered without a gap, for any width of the numbers.
THEOREM OutboundCorrect == Spec => []OutboundContinuous
<1>1. IInv => OutboundContinuous BY DEF IInv
<1> QED BY <1>1, Invariance, PTL

-----------------------------------------------------------------------------
(* AudioSocket: the inductive invariant.                                    *)

\* A connection is bound to the call whose UUID it presents, and to none before
\* it is recognised or after it ended.
BoundToOwn ==
    \A k \in Conns :
        conn_to_channel[k] # NoCall => conn[k] \in {"bound", "closing"} /\ conn_to_channel[k] = uuid[k]

\* The connections of a call are those bound to it, and one of them is primary.
TablesAgree ==
    \A c \in SocketCalls :
        /\ channel_to_conns[c] = {k \in Conns : conn_to_channel[k] = c}
        /\ IF channel_to_conns[c] = {} THEN primary[c] = NoConn
           ELSE primary[c] \in channel_to_conns[c]

\* The session knows the newest connection until the call is cleaned up; it is
\* stored for as long.
NewestKnown ==
    \A c \in SocketCalls : cleanup[c] # "over" =>
        /\ stored[c]
        /\ IF channel_to_conn[c] \in channel_to_conns[c]
           THEN audiosocket_conn_id[c] = channel_to_conn[c]
           ELSE audiosocket_conn_id[c] = NoConn

SocketTypes ==
    /\ conn_to_channel \in [Conns -> SocketCalls \cup {NoCall}]
    /\ uuid \in [Conns -> SocketCalls \cup {NoCall}]
    /\ channel_to_conn \in [SocketCalls -> Conns \cup {NoConn}]
    /\ audiosocket_conn_id \in [SocketCalls -> Conns \cup {NoConn}]
    /\ primary \in [SocketCalls -> Conns \cup {NoConn}]
    /\ channel_to_conns \in [SocketCalls -> SUBSET Conns]
    /\ uuidext_to_channel \subseteq SocketCalls
    /\ conn \in [Conns -> {"idle", "open", "looking", "bound", "closing", "ended"}]
    /\ stored \in [SocketCalls -> BOOLEAN]
    /\ cleanup \in [SocketCalls -> {"none", "leaving", "closing", "forgot", "over"}]

SocketInv == SocketTypes /\ BoundToOwn /\ TablesAgree /\ NewestKnown

LEMMA SocketStart == AS!Init => SocketInv
BY SocketsGiven DEF AS!Init, SocketInv, SocketTypes, BoundToOwn, TablesAgree, NewestKnown,
   AS!SocketAssumption

\* The handlers of the channel, and the cleanup, change no table; a connection that
\* the cleanup or the server's stop closes stays bound until its loop has ended.
LEMMA LegKeeps ==
    ASSUME SocketInv, NEW c \in SocketCalls,
           \/ AS!Originate(c) \/ AS!ChannelUp(c) \/ AS!Recorded(c) \/ AS!NotRecorded(c)
           \/ AS!ChannelAdded(c) \/ AS!ChannelUnknown(c) \/ AS!ChannelKept(c)
           \/ AS!ChannelRefused(c) \/ AS!ChannelGone(c) \/ AS!CleanupHangs(c) \/ AS!Cleanup(c)
    PROVE  SocketInv'
<1> USE SocketsGiven DEF SocketInv, AS!tables, AS!tcp, AS!SocketAssumption
<1>1. /\ UNCHANGED <<AS!tables, audiosocket_conn_id, uuid>>
      /\ uuidext_to_channel' \subseteq uuidext_to_channel \cup {c}
      /\ stored' \in [SocketCalls -> BOOLEAN]
      /\ cleanup' \in [SocketCalls -> {"none", "leaving", "closing", "forgot", "over"}]
      /\ \A d \in SocketCalls : /\ cleanup'[d] # "over" => cleanup[d] # "over"
                                /\ stored[d] /\ cleanup'[d] # "over" => stored'[d]
  BY DEF SocketTypes, AS!Originate, AS!ChannelUp, AS!Recorded, AS!NotRecorded,
     AS!ChannelAdded, AS!ChannelUnknown, AS!ChannelKept, AS!ChannelRefused, AS!Channel,
     AS!ChannelGone, AS!CleanupHangs, AS!Cleanup, AS!CleanupDisconnects, AS!CleanupForgets,
     AS!Forgotten, AS!CleanupRemoves
<1>2. /\ conn' \in [Conns -> {"idle", "open", "looking", "bound", "closing", "ended"}]
      /\ \A k \in Conns : conn'[k] = conn[k] \/ conn'[k] = "closing"
  <2>1. UNCHANGED conn \/ AS!CleanupDisconnects(c)
    BY DEF AS!Originate, AS!ChannelUp, AS!Recorded, AS!NotRecorded,
       AS!ChannelAdded, AS!ChannelUnknown, AS!ChannelKept, AS!ChannelRefused, AS!Channel,
       AS!ChannelGone, AS!CleanupHangs, AS!Cleanup, AS!CleanupForgets, AS!CleanupRemoves
  <2> QED
    BY <2>1 DEF SocketTypes, AS!CleanupDisconnects
<1> QED
  BY <1>1, <1>2 DEF SocketTypes, BoundToOwn, TablesAgree, NewestKnown

LEMMA AcceptKeeps ==
    ASSUME SocketInv, NEW c \in SocketCalls, NEW k \in Conns, AS!Accept(k, c)
    PROVE  SocketInv'
BY DEF SocketInv, SocketTypes, BoundToOwn, TablesAgree, NewestKnown, AS!Accept, AS!legs, AS!tables

\* The newest connection of a call becomes the session's.
LEMMA BindKeeps ==
    ASSUME SocketInv, NEW k \in Conns, AS!Bind(k)
    PROVE  SocketInv'
<1> USE SocketsGiven DEF SocketInv, AS!SocketAssumption
<1> DEFINE c == uuid[k]
<1>1. /\ conn[k] \in {"open", "looking"} /\ conn_to_channel[k] = NoCall /\ c \in SocketCalls
      /\ UNCHANGED <<uuid, stored, cleanup, uuidext_to_channel>>
      /\ conn' = [conn EXCEPT ![k] = "bound"]
      /\ conn_to_channel' = [conn_to_channel EXCEPT ![k] = c]
      /\ channel_to_conn' = [channel_to_conn EXCEPT ![c] = k]
      /\ channel_to_conns' = [channel_to_conns EXCEPT ![c] = @ \cup {k}]
      /\ primary' = [primary EXCEPT ![c] = IF @ = NoConn THEN k ELSE @]
      /\ audiosocket_conn_id' = [audiosocket_conn_id EXCEPT ![c] = IF stored[c] THEN k ELSE @]
  BY DEF AS!Bind, SocketTypes, BoundToOwn
<1>2. SocketTypes'
  BY <1>1 DEF SocketTypes
<1>3. BoundToOwn'
  BY <1>1 DEF SocketTypes, BoundToOwn
<1>4. TablesAgree'
  BY <1>1 DEF SocketTypes, TablesAgree
<1>5. NewestKnown'
  BY <1>1 DEF SocketTypes, NewestKnown
<1> QED
  BY <1>2, <1>3, <1>4, <1>5

\* A connection that ends is forgotten; the session's only if it was the newest.
LEMMA DisconnectedKeeps ==
    ASSUME SocketInv, NEW k \in Conns, AS!Disconnected(k)
    PROVE  SocketInv'
<1> USE SocketsGiven DEF SocketInv, AS!SocketAssumption
<1>1. /\ UNCHANGED <<uuid, stored, cleanup, uuidext_to_channel, channel_to_conn>>
      /\ conn' = [conn EXCEPT ![k] = "ended"]
      /\ conn_to_channel' = [conn_to_channel EXCEPT ![k] = NoCall]
  BY DEF AS!Disconnected, AS!Ends, AS!legs
<1>2. CASE conn_to_channel[k] = NoCall
  <2>1. UNCHANGED <<conn_to_channel, channel_to_conns, primary, audiosocket_conn_id>>
    BY <1>1, <1>2 DEF AS!Disconnected, SocketTypes
  <2> QED
    BY <1>1, <1>2, <2>1 DEF SocketTypes, BoundToOwn, TablesAgree, NewestKnown
<1>3. CASE conn_to_channel[k] # NoCall
  <2> DEFINE c == conn_to_channel[k]
             left == channel_to_conns[c] \ {k}
  <2>1. c \in SocketCalls
    BY <1>3 DEF SocketTypes
  <2>2. PICK p \in IF primary[c] # k THEN {primary[c]} ELSE IF left = {} THEN {NoConn} ELSE left :
          primary' = [primary EXCEPT ![c] = p]
    BY <1>3 DEF AS!Disconnected
  <2>3. /\ channel_to_conns' = [channel_to_conns EXCEPT ![c] = left]
        /\ audiosocket_conn_id' =
             [audiosocket_conn_id EXCEPT ![c] = IF stored[c] THEN AS!Unbound(k, c) ELSE @]
    BY <1>3 DEF AS!Disconnected
  <2>4. p \in Conns \cup {NoConn} /\ IF left = {} THEN p = NoConn ELSE p \in left
    BY <2>1, <2>2 DEF SocketTypes, TablesAgree
  <2>5. SocketTypes'
    BY <1>1, <2>1, <2>2, <2>3, <2>4 DEF SocketTypes, AS!Unbound
  <2>6. BoundToOwn'
    BY <1>1 DEF SocketTypes, BoundToOwn
  <2>7. TablesAgree'
    BY <1>1, <2>1, <2>2, <2>3, <2>4 DEF SocketTypes, TablesAgree
  <2>8. NewestKnown'
    <3>1. k \in channel_to_conns[c]
      BY <2>1 DEF TablesAgree
    <3>2. ASSUME cleanup[c] # "over"
          PROVE  IF channel_to_conn[c] \in left THEN audiosocket_conn_id'[c] = channel_to_conn[c]
                 ELSE audiosocket_conn_id'[c] = NoConn
      BY <2>1, <2>3, <3>1, <3>2 DEF SocketTypes, NewestKnown, AS!Unbound
    <3> QED
      BY <1>1, <2>1, <2>3, <3>2 DEF SocketTypes, NewestKnown
  <2> QED
    BY <2>5, <2>6, <2>7, <2>8
<1> QED
  BY <1>2, <1>3

LEMMA SocketStep == SocketInv /\ [AS!Next]_AS!vars => SocketInv'
<1> SUFFICES ASSUME SocketInv, [AS!Next]_AS!vars
             PROVE  SocketInv'
  OBVIOUS
<1>1. ASSUME NEW k \in Conns, AS!Looks(k)
      PROVE  SocketInv'
  BY <1>1 DEF SocketInv, SocketTypes, BoundToOwn, TablesAgree, NewestKnown, AS!Looks, AS!legs, AS!tables
<1>2. CASE AS!Stop
  BY <1>2 DEF SocketInv, SocketTypes, BoundToOwn, TablesAgree, NewestKnown, AS!Stop, AS!legs, AS!tables
<1>3. CASE UNCHANGED AS!vars
  BY <1>3 DEF SocketInv, SocketTypes, BoundToOwn, TablesAgree, NewestKnown, AS!vars, AS!legs,
     AS!tables, AS!tcp
<1> QED
  BY <1>1, <1>2, <1>3, LegKeeps, AcceptKeeps, BindKeeps, DisconnectedKeeps DEF AS!Next

\* For any calls and any connections, in whatever order they come, bind and end, the
\* engine's tables agree, and the session's connection is its newest one.
THEOREM SocketsAgree == AS!Spec => []ConnectionsAgree
<1>1. SocketInv => ConnectionsAgree
  BY DEF SocketInv, TablesAgree, NewestKnown, ConnectionsAgree, AS!ConnectionsAgree
<1> QED
  BY <1>1, SocketStart, SocketStep, PTL DEF AS!Spec

-----------------------------------------------------------------------------
(* AudioSocket: no connection is left to a call that is over.               *)

\* The call's channel is in its bridge, or is being put there.
Bridged(c) == chan[c] \in {"added", "kept"}

\* A connection of the call's channel is closed or about to be; then Asterisk ends
\* the channel, and with it the others.
Closing(c) == \E j \in Conns : uuid[j] = c /\ conn[j] \in {"closing", "ended"}

\* Whoever is bound to a call that is over is closed: its channel is gone, or unknown to
\* the engine and hung up, or a connection of it was closed.
LeftToClose ==
    \A c \in SocketCalls : \A k \in Conns :
        cleanup[c] = "over" /\ conn_to_channel[k] = c => chan[c] \in {"up", "gone"} \/ Closing(c)

\* A channel is bridged when the engine knows the UUID it asked for, and connects when
\* Asterisk has made it.
ChannelKnown ==
    /\ origin \in [SocketCalls -> {"none", "sent", "answered", "failed"}]
    /\ chan \in [SocketCalls -> {"none", "up", "added", "kept", "gone"}]
    /\ \A c \in SocketCalls :
         /\ origin[c] = "answered" /\ cleanup[c] # "over" => c \in known
         /\ Bridged(c) => origin[c] = "answered" /\ c \in known
    /\ \A k \in Conns : conn[k] # "idle" => uuid[k] \in SocketCalls /\ chan[uuid[k]] # "none"

\* A connection that goes on has its writer; the newest one of a call was bound to it.
WritersKnown ==
    /\ writers \subseteq Conns
    /\ \A k \in Conns : conn[k] \in {"open", "looking", "bound"} => k \in writers
    /\ \A k \in Conns : conn[k] = "bound" => conn_to_channel[k] = uuid[k]
    /\ \A c \in SocketCalls : channel_to_conn[c] \in Conns =>
         uuid[channel_to_conn[c]] = c /\ conn[channel_to_conn[c]] \in {"bound", "closing", "ended"}
    /\ \A c \in SocketCalls : channel_to_conns[c] # {} => channel_to_conn[c] \in Conns

\* What the cleanup has done for the channel when it goes on.
CleanedUp ==
    \A c \in SocketCalls : Bridged(c) =>
        /\ cleanup[c] = "closing" => Closing(c)
        /\ cleanup[c] \in {"forgot", "over"} =>
             c \notin uuidext_to_channel /\ (Closing(c) \/ \A k \in Conns : conn_to_channel[k] # c)

ReleaseInv == ChannelKnown /\ WritersKnown /\ CleanedUp

LEMMA ReleaseStart == AS!Init => ReleaseInv
BY SocketsGiven DEF AS!Init, ReleaseInv, ChannelKnown, WritersKnown, CleanedUp, Bridged, AS!SocketAssumption

\* The channel is asked for, appears, and ends: it is bridged only before the cleanup.
LEMMA ChannelReleases ==
    ASSUME SocketInv, ReleaseInv, NEW c \in SocketCalls,
           \/ AS!Originate(c) \/ AS!ChannelUp(c) \/ AS!Recorded(c) \/ AS!NotRecorded(c)
           \/ AS!ChannelAdded(c) \/ AS!ChannelUnknown(c) \/ AS!ChannelKept(c)
           \/ AS!ChannelRefused(c) \/ AS!ChannelGone(c)
    PROVE  ReleaseInv'
<1>1. UNCHANGED <<cleanup, conn, uuid, writers, conn_to_channel, channel_to_conn, channel_to_conns>>
  BY DEF AS!Originate, AS!ChannelUp, AS!Recorded, AS!NotRecorded, AS!ChannelAdded, AS!ChannelUnknown,
     AS!ChannelKept, AS!ChannelRefused, AS!Channel, AS!ChannelGone, AS!tcp, AS!tables
<1>2. WritersKnown' /\ \A d \in SocketCalls : Closing(d)' = Closing(d)
  BY <1>1 DEF ReleaseInv, WritersKnown, Closing
<1>3. ASSUME UNCHANGED <<origin, known, uuidext_to_channel>>,
             NEW at \in {"up", "added", "kept", "gone"}, chan' = [chan EXCEPT ![c] = at],
             Bridged(c)' => Bridged(c) \/ (origin[c] = "answered" /\ cleanup[c] = "none")
      PROVE  ReleaseInv'
  <2>1. \A d \in SocketCalls : chan'[d] = IF d = c THEN at ELSE chan[d]
    BY <1>3 DEF ReleaseInv, ChannelKnown
  <2>2. ChannelKnown'
    BY <1>1, <1>3, <2>1 DEF ReleaseInv, ChannelKnown, Bridged, SocketInv, SocketTypes
  <2>3. CleanedUp'
    BY <1>1, <1>2, <1>3, <2>1 DEF ReleaseInv, CleanedUp, Bridged
  <2> QED
    BY <1>2, <2>2, <2>3 DEF ReleaseInv
<1>4. CASE AS!ChannelUp(c) \/ AS!ChannelUnknown(c) \/ AS!ChannelRefused(c) \/ AS!ChannelGone(c)
  <2>1. \E at \in {"up", "gone"} : chan' = [chan EXCEPT ![c] = at]
    BY <1>4 DEF AS!ChannelUp, AS!ChannelUnknown, AS!ChannelRefused, AS!Channel, AS!ChannelGone
  <2>2. UNCHANGED <<origin, known, uuidext_to_channel>>
    BY <1>4 DEF AS!ChannelUp, AS!ChannelUnknown, AS!ChannelRefused, AS!Channel, AS!ChannelGone
  <2> QED
    BY <1>3, <2>1, <2>2 DEF Bridged, ReleaseInv, ChannelKnown
<1>5. CASE AS!ChannelAdded(c) \/ AS!ChannelKept(c)
  BY <1>3, <1>5 DEF AS!ChannelAdded, AS!ChannelKept, AS!Channel, Bridged
<1>6. CASE AS!Originate(c) \/ AS!Recorded(c) \/ AS!NotRecorded(c)
  <2>1. /\ origin[c] # "answered" /\ UNCHANGED chan
        /\ \E got \in {"sent", "answered", "failed"} : origin' = [origin EXCEPT ![c] = got]
        /\ known \subseteq known' /\ uuidext_to_channel' \subseteq uuidext_to_channel \cup {c}
        /\ origin'[c] = "answered" /\ stored[c] => c \in known'
    BY <1>6 DEF AS!Originate, AS!Recorded, AS!NotRecorded, ReleaseInv, ChannelKnown
  <2>2. ~Bridged(c) /\ (cleanup[c] # "over" => stored[c])
    BY <2>1 DEF ReleaseInv, ChannelKnown, SocketInv, NewestKnown
  <2>3. \A d \in SocketCalls : Bridged(d)' = Bridged(d) /\ (d # c => origin'[d] = origin[d])
    BY <2>1 DEF Bridged, ReleaseInv, ChannelKnown
  <2>4. ChannelKnown'
    BY <1>1, <2>1, <2>2, <2>3 DEF ReleaseInv, ChannelKnown
  <2>5. CleanedUp'
    BY <1>1, <1>2, <2>1, <2>2, <2>3 DEF ReleaseInv, CleanedUp
  <2> QED
    BY <1>2, <2>4, <2>5 DEF ReleaseInv
<1> QED
  BY <1>4, <1>5, <1>6

\* The cleanup hangs up the channel, closes the session's connection and forgets the UUID.
LEMMA CleanupReleases ==
    ASSUME SocketInv, ReleaseInv, NEW c \in SocketCalls, AS!CleanupHangs(c) \/ AS!Cleanup(c)
    PROVE  ReleaseInv'
<1>1. /\ UNCHANGED <<origin, known, uuid, conn_to_channel, channel_to_conn, channel_to_conns>>
      /\ \A d \in SocketCalls : d # c => cleanup'[d] = cleanup[d]
      /\ uuidext_to_channel' \subseteq uuidext_to_channel
  BY DEF AS!CleanupHangs, AS!Cleanup, AS!CleanupDisconnects, AS!CleanupForgets, AS!CleanupRemoves,
     AS!Forgotten, AS!tcp, AS!tables, SocketInv, SocketTypes
<1>2. chan' \in [SocketCalls -> {"none", "up", "added", "kept", "gone"}]
      /\ \A d \in SocketCalls : (Bridged(d)' => Bridged(d)) /\ (chan[d] # "none" => chan'[d] # "none")
  <2>1. CASE AS!CleanupHangs(c)
    BY <2>1 DEF AS!CleanupHangs, ReleaseInv, ChannelKnown, Bridged
  <2>2. CASE AS!Cleanup(c)
    BY <2>2 DEF AS!Cleanup, AS!CleanupDisconnects, AS!CleanupForgets, AS!CleanupRemoves,
       ReleaseInv, ChannelKnown, Bridged
  <2> QED
    BY <2>1, <2>2
<1>3. /\ cleanup[c] # "over" /\ UNCHANGED <<AS!tables, known>>
      /\ cleanup' \in {[cleanup EXCEPT ![c] = at] : at \in {"leaving", "closing", "forgot", "over"}}
  BY DEF AS!CleanupHangs, AS!Cleanup, AS!CleanupDisconnects, AS!CleanupForgets, AS!CleanupRemoves
<1>4. CASE AS!CleanupDisconnects(c)
  <2> DEFINE j == audiosocket_conn_id[c]
  <2>1. /\ cleanup[c] = "leaving" /\ j \in writers /\ writers' = writers \ {j}
        /\ cleanup' = [cleanup EXCEPT ![c] = "closing"] /\ conn' = [conn EXCEPT ![j] = "closing"]
        /\ UNCHANGED <<chan, uuidext_to_channel>>
    BY <1>4 DEF AS!CleanupDisconnects
  <2>2. j \in Conns /\ j # NoConn
    BY <2>1, SocketsGiven DEF ReleaseInv, WritersKnown, AS!SocketAssumption
  <2>3. j \in channel_to_conns[c]
    BY <2>1, <2>2 DEF SocketInv, NewestKnown
  <2>4. conn[j] \in {"bound", "closing"} /\ uuid[j] = c
    <3>1. j \in Conns /\ conn_to_channel[j] = c /\ c # NoCall
      BY <2>2, <2>3, SocketsGiven DEF SocketInv, TablesAgree, AS!SocketAssumption
    <3> QED
      BY <3>1 DEF SocketInv, BoundToOwn
  <2> HIDE DEF j
  <2>5. /\ conn'[j] = "closing" /\ \A k \in Conns : k # j => conn'[k] = conn[k]
        /\ \A d \in SocketCalls : cleanup'[d] = IF d = c THEN "closing" ELSE cleanup[d]
    BY <2>1, <2>2 DEF SocketInv, SocketTypes
  <2>6. Closing(c)' /\ \A d \in SocketCalls : Closing(d) => Closing(d)'
    BY <1>1, <2>2, <2>4, <2>5 DEF Closing
  <2>7. ChannelKnown'
    BY <1>1, <2>1, <2>4, <2>5 DEF ReleaseInv, ChannelKnown, Bridged
  <2>8. WritersKnown'
    BY <1>1, <2>1, <2>4, <2>5 DEF ReleaseInv, WritersKnown
  <2>9. CleanedUp'
    BY <1>1, <2>1, <2>5, <2>6 DEF ReleaseInv, CleanedUp, Bridged
  <2> QED
    BY <2>7, <2>8, <2>9 DEF ReleaseInv
<1>5. CASE AS!CleanupHangs(c) \/ AS!CleanupForgets(c) \/ AS!CleanupRemoves(c)
  <2>1. UNCHANGED <<conn, writers>>
    BY <1>5 DEF AS!CleanupHangs, AS!CleanupForgets, AS!CleanupRemoves, AS!tcp
  <2>2. WritersKnown' /\ \A d \in SocketCalls : Closing(d)' = Closing(d)
    BY <1>1, <2>1 DEF ReleaseInv, WritersKnown, Closing
  <2>3. cleanup \in [SocketCalls -> {"none", "leaving", "closing", "forgot", "over"}]
    BY DEF SocketInv, SocketTypes
  <2>4. ChannelKnown'
    BY <1>1, <1>2, <1>3, <2>1, <2>3 DEF ReleaseInv, ChannelKnown
  <2>5. ASSUME Bridged(c)
        PROVE  /\ cleanup'[c] = "closing" => Closing(c)
               /\ cleanup'[c] \in {"forgot", "over"} =>
                    c \notin uuidext_to_channel' /\ (Closing(c) \/ \A k \in Conns : conn_to_channel[k] # c)
    <3>1. CASE AS!CleanupHangs(c)
      BY <2>3, <3>1 DEF AS!CleanupHangs
    <3>2. CASE AS!CleanupRemoves(c)
      BY <2>3, <2>5, <3>2 DEF AS!CleanupRemoves, ReleaseInv, CleanedUp
    <3>3. CASE AS!CleanupForgets(c)
      <4>1. cleanup'[c] = "forgot" /\ c \notin uuidext_to_channel'
        BY <2>3, <2>5, <3>3 DEF AS!CleanupForgets, AS!Forgotten, ReleaseInv, ChannelKnown
      <4>2. ASSUME NEW k \in Conns, conn_to_channel[k] = c
            PROVE  Closing(c)
        <5> DEFINE j == channel_to_conn[c]
        <5>1. cleanup[c] = "closing" \/ (cleanup[c] = "leaving" /\ audiosocket_conn_id[c] \notin writers)
          BY <3>3 DEF AS!CleanupForgets
        <5>2. CASE cleanup[c] = "closing"
          BY <2>5, <5>2 DEF ReleaseInv, CleanedUp
        <5>3. CASE cleanup[c] = "leaving" /\ audiosocket_conn_id[c] \notin writers
          <6>1. j \in Conns /\ uuid[j] = c /\ conn[j] \in {"bound", "closing", "ended"}
            BY <4>2 DEF SocketInv, TablesAgree, ReleaseInv, WritersKnown
          <6>2. conn[j] = "bound" => j \in channel_to_conns[c] /\ j \in writers
            BY <6>1 DEF SocketInv, TablesAgree, ReleaseInv, WritersKnown
          <6>3. conn[j] # "bound"
            BY <5>3, <6>2 DEF SocketInv, NewestKnown
          <6> QED
            BY <6>1, <6>3 DEF Closing
        <5> QED
          BY <5>1, <5>2, <5>3
      <4> QED
        BY <4>1, <4>2
    <3> QED
      BY <1>5, <3>1, <3>2, <3>3
  <2>6. CleanedUp'
    BY <1>1, <1>2, <2>2, <2>5 DEF ReleaseInv, CleanedUp
  <2> QED
    BY <2>2, <2>4, <2>6 DEF ReleaseInv
<1> QED
  BY <1>4, <1>5 DEF AS!Cleanup

\* A connection that begins, is bound or ends is nobody's that was closed.
LEMMA ConnectionReleases ==
    ASSUME SocketInv, ReleaseInv, NEW k \in Conns,
           (\E c \in SocketCalls : AS!Accept(k, c)) \/ AS!Bind(k) \/ AS!Looks(k) \/ AS!Disconnected(k)
    PROVE  ReleaseInv'
<1> USE DEF SocketInv, SocketTypes, ReleaseInv
<1>1. CASE \E c \in SocketCalls : AS!Accept(k, c)
  <2>1. PICK c \in SocketCalls : AS!Accept(k, c)
    BY <1>1
  <2>2. /\ conn[k] = "idle" /\ chan[c] # "none" /\ conn_to_channel[k] = NoCall
        /\ conn' = [conn EXCEPT ![k] = "open"] /\ uuid' = [uuid EXCEPT ![k] = c]
        /\ writers' = writers \cup {k} /\ UNCHANGED <<AS!legs, uuidext_to_channel, AS!tables>>
    BY <2>1 DEF AS!Accept, BoundToOwn
  <2>3. \A d \in SocketCalls : Closing(d)' = Closing(d)
    BY <2>2 DEF Closing
  <2>4. ChannelKnown'
    BY <2>2 DEF ChannelKnown, Bridged, AS!legs
  <2>5. WritersKnown'
    BY <2>2 DEF WritersKnown, AS!tables
  <2>6. CleanedUp'
    BY <2>2, <2>3 DEF CleanedUp, Bridged, AS!legs, AS!tables
  <2> QED
    BY <2>4, <2>5, <2>6
<1>2. CASE AS!Bind(k)
  <2> DEFINE c == uuid[k]
  <2>1. /\ conn[k] \in {"open", "looking"} /\ c \in uuidext_to_channel /\ c \in SocketCalls
        /\ conn' = [conn EXCEPT ![k] = "bound"]
        /\ conn_to_channel' = [conn_to_channel EXCEPT ![k] = c]
        /\ channel_to_conn' = [channel_to_conn EXCEPT ![c] = k]
        /\ channel_to_conns' = [channel_to_conns EXCEPT ![c] = @ \cup {k}]
        /\ known \subseteq known'
        /\ UNCHANGED <<origin, chan, cleanup, uuidext_to_channel, uuid, writers>>
    BY <1>2 DEF AS!Bind
  <2>2. \A d \in SocketCalls : Closing(d)' = Closing(d)
    BY <2>1 DEF Closing
  <2>3. ChannelKnown'
    BY <2>1 DEF ChannelKnown, Bridged
  <2>4. WritersKnown'
    BY <2>1 DEF WritersKnown
  <2>5. CleanedUp'
    BY <2>1, <2>2 DEF CleanedUp, Bridged
  <2> QED
    BY <2>3, <2>4, <2>5
<1>3. CASE AS!Looks(k)
  <2>1. /\ conn[k] = "open" /\ conn' = [conn EXCEPT ![k] = "looking"]
        /\ UNCHANGED <<AS!legs, uuidext_to_channel, uuid, writers, AS!tables>>
    BY <1>3 DEF AS!Looks
  <2>2. \A d \in SocketCalls : Closing(d)' = Closing(d)
    BY <2>1 DEF Closing
  <2> QED
    BY <2>1, <2>2 DEF ChannelKnown, WritersKnown, CleanedUp, Bridged, AS!legs, AS!tables
<1>4. CASE AS!Disconnected(k)
  <2>1. /\ conn' = [conn EXCEPT ![k] = "ended"] /\ writers' = writers \ {k} /\ conn[k] # "idle"
        /\ conn_to_channel' = [conn_to_channel EXCEPT ![k] = NoCall]
        /\ UNCHANGED <<AS!legs, uuidext_to_channel, uuid, channel_to_conn>>
    BY <1>4 DEF AS!Disconnected, AS!Ends
  <2>2. \A d \in SocketCalls : channel_to_conns'[d] \subseteq channel_to_conns[d]
    BY <1>4 DEF AS!Disconnected
  <2>3. \A d \in SocketCalls : Closing(d) => Closing(d)'
    BY <2>1 DEF Closing
  <2>4. ChannelKnown'
    BY <2>1 DEF ChannelKnown, Bridged, AS!legs
  <2>5. WritersKnown'
    BY <2>1, <2>2 DEF WritersKnown
  <2>6. CleanedUp'
    BY <2>1, <2>3, SocketsGiven DEF CleanedUp, Bridged, AS!legs, AS!SocketAssumption
  <2> QED
    BY <2>4, <2>5, <2>6
<1> QED
  BY <1>1, <1>2, <1>3, <1>4

LEMMA ReleaseStep == SocketInv /\ ReleaseInv /\ [AS!Next]_AS!vars => ReleaseInv'
<1> SUFFICES ASSUME SocketInv, ReleaseInv, [AS!Next]_AS!vars
             PROVE  ReleaseInv'
  OBVIOUS
<1>1. CASE AS!Stop
  <2>1. /\ conn' = [k \in Conns |-> IF conn[k] \in {"open", "looking", "bound"} THEN "closing" ELSE conn[k]]
        /\ writers' = {} /\ UNCHANGED <<AS!legs, uuidext_to_channel, uuid, AS!tables>>
    BY <1>1 DEF AS!Stop
  <2>2. \A d \in SocketCalls : Closing(d) => Closing(d)'
    BY <2>1 DEF Closing
  <2> QED
    BY <2>1, <2>2 DEF ReleaseInv, ChannelKnown, WritersKnown, CleanedUp, Bridged, AS!legs, AS!tables
<1>2. CASE UNCHANGED AS!vars
  BY <1>2 DEF ReleaseInv, ChannelKnown, WritersKnown, CleanedUp, Bridged, Closing,
     AS!vars, AS!legs, AS!tables, AS!tcp
<1> QED
  BY <1>1, <1>2, ChannelReleases, CleanupReleases, ConnectionReleases DEF AS!Next

\* Whatever binds, ends or reconnects while a call is cleaned up, no connection is
\* left bound to a call that is over unless something is about to close it.
THEOREM NobodyLeftBound == AS!Spec => []LeftToClose
<1>1. SocketInv /\ ReleaseInv => LeftToClose
  <2> SUFFICES ASSUME SocketInv, ReleaseInv, NEW c \in SocketCalls, NEW k \in Conns,
                      cleanup[c] = "over", conn_to_channel[k] = c
               PROVE  chan[c] \in {"up", "gone"} \/ Closing(c)
    BY DEF LeftToClose
  <2>1. conn[k] # "idle" /\ uuid[k] = c
    BY SocketsGiven DEF SocketInv, BoundToOwn, AS!SocketAssumption
  <2>2. chan[c] \in {"up", "gone"} \/ Bridged(c)
    BY <2>1 DEF ReleaseInv, ChannelKnown, Bridged
  <2> QED
    BY <2>2 DEF ReleaseInv, CleanedUp
<1> QED
  BY <1>1, SocketStart, SocketStep, ReleaseStart, ReleaseStep, PTL DEF AS!Spec
=============================================================================
