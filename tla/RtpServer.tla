----------------------------- MODULE RtpServer -----------------------------
(***************************************************************************)
(* rtp_server.py: the pool of UDP ports of the ExternalMedia transport,    *)
(* the sessions of the calls, the receive loop of each session and the     *)
(* packets sent back.  A session object is named by its port, which is its *)
(* own from the reservation to the end of its clean-up.  Codecs, time      *)
(* stamps (seeded and advanced like sequence numbers) and the loss         *)
(* statistics are left out.                                                *)
(***************************************************************************)
EXTENDS Naturals, FiniteSets

CONSTANTS Calls, Ports, Endpoints, Ssrcs,
          SeqMod,  \* width of a sequence number, 2^16 in the code
          Lock,    \* lock_remote_endpoint
          NoCall, None

ASSUME RtpAssumption ==
    /\ Ports \subseteq Nat \ {0} /\ SeqMod \in Nat \ {0} /\ Lock \in BOOLEAN
    /\ NoCall \notin Calls /\ None \notin Endpoints /\ None \notin Ssrcs /\ None \notin Nat

VARIABLES
    running,
    port_allocation,  \* port -> call, or NoCall
    sessions,         \* call -> port of its session, or 0
    session_tasks,    \* call -> port of the session whose loop is recorded, or 0
    phase,            \* "free", "open", "closing" (popped from sessions) or "unbound"
    receiver,         \* "none", "waits", "delivers" (in engine_callback), "cancelled" or "ended"
    call,             \* the call the receive loop delivers to
    remote,           \* remote_host and remote_port
    connected,        \* what the socket is connected to
    ssrc,
    ssrc_to_call_id,
    sequence,         \* sequence_number
    seeded,           \* send_sequence_initialized
    last              \* history: the last sequence number sent

pool == <<port_allocation, sessions, session_tasks, phase>>
loop == <<receiver, call>>
rtp  == <<remote, connected, ssrc, ssrc_to_call_id>>
out  == <<sequence, seeded, last>>
vars == <<running, pool, loop, rtp, out>>

Seqs == 0 .. SeqMod - 1

Init ==
    /\ running = TRUE
    /\ port_allocation = [p \in Ports |-> NoCall]
    /\ sessions = [c \in Calls |-> 0] /\ session_tasks = [c \in Calls |-> 0]
    /\ phase = [p \in Ports |-> "free"]
    /\ receiver = [p \in Ports |-> "none"] /\ call = [p \in Ports |-> NoCall]
    /\ remote = [p \in Ports |-> None] /\ connected = [p \in Ports |-> None]
    /\ ssrc = [p \in Ports |-> None] /\ ssrc_to_call_id = [s \in Ssrcs |-> NoCall]
    /\ sequence = [p \in Ports |-> 0] /\ seeded = [p \in Ports |-> FALSE]
    /\ last = [p \in Ports |-> None]

-----------------------------------------------------------------------------
(* Sessions.                                                                *)

\* _reserve_port: the lowest port that is not allocated.
Reservable(p) ==
    port_allocation[p] = NoCall /\ \A q \in Ports : q < p => port_allocation[q] # NoCall

\* A fresh session and its receive loop, on its own socket.
Opened(c, p) ==
    /\ sessions' = [sessions EXCEPT ![c] = p]
    /\ session_tasks' = [session_tasks EXCEPT ![c] = p]
    /\ phase' = [phase EXCEPT ![p] = "open"]
    /\ receiver' = [receiver EXCEPT ![p] = "waits"]
    /\ call' = [call EXCEPT ![p] = c]
    /\ remote' = [remote EXCEPT ![p] = None] /\ connected' = [connected EXCEPT ![p] = None]
    /\ ssrc' = [ssrc EXCEPT ![p] = None] /\ UNCHANGED ssrc_to_call_id
    /\ sequence' = [sequence EXCEPT ![p] = 0] /\ seeded' = [seeded EXCEPT ![p] = FALSE]
    /\ last' = [last EXCEPT ![p] = None]

\* Nothing gives the port back when its socket cannot be bound.
allocate_session(c) ==
    /\ running /\ sessions[c] = 0
    /\ \E p \in Ports :
         /\ Reservable(p)
         /\ port_allocation' = [port_allocation EXCEPT ![p] = c]
         /\ \/ Opened(c, p)
            \/ /\ phase' = [phase EXCEPT ![p] = "unbound"]
               /\ UNCHANGED <<sessions, session_tasks, loop, rtp, out>>
    /\ UNCHANGED running

Cancelled(p) == IF receiver[p] \in {"waits", "delivers"} THEN "cancelled" ELSE receiver[p]

\* The call's cleanup, or a failed set-up: the session leaves the table at once.
cleanup_session(c) ==
    /\ sessions[c] # 0
    /\ LET p == sessions[c] IN
         /\ phase' = [phase EXCEPT ![p] = "closing"]
         /\ receiver' = [receiver EXCEPT ![p] = Cancelled(p)]
    /\ sessions' = [sessions EXCEPT ![c] = 0]
    /\ UNCHANGED <<running, port_allocation, session_tasks, call, rtp, out>>

\* The port is given back while the receive loop may still be at work.
Finished_Early(p) == receiver[p] \in {"cancelled", "ended"}

\* The receive loop has been awaited.
Finished(p) == receiver[p] = "ended"

\* The socket is closed, the port given back, the SSRC's entry dropped; so is the
\* loop recorded for the call, though it may be a newer session's by now.
Closed(p) ==
    /\ phase[p] = "closing" /\ Finished(p)
    /\ port_allocation' = [port_allocation EXCEPT ![p] = NoCall]
    /\ session_tasks' = [session_tasks EXCEPT ![call[p]] = 0]
    /\ phase' = [phase EXCEPT ![p] = "free"]
    /\ ssrc_to_call_id' = [s \in Ssrcs |-> IF s = ssrc[p] THEN NoCall ELSE ssrc_to_call_id[s]]
    /\ UNCHANGED <<running, sessions, loop, remote, connected, ssrc, out>>

\* stop: the loops are cancelled first ...
Stop ==
    /\ running /\ running' = FALSE
    /\ receiver' = [p \in Ports |-> IF phase[p] = "open" THEN Cancelled(p) ELSE receiver[p]]
    /\ UNCHANGED <<pool, call, rtp, out>>

\* ... then every session is closed and every table emptied.
Stopped ==
    /\ ~running
    /\ \A p \in Ports : phase[p] = "open" => receiver[p] = "ended"
    /\ \E p \in Ports : port_allocation[p] # NoCall
    /\ port_allocation' = [p \in Ports |-> NoCall]
    /\ sessions' = [c \in Calls |-> 0] /\ session_tasks' = [c \in Calls |-> 0]
    /\ phase' = [p \in Ports |-> IF phase[p] = "closing" THEN "closing" ELSE "free"]
    /\ ssrc_to_call_id' = [s \in Ssrcs |-> NoCall]
    /\ UNCHANGED <<running, loop, remote, connected, ssrc, out>>

-----------------------------------------------------------------------------
(* The receive loop.                                                        *)

\* A later packet seeds the sequence although packets have been sent.
Seeds_Always(p) == TRUE

\* Until the first packet is sent the sequence follows the caller's.
Seeds(p) == ~seeded[p]

\* A packet from e: a connected socket hears its peer only, a locked session its
\* first peer; the first SSRC heard is the caller's.
Packet(p, e, s) ==
    /\ receiver[p] = "waits" /\ connected[p] \in {None, e}
    /\ remote[p] \in {None, e} \/ ~Lock
    /\ remote' = [remote EXCEPT ![p] = e]
    /\ IF ssrc[p] = None
       THEN /\ ssrc' = [ssrc EXCEPT ![p] = s]
            /\ ssrc_to_call_id' = [ssrc_to_call_id EXCEPT ![s] = call[p]]
       ELSE UNCHANGED <<ssrc, ssrc_to_call_id>>
    /\ \E n \in Seqs : sequence' = [sequence EXCEPT ![p] = IF Seeds(p) THEN n ELSE @]
    /\ receiver' = [receiver EXCEPT ![p] = "delivers"]
    /\ UNCHANGED <<running, pool, call, connected, seeded, last>>

\* engine_callback returned or raised.
Delivered(p) ==
    /\ receiver[p] = "delivers"
    /\ receiver' = [receiver EXCEPT
                       ![p] = IF running /\ sessions[call[p]] # 0 THEN "waits" ELSE "ended"]
    /\ UNCHANGED <<running, pool, call, rtp, out>>

\* The socket fails (a connected one reports a refused packet): the session stays,
\* unheard.
ReceiverFails(p) ==
    /\ receiver[p] = "waits"
    /\ receiver' = [receiver EXCEPT ![p] = "ended"]
    /\ UNCHANGED <<running, pool, call, rtp, out>>

\* The cancellation reaches the loop, in the socket's wait or in the callback.
ReceiverCancelled(p) ==
    /\ receiver[p] = "cancelled"
    /\ receiver' = [receiver EXCEPT ![p] = "ended"]
    /\ UNCHANGED <<running, pool, call, rtp, out>>

-----------------------------------------------------------------------------
(* Sending.                                                                 *)

\* The first packet starts where the caller is, or anywhere when that is zero.
Start(p) == IF seeded[p] \/ sequence[p] # 0 THEN {sequence[p]} ELSE Seqs

send_audio(c) ==
    /\ sessions[c] # 0
    /\ LET p == sessions[c] IN
         /\ remote[p] # None
         /\ \E e \in {connected[p], remote[p]} :
              connected' = [connected EXCEPT ![p] = IF @ = None THEN e ELSE @]
         /\ seeded' = [seeded EXCEPT ![p] = TRUE]
         /\ \E n \in Start(p) :
              \/ /\ sequence' = [sequence EXCEPT ![p] = (n + 1) % SeqMod]
                 /\ last' = [last EXCEPT ![p] = n]
              \/ sequence' = [sequence EXCEPT ![p] = n] /\ UNCHANGED last
    /\ UNCHANGED <<running, pool, loop, remote, ssrc, ssrc_to_call_id>>

-----------------------------------------------------------------------------

Next ==
    \/ \E c \in Calls : allocate_session(c) \/ cleanup_session(c) \/ send_audio(c)
    \/ \E p \in Ports :
         \/ Closed(p) \/ Delivered(p) \/ ReceiverFails(p) \/ ReceiverCancelled(p)
         \/ \E e \in Endpoints, s \in Ssrcs : Packet(p, e, s)
    \/ Stop \/ Stopped

\* Cancellations are delivered and awaited.
Fairness == \A p \in Ports : WF_vars(Closed(p)) /\ WF_vars(ReceiverCancelled(p))

Spec == Init /\ [][Next]_vars /\ Fairness
-----------------------------------------------------------------------------
(* Properties.                                                              *)

\* Types (RTPSession, RTPServer.__init__).
TypeOK ==
    /\ running \in BOOLEAN
    /\ port_allocation \in [Ports -> Calls \cup {NoCall}]
    /\ sessions \in [Calls -> Ports \cup {0}] /\ session_tasks \in [Calls -> Ports \cup {0}]
    /\ phase \in [Ports -> {"free", "open", "closing", "unbound"}]
    /\ receiver \in [Ports -> {"none", "waits", "delivers", "cancelled", "ended"}]
    /\ call \in [Ports -> Calls \cup {NoCall}]
    /\ remote \in [Ports -> Endpoints \cup {None}] /\ connected \in [Ports -> Endpoints \cup {None}]
    /\ ssrc \in [Ports -> Ssrcs \cup {None}] /\ ssrc_to_call_id \in [Ssrcs -> Calls \cup {NoCall}]
    /\ sequence \in [Ports -> Seqs] /\ seeded \in [Ports -> BOOLEAN]
    /\ last \in [Ports -> Seqs \cup {None}]

\* The tables agree: a session has its own port, reserved for its call, and every
\* open port is the session of the call its loop delivers to.
SessionsHavePorts ==
    /\ \A c \in Calls : sessions[c] # 0 =>
         phase[sessions[c]] = "open" /\ port_allocation[sessions[c]] = c
    /\ \A p \in Ports : phase[p] = "open" =>
         port_allocation[p] \in Calls /\ call[p] = port_allocation[p] /\ sessions[call[p]] = p

\* A call never hears another's caller: while a receive loop can still deliver, its
\* port is reserved for the call it delivers to, so no later call can be given that
\* port, whatever set-ups, clean-ups and re-used call ids do (_cleanup_session awaits
\* the loop before _release_port).
LoopsHoldPorts ==
    \A p \in Ports : running /\ receiver[p] \in {"waits", "delivers", "cancelled"} =>
        port_allocation[p] = call[p]

\* What is sent to the caller is numbered without a gap or a repetition, whatever
\* packets arrive between two sends (send_sequence_initialized).
OutboundContinuous ==
    \A p \in Ports : last[p] # None => seeded[p] /\ sequence[p] = (last[p] + 1) % SeqMod

\* The port of a session that was cleaned up is given back.
PortReturned == \A p \in Ports : phase[p] = "closing" ~> phase[p] = "free"
=============================================================================
