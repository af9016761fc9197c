-------------------------- MODULE MCOutboundDialer --------------------------
(***************************************************************************)
(* OutboundDialer for TLC, in three scenarios: Busy has two leads for one  *)
(* call at a time, and users who recycle; Disturbed has one lead, room for *)
(* two calls, every fault and a restart of the engine; Imported begins     *)
(* without leads.                                                          *)
(***************************************************************************)
EXTENDS OutboundDialer, TLC

OneCampaign == [l \in Leads |-> CHOOSE c \in Campaigns : TRUE]

Busy == [max_concurrent |-> [c \in Campaigns |-> 1], operations |-> {"cancel", "recycle", "delete"},
         faults |-> {"events", "history"}, rows |-> 2, restarts |-> 0]

Disturbed == [max_concurrent |-> [c \in Campaigns |-> 2],
              operations |-> {"status", "cancel", "ignore", "delete"},
              faults |-> FaultKinds, rows |-> 1, restarts |-> 1]

Imported == [max_concurrent |-> [c \in Campaigns |-> 1], operations |-> {"import", "delete"},
             faults |-> {}, rows |-> 0, restarts |-> 0]

EachScenario == {Busy, Disturbed, Imported}

Symmetry == Permutations(Leads) \cup Permutations(Attempts)
=============================================================================
