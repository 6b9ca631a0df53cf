-------------------------- MODULE MCLeaseAndAudit --------------------------
(***************************************************************************)
(* For TLC: the dispatch lease, and the audit of a campaign's history.      *)
(* RealPayout implements the first and is what the second looks back on;    *)
(* they share no variable, so a behaviour here exercises one, chosen at the *)
(* start, and leaves the other at rest.                                     *)
(***************************************************************************)
EXTENDS LeaseProtocol, ChainHistory, TLC

VARIABLE part

allVars == <<part, vars, historyVars>>

MCInit ==
  /\ Init
  /\ \/ part = "lease"
        /\ chain = <<>> /\ indexed = [p \in Providers |-> 0] /\ HistoryRest
     \/ part = "history" /\ HistoryInit

MCNext ==
  \/ part = "lease" /\ Next /\ UNCHANGED <<part, historyVars>>
  \/ part = "history" /\ HistoryNext /\ UNCHANGED <<part, vars>>

MCSpec == MCInit /\ [][MCNext]_allVars

Alike == Permutations(Owners) \cup Permutations(Keys)

=============================================================================
