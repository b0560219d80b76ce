---------------------------- MODULE MessageStore ----------------------------
(***************************************************************************)
(* What one mailbox of MessageStore promises its callers: it maps message  *)
(* ids to the last version saved, forgets what is deleted, and has done    *)
(* what was asked when the call returns.  A crash may leave an id with     *)
(* several of the versions it had since the last compaction, or with what  *)
(* was written of one: which of them is read is not promised then, nor     *)
(* after later saves and deletions, until none is left over.               *)
(***************************************************************************)
CONSTANTS Keys, Versions, Partial, None

VARIABLES
  store,    \* store[k]: the version a read returns, or None
  past,     \* past[k]: the versions of k that are still in the file
  doubled,  \* the ids with several versions
  crashed,  \* whether there was a crash
  acked     \* acked[k]: what the last call on k that returned has told

vars == <<store, past, doubled, crashed, acked>>

Init ==
  /\ store = [k \in Keys |-> None]
  /\ past = [k \in Keys |-> {}]
  /\ doubled = {}
  /\ crashed = FALSE
  /\ acked = [k \in Keys |-> None]

(* The call on k is to leave value there: it does if k has one version. *)
Leave(k, value) ==
  /\ \E left \in past'[k] \cup {None} :
       /\ k \notin doubled => left = value
       /\ store' = [store EXCEPT ![k] = left]
  /\ doubled' \in {doubled, doubled \ {k}}

SaveMessage(k, v) ==
  /\ past' = [past EXCEPT ![k] = @ \cup {v}]
  /\ Leave(k, v)
  /\ UNCHANGED <<crashed, acked>>

DeleteMessage(k) ==
  /\ UNCHANGED past
  /\ Leave(k, None)
  /\ UNCHANGED <<crashed, acked>>

Return(k) ==
  /\ \E told \in past[k] \cup {None} :
       /\ ~crashed => told = store[k]
       /\ acked' = [acked EXCEPT ![k] = told]
  /\ UNCHANGED <<store, past, doubled, crashed>>

Compact ==
  /\ \A k \in Keys : past'[k] \subseteq past[k] /\ store[k] \in past'[k] \cup {None}
  /\ UNCHANGED <<store, doubled, crashed, acked>>

Crash ==
  /\ \/ UNCHANGED past
     \/ \E k \in Keys : past' = [past EXCEPT ![k] = @ \cup {Partial}]
  /\ \A k \in Keys : store'[k] \in past'[k] \cup {None}
  /\ doubled' \subseteq Keys
  /\ crashed' = TRUE
  /\ UNCHANGED acked

Next ==
  \/ Compact \/ Crash
  \/ \E k \in Keys : (\E v \in Versions : SaveMessage(k, v)) \/ DeleteMessage(k) \/ Return(k)

Spec == Init /\ [][Next]_vars
=============================================================================
