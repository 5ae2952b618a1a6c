--------------------------- MODULE ChangelogProxy ---------------------------
(***************************************************************************)
(* What the reader of an MDT promises, with neither buckets nor timers.    *)
(* Records are fetched in order into a cache, leased to clients, and       *)
(* cleared from the changelog, in order too, once they are acknowledged.   *)
(* A record stays in the cache until it is cleared, unless the reader goes *)
(* down: then the records that were not cleared are fetched again.  So     *)
(* every record is delivered at least once before it is gone.              *)
(***************************************************************************)
EXTENDS Integers

CONSTANTS Clients, MaxRec

VARIABLES
  written,  \* records 1 .. written were written to the changelog
  cleared,  \* records 1 .. cleared were taken out of it
  cached,   \* the records the reader holds
  lease,    \* the records each client is processing
  acked     \* the records some client acknowledged

vars == <<written, cleared, cached, lease, acked>>

NoLease == [c \in Clients |-> {}]

Init ==
  /\ written = 0
  /\ cleared = 0
  /\ cached = {}
  /\ lease = NoLease
  /\ acked = {}

Write ==
  /\ written < MaxRec
  /\ written' = written + 1
  /\ UNCHANGED <<cleared, cached, lease, acked>>

\* The cache grows by the record that follows those fetched or cleared.
Fetch ==
  \E r \in 1 .. written :
    /\ cached = (cleared + 1) .. (r - 1)
    /\ cached' = cached \cup {r}
    /\ UNCHANGED <<written, cleared, lease, acked>>

\* A client without a lease gets one; it may overlap the leases of others,
\* when those were too slow.
Lend(c) ==
  /\ lease[c] = {}
  /\ \E S \in SUBSET cached : lease' = [lease EXCEPT ![c] = S]
  /\ UNCHANGED <<written, cleared, cached, acked>>

\* A client leaves without an acknowledgement.
Release(c) ==
  /\ lease' = [lease EXCEPT ![c] = {}]
  /\ UNCHANGED <<written, cleared, cached, acked>>

\* A client acknowledges its lease, and the changelog may be cleared up to a
\* record such that all those before it were acknowledged.
Settle(c) ==
  /\ acked' = acked \cup lease[c]
  /\ cleared' \in cleared .. written
  /\ (1 .. cleared') \subseteq acked'
  /\ UNCHANGED written

Ack(c) ==
  /\ Settle(c)
  /\ lease' = [lease EXCEPT ![c] = {}]
  /\ cached' = cached \ (1 .. cleared')

\* The reader goes down, at best after it has settled an acknowledgement.
Crash ==
  /\ cached' = {}
  /\ lease' = NoLease
  /\ \/ UNCHANGED <<written, cleared, acked>>
     \/ \E c \in Clients : Settle(c)

Next ==
  \/ Write
  \/ Fetch
  \/ Crash
  \/ \E c \in Clients : Lend(c) \/ Release(c) \/ Ack(c)

Spec == Init /\ [][Next]_vars
=============================================================================
