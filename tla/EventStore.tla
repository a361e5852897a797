----------------------------- MODULE EventStore -----------------------------
(***************************************************************************)
(* The event store of the order service (internal/order/event/store.go):   *)
(* the table event_store, with UNIQUE(aggregate_id, version).  Commands    *)
(* produce one event each, so an Append is one INSERT in a transaction of  *)
(* its own and no lock spans Load and Append.                              *)
(***************************************************************************)
EXTENDS OrderAggregate, FiniteSets, Integers

VARIABLE store   \* The rows of the table.

EventStoreType == store \subseteq StoredEvent

EventStoreInit == store = {}

Load(o) == {e \in store : e.order = o}

\* Load reads the rows in the order of their versions and never asks
\* rows.Err(): a connection that breaks on the way leaves a proper prefix and no error.
PartialLoads(o) == {{e \in Load(o) : e.version <= n} : n \in 0..(Cardinality(Load(o)) - 1)}

\* Mutant of Conflicts: a table without the constraint.
NeverConflicts(e) == FALSE

\* The unique constraint: the INSERT of e fails if its version is taken.
Conflicts(e) == \E f \in store : f.order = e.order /\ f.version = e.version

\* The transaction commits.
Commit(e) == ~Conflicts(e) /\ store' = store \cup {e}

\* What the history says of an order, as a command that loads it now sees it.
CurrentOrder(o) == LoadFromEvents(Load(o))
StatusOf(o) == CurrentOrder(o).status

=============================================================================
