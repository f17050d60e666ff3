------------------------------ MODULE RunStore ------------------------------
(***************************************************************************)
(* The database behind the Storage protocol, as SQLiteStorage and          *)
(* PostgresStorage implement it: the tables runs and events, and one       *)
(* action per transaction.  A transaction is atomic (BEGIN IMMEDIATE ..    *)
(* COMMIT in sqlite.py, a pooled connection's transaction in postgres.py). *)
(*                                                                         *)
(* A run is named by its started_at, the key that read_dirty orders by.    *)
(* EventPool holds the rows writers may insert; an event's id is its       *)
(* primary key, so every row is inserted at most once.  Sequence numbers   *)
(* are chosen before the insert, so rows arrive in any order.              *)
(***************************************************************************)
EXTENDS Projection, FiniteSets

CONSTANTS
  Runs,       \* the runs that may be started
  EventPool   \* the event rows that may be inserted

ASSUME RunsAssumption == Runs \subseteq Nat /\ IsFiniteSet(Runs)
ASSUME EventPoolAssumption == \A e \in EventPool : e.run \in Runs

VARIABLES
  status,     \* runs.status, "absent" when there is no row
  events,     \* the rows of the events table
  dirty,      \* runs.aggregates_dirty
  totals      \* the projection columns of runs

storeVars == <<status, events, dirty, totals>>

Statuses == {"absent", "running", "complete", "error"}

\* iter_events(r), as a set of rows.
Log(r) == {e \in events : e.run = r}

Rows == {r \in Runs : status[r] # "absent"}

\* Mutant: the batch is one row short.
ReadDirtyShort(limit) ==
  {r \in Rows : dirty[r]
     /\ Cardinality({q \in Rows : dirty[q] /\ q < r}) < limit - 1}

\* read_dirty(limit): the oldest dirty rows.
DirtyRows == {r \in Rows : dirty[r]}
ReadDirty(limit) ==
  {r \in DirtyRows : Cardinality({q \in DirtyRows : q < r}) < limit}

StoreInit ==
  /\ status = [r \in Runs |-> "absent"]
  /\ events = {}
  /\ dirty = [r \in Runs |-> FALSE]
  /\ totals = [r \in Runs |-> NoTotals]

StartRun(r) ==
  /\ status[r] = "absent"
  /\ status' = [status EXCEPT ![r] = "running"]
  /\ UNCHANGED <<events, dirty, totals>>

\* end_run checks nothing about the row it updates.
EndRun(r, s) ==
  /\ status[r] # "absent"
  /\ status' = [status EXCEPT ![r] = s]
  /\ UNCHANGED <<events, dirty, totals>>

\* The event row and the flag of its run, in one transaction.
InsertEvent(e) ==
  /\ status[e.run] # "absent"
  /\ e \notin events
  /\ events' = events \union {e}
  /\ dirty' = [dirty EXCEPT ![e.run] = TRUE]
  /\ UNCHANGED <<status, totals>>

MarkAllDirty ==
  /\ dirty' = [r \in Runs |-> status[r] # "absent"]
  /\ UNCHANGED <<status, events, totals>>

\* claim_clean when it returns True: the flag was set and now is not.
ClaimClean(r) ==
  /\ dirty[r]
  /\ dirty' = [dirty EXCEPT ![r] = FALSE]
  /\ UNCHANGED <<status, events, totals>>

\* Mutant: the flag is cleared after the projection, as update_aggregates did.
WriteTotalsClearing(r, t) ==
  /\ totals' = [totals EXCEPT ![r] = t]
  /\ dirty' = [dirty EXCEPT ![r] = FALSE]
  /\ UNCHANGED <<status, events>>

\* Mutant: the totals are added to the columns.
WriteTotalsAdding(r, t) ==
  /\ totals' = [totals EXCEPT ![r] =
                  [t EXCEPT !.tokens = @ + totals[r].tokens,
                            !.nanodollars = @ + totals[r].nanodollars]]
  /\ UNCHANGED <<status, events, dirty>>

\* write_totals leaves the flag alone.
WriteTotals(r, t) ==
  /\ totals' = [totals EXCEPT ![r] = t]
  /\ UNCHANGED <<status, events, dirty>>

StoreTypeOK ==
  /\ status \in [Runs -> Statuses]
  /\ events \subseteq EventPool
  /\ dirty \in [Runs -> BOOLEAN]
  /\ totals \in [Runs -> {ProjectRunTotals(rows) : rows \in SUBSET EventPool}]
=============================================================================
