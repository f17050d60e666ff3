----------------------------- MODULE LogCommands -----------------------------
(***************************************************************************)
(* Two commands beside the processes that write the log: tail, which polls *)
(* for rows by rowid from a cursor it chose at its start, and tag, which   *)
(* reads the highest sequence of a run and inserts a row after it in a     *)
(* second transaction.  A row's time is its writer's: that of an ingested  *)
(* span is the span's, so rows may arrive in another order than they are   *)
(* dated.                                                                  *)
(***************************************************************************)
EXTENDS Integers, Sequences, FiniteSets, FiniteSetsExt

CONSTANTS
  LiveRuns,    \* the runs of the log
  Matching,    \* those whose task is the one --task names, all without it
  Taggers,     \* tag commands
  Times,       \* occurred_at, and what --since comes to
  None,        \* --since left out
  FetchLimit,  \* _FETCH_BATCH_SIZE
  MaxRows,     \* bounds of the instance
  MaxTails

CommandsAssumption ==
  /\ Matching \subseteq LiveRuns
  /\ Times \subseteq Nat /\ IsFiniteSet(Times) /\ Times # {}
  /\ FetchLimit \in Nat \ {0} /\ {MaxRows, MaxTails} \subseteq Nat

VARIABLES
  rows,      \* events, in rowid order
  counter,   \* per run, its process's sequence counter
  going,     \* runs that are not over
  tagger,    \* per tag command, the run and the sequence it will insert
  tail,      \* the running tail: pc, since, start, cursor
  printed,   \* the rowids it wrote
  tails      \* how many were started

vars == <<rows, counter, going, tagger, tail, printed, tails>>

NoTail == [pc |-> "off", since |-> None, start |-> 0, cursor |-> 0]
NoTag == [pc |-> "idle", run |-> None, sequence |-> 0, readAt |-> 0]

Init ==
  /\ rows = <<>>
  /\ counter = [r \in LiveRuns |-> 0]
  /\ going = LiveRuns
  /\ tagger = [g \in Taggers |-> NoTag]
  /\ tail = NoTail
  /\ printed = <<>>
  /\ tails = 0

\* A row and, for a tag, how many rows there were when its sequence was read.
Row(r, by, at, sequence, readAt) ==
  [run |-> r, by |-> by, at |-> at, sequence |-> sequence, readAt |-> readAt]

-----------------------------------------------------------------------------
\* The run's own process.
Emit(r, at) ==
  /\ r \in going /\ Len(rows) < MaxRows
  /\ counter' = [counter EXCEPT ![r] = @ + 1]
  /\ rows' = Append(rows, Row(r, "run", at, counter'[r], 0))
  /\ UNCHANGED <<going, tagger, tail, printed, tails>>

EndRun(r) ==
  /\ r \in going
  /\ going' = going \ {r}
  /\ UNCHANGED <<rows, counter, tagger, tail, printed, tails>>

SequencesOf(r) == {rows[i].sequence : i \in {j \in DOMAIN rows : rows[j].run = r}}

TagRead(g, r) ==
  /\ tagger[g].pc = "idle" /\ Len(rows) < MaxRows
  /\ tagger' = [tagger EXCEPT ![g] =
       [pc |-> "read", run |-> r, readAt |-> Len(rows),
        sequence |-> Max({0} \union SequencesOf(r)) + 1]]
  /\ UNCHANGED <<rows, counter, going, tail, printed, tails>>

\* The row is dated now, after all there is.
TagInsert(g) ==
  /\ tagger[g].pc = "read" /\ Len(rows) < MaxRows
  /\ rows' = Append(rows, Row(tagger[g].run, "tag", Max(Times), tagger[g].sequence,
                              tagger[g].readAt))
  /\ tagger' = [tagger EXCEPT ![g] = NoTag]
  /\ UNCHANGED <<counter, going, tail, printed, tails>>

-----------------------------------------------------------------------------
\* --since is made a time by the clock, before any row is looked at.
StartTail(since) ==
  /\ tail.pc = "off" /\ tails < MaxTails
  /\ tail' = [NoTail EXCEPT !.pc = "cursor", !.since = since]
  /\ printed' = <<>>
  /\ tails' = tails + 1
  /\ UNCHANGED <<rows, counter, going, tagger>>

\* _resolve_backfill_cursor, or without --since _resolve_live_cursor.
Cursor(since) ==
  Max({0} \union {i \in DOMAIN rows : since = None \/ rows[i].at < since})

ResolveCursor ==
  /\ tail.pc = "cursor"
  /\ tail' = [tail EXCEPT !.pc = "poll", !.start = Cursor(tail.since),
                           !.cursor = Cursor(tail.since)]
  /\ UNCHANGED <<rows, counter, going, tagger, printed, tails>>

\* fetch_new_events: the first rows past the cursor that match, in rowid order; the
\* k-th is the one of rank k among them.
Fetched(cursor) ==
  LET fresh == {i \in DOMAIN rows : i > cursor /\ rows[i].run \in Matching}
      Rank(i) == Cardinality({j \in fresh : j <= i})
  IN  [k \in 1..Min({FetchLimit, Cardinality(fresh)}) |->
         CHOOSE i \in fresh : Rank(i) = k]

\* Mutant: the cursor goes to the end of the table.
PollToEnd ==
  /\ tail.pc = "poll" /\ Fetched(tail.cursor) # <<>>
  /\ printed' = printed \o Fetched(tail.cursor)
  /\ tail' = [tail EXCEPT !.cursor = Len(rows)]
  /\ UNCHANGED <<rows, counter, going, tagger, tails>>

\* One turn of tail_loop; a turn that finds nothing changes nothing.
Poll ==
  LET new == Fetched(tail.cursor) IN
    /\ tail.pc = "poll" /\ new # <<>>
    /\ printed' = printed \o new
    /\ tail' = [tail EXCEPT !.cursor = new[Len(new)]]
    /\ UNCHANGED <<rows, counter, going, tagger, tails>>

\* Ctrl-C.
StopTail ==
  /\ tail.pc # "off"
  /\ tail' = [tail EXCEPT !.pc = "off"]
  /\ UNCHANGED <<rows, counter, going, tagger, printed, tails>>

Next ==
  \/ \E r \in LiveRuns : EndRun(r) \/ \E at \in Times : Emit(r, at)
  \/ \E g \in Taggers :
       \/ \E r \in LiveRuns : TagRead(g, r)
       \/ TagInsert(g)
  \/ \E since \in Times \union {None} : StartTail(since)
  \/ ResolveCursor \/ Poll \/ StopTail

Spec == Init /\ [][Next]_vars

-----------------------------------------------------------------------------
\* A tail prints each matching row past its start once, in rowid order, and skips
\* none however many arrive between two polls (cli/tail.py:54, 199-240); a row of
\* its window that was there at its start is left out only if a later row is
\* dated before the window (cli/tail.py:172).
PrintedOnceInOrder ==
  /\ \A i, j \in DOMAIN printed : i < j => printed[i] < printed[j]
  /\ \A i \in DOMAIN rows :
       i > tail.start /\ i <= tail.cursor /\ rows[i].run \in Matching =>
         \E j \in DOMAIN printed : printed[j] = i
  /\ tail.pc = "poll" /\ tail.since # None =>
       \A i \in DOMAIN rows : rows[i].at >= tail.since /\ i <= tail.start =>
         \E j \in DOMAIN rows : j > i /\ rows[j].at < tail.since

\* Two rows of a run have one sequence only if a tag was added to a run that went
\* on, or rows came between a tag's two transactions (cli/tag.py:58-66).
ClashOnlyIfTaggedLive ==
  \A i, j \in DOMAIN rows :
    i < j /\ rows[i].run = rows[j].run /\ rows[i].sequence = rows[j].sequence =>
      \/ rows[i].by = "tag" /\ rows[j].by = "run"
      \/ rows[j].by = "tag" /\ rows[j].readAt < i
=============================================================================
