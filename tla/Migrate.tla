------------------------------- MODULE Migrate -------------------------------
(***************************************************************************)
(* The cutover from SQLite to Postgres.  An attempt creates the schema,    *)
(* copies the runs in one transaction and the events and their contents in *)
(* batches, each table from the largest id the target has, compares the    *)
(* counts it took at its start, and moves the source aside.  An attempt    *)
(* may be interrupted anywhere and started again.  The agents are to be    *)
(* stopped meanwhile; the model lets them write and notes what they wrote  *)
(* when.                                                                   *)
(*                                                                         *)
(* Ids are numbers in the order of their ULIDs, 0 is the empty string that *)
(* is below them all.  What a run's row says is whether the run has ended. *)
(***************************************************************************)
EXTENDS Integers, FiniteSets

CONSTANTS
  RunIds, EventIds,
  RunOf,       \* the run of each event
  Contents,    \* events with a content row
  EventsBatch, \* events_batch
  MigrateHabits, \* "writing": agents write while an attempt is under way;
               \* "foreign": others write the target; "stale_config": agents
               \* create the source anew when it has been moved aside
  MaxTries     \* bound of the instance: attempts started

Tables == {"runs", "events", "contents"}
Ids == [t \in Tables |-> IF t = "runs" THEN RunIds
                         ELSE IF t = "events" THEN EventIds ELSE Contents]

IdsAssumption ==
  /\ RunIds \union EventIds \subseteq Nat \ {0} /\ RunOf \in [EventIds -> RunIds]
  /\ Contents \subseteq EventIds
HabitsAssumption ==
  /\ MigrateHabits \subseteq {"writing", "foreign", "stale_config"}
  /\ EventsBatch \in Nat \ {0} /\ MaxTries \in Nat

VARIABLES
  exists,     \* there is a source at its path
  source,     \* per table, the ids of its rows
  ended,      \* runs that the source says have ended
  schema,     \* the target's tables have been created
  target,
  targetEnded,
  migrator,   \* where the attempt under way is
  tries,
  aside,      \* history: rows of the sources moved aside,
  asideEnded, \* the runs that had ended in them,
  risky,      \* rows written while an attempt was under way, or below a row
              \* of their table that the target had
  stale       \* and runs that ended when the target had their row

sourceVars == <<exists, source, ended>>
targetVars == <<schema, target, targetEnded>>
noteVars == <<aside, asideEnded, risky, stale>>
vars == <<sourceVars, targetVars, migrator, tries, noteVars>>

NoRows == [t \in Tables |-> {}]
Resting == [pc |-> "idle", after |-> 0, found |-> {}, foundEnded |-> {},
            counts |-> [t \in Tables |-> 0]]

Init ==
  /\ exists = TRUE
  /\ source = NoRows /\ ended = {}
  /\ schema = FALSE
  /\ target = NoRows /\ targetEnded = {}
  /\ migrator = Resting
  /\ tries = 0
  /\ aside = NoRows /\ asideEnded = {}
  /\ risky = {} /\ stale = {}

MaxId(s) == IF s = {} THEN 0 ELSE CHOOSE i \in s : \A j \in s : j <= i
At(pc) == migrator.pc = pc
Busy == ~At("idle")

-----------------------------------------------------------------------------
\* The agents.

Risky(t, i) ==
  IF Busy \/ \E j \in target[t] : j > i THEN risky \union {<<t, i>>} ELSE risky

\* A run starts, or one of its events is inserted, its content with it.
AgentWrites(t, i) ==
  /\ exists /\ i \notin source[t] \union aside[t] \union target[t]
  /\ Busy => "writing" \in MigrateHabits
  /\ t = "events" => RunOf[i] \in source["runs"]
  /\ source' = IF t = "events" /\ i \in Contents
               THEN [source EXCEPT !["events"] = @ \union {i}, !["contents"] = @ \union {i}]
               ELSE [source EXCEPT ![t] = @ \union {i}]
  /\ risky' = Risky(t, i) \union (IF t = "events" /\ i \in Contents
                                  THEN {<<"contents", x[2]>> : x \in Risky(t, i) \ risky}
                                  ELSE {})
  /\ UNCHANGED <<exists, ended, targetVars, migrator, tries, aside, asideEnded, stale>>

AgentEnds(r) ==
  /\ exists /\ r \in source["runs"] \ ended
  /\ Busy => "writing" \in MigrateHabits
  /\ ended' = ended \union {r}
  /\ stale' = IF Busy \/ r \in target["runs"] THEN stale \union {r} ELSE stale
  /\ UNCHANGED <<exists, source, targetVars, migrator, tries, aside, asideEnded, risky>>

\* An agent that still has the old configuration starts.
Recreate ==
  /\ ~exists /\ "stale_config" \in MigrateHabits
  /\ exists' = TRUE
  /\ UNCHANGED <<source, ended, targetVars, migrator, tries, noteVars>>

\* An agent that has the new configuration already, or another project's.
ForeignWrites(i) ==
  /\ "foreign" \in MigrateHabits /\ schema /\ i \notin source["runs"]
  /\ i \notin target["runs"] \union aside["runs"]
  /\ target' = [target EXCEPT !["runs"] = @ \union {i}]
  /\ risky' = risky \union {<<"runs", j>> : j \in source["runs"]}
  /\ UNCHANGED <<sourceVars, schema, targetEnded, migrator, tries, aside,
                 asideEnded, stale>>

-----------------------------------------------------------------------------
\* An attempt.

\* The source is opened and its rows are counted.
Count ==
  /\ At("idle") /\ exists /\ tries < MaxTries
  /\ tries' = tries + 1
  /\ migrator' = [Resting EXCEPT !.pc = "schema",
                                 !.counts = [t \in Tables |-> Cardinality(source[t])]]
  /\ UNCHANGED <<sourceVars, targetVars, noteVars>>

\* apply_migrations: one transaction behind an advisory lock.
CreateSchema ==
  /\ At("schema")
  /\ schema' = TRUE
  /\ migrator' = [migrator EXCEPT !.pc = "runs", !.after = MaxId(target["runs"])]
  /\ UNCHANGED <<sourceVars, target, targetEnded, tries, noteVars>>

\* _pg_max_id and the keyset reads of the runs.
ReadRuns ==
  /\ At("runs")
  /\ migrator' = [migrator EXCEPT
       !.pc = "commit",
       !.found = {i \in source["runs"] : i > migrator.after},
       !.foundEnded = ended]
  /\ UNCHANGED <<sourceVars, targetVars, tries, noteVars>>

\* Rows the target has meanwhile are left as they are.
CommitRuns ==
  LET fresh == migrator.found \ target["runs"] IN
    /\ At("commit")
    /\ target' = [target EXCEPT !["runs"] = @ \union fresh]
    /\ targetEnded' = targetEnded \union (fresh \intersect migrator.foundEnded)
    /\ migrator' = [migrator EXCEPT !.pc = "events", !.found = {},
                                    !.foundEnded = {},
                                    !.after = MaxId(target["events"])]
    /\ UNCHANGED <<sourceVars, schema, tries, noteVars>>

\* The rows of a table between two ids, and the first batch of those past one.
Between(t, after, last) == {j \in source[t] : after < j /\ j <= last}
Batch(t, after) ==
  {i \in source[t] : after < i /\ Cardinality(Between(t, after, i)) <= EventsBatch}

\* Mutant: the next batch begins after the largest id of the table.
ResumeFirst(t, batch) == MaxId(source[t])

\* Where the next batch begins: after the last row read.
Resume(t, batch) == MaxId(batch)

References(t, i) == IF t = "events" THEN RunOf[i] \in target["runs"]
                    ELSE i \in target["events"]

\* One batch, in a transaction that a missing run or event rolls back.
CopyBatch(t) ==
  LET batch == Batch(t, migrator.after) IN
    /\ At(t) /\ batch # {}
    /\ IF \A i \in batch : i \in target[t] \/ References(t, i)
       THEN /\ target' = [target EXCEPT ![t] = @ \union batch]
            /\ migrator' = [migrator EXCEPT !.after = Resume(t, batch)]
       ELSE /\ migrator' = Resting
            /\ UNCHANGED target
    /\ UNCHANGED <<sourceVars, schema, targetEnded, tries, noteVars>>

NextTable(t) ==
  /\ At(t) /\ Batch(t, migrator.after) = {}
  /\ migrator' = [migrator EXCEPT
       !.pc = IF t = "events" THEN "contents" ELSE "verify",
       !.after = IF t = "events" THEN MaxId(target["contents"]) ELSE 0]
  /\ UNCHANGED <<sourceVars, targetVars, tries, noteVars>>

\* Fewer rows than were counted fail the attempt.
Verify ==
  /\ At("verify")
  /\ migrator' = IF \E t \in Tables : Cardinality(target[t]) < migrator.counts[t]
                 THEN Resting ELSE [migrator EXCEPT !.pc = "rename"]
  /\ UNCHANGED <<sourceVars, targetVars, tries, noteVars>>

\* The source gets the suffix, in the place of any file that has it.
Rename ==
  /\ At("rename")
  /\ migrator' = Resting
  /\ exists' = FALSE
  /\ aside' = [t \in Tables |-> aside[t] \union source[t]]
  /\ asideEnded' = asideEnded \union ended
  /\ source' = NoRows /\ ended' = {}
  /\ UNCHANGED <<targetVars, tries, risky, stale>>

\* Ctrl-C, a lost connection or a crash.
Interrupt ==
  /\ ~At("idle")
  /\ migrator' = Resting
  /\ UNCHANGED <<sourceVars, targetVars, tries, noteVars>>

Next ==
  \/ \E t \in {"runs", "events"} : \E i \in Ids[t] : AgentWrites(t, i)
  \/ \E r \in RunIds : AgentEnds(r) \/ ForeignWrites(r)
  \/ Recreate
  \/ Count \/ CreateSchema \/ ReadRuns \/ CommitRuns
  \/ \E t \in {"events", "contents"} : CopyBatch(t) \/ NextTable(t)
  \/ Verify \/ Rename \/ Interrupt

Spec == Init /\ [][Next]_vars

-----------------------------------------------------------------------------
\* A source is moved aside only when the target has its rows, however often the
\* attempts were interrupted, unless a row was written while an attempt was under
\* way or below one the target had (cli/migrate.py:26-31, "never duplicates and
\* never errors").  A row lost this way is lost for good when a second source takes
\* the place of the first.
MovedAsideOnlyIfCopied ==
  \A t \in Tables : \A i \in aside[t] \ target[t] : <<t, i>> \in risky

\* What a run's row said when it was moved aside it says in the target, unless the
\* run ended after a first, interrupted attempt had copied its row.
RowsUpToDate ==
  \A r \in aside["runs"] \intersect target["runs"] :
    (r \in asideEnded) = (r \in targetEnded) \/ r \in stale \/ <<"runs", r>> \in risky

\* The target never has an event without its run, or a content without its event.
TargetConsistent ==
  /\ \A e \in target["events"] : RunOf[e] \in target["runs"]
  /\ target["contents"] \subseteq target["events"]
=============================================================================
