-------------------------- MODULE SchemaMigrations --------------------------
(***************************************************************************)
(* The pending DDL that each process applies when it opens a store.  On    *)
(* Postgres one transaction behind an advisory lock applies them all.  On  *)
(* SQLite executescript commits what is open and runs each statement by    *)
(* itself: a version's statements and its row in applied_migrations are    *)
(* as many transactions, and nothing keeps two processes apart; what makes *)
(* it safe is that every statement may be run again.                       *)
(***************************************************************************)
EXTENDS Integers

CONSTANTS
  Openers,     \* processes that open the store
  Versions,    \* how many migrations there are,
  Statements,  \* and statements in each
  MigrateFaults

SchemaAssumption ==
  /\ {Versions, Statements} \subseteq Nat \ {0}
  /\ MigrateFaults \subseteq {"db_error", "kill"}

VARIABLES
  kind,      \* "sqlite" or "postgres"
  created,   \* statements whose objects there are: <<version, statement>>
  recorded,  \* versions in applied_migrations
  opener,    \* per process: pc, the versions it read, where it is, and in
             \* Postgres what its transaction did
  lateFor    \* history: processes whose version another recorded meanwhile

vars == <<kind, created, recorded, opener, lateFor>>

Closed == [pc |-> "closed", read |-> {}, version |-> 1, statement |-> 1,
           creates |-> {}, records |-> {}]

Init ==
  /\ kind \in {"sqlite", "postgres"}
  /\ created = {} /\ recorded = {}
  /\ opener = [p \in Openers |-> Closed]
  /\ lateFor = {}

At(p, pc) == opener[p].pc = pc
Locked == \E p \in Openers : opener[p].pc \in {"read", "apply", "record"}

-----------------------------------------------------------------------------
\* Mutant: the advisory lock is not taken.
OpenUnlocked(p) ==
  /\ opener[p].pc \in {"closed", "failed"}
  /\ opener' = [opener EXCEPT ![p] = [Closed EXCEPT !.pc = "read"]]
  /\ UNCHANGED <<kind, created, recorded, lateFor>>

\* connect(): the bookkeeping table, and in Postgres the lock before it.
Open(p) ==
  /\ opener[p].pc \in {"closed", "failed"}
  /\ kind = "postgres" => ~Locked
  /\ opener' = [opener EXCEPT ![p] = [Closed EXCEPT !.pc = "read"]]
  /\ UNCHANGED <<kind, created, recorded, lateFor>>

ReadApplied(p) ==
  /\ At(p, "read")
  /\ opener' = [opener EXCEPT ![p] = [@ EXCEPT !.pc = "apply", !.read = recorded]]
  /\ UNCHANGED <<kind, created, recorded, lateFor>>

\* Past the last version the transaction commits.
Finish(p) ==
  /\ At(p, "apply") /\ opener[p].version > Versions
  /\ opener' = [opener EXCEPT ![p] = [Closed EXCEPT !.pc = "open"]]
  /\ created' = created \union opener[p].creates
  /\ recorded' = recorded \union opener[p].records
  /\ UNCHANGED <<kind, lateFor>>

SkipVersion(p) ==
  /\ At(p, "apply") /\ opener[p].version \in opener[p].read
  /\ opener' = [opener EXCEPT ![p].version = @ + 1]
  /\ UNCHANGED <<kind, created, recorded, lateFor>>

\* CREATE ... IF NOT EXISTS.
RunStatement(p) ==
  LET o == opener[p]
      s == <<o.version, o.statement>>
      last == o.statement = Statements
  IN /\ At(p, "apply") /\ o.version \in (1..Versions) \ o.read
     /\ opener' = [opener EXCEPT ![p] =
          [o EXCEPT !.pc = IF last THEN "record" ELSE "apply",
                    !.statement = IF last THEN 1 ELSE @ + 1,
                    !.creates = IF kind = "postgres" THEN @ \union {s} ELSE @]]
     /\ created' = IF kind = "sqlite" THEN created \union {s} ELSE created
     /\ UNCHANGED <<kind, recorded, lateFor>>

\* The version is recorded; its row being there already is an error that
\* connect() raises.
Record(p) ==
  LET o == opener[p]
      v == o.version
      clash == v \in recorded
  IN /\ At(p, "record")
     /\ IF clash
        THEN /\ opener' = [opener EXCEPT ![p] = [Closed EXCEPT !.pc = "failed"]]
             /\ lateFor' = lateFor \union {p}
             /\ UNCHANGED recorded
        ELSE /\ opener' = [opener EXCEPT ![p] =
                  [o EXCEPT !.pc = "apply", !.version = @ + 1,
                            !.records = IF kind = "postgres" THEN @ \union {v} ELSE @]]
             /\ recorded' = IF kind = "sqlite" THEN recorded \union {v} ELSE recorded
             /\ UNCHANGED lateFor
     /\ UNCHANGED <<kind, created>>

\* A statement fails, or the process dies: Postgres forgets the transaction.
Fail(p) ==
  /\ "db_error" \in MigrateFaults /\ opener[p].pc \in {"apply", "record"}
  /\ opener' = [opener EXCEPT ![p] = [Closed EXCEPT !.pc = "failed"]]
  /\ UNCHANGED <<kind, created, recorded, lateFor>>

Kill(p) ==
  /\ "kill" \in MigrateFaults /\ ~At(p, "closed")
  /\ opener' = [opener EXCEPT ![p] = Closed]
  /\ UNCHANGED <<kind, created, recorded, lateFor>>

Next ==
  \E p \in Openers :
    \/ Open(p) \/ ReadApplied(p) \/ SkipVersion(p) \/ RunStatement(p) \/ Record(p)
    \/ Finish(p) \/ Fail(p) \/ Kill(p)

Spec == Init /\ [][Next]_vars

-----------------------------------------------------------------------------
\* A process that has opened the store finds every table, and a version that is
\* recorded is whole, whoever died or raced while applying it
\* (storage/migrations.py:94-125, storage/postgres_migrations.py:137-178).
OpenMeansMigrated ==
  /\ \A v \in recorded : \A s \in 1..Statements : <<v, s>> \in created
  /\ \A p \in Openers : At(p, "open") => recorded = 1..Versions

\* connect() finds a version recorded that it has just applied only on SQLite,
\* where another process can come between the read and the insert.
OvertakenOnlyOnSqlite == lateFor # {} => kind = "sqlite"

\* Whoever opens a store finds it whole, and connect() fails only when another
\* process overtakes it (storage/migrations.py:94-125).
SchemaWhole == OpenMeansMigrated /\ OvertakenOnlyOnSqlite
=============================================================================
