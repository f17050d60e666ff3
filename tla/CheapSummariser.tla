--------------------------- MODULE CheapSummariser ---------------------------
(***************************************************************************)
(* CheapSummariser rewrites the oversized tool results of a request with   *)
(* summaries a cheap model makes, remembers each summary by the result's   *)
(* hash, and lets itself be switched off for a task: by a tag of the run,  *)
(* or when the task's runs with summaries succeed less often than those    *)
(* held out without.  Each question is asked of the storage at most once   *)
(* per run, by the first call that needs the answer, and marked as asked   *)
(* before it is; the threads of an agent ask at the same time.             *)
(*                                                                         *)
(* One task is modelled.  A result is a member of a small set, a request   *)
(* the set of its oversized results.                                       *)
(***************************************************************************)
EXTENDS Integers, FiniteSets

CONSTANTS
  Threads, Runs, Results,
  Agents,      \* the ways the runs and their past may be: what each thread
               \* works for, whether A/B mode is on, whether it uses the kill
               \* switch's tag, what the past runs did
  None,
  Threshold,   \* regression_threshold, in percentage points
  MinRuns,     \* regression_min_runs
  Faults,
  MaxCalls     \* bound of the instance

\* The outcomes of the task's finished runs of each branch.
AgentsAssumption ==
  \A a \in Agents :
    /\ a.home \in [Threads -> Runs] /\ {a.abMode, a.tags} \subseteq BOOLEAN
    /\ \A b \in {"control", "treatment"} :
         a.past[b].runs \in Nat /\ a.past[b].successes \in 0..a.past[b].runs
NoneAssumption == None \notin Results \union {"task", "none", "control", "treatment"}
BoundsAssumption ==
  /\ Threshold \in 0..100 /\ MinRuns \in Nat \ {0} /\ MaxCalls \in Nat
  /\ Faults \subseteq {"db_error"}

VARIABLES
  agent,
  killTags,     \* runs whose log has the disable_summariser tag
  disabled,   \* the task is in _disabled_tasks
  task,       \* _task_cache: per run, None until read, else what was read
  tagChecked, \* _tag_checked
  regChecked, \* _regression_checked
  branch,     \* _ab_branch: per run, None, "control" or "treatment"
  past,       \* the finished runs the log tells of
  cache,      \* _summary_cache: results with a summary
  trigger,       \* per thread, the call it is making
  begun,
  replaced,   \* the summariser_replaced events: how many of each result
  sends,      \* history: per run, what its calls sent: "raw", "summary"
  excused     \* history: <<run, why>> and <<result, "raced">>

switchVars == <<agent, killTags, disabled, past>>
memos == <<task, tagChecked, regChecked, branch, cache>>
countVars == <<begun, replaced>>
historyVars == <<sends, excused>>
vars == <<switchVars, memos, trigger, countVars, historyVars>>

Idle == [pc |-> "idle", task |-> None, todo |-> {}, one |-> None,
           off |-> FALSE, asked |-> FALSE, worse |-> FALSE]

Init ==
  /\ agent \in Agents
  /\ killTags = {}
  /\ disabled = FALSE
  /\ task = [r \in Runs |-> None]
  /\ tagChecked = {}
  /\ regChecked = {}
  /\ branch = [r \in Runs |-> None]
  /\ past = agent.past
  /\ cache = {}
  /\ trigger = [t \in Threads |-> Idle]
  /\ begun = 0
  /\ replaced = [x \in Results |-> 0]
  /\ sends = [r \in Runs |-> {}]
  /\ excused = {}

Run(t) == agent.home[t]
At(t, pc) == trigger[t].pc = pc
Goto(t, pc) == trigger' = [trigger EXCEPT ![t].pc = pc]
Excuse(t, why) == excused' = excused \union {<<Run(t), why>>}

-----------------------------------------------------------------------------
\* compute_quality_delta: none until each branch has enough runs, and then
\* positive when the treatment succeeds less often.
Comparable(p) == \A b \in {"control", "treatment"} : p[b].runs >= MinRuns

\* The rates are floats in the code; the comparison here is exact.
DropTooLarge(p) ==
  /\ Comparable(p)
  /\ 100 * (p["control"].successes * p["treatment"].runs
            - p["treatment"].successes * p["control"].runs)
       > Threshold * p["control"].runs * p["treatment"].runs

-----------------------------------------------------------------------------
\* inkfoot.tag("disable_summariser", True) inside the run.
Tag(r) ==
  /\ agent.tags /\ r \notin killTags /\ begun < MaxCalls
  /\ killTags' = killTags \union {r}
  /\ UNCHANGED <<agent, disabled, memos, past, trigger, countVars, historyVars>>

\* enable_summariser_for_task, by an operator.
Enable ==
  /\ disabled /\ begun < MaxCalls
  /\ disabled' = FALSE
  /\ trigger' = [t \in Threads |-> [trigger[t] EXCEPT !.off = FALSE]]
  /\ excused' = excused \union {<<r, "enabled">> : r \in Runs}
  /\ UNCHANGED <<agent, killTags, memos, past, countVars, sends>>

\* A run of another process ends, and its outcome is in the log.
PastRun(b, success) ==
  /\ agent.abMode /\ past[b].runs <= MinRuns
  /\ past' = [past EXCEPT ![b].runs = @ + 1,
                          ![b].successes = @ + (IF success THEN 1 ELSE 0)]
  /\ trigger' = [t \in Threads |-> [trigger[t] EXCEPT !.worse = @ /\ DropTooLarge(past')]]
  /\ UNCHANGED <<agent, killTags, disabled, memos, countVars, historyVars>>

-----------------------------------------------------------------------------
\* before_call.

\* A request with oversized results; the others are let through at once.  The
\* record's flags say what was so when the call began.
BeginCall(t, results) ==
  /\ At(t, "idle") /\ begun < MaxCalls
  /\ begun' = begun + 1
  /\ trigger' = [trigger EXCEPT ![t] =
       [Idle EXCEPT !.pc = "task", !.todo = results, !.off = disabled,
          !.asked = Run(t) \in killTags /\ Run(t) \notin tagChecked,
          !.worse = agent.abMode /\ DropTooLarge(past) /\ Run(t) \notin regChecked]]
  /\ UNCHANGED <<switchVars, memos, replaced, historyVars>>

\* _cached_task; a read that fails is taken for a run without a task.
ReadTask(t) ==
  /\ At(t, "task")
  /\ \/ /\ task[Run(t)] # None
        /\ trigger' = [trigger EXCEPT ![t].pc = "tags", ![t].task = task[Run(t)]]
        /\ UNCHANGED excused
     \/ /\ task[Run(t)] = None
        /\ trigger' = [trigger EXCEPT ![t].pc = "memo", ![t].task = "task"]
        /\ UNCHANGED excused
     \/ /\ task[Run(t)] = None /\ "db_error" \in Faults
        /\ trigger' = [trigger EXCEPT ![t].pc = "memo", ![t].task = "none"]
        /\ Excuse(t, "misread")
  /\ UNCHANGED <<switchVars, memos, countVars, sends>>

MemoTask(t) ==
  /\ At(t, "memo")
  /\ task' = [task EXCEPT ![Run(t)] = trigger[t].task]
  /\ Goto(t, "tags")
  /\ UNCHANGED <<switchVars, tagChecked, regChecked, branch, cache, countVars,
                 historyVars>>

\* Another thread of the run is asking; this one will not wait for the answer.
Asking(t, pc) == \E u \in Threads \ {t} : Run(u) = Run(t) /\ At(u, pc)

\* _check_kill_switch_tag marks the run and then scans its log.
MarkTags(t) ==
  /\ At(t, "tags")
  /\ tagChecked' = tagChecked \union {Run(t)}
  /\ trigger' = [trigger EXCEPT
       ![t].pc = IF Run(t) \in tagChecked \/ trigger[t].task = "none" THEN "gate" ELSE "scan",
       ![t].asked = @ /\ ~Asking(t, "scan")]
  /\ UNCHANGED <<switchVars, task, regChecked, branch, cache, countVars,
                 historyVars>>

ScanTags(t) ==
  /\ At(t, "scan")
  /\ \/ disabled' = (disabled \/ Run(t) \in killTags) /\ UNCHANGED excused
     \/ "db_error" \in Faults /\ Excuse(t, "unscanned") /\ UNCHANGED disabled
  /\ Goto(t, "gate")
  /\ UNCHANGED <<agent, killTags, memos, past, countVars, sends>>

\* Nothing of the request is rewritten.
SendRaw(t) ==
  /\ trigger' = [trigger EXCEPT ![t] = Idle]
  /\ sends' = [sends EXCEPT ![Run(t)] = @ \union {"raw"}]

Off(t) == trigger[t].task = "task" /\ disabled

Gate(t) ==
  /\ At(t, "gate")
  /\ IF Off(t) THEN SendRaw(t)
     ELSE /\ Goto(t, IF agent.abMode /\ trigger[t].task = "task" THEN "mark" ELSE "next")
          /\ UNCHANGED sends
  /\ UNCHANGED <<switchVars, memos, countVars, excused>>

\* _maybe_check_regression marks the run and then reads the task's history.
MarkRegression(t) ==
  /\ At(t, "mark")
  /\ regChecked' = regChecked \union {Run(t)}
  /\ trigger' = [trigger EXCEPT
       ![t].pc = IF Run(t) \in regChecked THEN "assign" ELSE "history",
       ![t].worse = @ /\ ~Asking(t, "history")]
  /\ UNCHANGED <<switchVars, task, tagChecked, branch, cache, countVars,
                 historyVars>>

CheckRegression(t) ==
  /\ At(t, "history")
  /\ \/ disabled' = (disabled \/ DropTooLarge(past)) /\ UNCHANGED excused
     \/ "db_error" \in Faults /\ Excuse(t, "unread") /\ UNCHANGED disabled
  /\ Goto(t, "assign")
  /\ UNCHANGED <<agent, killTags, memos, past, countVars, sends>>

\* Mutant: the task is not looked up again after the check.
AssignBranchUngated(t, b) ==
  /\ At(t, "assign")
  /\ b = IF branch[Run(t)] = None THEN b ELSE branch[Run(t)]
  /\ branch' = [branch EXCEPT ![Run(t)] = b]
  /\ IF b = "control" THEN SendRaw(t) ELSE Goto(t, "next") /\ UNCHANGED sends
  /\ UNCHANGED <<switchVars, task, tagChecked, regChecked, cache, countVars,
                 excused>>

\* A branch is drawn for the run, unless it has one.
AssignBranch(t, b) ==
  /\ At(t, "assign")
  /\ IF Off(t) THEN SendRaw(t) /\ UNCHANGED branch
     ELSE /\ b = IF branch[Run(t)] = None THEN b ELSE branch[Run(t)]
          /\ branch' = [branch EXCEPT ![Run(t)] = b]
          /\ IF b = "control" THEN SendRaw(t) ELSE Goto(t, "next") /\ UNCHANGED sends
  /\ UNCHANGED <<switchVars, task, tagChecked, regChecked, cache, countVars,
                 excused>>

\* _replace: a known result is swapped, another goes to the cheap model.
Replace(t, x) ==
  /\ At(t, "next") /\ x \in trigger[t].todo
  /\ IF x \in cache
     THEN trigger' = [trigger EXCEPT ![t].todo = @ \ {x}] /\ UNCHANGED excused
     ELSE /\ trigger' = [trigger EXCEPT ![t].pc = "model", ![t].one = x]
          /\ excused' = IF \E u \in Threads : At(u, "model") /\ trigger[u].one = x
                        THEN excused \union {<<x, "raced">>} ELSE excused
  /\ UNCHANGED <<switchVars, memos, countVars, sends>>

\* The helper's call comes back through the shim and this policy, which lets it
\* pass; a summary, or when it fails or is too long a truncation, is remembered
\* in the same way and the event written.
HelperAnswers(t) ==
  /\ At(t, "model")
  /\ cache' = cache \union {trigger[t].one}
  /\ replaced' = [replaced EXCEPT ![trigger[t].one] = @ + 1]
  /\ trigger' = [trigger EXCEPT ![t].pc = "next", ![t].todo = @ \ {trigger[t].one}, ![t].one = None]
  /\ UNCHANGED <<switchVars, task, tagChecked, regChecked, branch, begun,
                 historyVars>>

SendSummaries(t) ==
  /\ At(t, "next") /\ trigger[t].todo = {}
  /\ trigger' = [trigger EXCEPT ![t] = Idle]
  /\ sends' = [sends EXCEPT ![Run(t)] = @ \union {"summary"}]
  /\ UNCHANGED <<switchVars, memos, countVars, excused>>

Next ==
  \/ Enable
  \/ \E r \in Runs : Tag(r)
  \/ \E b \in {"control", "treatment"}, s \in BOOLEAN : PastRun(b, s)
  \/ \E t \in Threads :
       \/ \E results \in (SUBSET Results) \ {{}} : BeginCall(t, results)
       \/ ReadTask(t) \/ MemoTask(t) \/ MarkTags(t) \/ ScanTags(t) \/ Gate(t)
       \/ MarkRegression(t) \/ CheckRegression(t)
       \/ \E b \in {"control", "treatment"} : AssignBranch(t, b)
       \/ \E x \in Results : Replace(t, x)
       \/ HelperAnswers(t) \/ SendSummaries(t)

Spec == Init /\ [][Next]_vars

-----------------------------------------------------------------------------
TypeOK ==
  /\ agent \in Agents /\ killTags \subseteq Runs /\ disabled \in BOOLEAN
  /\ task \in [Runs -> {None, "task", "none"}]
  /\ branch \in [Runs -> {None, "control", "treatment"}]
  /\ cache \subseteq Results /\ begun \in 0..MaxCalls
  /\ \A t \in Threads : trigger[t].pc = "model" <=> trigger[t].one # None
  /\ \A x \in Results : replaced[x] > 0 => x \in cache

\* A result is summarised and reported once in the life of the policy, however
\* often the history sends it again, unless two threads met it at the same time
\* (cheap_summariser.py:479-519; modification-policies.md has no exception).
SummarisedOnce ==
  \A x \in Results : replaced[x] > 1 => <<x, "raced">> \in excused

\* Outcomes are per run, so no run mixes the branches: what a run held out as
\* control sends is raw, and what one with summaries sends raw it sends because
\* the task has been disabled or was not known (cheap_summariser.py:594-613).
BranchNotMixed ==
  \A r \in Runs :
    branch[r] = "control" /\ "summary" \in sends[r] => <<r, "misread">> \in excused

\* A call that begins when its task is disabled rewrites nothing, unless an
\* operator enables the task meanwhile or the run's task was not known.
DisabledSendsRaw ==
  \A t \in Threads :
    trigger[t].off /\ trigger[t].pc \in {"next", "model"} => <<Run(t), "misread">> \in excused

\* A tag written before the run's first trigger, and a regression the log told of
\* before it, stop that trigger's call: nothing asked once is asked too late, but
\* for reads that failed and for another thread of the run that is still asking.
FirstTriggerHonoursSwitches ==
  \A t \in Threads :
    trigger[t].pc \in {"next", "model"} =>
      \/ ~trigger[t].asked /\ ~trigger[t].worse
      \/ \E why \in {"misread", "unscanned", "unread", "enabled"} :
           <<Run(t), why>> \in excused

=============================================================================
