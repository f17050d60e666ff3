------------------------- MODULE RunLifecycleProofs -------------------------
(***************************************************************************)
(* What the lifecycle of runs keeps, for any processes, contexts and       *)
(* handles.                                                                *)
(*                                                                         *)
(* EndIsLogged and FlippedAtShutdown, whatever the agents do, whatever     *)
(* fails and whoever is killed.  The row of a run is flipped by the last   *)
(* step of end(), or by the abandonment sweep; the first needs that a      *)
(* handle which is ending has logged its run_end event, which no step      *)
(* takes back because the log only grows.  No step starts a run again, so  *)
(* that what a process inherited is either over or on the list of its      *)
(* sweep.                                                                  *)
(*                                                                         *)
(* SequencesDistinct and PointerRestored, of nested handles: the pointer   *)
(* of a context and what its open handles will restore are handles that    *)
(* have not ended, so events only reach runs whose counter is ahead of     *)
(* their log.                                                              *)
(***************************************************************************)
EXTENDS RunLifecycle, TLAPS

\* r has a run_end event.
Over(r) == \E i \in DOMAIN rows[r] : rows[r][i].kind = "run_end"

\* A handle that was started knows its context.
HomeKnown == \A h \in Handles : handle[h] # "new" => home[h] \in Contexts

\* A handle past the first step of end() has logged its end.
EndingLogged == \A h \in Handles : handle[h] = "ending" => Over(h)

LInv == TypeOK /\ HomeKnown /\ EndingLogged /\ EndIsLogged

\* Appending an event loses none, and adds the one appended.
LEMMA AppendKeeps ==
  ASSUME NEW s \in Seq(EventRow), NEW e \in EventRow
  PROVE  /\ Append(s, e) \in Seq(EventRow)
         /\ (\E i \in DOMAIN s : s[i].kind = "run_end")
              => \E i \in DOMAIN Append(s, e) : Append(s, e)[i].kind = "run_end"
         /\ e.kind = "run_end"
              => \E i \in DOMAIN Append(s, e) : Append(s, e)[i].kind = "run_end"
  <1> DEFINE t == Append(s, e)
  <1>1. /\ t \in Seq(EventRow)
        /\ DOMAIN t = 1 .. Len(s) + 1
        /\ DOMAIN s = 1 .. Len(s)
        /\ \A i \in 1 .. Len(s) : t[i] = s[i]
        /\ t[Len(s) + 1] = e
        /\ Len(s) \in Nat
    OBVIOUS
  <1>2. ASSUME NEW i \in DOMAIN s, s[i].kind = "run_end"
        PROVE  \E j \in DOMAIN t : t[j].kind = "run_end"
    <2>1. i \in DOMAIN t /\ t[i] = s[i]  BY <1>1
    <2> QED  BY <2>1, <1>2
  <1>3. ASSUME e.kind = "run_end"
        PROVE  \E j \in DOMAIN t : t[j].kind = "run_end"
    <2>1. Len(s) + 1 \in DOMAIN t /\ t[Len(s) + 1] = e  BY <1>1
    <2> QED  BY <2>1, <1>3
  <1> QED  BY <1>1, <1>2, <1>3

\* Adding an event to the log of one run: the type of rows is kept, and every
\* run that is over stays over.
LEMMA LogGrows ==
  ASSUME rows \in [Runs -> Seq(EventRow)],
         NEW r \in Runs, NEW e \in EventRow,
         rows' = [rows EXCEPT ![r] = Append(@, e)]
  PROVE  /\ rows' \in [Runs -> Seq(EventRow)]
         /\ \A q \in Runs : Over(q) => Over(q)'
         /\ e.kind = "run_end" => Over(r)'
  <1>1. rows[r] \in Seq(EventRow)  OBVIOUS
  <1>2. Append(rows[r], e) \in Seq(EventRow)  BY <1>1, AppendKeeps
  <1>3. rows'[r] = Append(rows[r], e) /\ \A q \in Runs : q # r => rows'[q] = rows[q]
    OBVIOUS
  <1>4. rows' \in [Runs -> Seq(EventRow)]  BY <1>2
  <1>5. ASSUME NEW q \in Runs, Over(q)  PROVE Over(q)'
    <2>1. CASE q = r  BY <2>1, <1>1, <1>3, <1>5, AppendKeeps DEF Over
    <2>2. CASE q # r  BY <2>2, <1>3, <1>5 DEF Over
    <2> QED  BY <2>1, <2>2
  <1>6. e.kind = "run_end" => Over(r)'  BY <1>1, <1>3, AppendKeeps DEF Over
  <1> QED  BY <1>4, <1>5, <1>6

\* _emit_event as the actions use it.
LEMMA EmitLogs ==
  ASSUME TypeOK, NEW p \in Procs, NEW r \in Runs, NEW kind \in Kinds,
         NEW by \in {"handle", "agent", "abandoned"}, Emit(p, r, kind, by)
  PROVE  /\ rows' \in [Runs -> Seq(EventRow)]
         /\ counter' \in [Procs -> [Runs -> Nat]]
         /\ \A q \in Runs : Over(q) => Over(q)'
         /\ kind = "run_end" => Over(r)'
  <1> DEFINE n == counter[p][r] + 1
             e == [sequence |-> n, kind |-> kind, by |-> by]
  <1>1. n \in Nat \ {0}  BY DEF TypeOK
  <1>2. e \in EventRow  BY <1>1 DEF EventRow
  <1>3. rows' = [rows EXCEPT ![r] = Append(@, e)] /\ rows \in [Runs -> Seq(EventRow)]
    BY DEF Emit, TypeOK
  <1>4. counter' = [counter EXCEPT ![p][r] = n]  BY DEF Emit
  <1>5. counter' \in [Procs -> [Runs -> Nat]]
    <2> HIDE DEF n
    <2> QED  BY <1>1, <1>4 DEF TypeOK
  <1>6. e.kind = kind  OBVIOUS
  <1> HIDE DEF e
  <1> QED  BY <1>2, <1>3, <1>5, <1>6, LogGrows

\* An insert that raises leaves the log alone.
LEMMA EmitRaisesKeeps ==
  ASSUME TypeOK, NEW p \in Procs, NEW r \in Runs, EmitRaises(p, r)
  PROVE  rows' = rows /\ counter' \in [Procs -> [Runs -> Nat]]
  <1>1. counter[p][r] + 1 \in Nat  BY DEF TypeOK
  <1> QED  BY <1>1 DEF EmitRaises, TypeOK

\* The event of the abandonment sweep.
LEMMA LoggedLogs ==
  ASSUME TypeOK, NEW r \in Runs, NEW n \in Nat \ {0}, Logged(r, n)
  PROVE  /\ rows' \in [Runs -> Seq(EventRow)]
         /\ \A q \in Runs : Over(q) => Over(q)'
         /\ Over(r)'
  <1> DEFINE e == [sequence |-> n, kind |-> "run_end", by |-> "abandoned"]
  <1>1. e \in EventRow /\ e.kind = "run_end"  BY DEF EventRow, Kinds
  <1>2. rows' = [rows EXCEPT ![r] = Append(@, e)] /\ rows \in [Runs -> Seq(EventRow)]
    BY DEF Logged, TypeOK
  <1> HIDE DEF e
  <1> QED  BY <1>1, <1>2, LogGrows

-----------------------------------------------------------------------------
\* What an action owes: no end is forgotten, and whatever it closes, or brings
\* to its last step, has its end logged.
LEMMA EndsKept ==
  ASSUME LInv,
         \A q \in Runs : Over(q) => Over(q)',
         \A r \in Runs : status'[r] \in {"complete", "error"} =>
           status[r] \in {"complete", "error"} \/ Over(r)',
         \A h \in Handles : handle'[h] = "ending" =>
           handle[h] = "ending" \/ Over(h)'
  PROVE  EndingLogged' /\ EndIsLogged'
  <1>1. \A h \in Handles : h \in Runs  BY DEF Runs
  <1>2. EndingLogged'  BY <1>1 DEF LInv, EndingLogged
  <1>3. EndIsLogged'  BY DEF LInv, EndIsLogged, Over
  <1> QED  BY <1>2, <1>3

\* Where nothing is appended and nothing closed, there is nothing to owe.
LEMMA NothingClosed ==
  ASSUME LInv, rows' = rows, status' = status,
         \A h \in Handles : handle'[h] = "ending" => handle[h] = "ending"
  PROVE  EndingLogged' /\ EndIsLogged'
  <1>1. \A q \in Runs : Over(q) => Over(q)'  BY DEF Over
  <1> QED  BY <1>1, EndsKept

\* A handle that has been started runs in a process.
LEMMA HomeProcess ==
  ASSUME LInv, NEW h \in Handles, handle[h] # "new"
  PROVE  /\ home[h] \in Contexts /\ ProcOf[home[h]] \in Procs
         /\ h \in Runs
  BY ContextsAssumption DEF LInv, HomeKnown, Runs

LEMMA Initial == Init => LInv
  <1> SUFFICES ASSUME Init PROVE LInv  OBVIOUS
  <1>1. << >> \in Seq(EventRow)  OBVIOUS
  <1>2. TypeOK  BY <1>1 DEF Init, TypeOK
  <1>3. HomeKnown /\ EndingLogged  BY DEF Init, HomeKnown, EndingLogged
  <1>4. EndIsLogged  BY DEF Init, EndIsLogged
  <1> QED  BY <1>2, <1>3, <1>4 DEF LInv

LEMMA InstrumentStep ==
  ASSUME LInv, NEW p \in Procs, Instrument(p)  PROVE LInv'
  <1> USE DEF Instrument, dbVars, memVars, handleVars
  <1>1. TypeOK'  BY DEF LInv, TypeOK
  <1>2. HomeKnown'  BY DEF LInv, HomeKnown
  <1>3. EndingLogged' /\ EndIsLogged'  BY NothingClosed
  <1> QED  BY <1>1, <1>2, <1>3 DEF LInv

LEMMA StartStep ==
  ASSUME LInv, NEW h \in Handles, NEW c \in Contexts, Start(h, c)  PROVE LInv'
  <1> USE DEF Start, Flip, boundVars
  <1>1. h \in Runs  BY DEF Runs
  <1>2. TypeOK'  BY <1>1 DEF LInv, TypeOK
  <1>3. HomeKnown'  BY DEF LInv, HomeKnown, TypeOK
  <1>4. EndingLogged' /\ EndIsLogged'
    <2>1. \A q \in Runs : Over(q) => Over(q)'  BY DEF Over
    <2>2. \A r \in Runs : status'[r] \in {"complete", "error"} =>
            status[r] \in {"complete", "error"}
      BY DEF LInv, TypeOK
    <2>3. \A g \in Handles : handle'[g] = "ending" => handle[g] = "ending"
      BY DEF LInv, TypeOK
    <2> QED  BY <2>1, <2>2, <2>3, EndsKept
  <1> QED  BY <1>2, <1>3, <1>4 DEF LInv

LEMMA StartedStep ==
  ASSUME LInv, NEW h \in Handles, Started(h)  PROVE LInv'
  <1> USE DEF Started, boundVars
  <1>1. ProcOf[home[h]] \in Procs /\ h \in Runs  BY HomeProcess
  <1>2. /\ rows' \in [Runs -> Seq(EventRow)]
        /\ counter' \in [Procs -> [Runs -> Nat]]
        /\ \A q \in Runs : Over(q) => Over(q)'
    BY <1>1, EmitLogs DEF LInv, Kinds
  <1>3. TypeOK'  BY <1>2 DEF LInv, TypeOK
  <1>4. HomeKnown'  BY DEF LInv, HomeKnown, TypeOK
  <1>5. \A g \in Handles : handle'[g] = "ending" => handle[g] = "ending"
    BY DEF LInv, TypeOK
  <1>6. EndingLogged' /\ EndIsLogged'  BY <1>2, <1>5, EndsKept
  <1> QED  BY <1>3, <1>4, <1>6 DEF LInv

LEMMA EndStep ==
  ASSUME LInv, NEW h \in Handles, End(h)  PROVE LInv'
  <1> USE DEF End, MayEnd, boundVars
  <1>1. ProcOf[home[h]] \in Procs /\ h \in Runs  BY HomeProcess
  <1>2. /\ rows' \in [Runs -> Seq(EventRow)]
        /\ counter' \in [Procs -> [Runs -> Nat]]
        /\ \A q \in Runs : Over(q) => Over(q)'
        /\ Over(h)'
    BY <1>1, EmitLogs DEF LInv, Kinds
  <1>3. TypeOK'  BY <1>2 DEF LInv, TypeOK
  <1>4. HomeKnown'  BY DEF LInv, HomeKnown, TypeOK
  <1>5. \A g \in Handles : handle'[g] = "ending" =>
          handle[g] = "ending" \/ Over(g)'
    BY <1>2 DEF LInv, TypeOK
  <1>6. EndingLogged' /\ EndIsLogged'  BY <1>2, <1>5, EndsKept
  <1> QED  BY <1>3, <1>4, <1>6 DEF LInv

LEMMA EndedStep ==
  ASSUME LInv, NEW h \in Handles, Ended(h)  PROVE LInv'
  <1> USE DEF Ended, Flip, boundVars
  <1>1. home[h] \in Contexts /\ ProcOf[home[h]] \in Procs /\ h \in Runs
    BY HomeProcess
  <1>2. counter' \in [Procs -> [Runs -> Nat]]  BY <1>1 DEF LInv, TypeOK
  <1>3. current' \in [Contexts -> Runs \union {None}]  BY <1>1 DEF LInv, TypeOK
  <1>4. TypeOK'  BY <1>1, <1>2, <1>3 DEF LInv, TypeOK
  <1>5. HomeKnown'  BY DEF LInv, HomeKnown, TypeOK
  <1>6. \A q \in Runs : Over(q) => Over(q)'  BY DEF Over
  <1>7. Over(h)'  BY DEF LInv, EndingLogged, Over
  <1>8. \A r \in Runs : status'[r] \in {"complete", "error"} =>
          status[r] \in {"complete", "error"} \/ Over(r)'
    BY <1>7 DEF LInv, TypeOK
  <1>9. \A g \in Handles : handle'[g] = "ending" => handle[g] = "ending"
    BY DEF LInv, TypeOK
  <1>10. EndingLogged' /\ EndIsLogged'  BY <1>6, <1>8, <1>9, EndsKept
  <1> QED  BY <1>4, <1>5, <1>10 DEF LInv

LEMMA StartRaisesStep ==
  ASSUME LInv, NEW h \in Handles, StartRaises(h)  PROVE LInv'
  <1> USE DEF StartRaises, boundVars
  <1>1. ProcOf[home[h]] \in Procs /\ h \in Runs  BY HomeProcess
  <1>2. rows' = rows /\ counter' \in [Procs -> [Runs -> Nat]]
    BY <1>1, EmitRaisesKeeps DEF LInv
  <1>3. TypeOK'  BY <1>2 DEF LInv, TypeOK
  <1>4. HomeKnown'  BY DEF LInv, HomeKnown, TypeOK
  <1>5. \A g \in Handles : handle'[g] = "ending" => handle[g] = "ending"
    BY DEF LInv, TypeOK
  <1>6. EndingLogged' /\ EndIsLogged'  BY <1>2, <1>5, NothingClosed
  <1> QED  BY <1>3, <1>4, <1>6 DEF LInv

LEMMA EndRaisesStep ==
  ASSUME LInv, NEW h \in Handles, EndRaises(h)  PROVE LInv'
  <1>0. handle[h] \in {"open", "ending"}  BY DEF EndRaises, MayEnd
  <1>1. ProcOf[home[h]] \in Procs /\ h \in Runs  BY <1>0, HomeProcess
  <1>2. rows' = rows /\ counter' \in [Procs -> [Runs -> Nat]]
    <2>1. CASE EmitRaises(ProcOf[home[h]], h)
      BY <2>1, <1>1, EmitRaisesKeeps DEF LInv
    <2>2. CASE UNCHANGED <<rows, counter>>  BY <2>2 DEF LInv, TypeOK
    <2> QED  BY <2>1, <2>2 DEF EndRaises
  <1>3. \E s \in {"open", "lost"} : handle' = [handle EXCEPT ![h] = s]
    BY DEF EndRaises
  <1>4. UNCHANGED <<status, process, todo, current, inflight, home, prior>>
    BY DEF EndRaises
  <1>5. TypeOK'  BY <1>2, <1>3, <1>4 DEF LInv, TypeOK
  <1>6. HomeKnown'  BY <1>0, <1>3, <1>4 DEF LInv, HomeKnown, TypeOK
  <1>7. \A g \in Handles : handle'[g] = "ending" => handle[g] = "ending"
    BY <1>3 DEF LInv, TypeOK
  <1>8. EndingLogged' /\ EndIsLogged'  BY <1>2, <1>4, <1>7, NothingClosed
  <1> QED  BY <1>5, <1>6, <1>8 DEF LInv
-----------------------------------------------------------------------------
LEMMA TagStep ==
  ASSUME LInv, NEW c \in Contexts, Tag(c)  PROVE LInv'
  <1>1. ProcOf[c] \in Procs  BY ContextsAssumption
  <1>2. current[c] \in Runs  BY DEF Tag, LInv, TypeOK
  <1>3. /\ rows' \in [Runs -> Seq(EventRow)]
        /\ counter' \in [Procs -> [Runs -> Nat]]
        /\ \A q \in Runs : Over(q) => Over(q)'
    <2>1. CASE Emit(ProcOf[c], current[c], "outcome", "agent")
      BY <2>1, <1>1, <1>2, EmitLogs DEF LInv, Kinds
    <2>2. CASE EmitRaises(ProcOf[c], current[c])
      BY <2>2, <1>1, <1>2, EmitRaisesKeeps DEF LInv, TypeOK, Over
    <2> QED  BY <2>1, <2>2 DEF Tag
  <1>4. UNCHANGED <<status, process, todo, current, inflight, handleVars>>
    BY DEF Tag
  <1>5. TypeOK'  BY <1>3, <1>4 DEF LInv, TypeOK, handleVars
  <1>6. HomeKnown'  BY <1>4 DEF LInv, HomeKnown, handleVars
  <1>7. EndingLogged' /\ EndIsLogged'  BY <1>3, <1>4, EndsKept DEF handleVars
  <1> QED  BY <1>5, <1>6, <1>7 DEF LInv

LEMMA BeginCallStep ==
  ASSUME LInv, NEW c \in Contexts, BeginCall(c)  PROVE LInv'
  <1> USE DEF BeginCall, Flip, handleVars
  <1>1. ProcOf[c] \in Procs /\ ProcOf[c] \in Runs
    BY ContextsAssumption DEF Runs
  <1>2. inflight' \in [Contexts -> Runs \union {None}]
    BY <1>1 DEF LInv, TypeOK
  <1>3. status' = status \/ status' = [status EXCEPT ![ProcOf[c]] = "running"]
    OBVIOUS
  <1>4. UNCHANGED <<rows, process, todo, counter, current, handleVars>>
    OBVIOUS
  <1>5. TypeOK'  BY <1>1, <1>2, <1>3, <1>4 DEF LInv, TypeOK
  <1>6. HomeKnown'  BY <1>4 DEF LInv, HomeKnown
  <1>7. \A q \in Runs : Over(q) => Over(q)'  BY <1>4 DEF Over
  <1>8. \A r \in Runs : status'[r] \in {"complete", "error"} =>
          status[r] \in {"complete", "error"}
    BY <1>3 DEF LInv, TypeOK
  <1>9. EndingLogged' /\ EndIsLogged'  BY <1>4, <1>7, <1>8, EndsKept
  <1> QED  BY <1>5, <1>6, <1>9 DEF LInv

LEMMA EndCallStep ==
  ASSUME LInv, NEW c \in Contexts, EndCall(c)  PROVE LInv'
  <1> USE DEF EndCall, handleVars
  <1>1. ProcOf[c] \in Procs  BY ContextsAssumption
  <1>2. inflight[c] \in Runs  BY DEF LInv, TypeOK
  <1>3. /\ rows' \in [Runs -> Seq(EventRow)]
        /\ counter' \in [Procs -> [Runs -> Nat]]
        /\ \A q \in Runs : Over(q) => Over(q)'
    BY <1>1, <1>2, EmitLogs DEF LInv, Kinds
  <1>4. TypeOK'  BY <1>3 DEF LInv, TypeOK
  <1>5. HomeKnown'  BY DEF LInv, HomeKnown
  <1>6. EndingLogged' /\ EndIsLogged'  BY <1>3, EndsKept
  <1> QED  BY <1>4, <1>5, <1>6 DEF LInv

LEMMA EndCallUnrecordedStep ==
  ASSUME LInv, NEW c \in Contexts, EndCallUnrecorded(c)  PROVE LInv'
  <1> USE DEF EndCallUnrecorded, handleVars, dbVars
  <1>1. ProcOf[c] \in Procs  BY ContextsAssumption
  <1>2. inflight[c] \in Runs  BY DEF LInv, TypeOK
  <1>3. counter' \in [Procs -> [Runs -> Nat]]  BY <1>1, <1>2 DEF LInv, TypeOK
  <1>4. TypeOK'  BY <1>3 DEF LInv, TypeOK
  <1>5. HomeKnown'  BY DEF LInv, HomeKnown
  <1>6. EndingLogged' /\ EndIsLogged'  BY NothingClosed
  <1> QED  BY <1>4, <1>5, <1>6 DEF LInv

LEMMA ShutdownStep ==
  ASSUME LInv, NEW p \in Procs, Shutdown(p)  PROVE LInv'
  <1> USE DEF Shutdown, dbVars, memVars, handleVars
  <1>1. TypeOK'  BY DEF LInv, TypeOK
  <1>2. HomeKnown'  BY DEF LInv, HomeKnown
  <1>3. EndingLogged' /\ EndIsLogged'  BY NothingClosed
  <1> QED  BY <1>1, <1>2, <1>3 DEF LInv

LEMMA MarkAbandonedStep ==
  ASSUME LInv, NEW p \in Procs, NEW r \in Runs, MarkAbandoned(p, r)  PROVE LInv'
  <1> USE DEF MarkAbandoned, Flip, handleVars
  <1>1. counter[p][r] + 1 \in Nat \ {0}  BY DEF LInv, TypeOK
  <1>2. /\ rows' \in [Runs -> Seq(EventRow)]
        /\ \A q \in Runs : Over(q) => Over(q)'
        /\ Over(r)'
    BY <1>1, LoggedLogs DEF LInv
  <1>3. TypeOK'  BY <1>2 DEF LInv, TypeOK
  <1>4. HomeKnown'  BY DEF LInv, HomeKnown
  <1>5. \A q \in Runs : status'[q] \in {"complete", "error"} =>
          status[q] \in {"complete", "error"} \/ Over(q)'
    BY <1>2 DEF LInv, TypeOK
  <1>6. EndingLogged' /\ EndIsLogged'  BY <1>2, <1>5, EndsKept
  <1> QED  BY <1>3, <1>4, <1>6 DEF LInv

LEMMA MarkFailsStep ==
  ASSUME LInv, NEW p \in Procs, NEW r \in Runs, MarkFails(p, r)  PROVE LInv'
  <1> USE DEF MarkFails, handleVars
  <1>1. counter[p][r] + 1 \in Nat \ {0}  BY DEF LInv, TypeOK
  <1>2. /\ rows' \in [Runs -> Seq(EventRow)]
        /\ \A q \in Runs : Over(q) => Over(q)'
    <2>1. CASE UNCHANGED rows  BY <2>1 DEF LInv, TypeOK, Over
    <2>2. CASE Logged(r, counter[p][r] + 1)  BY <2>2, <1>1, LoggedLogs DEF LInv
    <2> QED  BY <2>1, <2>2
  <1>3. TypeOK'  BY <1>2 DEF LInv, TypeOK
  <1>4. HomeKnown'  BY DEF LInv, HomeKnown
  <1>5. EndingLogged' /\ EndIsLogged'  BY <1>2, EndsKept
  <1> QED  BY <1>3, <1>4, <1>5 DEF LInv

LEMMA CloseStep ==
  ASSUME LInv, NEW p \in Procs, Close(p)  PROVE LInv'
  <1> USE DEF Close, dbVars, memVars, handleVars
  <1>1. TypeOK'  BY DEF LInv, TypeOK
  <1>2. HomeKnown'  BY DEF LInv, HomeKnown
  <1>3. EndingLogged' /\ EndIsLogged'  BY NothingClosed
  <1> QED  BY <1>1, <1>2, <1>3 DEF LInv

LEMMA KillStep ==
  ASSUME LInv, NEW p \in Procs, Kill(p)  PROVE LInv'
  <1> USE DEF Kill, dbVars
  <1>1. TypeOK'  BY DEF LInv, TypeOK
  <1>2. HomeKnown'
    <2>1. \A h \in Handles : Owner(h) = p => home[h] \in Contexts
      BY NamesAssumption DEF Owner, LInv, TypeOK
    <2> QED  BY <2>1 DEF LInv, HomeKnown, TypeOK
  <1>3. \A h \in Handles : handle'[h] = "ending" => handle[h] = "ending"
    OBVIOUS
  <1>4. EndingLogged' /\ EndIsLogged'  BY <1>3, NothingClosed
  <1> QED  BY <1>1, <1>2, <1>4 DEF LInv

LEMMA Step == LInv /\ [Next]_vars => LInv'
  <1> SUFFICES ASSUME LInv, [Next]_vars PROVE LInv'  OBVIOUS
  <1>1. CASE UNCHANGED vars
    <2> USE <1>1 DEF vars, dbVars, memVars, handleVars
    <2>1. TypeOK'  BY DEF LInv, TypeOK
    <2>2. HomeKnown'  BY DEF LInv, HomeKnown
    <2>3. EndingLogged' /\ EndIsLogged'  BY NothingClosed
    <2> QED  BY <2>1, <2>2, <2>3 DEF LInv
  <1>2. ASSUME NEW p \in Procs, Instrument(p)  PROVE LInv'
    BY <1>2, InstrumentStep
  <1>3. ASSUME NEW p \in Procs, Shutdown(p)  PROVE LInv'
    BY <1>3, ShutdownStep
  <1>4. ASSUME NEW p \in Procs, NEW r \in Runs,
               MarkAbandoned(p, r) \/ MarkFails(p, r)
        PROVE  LInv'
    BY <1>4, MarkAbandonedStep, MarkFailsStep
  <1>5. ASSUME NEW p \in Procs, Close(p) \/ Kill(p)  PROVE LInv'
    BY <1>5, CloseStep, KillStep
  <1>6. ASSUME NEW h \in Handles, NEW c \in Contexts, Start(h, c)  PROVE LInv'
    BY <1>6, StartStep
  <1>7. ASSUME NEW h \in Handles, Started(h) \/ StartRaises(h)  PROVE LInv'
    BY <1>7, StartedStep, StartRaisesStep
  <1>8. ASSUME NEW h \in Handles, End(h) \/ Ended(h) \/ EndRaises(h)  PROVE LInv'
    BY <1>8, EndStep, EndedStep, EndRaisesStep
  <1>9. ASSUME NEW c \in Contexts,
               Tag(c) \/ BeginCall(c) \/ EndCall(c) \/ EndCallUnrecorded(c)
        PROVE  LInv'
    BY <1>9, TagStep, BeginCallStep, EndCallStep, EndCallUnrecordedStep
  <1> QED
    BY <1>1, <1>2, <1>3, <1>4, <1>5, <1>6, <1>7, <1>8, <1>9 DEF Next

-----------------------------------------------------------------------------
\* The inductive invariant holds in every reachable state.
THEOREM LifecycleInvariant == Spec => []LInv
  BY Initial, Step, PTL DEF Spec

\* The tables, counters, pointers and handles always hold values of their
\* types, event numbers that are positive included.
THEOREM LifecycleTypes == Spec => []TypeOK
  <1>1. LInv => TypeOK  BY DEF LInv
  <1> QED  BY <1>1, LifecycleInvariant, PTL

\* No run is over, in the runs table, without a run_end event in its log that
\* says so: not for a nested, overlapping or abandoned run, and not after
\* failed inserts, kills or concurrent shutdowns.
THEOREM EndAlwaysLogged == Spec => []EndIsLogged
  <1>1. LInv => EndIsLogged  BY DEF LInv
  <1> QED  BY <1>1, LifecycleInvariant, PTL
-----------------------------------------------------------------------------
\* Abandoned runs.  A run that a process inherits has started, so it does not
\* run again once it is over; and while the process shuts down, what still
\* runs of its inheritance is on the list of the sweep.
StartedRun(r) == status[r] # "absent" /\ (r \in Handles => handle[r] # "new")

FInv ==
  /\ inherited \in [Procs -> SUBSET Runs]
  /\ \A h \in Handles : home[h] # None => handle[h] # "new"
  /\ \A p \in Procs : \A r \in inherited[p] : StartedRun(r)
  /\ \A p \in Procs : process[p] = "marking" =>
       \A r \in inherited[p] : status[r] = "running" => r \in todo[p]
  /\ FlippedAtShutdown

\* No step starts a run again.
LEMMA StartedOnce ==
  ASSUME LInv, FInv, [Next]_vars
  PROVE  /\ \A r \in Runs : StartedRun(r) =>
              StartedRun(r)' /\ (status'[r] = "running" => status[r] = "running")
         /\ \A h \in Handles : home'[h] # None => handle'[h] # "new"
<1>0. TypeOK /\ \A h \in Handles : h \in Runs /\ h \notin Procs
  BY NamesAssumption DEF LInv, Runs
<1> USE DEF StartedRun, Flip
<1>1. CASE UNCHANGED vars
  BY <1>1 DEF vars, dbVars, handleVars, FInv
<1>2. ASSUME NEW p \in Procs, Instrument(p) \/ Shutdown(p) \/ Close(p)
      PROVE  UNCHANGED <<status, handleVars>>
  BY <1>2 DEF Instrument, Shutdown, Close, dbVars
<1>3. ASSUME NEW p \in Procs, NEW r \in Runs, MarkAbandoned(p, r) \/ MarkFails(p, r)
      PROVE  /\ UNCHANGED handleVars
             /\ UNCHANGED status \/ status' = [status EXCEPT ![r] = "error"]
  BY <1>3 DEF MarkAbandoned, MarkFails
<1>4. ASSUME NEW p \in Procs, Kill(p)
      PROVE  /\ UNCHANGED <<status, home>>
             /\ \A h \in Handles : handle[h] # "new" => handle'[h] # "new"
  BY <1>4 DEF Kill, dbVars
<1>5. ASSUME NEW h \in Handles, NEW c \in Contexts, Start(h, c)
      PROVE  /\ handle[h] = "new" /\ handle'[h] # "new"
             /\ \A r \in Runs \ {h} : status'[r] = status[r]
             /\ \A g \in Handles \ {h} : handle'[g] = handle[g] /\ home'[g] = home[g]
  BY <1>0, <1>5 DEF Start, TypeOK
<1>6. ASSUME NEW h \in Handles,
             Started(h) \/ End(h) \/ Ended(h) \/ StartRaises(h) \/ EndRaises(h)
      PROVE  /\ UNCHANGED home
             /\ \A g \in Handles : handle[g] # "new" => handle'[g] # "new"
             /\ \/ UNCHANGED status
                \/ \E s \in {"complete", "error"} : status' = [status EXCEPT ![h] = s]
  BY <1>0, <1>6 DEF Started, End, Ended, StartRaises, EndRaises, TypeOK
<1>7. ASSUME NEW c \in Contexts,
             Tag(c) \/ BeginCall(c) \/ EndCall(c) \/ EndCallUnrecorded(c)
      PROVE  /\ UNCHANGED handleVars
             /\ \/ UNCHANGED status
                \/ /\ status[ProcOf[c]] = "absent"
                   /\ status' = [status EXCEPT ![ProcOf[c]] = "running"]
  BY <1>7 DEF Tag, BeginCall, EndCall, EndCallUnrecorded, dbVars
<1>8. CASE \E p \in Procs : \/ Instrument(p) \/ Shutdown(p) \/ Close(p) \/ Kill(p)
                            \/ \E r \in Runs : MarkAbandoned(p, r) \/ MarkFails(p, r)
  <2>1. CASE \E p \in Procs : Instrument(p) \/ Shutdown(p) \/ Close(p)
    BY <2>1, <1>2 DEF handleVars, FInv
  <2>2. CASE \E p \in Procs : Kill(p)
    BY <2>2, <1>4 DEF FInv
  <2>3. CASE \E p \in Procs, r \in Runs : MarkAbandoned(p, r) \/ MarkFails(p, r)
    BY <1>0, <2>3, <1>3 DEF handleVars, FInv, TypeOK
  <2>4. QED BY <1>8, <2>1, <2>2, <2>3
<1>9. CASE \E h \in Handles, c \in Contexts : Start(h, c)
  BY <1>0, <1>9, <1>5 DEF FInv
<1>10. CASE \E h \in Handles :
              Started(h) \/ End(h) \/ Ended(h) \/ StartRaises(h) \/ EndRaises(h)
  BY <1>0, <1>10, <1>6 DEF FInv, TypeOK
<1>11. CASE \E c \in Contexts :
              Tag(c) \/ BeginCall(c) \/ EndCall(c) \/ EndCallUnrecorded(c)
  BY <1>0, <1>11, <1>7, ZenonT(40) DEF handleVars, FInv, TypeOK
<1>12. QED BY <1>1, <1>8, <1>9, <1>10, <1>11 DEF Next

\* Only the steps of p's own instrument() and shutdown() touch what p inherited
\* and what is on its list.
LEMMA SweepFrame ==
  ASSUME LInv, FInv, [Next]_vars, NEW p \in Procs
  PROVE  \/ UNCHANGED <<process[p], todo[p], inherited[p]>>
         \/ Instrument(p) \/ Shutdown(p) \/ Close(p) \/ Kill(p)
         \/ \E r \in Runs : MarkAbandoned(p, r) \/ MarkFails(p, r)
<1>0. TypeOK
  BY DEF LInv
<1>1. CASE UNCHANGED vars
  BY <1>1 DEF vars
<1>2. CASE \E h \in Handles :
             \/ \E c \in Contexts : Start(h, c)
             \/ Started(h) \/ End(h) \/ Ended(h) \/ StartRaises(h) \/ EndRaises(h)
  BY <1>2 DEF Start, Started, End, Ended, StartRaises, EndRaises
<1>3. CASE \E c \in Contexts :
             Tag(c) \/ BeginCall(c) \/ EndCall(c) \/ EndCallUnrecorded(c)
  BY <1>3 DEF Tag, BeginCall, EndCall, EndCallUnrecorded
<1>4. ASSUME NEW q \in Procs, q # p,
             \/ Instrument(q) \/ Shutdown(q) \/ Close(q) \/ Kill(q)
             \/ \E r \in Runs : MarkAbandoned(q, r) \/ MarkFails(q, r)
      PROVE  UNCHANGED <<process[p], todo[p], inherited[p]>>
  BY <1>0, <1>4
     DEF Instrument, Shutdown, Close, Kill, MarkAbandoned, MarkFails, TypeOK, FInv
<1>5. QED BY <1>1, <1>2, <1>3, <1>4 DEF Next

LEMMA FlippedInit == Init => FInv
  BY DEF Init, FInv, FlippedAtShutdown

LEMMA FlippedStep == LInv /\ FInv /\ [Next]_vars => FInv'
<1> SUFFICES ASSUME LInv, FInv, [Next]_vars PROVE FInv'
  OBVIOUS
<1>0. TypeOK
  BY DEF LInv
<1>1. \A h \in Handles : home'[h] # None => handle'[h] # "new"
  BY StartedOnce
<1>2. ASSUME NEW p \in Procs
      PROVE  /\ inherited'[p] \in SUBSET Runs
             /\ \A r \in inherited'[p] : StartedRun(r)'
             /\ process'[p] = "marking" =>
                  \A r \in inherited'[p] : status'[r] = "running" => r \in todo'[p]
             /\ process'[p] = "off" => \A r \in inherited'[p] : status'[r] # "running"
  <2>1. inherited[p] \in SUBSET Runs /\ \A r \in inherited[p] : StartedRun(r)
    BY DEF FInv
  <2>2. \A r \in inherited[p] :
          StartedRun(r)' /\ (status'[r] = "running" => status[r] = "running")
    BY <2>1, StartedOnce
  <2>3. CASE UNCHANGED <<process[p], todo[p], inherited[p]>>
    BY <2>1, <2>2, <2>3 DEF FInv, FlippedAtShutdown
  <2>4. CASE Instrument(p)
    <3>1. /\ process'[p] = "on"
          /\ UNCHANGED <<status, handle>>
          /\ inherited'[p] = {r \in Runs : /\ status[r] = "running"
                                /\ Owner(r) # None /\ process[Owner(r)] = "dead"}
      BY <1>0, <2>4 DEF Instrument, dbVars, handleVars, TypeOK, FInv
    <3>2. \A r \in Runs : Owner(r) # None /\ r \in Handles => handle[r] # "new"
      BY NamesAssumption DEF Owner, FInv
    <3>3. QED BY <3>1, <3>2 DEF StartedRun
  <2>5. CASE Shutdown(p)
    <3>1. /\ process'[p] = "marking" /\ UNCHANGED <<inherited, status>>
          /\ todo'[p] = {r \in Runs : status[r] = "running"}
      BY <1>0, <2>5 DEF Shutdown, dbVars, TypeOK
    <3>2. QED BY <2>1, <2>2, <3>1
  <2>6. CASE Close(p)
    <3>1. /\ process[p] = "marking" /\ process'[p] = "off" /\ todo[p] = {}
          /\ UNCHANGED <<inherited, status>>
      BY <1>0, <2>6 DEF Close, dbVars, TypeOK
    <3>2. QED BY <2>1, <2>2, <3>1 DEF FInv
  <2>7. CASE Kill(p)
    <3>1. process'[p] = "dead" /\ UNCHANGED inherited
      BY <1>0, <2>7 DEF Kill, TypeOK
    <3>2. QED BY <2>1, <2>2, <3>1
  <2>8. ASSUME NEW r \in Runs, MarkAbandoned(p, r)
        PROVE  /\ process'[p] = "marking" /\ inherited'[p] = inherited[p]
               /\ \A q \in inherited[p] : status'[q] = "running" => q \in todo'[p]
    <3>1. /\ process[p] = "marking" /\ UNCHANGED <<process, inherited>>
          /\ todo'[p] = todo[p] \ {r} /\ status'[r] = "error"
      BY <1>0, <2>8 DEF MarkAbandoned, Flip, TypeOK
    <3>2. QED BY <2>2, <3>1 DEF FInv
  <2>9. ASSUME NEW r \in Runs, MarkFails(p, r)
        PROVE  /\ process'[p] = "marking" /\ inherited'[p] \subseteq inherited[p]
               /\ \A q \in inherited'[p] : status'[q] = "running" => q \in todo'[p]
    <3>1. /\ process[p] = "marking" /\ UNCHANGED process
          /\ todo'[p] = todo[p] \ {r} /\ inherited'[p] = inherited[p] \ {r}
      BY <1>0, <2>9 DEF MarkFails, TypeOK, FInv
    <3>2. QED BY <2>2, <3>1 DEF FInv
  <2>10. QED
    BY <2>1, <2>2, <2>3, <2>4, <2>5, <2>6, <2>7, <2>8, <2>9, SweepFrame
<1>3. inherited' \in [Procs -> SUBSET Runs]
  <2>1. CASE \E p \in Procs : Instrument(p)
    BY <2>1, <1>2 DEF Instrument, FInv
  <2>2. CASE \E p \in Procs, r \in Runs : MarkFails(p, r)
    BY <2>2 DEF MarkFails, FInv
  <2>3. CASE UNCHANGED inherited
    BY <2>3 DEF FInv
  <2>4. QED
    BY <2>1, <2>2, <2>3
       DEF Next, Shutdown, MarkAbandoned, Close, Kill, Start, Started, End, Ended,
           StartRaises, EndRaises, Tag, BeginCall, EndCall, EndCallUnrecorded, vars
<1>4. QED BY <1>1, <1>2, <1>3 DEF FInv, FlippedAtShutdown

\* For any number of processes, whatever agents do and whatever fails: a run that
\* was running when its process died is over by the time a process that found
\* it at its start has shut down, unless marking that very run failed
\* (_run_lifecycle.py:31, docs/concepts/storage.md:132).
THEOREM InheritedRunsFlipped == Spec => []FlippedAtShutdown
<1>1. FInv => FlippedAtShutdown
  BY DEF FInv
<1>2. QED BY <1>1, FlippedInit, FlippedStep, LifecycleInvariant, PTL DEF Spec
-----------------------------------------------------------------------------
\* A process that is instrumented once, whose agents nest their `with` blocks and
\* wait for their calls, and where nothing fails.
NestedOnce ==
  /\ Habits = {} /\ Faults = {}
  /\ MaxStarts = 1
  /\ \A p, q \in Procs : p = q

Busy == {"starting", "open", "ending"}

\* The pointer of a context, and what an open handle will restore, are handles of
\* that context that have not ended.
CurrentIsBusy ==
  \A c \in Contexts : current[c] # None =>
    /\ current[c] \in Handles
    /\ home[current[c]] = c /\ handle[current[c]] \in Busy

PriorIsOpen ==
  \A h \in Handles : handle[h] \in Busy /\ prior[h] # None =>
    /\ prior[h] \in Handles
    /\ home[prior[h]] = home[h] /\ handle[prior[h]] = "open"

CallsInOpenRuns ==
  \A c \in Contexts : inflight[c] \in Handles => handle[inflight[c]] = "open"

EndedIsOver == \A h \in Handles : handle[h] = "ended" => status[h] # "running"

SweptHasNotEnded ==
  \A p \in Procs : process[p] = "marking" =>
    \A h \in Handles \intersect todo[p] : handle[h] # "ended"

Instrumented ==
  /\ starts \in [Procs -> Nat]
  /\ \A p \in Procs : process[p] # "new" => starts[p] >= 1

\* p gives r no more events: r has ended, or p has swept it or found nothing to
\* sweep.
Silent(p, r) ==
  \/ r \in Handles /\ handle[r] = "ended"
  \/ process[p] = "marking" /\ r \notin todo[p]
  \/ process[p] = "off"

\* Until then the counter has reached every number of its log.
CounterAhead ==
  \A p \in Procs, r \in Runs :
    Silent(p, r) \/ \A i \in DOMAIN rows[r] : rows[r][i].sequence <= counter[p][r]

NInv ==
  /\ CurrentIsBusy /\ PriorIsOpen /\ CallsInOpenRuns
  /\ EndedIsOver /\ SweptHasNotEnded /\ Instrumented
  /\ CounterAhead /\ SequencesDistinct

\* An event with a number above those of its log.
LEMMA AppendDistinct ==
  ASSUME NEW s \in Seq(EventRow), NEW e \in EventRow,
         \A i \in DOMAIN s : s[i].sequence < e.sequence,
         \A i, j \in DOMAIN s : s[i].sequence = s[j].sequence => i = j
  PROVE  /\ \A i \in DOMAIN Append(s, e) : Append(s, e)[i].sequence <= e.sequence
         /\ \A i, j \in DOMAIN Append(s, e) :
              Append(s, e)[i].sequence = Append(s, e)[j].sequence => i = j
<1> DEFINE t == Append(s, e)
<1>1. /\ DOMAIN t = 1 .. Len(s) + 1 /\ DOMAIN s = 1 .. Len(s) /\ Len(s) \in Nat
      /\ \A i \in 1 .. Len(s) : t[i] = s[i] /\ s[i] \in EventRow
      /\ t[Len(s) + 1] = e
  OBVIOUS
<1>2. e.sequence \in Nat /\ \A i \in 1 .. Len(s) : s[i].sequence \in Nat
  BY <1>1 DEF EventRow
<1> HIDE DEF t
<1>3. \A i \in DOMAIN t : \/ i = Len(s) + 1 /\ t[i] = e
                          \/ i \in DOMAIN s /\ t[i] = s[i]
  BY <1>1
<1>4. \A i \in DOMAIN t : t[i].sequence <= e.sequence
  BY <1>1, <1>2, <1>3
<1>5. \A i, j \in DOMAIN t : t[i].sequence = t[j].sequence => i = j
  BY <1>1, <1>2, <1>3
<1>6. QED BY <1>4, <1>5 DEF t

\* The next number of the counter keeps the numbers of a run apart.
LEMMA NextNumber ==
  ASSUME LInv, NInv, NEW p \in Procs, NEW r \in Runs, ~Silent(p, r),
         NEW kind \in Kinds, NEW by \in {"handle", "agent", "abandoned"},
         rows' = [rows EXCEPT ![r] =
           Append(@, [sequence |-> counter[p][r] + 1, kind |-> kind, by |-> by])]
  PROVE  /\ SequencesDistinct'
         /\ \A i \in DOMAIN rows'[r] : rows'[r][i].sequence <= counter[p][r] + 1
         /\ \A q \in Runs \ {r} : rows'[q] = rows[q]
<1> DEFINE e == [sequence |-> counter[p][r] + 1, kind |-> kind, by |-> by]
<1>1. /\ rows \in [Runs -> Seq(EventRow)] /\ counter[p][r] \in Nat
      /\ rows[r] \in Seq(EventRow)
  BY DEF LInv, TypeOK
<1>2. e \in EventRow /\ e.sequence = counter[p][r] + 1
  BY <1>1 DEF EventRow
<1>3. \A i \in DOMAIN rows[r] : rows[r][i].sequence < counter[p][r] + 1
  <2> SUFFICES ASSUME NEW i \in DOMAIN rows[r]
               PROVE  rows[r][i].sequence < counter[p][r] + 1
    OBVIOUS
  <2>1. rows[r][i].sequence \in Nat
    <3>1. rows[r][i] \in EventRow
      BY <1>1
    <3>2. QED BY <3>1 DEF EventRow
  <2>2. rows[r][i].sequence <= counter[p][r]
    BY DEF NInv, CounterAhead
  <2>3. QED BY <1>1, <2>1, <2>2
<1>4. \A i, j \in DOMAIN rows[r] : rows[r][i].sequence = rows[r][j].sequence => i = j
  BY DEF NInv, SequencesDistinct
<1>5. rows'[r] = Append(rows[r], e) /\ \A q \in Runs \ {r} : rows'[q] = rows[q]
  BY <1>1
<1> HIDE DEF e
<1>6. /\ \A i \in DOMAIN rows'[r] : rows'[r][i].sequence <= e.sequence
      /\ \A i, j \in DOMAIN rows'[r] :
           rows'[r][i].sequence = rows'[r][j].sequence => i = j
  BY <1>1, <1>2, <1>3, <1>4, <1>5, AppendDistinct
<1>7. SequencesDistinct'
  BY <1>5, <1>6 DEF NInv, SequencesDistinct
<1>8. QED BY <1>2, <1>5, <1>6, <1>7

\* An event of a run that is not silent, in a step after which only runs that were
\* silent are.
LEMMA EmitAhead ==
  ASSUME LInv, NInv, NestedOnce, NEW p \in Procs, NEW r \in Runs, ~Silent(p, r),
         NEW kind \in Kinds, NEW by \in {"handle", "agent", "abandoned"},
         Emit(p, r, kind, by),
         \A q \in Runs : Silent(p, q) => Silent(p, q)'
  PROVE  CounterAhead' /\ SequencesDistinct'
<1>1. /\ counter' = [counter EXCEPT ![p][r] = counter[p][r] + 1]
      /\ rows' = [rows EXCEPT ![r] =
           Append(@, [sequence |-> counter[p][r] + 1, kind |-> kind, by |-> by])]
  BY DEF Emit
<1>2. /\ SequencesDistinct'
      /\ \A i \in DOMAIN rows'[r] : rows'[r][i].sequence <= counter[p][r] + 1
      /\ \A q \in Runs \ {r} : rows'[q] = rows[q]
  BY <1>1, NextNumber
<1>3. counter'[p][r] = counter[p][r] + 1 /\ \A q \in Runs \ {r} : counter'[p][q] = counter[p][q]
  BY <1>1 DEF LInv, TypeOK
<1>4. CounterAhead'
  BY <1>2, <1>3 DEF NInv, CounterAhead, NestedOnce
<1>5. QED BY <1>2, <1>4

LEMMA NestedInit == Init => NInv
<1> SUFFICES ASSUME Init PROVE NInv
  OBVIOUS
<1>1. CurrentIsBusy /\ PriorIsOpen /\ CallsInOpenRuns
  BY NamesAssumption
     DEF Init, CurrentIsBusy, PriorIsOpen, CallsInOpenRuns, Busy
<1>2. EndedIsOver /\ SweptHasNotEnded /\ Instrumented
  BY DEF Init, EndedIsOver, SweptHasNotEnded, Instrumented
<1>3. \A r \in Runs : DOMAIN rows[r] = {}
  BY DEF Init
<1>4. CounterAhead /\ SequencesDistinct
  BY <1>3 DEF CounterAhead, SequencesDistinct
<1>5. QED BY <1>1, <1>2, <1>4 DEF NInv

\* The steps of a process.
LEMMA NestedProcess ==
  ASSUME LInv, NInv, NestedOnce, NEW p \in Procs,
         \/ Instrument(p) \/ Shutdown(p) \/ Close(p) \/ Kill(p)
         \/ \E r \in Runs : MarkAbandoned(p, r) \/ MarkFails(p, r)
  PROVE  NInv'
<1>0. TypeOK /\ Procs = {p}
  BY DEF LInv, NestedOnce
<1>1. ~Kill(p) /\ \A r \in Runs : ~MarkFails(p, r)
  BY DEF Kill, MarkFails, NestedOnce
<1>2. CASE Instrument(p)
  <2>1. /\ process[p] = "new" /\ process'[p] = "on"
        /\ starts' = [starts EXCEPT ![p] = @ + 1]
        /\ UNCHANGED <<status, rows, todo, counter, current, inflight, handle, home,
                       prior>>
    BY <1>0, <1>2
       DEF Instrument, NInv, Instrumented, NestedOnce, TypeOK, dbVars, memVars,
           handleVars
  <2>2. \A r \in Runs : Silent(p, r)' => Silent(p, r)
    BY <1>0, <2>1 DEF Silent
  <2>3. CounterAhead' /\ SequencesDistinct'
    BY <1>0, <2>1, <2>2 DEF NInv, CounterAhead, SequencesDistinct, Silent
  <2>4. CurrentIsBusy' /\ PriorIsOpen' /\ CallsInOpenRuns' /\ EndedIsOver'
    BY <2>1 DEF NInv, CurrentIsBusy, PriorIsOpen, CallsInOpenRuns, EndedIsOver
  <2>5. SweptHasNotEnded' /\ Instrumented'
    BY <1>0, <2>1 DEF NInv, SweptHasNotEnded, Instrumented
  <2>6. QED BY <2>3, <2>4, <2>5 DEF NInv
<1>3. CASE Shutdown(p) \/ Close(p)
  <2>1. /\ UNCHANGED <<status, rows, counter, current, inflight, handle, home, prior,
                       starts>>
        /\ process[p] \in {"on", "marking"}
        /\ \/ /\ process[p] = "on" /\ process'[p] = "marking"
              /\ todo'[p] = {r \in Runs : status[r] = "running"}
           \/ process[p] = "marking" /\ process'[p] = "off"
    BY <1>0, <1>3 DEF Shutdown, Close, TypeOK, dbVars, memVars, handleVars, boundVars
  <2>2. \A r \in Runs : Silent(p, r) => Silent(p, r)'
    BY <1>0, <2>1 DEF Silent, NInv, EndedIsOver
  <2>3. CounterAhead' /\ SequencesDistinct'
    BY <1>0, <2>1, <2>2 DEF NInv, CounterAhead, SequencesDistinct
  <2>4. CurrentIsBusy' /\ PriorIsOpen' /\ CallsInOpenRuns' /\ EndedIsOver'
    BY <2>1 DEF NInv, CurrentIsBusy, PriorIsOpen, CallsInOpenRuns, EndedIsOver
  <2>5. SweptHasNotEnded' /\ Instrumented'
    BY <1>0, <2>1 DEF NInv, SweptHasNotEnded, Instrumented, EndedIsOver
  <2>6. QED BY <2>3, <2>4, <2>5 DEF NInv
<1>4. ASSUME NEW r \in Runs, MarkAbandoned(p, r)
      PROVE  NInv'
  <2>1. /\ process[p] = "marking" /\ process'[p] = "marking" /\ r \in todo[p]
        /\ todo' = [todo EXCEPT ![p] = @ \ {r}]
        /\ rows' = [rows EXCEPT ![r] = Append(@, [sequence |-> counter[p][r] + 1,
                                    kind |-> "run_end", by |-> "abandoned"])]
        /\ status' = [status EXCEPT ![r] = "error"]
        /\ counter' = [counter EXCEPT ![p][r] = 0]
        /\ UNCHANGED <<process, current, inflight, handle, home, prior, starts>>
    BY <1>4 DEF MarkAbandoned, Logged, Flip, handleVars, boundVars
  <2>2. ~Silent(p, r)
    BY <2>1 DEF Silent, NInv, SweptHasNotEnded
  <2>3. /\ SequencesDistinct'
        /\ \A q \in Runs \ {r} : rows'[q] = rows[q]
    BY <2>1, <2>2, NextNumber DEF Kinds
  <2>4. Silent(p, r)' /\ \A q \in Runs : Silent(p, q) => Silent(p, q)'
    BY <1>0, <2>1 DEF Silent, TypeOK
  <2>5. CounterAhead'
    BY <1>0, <2>1, <2>3, <2>4 DEF NInv, CounterAhead, TypeOK
  <2>6. CurrentIsBusy' /\ PriorIsOpen' /\ CallsInOpenRuns'
    BY <2>1 DEF NInv, CurrentIsBusy, PriorIsOpen, CallsInOpenRuns
  <2>7. EndedIsOver' /\ SweptHasNotEnded' /\ Instrumented'
    BY <1>0, <2>1
       DEF NInv, EndedIsOver, SweptHasNotEnded, Instrumented, TypeOK, Runs
  <2>8. QED BY <2>3, <2>5, <2>6, <2>7 DEF NInv
<1>5. QED BY <1>1, <1>2, <1>3, <1>4
\* An agent acts in a process that is on.
LEMMA LiveIsOn ==
  ASSUME NestedOnce, NEW c \in Contexts, Live(c)
  PROVE  process[ProcOf[c]] = "on" /\ ProcOf[c] \in Procs /\ Procs = {ProcOf[c]}
BY ContextsAssumption DEF Live, NestedOnce

LEMMA NestedStart ==
  ASSUME LInv, NInv, NestedOnce, NEW h \in Handles, NEW c \in Contexts, Start(h, c)
  PROVE  NInv'
<1> DEFINE p == ProcOf[c]
<1>0. /\ TypeOK /\ process[p] = "on" /\ Procs = {p} /\ h \in Runs
      /\ CurrentIsBusy /\ PriorIsOpen /\ CallsInOpenRuns
  BY LiveIsOn DEF LInv, NInv, Start, Runs
<1>1. /\ handle[h] = "new"
      /\ status' = [status EXCEPT ![h] = "running"]
      /\ handle' = [handle EXCEPT ![h] = "starting"]
      /\ home' = [home EXCEPT ![h] = c]
      /\ prior' = [prior EXCEPT ![h] = current[c]]
      /\ current' = [current EXCEPT ![c] = h]
      /\ UNCHANGED <<rows, process, todo, counter, inflight, starts>>
      /\ ~InLifecycleCall(c)
  BY DEF Start, Flip, boundVars
<1>2. CurrentIsBusy'
  BY <1>0, <1>1 DEF CurrentIsBusy, Busy, TypeOK
<1>3. current[c] # None =>
        current[c] \in Handles /\ home[current[c]] = c /\ handle[current[c]] = "open"
  BY <1>0, <1>1 DEF CurrentIsBusy, InLifecycleCall, Busy
<1>4. PriorIsOpen'
  BY <1>0, <1>1, <1>3 DEF PriorIsOpen, Busy, TypeOK
<1>5. CallsInOpenRuns' /\ EndedIsOver'
  BY <1>0, <1>1 DEF NInv, CallsInOpenRuns, EndedIsOver, TypeOK
<1>6. SweptHasNotEnded' /\ Instrumented'
  BY <1>0, <1>1 DEF NInv, SweptHasNotEnded, Instrumented
<1>7. \A q \in Runs : Silent(p, q) => Silent(p, q)'
  BY <1>0, <1>1 DEF Silent, TypeOK
<1>8. CounterAhead' /\ SequencesDistinct'
  BY <1>0, <1>1, <1>7 DEF NInv, CounterAhead, SequencesDistinct
<1>9. QED BY <1>2, <1>4, <1>5, <1>6, <1>8 DEF NInv

LEMMA NestedStarted ==
  ASSUME LInv, NInv, NestedOnce, NEW h \in Handles, Started(h)
  PROVE  NInv'
<1> DEFINE p == ProcOf[home[h]]
<1>0. /\ TypeOK /\ handle[h] = "starting" /\ h \in Runs
      /\ process[p] = "on" /\ p \in Procs /\ Procs = {p}
      /\ CurrentIsBusy /\ PriorIsOpen /\ CallsInOpenRuns
  BY LiveIsOn, HomeProcess DEF LInv, NInv, Started
<1>1. /\ handle' = [handle EXCEPT ![h] = "open"]
      /\ Emit(p, h, "run_start", "handle")
      /\ UNCHANGED <<status, process, todo, current, inflight, home, prior, starts>>
  BY DEF Started, boundVars
<1>2. CurrentIsBusy' /\ PriorIsOpen' /\ CallsInOpenRuns'
  BY <1>0, <1>1 DEF CurrentIsBusy, PriorIsOpen, CallsInOpenRuns, Busy, TypeOK
<1>3. EndedIsOver' /\ SweptHasNotEnded' /\ Instrumented'
  BY <1>0, <1>1 DEF NInv, EndedIsOver, SweptHasNotEnded, Instrumented, TypeOK
<1>4. ~Silent(p, h) /\ \A q \in Runs : Silent(p, q) => Silent(p, q)'
  BY <1>0, <1>1 DEF Silent, TypeOK
<1>5. CounterAhead' /\ SequencesDistinct'
  BY <1>0, <1>1, <1>4, EmitAhead DEF Kinds
<1>6. QED BY <1>2, <1>3, <1>5 DEF NInv

LEMMA NestedEnd ==
  ASSUME LInv, NInv, NestedOnce, NEW h \in Handles, End(h)
  PROVE  NInv'
<1> DEFINE p == ProcOf[home[h]]
<1>0. /\ TypeOK /\ handle[h] = "open" /\ h \in Runs
      /\ process[p] = "on" /\ p \in Procs /\ Procs = {p}
      /\ CurrentIsBusy /\ PriorIsOpen /\ CallsInOpenRuns
  BY LiveIsOn, HomeProcess DEF LInv, NInv, End, MayEnd
<1>1. /\ handle' = [handle EXCEPT ![h] = "ending"]
      /\ Emit(p, h, "run_end", "handle")
      /\ UNCHANGED <<status, process, todo, current, inflight, home, prior, starts>>
      /\ \A g \in Handles :
           home[g] = home[h] /\ prior[g] = h => handle[g] \in {"ended", "lost"}
      /\ \A c \in Contexts : inflight[c] # h
  BY DEF End, MayEnd, NestedOnce, boundVars
<1>2. CurrentIsBusy' /\ CallsInOpenRuns'
  BY <1>0, <1>1 DEF CurrentIsBusy, CallsInOpenRuns, Busy, TypeOK
<1>3. PriorIsOpen'
  <2> SUFFICES ASSUME NEW g \in Handles, handle'[g] \in Busy, prior[g] # None
               PROVE  /\ prior[g] \in Handles
                      /\ home[prior[g]] = home[g] /\ handle'[prior[g]] = "open"
    BY <1>1 DEF PriorIsOpen
  <2>1. handle[g] \in Busy
    BY <1>0, <1>1 DEF TypeOK, Busy
  <2>2. /\ prior[g] \in Handles
        /\ home[prior[g]] = home[g] /\ handle[prior[g]] = "open"
    BY <1>0, <2>1 DEF PriorIsOpen
  <2>3. prior[g] # h
    BY <1>1, <2>1, <2>2 DEF Busy
  <2>4. QED BY <1>0, <1>1, <2>2, <2>3 DEF TypeOK
<1>4. EndedIsOver' /\ SweptHasNotEnded' /\ Instrumented'
  BY <1>0, <1>1 DEF NInv, EndedIsOver, SweptHasNotEnded, Instrumented, TypeOK
<1>5. ~Silent(p, h) /\ \A q \in Runs : Silent(p, q) => Silent(p, q)'
  BY <1>0, <1>1 DEF Silent, TypeOK
<1>6. CounterAhead' /\ SequencesDistinct'
  BY <1>0, <1>1, <1>5, EmitAhead DEF Kinds
<1>7. QED BY <1>2, <1>3, <1>4, <1>6 DEF NInv

LEMMA NestedEnded ==
  ASSUME LInv, NInv, NestedOnce, NEW h \in Handles, Ended(h)
  PROVE  NInv'
<1> DEFINE p == ProcOf[home[h]]
<1>0. /\ TypeOK /\ handle[h] = "ending" /\ h \in Runs /\ home[h] \in Contexts
      /\ process[p] = "on" /\ p \in Procs /\ Procs = {p}
      /\ CurrentIsBusy /\ PriorIsOpen /\ CallsInOpenRuns
  BY LiveIsOn, HomeProcess DEF LInv, NInv, Ended
<1>1. /\ handle' = [handle EXCEPT ![h] = "ended"]
      /\ \E s \in {"complete", "error"} : status' = [status EXCEPT ![h] = s]
      /\ current' = [current EXCEPT ![home[h]] = prior[h]]
      /\ counter' = [counter EXCEPT ![p][h] = 0]
      /\ UNCHANGED <<rows, process, todo, inflight, home, prior, starts>>
  BY DEF Ended, Flip, boundVars
<1>2. prior[h] # None => /\ prior[h] \in Handles
                         /\ home[prior[h]] = home[h] /\ handle[prior[h]] = "open"
  BY <1>0 DEF PriorIsOpen, Busy
<1>3. CurrentIsBusy'
  <2> SUFFICES ASSUME NEW c \in Contexts, current'[c] # None
               PROVE  /\ current'[c] \in Handles
                      /\ home[current'[c]] = c /\ handle'[current'[c]] \in Busy
    BY <1>1 DEF CurrentIsBusy
  <2>1. CASE c = home[h]
    BY <1>0, <1>1, <1>2, <2>1 DEF Busy, TypeOK
  <2>2. CASE c # home[h]
    <3>1. current'[c] = current[c] /\ current[c] \in Handles
          /\ home[current[c]] = c /\ handle[current[c]] \in Busy
      BY <1>0, <1>1, <2>2 DEF CurrentIsBusy, TypeOK
    <3>2. QED BY <1>0, <1>1, <2>2, <3>1 DEF TypeOK
  <2>3. QED BY <2>1, <2>2
<1>4. PriorIsOpen'
  <2> SUFFICES ASSUME NEW g \in Handles, handle'[g] \in Busy, prior[g] # None
               PROVE  /\ prior[g] \in Handles
                      /\ home[prior[g]] = home[g] /\ handle'[prior[g]] = "open"
    BY <1>1 DEF PriorIsOpen
  <2>1. handle[g] \in Busy
    BY <1>0, <1>1 DEF TypeOK, Busy
  <2>2. /\ prior[g] \in Handles
        /\ home[prior[g]] = home[g] /\ handle[prior[g]] = "open"
    BY <1>0, <2>1 DEF PriorIsOpen
  <2>3. QED BY <1>0, <1>1, <2>2 DEF TypeOK
<1>5. CallsInOpenRuns'
  BY <1>0, <1>1 DEF CallsInOpenRuns, TypeOK
<1>6. EndedIsOver' /\ SweptHasNotEnded' /\ Instrumented'
  BY <1>0, <1>1 DEF NInv, EndedIsOver, SweptHasNotEnded, Instrumented, TypeOK, Runs
<1>7. Silent(p, h)' /\ \A q \in Runs : Silent(p, q) => Silent(p, q)'
  BY <1>0, <1>1 DEF Silent, TypeOK
<1>8. \A q \in Runs \ {h} : counter'[p][q] = counter[p][q]
  BY <1>0, <1>1 DEF TypeOK
<1>9. CounterAhead' /\ SequencesDistinct'
  BY <1>0, <1>1, <1>7, <1>8 DEF NInv, CounterAhead, SequencesDistinct
<1>10. QED BY <1>3, <1>4, <1>5, <1>6, <1>9 DEF NInv

\* Tags and calls.
LEMMA NestedContext ==
  ASSUME LInv, NInv, NestedOnce, NEW c \in Contexts,
         Tag(c) \/ BeginCall(c) \/ EndCall(c) \/ EndCallUnrecorded(c)
  PROVE  NInv'
<1> DEFINE p == ProcOf[c]
<1>0. /\ TypeOK /\ p \in Procs /\ Procs = {p} /\ p \in Runs /\ p \notin Handles
      /\ CurrentIsBusy /\ PriorIsOpen /\ CallsInOpenRuns
      /\ \A r \in Runs : ~EmitRaises(p, r)
  BY ContextsAssumption, NamesAssumption
     DEF LInv, NInv, NestedOnce, EmitRaises, Runs
<1>1. /\ UNCHANGED <<process, todo, current, handle, home, prior, starts>>
      /\ UNCHANGED status \/ status' = [status EXCEPT ![p] = "running"]
  BY DEF Tag, BeginCall, EndCall, EndCallUnrecorded, Flip, dbVars, handleVars,
         boundVars
<1>2. CurrentIsBusy' /\ PriorIsOpen'
  BY <1>0, <1>1 DEF CurrentIsBusy, PriorIsOpen
<1>3. EndedIsOver' /\ SweptHasNotEnded' /\ Instrumented'
  BY <1>0, <1>1 DEF NInv, EndedIsOver, SweptHasNotEnded, Instrumented, TypeOK, Runs
<1>4. \A q \in Runs : Silent(p, q) => Silent(p, q)'
  BY <1>1 DEF Silent
<1>5. CASE Tag(c)
  <2>1. /\ process[p] = "on" /\ current[c] # None /\ inflight' = inflight
        /\ current[c] \in Runs
        /\ Emit(p, current[c], "outcome", "agent")
    BY <1>0, <1>5, LiveIsOn DEF Tag, TypeOK
  <2>2. ~Silent(p, current[c])
    BY <1>0, <2>1 DEF Silent, CurrentIsBusy, Busy
  <2>3. CounterAhead' /\ SequencesDistinct'
    BY <1>0, <1>4, <2>1, <2>2, EmitAhead DEF Kinds
  <2>4. CallsInOpenRuns'
    BY <1>0, <1>1, <2>1 DEF CallsInOpenRuns
  <2>5. QED BY <1>2, <1>3, <2>3, <2>4 DEF NInv
<1>6. CASE BeginCall(c)
  <2>1. /\ UNCHANGED <<rows, counter>> /\ ~InLifecycleCall(c)
        /\ \/ current[c] # None /\ inflight' = [inflight EXCEPT ![c] = current[c]]
           \/ inflight' = [inflight EXCEPT ![c] = p]
    BY <1>6 DEF BeginCall
  <2>2. current[c] # None => handle[current[c]] = "open"
    BY <1>0, <2>1 DEF CurrentIsBusy, InLifecycleCall, Busy
  <2>3. CallsInOpenRuns'
    BY <1>0, <1>1, <2>1, <2>2 DEF CallsInOpenRuns, TypeOK
  <2>4. CounterAhead' /\ SequencesDistinct'
    BY <1>0, <1>4, <2>1 DEF NInv, CounterAhead, SequencesDistinct
  <2>5. QED BY <1>2, <1>3, <2>3, <2>4 DEF NInv
<1>7. CASE EndCall(c)
  <2>1. /\ process[p] = "on" /\ inflight[c] \in Runs
        /\ Emit(p, inflight[c], "llm_call", "agent")
        /\ inflight' = [inflight EXCEPT ![c] = None]
    BY <1>0, <1>7, LiveIsOn DEF EndCall, TypeOK
  <2>2. ~Silent(p, inflight[c])
    BY <1>0, <2>1 DEF Silent, CallsInOpenRuns
  <2>3. CounterAhead' /\ SequencesDistinct'
    BY <1>0, <1>4, <2>1, <2>2, EmitAhead DEF Kinds
  <2>4. CallsInOpenRuns'
    BY <1>0, <1>1, <2>1, NamesAssumption DEF CallsInOpenRuns, TypeOK
  <2>5. QED BY <1>2, <1>3, <2>3, <2>4 DEF NInv
<1>8. CASE EndCallUnrecorded(c)
  <2>1. /\ process[p] = "off" /\ rows' = rows
        /\ inflight' = [inflight EXCEPT ![c] = None]
    BY <1>8 DEF EndCallUnrecorded, NestedOnce, dbVars
  <2>2. CounterAhead' /\ SequencesDistinct'
    BY <1>0, <1>1, <2>1 DEF NInv, CounterAhead, SequencesDistinct, Silent
  <2>3. CallsInOpenRuns'
    BY <1>0, <1>1, <2>1, NamesAssumption DEF CallsInOpenRuns, TypeOK
  <2>4. QED BY <1>2, <1>3, <2>2, <2>3 DEF NInv
<1>9. QED BY <1>5, <1>6, <1>7, <1>8

LEMMA NestedStep ==
  ASSUME NestedOnce, LInv, NInv, [Next]_vars
  PROVE  NInv'
<1>1. CASE UNCHANGED vars
  BY <1>1
     DEF vars, dbVars, memVars, handleVars, boundVars, NInv, CurrentIsBusy, PriorIsOpen,
         CallsInOpenRuns, EndedIsOver, SweptHasNotEnded, Instrumented, CounterAhead,
         Silent, SequencesDistinct
<1>2. ASSUME NEW h \in Handles, StartRaises(h) \/ EndRaises(h)
      PROVE  FALSE
  BY <1>2 DEF StartRaises, EndRaises, EmitRaises, NestedOnce
<1>3. QED
  BY <1>1, <1>2, NestedProcess, NestedStart, NestedStarted, NestedEnd, NestedEnded,
     NestedContext DEF Next

\* "The ContextVar token machinery handles correct restoration on exit"
\* (_run_lifecycle.py:17) and the counter "guarantees event ordering within a run"
\* (shims/_emit.py:41): for any contexts and any nesting of handles, in a process
\* that is instrumented once, whose calls end before their runs do, and where
\* nothing fails.
THEOREM NestedRunsApart ==
  ASSUME NestedOnce PROVE Spec => [](TypeOK /\ SequencesDistinct /\ PointerRestored)
<1>1. LInv /\ NInv => TypeOK /\ SequencesDistinct /\ PointerRestored
  BY DEF LInv, TypeOK, NInv, CurrentIsBusy, PointerRestored, Busy
<1>2. LInv /\ NInv /\ [Next]_vars => NInv'
  BY NestedStep
<1>3. QED BY <1>1, <1>2, NestedInit, LifecycleInvariant, PTL DEF Spec
=============================================================================
