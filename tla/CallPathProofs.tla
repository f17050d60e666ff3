-------------------------- MODULE CallPathProofs --------------------------
(***************************************************************************)
(* CountedOnceUnless and RicherRowWins for any calls, runs, shapes, faults *)
(* and limits; DeliveredOnceInOrder for any events, queue and batch.       *)
(*                                                                         *)
(* The first two are not inductive: they speak of the log, and whether a   *)
(* layer writes is decided by the memories. RecordingInv says what ties    *)
(* the two. `Recalled`: an id is in a memory only if its call has been     *)
(* written, or kept from it by a fault, or if the observer that put it     *)
(* there is still to write; an exception, only if it has been written.     *)
(* `Asked`: an id that the shim captured and the handler can see is in the *)
(* memory, unless it was dropped. `Counted` says of every row what its     *)
(* layer had done when it wrote it, `Done` that a layer that is done has   *)
(* written, and `EstimatedUnseen` and `UsageUnseen` what a stream had      *)
(* shown.                                                                  *)
(*                                                                         *)
(* A step is of one call: `Aside` settles the other calls once and for all *)
(* from what the step may do to the memories (MemoryKept) and to the log   *)
(* (Grew); a lemma per action is left with its own call.                   *)
(*                                                                         *)
(* Nor is the third: a place says nothing of the places still to come.     *)
(* ExportInv says of every event whether it waits, is held or is settled   *)
(* (`OnePlace`), also of those no request takes; and, unless stop() gave   *)
(* up on the thread, that the queue is behind the batch, and behind what   *)
(* is left over, that each is in the order of the rows, and that what is   *)
(* delivered comes before what is still to come (`InOrder`).               *)
(***************************************************************************)
EXTENDS CallPath, FiniteSetTheorems, TLAPS

-----------------------------------------------------------------------------
\* The memories: sequences of calls without repetition.

Within(seen, c) == c \in C!Elements(seen)
Distinct(seen) == \A i, j \in DOMAIN seen : seen[i] = seen[j] => i = j

LEMMA ElementsIndexed ==
  ASSUME NEW seen, NEW c
  PROVE  Within(seen, c) <=> \E i \in DOMAIN seen : seen[i] = c
  BY DEF Within, C!Elements

LEMMA WithoutIsRest ==
  ASSUME NEW S, NEW seen \in Seq(S), Distinct(seen), NEW c
  PROVE  /\ C!Without(seen, c) \in Seq(S) /\ Distinct(C!Without(seen, c))
         /\ Len(C!Without(seen, c)) <= Len(seen)
         /\ \A d : Within(C!Without(seen, c), d) <=> Within(seen, d) /\ d # c
<1>1. CASE ~Within(seen, c) BY <1>1 DEF C!Without, Within
<1>2. CASE Within(seen, c)
  <2> DEFINE i == CHOOSE k \in DOMAIN seen : seen[k] = c
             before == SubSeq(seen, 1, i - 1)
             after == SubSeq(seen, i + 1, Len(seen))
             rest == before \o after
  <2>1. i \in 1..Len(seen) /\ seen[i] = c BY <1>2, ElementsIndexed
  <2>2. C!Without(seen, c) = rest BY <1>2 DEF C!Without, Within
  <2> HIDE DEF i
  <2>3. /\ before \in Seq(S) /\ Len(before) = i - 1
        /\ \A k \in 1..(i - 1) : before[k] = seen[k]
    BY <2>1
  <2>4. /\ after \in Seq(S) /\ Len(after) = Len(seen) - i
        /\ \A k \in 1..(Len(seen) - i) : after[k] = seen[i + k]
    BY <2>1
  <2> HIDE DEF before, after
  <2>5. /\ rest \in Seq(S) /\ Len(rest) = Len(seen) - 1
        /\ \A k \in 1..(Len(seen) - 1) : rest[k] = IF k < i THEN seen[k] ELSE seen[k + 1]
    <3>1. PICK b \in Seq(S), a \in Seq(S) : b = before /\ a = after BY <2>3, <2>4
    <3>2. /\ rest = b \o a /\ Len(b) = i - 1 /\ Len(a) = Len(seen) - i
          /\ \A k \in 1..(i - 1) : b[k] = seen[k]
          /\ \A k \in 1..(Len(seen) - i) : a[k] = seen[i + k]
      BY <2>3, <2>4, <3>1
    <3> HIDE DEF rest
    <3>3. b \o a \in Seq(S) /\ Len(b \o a) = Len(b) + Len(a)
      OBVIOUS
    <3>4. \A k \in 1..(Len(b) + Len(a)) :
            (b \o a)[k] = IF k <= Len(b) THEN b[k] ELSE a[k - Len(b)]
      OBVIOUS
    <3>5. ASSUME NEW k \in 1..(Len(seen) - 1)
          PROVE  rest[k] = IF k < i THEN seen[k] ELSE seen[k + 1]
      <4>1. CASE k < i BY <2>1, <3>2, <3>4, <4>1
      <4>2. CASE ~(k < i)
        <5>1. k - (i - 1) \in 1..(Len(seen) - i) /\ i + (k - (i - 1)) = k + 1
          BY <2>1, <4>2
        <5>2. k \in 1..(Len(b) + Len(a)) /\ ~(k <= Len(b)) BY <2>1, <3>2, <4>2
        <5>3. rest[k] = a[k - Len(b)] BY <3>2, <3>4, <5>2
        <5> QED BY <3>2, <4>2, <5>1, <5>3
      <4> QED BY <4>1, <4>2
    <3> QED BY <2>1, <3>2, <3>3, <3>5
  <2> HIDE DEF rest
  <2>6. Distinct(rest)
    <3> SUFFICES ASSUME NEW k \in 1..(Len(seen) - 1), NEW l \in 1..(Len(seen) - 1),
                        rest[k] = rest[l]
                 PROVE  k = l
      BY <2>5 DEF Distinct
    <3>1. PICK m \in 1..Len(seen) : m = (IF k < i THEN k ELSE k + 1) /\ rest[k] = seen[m]
      BY <2>1, <2>5
    <3>2. PICK n \in 1..Len(seen) : n = (IF l < i THEN l ELSE l + 1) /\ rest[l] = seen[n]
      BY <2>1, <2>5
    <3>3. m = n
      <4>1. seen[m] = seen[n] BY <3>1, <3>2
      <4> QED BY <4>1 DEF Distinct
    <3> QED BY <2>1, <3>1, <3>2, <3>3
  <2>7. ASSUME NEW d PROVE Within(rest, d) <=> Within(seen, d) /\ d # c
    <3>1. ASSUME Within(rest, d) PROVE Within(seen, d) /\ d # c
      <4>1. PICK k \in 1..(Len(seen) - 1) : rest[k] = d BY <2>5, <3>1, ElementsIndexed
      <4>2. PICK m \in 1..Len(seen) : m # i /\ seen[m] = d BY <2>1, <2>5, <4>1
      <4>3. d # c BY <2>1, <4>2 DEF Distinct
      <4> QED BY <4>2, <4>3, ElementsIndexed
    <3>2. ASSUME Within(seen, d), d # c PROVE Within(rest, d)
      <4>1. PICK m \in 1..Len(seen) : seen[m] = d BY <3>2, ElementsIndexed
      <4>2. m # i BY <2>1, <3>2, <4>1
      <4>3. PICK k \in 1..(Len(seen) - 1) : k = IF m < i THEN m ELSE m - 1
        BY <2>1, <4>2
      <4>4. rest[k] = d BY <2>1, <2>5, <4>1, <4>2, <4>3
      <4> QED BY <2>5, <4>4, ElementsIndexed
    <3> QED BY <3>1, <3>2
  <2> QED BY <2>2, <2>5, <2>6, <2>7
<1> QED BY <1>1, <1>2

\* The id just seen is held; others may be dropped, none comes in.
LEMMA RememberKeeps ==
  ASSUME NEW S, NEW seen \in Seq(S), Distinct(seen), NEW c \in S, IdLimit \in Nat \ {0},
         Len(seen) <= IdLimit
  PROVE  /\ C!Remember(seen, c) \in Seq(S) /\ Distinct(C!Remember(seen, c))
         /\ Len(C!Remember(seen, c)) <= IdLimit
         /\ Within(C!Remember(seen, c), c)
         /\ \A d : Within(C!Remember(seen, c), d) => d = c \/ Within(seen, d)
<1>1. PICK rest \in Seq(S) : rest = C!Without(seen, c) BY WithoutIsRest
<1>2. /\ Distinct(rest) /\ Len(rest) <= IdLimit
      /\ \A d : Within(rest, d) <=> Within(seen, d) /\ d # c
  BY <1>1, WithoutIsRest
<1>3. PICK moved \in Seq(S) : moved = Append(rest, c)
  <2>1. Append(rest, c) \in Seq(S) OBVIOUS
  <2> QED BY <2>1
<1>4. /\ Len(moved) = Len(rest) + 1 /\ moved[Len(moved)] = c
      /\ \A k \in 1..Len(rest) : moved[k] = rest[k]
  BY <1>1, <1>3
<1>5. Distinct(moved)
  <2>1. ~Within(rest, c) BY <1>2
  <2>2. \A k \in 1..Len(rest) : rest[k] # c BY <2>1, ElementsIndexed
  <2> QED BY <1>2, <1>4, <2>2 DEF Distinct
<1>6. \A d : Within(moved, d) => d = c \/ Within(seen, d)
  <2> SUFFICES ASSUME NEW d, Within(moved, d), d # c PROVE Within(rest, d) BY <1>2
  <2>1. PICK k \in 1..Len(moved) : moved[k] = d BY ElementsIndexed
  <2>2. k \in 1..Len(rest) BY <1>4, <2>1
  <2> QED BY <1>4, <2>1, <2>2, ElementsIndexed
<1>7. C!Remember(seen, c) = IF Len(moved) > IdLimit THEN Tail(moved) ELSE moved
  BY <1>1, <1>3 DEF C!Remember
<1>8. CASE Len(moved) <= IdLimit
  <2>1. Within(moved, c) BY <1>4, ElementsIndexed
  <2> QED BY <1>3, <1>5, <1>6, <1>7, <1>8, <2>1
<1>9. CASE Len(moved) > IdLimit
  <2>1. PICK tail \in Seq(S) : tail = Tail(moved)
    <3>1. moved # <<>> BY <1>4
    <3>2. Tail(moved) \in Seq(S) BY <3>1
    <3> QED BY <3>2
  <2>2. /\ Len(tail) = Len(moved) - 1 /\ \A k \in 1..Len(tail) : tail[k] = moved[k + 1]
    BY <1>4, <2>1
  <2>3. Distinct(tail)
    <3> SUFFICES ASSUME NEW k \in 1..Len(tail), NEW l \in 1..Len(tail), tail[k] = tail[l]
                 PROVE  k = l
      BY DEF Distinct
    <3>1. DOMAIN moved = 1..Len(moved) /\ Len(moved) \in Nat OBVIOUS
    <3>2. k + 1 \in DOMAIN moved /\ l + 1 \in DOMAIN moved BY <2>2, <3>1
    <3>3. moved[k + 1] = moved[l + 1] BY <2>2
    <3>4. k + 1 = l + 1 BY <1>5, <3>2, <3>3 DEF Distinct
    <3> QED BY <3>4
  <2>4. Len(tail) <= IdLimit /\ Len(tail) >= 1 BY <1>2, <1>4, <1>9, <2>2
  <2>5. tail[Len(tail)] = c BY <1>4, <2>2, <2>4
  <2>6. Within(tail, c) BY <2>4, <2>5, ElementsIndexed
  <2>7. ASSUME NEW d, Within(tail, d) PROVE Within(moved, d)
    <3>1. PICK k \in 1..Len(tail) : tail[k] = d BY <2>7, ElementsIndexed
    <3>2. k + 1 \in 1..Len(moved) /\ moved[k + 1] = d BY <2>2, <3>1
    <3> QED BY <3>2, ElementsIndexed
  <2> QED BY <1>6, <1>7, <1>9, <2>1, <2>3, <2>4, <2>6, <2>7
<1> QED BY <1>2, <1>4, <1>8, <1>9

LEMMA RememberErrorKeeps ==
  ASSUME NEW S, NEW seen \in Seq(S), NEW c \in S
  PROVE  /\ C!RememberError(seen, c) \in Seq(S)
         /\ \A d : Within(C!RememberError(seen, c), d) <=> d = c \/ Within(seen, d)
<1>1. CASE Within(seen, c) BY <1>1 DEF C!RememberError, Within
<1>2. CASE ~Within(seen, c)
  <2>1. PICK more \in Seq(S) : more = Append(seen, c)
    <3>1. Append(seen, c) \in Seq(S) OBVIOUS
    <3> QED BY <3>1
  <2>2. C!RememberError(seen, c) = more BY <1>2, <2>1 DEF C!RememberError, Within
  <2>3. ASSUME NEW d PROVE Within(more, d) <=> d = c \/ Within(seen, d)
    <3>1. /\ Len(more) = Len(seen) + 1 /\ more[Len(seen) + 1] = c
          /\ \A k \in 1..Len(seen) : more[k] = seen[k]
      BY <2>1
    <3> QED BY <3>1, ElementsIndexed
  <2> QED BY <2>2, <2>3
<1> QED BY <1>1, <1>2
-----------------------------------------------------------------------------
\* What is so of a call.

Stages == {"new", "out", "open", "dropped", "over", "raised"}
SomeShape == {None} \union UNION {Shapes[c] : c \in Calls}
CallRecord ==
  [shape : SomeShape, stage : Stages, run : C!AllRuns \union {None}, warn : BOOLEAN,
   pos : Nat, probe : [id : BOOLEAN, usage : BOOLEAN], claim : {"none", "won", "lost"},
   cancelled : BOOLEAN, refused : BOOLEAN, observed : BOOLEAN, told : BOOLEAN]

CallTypes ==
  /\ active \in Runs \union {None} /\ over \subseteq Runs
  /\ call \in [Calls -> CallRecord]
  /\ ids \in [C!AllRuns -> Seq(Calls)] /\ errs \in [C!AllRuns -> Seq(Calls)]
  /\ \A r \in C!AllRuns : Len(ids[r]) <= IdLimit /\ Distinct(ids[r])
  /\ log \in Seq(C!RowType) /\ forgotten \subseteq Calls

HasHandler(c) == "handler" \in call[c].shape.layers

\* Until the SDK has answered nothing is known of it; a stream is under observation
\* from the start, and its id is claimed with the chunk that first shows it.
Placed(c) ==
  LET k == call[c] IN
    /\ k.stage # "new" => k.shape \in Shapes[c]
    /\ k.stage = "new" => k.shape = None /\ k.run = None /\ ~k.told
    /\ k.stage \in {"new", "out"} =>
         ~k.observed /\ ~k.cancelled /\ k.pos = 0 /\ ~k.probe.id
    /\ k.stage = "out" => k.told = ~HasHandler(c)
    /\ k.stage \in {"open", "dropped"} => k.observed
    /\ k.observed => C!Hooked(c) /\ C!Observes(k.shape)
    /\ k.stage = "open" => ~k.cancelled
    /\ k.stage = "open" /\ k.told /\ HasHandler(c) => k.pos = Len(k.shape.chunks)
    /\ k.claim = IF k.probe.id THEN "won" ELSE "none"
    /\ k.cancelled => C!Hooked(c) \/ k.stage = "raised"
    /\ k.warn => C!Hooked(c)
    /\ k.stage = "new" \/ HasHandler(c) \/ k.told

\* While the usage has not been seen, no chunk has carried it.
UsageUnseen(c) ==
  LET k == call[c] IN
    /\ k.stage # "new" => k.pos \in 0..Len(k.shape.chunks)
    /\ k.stage # "new" /\ k.observed /\ ~k.probe.usage =>
         \A i \in 1..k.pos : k.shape.chunks[i] \notin C!UsageChunks

Accounted(c) ==
  C!CallRows(c) # {} \/ <<c, "ok">> \in lost \/ <<c, "error">> \in lost

\* An id is remembered by the layer that has written, or by the observer that will;
\* an exception, by the layer that has written.
Recalled(c) ==
  LET k == call[c] IN
    /\ \A r \in C!AllRuns : Within(ids[r], c) =>
         /\ k.stage \in {"over", "raised"} \/ (k.stage \in {"open", "dropped"} /\ k.probe.id)
         /\ C!Hooked(c) \/ Accounted(c)
    /\ \A r \in C!AllRuns : Within(errs[r], c) =>
         (k.stage = "raised" \/ k.cancelled) /\ Accounted(c)

\* What a shim captures and the handler can recognise is remembered, or was.
Asked(c) ==
  LET k == call[c] IN
    k.stage \in {"open", "dropped", "over"} /\ C!Captures(c) /\ C!HandlerSeesId(c) =>
      Within(ids[k.run], c) \/ c \in forgotten

\* The row of the shim, and that of the handler.
ShimRow(c, row) ==
  LET k == call[c] IN
    /\ C!Hooked(c) /\ row.run = k.run
    /\ row.what = "ok" => k.stage = "over" /\ C!Captures(c)
    /\ row.what = "error" =>
         k.stage = "raised" /\ (Within(errs[k.run], c) \/ c \in forgotten)

HandlerRow(c, row) ==
  LET k == call[c] IN
    /\ k.told /\ HasHandler(c) /\ k.stage \notin {"new", "out"} /\ ~row.estimated
    /\ row.what = "error" => k.stage = "raised" \/ k.cancelled
    /\ row.what = "ok" /\ C!Captures(c) =>
         row.run # k.run \/ ~C!HandlerSeesId(c) \/ c \in forgotten

\* One row of each layer, and two only if the memory could not tell.
Counted(c) ==
  /\ \A i \in C!CallRows(c) :
       IF log[i].layer = "shim" THEN ShimRow(c, log[i]) ELSE HandlerRow(c, log[i])
  /\ \A i, j \in C!CallRows(c) : log[i].layer = log[j].layer => i = j
  /\ \A i, j \in C!CallRows(c) : i # j =>
       \/ log[i].run # log[j].run
       \/ ~C!HandlerSeesId(c)
       \/ c \in forgotten
       \/ call[c].cancelled

\* Only a row of a stream is estimated, when its usage has not been seen.
EstimatedUnseen ==
  \A i \in DOMAIN log : log[i].estimated =>
    LET k == call[log[i].call] IN
      log[i].what = "ok" /\ k.stage = "over" /\ k.observed /\ ~k.probe.usage

\* Each layer that is done has left a row, or a fault kept it out.
Done(c) ==
  LET k == call[c] IN
    /\ k.stage = "over" /\ C!Hooked(c) => Accounted(c)
    /\ k.stage \in {"over", "raised"} /\ k.told /\ HasHandler(c) => Accounted(c)
    /\ k.stage # "new" /\ ~C!Hooked(c) /\ ~HasHandler(c) => <<c, "ok">> \in lost
    /\ k.stage = "raised" /\ C!Hooked(c) =>
         k.refused \/ k.cancelled \/ k.shape.mode = "helper" \/ Accounted(c)

Warned(c) ==
  LET k == call[c] IN
    k.stage \in {"over", "raised"} /\ k.warn =>
      \/ \E i \in DOMAIN log : log[i].call = c /\ log[i].what = "warn"
      \/ <<c, "warn">> \in lost
      \/ k.stage = "raised" /\ (k.refused \/ k.cancelled \/ k.shape.mode = "helper")

CallInv(c) ==
  Placed(c) /\ UsageUnseen(c) /\ Recalled(c) /\ Asked(c) /\ Counted(c) /\ Done(c) /\ Warned(c)

RecordingInv == CallTypes /\ EstimatedUnseen /\ \A c \in Calls : CallInv(c)
-----------------------------------------------------------------------------
\* What a step of one call leaves of the others, and of its own rows.

CallsGiven == C!ShapesAssumption /\ C!LimitsAssumption /\ C!NoneAssumption

\* The memories may forget any call, and come to hold c only.
MemoryKept(c) ==
  /\ ids' \in [C!AllRuns -> Seq(Calls)] /\ errs' \in [C!AllRuns -> Seq(Calls)]
  /\ \A r \in C!AllRuns : Len(ids'[r]) <= IdLimit /\ Distinct(ids'[r])
  /\ forgotten \subseteq forgotten' /\ forgotten' \subseteq Calls
  /\ \A r \in C!AllRuns, d \in Calls :
       /\ Within(ids'[r], d) => Within(ids[r], d) \/ d = c
       /\ Within(ids[r], d) => Within(ids'[r], d) \/ d \in forgotten'
       /\ Within(errs'[r], d) => Within(errs[r], d) \/ d = c
       /\ Within(errs[r], d) => Within(errs'[r], d) \/ d \in forgotten'

\* The log may get `row`, once, and warnings of the call c.
Added == (Len(log) + 1)..Len(log')
Grew(c, row) ==
  /\ log' \in Seq(C!RowType) /\ Len(log) <= Len(log')
  /\ \A i \in 1..Len(log) : log'[i] = log[i]
  /\ \A i \in Added :
       /\ log'[i].call = c
       /\ log'[i] = row \/ (log'[i].what = "warn" /\ ~log'[i].estimated)
  /\ \A i, j \in Added : log'[i] = row /\ log'[j] = row => i = j
  /\ lost \subseteq lost'

LEMMA OwnOrOld ==
  ASSUME CallTypes, NEW c, NEW row, Grew(c, row), NEW d
  PROVE  /\ C!CallRows(d) \subseteq C!CallRows(d)'
         /\ \A i \in C!CallRows(d) : i \in 1..Len(log) /\ log'[i] = log[i]
         /\ \A i \in C!CallRows(d)' :
              i \in C!CallRows(d) \/ (d = c /\ i \in Added /\ log'[i] = row)
<1>1. /\ DOMAIN log = 1..Len(log) /\ DOMAIN log' = 1..Len(log') /\ Len(log) \in Nat
      /\ Len(log') \in Nat
  BY DEF CallTypes, Grew
<1>2. \A i \in 1..Len(log') : i \in 1..Len(log) \/ i \in Added BY <1>1 DEF Added
<1> QED BY <1>1, <1>2 DEF C!CallRows, Grew

LEMMA AccountedGrows ==
  ASSUME CallTypes, NEW c, NEW row, Grew(c, row), NEW d, Accounted(d)
  PROVE  Accounted(d)'
<1>1. C!CallRows(d) # {} => C!CallRows(d)' # {} BY OwnOrOld
<1> QED BY <1>1 DEF Accounted, Grew

LEMMA Aside ==
  ASSUME CallTypes, NEW c \in Calls, NEW row, Grew(c, row), MemoryKept(c),
         NEW d \in Calls, d # c, call'[d] = call[d], CallInv(d)
  PROVE  CallInv(d)'
<1>1. Placed(d)' BY DEF CallInv, Placed, C!Hooked, HasHandler
<1>2. UsageUnseen(d)' BY DEF CallInv, UsageUnseen
<1>3. /\ \A r \in C!AllRuns : Within(ids'[r], d) => Within(ids[r], d)
      /\ \A r \in C!AllRuns : Within(errs'[r], d) => Within(errs[r], d)
      /\ \A r \in C!AllRuns : Within(ids[r], d) => Within(ids'[r], d) \/ d \in forgotten'
      /\ \A r \in C!AllRuns : Within(errs[r], d) => Within(errs'[r], d) \/ d \in forgotten'
      /\ forgotten \subseteq forgotten' /\ lost \subseteq lost'
  BY DEF MemoryKept, Grew
<1>4. Accounted(d) => Accounted(d)' BY AccountedGrows
<1>5. Recalled(d)' BY <1>3, <1>4 DEF CallInv, Recalled, C!Hooked
<1>6. C!Captures(d)' <=> C!Captures(d) BY DEF C!Captures, C!Hooked
<1>7. C!HandlerSeesId(d)' <=> C!HandlerSeesId(d) BY DEF C!HandlerSeesId
<1>8. call[d].run \in C!AllRuns \/ call[d].run = None BY DEF CallTypes, CallRecord
<1>9. C!Captures(d) => call[d].run \in C!AllRuns BY <1>8 DEF C!Captures, C!Hooked
<1>10. Asked(d)' BY <1>3, <1>6, <1>7, <1>9 DEF CallInv, Asked
<1>11. /\ C!CallRows(d)' = C!CallRows(d)
       /\ \A i \in C!CallRows(d) : log'[i] = log[i]
  BY OwnOrOld
<1>12. Counted(d)'
  <2>1. ASSUME NEW i \in C!CallRows(d), log[i].layer = "shim" PROVE ShimRow(d, log[i])'
    <3>1. ShimRow(d, log[i]) BY <2>1 DEF CallInv, Counted
    <3>2. log'[i] = log[i] BY <1>11
    <3>3. C!Hooked(d) => call[d].run \in C!AllRuns BY <1>8 DEF C!Hooked
    <3> QED BY <1>3, <1>6, <3>1, <3>2, <3>3 DEF ShimRow, C!Hooked
  <2>2. ASSUME NEW i \in C!CallRows(d), log[i].layer # "shim" PROVE HandlerRow(d, log[i])'
    <3>1. HandlerRow(d, log[i]) BY <2>2 DEF CallInv, Counted
    <3>2. log'[i] = log[i] BY <1>11
    <3> QED BY <1>3, <1>6, <1>7, <3>1, <3>2 DEF HandlerRow, HasHandler
  <2>3. \A i, j \in C!CallRows(d) : i # j =>
          \/ log[i].run # log[j].run \/ ~C!HandlerSeesId(d)
          \/ d \in forgotten \/ call[d].cancelled
    BY DEF CallInv, Counted
  <2>4. \A i, j \in C!CallRows(d) : log[i].layer = log[j].layer => i = j
    BY DEF CallInv, Counted
  <2> QED BY <1>3, <1>7, <1>11, <2>1, <2>2, <2>3, <2>4 DEF Counted
<1>13. Done(d)' BY <1>3, <1>4 DEF CallInv, Done, C!Hooked, HasHandler
<1>14. Warned(d)'
  <2>1. (\E i \in DOMAIN log : log[i].call = d /\ log[i].what = "warn")
          => \E i \in DOMAIN log' : log'[i].call = d /\ log'[i].what = "warn"
    <3>1. /\ DOMAIN log = 1..Len(log) /\ DOMAIN log' = 1..Len(log') /\ Len(log) \in Nat
          /\ Len(log') \in Nat
      BY DEF CallTypes, Grew
    <3> QED BY <3>1 DEF Grew
  <2> QED BY <1>3, <2>1 DEF CallInv, Warned
<1> QED BY <1>1, <1>2, <1>5, <1>10, <1>12, <1>13, <1>14 DEF CallInv
-----------------------------------------------------------------------------
\* The write of a layer.

LEMMA Joined ==
  ASSUME NEW S, NEW a \in Seq(S), NEW b \in Seq(S)
  PROVE  /\ a \o b \in Seq(S) /\ Len(a \o b) = Len(a) + Len(b)
         /\ \A k \in 1..Len(a) : (a \o b)[k] = a[k]
         /\ \A k \in 1..Len(b) : (a \o b)[Len(a) + k] = b[k]
         /\ C!Elements(a \o b) = C!Elements(a) \union C!Elements(b)
<1>1. /\ a \o b \in Seq(S) /\ Len(a \o b) = Len(a) + Len(b)
      /\ \A k \in 1..(Len(a) + Len(b)) :
            (a \o b)[k] = IF k <= Len(a) THEN a[k] ELSE b[k - Len(a)]
  OBVIOUS
<1>2. PICK s \in Seq(S) : s = a \o b BY <1>1
<1>3. /\ \A k \in 1..Len(a) : s[k] = a[k] /\ k \in DOMAIN s
      /\ \A k \in 1..Len(b) : s[Len(a) + k] = b[k] /\ Len(a) + k \in DOMAIN s
  BY <1>1, <1>2
<1>4. \A k \in DOMAIN s :
        k \in 1..Len(a) \/ (k - Len(a) \in 1..Len(b) /\ s[k] = b[k - Len(a)])
  BY <1>1, <1>2
<1>5. C!Elements(s) = C!Elements(a) \union C!Elements(b)
  <2>1. C!Elements(s) \subseteq C!Elements(a) \union C!Elements(b)
    <3> SUFFICES ASSUME NEW k \in DOMAIN s PROVE s[k] \in C!Elements(a) \union C!Elements(b)
      BY DEF C!Elements
    <3>1. CASE k \in 1..Len(a) BY <1>3, <3>1 DEF C!Elements
    <3>2. CASE k \notin 1..Len(a)
      <4>1. k - Len(a) \in DOMAIN b /\ s[k] = b[k - Len(a)] BY <1>4, <3>2
      <4> QED BY <4>1 DEF C!Elements
    <3> QED BY <3>1, <3>2
  <2>2. C!Elements(a) \subseteq C!Elements(s)
    <3> SUFFICES ASSUME NEW k \in DOMAIN a PROVE a[k] \in C!Elements(s)
      BY DEF C!Elements
    <3>1. k \in DOMAIN s /\ s[k] = a[k] BY <1>3
    <3> QED BY <3>1 DEF C!Elements
  <2>3. C!Elements(b) \subseteq C!Elements(s)
    <3> SUFFICES ASSUME NEW k \in DOMAIN b PROVE b[k] \in C!Elements(s)
      BY DEF C!Elements
    <3>1. Len(a) + k \in DOMAIN s /\ s[Len(a) + k] = b[k] BY <1>3
    <3> QED BY <3>1 DEF C!Elements
  <2> QED BY <2>1, <2>2, <2>3
<1> QED BY <1>1, <1>2, <1>3, <1>5

LEMMA SmallElements ==
  ASSUME NEW row
  PROVE  C!Elements(<<>>) = {} /\ C!Elements(<<row>>) = {row}
  BY DEF C!Elements

\* What is tried is written, or known to be lost.
LEMMA InsertGrows ==
  ASSUME CallTypes, NEW row \in C!RowType, row.what # "warn",
         NEW warnings, NEW w \in C!RowType, warnings \in {<<>>, <<w>>},
         w.call = row.call, w.what = "warn", ~w.estimated, C!Insert(row, warnings)
  PROVE  /\ Grew(row.call, row)
         /\ C!CallRows(row.call)' # {} \/ <<row.call, row.what>> \in lost'
         /\ warnings = <<w>> =>
              \/ \E i \in DOMAIN log' : log'[i].call = row.call /\ log'[i].what = "warn"
              \/ <<w.call, "warn">> \in lost'
<1>1. PICK first \in C!Try(<<row>>), second \in C!Try(warnings) :
        /\ log' = log \o (first \o second)
        /\ lost' = lost \union
             {<<x.call, x.what>> :
                x \in (C!Elements(<<row>> \o warnings) \ C!Elements(first \o second))}
  BY DEF C!Insert
<1>2. first \in {<<>>, <<row>>} /\ second \in {<<>>, <<w>>} /\ second \in {<<>>, warnings}
  BY <1>1 DEF C!Try
<1>3. row # w OBVIOUS
<1>4. log \in Seq(C!RowType) /\ Len(log) \in Nat BY DEF CallTypes
<1>5. PICK more \in Seq(C!RowType), a \in Seq(C!RowType), b \in Seq(C!RowType) :
        a = first /\ b = second /\ more = a \o b
  <2>1. <<>> \in Seq(C!RowType) /\ <<row>> \in Seq(C!RowType) /\ <<w>> \in Seq(C!RowType)
    OBVIOUS
  <2>2. first \in Seq(C!RowType) /\ second \in Seq(C!RowType) BY <1>2, <2>1
  <2> QED BY <2>2, Joined
<1>6. /\ Len(more) = Len(a) + Len(b)
      /\ \A k \in 1..Len(a) : more[k] = a[k]
      /\ \A k \in 1..Len(b) : more[Len(a) + k] = b[k]
      /\ C!Elements(more) = C!Elements(a) \union C!Elements(b)
  BY <1>5, Joined
<1>7. /\ (a = <<>> \/ a = <<row>>)
      /\ (b = <<>> \/ b = <<w>>)
  BY <1>2, <1>5
<1>8. /\ a = <<>> => Len(a) = 0
      /\ a = <<row>> => Len(a) = 1 /\ a[1] = row
      /\ b = <<>> => Len(b) = 0
      /\ b = <<w>> => Len(b) = 1 /\ b[1] = w
  OBVIOUS
<1>9. /\ Len(more) \in 0..2
      /\ \A i \in 1..Len(more) : more[i] \in {row, w}
      /\ \A i, j \in 1..Len(more) : more[i] = row /\ more[j] = row => i = j
      /\ first = <<row>> => Len(more) >= 1 /\ more[1] = row
      /\ second = <<w>> => Len(more) >= 1 /\ more[Len(more)] = w
  <2>1. CASE a = <<>> /\ b = <<>> BY <1>5, <1>6, <1>8, <2>1
  <2>2. CASE a = <<row>> /\ b = <<>>
    <3>1. Len(more) = 1 /\ more[1] = row BY <1>6, <1>8, <2>2
    <3> QED BY <1>5, <2>2, <3>1
  <2>3. CASE a = <<>> /\ b = <<w>>
    <3>1. Len(more) = 1 /\ more[1] = w BY <1>6, <1>8, <2>3
    <3> QED BY <1>3, <1>5, <2>3, <3>1
  <2>4. CASE a = <<row>> /\ b = <<w>>
    <3>1. Len(more) = 2 /\ more[1] = row /\ more[2] = w BY <1>6, <1>8, <2>4
    <3> QED BY <1>3, <1>5, <2>4, <3>1
  <2> QED BY <1>7, <2>1, <2>2, <2>3, <2>4
<1>10. C!Elements(<<row>> \o warnings) = {row} \union C!Elements(warnings)
  <2>1. <<>> \in Seq(C!RowType) /\ <<row>> \in Seq(C!RowType) /\ <<w>> \in Seq(C!RowType)
    OBVIOUS
  <2>2. PICK x \in Seq(C!RowType), y \in Seq(C!RowType) : x = <<row>> /\ y = warnings
    BY <2>1
  <2>3. C!Elements(x \o y) = C!Elements(x) \union C!Elements(y) BY Joined
  <2> QED BY <2>2, <2>3, SmallElements
<1>11. /\ log' \in Seq(C!RowType) /\ Len(log') = Len(log) + Len(more)
       /\ \A i \in 1..Len(log) : log'[i] = log[i]
       /\ \A i \in 1..Len(more) : log'[Len(log) + i] = more[i]
  <2>1. log' = log \o more BY <1>1, <1>5
  <2> QED BY <1>4, <2>1, Joined
<1>12. \A i \in Added : i - Len(log) \in 1..Len(more) /\ log'[i] = more[i - Len(log)]
  BY <1>4, <1>9, <1>11 DEF Added
<1>13. Grew(row.call, row)
  <2>1. \A i \in Added : log'[i] \in {row, w} BY <1>9, <1>12
  <2>2. ASSUME NEW i \in Added, NEW j \in Added, log'[i] = row, log'[j] = row PROVE i = j
    <3>1. i - Len(log) = j - Len(log) BY <1>9, <1>12, <2>2
    <3> QED BY <1>4, <1>11, <3>1 DEF Added
  <2>3. lost \subseteq lost' BY <1>1
  <2>4. Len(log) <= Len(log') BY <1>4, <1>9, <1>11
  <2> QED BY <1>11, <2>1, <2>2, <2>3, <2>4 DEF Grew
<1>14. C!CallRows(row.call)' # {} \/ <<row.call, row.what>> \in lost'
  <2>1. CASE first = <<row>>
    <3>1. Len(log) + 1 \in DOMAIN log' /\ log'[Len(log) + 1] = row
      BY <1>4, <1>9, <1>11, <2>1
    <3> QED BY <3>1 DEF C!CallRows
  <2>2. CASE first = <<>>
    <3>1. row \notin C!Elements(more) BY <1>3, <1>5, <1>6, <1>7, <2>2, SmallElements, SMTT(30)
    <3> QED BY <1>1, <1>5, <1>10, <3>1
  <2> QED BY <1>2, <2>1, <2>2
<1>15. ASSUME warnings = <<w>>
       PROVE  \/ \E i \in DOMAIN log' : log'[i].call = row.call /\ log'[i].what = "warn"
              \/ <<w.call, "warn">> \in lost'
  <2>1. CASE second = <<w>>
    <3>1. Len(more) \in 1..Len(more) /\ more[Len(more)] = w BY <1>9, <2>1
    <3>2. log'[Len(log) + Len(more)] = w BY <1>11, <3>1
    <3>3. Len(log) + Len(more) \in DOMAIN log' BY <1>4, <1>11, <3>1
    <3> QED BY <3>2, <3>3
  <2>2. CASE second = <<>>
    <3>1. C!Elements(a) \subseteq {row} BY <1>7, SmallElements
    <3>2. C!Elements(b) = {} BY <1>5, <2>2, SmallElements
    <3>3. w \notin C!Elements(more) BY <1>3, <1>6, <3>1, <3>2
    <3>4. w \in C!Elements(<<row>> \o warnings) BY <1>15, <1>10, SmallElements
    <3> QED BY <1>1, <1>5, <3>3, <3>4
  <2> QED BY <1>2, <2>1, <2>2
<1> QED BY <1>13, <1>14, <1>15

LEMMA LostGrows ==
  ASSUME CallTypes, lost \subseteq lost', log' = log, NEW c, NEW row
  PROVE  Grew(c, row) /\ Added = {}
<1>1. Len(log) \in Nat BY DEF CallTypes
<1>2. Added = {} BY <1>1 DEF Added
<1> QED BY <1>1, <1>2 DEF Grew, CallTypes
-----------------------------------------------------------------------------
\* The memories, and what a layer does with them.

LEMMA ForgetsDropped ==
  ASSUME CallTypes, NEW newIds \in [C!AllRuns -> Seq(Calls)],
         NEW newErrs \in [C!AllRuns -> Seq(Calls)], C!Forgets(newIds, newErrs)
  PROVE  /\ forgotten \subseteq forgotten' /\ forgotten' \subseteq Calls
         /\ \A r \in C!AllRuns, d \in Calls :
              /\ Within(ids[r], d) => Within(newIds[r], d) \/ d \in forgotten'
              /\ Within(errs[r], d) => Within(newErrs[r], d) \/ d \in forgotten'
<1>1. \A r \in C!AllRuns : C!Elements(ids[r]) \subseteq Calls /\ C!Elements(errs[r]) \subseteq Calls
  <2> SUFFICES ASSUME NEW r \in C!AllRuns
               PROVE  C!Elements(ids[r]) \subseteq Calls /\ C!Elements(errs[r]) \subseteq Calls
    OBVIOUS
  <2>1. PICK s \in Seq(Calls), t \in Seq(Calls) : s = ids[r] /\ t = errs[r]
    BY DEF CallTypes
  <2>2. C!Elements(s) \subseteq Calls /\ C!Elements(t) \subseteq Calls BY DEF C!Elements
  <2> QED BY <2>1, <2>2
<1>2. forgotten \subseteq Calls BY DEF CallTypes
<1> DEFINE ofIds == UNION {C!Elements(ids[r]) \ C!Elements(newIds[r]) : r \in C!AllRuns}
           ofErrs == UNION {C!Elements(errs[r]) \ C!Elements(newErrs[r]) : r \in C!AllRuns}
<1>3. forgotten' = forgotten \union ofIds \union ofErrs BY DEF C!Forgets
<1>4. ofIds \subseteq Calls /\ ofErrs \subseteq Calls BY <1>1
<1>5. \A r \in C!AllRuns, d \in Calls :
        /\ Within(ids[r], d) => Within(newIds[r], d) \/ d \in ofIds
        /\ Within(errs[r], d) => Within(newErrs[r], d) \/ d \in ofErrs
  BY DEF Within
<1> HIDE DEF ofIds, ofErrs
<1> QED BY <1>2, <1>3, <1>4, <1>5

LEMMA MemoryStays ==
  ASSUME CallTypes, NEW c, UNCHANGED <<ids, errs, forgotten>>
  PROVE  MemoryKept(c)
  BY DEF CallTypes, MemoryKept

LEMMA NothingForgotten ==
  ASSUME CallTypes, ids' = ids, errs' = errs, C!Forgets(ids', errs)
  PROVE  forgotten' = forgotten
  BY DEF C!Forgets

LEMMA IdKept ==
  ASSUME CallsGiven, CallTypes, NEW c \in Calls, NEW r \in C!AllRuns,
         ids' = [ids EXCEPT ![r] = C!Remember(@, c)], errs' = errs, C!Forgets(ids', errs)
  PROVE  /\ MemoryKept(c) /\ Within(ids'[r], c)
         /\ \A q \in C!AllRuns : q # r => ids'[q] = ids[q]
<1>1. PICK seen \in Seq(Calls) : seen = ids[r] /\ Distinct(seen) /\ Len(seen) <= IdLimit
  BY DEF CallTypes
<1>2. IdLimit \in Nat \ {0} BY DEF CallsGiven, C!LimitsAssumption
<1>3. PICK kept \in Seq(Calls) : kept = C!Remember(seen, c) BY <1>1, <1>2, RememberKeeps
<1>4. /\ Distinct(kept) /\ Len(kept) <= IdLimit /\ Within(kept, c)
      /\ \A d : Within(kept, d) => d = c \/ Within(seen, d)
  BY <1>1, <1>2, <1>3, RememberKeeps
<1>5. ids \in [C!AllRuns -> Seq(Calls)] /\ errs \in [C!AllRuns -> Seq(Calls)]
      /\ \A q \in C!AllRuns : Len(ids[q]) <= IdLimit /\ Distinct(ids[q])
  BY DEF CallTypes
<1>6. /\ ids' \in [C!AllRuns -> Seq(Calls)] /\ ids'[r] = kept
      /\ \A q \in C!AllRuns : q # r => ids'[q] = ids[q]
  BY <1>1, <1>3, <1>5
<1>7. \A q \in C!AllRuns : Len(ids'[q]) <= IdLimit /\ Distinct(ids'[q])
  <2> SUFFICES ASSUME NEW q \in C!AllRuns PROVE Len(ids'[q]) <= IdLimit /\ Distinct(ids'[q])
    OBVIOUS
  <2>1. CASE q = r BY <1>4, <1>6, <2>1
  <2>2. CASE q # r BY <1>5, <1>6, <2>2
  <2> QED BY <2>1, <2>2
<1>8. C!Forgets(ids', errs') OBVIOUS
<1>9. /\ forgotten \subseteq forgotten' /\ forgotten' \subseteq Calls
      /\ \A q \in C!AllRuns, d \in Calls :
              /\ Within(ids[q], d) => Within(ids'[q], d) \/ d \in forgotten'
              /\ Within(errs[q], d) => Within(errs'[q], d) \/ d \in forgotten'
  BY <1>5, <1>6, <1>8, ForgetsDropped
<1>10. \A q \in C!AllRuns, d \in Calls : Within(ids'[q], d) => Within(ids[q], d) \/ d = c
  BY <1>1, <1>4, <1>6
<1> QED BY <1>4, <1>5, <1>6, <1>7, <1>9, <1>10 DEF MemoryKept

LEMMA ErrorKept ==
  ASSUME CallTypes, NEW c \in Calls, NEW r \in C!AllRuns,
         errs' = [errs EXCEPT ![r] = C!RememberError(@, c)], UNCHANGED <<ids, forgotten>>
  PROVE  /\ MemoryKept(c) /\ Within(errs'[r], c)
         /\ \A q \in C!AllRuns : q # r => errs'[q] = errs[q]
<1>1. PICK seen \in Seq(Calls) : seen = errs[r] BY DEF CallTypes
<1>2. PICK kept \in Seq(Calls) : kept = C!RememberError(seen, c) BY RememberErrorKeeps
<1>3. \A d : Within(kept, d) <=> d = c \/ Within(seen, d) BY <1>2, RememberErrorKeeps
<1>4. ids \in [C!AllRuns -> Seq(Calls)] /\ errs \in [C!AllRuns -> Seq(Calls)]
      /\ (\A q \in C!AllRuns : Len(ids[q]) <= IdLimit /\ Distinct(ids[q]))
      /\ forgotten \subseteq Calls
  BY DEF CallTypes
<1>5. /\ errs' \in [C!AllRuns -> Seq(Calls)] /\ errs'[r] = kept
      /\ \A q \in C!AllRuns : q # r => errs'[q] = errs[q]
  BY <1>1, <1>2, <1>4
<1>6. \A q \in C!AllRuns, d \in Calls :
        /\ Within(errs'[q], d) => Within(errs[q], d) \/ d = c
        /\ Within(errs[q], d) => Within(errs'[q], d)
  BY <1>1, <1>3, <1>5
<1> QED BY <1>3, <1>4, <1>5, <1>6 DEF MemoryKept

\* There is a warning in the log, or it is lost.
WarnKept(c) ==
  \/ \E i \in DOMAIN log : log[i].call = c /\ log[i].what = "warn"
  \/ <<c, "warn">> \in lost

Layers == {"shim", "handler"}

LEMMA PolicyRowsWarn ==
  ASSUME NEW c \in Calls, NEW layer \in Layers, NEW r \in C!AllRuns, NEW what \in {"ok", "error"},
         NEW estimated \in BOOLEAN, CallTypes,
         C!Insert(C!Row(c, layer, r, what, estimated), C!PolicyRows(c, layer, r))
  PROVE  /\ Grew(c, C!Row(c, layer, r, what, estimated))
         /\ C!CallRows(c)' # {} \/ <<c, what>> \in lost'
         /\ layer = "shim" /\ call[c].warn => WarnKept(c)'
<1> DEFINE row == C!Row(c, layer, r, what, estimated)
           w == C!Row(c, layer, r, "warn", FALSE)
<1>1. /\ row \in C!RowType /\ row.call = c /\ row.what = what /\ row.what # "warn"
      /\ w \in C!RowType /\ w.call = c /\ w.what = "warn" /\ ~w.estimated
  BY DEF C!Row, C!RowType, Layers
<1>2. C!PolicyRows(c, layer, r) \in {<<>>, <<w>>} BY DEF C!PolicyRows
<1>3. layer = "shim" /\ call[c].warn => C!PolicyRows(c, layer, r) = <<w>>
  BY DEF C!PolicyRows
<1> HIDE DEF row, w
<1>4. C!Insert(row, C!PolicyRows(c, layer, r)) BY DEF row
<1>5. /\ Grew(row.call, row)
      /\ C!CallRows(row.call)' # {} \/ <<row.call, row.what>> \in lost'
      /\ C!PolicyRows(c, layer, r) = <<w>> =>
           \/ \E i \in DOMAIN log' : log'[i].call = row.call /\ log'[i].what = "warn"
           \/ <<w.call, "warn">> \in lost'
  BY <1>1, <1>2, <1>4, InsertGrows
<1>6. Grew(c, row) /\ (C!CallRows(c)' # {} \/ <<c, what>> \in lost') BY <1>1, <1>5
<1>7. layer = "shim" /\ call[c].warn => WarnKept(c)' BY <1>1, <1>3, <1>5 DEF WarnKept
<1> QED BY <1>6, <1>7 DEF row

\* emit_llm_call: the memory is asked if there is an id, and then remembers it.
LEMMA EmitWrites ==
  ASSUME CallsGiven, CallTypes, NEW c \in Calls, NEW layer \in Layers, NEW r \in C!AllRuns,
         NEW dedup \in BOOLEAN, NEW estimated \in BOOLEAN, C!Emit(c, layer, r, dedup, estimated)
  PROVE  /\ MemoryKept(c) /\ errs' = errs
         /\ Grew(c, C!Row(c, layer, r, "ok", estimated))
         /\ dedup => Within(ids'[r], c)
         /\ \A q \in C!AllRuns : Within(ids'[q], c) => Within(ids[q], c) \/ (q = r /\ dedup)
         /\ dedup /\ Within(ids[r], c) => log' = log
         /\ \/ dedup /\ Within(ids[r], c)
            \/ C!CallRows(c)' # {} \/ <<c, "ok">> \in lost'
         /\ \/ dedup /\ Within(ids[r], c)
            \/ layer = "shim" /\ call[c].warn => WarnKept(c)'
<1>1. /\ ids' = IF dedup THEN [ids EXCEPT ![r] = C!Remember(@, c)] ELSE ids
      /\ errs' = errs /\ C!Forgets(ids', errs)
  BY DEF C!Emit
<1>2. /\ MemoryKept(c) /\ dedup => Within(ids'[r], c)
      /\ \A q \in C!AllRuns : Within(ids'[q], c) => Within(ids[q], c) \/ (q = r /\ dedup)
  <2>1. CASE dedup BY <1>1, <2>1, IdKept
  <2>2. CASE ~dedup BY <1>1, <2>2, NothingForgotten, MemoryStays
  <2> QED BY <2>1, <2>2
<1>3. MemoryKept(c)
  <2>1. CASE dedup BY <1>1, <2>1, IdKept
  <2>2. CASE ~dedup BY <1>1, <2>2, NothingForgotten, MemoryStays
  <2> QED BY <2>1, <2>2
<1>4. CASE dedup /\ Within(ids[r], c)
  <2>1. log' = log /\ lost' = lost BY <1>4 DEF C!Emit, C!Silent, Within
  <2>2. Grew(c, C!Row(c, layer, r, "ok", estimated)) BY <2>1, LostGrows
  <2> QED BY <1>1, <1>2, <1>3, <1>4, <2>1, <2>2
<1>5. CASE ~(dedup /\ Within(ids[r], c))
  <2>1. \/ C!Insert(C!Row(c, layer, r, "ok", estimated), C!PolicyRows(c, layer, r))
        \/ lost' = lost \union {<<c, "ok">>, <<c, "warn">>} /\ log' = log
    BY <1>5 DEF C!Emit, Within
  <2>2. CASE C!Insert(C!Row(c, layer, r, "ok", estimated), C!PolicyRows(c, layer, r))
    <3>1. /\ Grew(c, C!Row(c, layer, r, "ok", estimated))
          /\ C!CallRows(c)' # {} \/ <<c, "ok">> \in lost'
          /\ layer = "shim" /\ call[c].warn => WarnKept(c)'
      BY <2>2, PolicyRowsWarn
    <3> QED BY <1>1, <1>2, <1>3, <1>5, <3>1
  <2>3. CASE lost' = lost \union {<<c, "ok">>, <<c, "warn">>} /\ log' = log
    <3>1. Grew(c, C!Row(c, layer, r, "ok", estimated)) BY <2>3, LostGrows
    <3>2. <<c, "ok">> \in lost' /\ WarnKept(c)' BY <2>3 DEF WarnKept
    <3> QED BY <1>1, <1>2, <1>3, <1>5, <3>1, <3>2
  <2> QED BY <2>1, <2>2, <2>3
<1> QED BY <1>4, <1>5

\* emit_llm_call_error, with the memory of exceptions.
LEMMA EmitErrorWrites ==
  ASSUME CallTypes, NEW c \in Calls, NEW layer \in Layers, NEW r \in C!AllRuns,
         C!EmitError(c, layer, r)
  PROVE  /\ MemoryKept(c) /\ ids' = ids
         /\ Grew(c, C!Row(c, layer, r, "error", FALSE))
         /\ Within(errs'[r], c)
         /\ \A q \in C!AllRuns : q # r => errs'[q] = errs[q]
         /\ Within(errs[r], c) => log' = log
         /\ \/ Within(errs[r], c)
            \/ C!CallRows(c)' # {} \/ <<c, "error">> \in lost'
         /\ Within(errs[r], c) \/ (layer = "shim" /\ call[c].warn => WarnKept(c)')
<1>1. errs' = [errs EXCEPT ![r] = C!RememberError(@, c)] /\ UNCHANGED <<ids, forgotten>>
  BY DEF C!EmitError
<1>2. /\ MemoryKept(c) /\ Within(errs'[r], c)
      /\ \A q \in C!AllRuns : q # r => errs'[q] = errs[q]
  BY <1>1, ErrorKept
<1>3. CASE Within(errs[r], c)
  <2>1. log' = log /\ lost' = lost BY <1>3 DEF C!EmitError, C!Silent, Within
  <2>2. Grew(c, C!Row(c, layer, r, "error", FALSE)) BY <2>1, LostGrows
  <2> QED BY <1>1, <1>2, <1>3, <2>1, <2>2
<1>4. CASE ~Within(errs[r], c)
  <2>1. C!Insert(C!Row(c, layer, r, "error", FALSE), C!PolicyRows(c, layer, r))
    BY <1>4 DEF C!EmitError, Within
  <2>2. /\ Grew(c, C!Row(c, layer, r, "error", FALSE))
        /\ C!CallRows(c)' # {} \/ <<c, "error">> \in lost'
        /\ layer = "shim" /\ call[c].warn => WarnKept(c)'
    BY <2>1, PolicyRowsWarn
  <2> QED BY <1>1, <1>2, <1>4, <2>2
<1> QED BY <1>3, <1>4
-----------------------------------------------------------------------------
\* The rows of a call.

\* What was known of the call when it had rows stays true.
Later(c) ==
  LET k == call[c] l == call'[c] IN
    /\ l.shape = k.shape /\ l.run = k.run /\ l.observed = k.observed /\ l.probe = k.probe
    /\ (k.told => l.told) /\ (k.cancelled => l.cancelled) /\ l.stage \notin {"new", "out"}
    /\ (k.stage = "over" => l.stage = "over") /\ (k.stage = "raised" => l.stage = "raised")

RowOk(c, row) == IF row.layer = "shim" THEN ShimRow(c, row) ELSE HandlerRow(c, row)

\* A row that a layer may add: it is its first, and if another layer has one the
\* memory could not tell.
MayAdd(c, row) ==
  /\ \A i \in C!CallRows(c) :
       /\ log[i].layer # row.layer
       /\ \/ log[i].run # row.run \/ ~C!HandlerSeesId(c) \/ c \in forgotten
          \/ call[c].cancelled
  /\ row.estimated =>
       row.what = "ok" /\ call'[c].stage = "over" /\ call'[c].observed /\ ~call'[c].probe.usage

LEMMA SameSight ==
  ASSUME NEW c, Later(c)
  PROVE  /\ C!HandlerSeesId(c)' <=> C!HandlerSeesId(c)
         /\ C!Captures(c)' <=> C!Captures(c)
         /\ C!Hooked(c)' <=> C!Hooked(c)
  BY DEF Later, C!HandlerSeesId, C!Captures, C!Hooked

LEMMA RowStaysOk ==
  ASSUME CallTypes, NEW c \in Calls, Later(c), MemoryKept(c), NEW row, RowOk(c, row)
  PROVE  RowOk(c, row)'
<1>1. /\ C!HandlerSeesId(c)' <=> C!HandlerSeesId(c)
      /\ C!Captures(c)' <=> C!Captures(c)
      /\ C!Hooked(c)' <=> C!Hooked(c)
  BY SameSight
<1>2. /\ C!Hooked(c) => call[c].run \in C!AllRuns
      /\ \A r \in C!AllRuns : Within(errs[r], c) => Within(errs'[r], c) \/ c \in forgotten'
      /\ forgotten \subseteq forgotten'
  BY DEF CallTypes, CallRecord, C!Hooked, MemoryKept
<1>3. CASE row.layer = "shim"
  <2>1. ShimRow(c, row) BY <1>3 DEF RowOk
  <2>2. ShimRow(c, row)' BY <1>1, <1>2, <2>1 DEF ShimRow, Later
  <2> QED BY <1>3, <2>2 DEF RowOk
<1>4. CASE row.layer # "shim"
  <2>1. HandlerRow(c, row) BY <1>4 DEF RowOk
  <2>2. HandlerRow(c, row)' BY <1>1, <1>2, <2>1 DEF HandlerRow, Later, HasHandler
  <2> QED BY <1>4, <2>2 DEF RowOk
<1> QED BY <1>3, <1>4

LEMMA CountedGrows ==
  ASSUME CallTypes, NEW c \in Calls, MemoryKept(c), Counted(c), EstimatedUnseen,
         \A d \in Calls : d # c => call'[d] = call[d],
         NEW row \in C!RowType, row.call = c, row.what # "warn", Grew(c, row),
         C!CallRows(c) = {} \/ Later(c),
         log' # log => RowOk(c, row)' /\ MayAdd(c, row)
  PROVE  Counted(c)' /\ EstimatedUnseen'
<1>1. /\ C!CallRows(c) \subseteq C!CallRows(c)'
      /\ \A i \in C!CallRows(c) : i \in 1..Len(log) /\ log'[i] = log[i]
      /\ \A i \in C!CallRows(c)' :
              i \in C!CallRows(c) \/ (i \in Added /\ log'[i] = row)
  BY OwnOrOld
<1>2. /\ DOMAIN log = 1..Len(log) /\ DOMAIN log' = 1..Len(log')
      /\ Len(log) \in Nat /\ Len(log') \in Nat
  BY DEF CallTypes, Grew
<1>3. ASSUME NEW i \in Added PROVE log' # log
  <2>1. PICK m \in Nat, n \in Nat : m = Len(log) /\ n = Len(log') BY <1>2
  <2>2. i \in (m + 1)..n BY <1>3, <2>1 DEF Added
  <2>3. m # n BY <2>2
  <2> QED BY <2>1, <2>3
<1>4. ASSUME NEW i \in C!CallRows(c)
      PROVE  IF log'[i].layer = "shim" THEN ShimRow(c, log[i])' ELSE HandlerRow(c, log[i])'
  <2>1. Later(c) BY <1>4
  <2>2. PICK old : old = log[i] /\ old = log'[i] BY <1>1, <1>4
  <2>3. IF old.layer = "shim" THEN ShimRow(c, old) ELSE HandlerRow(c, old)
    BY <1>4, <2>2 DEF Counted
  <2>4. RowOk(c, old)' BY <2>1, <2>3, RowStaysOk DEF RowOk
  <2> QED BY <2>2, <2>4 DEF RowOk, ShimRow, HandlerRow
<1>5. ASSUME NEW i \in C!CallRows(c)'
      PROVE  IF log'[i].layer = "shim" THEN ShimRow(c, log[i])' ELSE HandlerRow(c, log[i])'
  <2>1. CASE i \in C!CallRows(c) BY <1>4, <2>1
  <2>2. CASE i \in Added /\ log'[i] = row
    <3>1. RowOk(c, row)' BY <1>3, <2>2
    <3> QED BY <2>2, <3>1 DEF RowOk, ShimRow, HandlerRow
  <2> QED BY <1>1, <1>5, <2>1, <2>2
<1>6. ASSUME NEW i \in C!CallRows(c)', NEW j \in C!CallRows(c)', i # j
      PROVE  /\ log'[i].layer # log'[j].layer
             /\ \/ log'[i].run # log'[j].run \/ ~C!HandlerSeesId(c)' \/ c \in forgotten'
                \/ call'[c].cancelled
  <2>1. CASE i \in C!CallRows(c) /\ j \in C!CallRows(c)
    <3>1. Later(c) BY <2>1
    <3>2. forgotten \subseteq forgotten' BY DEF MemoryKept
    <3>3. /\ log[i].layer # log[j].layer
          /\ \/ log[i].run # log[j].run \/ ~C!HandlerSeesId(c) \/ c \in forgotten
             \/ call[c].cancelled
      BY <1>6, <2>1 DEF Counted
    <3>4. call[c].cancelled => call'[c].cancelled BY <3>1 DEF Later
    <3> QED BY <1>1, <2>1, <3>1, <3>2, <3>3, <3>4, SameSight
  <2>2. ASSUME NEW o \in C!CallRows(c), NEW n \in Added, log'[n] = row
        PROVE  /\ log'[o].layer # log'[n].layer
               /\ \/ log'[o].run # log'[n].run \/ ~C!HandlerSeesId(c)' \/ c \in forgotten'
                  \/ call'[c].cancelled
    <3>1. Later(c) BY <2>2
    <3>2. forgotten \subseteq forgotten' BY DEF MemoryKept
    <3>3. MayAdd(c, row) BY <1>3, <2>2
    <3>4. call[c].cancelled => call'[c].cancelled BY <3>1 DEF Later
    <3>5. log'[o] = log[o] BY <1>1, <2>2
    <3> QED BY <2>2, <3>1, <3>2, <3>3, <3>4, <3>5, SameSight DEF MayAdd
  <2>3. ~(i \in Added /\ log'[i] = row /\ j \in Added /\ log'[j] = row)
    BY <1>6 DEF Grew
  <2>4. CASE i \in C!CallRows(c) /\ j \in Added /\ log'[j] = row BY <2>2, <2>4
  <2>5. CASE j \in C!CallRows(c) /\ i \in Added /\ log'[i] = row BY <2>2, <2>5
  <2> QED BY <1>1, <1>6, <2>1, <2>3, <2>4, <2>5
<1>7. Counted(c)' BY <1>5, <1>6 DEF Counted
<1>8. ASSUME NEW i \in DOMAIN log', log'[i].estimated
      PROVE  LET k == call'[log'[i].call] IN
               log'[i].what = "ok" /\ k.stage = "over" /\ k.observed /\ ~k.probe.usage
  <2>1. CASE i \in Added
    <3>1. log'[i] = row BY <1>8, <2>1 DEF Grew
    <3>2. MayAdd(c, row) BY <1>3, <2>1
    <3> QED BY <1>8, <3>1, <3>2 DEF MayAdd
  <2>2. CASE i \in 1..Len(log)
    <3>1. log'[i] = log[i] /\ log[i] \in C!RowType BY <2>2 DEF Grew, CallTypes
    <3>2. log[i].call \in Calls BY <3>1 DEF C!RowType
    <3>3. LET k == call[log[i].call] IN
            log[i].what = "ok" /\ k.stage = "over" /\ k.observed /\ ~k.probe.usage
      BY <1>2, <1>8, <2>2, <3>1 DEF EstimatedUnseen
    <3>4. CASE log[i].call # c BY <3>1, <3>2, <3>3, <3>4
    <3>5. CASE log[i].call = c
      <4>1. i \in C!CallRows(c) BY <1>2, <2>2, <3>3, <3>5 DEF C!CallRows
      <4>2. Later(c) BY <4>1
      <4> QED BY <3>1, <3>3, <3>5, <4>2 DEF Later
    <3> QED BY <3>4, <3>5
  <2> QED BY <1>2, <2>1, <2>2 DEF Added
<1>9. EstimatedUnseen' BY <1>8 DEF EstimatedUnseen
<1> QED BY <1>7, <1>9
-----------------------------------------------------------------------------
\* The steps, each of one call.

LEMMA NextInv ==
  ASSUME CallsGiven, RecordingInv, NEW c \in Calls, NEW row, Grew(c, row), MemoryKept(c),
         call' \in [Calls -> CallRecord], \A d \in Calls : d # c => call'[d] = call[d],
         UNCHANGED <<active, over>>, CallInv(c)', EstimatedUnseen'
  PROVE  RecordingInv'
<1>1. CallTypes' BY DEF RecordingInv, CallTypes, MemoryKept, Grew
<1>2. ASSUME NEW d \in Calls PROVE CallInv(d)'
  <2>1. CASE d = c BY <2>1
  <2>2. CASE d # c BY <2>2, Aside DEF RecordingInv
  <2> QED BY <2>1, <2>2
<1> QED BY <1>1, <1>2 DEF RecordingInv

LEMMA NoRowsYet ==
  ASSUME CallTypes, NEW c \in Calls, CallInv(c),
         \/ call[c].stage \in {"new", "out"}
         \/ call[c].stage = "open" /\ call[c].pos # Len(call[c].shape.chunks)
  PROVE  C!CallRows(c) = {}
<1> SUFFICES ASSUME NEW i \in C!CallRows(c) PROVE FALSE OBVIOUS
<1>1. PICK row \in C!RowType : row = log[i] /\ row.what # "warn"
  BY DEF C!CallRows, CallTypes
<1>2. row.what \in {"ok", "error"} BY <1>1 DEF C!RowType
<1>3. IF row.layer = "shim" THEN ShimRow(c, row) ELSE HandlerRow(c, row)
  BY <1>1 DEF CallInv, Counted
<1>4. CASE row.layer = "shim" BY <1>2, <1>3, <1>4 DEF ShimRow
<1>5. CASE row.layer # "shim" BY <1>3, <1>5 DEF HandlerRow, CallInv, Placed
<1> QED BY <1>4, <1>5

LEMMA SomeRow ==
  ASSUME NEW c \in Calls
  PROVE  \E row \in C!RowType : row.call = c /\ row.what # "warn"
<1>1. [call |-> c, layer |-> "shim", run |-> Ambient, what |-> "ok", estimated |-> FALSE]
        \in C!RowType
  BY DEF C!RowType, C!AllRuns
<1> QED BY <1>1

\* Nothing is written; something may be lost.
LEMMA QuietInv ==
  ASSUME CallsGiven, RecordingInv, NEW c \in Calls, MemoryKept(c), log' = log,
         lost \subseteq lost',
         call' \in [Calls -> CallRecord], \A d \in Calls : d # c => call'[d] = call[d],
         UNCHANGED <<active, over>>, C!CallRows(c) = {} \/ Later(c),
         Placed(c)', UsageUnseen(c)', Recalled(c)', Asked(c)', Done(c)', Warned(c)'
  PROVE  RecordingInv'
<1>1. PICK row \in C!RowType : row.call = c /\ row.what # "warn" BY SomeRow
<1>2. Grew(c, row) BY LostGrows DEF RecordingInv
<1>3. Counted(c)' /\ EstimatedUnseen' BY <1>1, <1>2, CountedGrows DEF RecordingInv, CallInv
<1>4. CallInv(c)' BY <1>3 DEF CallInv
<1> QED BY <1>2, <1>3, <1>4, NextInv

LEMMA ShapeFacts ==
  ASSUME CallsGiven, NEW c \in Calls, NEW s \in Shapes[c]
  PROVE  /\ s.provider \in {"anthropic", "openai", "openai_responses", "gemini"}
         /\ s.layers \in {{"shim"}, {"handler"}, {"shim", "handler"}}
         /\ s.mode \in {"plain", "stream", "helper"}
         /\ s.hasId \in BOOLEAN /\ s.warns \in BOOLEAN
         /\ s.chunks \in Seq(C!ChunksOf(s.provider)) /\ Len(s.chunks) \in Nat
         /\ C!Observes(s) => s.mode # "plain" /\ s.provider # "gemini"
         /\ s \in SomeShape
<1>1. s.provider \in {"anthropic", "openai", "openai_responses", "gemini"}
  BY DEF CallsGiven, C!ShapesAssumption
<1>2. C!Observes(s) => s.mode # "plain" /\ s.provider # "gemini"
  BY <1>1 DEF C!Observes, C!AnthropicShim, C!OpenAIShim, C!OpenAIResponsesShim, C!GeminiShim
<1>3. s \in SomeShape BY DEF SomeShape
<1> QED BY <1>1, <1>2, <1>3 DEF CallsGiven, C!ShapesAssumption

LEMMA RunFacts ==
  ASSUME CallsGiven, CallTypes
  PROVE  C!CurrentRun \in C!AllRuns /\ C!CurrentRun # None
  BY DEF CallsGiven, CallTypes, C!CurrentRun, C!AllRuns, C!NoneAssumption

LEMMA BeginInv ==
  ASSUME CallsGiven, RecordingInv, NEW c \in Calls, C!Begin(c)
  PROVE  RecordingInv'
<1>1. PICK s \in Shapes[c], missed \in BOOLEAN, refused \in BOOLEAN, hooked \in BOOLEAN :
        /\ hooked <=> ("shim" \in s.layers /\ ~missed)
        /\ refused => hooked
        /\ call' = [call EXCEPT
              ![c] = [C!NewCall EXCEPT
                        !.shape = s, !.refused = refused,
                        !.warn = hooked /\ s.warns,
                        !.run = IF hooked THEN C!CurrentRun ELSE None,
                        !.told = "handler" \notin s.layers,
                        !.stage = IF refused THEN "raised" ELSE "out"]]
        /\ lost' = IF missed THEN lost \union {<<c, "ok">>} ELSE lost
  <2>1. PICK s \in Shapes[c], missed, refused \in BOOLEAN :
          LET hooked == "shim" \in s.layers /\ ~missed IN
          /\ refused => hooked
          /\ call' = [call EXCEPT
                ![c] = [C!NewCall EXCEPT
                          !.shape = s, !.refused = refused,
                          !.warn = hooked /\ s.warns,
                          !.run = IF hooked THEN C!CurrentRun ELSE None,
                          !.told = "handler" \notin s.layers,
                          !.stage = IF refused THEN "raised" ELSE "out"]]
          /\ lost' = IF missed THEN lost \union {<<c, "ok">>} ELSE lost
    BY ZenonT(40) DEF C!Begin
  <2>2. ("shim" \in s.layers /\ ~missed) \in BOOLEAN OBVIOUS
  <2> QED BY <2>1, <2>2
<1>2. PICK k \in CallRecord :
        /\ call' = [call EXCEPT ![c] = k]
        /\ k.shape = s /\ k.refused = refused /\ k.warn = (hooked /\ s.warns)
        /\ k.run = (IF hooked THEN C!CurrentRun ELSE None)
        /\ k.told = ("handler" \notin s.layers)
        /\ k.stage = (IF refused THEN "raised" ELSE "out")
        /\ k.pos = 0 /\ k.probe.id = FALSE /\ k.claim = "none"
        /\ k.cancelled = FALSE /\ k.observed = FALSE
  <2> DEFINE k == [C!NewCall EXCEPT
                        !.shape = s, !.refused = refused,
                        !.warn = hooked /\ s.warns,
                        !.run = IF hooked THEN C!CurrentRun ELSE None,
                        !.told = "handler" \notin s.layers,
                        !.stage = IF refused THEN "raised" ELSE "out"]
  <2>1. k \in CallRecord
    BY RunFacts, ShapeFacts, ZenonT(40)
    DEF RecordingInv, CallRecord, Stages, C!NewCall, C!NoProbe
  <2> QED BY <1>1, <2>1 DEF C!NewCall, C!NoProbe
<1>3. /\ call[c].stage = "new" /\ UNCHANGED <<active, over, ids, errs, log, forgotten>>
      /\ lost \subseteq lost'
  BY <1>1 DEF C!Begin
<1>4. call \in [Calls -> CallRecord] /\ CallTypes BY DEF RecordingInv, CallTypes
<1>5. /\ call' \in [Calls -> CallRecord] /\ call'[c] = k
      /\ \A d \in Calls : d # c => call'[d] = call[d]
  BY <1>2, <1>4
<1>6. CallInv(c) BY DEF RecordingInv
<1>7. C!CallRows(c) = {} BY <1>3, <1>4, <1>6, NoRowsYet
<1>8. (k.run # None) <=> hooked BY <1>2, <1>4, RunFacts
<1>9. s.layers \in {{"shim"}, {"handler"}, {"shim", "handler"}} /\ Len(s.chunks) \in Nat
  BY ShapeFacts
<1>10. Placed(c)' BY <1>1, <1>2, <1>5, <1>8, <1>9 DEF Placed, C!Hooked, HasHandler
<1>11. UsageUnseen(c)' BY <1>2, <1>5, <1>9 DEF UsageUnseen
<1>12. Recalled(c)'
  <2>1. \A r \in C!AllRuns : ~Within(ids[r], c)
    BY <1>3, <1>6 DEF CallInv, Recalled
  <2>2. \A r \in C!AllRuns : ~Within(errs[r], c)
    BY <1>3, <1>6 DEF CallInv, Recalled, Placed
  <2> QED BY <1>3, <2>1, <2>2 DEF Recalled
<1>13. Asked(c)' BY <1>2, <1>5 DEF Asked
<1>14. Done(c)'
  <2>1. ~hooked /\ "handler" \notin s.layers => <<c, "ok">> \in lost' BY <1>1, <1>9
  <2> QED BY <1>2, <1>5, <1>8, <2>1 DEF Done, C!Hooked, HasHandler
<1>15. Warned(c)' BY <1>2, <1>5 DEF Warned
<1>16. MemoryKept(c) BY <1>3, <1>4, MemoryStays
<1> QED BY <1>3, <1>5, <1>7, <1>10, <1>11, <1>12, <1>13, <1>14, <1>15, <1>16, QuietInv

\* An interrupt passes the shim.
LEMMA CancelInv ==
  ASSUME CallsGiven, RecordingInv, NEW c \in Calls, C!Cancel(c)
  PROVE  RecordingInv'
<1>1. /\ call[c].stage = "out"
      /\ call' = [call EXCEPT ![c].stage = "raised", ![c].cancelled = TRUE]
      /\ UNCHANGED <<active, over, ids, errs, log, lost, forgotten>>
  BY DEF C!Cancel, C!Nothing
<1>2. call \in [Calls -> CallRecord] /\ CallTypes /\ CallInv(c)
  BY DEF RecordingInv, CallTypes
<1>3. PICK k \in CallRecord : k = call[c] BY <1>2
<1>4. PICK l \in CallRecord :
        /\ call' = [call EXCEPT ![c] = l]
        /\ l.stage = "raised" /\ l.cancelled = TRUE
        /\ l.shape = k.shape /\ l.run = k.run /\ l.warn = k.warn /\ l.pos = k.pos
        /\ l.probe = k.probe /\ l.claim = k.claim /\ l.refused = k.refused
        /\ l.observed = k.observed /\ l.told = k.told
  <2> DEFINE l == [k EXCEPT !.stage = "raised", !.cancelled = TRUE]
  <2>1. l \in CallRecord BY DEF CallRecord, Stages
  <2>2. call' = [call EXCEPT ![c] = l] BY <1>1, <1>2, <1>3
  <2>3. /\ l.stage = "raised" /\ l.cancelled = TRUE
        /\ l.shape = k.shape /\ l.run = k.run /\ l.warn = k.warn /\ l.pos = k.pos
        /\ l.probe = k.probe /\ l.claim = k.claim /\ l.refused = k.refused
        /\ l.observed = k.observed /\ l.told = k.told
    BY DEF CallRecord
  <2> QED BY <2>1, <2>2, <2>3
<1>5. /\ call' \in [Calls -> CallRecord] /\ call'[c] = l
      /\ \A d \in Calls : d # c => call'[d] = call[d]
  BY <1>2, <1>4
<1>6. C!CallRows(c) = {} BY <1>1, <1>2, NoRowsYet
<1>7. Placed(c)' BY <1>1, <1>2, <1>3, <1>4, <1>5 DEF CallInv, Placed, C!Hooked, HasHandler
<1>8. UsageUnseen(c)' BY <1>1, <1>2, <1>3, <1>4, <1>5 DEF CallInv, UsageUnseen
<1>9. Recalled(c)'
  <2>1. \A r \in C!AllRuns : ~Within(ids[r], c) BY <1>1, <1>2 DEF CallInv, Recalled
  <2>2. \A r \in C!AllRuns : ~Within(errs[r], c)
    BY <1>1, <1>2 DEF CallInv, Recalled, Placed
  <2> QED BY <1>1, <2>1, <2>2 DEF Recalled
<1>10. Asked(c)' BY <1>4, <1>5 DEF Asked
<1>11. Done(c)'
  <2>1. k.told = ~HasHandler(c) BY <1>1, <1>2, <1>3 DEF CallInv, Placed
  <2> QED BY <1>1, <1>2, <1>3, <1>4, <1>5, <2>1 DEF CallInv, Done, C!Hooked, HasHandler
<1>12. Warned(c)' BY <1>4, <1>5 DEF Warned
<1>13. MemoryKept(c) BY <1>1, <1>2, MemoryStays
<1> QED BY <1>1, <1>5, <1>6, <1>7, <1>8, <1>9, <1>10, <1>11, <1>12, <1>13, QuietInv

\* The SDK has returned a stream.
LEMMA OpenInv ==
  ASSUME CallsGiven, RecordingInv, NEW c \in Calls, C!Open(c)
  PROVE  RecordingInv'
<1>1. /\ call[c].stage = "out" /\ C!Hooked(c) /\ C!Observes(call[c].shape)
      /\ UNCHANGED <<active, over, ids, errs, log, forgotten>>
  BY DEF C!Open
<1>2. call \in [Calls -> CallRecord] /\ CallTypes /\ CallInv(c)
  BY DEF RecordingInv, CallTypes
<1>3. PICK k \in CallRecord : k = call[c] BY <1>2
<1>4. PICK stage \in {"open", "over"}, seen \in BOOLEAN :
        /\ call' = [call EXCEPT ![c] = [k EXCEPT !.stage = stage, !.observed = seen]]
        /\ seen <=> stage = "open"
        /\ stage = "over" => lost' = lost \union {<<c, "ok">>, <<c, "warn">>}
        /\ stage = "open" => lost' = lost
  <2>1. CASE /\ call' = [call EXCEPT ![c].stage = "open", ![c].observed = TRUE]
             /\ UNCHANGED lost
    <3>1. call' = [call EXCEPT ![c] = [k EXCEPT !.stage = "open", !.observed = TRUE]]
      BY <1>2, <1>3, <2>1
    <3> QED BY <2>1, <3>1
  <2>2. CASE /\ call' = [call EXCEPT ![c].stage = "over"]
             /\ lost' = lost \union {<<c, "ok">>, <<c, "warn">>}
    <3>1. k.observed = FALSE BY <1>1, <1>2, <1>3 DEF CallInv, Placed, CallRecord
    <3>2. [k EXCEPT !.stage = "over", !.observed = FALSE] = [k EXCEPT !.stage = "over"]
      BY <3>1 DEF CallRecord
    <3>3. call' = [call EXCEPT ![c] = [k EXCEPT !.stage = "over"]]
      BY <1>2, <1>3, <2>2
    <3>4. call' = [call EXCEPT ![c] = [k EXCEPT !.stage = "over", !.observed = FALSE]]
      BY <3>2, <3>3
    <3> QED BY <2>2, <3>4
  <2> QED BY <2>1, <2>2 DEF C!Open
<1>5. PICK l \in CallRecord :
        /\ call' = [call EXCEPT ![c] = l]
        /\ l.stage = stage /\ l.observed = seen
        /\ l.shape = k.shape /\ l.run = k.run /\ l.warn = k.warn /\ l.pos = k.pos
        /\ l.probe = k.probe /\ l.claim = k.claim /\ l.refused = k.refused
        /\ l.cancelled = k.cancelled /\ l.told = k.told
  <2> DEFINE l == [k EXCEPT !.stage = stage, !.observed = seen]
  <2>1. l \in CallRecord BY DEF CallRecord, Stages
  <2>2. call' = [call EXCEPT ![c] = l] BY <1>4
  <2>3. /\ l.stage = stage /\ l.observed = seen
        /\ l.shape = k.shape /\ l.run = k.run /\ l.warn = k.warn /\ l.pos = k.pos
        /\ l.probe = k.probe /\ l.claim = k.claim /\ l.refused = k.refused
        /\ l.cancelled = k.cancelled /\ l.told = k.told
    BY DEF CallRecord
  <2> QED BY <2>1, <2>2, <2>3
<1>6. /\ call' \in [Calls -> CallRecord] /\ call'[c] = l
      /\ \A d \in Calls : d # c => call'[d] = call[d]
  BY <1>2, <1>5
<1>7. C!CallRows(c) = {} BY <1>1, <1>2, NoRowsYet
<1>8. k.told = ~HasHandler(c) /\ ~k.observed /\ k.pos = 0 /\ ~k.probe.id /\ ~k.cancelled
  BY <1>1, <1>2, <1>3 DEF CallInv, Placed
<1>9. Placed(c)'
  BY <1>1, <1>2, <1>3, <1>4, <1>5, <1>6, <1>8 DEF CallInv, Placed, C!Hooked, HasHandler
<1>10. UsageUnseen(c)' BY <1>1, <1>2, <1>3, <1>5, <1>6, <1>8 DEF CallInv, UsageUnseen
<1>11. Recalled(c)'
  <2>1. \A r \in C!AllRuns : ~Within(ids[r], c) BY <1>1, <1>2 DEF CallInv, Recalled
  <2>2. \A r \in C!AllRuns : ~Within(errs[r], c)
    BY <1>1, <1>2 DEF CallInv, Recalled, Placed
  <2> QED BY <1>1, <2>1, <2>2 DEF Recalled
<1>12. Asked(c)'
  <2>1. k.shape \in Shapes[c] BY <1>1, <1>2, <1>3 DEF CallInv, Placed
  <2>2. k.shape.mode # "plain" BY <1>1, <1>3, <2>1, ShapeFacts
  <2> QED BY <1>1, <1>3, <1>4, <1>5, <1>6, <1>8, <2>2
      DEF Asked, C!Captures, C!HandlerSeesId, C!Hooked
<1>13. Done(c)'
  <2>1. stage = "over" => <<c, "ok">> \in lost' BY <1>4
  <2> QED BY <1>1, <1>2, <1>3, <1>4, <1>5, <1>6, <2>1
      DEF CallInv, Done, Accounted, C!Hooked, HasHandler
<1>14. Warned(c)'
  <2>1. stage = "over" => <<c, "warn">> \in lost' BY <1>4
  <2> QED BY <1>4, <1>5, <1>6, <2>1 DEF Warned
<1>15. MemoryKept(c) /\ lost \subseteq lost' BY <1>1, <1>2, <1>4, MemoryStays
<1> QED BY <1>1, <1>6, <1>7, <1>9, <1>10, <1>11, <1>12, <1>13, <1>14, <1>15, QuietInv

\* Whoever held the stream lets go of it.
LEMMA AbandonInv ==
  ASSUME CallsGiven, RecordingInv, NEW c \in Calls, C!Abandon(c)
  PROVE  RecordingInv'
<1>1. /\ call[c].stage = "open"
      /\ UNCHANGED <<active, over, ids, errs, log, lost, forgotten>>
  BY DEF C!Abandon
<1>2. call \in [Calls -> CallRecord] /\ CallTypes /\ CallInv(c)
  BY DEF RecordingInv, CallTypes
<1>3. PICK k \in CallRecord : k = call[c] BY <1>2
<1>4. PICK cancelled \in BOOLEAN :
        call' = [call EXCEPT ![c].stage = "dropped", ![c].cancelled = cancelled]
  BY DEF C!Abandon
<1>5. PICK l \in CallRecord :
        /\ call' = [call EXCEPT ![c] = l]
        /\ l.stage = "dropped" /\ l.cancelled = cancelled
        /\ l.shape = k.shape /\ l.run = k.run /\ l.warn = k.warn /\ l.pos = k.pos
        /\ l.probe = k.probe /\ l.claim = k.claim /\ l.refused = k.refused
        /\ l.observed = k.observed /\ l.told = k.told
  <2> DEFINE l == [k EXCEPT !.stage = "dropped", !.cancelled = cancelled]
  <2>1. l \in CallRecord BY DEF CallRecord, Stages
  <2>2. call' = [call EXCEPT ![c] = l] BY <1>2, <1>3, <1>4
  <2>3. /\ l.stage = "dropped" /\ l.cancelled = cancelled
        /\ l.shape = k.shape /\ l.run = k.run /\ l.warn = k.warn /\ l.pos = k.pos
        /\ l.probe = k.probe /\ l.claim = k.claim /\ l.refused = k.refused
        /\ l.observed = k.observed /\ l.told = k.told
    BY DEF CallRecord
  <2> QED BY <2>1, <2>2, <2>3
<1>6. /\ call' \in [Calls -> CallRecord] /\ call'[c] = l
      /\ \A d \in Calls : d # c => call'[d] = call[d]
  BY <1>2, <1>5
<1>7. k.cancelled = FALSE /\ k.observed BY <1>1, <1>2, <1>3 DEF CallInv, Placed, CallRecord
<1>8. Later(c) BY <1>1, <1>3, <1>5, <1>6, <1>7 DEF Later
<1>9. Placed(c)'
  BY <1>1, <1>2, <1>3, <1>5, <1>6, <1>7 DEF CallInv, Placed, C!Hooked, HasHandler
<1>10. UsageUnseen(c)' BY <1>1, <1>2, <1>3, <1>5, <1>6 DEF CallInv, UsageUnseen
<1>11. Recalled(c)'
  <2>1. Accounted(c) => Accounted(c)' BY <1>1 DEF Accounted, C!CallRows
  <2> QED BY <1>1, <1>2, <1>3, <1>5, <1>6, <1>7, <2>1 DEF CallInv, Recalled, C!Hooked
<1>12. Asked(c)'
  BY <1>1, <1>2, <1>3, <1>5, <1>6, <1>8, SameSight DEF CallInv, Asked
<1>13. Done(c)' BY <1>1, <1>2, <1>3, <1>5, <1>6 DEF CallInv, Done, C!Hooked, HasHandler
<1>14. Warned(c)' BY <1>5, <1>6 DEF Warned
<1>15. MemoryKept(c) BY <1>1, <1>2, MemoryStays
<1> QED BY <1>1, <1>6, <1>8, <1>9, <1>10, <1>11, <1>12, <1>13, <1>14, <1>15, QuietInv

\* The handler's callback gets no call context.
LEMMA HandlerFailsInv ==
  ASSUME CallsGiven, RecordingInv, NEW c \in Calls, C!HandlerFails(c)
  PROVE  RecordingInv'
<1>1. /\ call[c].stage \in {"over", "raised"} /\ ~call[c].told
      /\ call' = [call EXCEPT ![c].told = TRUE]
      /\ lost' = lost \union {<<c, "ok">>}
      /\ UNCHANGED <<active, over, ids, errs, log, forgotten>>
  BY DEF C!HandlerFails
<1>2. call \in [Calls -> CallRecord] /\ CallTypes /\ CallInv(c)
  BY DEF RecordingInv, CallTypes
<1>3. PICK k \in CallRecord : k = call[c] BY <1>2
<1>4. PICK l \in CallRecord :
        /\ call' = [call EXCEPT ![c] = l] /\ l.told = TRUE
        /\ l.stage = k.stage /\ l.cancelled = k.cancelled
        /\ l.shape = k.shape /\ l.run = k.run /\ l.warn = k.warn /\ l.pos = k.pos
        /\ l.probe = k.probe /\ l.claim = k.claim /\ l.refused = k.refused
        /\ l.observed = k.observed
  <2> DEFINE l == [k EXCEPT !.told = TRUE]
  <2>1. l \in CallRecord BY DEF CallRecord
  <2>2. call' = [call EXCEPT ![c] = l] BY <1>1, <1>2, <1>3
  <2>3. /\ l.told = TRUE /\ l.stage = k.stage /\ l.cancelled = k.cancelled
        /\ l.shape = k.shape /\ l.run = k.run /\ l.warn = k.warn /\ l.pos = k.pos
        /\ l.probe = k.probe /\ l.claim = k.claim /\ l.refused = k.refused
        /\ l.observed = k.observed
    BY DEF CallRecord
  <2> QED BY <2>1, <2>2, <2>3
<1>5. /\ call' \in [Calls -> CallRecord] /\ call'[c] = l
      /\ \A d \in Calls : d # c => call'[d] = call[d]
  BY <1>2, <1>4
<1>6. Later(c) BY <1>1, <1>3, <1>4, <1>5 DEF Later
<1>7. Placed(c)'
  BY <1>1, <1>2, <1>3, <1>4, <1>5 DEF CallInv, Placed, C!Hooked, HasHandler
<1>8. UsageUnseen(c)' BY <1>1, <1>2, <1>3, <1>4, <1>5 DEF CallInv, UsageUnseen
<1>9. Accounted(c)' BY <1>1 DEF Accounted
<1>10. Recalled(c)'
  BY <1>1, <1>2, <1>3, <1>4, <1>5, <1>9 DEF CallInv, Recalled, C!Hooked
<1>11. Asked(c)'
  BY <1>1, <1>2, <1>3, <1>4, <1>5, <1>6, SameSight DEF CallInv, Asked
<1>12. Done(c)'
  BY <1>1, <1>2, <1>3, <1>4, <1>5, <1>9 DEF CallInv, Done, C!Hooked, HasHandler
<1>13. Warned(c)' BY <1>1, <1>2, <1>3, <1>4, <1>5 DEF CallInv, Warned
<1>14. MemoryKept(c) BY <1>1, <1>2, MemoryStays
<1> QED BY <1>1, <1>5, <1>6, <1>7, <1>8, <1>10, <1>11, <1>12, <1>13, <1>14, QuietInv

LEMMA ObserveFacts ==
  ASSUME CallsGiven, NEW c \in Calls, NEW s \in Shapes[c],
         NEW p \in [id : BOOLEAN, usage : BOOLEAN], NEW chunk \in C!ChunksOf(s.provider),
         C!Observes(s)
  PROVE  LET o == C!Observe(s, p, chunk) IN
           /\ o \in [id : BOOLEAN, usage : BOOLEAN]
           /\ p.id => o.id
           /\ ~o.usage => ~p.usage /\ chunk \notin C!UsageChunks
<1>1. s.provider \in {"anthropic", "openai", "openai_responses"} BY ShapeFacts
<1>2. CASE s.provider = "anthropic"
  BY <1>2 DEF C!Observe, C!AnthropicProbe, C!ChunksOf, C!UsageChunks
<1>3. CASE s.provider = "openai"
  BY <1>3 DEF C!Observe, C!ChatProbe, C!ChunksOf, C!UsageChunks
<1>4. CASE s.provider = "openai_responses"
  BY <1>4 DEF C!Observe, C!ResponsesProbe, C!ChunksOf, C!UsageChunks
<1> QED BY <1>1, <1>2, <1>3, <1>4

\* A chunk passes the observer, which claims the id when it is first shown.
LEMMA ChunkInv ==
  ASSUME CallsGiven, RecordingInv, NEW c \in Calls, C!Chunk(c)
  PROVE  RecordingInv'
<1>1. /\ call[c].stage = "open" /\ call[c].pos < Len(call[c].shape.chunks)
      /\ UNCHANGED <<active, over, errs, log, lost>>
  BY DEF C!Chunk
<1>2. call \in [Calls -> CallRecord] /\ CallTypes /\ CallInv(c)
  BY DEF RecordingInv, CallTypes
<1>3. PICK k \in CallRecord : k = call[c] BY <1>2
<1>4. PICK s \in Shapes[c] : s = k.shape BY <1>1, <1>2, <1>3 DEF CallInv, Placed
<1>5. /\ C!Observes(s) /\ C!Hooked(c) /\ k.observed /\ ~k.cancelled /\ k.run \in C!AllRuns
      /\ k.claim = IF k.probe.id THEN "won" ELSE "none"
      /\ ~(k.told /\ HasHandler(c))
  BY <1>1, <1>2, <1>3, <1>4 DEF CallInv, Placed, C!Hooked, CallRecord
<1>6. /\ s.mode # "plain" /\ s.chunks \in Seq(C!ChunksOf(s.provider)) /\ Len(s.chunks) \in Nat
  BY <1>4, <1>5, ShapeFacts
<1>7. PICK pos \in Nat : pos = k.pos + 1 /\ pos \in 1..Len(s.chunks) /\ k.pos \in Nat
  BY <1>1, <1>3, <1>4, <1>6 DEF CallRecord
<1>8. PICK chunk \in C!ChunksOf(s.provider) : chunk = s.chunks[pos] BY <1>6, <1>7
<1>9. PICK o : o = C!Observe(s, k.probe, chunk) OBVIOUS
<1>10. /\ o \in [id : BOOLEAN, usage : BOOLEAN] /\ (k.probe.id => o.id)
       /\ ~o.usage => ~k.probe.usage /\ chunk \notin C!UsageChunks
  BY <1>4, <1>5, <1>9, ObserveFacts DEF CallRecord
<1>11. /\ call' = [call EXCEPT ![c].pos = @ + 1, ![c].probe = o, ![c].claim = C!Claimed(c, o)]
       /\ ids' = IF k.claim = "none" /\ o.id
                 THEN [ids EXCEPT ![k.run] = C!Remember(@, c)] ELSE ids
       /\ C!Forgets(ids', errs)
  BY <1>3, <1>4, <1>7, <1>8, <1>9 DEF C!Chunk
<1>12. ~k.probe.id => \A r \in C!AllRuns : ~Within(ids[r], c)
  BY <1>1, <1>2, <1>3 DEF CallInv, Recalled
<1>13. C!Claimed(c, o) = IF o.id THEN "won" ELSE "none"
  BY <1>3, <1>5, <1>10, <1>12 DEF C!Claimed, Within
<1>14. PICK l \in CallRecord :
        /\ call' = [call EXCEPT ![c] = l]
        /\ l.pos = pos /\ l.probe = o /\ l.claim = IF o.id THEN "won" ELSE "none"
        /\ l.shape = k.shape /\ l.run = k.run /\ l.warn = k.warn /\ l.stage = k.stage
        /\ l.refused = k.refused /\ l.cancelled = k.cancelled
        /\ l.observed = k.observed /\ l.told = k.told
  <2> DEFINE claim == IF o.id THEN "won" ELSE "none"
             l == [k EXCEPT !.pos = pos, !.probe = o, !.claim = claim]
  <2>1. claim \in {"won", "none"} OBVIOUS
  <2>2. l \in CallRecord BY <1>10, <2>1 DEF CallRecord
  <2>3. call' = [call EXCEPT ![c] = l] BY <1>2, <1>3, <1>7, <1>11, <1>13
  <2> HIDE DEF claim
  <2>4. /\ l.pos = pos /\ l.probe = o /\ l.claim = claim
        /\ l.shape = k.shape /\ l.run = k.run /\ l.warn = k.warn /\ l.stage = k.stage
        /\ l.refused = k.refused /\ l.cancelled = k.cancelled
        /\ l.observed = k.observed /\ l.told = k.told
    BY DEF CallRecord
  <2> QED BY <2>2, <2>3, <2>4 DEF claim
<1>15. /\ call' \in [Calls -> CallRecord] /\ call'[c] = l
       /\ \A d \in Calls : d # c => call'[d] = call[d]
  BY <1>2, <1>14
<1>16. C!CallRows(c) = {} BY <1>1, <1>2, NoRowsYet, <1>3, <1>4, <1>6
<1>17. /\ MemoryKept(c)
       /\ o.id => Within(ids'[k.run], c) \/ c \in forgotten'
       /\ ~o.id => ids' = ids
  <2>1. CASE k.claim = "none" /\ o.id
    <3>1. MemoryKept(c) /\ Within(ids'[k.run], c) BY <1>1, <1>2, <1>5, <1>11, <2>1, IdKept
    <3> QED BY <2>1, <3>1
  <2>2. CASE ~(k.claim = "none" /\ o.id)
    <3>1. ids' = ids /\ forgotten' = forgotten
      BY <1>1, <1>2, <1>11, <2>2, NothingForgotten
    <3>2. MemoryKept(c) BY <1>1, <1>2, <3>1, MemoryStays
    <3>3. o.id => k.probe.id BY <1>5, <2>2
    <3>4. k.probe.id => Within(ids[k.run], c) \/ c \in forgotten
      BY <1>1, <1>2, <1>3, <1>4, <1>5, <1>6 DEF CallInv, Asked, C!Captures, C!HandlerSeesId
    <3> QED BY <3>1, <3>2, <3>3, <3>4
  <2> QED BY <2>1, <2>2
<1>18. Placed(c)'
  BY <1>1, <1>2, <1>3, <1>4, <1>5, <1>14, <1>15 DEF CallInv, Placed, C!Hooked, HasHandler
<1>19. UsageUnseen(c)'
  <2>1. ~o.usage => \A i \in 1..pos : s.chunks[i] \notin C!UsageChunks
    <3>1. ~o.usage => \A i \in 1..k.pos : s.chunks[i] \notin C!UsageChunks
      BY <1>1, <1>2, <1>3, <1>4, <1>5, <1>10 DEF CallInv, UsageUnseen
    <3> QED BY <1>7, <1>8, <1>10, <3>1
  <2> QED BY <1>4, <1>6, <1>7, <1>14, <1>15, <2>1 DEF UsageUnseen
<1>20. Recalled(c)'
  <2>1. \A r \in C!AllRuns : Within(ids'[r], c) => o.id
    <3> SUFFICES ASSUME NEW r \in C!AllRuns, Within(ids'[r], c), ~o.id PROVE FALSE OBVIOUS
    <3>1. ids' = ids /\ ~k.probe.id BY <1>10, <1>17
    <3> QED BY <1>12, <3>1
  <2>2. \A r \in C!AllRuns : ~Within(errs[r], c)
    BY <1>1, <1>2, <1>3, <1>5 DEF CallInv, Recalled
  <2> QED BY <1>1, <1>3, <1>5, <1>14, <1>15, <2>1, <2>2 DEF Recalled, C!Hooked
<1>21. Asked(c)'
  BY <1>4, <1>5, <1>6, <1>14, <1>15, <1>17 DEF Asked, C!HandlerSeesId
<1>22. Done(c)'
  BY <1>1, <1>3, <1>5, <1>14, <1>15 DEF Done, C!Hooked
<1>23. Warned(c)' BY <1>1, <1>3, <1>14, <1>15 DEF Warned
<1> QED BY <1>1, <1>15, <1>16, <1>17, <1>18, <1>19, <1>20, <1>21, <1>22, <1>23, QuietInv

\* A layer writes: what it adds is a row it may add.
LEMMA WriteInv ==
  ASSUME CallsGiven, RecordingInv, NEW c \in Calls, MemoryKept(c),
         NEW row \in C!RowType, row.call = c, row.what # "warn", Grew(c, row),
         call' \in [Calls -> CallRecord], \A d \in Calls : d # c => call'[d] = call[d],
         UNCHANGED <<active, over>>, C!CallRows(c) = {} \/ Later(c),
         log' # log => RowOk(c, row)' /\ MayAdd(c, row),
         Placed(c)', UsageUnseen(c)', Recalled(c)', Asked(c)', Done(c)', Warned(c)'
  PROVE  RecordingInv'
<1>1. Counted(c)' /\ EstimatedUnseen' BY CountedGrows DEF RecordingInv, CallInv
<1>2. CallInv(c)' BY <1>1 DEF CallInv
<1> QED BY <1>1, <1>2, NextInv

LEMMA WarnKeptGrows ==
  ASSUME CallTypes, NEW c, NEW row, Grew(c, row), NEW d, WarnKept(d)
  PROVE  WarnKept(d)'
<1>1. /\ DOMAIN log = 1..Len(log) /\ DOMAIN log' = 1..Len(log')
      /\ Len(log) \in Nat /\ Len(log') \in Nat
  BY DEF CallTypes, Grew
<1> QED BY <1>1 DEF WarnKept, Grew

LEMMA RowFacts ==
  ASSUME NEW c \in Calls, NEW layer \in Layers, NEW r \in C!AllRuns, NEW what \in {"ok", "error"},
         NEW estimated \in BOOLEAN
  PROVE  \E row \in C!RowType :
           /\ row = C!Row(c, layer, r, what, estimated)
           /\ row.call = c /\ row.layer = layer /\ row.run = r /\ row.what = what
           /\ row.estimated = estimated
<1> DEFINE row == C!Row(c, layer, r, what, estimated)
<1>1. row \in C!RowType BY DEF C!Row, C!RowType, Layers
<1>2. /\ row.call = c /\ row.layer = layer /\ row.run = r /\ row.what = what
      /\ row.estimated = estimated
  BY DEF C!Row
<1> HIDE DEF row
<1>3. row = C!Row(c, layer, r, what, estimated) BY DEF row
<1> QED BY <1>1, <1>2, <1>3

\* The shim records a finished answer.
LEMMA AnswerInv ==
  ASSUME CallsGiven, RecordingInv, NEW c \in Calls, C!Answer(c)
  PROVE  RecordingInv'
<1>1. /\ call[c].stage = "out" /\ ~(C!Hooked(c) /\ C!Observes(call[c].shape))
      /\ call' = [call EXCEPT ![c].stage = "over"]
      /\ UNCHANGED <<active, over>>
  BY DEF C!Answer
<1>2. call \in [Calls -> CallRecord] /\ CallTypes /\ CallInv(c)
  BY DEF RecordingInv, CallTypes
<1>3. PICK k \in CallRecord : k = call[c] BY <1>2
<1>4. PICK s \in Shapes[c] : s = k.shape BY <1>1, <1>2, <1>3 DEF CallInv, Placed
<1>5. PICK l \in CallRecord :
        /\ call' = [call EXCEPT ![c] = l] /\ l.stage = "over"
        /\ l.told = k.told /\ l.cancelled = k.cancelled
        /\ l.shape = k.shape /\ l.run = k.run /\ l.warn = k.warn /\ l.pos = k.pos
        /\ l.probe = k.probe /\ l.claim = k.claim /\ l.refused = k.refused
        /\ l.observed = k.observed
  <2> DEFINE l == [k EXCEPT !.stage = "over"]
  <2>1. l \in CallRecord BY DEF CallRecord, Stages
  <2>2. call' = [call EXCEPT ![c] = l] BY <1>1, <1>2, <1>3
  <2>3. /\ l.stage = "over" /\ l.told = k.told /\ l.cancelled = k.cancelled
        /\ l.shape = k.shape /\ l.run = k.run /\ l.warn = k.warn /\ l.pos = k.pos
        /\ l.probe = k.probe /\ l.claim = k.claim /\ l.refused = k.refused
        /\ l.observed = k.observed
    BY DEF CallRecord
  <2> QED BY <2>1, <2>2, <2>3
<1>6. /\ call' \in [Calls -> CallRecord] /\ call'[c] = l
      /\ \A d \in Calls : d # c => call'[d] = call[d]
  BY <1>2, <1>5
<1>7. C!CallRows(c) = {} BY <1>1, <1>2, NoRowsYet
<1>8. k.told = ~HasHandler(c) /\ ~k.observed /\ ~k.cancelled /\ (k.warn => C!Hooked(c))
  BY <1>1, <1>2, <1>3 DEF CallInv, Placed
<1>9. /\ \A r \in C!AllRuns : ~Within(ids[r], c)
      /\ \A r \in C!AllRuns : ~Within(errs[r], c)
  BY <1>1, <1>2, <1>3, <1>8 DEF CallInv, Recalled
<1>10. Placed(c)'
  BY <1>1, <1>2, <1>3, <1>5, <1>6, <1>8 DEF CallInv, Placed, C!Hooked, HasHandler
<1>11. UsageUnseen(c)' BY <1>1, <1>2, <1>3, <1>5, <1>6 DEF CallInv, UsageUnseen
<1>12. CASE ~C!Hooked(c)
  <2>1. UNCHANGED <<ids, errs, log, lost, forgotten>> BY <1>12 DEF C!Answer, C!Nothing
  <2>2. Recalled(c)' BY <1>9, <2>1 DEF Recalled
  <2>3. Asked(c)' BY <1>3, <1>5, <1>6, <1>12 DEF Asked, C!Captures, C!Hooked
  <2>4. Done(c)'
    BY <1>1, <1>2, <1>3, <1>5, <1>6, <1>8, <1>12, <2>1 DEF CallInv, Done, C!Hooked, HasHandler
  <2>5. Warned(c)' BY <1>5, <1>6, <1>8, <1>12 DEF Warned
  <2>6. MemoryKept(c) BY <1>2, <2>1, MemoryStays
  <2> QED BY <1>1, <1>6, <1>7, <1>10, <1>11, <2>1, <2>2, <2>3, <2>4, <2>5, <2>6, QuietInv
<1>13. CASE C!Hooked(c)
  <2>1. k.run \in C!AllRuns /\ s.hasId \in BOOLEAN /\ ~C!Observes(s)
    BY <1>1, <1>3, <1>4, <1>13, ShapeFacts DEF C!Hooked, CallRecord
  <2>2. PICK no \in BOOLEAN, shim \in Layers :
          no = FALSE /\ shim = "shim" /\ C!Emit(c, shim, k.run, s.hasId, no)
    BY <1>3, <1>4, <1>13 DEF C!Answer, Layers
  <2>3. PICK row \in C!RowType :
          /\ row = C!Row(c, shim, k.run, "ok", no)
          /\ row.call = c /\ row.layer = "shim" /\ row.run = k.run /\ row.what = "ok"
          /\ ~row.estimated
    BY <2>1, <2>2, RowFacts
  <2>4. /\ MemoryKept(c) /\ errs' = errs /\ Grew(c, row)
        /\ (s.hasId => Within(ids'[k.run], c))
        /\ (C!CallRows(c)' # {} \/ <<c, "ok">> \in lost')
        /\ (call[c].warn => WarnKept(c)')
    <3>1. ~Within(ids[k.run], c) BY <1>9, <2>1
    <3>2. /\ MemoryKept(c) /\ errs' = errs
          /\ Grew(c, C!Row(c, shim, k.run, "ok", no))
          /\ s.hasId => Within(ids'[k.run], c)
          /\ C!CallRows(c)' # {} \/ <<c, "ok">> \in lost'
          /\ call[c].warn => WarnKept(c)'
      BY <1>2, <2>1, <2>2, <3>1, EmitWrites
    <3> QED BY <2>2, <2>3, <3>2
  <2>5. Accounted(c)' BY <2>4 DEF Accounted
  <2>6. Recalled(c)' BY <1>3, <1>5, <1>6, <1>9, <2>4, <2>5 DEF Recalled
  <2>7. Asked(c)'
    BY <1>3, <1>4, <1>5, <1>6, <1>8, <2>4 DEF Asked, C!HandlerSeesId
  <2>8. Done(c)' BY <1>3, <1>5, <1>6, <1>13, <2>5 DEF Done, C!Hooked
  <2>9. Warned(c)' BY <1>3, <1>5, <1>6, <2>4 DEF Warned, WarnKept
  <2>10. RowOk(c, row)'
    BY <1>3, <1>4, <1>5, <1>6, <1>13, <2>1, <2>3 DEF RowOk, ShimRow, C!Captures, C!Hooked
  <2>11. MayAdd(c, row) BY <1>7, <2>3 DEF MayAdd
  <2>12. row.what # "warn" BY <2>3
  <2> QED BY <1>1, <1>6, <1>7, <1>10, <1>11, <2>3, <2>4, <2>6, <2>7, <2>8, <2>9, <2>10, <2>11,
             <2>12, WriteInv
<1> QED BY <1>12, <1>13

\* The SDK raises.
LEMMA FailInv ==
  ASSUME CallsGiven, RecordingInv, NEW c \in Calls, C!Fail(c)
  PROVE  RecordingInv'
<1>1. /\ call[c].stage = "out"
      /\ call' = [call EXCEPT ![c].stage = "raised"]
      /\ UNCHANGED <<active, over>>
  BY DEF C!Fail
<1>2. call \in [Calls -> CallRecord] /\ CallTypes /\ CallInv(c)
  BY DEF RecordingInv, CallTypes
<1>3. PICK k \in CallRecord : k = call[c] BY <1>2
<1>4. PICK l \in CallRecord :
        /\ call' = [call EXCEPT ![c] = l] /\ l.stage = "raised"
        /\ l.told = k.told /\ l.cancelled = k.cancelled
        /\ l.shape = k.shape /\ l.run = k.run /\ l.warn = k.warn /\ l.pos = k.pos
        /\ l.probe = k.probe /\ l.claim = k.claim /\ l.refused = k.refused
        /\ l.observed = k.observed
  <2> DEFINE l == [k EXCEPT !.stage = "raised"]
  <2>1. l \in CallRecord BY DEF CallRecord, Stages
  <2>2. call' = [call EXCEPT ![c] = l] BY <1>1, <1>2, <1>3
  <2>3. /\ l.stage = "raised" /\ l.told = k.told /\ l.cancelled = k.cancelled
        /\ l.shape = k.shape /\ l.run = k.run /\ l.warn = k.warn /\ l.pos = k.pos
        /\ l.probe = k.probe /\ l.claim = k.claim /\ l.refused = k.refused
        /\ l.observed = k.observed
    BY DEF CallRecord
  <2> QED BY <2>1, <2>2, <2>3
<1>5. /\ call' \in [Calls -> CallRecord] /\ call'[c] = l
      /\ \A d \in Calls : d # c => call'[d] = call[d]
  BY <1>2, <1>4
<1>6. C!CallRows(c) = {} BY <1>1, <1>2, NoRowsYet
<1>7. k.told = ~HasHandler(c) /\ ~k.observed /\ ~k.cancelled /\ (k.warn => C!Hooked(c))
  BY <1>1, <1>2, <1>3 DEF CallInv, Placed
<1>8. /\ \A r \in C!AllRuns : ~Within(ids[r], c)
      /\ \A r \in C!AllRuns : ~Within(errs[r], c)
  BY <1>1, <1>2, <1>3, <1>7 DEF CallInv, Recalled
<1>9. Placed(c)'
  BY <1>1, <1>2, <1>3, <1>4, <1>5, <1>7 DEF CallInv, Placed, C!Hooked, HasHandler
<1>10. UsageUnseen(c)' BY <1>1, <1>2, <1>3, <1>4, <1>5 DEF CallInv, UsageUnseen
<1>11. Asked(c)' BY <1>4, <1>5 DEF Asked
<1>12. CASE ~(C!Hooked(c) /\ call[c].shape.mode # "helper")
  <2>1. UNCHANGED <<ids, errs, log, lost, forgotten>> BY <1>12 DEF C!Fail, C!Nothing
  <2>2. Recalled(c)' BY <1>8, <2>1 DEF Recalled
  <2>3. Done(c)'
    BY <1>1, <1>2, <1>3, <1>4, <1>5, <1>7, <1>12, <2>1 DEF CallInv, Done, C!Hooked, HasHandler
  <2>4. Warned(c)' BY <1>3, <1>4, <1>5, <1>7, <1>12 DEF Warned
  <2>5. MemoryKept(c) BY <1>2, <2>1, MemoryStays
  <2> QED BY <1>1, <1>5, <1>6, <1>9, <1>10, <1>11, <2>1, <2>2, <2>3, <2>4, <2>5, QuietInv
<1>13. CASE C!Hooked(c) /\ call[c].shape.mode # "helper"
  <2>1. k.run \in C!AllRuns BY <1>3, <1>13 DEF C!Hooked, CallRecord
  <2>2. C!EmitError(c, "shim", k.run) BY <1>3, <1>13 DEF C!Fail
  <2>3. PICK row \in C!RowType :
          /\ row = C!Row(c, "shim", k.run, "error", FALSE)
          /\ row.call = c /\ row.layer = "shim" /\ row.run = k.run /\ row.what = "error"
          /\ ~row.estimated
    <3>1. PICK no \in BOOLEAN, shim \in Layers : no = FALSE /\ shim = "shim" BY DEF Layers
    <3>2. C!Row(c, shim, k.run, "error", no) = C!Row(c, "shim", k.run, "error", FALSE)
      BY <3>1
    <3>3. PICK row \in C!RowType :
            /\ row = C!Row(c, shim, k.run, "error", no)
            /\ row.call = c /\ row.layer = shim /\ row.run = k.run /\ row.what = "error"
            /\ row.estimated = no
      BY <2>1, RowFacts
    <3> QED BY <3>1, <3>2, <3>3
  <2>4. /\ MemoryKept(c) /\ ids' = ids /\ Grew(c, row) /\ Within(errs'[k.run], c)
        /\ (C!CallRows(c)' # {} \/ <<c, "error">> \in lost')
        /\ (call[c].warn => WarnKept(c)')
    BY <1>2, <1>8, <2>1, <2>2, <2>3, EmitErrorWrites DEF Layers
  <2>5. Accounted(c)' BY <2>4 DEF Accounted
  <2>6. Recalled(c)' BY <1>3, <1>4, <1>5, <1>8, <2>4, <2>5 DEF Recalled
  <2>7. Done(c)' BY <1>3, <1>4, <1>5, <1>13, <2>5 DEF Done, C!Hooked
  <2>8. Warned(c)' BY <1>3, <1>4, <1>5, <2>4 DEF Warned, WarnKept
  <2>9. RowOk(c, row)'
    BY <1>3, <1>4, <1>5, <1>13, <2>3, <2>4 DEF RowOk, ShimRow, C!Hooked
  <2>10. MayAdd(c, row) BY <1>6, <2>3 DEF MayAdd
  <2>11. row.what # "warn" BY <2>3
  <2> QED BY <1>1, <1>5, <1>6, <1>9, <1>10, <1>11, <2>3, <2>4, <2>6, <2>7, <2>8, <2>9, <2>10,
             <2>11, WriteInv
<1> QED BY <1>12, <1>13

\* The rows of an observed stream that is not over yet are the handler's.
LEMMA OnlyHandlerRows ==
  ASSUME CallTypes, NEW c \in Calls, CallInv(c), call[c].stage \in {"open", "dropped"},
         NEW i \in C!CallRows(c)
  PROVE  /\ log[i].layer = "handler"
         /\ \/ log[i].run # call[c].run \/ ~C!HandlerSeesId(c) \/ c \in forgotten
            \/ call[c].cancelled
<1>1. PICK row \in C!RowType : row = log[i] /\ row.what # "warn"
  BY DEF C!CallRows, CallTypes
<1>2. row.what \in {"ok", "error"} /\ row.layer \in Layers BY <1>1 DEF C!RowType, Layers
<1>3. IF row.layer = "shim" THEN ShimRow(c, row) ELSE HandlerRow(c, row)
  BY <1>1 DEF CallInv, Counted
<1>4. row.layer # "shim" BY <1>2, <1>3 DEF ShimRow
<1>5. HandlerRow(c, row) BY <1>3, <1>4
<1>6. C!Captures(c) BY DEF CallInv, Placed, C!Captures
<1> QED BY <1>1, <1>2, <1>4, <1>5, <1>6 DEF HandlerRow, Layers

\* The stream is at its end, closed, or collected.
LEMMA FinaliseInv ==
  ASSUME CallsGiven, RecordingInv, NEW c \in Calls, call[c].stage \in {"open", "dropped"},
         C!Finalise(c)
  PROVE  RecordingInv'
<1>1. call' = [call EXCEPT ![c].stage = "over"] /\ UNCHANGED <<active, over>>
  BY DEF C!Finalise
<1>2. call \in [Calls -> CallRecord] /\ CallTypes /\ CallInv(c)
  BY DEF RecordingInv, CallTypes
<1>3. PICK k \in CallRecord : k = call[c] BY <1>2
<1>4. PICK s \in Shapes[c] : s = k.shape BY <1>2, <1>3 DEF CallInv, Placed
<1>5. PICK l \in CallRecord :
        /\ call' = [call EXCEPT ![c] = l] /\ l.stage = "over"
        /\ l.told = k.told /\ l.cancelled = k.cancelled
        /\ l.shape = k.shape /\ l.run = k.run /\ l.warn = k.warn /\ l.pos = k.pos
        /\ l.probe = k.probe /\ l.claim = k.claim /\ l.refused = k.refused
        /\ l.observed = k.observed
  <2> DEFINE l == [k EXCEPT !.stage = "over"]
  <2>1. l \in CallRecord BY DEF CallRecord, Stages
  <2>2. call' = [call EXCEPT ![c] = l] BY <1>1, <1>2, <1>3
  <2>3. /\ l.stage = "over" /\ l.told = k.told /\ l.cancelled = k.cancelled
        /\ l.shape = k.shape /\ l.run = k.run /\ l.warn = k.warn /\ l.pos = k.pos
        /\ l.probe = k.probe /\ l.claim = k.claim /\ l.refused = k.refused
        /\ l.observed = k.observed
    BY DEF CallRecord
  <2> QED BY <2>1, <2>2, <2>3
<1>6. /\ call' \in [Calls -> CallRecord] /\ call'[c] = l
      /\ \A d \in Calls : d # c => call'[d] = call[d]
  BY <1>2, <1>5
<1>7. /\ k.observed /\ C!Hooked(c) /\ C!Observes(s) /\ k.run \in C!AllRuns /\ k.run # None
      /\ k.claim # "lost" /\ k.probe.usage \in BOOLEAN
  BY <1>2, <1>3, <1>4 DEF CallInv, Placed, CallRecord, C!Hooked
<1>8. Later(c) BY <1>3, <1>5, <1>6 DEF Later
<1>9. PICK shim \in Layers, no \in BOOLEAN, estimated \in BOOLEAN :
        /\ shim = "shim" /\ no = FALSE /\ estimated = ~k.probe.usage
        /\ C!Emit(c, shim, k.run, no, estimated)
  <2>1. C!Emit(c, "shim", k.run, FALSE, ~k.probe.usage) BY <1>3, <1>7 DEF C!Finalise
  <2> QED BY <1>7, <2>1 DEF Layers
<1>10. PICK row \in C!RowType :
         /\ row = C!Row(c, shim, k.run, "ok", estimated)
         /\ row.call = c /\ row.layer = "shim" /\ row.run = k.run /\ row.what = "ok"
         /\ row.estimated = estimated
  <2>1. PICK row \in C!RowType :
          /\ row = C!Row(c, shim, k.run, "ok", estimated)
          /\ row.call = c /\ row.layer = shim /\ row.run = k.run /\ row.what = "ok"
          /\ row.estimated = estimated
    BY <1>7, RowFacts
  <2>2. shim = "shim" BY <1>9
  <2> QED BY <2>1, <2>2
<1>11. /\ MemoryKept(c) /\ errs' = errs /\ Grew(c, row)
       /\ \A q \in C!AllRuns : Within(ids'[q], c) => Within(ids[q], c)
       /\ C!CallRows(c)' # {} \/ <<c, "ok">> \in lost'
       /\ call[c].warn => WarnKept(c)'
  BY <1>2, <1>7, <1>9, <1>10, EmitWrites
<1>12. Accounted(c)' BY <1>11 DEF Accounted
<1>13. Placed(c)'
  BY <1>2, <1>3, <1>5, <1>6 DEF CallInv, Placed, C!Hooked, HasHandler
<1>14. UsageUnseen(c)' BY <1>2, <1>3, <1>5, <1>6 DEF CallInv, UsageUnseen
<1>15. Recalled(c)'
  BY <1>2, <1>3, <1>5, <1>6, <1>11, <1>12 DEF CallInv, Recalled, C!Hooked
<1>16. Asked(c)'
  <2>1. C!HandlerSeesId(c) => Within(ids[k.run], c) \/ c \in forgotten
    BY <1>2, <1>3, <1>7 DEF CallInv, Asked, C!Captures
  <2>2. C!HandlerSeesId(c) => Within(ids'[k.run], c) \/ c \in forgotten'
    BY <1>7, <1>11, <2>1 DEF MemoryKept
  <2> QED BY <1>5, <1>6, <1>8, <2>2, SameSight DEF Asked
<1>17. Done(c)' BY <1>3, <1>5, <1>6, <1>7, <1>12 DEF Done, C!Hooked
<1>18. Warned(c)' BY <1>3, <1>5, <1>6, <1>11 DEF Warned, WarnKept
<1>19. RowOk(c, row)'
  BY <1>3, <1>4, <1>5, <1>6, <1>7, <1>10 DEF RowOk, ShimRow, C!Captures, C!Hooked
<1>20. MayAdd(c, row)
  <2>1. \A i \in C!CallRows(c) :
          /\ log[i].layer # "shim"
          /\ \/ log[i].run # k.run \/ ~C!HandlerSeesId(c) \/ c \in forgotten
             \/ call[c].cancelled
    BY <1>2, <1>3, OnlyHandlerRows
  <2>2. row.estimated =>
          row.what = "ok" /\ call'[c].stage = "over" /\ call'[c].observed /\ ~call'[c].probe.usage
    BY <1>5, <1>6, <1>7, <1>9, <1>10
  <2> QED BY <1>10, <2>1, <2>2 DEF MayAdd
<1>21. row.what # "warn" BY <1>10
<1> QED BY <1>1, <1>6, <1>8, <1>10, <1>11, <1>13, <1>14, <1>15, <1>16, <1>17, <1>18, <1>19,
           <1>20, <1>21, WriteInv

\* The provider fails in mid-stream.
LEMMA StreamFailInv ==
  ASSUME CallsGiven, RecordingInv, NEW c \in Calls, C!StreamFail(c)
  PROVE  RecordingInv'
<1>1. /\ call[c].stage = "open"
      /\ call' = [call EXCEPT ![c].stage = "raised"]
      /\ UNCHANGED <<active, over>>
  BY DEF C!StreamFail
<1>2. call \in [Calls -> CallRecord] /\ CallTypes /\ CallInv(c)
  BY DEF RecordingInv, CallTypes
<1>3. PICK k \in CallRecord : k = call[c] BY <1>2
<1>4. PICK l \in CallRecord :
        /\ call' = [call EXCEPT ![c] = l] /\ l.stage = "raised"
        /\ l.told = k.told /\ l.cancelled = k.cancelled
        /\ l.shape = k.shape /\ l.run = k.run /\ l.warn = k.warn /\ l.pos = k.pos
        /\ l.probe = k.probe /\ l.claim = k.claim /\ l.refused = k.refused
        /\ l.observed = k.observed
  <2> DEFINE l == [k EXCEPT !.stage = "raised"]
  <2>1. l \in CallRecord BY DEF CallRecord, Stages
  <2>2. call' = [call EXCEPT ![c] = l] BY <1>1, <1>2, <1>3
  <2>3. /\ l.stage = "raised" /\ l.told = k.told /\ l.cancelled = k.cancelled
        /\ l.shape = k.shape /\ l.run = k.run /\ l.warn = k.warn /\ l.pos = k.pos
        /\ l.probe = k.probe /\ l.claim = k.claim /\ l.refused = k.refused
        /\ l.observed = k.observed
    BY DEF CallRecord
  <2> QED BY <2>1, <2>2, <2>3
<1>5. /\ call' \in [Calls -> CallRecord] /\ call'[c] = l
      /\ \A d \in Calls : d # c => call'[d] = call[d]
  BY <1>2, <1>4
<1>6. k.observed /\ ~k.cancelled /\ C!Hooked(c) /\ k.run \in C!AllRuns /\ k.run # None
  BY <1>1, <1>2, <1>3 DEF CallInv, Placed, CallRecord, C!Hooked
<1>7. Later(c) BY <1>1, <1>3, <1>4, <1>5 DEF Later
<1>8. \A r \in C!AllRuns : ~Within(errs[r], c)
  BY <1>1, <1>2, <1>3, <1>6 DEF CallInv, Recalled
<1>9. C!EmitError(c, "shim", k.run) BY <1>3 DEF C!StreamFail
<1>10. PICK row \in C!RowType :
         /\ row = C!Row(c, "shim", k.run, "error", FALSE)
         /\ row.call = c /\ row.layer = "shim" /\ row.run = k.run /\ row.what = "error"
         /\ ~row.estimated
  <2>1. PICK no \in BOOLEAN, shim \in Layers : no = FALSE /\ shim = "shim" BY DEF Layers
  <2>2. C!Row(c, shim, k.run, "error", no) = C!Row(c, "shim", k.run, "error", FALSE)
    BY <2>1
  <2>3. PICK row \in C!RowType :
          /\ row = C!Row(c, shim, k.run, "error", no)
          /\ row.call = c /\ row.layer = shim /\ row.run = k.run /\ row.what = "error"
          /\ row.estimated = no
    BY <1>6, RowFacts
  <2> QED BY <2>1, <2>2, <2>3
<1>11. /\ MemoryKept(c) /\ ids' = ids /\ Grew(c, row) /\ Within(errs'[k.run], c)
       /\ C!CallRows(c)' # {} \/ <<c, "error">> \in lost'
       /\ call[c].warn => WarnKept(c)'
  BY <1>2, <1>6, <1>8, <1>9, <1>10, EmitErrorWrites DEF Layers
<1>12. Accounted(c)' BY <1>11 DEF Accounted
<1>13. Placed(c)'
  BY <1>1, <1>2, <1>3, <1>4, <1>5 DEF CallInv, Placed, C!Hooked, HasHandler
<1>14. UsageUnseen(c)' BY <1>1, <1>2, <1>3, <1>4, <1>5 DEF CallInv, UsageUnseen
<1>15. Recalled(c)' BY <1>4, <1>5, <1>12 DEF Recalled
<1>16. Asked(c)' BY <1>4, <1>5 DEF Asked
<1>17. Done(c)' BY <1>4, <1>5, <1>3, <1>6, <1>12 DEF Done, C!Hooked
<1>18. Warned(c)' BY <1>3, <1>4, <1>5, <1>11 DEF Warned, WarnKept
<1>19. RowOk(c, row)'
  BY <1>3, <1>4, <1>5, <1>6, <1>10, <1>11 DEF RowOk, ShimRow, C!Hooked
<1>20. MayAdd(c, row)
  <2>1. \A i \in C!CallRows(c) :
          /\ log[i].layer # "shim"
          /\ \/ log[i].run # k.run \/ ~C!HandlerSeesId(c) \/ c \in forgotten
             \/ call[c].cancelled
    BY <1>1, <1>2, <1>3, OnlyHandlerRows
  <2> QED BY <1>10, <2>1 DEF MayAdd
<1>21. row.what # "warn" BY <1>10
<1> QED BY <1>1, <1>5, <1>7, <1>10, <1>11, <1>13, <1>14, <1>15, <1>16, <1>17, <1>18, <1>19,
           <1>20, <1>21, WriteInv

\* What is so of the record when the handler has been told.
LEMMA Told ==
  ASSUME CallTypes, NEW c \in Calls, CallInv(c), ~call[c].told, call[c].stage # "new",
         call[c].stage # "out", call' = [call EXCEPT ![c].told = TRUE],
         call[c].stage = "open" => call[c].pos = Len(call[c].shape.chunks)
  PROVE  /\ call' \in [Calls -> CallRecord] /\ (\A d \in Calls : d # c => call'[d] = call[d])
         /\ call'[c].told /\ call'[c].stage = call[c].stage /\ call'[c].warn = call[c].warn
         /\ call'[c].refused = call[c].refused /\ call'[c].cancelled = call[c].cancelled
         /\ Later(c) /\ HasHandler(c) /\ HasHandler(c)'
         /\ Placed(c)' /\ UsageUnseen(c)'
<1>1. call \in [Calls -> CallRecord] BY DEF CallTypes
<1>2. PICK k \in CallRecord : k = call[c] BY <1>1
<1>3. PICK l \in CallRecord :
        /\ call' = [call EXCEPT ![c] = l] /\ l.told = TRUE
        /\ l.stage = k.stage /\ l.cancelled = k.cancelled
        /\ l.shape = k.shape /\ l.run = k.run /\ l.warn = k.warn /\ l.pos = k.pos
        /\ l.probe = k.probe /\ l.claim = k.claim /\ l.refused = k.refused
        /\ l.observed = k.observed
  <2> DEFINE l == [k EXCEPT !.told = TRUE]
  <2>1. l \in CallRecord BY DEF CallRecord
  <2>2. call' = [call EXCEPT ![c] = l] BY <1>1, <1>2
  <2>3. /\ l.told = TRUE /\ l.stage = k.stage /\ l.cancelled = k.cancelled
        /\ l.shape = k.shape /\ l.run = k.run /\ l.warn = k.warn /\ l.pos = k.pos
        /\ l.probe = k.probe /\ l.claim = k.claim /\ l.refused = k.refused
        /\ l.observed = k.observed
    BY DEF CallRecord
  <2> QED BY <2>1, <2>2, <2>3
<1>4. /\ call' \in [Calls -> CallRecord] /\ call'[c] = l
      /\ \A d \in Calls : d # c => call'[d] = call[d]
  BY <1>1, <1>3
<1>5. HasHandler(c) BY DEF CallInv, Placed
<1>6. HasHandler(c)' BY <1>2, <1>3, <1>4, <1>5 DEF HasHandler
<1>7. Later(c) BY <1>2, <1>3, <1>4 DEF Later
<1>8. Placed(c)' BY <1>2, <1>3, <1>4 DEF CallInv, Placed, C!Hooked, HasHandler
<1>9. UsageUnseen(c)' BY <1>2, <1>3, <1>4 DEF CallInv, UsageUnseen
<1> QED BY <1>2, <1>3, <1>4, <1>5, <1>6, <1>7, <1>8, <1>9

\* The handler records the end of the call.
LEMMA HandlerEndInv ==
  ASSUME CallsGiven, RecordingInv, NEW c \in Calls, C!HandlerEnd(c)
  PROVE  RecordingInv'
<1>1. /\ ~call[c].told /\ call' = [call EXCEPT ![c].told = TRUE]
      /\ \/ call[c].stage = "over" /\ ~call[c].cancelled
         \/ call[c].stage = "open" /\ call[c].pos = Len(call[c].shape.chunks)
      /\ UNCHANGED <<active, over>>
  BY DEF C!HandlerEnd
<1>2. CallTypes /\ CallInv(c) BY DEF RecordingInv
<1>3. /\ call' \in [Calls -> CallRecord] /\ (\A d \in Calls : d # c => call'[d] = call[d])
      /\ call'[c].told /\ call'[c].stage = call[c].stage /\ call'[c].warn = call[c].warn
      /\ call'[c].refused = call[c].refused /\ call'[c].cancelled = call[c].cancelled
      /\ Later(c) /\ HasHandler(c) /\ HasHandler(c)'
      /\ Placed(c)' /\ UsageUnseen(c)'
  BY <1>1, <1>2, Told
<1>4. /\ C!HandlerSeesId(c)' <=> C!HandlerSeesId(c)
      /\ C!Captures(c)' <=> C!Captures(c)
      /\ C!Hooked(c)' <=> C!Hooked(c)
      /\ call'[c].run = call[c].run /\ call'[c].shape = call[c].shape
      /\ call'[c].probe = call[c].probe
  BY <1>3, SameSight DEF Later
<1>5. PICK r \in C!AllRuns : r = C!CurrentRun BY <1>2, RunFacts
<1>6. C!HandlerSeesId(c) \in BOOLEAN
  <2>1. call[c].shape \in Shapes[c] BY <1>1, <1>2 DEF CallInv, Placed
  <2>2. call[c].shape.hasId \in BOOLEAN BY <2>1, ShapeFacts
  <2>3. call[c].probe.id \in BOOLEAN BY <1>2 DEF CallTypes, CallRecord
  <2> QED BY <2>2, <2>3 DEF C!HandlerSeesId
<1>7. PICK handler \in Layers, sees \in BOOLEAN, no \in BOOLEAN :
        /\ handler = "handler" /\ sees = C!HandlerSeesId(c) /\ no = FALSE
        /\ C!Emit(c, handler, r, sees, no)
  BY <1>5, <1>6 DEF C!HandlerEnd, Layers
<1>8. sees <=> C!HandlerSeesId(c) BY <1>7
<1>9. PICK row \in C!RowType :
        /\ row = C!Row(c, handler, r, "ok", no)
        /\ row.call = c /\ row.layer = handler /\ row.run = r /\ row.what = "ok"
        /\ row.estimated = no
  BY RowFacts
<1>10. /\ MemoryKept(c) /\ errs' = errs /\ Grew(c, row)
       /\ \A q \in C!AllRuns : Within(ids'[q], c) => Within(ids[q], c) \/ sees
       /\ sees /\ Within(ids[r], c) => log' = log
       /\ \/ sees /\ Within(ids[r], c)
          \/ C!CallRows(c)' # {} \/ <<c, "ok">> \in lost'
  BY <1>2, <1>7, <1>9, EmitWrites
<1>11. row.layer = "handler" /\ ~row.estimated /\ row.layer # "shim" /\ row.what # "warn"
  BY <1>7, <1>9
<1>12. Accounted(c) => Accounted(c)' BY <1>2, <1>10, AccountedGrows
<1>13. (sees /\ Within(ids[r], c)) \/ Accounted(c)' BY <1>10 DEF Accounted
<1>14. C!Hooked(c) => call[c].run \in C!AllRuns
  BY <1>2 DEF C!Hooked, CallTypes, CallRecord
<1>15. Recalled(c)'
  <2>1. ASSUME NEW q \in C!AllRuns, Within(ids'[q], c)
        PROVE  /\ call[c].stage = "open" => call[c].probe.id
               /\ C!Hooked(c) \/ Accounted(c)'
    <3>1. CASE Within(ids[q], c) BY <1>1, <1>2, <1>12, <3>1 DEF CallInv, Recalled
    <3>2. CASE ~Within(ids[q], c)
      <4>1. C!HandlerSeesId(c) BY <1>8, <1>10, <2>1, <3>2
      <4>2. call[c].stage = "open" => call[c].probe.id
        <5>1. SUFFICES ASSUME call[c].stage = "open" PROVE call[c].probe.id OBVIOUS
        <5>2. call[c].observed /\ C!Observes(call[c].shape) /\ call[c].shape \in Shapes[c]
          BY <1>2, <5>1 DEF CallInv, Placed
        <5>3. call[c].shape.mode # "plain" BY <5>2, ShapeFacts
        <5> QED BY <4>1, <5>2, <5>3 DEF C!HandlerSeesId
      <4>3. C!Hooked(c) \/ Accounted(c)'
        BY <1>2, <1>12, <1>13 DEF CallInv, Recalled
      <4> QED BY <4>2, <4>3
    <3> QED BY <3>1, <3>2
  <2>2. \A q \in C!AllRuns : Within(errs[q], c) =>
          (call[c].stage = "raised" \/ call[c].cancelled) /\ Accounted(c)'
    BY <1>2, <1>12 DEF CallInv, Recalled
  <2> QED BY <1>1, <1>3, <1>4, <1>10, <2>1, <2>2 DEF Recalled
<1>16. C!Captures(c) /\ C!HandlerSeesId(c) => Within(ids[call[c].run], c) \/ c \in forgotten
  BY <1>1, <1>2 DEF CallInv, Asked
<1>17. Asked(c)'
  <2>1. C!Captures(c) => C!Hooked(c) BY DEF C!Captures
  <2>2. C!Captures(c) /\ C!HandlerSeesId(c) => Within(ids'[call[c].run], c) \/ c \in forgotten'
    BY <1>10, <1>14, <1>16, <2>1 DEF MemoryKept
  <2> QED BY <1>4, <2>2 DEF Asked
<1>18. Done(c)'
  <2>1. call[c].stage = "over" => Accounted(c)'
    <3>1. SUFFICES ASSUME call[c].stage = "over", ~Accounted(c)' PROVE FALSE OBVIOUS
    <3>2. Within(ids[r], c) /\ ~Accounted(c) BY <1>12, <1>13, <3>1
    <3>3. C!Hooked(c) BY <1>2, <3>2 DEF CallInv, Recalled
    <3> QED BY <1>2, <3>1, <3>2, <3>3 DEF CallInv, Done
  <2> QED BY <1>1, <1>3, <2>1 DEF Done
<1>19. Warned(c)'
  <2>1. call[c].stage = "over" /\ call[c].warn => WarnKept(c)
    BY <1>2 DEF CallInv, Warned, WarnKept
  <2>2. WarnKept(c) => WarnKept(c)' BY <1>2, <1>10, WarnKeptGrows
  <2> QED BY <1>1, <1>3, <2>1, <2>2 DEF Warned, WarnKept
<1>20. ASSUME log' # log
       PROVE  C!Captures(c) => r # call[c].run \/ ~C!HandlerSeesId(c) \/ c \in forgotten
  BY <1>8, <1>10, <1>16, <1>20
<1>21. ASSUME log' # log PROVE RowOk(c, row)'
  <2>1. forgotten \subseteq forgotten' BY <1>10 DEF MemoryKept
  <2>2. HandlerRow(c, row)'
    BY <1>1, <1>3, <1>4, <1>9, <1>11, <1>20, <1>21, <2>1 DEF HandlerRow
  <2> QED BY <1>11, <2>2 DEF RowOk
<1>22. ASSUME log' # log PROVE MayAdd(c, row)
  <2> SUFFICES ASSUME NEW i \in C!CallRows(c)
               PROVE  /\ log[i].layer # "handler"
                      /\ \/ log[i].run # r \/ ~C!HandlerSeesId(c) \/ c \in forgotten
                         \/ call[c].cancelled
    BY <1>9, <1>11 DEF MayAdd
  <2>1. PICK old \in C!RowType : old = log[i] /\ old.what # "warn"
    BY <1>2 DEF C!CallRows, CallTypes
  <2>2. old.what \in {"ok", "error"} BY <2>1 DEF C!RowType
  <2>3. IF old.layer = "shim" THEN ShimRow(c, old) ELSE HandlerRow(c, old)
    BY <1>2, <2>1 DEF CallInv, Counted
  <2>4. old.layer = "shim" /\ ShimRow(c, old) BY <1>1, <2>3 DEF HandlerRow
  <2>5. old.what = "ok" /\ C!Captures(c) /\ old.run = call[c].run
    BY <1>1, <2>2, <2>4 DEF ShimRow
  <2> QED BY <1>20, <1>22, <2>1, <2>4, <2>5
<1> QED BY <1>1, <1>3, <1>9, <1>10, <1>11, <1>15, <1>17, <1>18, <1>19, <1>21, <1>22, WriteInv

\* The handler records the failure of the call.
LEMMA HandlerErrorInv ==
  ASSUME CallsGiven, RecordingInv, NEW c \in Calls, C!HandlerError(c)
  PROVE  RecordingInv'
<1>1. /\ ~call[c].told /\ call' = [call EXCEPT ![c].told = TRUE]
      /\ call[c].stage = "raised" \/ call[c].cancelled
      /\ UNCHANGED <<active, over>>
  BY DEF C!HandlerError
<1>2. CallTypes /\ CallInv(c) BY DEF RecordingInv
<1>3. call[c].stage # "new" /\ call[c].stage # "out" /\ call[c].stage # "open"
  BY <1>1, <1>2 DEF CallInv, Placed
<1>4. /\ call' \in [Calls -> CallRecord] /\ (\A d \in Calls : d # c => call'[d] = call[d])
      /\ call'[c].told /\ call'[c].stage = call[c].stage /\ call'[c].warn = call[c].warn
      /\ call'[c].refused = call[c].refused /\ call'[c].cancelled = call[c].cancelled
      /\ Later(c) /\ HasHandler(c) /\ HasHandler(c)'
      /\ Placed(c)' /\ UsageUnseen(c)'
  BY <1>1, <1>2, <1>3, Told
<1>5. /\ C!HandlerSeesId(c)' <=> C!HandlerSeesId(c)
      /\ C!Captures(c)' <=> C!Captures(c)
      /\ C!Hooked(c)' <=> C!Hooked(c)
      /\ call'[c].run = call[c].run /\ call'[c].shape = call[c].shape
      /\ call'[c].probe = call[c].probe
  BY <1>4, SameSight DEF Later
<1>6. PICK r \in C!AllRuns : r = C!CurrentRun BY <1>2, RunFacts
<1>7. C!EmitError(c, "handler", r) BY <1>6 DEF C!HandlerError
<1>8. PICK row \in C!RowType :
         /\ row = C!Row(c, "handler", r, "error", FALSE)
         /\ row.call = c /\ row.layer = "handler" /\ row.run = r /\ row.what = "error"
         /\ ~row.estimated
  <2>1. PICK no \in BOOLEAN, handler \in Layers : no = FALSE /\ handler = "handler"
    BY DEF Layers
  <2>2. C!Row(c, handler, r, "error", no) = C!Row(c, "handler", r, "error", FALSE)
    BY <2>1
  <2>3. PICK row \in C!RowType :
          /\ row = C!Row(c, handler, r, "error", no)
          /\ row.call = c /\ row.layer = handler /\ row.run = r /\ row.what = "error"
          /\ row.estimated = no
    BY RowFacts
  <2> QED BY <2>1, <2>2, <2>3
<1>9. /\ MemoryKept(c) /\ ids' = ids /\ Grew(c, row)
      /\ Within(errs[r], c) => log' = log
      /\ \/ Within(errs[r], c)
         \/ C!CallRows(c)' # {} \/ <<c, "error">> \in lost'
  BY <1>2, <1>7, <1>8, EmitErrorWrites DEF Layers
<1>10. Accounted(c) => Accounted(c)' BY <1>2, <1>9, AccountedGrows
<1>11. Accounted(c)'
  <2>1. Within(errs[r], c) => Accounted(c) BY <1>2 DEF CallInv, Recalled
  <2> QED BY <1>9, <1>10, <2>1 DEF Accounted
<1>12. Recalled(c)' BY <1>1, <1>2, <1>4, <1>5, <1>9, <1>11 DEF CallInv, Recalled
<1>13. Asked(c)'
  <2>1. C!Captures(c) => call[c].run \in C!AllRuns
    BY <1>2 DEF C!Captures, C!Hooked, CallTypes, CallRecord
  <2> QED BY <1>2, <1>4, <1>5, <1>9, <2>1 DEF CallInv, Asked, MemoryKept
<1>14. Done(c)' BY <1>1, <1>2, <1>4, <1>5, <1>11 DEF CallInv, Done
<1>15. Warned(c)'
  <2>1. WarnKept(c) => WarnKept(c)' BY <1>2, <1>9, WarnKeptGrows
  <2> QED BY <1>2, <1>4, <1>5, <2>1 DEF CallInv, Warned, WarnKept
<1>16. RowOk(c, row)'
  <2>1. HandlerRow(c, row)' BY <1>1, <1>3, <1>4, <1>8 DEF HandlerRow
  <2> QED BY <1>8, <2>1 DEF RowOk
<1>17. ASSUME log' # log PROVE MayAdd(c, row)
  <2> SUFFICES ASSUME NEW i \in C!CallRows(c)
               PROVE  /\ log[i].layer # "handler"
                      /\ \/ log[i].run # r \/ ~C!HandlerSeesId(c) \/ c \in forgotten
                         \/ call[c].cancelled
    BY <1>8 DEF MayAdd
  <2>1. PICK old \in C!RowType : old = log[i] /\ old.what # "warn"
    BY <1>2 DEF C!CallRows, CallTypes
  <2>2. old.what \in {"ok", "error"} BY <2>1 DEF C!RowType
  <2>3. IF old.layer = "shim" THEN ShimRow(c, old) ELSE HandlerRow(c, old)
    BY <1>2, <2>1 DEF CallInv, Counted
  <2>4. old.layer = "shim" /\ ShimRow(c, old) BY <1>1, <2>3 DEF HandlerRow
  <2>5. CASE old.what = "ok" BY <1>1, <2>1, <2>4, <2>5 DEF ShimRow
  <2>6. CASE old.what = "error"
    <3>1. Within(errs[call[c].run], c) \/ c \in forgotten BY <2>4, <2>6 DEF ShimRow
    <3>2. old.run = call[c].run BY <2>4 DEF ShimRow
    <3>3. ~Within(errs[r], c) BY <1>9, <1>17
    <3> QED BY <2>1, <2>4, <3>1, <3>2, <3>3
  <2> QED BY <2>2, <2>5, <2>6
<1>18. row.what # "warn" BY <1>8
<1> QED BY <1>1, <1>4, <1>8, <1>9, <1>12, <1>13, <1>14, <1>15, <1>16, <1>17, <1>18, WriteInv

-----------------------------------------------------------------------------
\* Runs, and the whole.

LEMMA EnterRunInv ==
  ASSUME RecordingInv, NEW r \in Runs, C!EnterRun(r)
  PROVE  RecordingInv'
<1>1. active' = r /\ UNCHANGED <<over, call, ids, errs, log, lost, forgotten>>
  BY DEF C!EnterRun
<1>2. CallTypes' BY <1>1 DEF RecordingInv, CallTypes
<1>3. EstimatedUnseen' BY <1>1 DEF RecordingInv, EstimatedUnseen
<1>4. ASSUME NEW c \in Calls PROVE CallInv(c)'
  <2>1. CallInv(c) BY DEF RecordingInv
  <2>2. Placed(c)' /\ UsageUnseen(c)' /\ Done(c)' /\ Warned(c)'
    BY <1>1, <2>1 DEF CallInv, Placed, UsageUnseen, Done, Warned, C!Hooked, HasHandler,
                      Accounted, C!CallRows
  <2>3. Recalled(c)' BY <1>1, <2>1 DEF CallInv, Recalled, C!Hooked, Accounted, C!CallRows
  <2>4. Asked(c)'
    BY <1>1, <2>1 DEF CallInv, Asked, C!Captures, C!HandlerSeesId, C!Hooked
  <2>5. Counted(c)'
    BY <1>1, <2>1 DEF CallInv, Counted, C!CallRows, ShimRow, HandlerRow, C!Captures,
                      C!HandlerSeesId, C!Hooked, HasHandler
  <2> QED BY <2>2, <2>3, <2>4, <2>5 DEF CallInv
<1> QED BY <1>2, <1>3, <1>4 DEF RecordingInv

\* A run that ends is forgotten, as far as its calls' ids go.
LEMMA LeaveRunInv ==
  ASSUME CallsGiven, RecordingInv, C!LeaveRun
  PROVE  RecordingInv'
<1>1. /\ active # None /\ active' = None /\ over' = over \union {active}
      /\ ids' = [ids EXCEPT ![active] = <<>>] /\ errs' = [errs EXCEPT ![active] = <<>>]
      /\ C!Forgets(ids', errs') /\ UNCHANGED <<call, log, lost>>
  BY DEF C!LeaveRun
<1>2. CallTypes BY DEF RecordingInv
<1>3. /\ ids \in [C!AllRuns -> Seq(Calls)] /\ errs \in [C!AllRuns -> Seq(Calls)]
      /\ active \in Runs /\ over \subseteq Runs
  BY <1>1, <1>2 DEF CallTypes
<1>4. PICK none \in Seq(Calls) : none = <<>> /\ Len(none) = 0 /\ \A d : ~Within(none, d)
  <2>1. <<>> \in Seq(Calls) /\ Len(<<>>) = 0 OBVIOUS
  <2>2. \A d : ~Within(<<>>, d) BY SmallElements DEF Within
  <2> QED BY <2>1, <2>2
<1>5. /\ ids' \in [C!AllRuns -> Seq(Calls)] /\ errs' \in [C!AllRuns -> Seq(Calls)]
      /\ \A r \in C!AllRuns : ids'[r] = (IF r = active THEN none ELSE ids[r])
      /\ \A r \in C!AllRuns : errs'[r] = (IF r = active THEN none ELSE errs[r])
  BY <1>1, <1>3, <1>4
<1>6. \A r \in C!AllRuns : Len(ids'[r]) <= IdLimit /\ Distinct(ids'[r])
  <2>1. Len(none) <= IdLimit BY <1>4 DEF CallsGiven, C!LimitsAssumption
  <2>2. Distinct(none) BY <1>4 DEF Distinct
  <2>3. \A r \in C!AllRuns : Len(ids[r]) <= IdLimit /\ Distinct(ids[r])
    BY <1>2 DEF CallTypes
  <2> QED BY <1>5, <2>1, <2>2, <2>3
<1>7. /\ forgotten \subseteq forgotten' /\ forgotten' \subseteq Calls
      /\ \A r \in C!AllRuns, d \in Calls :
              /\ Within(ids[r], d) => Within(ids'[r], d) \/ d \in forgotten'
              /\ Within(errs[r], d) => Within(errs'[r], d) \/ d \in forgotten'
  BY <1>1, <1>2, <1>5, ForgetsDropped
<1>8. \A r \in C!AllRuns, d \in Calls :
        /\ Within(ids'[r], d) => Within(ids[r], d)
        /\ Within(errs'[r], d) => Within(errs[r], d)
  BY <1>4, <1>5
<1>9. CallTypes' BY <1>1, <1>2, <1>3, <1>5, <1>6, <1>7 DEF CallTypes
<1>10. EstimatedUnseen' BY <1>1 DEF RecordingInv, EstimatedUnseen
<1>11. ASSUME NEW c \in Calls PROVE CallInv(c)'
  <2>1. CallInv(c) BY DEF RecordingInv
  <2>2. Placed(c)' /\ UsageUnseen(c)' /\ Done(c)' /\ Warned(c)'
    BY <1>1, <2>1 DEF CallInv, Placed, UsageUnseen, Done, Warned, C!Hooked, HasHandler,
                      Accounted, C!CallRows
  <2>3. Recalled(c)'
    BY <1>1, <1>8, <2>1 DEF CallInv, Recalled, C!Hooked, Accounted, C!CallRows
  <2>4. C!Hooked(c) => call[c].run \in C!AllRuns
    BY <1>2 DEF C!Hooked, CallTypes, CallRecord
  <2>5. Asked(c)'
    BY <1>1, <1>7, <2>1, <2>4 DEF CallInv, Asked, C!Captures, C!HandlerSeesId, C!Hooked
  <2>6. Counted(c)'
    <3>1. ASSUME NEW i \in C!CallRows(c)
          PROVE  IF log[i].layer = "shim" THEN ShimRow(c, log[i])' ELSE HandlerRow(c, log[i])'
      <4>1. IF log[i].layer = "shim" THEN ShimRow(c, log[i]) ELSE HandlerRow(c, log[i])
        BY <2>1 DEF CallInv, Counted
      <4>2. CASE log[i].layer = "shim"
        BY <1>1, <1>7, <2>4, <4>1, <4>2 DEF ShimRow, C!Hooked, C!Captures
      <4>3. CASE log[i].layer # "shim"
        BY <1>1, <1>7, <4>1, <4>3
        DEF HandlerRow, C!Hooked, C!Captures, C!HandlerSeesId, HasHandler
      <4> QED BY <4>2, <4>3
    <3>2. C!CallRows(c)' = C!CallRows(c) BY <1>1 DEF C!CallRows
    <3>3. C!HandlerSeesId(c)' <=> C!HandlerSeesId(c) BY <1>1 DEF C!HandlerSeesId
    <3>4. /\ \A i, j \in C!CallRows(c) : log[i].layer = log[j].layer => i = j
          /\ \A i, j \in C!CallRows(c) : i # j =>
               \/ log[i].run # log[j].run \/ ~C!HandlerSeesId(c)
               \/ c \in forgotten \/ call[c].cancelled
      BY <2>1 DEF CallInv, Counted
    <3> QED BY <1>1, <1>7, <3>1, <3>2, <3>3, <3>4 DEF Counted
  <2> QED BY <2>2, <2>3, <2>5, <2>6 DEF CallInv
<1> QED BY <1>9, <1>10, <1>11 DEF RecordingInv

LEMMA InitRecording ==
  ASSUME CallsGiven, C!Init
  PROVE  RecordingInv
<1>1. /\ active = None /\ over = {} /\ log = <<>> /\ lost = {} /\ forgotten = {}
      /\ call = [c \in Calls |-> C!NewCall]
      /\ ids = [r \in C!AllRuns |-> <<>>] /\ errs = [r \in C!AllRuns |-> <<>>]
  BY DEF C!Init
<1>2. PICK none \in Seq(Calls) :
        none = <<>> /\ Len(none) = 0 /\ Distinct(none) /\ \A d : ~Within(none, d)
  <2>1. <<>> \in Seq(Calls) /\ Len(<<>>) = 0 OBVIOUS
  <2>2. \A d : ~Within(<<>>, d) BY SmallElements DEF Within
  <2>3. Distinct(<<>>) BY DEF Distinct
  <2> QED BY <2>1, <2>2, <2>3
<1>3. log \in Seq(C!RowType) /\ DOMAIN log = {} BY <1>1
<1>4. C!NewCall \in CallRecord
  <2>1. PICK no \in BOOLEAN : no = FALSE OBVIOUS
  <2>2. [id |-> no, usage |-> no] \in [id : BOOLEAN, usage : BOOLEAN] OBVIOUS
  <2> QED BY <2>1, <2>2 DEF C!NewCall, C!NoProbe, CallRecord, SomeShape, Stages
<1>5. /\ C!NewCall.shape = None /\ C!NewCall.stage = "new" /\ C!NewCall.run = None
      /\ ~C!NewCall.told /\ ~C!NewCall.observed /\ ~C!NewCall.cancelled
      /\ C!NewCall.pos = 0 /\ ~C!NewCall.probe.id /\ C!NewCall.claim = "none"
      /\ ~C!NewCall.warn
  BY DEF C!NewCall, C!NoProbe
<1>6. \A c \in Calls : call[c] = C!NewCall BY <1>1
<1>7. CallTypes
  <2>1. call \in [Calls -> CallRecord] BY <1>1, <1>4
  <2>2. /\ ids \in [C!AllRuns -> Seq(Calls)] /\ errs \in [C!AllRuns -> Seq(Calls)]
        /\ \A r \in C!AllRuns : ids[r] = none
    BY <1>1, <1>2
  <2>3. 0 <= IdLimit BY DEF CallsGiven, C!LimitsAssumption
  <2> QED BY <1>1, <1>2, <1>3, <2>1, <2>2, <2>3 DEF CallTypes
<1>8. \A r \in C!AllRuns : \A d : ~Within(ids[r], d) /\ ~Within(errs[r], d)
  BY <1>1, <1>2
<1>9. ASSUME NEW c \in Calls PROVE CallInv(c)
  <2>1. C!CallRows(c) = {} BY <1>3 DEF C!CallRows
  <2>2. call[c].stage = "new" BY <1>5, <1>6
  <2>3. Placed(c) BY <1>5, <1>6 DEF Placed, C!Hooked
  <2>4. Recalled(c) BY <1>8 DEF Recalled
  <2> QED BY <2>1, <2>2, <2>3, <2>4
          DEF CallInv, UsageUnseen, Asked, Counted, Done, Warned
<1>10. EstimatedUnseen BY <1>3 DEF EstimatedUnseen
<1> QED BY <1>7, <1>9, <1>10 DEF RecordingInv

\* Every step of the layers keeps what is so of every call.
LEMMA RecordingStep ==
  ASSUME CallsGiven, RecordingInv, [C!Next]_callState
  PROVE  RecordingInv'
<1>1. CASE C!Next
  <2>1. CASE \E r \in Runs : C!EnterRun(r) BY <2>1, EnterRunInv
  <2>2. CASE C!LeaveRun BY <2>2, LeaveRunInv
  <2>3. ASSUME NEW c \in Calls, C!Begin(c) PROVE RecordingInv' BY <2>3, BeginInv
  <2>4. ASSUME NEW c \in Calls, C!Answer(c) PROVE RecordingInv' BY <2>4, AnswerInv
  <2>5. ASSUME NEW c \in Calls, C!Open(c) PROVE RecordingInv' BY <2>5, OpenInv
  <2>6. ASSUME NEW c \in Calls, C!Fail(c) PROVE RecordingInv' BY <2>6, FailInv
  <2>7. ASSUME NEW c \in Calls, C!Cancel(c) PROVE RecordingInv' BY <2>7, CancelInv
  <2>8. ASSUME NEW c \in Calls, C!Chunk(c) PROVE RecordingInv' BY <2>8, ChunkInv
  <2>9. ASSUME NEW c \in Calls, C!Close(c) PROVE RecordingInv'
    BY <2>9, FinaliseInv DEF C!Close
  <2>10. ASSUME NEW c \in Calls, C!Abandon(c) PROVE RecordingInv' BY <2>10, AbandonInv
  <2>11. ASSUME NEW c \in Calls, C!Collect(c) PROVE RecordingInv'
    BY <2>11, FinaliseInv DEF C!Collect
  <2>12. ASSUME NEW c \in Calls, C!StreamFail(c) PROVE RecordingInv'
    BY <2>12, StreamFailInv
  <2>13. ASSUME NEW c \in Calls, C!HandlerEnd(c) PROVE RecordingInv'
    BY <2>13, HandlerEndInv
  <2>14. ASSUME NEW c \in Calls, C!HandlerError(c) PROVE RecordingInv'
    BY <2>14, HandlerErrorInv
  <2>15. ASSUME NEW c \in Calls, C!HandlerFails(c) PROVE RecordingInv'
    BY <2>15, HandlerFailsInv
  <2> QED BY <1>1, <2>1, <2>2, <2>3, <2>4, <2>5, <2>6, <2>7, <2>8, <2>9, <2>10, <2>11,
             <2>12, <2>13, <2>14, <2>15 DEF C!Next
<1>2. CASE UNCHANGED callState
  <2>1. UNCHANGED <<active, over, call, ids, errs, log, lost, forgotten>>
    BY <1>2 DEF callState
  <2>2. CallTypes' BY <2>1 DEF RecordingInv, CallTypes
  <2>3. EstimatedUnseen' BY <2>1 DEF RecordingInv, EstimatedUnseen
  <2>4. ASSUME NEW c \in Calls PROVE CallInv(c)'
    <3>1. CallInv(c) BY DEF RecordingInv
    <3>2. Placed(c)' /\ UsageUnseen(c)' /\ Done(c)' /\ Warned(c)'
      BY <2>1, <3>1 DEF CallInv, Placed, UsageUnseen, Done, Warned, C!Hooked, HasHandler,
                        Accounted, C!CallRows
    <3>3. Recalled(c)' BY <2>1, <3>1 DEF CallInv, Recalled, C!Hooked, Accounted, C!CallRows
    <3>4. Asked(c)'
      BY <2>1, <3>1 DEF CallInv, Asked, C!Captures, C!HandlerSeesId, C!Hooked
    <3>5. Counted(c)'
      BY <2>1, <3>1 DEF CallInv, Counted, C!CallRows, ShimRow, HandlerRow, C!Captures,
                        C!HandlerSeesId, C!Hooked, HasHandler
    <3> QED BY <3>2, <3>3, <3>4, <3>5 DEF CallInv
  <2> QED BY <2>2, <2>3, <2>4 DEF RecordingInv
<1> QED BY <1>1, <1>2

\* A step of the whole is one of the layers, or leaves them alone.
LEMMA PathStep ==
  ASSUME [PathNext]_pathVars
  PROVE  [C!Next]_callState
<1>1. CASE OfExport(Next) BY <1>1 DEF OfExport
<1>2. CASE OfCalls(C!Next) BY <1>2 DEF OfCalls
<1>3. CASE UNCHANGED pathVars BY <1>3 DEF pathVars
<1> QED BY <1>1, <1>2, <1>3 DEF PathNext

-----------------------------------------------------------------------------
\* What the invariant says of the log.

LEMMA RecordingTypeOK ==
  ASSUME RecordingInv
  PROVE  C!TypeOK
<1>1. CallTypes BY DEF RecordingInv
<1>2. ASSUME NEW c \in Calls
      PROVE  /\ call[c].stage \in C!Shown
             /\ call[c].shape \in Shapes[c] \union {None}
             /\ call[c].run \in C!AllRuns \union {None}
             /\ call[c].claim \in {"none", "won", "lost"}
  <2>1. call[c] \in CallRecord BY <1>1 DEF CallTypes
  <2>2. Placed(c) BY DEF RecordingInv, CallInv
  <2> QED BY <2>1, <2>2 DEF CallRecord, Stages, C!Shown, Placed
<1>3. ASSUME NEW r \in C!AllRuns
      PROVE  /\ ids[r] \in Seq(Calls) /\ errs[r] \in Seq(Calls) /\ Len(ids[r]) <= IdLimit
             /\ \A i, j \in DOMAIN ids[r] : ids[r][i] = ids[r][j] => i = j
  BY <1>1 DEF CallTypes, Distinct
<1> QED BY <1>1, <1>2, <1>3 DEF C!TypeOK, CallTypes

LEMMA RecordingCounts ==
  ASSUME RecordingInv
  PROVE  CountedOnceUnless
<1>1. C!CountedTwiceOnlyIf
  <2> SUFFICES ASSUME NEW c \in Calls PROVE
        \A i, j \in C!CallRows(c) : i # j =>
          \/ log[i].run # log[j].run \/ ~C!HandlerSeesId(c)
          \/ c \in forgotten \/ call[c].cancelled
    BY DEF C!CountedTwiceOnlyIf
  <2> QED BY DEF RecordingInv, CallInv, Counted
<1>2. C!UncountedOnlyIf
  <2> SUFFICES ASSUME NEW c \in Calls, call[c].stage # "new", C!Finished(c),
                      C!CallRows(c) = {}
               PROVE  <<c, "ok">> \in lost \/ <<c, "error">> \in lost \/ C!Unseen(c)
    BY DEF C!UncountedOnlyIf
  <2>1. call[c].stage \in {"over", "raised"} /\ call[c].told BY DEF C!Finished
  <2>2. Done(c) BY DEF RecordingInv, CallInv
  <2>3. CASE Accounted(c) BY <2>3 DEF Accounted
  <2>4. CASE ~Accounted(c) BY <2>1, <2>2, <2>4 DEF Done, C!Unseen, HasHandler
  <2> QED BY <2>3, <2>4
<1>3. C!WarnLostOnlyIf BY DEF C!WarnLostOnlyIf, RecordingInv, CallInv, Warned
<1> QED BY <1>1, <1>2, <1>3, RecordingTypeOK DEF CountedOnceUnless

LEMMA RecordingRicher ==
  ASSUME RecordingInv
  PROVE  RicherRowWins
<1>1. ASSUME NEW i \in DOMAIN log
      PROVE  log[i].call \in Calls
  <2>1. log \in Seq(C!RowType) BY DEF RecordingInv, CallTypes
  <2>2. PICK row \in C!RowType : row = log[i] BY <2>1
  <2> QED BY <2>2 DEF C!RowType
<1>2. C!RicherRowWins
  <2> SUFFICES ASSUME NEW i \in DOMAIN log, NEW c \in Calls, c = log[i].call,
                      log[i].layer = "handler", log[i].what = "ok", C!Captures(c)
               PROVE  log[i].run # call[c].run \/ ~C!HandlerSeesId(c) \/ c \in forgotten
    BY <1>1 DEF C!RicherRowWins
  <2>1. i \in C!CallRows(c) BY DEF C!CallRows
  <2>2. HandlerRow(c, log[i]) BY <2>1 DEF RecordingInv, CallInv, Counted
  <2> QED BY <2>2 DEF HandlerRow
<1>3. C!EstimatedOnlyIfUnread
  <2> SUFFICES ASSUME NEW i \in DOMAIN log, log[i].estimated, NEW c \in Calls,
                      c = log[i].call
               PROVE  \A k \in 1..call[c].pos : call[c].shape.chunks[k] \notin C!UsageChunks
    BY <1>1 DEF C!EstimatedOnlyIfUnread
  <2>1. call[c].stage = "over" /\ call[c].observed /\ ~call[c].probe.usage
    BY DEF RecordingInv, EstimatedUnseen
  <2> QED BY <2>1 DEF RecordingInv, CallInv, UsageUnseen
<1> QED BY <1>2, <1>3 DEF RicherRowWins

LEMMA RecordingAlways == PathSpec => []RecordingInv
<1>1. CallsGiven BY CallsAssumption DEF CallsGiven
<1>2. PathInit => RecordingInv BY <1>1, InitRecording DEF PathInit
<1>3. RecordingInv /\ [PathNext]_pathVars => RecordingInv'
  BY <1>1, PathStep, RecordingStep
<1> QED BY <1>2, <1>3, PTL DEF PathSpec

\* However the shim, the observer and the handler of a call take turns, and whichever
\* of their writes fail, the call is in the log once, but where the memory of its id
\* cannot tell; and it is in no event only if a fault kept it out, or no layer saw it.
\* The same of a warning (shims/_emit.py:158, 534; langchain/handler.py:264).
THEOREM CountedAlwaysOnceUnless == PathSpec => []CountedOnceUnless
BY RecordingAlways, RecordingCounts, PTL

\* The thinner event of the handler never stands in for one the shim captured, unless
\* the memory of the call cannot tell; and an output is estimated only when no chunk
\* the caller has read carried the usage (shims/_streaming.py:35, 406-484).
THEOREM RicherRowAlwaysWins == PathSpec => []RicherRowWins
BY RecordingAlways, RecordingRicher, PTL

-----------------------------------------------------------------------------
\* The exporter.  What a request is built of.

\* The events of one kind come in the order they have in the batch.
LEMMA ExportedKeepsOrder ==
  ASSUME NEW S, NEW es \in Seq(S), NEW kind
  PROVE  LET body == Exported(kind, es) IN
         /\ body \in Seq(S)
         /\ \E pos \in [DOMAIN body -> DOMAIN es] :
              /\ \A k \in DOMAIN body : body[k] = es[pos[k]] /\ body[k].kind = kind
              /\ \A k, l \in DOMAIN body : k < l => pos[k] < pos[l]
              /\ \A i \in DOMAIN es : es[i].kind = kind => \E k \in DOMAIN body : pos[k] = i
<1> DEFINE chosen == {i \in DOMAIN es : es[i].kind = kind}
           UpTo(i) == {j \in chosen : j <= i}
           n == Cardinality(chosen)
           rank == [i \in chosen |-> Cardinality(UpTo(i))]
           pos == [k \in 1..n |-> CHOOSE i \in chosen : Cardinality(UpTo(i)) = k]
           body == Exported(kind, es)
<1>1. /\ Len(es) \in Nat /\ DOMAIN es = 1..Len(es) /\ chosen \subseteq 1..Len(es)
      /\ \A i \in chosen : i \in Nat /\ i \in DOMAIN es
  OBVIOUS
<1>2. IsFiniteSet(chosen) /\ n \in Nat
  <2>1. IsFiniteSet(1..Len(es)) BY <1>1, FS_Interval
  <2> QED BY <1>1, <2>1, FS_Subset, FS_CardinalityType
<1>3. body = [k \in 1..n |-> es[pos[k]]] BY DEF Exported
<1> HIDE DEF chosen, n
<1>4. /\ \A i \in chosen : i \in UpTo(i) /\ UpTo(i) \subseteq chosen
      /\ \A i, j \in chosen : j \in UpTo(i) <=> j <= i
  BY <1>1
<1> HIDE DEF UpTo
<1>5. ASSUME NEW i \in chosen
      PROVE  IsFiniteSet(UpTo(i)) /\ Cardinality(UpTo(i)) \in 1..n
  <2>1. IsFiniteSet(UpTo(i)) /\ Cardinality(UpTo(i)) <= n
    BY <1>2, <1>4, FS_Subset DEF n
  <2>2. Cardinality(UpTo(i)) \in Nat /\ Cardinality(UpTo(i)) # 0
    BY <1>4, <2>1, FS_CardinalityType, FS_EmptySet
  <2> QED BY <1>2, <2>1, <2>2
<1>6. ASSUME NEW i \in chosen, NEW j \in chosen, i < j
      PROVE  Cardinality(UpTo(i)) < Cardinality(UpTo(j))
  <2>1. UpTo(i) \subseteq UpTo(j) /\ j \in UpTo(j) /\ j \notin UpTo(i)
    <3>1. ASSUME NEW m \in UpTo(i) PROVE m \in UpTo(j)
      <4>1. m \in chosen /\ m <= i BY <1>4
      <4>2. m <= j BY <1>1, <1>6, <4>1
      <4> QED BY <1>4, <4>1, <4>2
    <3>2. ~(j <= i) BY <1>1, <1>6
    <3> QED BY <1>4, <3>1, <3>2
  <2>2. IsFiniteSet(UpTo(j)) /\ UpTo(i) \in SUBSET UpTo(j) BY <1>5, <2>1
  <2>3. /\ Cardinality(UpTo(i)) <= Cardinality(UpTo(j))
        /\ Cardinality(UpTo(j)) = Cardinality(UpTo(i)) => UpTo(j) = UpTo(i)
    BY <2>2, FS_Subset
  <2>4. Cardinality(UpTo(i)) # Cardinality(UpTo(j)) BY <2>1, <2>3
  <2>5. Cardinality(UpTo(i)) \in Nat /\ Cardinality(UpTo(j)) \in Nat BY <1>2, <1>5
  <2> QED BY <2>3, <2>4, <2>5
<1>7. rank \in Surjection(chosen, 1..n)
  <2>1. rank \in [chosen -> 1..n] BY <1>5
  <2>2. \A i, j \in chosen : rank[i] = rank[j] => i = j
    <3> SUFFICES ASSUME NEW i \in chosen, NEW j \in chosen, rank[i] = rank[j] PROVE i = j
      OBVIOUS
    <3>1. ~(i < j) /\ ~(j < i)
      <4>1. Cardinality(UpTo(i)) = Cardinality(UpTo(j)) OBVIOUS
      <4>2. Cardinality(UpTo(i)) \in Nat BY <1>2, <1>5
      <4> QED BY <1>6, <4>1, <4>2
    <3> QED BY <1>1, <3>1
  <2>3. rank \in Injection(chosen, 1..n) BY <2>1, <2>2 DEF Injection, IsInjective
  <2>4. IsFiniteSet(1..n) /\ Cardinality(1..n) = n BY <1>2, FS_Interval
  <2> QED BY <1>2, <2>3, <2>4, FS_Injection DEF n
<1>8. ASSUME NEW k \in 1..n
      PROVE  pos[k] \in chosen /\ Cardinality(UpTo(pos[k])) = k
  <2>1. \E i \in chosen : rank[i] = k BY <1>7 DEF Surjection
  <2>2. \E i \in chosen : Cardinality(UpTo(i)) = k BY <2>1
  <2> QED BY <2>2
<1>9. ASSUME NEW k \in 1..n, NEW l \in 1..n, k < l PROVE pos[k] < pos[l]
  <2>1. pos[k] \in chosen /\ pos[l] \in chosen /\ pos[k] # pos[l] BY <1>8, <1>9
  <2>2. ~(pos[l] < pos[k])
    <3> SUFFICES ASSUME pos[l] < pos[k] PROVE FALSE OBVIOUS
    <3>1. Cardinality(UpTo(pos[l])) < Cardinality(UpTo(pos[k])) BY <1>6, <2>1
    <3>2. l < k BY <1>8, <3>1
    <3> QED BY <1>2, <1>9, <3>2
  <2>3. pos[k] \in Nat /\ pos[l] \in Nat BY <1>1, <2>1
  <2> HIDE DEF pos
  <2> QED BY <2>1, <2>2, <2>3
<1>10. ASSUME NEW i \in chosen PROVE \E k \in 1..n : pos[k] = i
  <2>1. PICK k \in 1..n : k = Cardinality(UpTo(i)) BY <1>5
  <2>2. pos[k] \in chosen /\ Cardinality(UpTo(pos[k])) = Cardinality(UpTo(i))
    BY <1>8, <2>1
  <2>3. Cardinality(UpTo(i)) \in Nat BY <1>2, <1>5
  <2>4. ~(pos[k] < i) /\ ~(i < pos[k]) BY <1>6, <2>2, <2>3
  <2> QED BY <1>1, <2>2, <2>4
<1>11. pos \in [1..n -> DOMAIN es] BY <1>1, <1>8
<1> HIDE DEF pos, body
<1>12. DOMAIN body = 1..n /\ \A k \in 1..n : body[k] = es[pos[k]] BY <1>3
<1>13. body \in Seq(S)
  <2>1. \A k \in 1..n : pos[k] \in DOMAIN es BY <1>11
  <2>2. \A k \in 1..n : body[k] \in S BY <1>12, <2>1
  <2> QED BY <1>2, <1>3, <2>2
<1>14. \A k \in 1..n : es[pos[k]].kind = kind BY <1>8 DEF chosen
<1>15. \A i \in DOMAIN es : es[i].kind = kind => \E k \in 1..n : pos[k] = i
  BY <1>10 DEF chosen
<1>16. /\ pos \in [DOMAIN body -> DOMAIN es]
       /\ \A k \in DOMAIN body : body[k] = es[pos[k]] /\ body[k].kind = kind
       /\ \A k, l \in DOMAIN body : k < l => pos[k] < pos[l]
       /\ \A i \in DOMAIN es : es[i].kind = kind => \E k \in DOMAIN body : pos[k] = i
  BY <1>9, <1>11, <1>12, <1>14, <1>15
<1> QED BY <1>13, <1>16 DEF body

-----------------------------------------------------------------------------
\* What is so of the exporter.

Holds(s, e) == \E i \in DOMAIN s : s[i] = e
Once(s) == \A i, j \in DOMAIN s : s[i] = s[j] /\ s[i] \in Events => i = j

\* The request that e belongs to has been made.
Requested(at, e) == at = "logs" /\ e.kind = "llm_call"
Batched(e) == Holds(batch, e) /\ ~Requested(thread, e)
Taken(e) == Holds(leftovers, e) /\ ~Requested(stopper, e)
Settled(e) == Holds(delivered, e) \/ e \in failed

\* Where the threads can be: unless stop() gave up on it, the thread is done when
\* the queue is emptied behind it.
ExportTypes ==
  /\ TypeOK /\ accepted \in Seq(Events)
  /\ thread \in {"new", "top", "get"} => Len(batch) < BatchSize
  /\ stopper \in {"none", "waking", "joining"} => leftovers = <<>>
  /\ stopper \in {"none", "waking", "joining"} => ~gaveUp
  /\ ~gaveUp /\ stopper \in {"taking", "traces", "logs", "stopped"} => thread = "done"

HeldOnce == Once(queue) /\ Once(batch) /\ Once(leftovers) /\ Once(delivered)

\* An event the queue took is waiting, held or settled, and only one of these.
OnePlace(e) ==
  /\ Holds(queue, e) \/ Holds(batch, e) \/ Holds(leftovers, e) \/ Settled(e) =>
       Holds(accepted, e)
  /\ Holds(accepted, e) /\ Posted(e) =>
       Holds(queue, e) \/ Batched(e) \/ Taken(e) \/ Settled(e)
  /\ Holds(queue, e) => ~Holds(batch, e) /\ ~Holds(leftovers, e) /\ ~Settled(e)
  /\ Holds(batch, e) => ~Holds(leftovers, e)
  /\ Batched(e) \/ Taken(e) => ~Settled(e)
  /\ ~(Holds(delivered, e) /\ e \in failed)

\* The queue, what was taken from it, and what was delivered are in the order of the
\* rows, one behind the other.  A batch that a finished thread has left does not count.
Sorted(s) == \A i, j \in DOMAIN s : i < j /\ {s[i], s[j]} \subseteq Events => Before(s[i], s[j])
Ahead(s, t) == \A i \in DOMAIN s, j \in DOMAIN t : t[j] \in Events => Before(s[i], t[j])
SortedByKind(s) ==
  \A i, j \in DOMAIN s : i < j /\ s[i].kind = s[j].kind => Before(s[i], s[j])
ToCome(e) == Holds(queue, e) \/ (Batched(e) /\ thread # "done") \/ Taken(e)

InOrder ==
  /\ Sorted(queue) /\ Sorted(batch) /\ Sorted(leftovers)
  /\ Ahead(batch, queue) /\ Ahead(leftovers, queue)
  /\ \A i \in DOMAIN delivered : \A e \in Events :
       ToCome(e) /\ delivered[i].kind = e.kind => Before(delivered[i], e)
  /\ SortedByKind(delivered)

ExportInv ==
  ExportTypes /\ HeldOnce /\ (\A e \in Events : OnePlace(e)) /\ (~gaveUp => InOrder)

-----------------------------------------------------------------------------
\* Sequences that get an element at the end, lose their head, or are joined.

LEMMA AppendHolds ==
  ASSUME NEW S, NEW s \in Seq(S), NEW x \in S
  PROVE  /\ Append(s, x) \in Seq(S) /\ Len(Append(s, x)) = Len(s) + 1
         /\ \A e : Holds(Append(s, x), e) <=> Holds(s, e) \/ e = x
         /\ \A i \in DOMAIN Append(s, x) :
              (i \in DOMAIN s /\ Append(s, x)[i] = s[i])
              \/ (i = Len(s) + 1 /\ Append(s, x)[i] = x)
<1>1. PICK t \in Seq(S) : t = Append(s, x)
  <2>1. Append(s, x) \in Seq(S) OBVIOUS
  <2> QED BY <2>1
<1>2. /\ Len(t) = Len(s) + 1 /\ t[Len(s) + 1] = x /\ Len(s) \in Nat
      /\ \A i \in 1..Len(s) : t[i] = s[i]
      /\ DOMAIN t = 1..Len(t) /\ DOMAIN s = 1..Len(s)
  BY <1>1
<1>3. \A i \in DOMAIN t : (i \in DOMAIN s /\ t[i] = s[i]) \/ (i = Len(s) + 1 /\ t[i] = x)
  BY <1>2
<1>4. \A i \in DOMAIN s : i \in DOMAIN t /\ t[i] = s[i] BY <1>2
<1>5. Len(s) + 1 \in DOMAIN t BY <1>2
<1>6. \A e : Holds(t, e) <=> Holds(s, e) \/ e = x BY <1>2, <1>3, <1>4, <1>5 DEF Holds
<1> QED BY <1>1, <1>2, <1>3, <1>6

LEMMA TailHolds ==
  ASSUME NEW S, NEW s \in Seq(S), s # <<>>
  PROVE  /\ Tail(s) \in Seq(S) /\ Head(s) \in S /\ Len(Tail(s)) = Len(s) - 1
         /\ Len(s) \in Nat \ {0} /\ s[1] = Head(s)
         /\ \A i \in DOMAIN Tail(s) : i + 1 \in DOMAIN s /\ Tail(s)[i] = s[i + 1]
         /\ \A e : Holds(s, e) <=> Holds(Tail(s), e) \/ e = Head(s)
<1>1. PICK t \in Seq(S) : t = Tail(s)
  <2>1. Tail(s) \in Seq(S) OBVIOUS
  <2> QED BY <2>1
<1>2. /\ Len(s) \in Nat \ {0} /\ s[1] = Head(s) /\ Head(s) \in S
      /\ DOMAIN t = 1..Len(t) /\ DOMAIN s = 1..Len(s)
      /\ Len(t) = Len(s) - 1 /\ \A i \in 1..Len(t) : t[i] = s[i + 1]
  BY <1>1
<1>3. \A i \in DOMAIN t : i + 1 \in DOMAIN s /\ t[i] = s[i + 1] BY <1>2
<1>4. \A i \in DOMAIN s : i = 1 \/ (i - 1 \in DOMAIN t /\ t[i - 1] = s[i]) BY <1>2
<1>5. 1 \in DOMAIN s BY <1>2
<1>6. \A e : Holds(s, e) <=> Holds(t, e) \/ e = Head(s)
  BY <1>2, <1>3, <1>4, <1>5 DEF Holds
<1> QED BY <1>1, <1>2, <1>3, <1>6

LEMMA OnceAppended ==
  ASSUME NEW S, NEW s \in Seq(S), NEW x \in S, Once(s), x \in Events => ~Holds(s, x)
  PROVE  Once(Append(s, x))
<1>1. PICK t : t = Append(s, x) OBVIOUS
<1>2. \A i \in DOMAIN t :
        (i \in DOMAIN s /\ t[i] = s[i]) \/ (i = Len(s) + 1 /\ t[i] = x)
  BY <1>1, AppendHolds
<1>3. ASSUME NEW i \in DOMAIN t, NEW j \in DOMAIN t, t[i] = t[j], t[i] \in Events
      PROVE  i = j
  BY <1>2, <1>3 DEF Once, Holds
<1> QED BY <1>1, <1>3 DEF Once

LEMMA OnceTail ==
  ASSUME NEW S, NEW s \in Seq(S), s # <<>>, Once(s)
  PROVE  /\ Once(Tail(s))
         /\ Head(s) \in Events => ~Holds(Tail(s), Head(s))
<1>1. PICK t \in Seq(S) : t = Tail(s) BY TailHolds
<1>2. /\ \A i \in DOMAIN t : i + 1 \in DOMAIN s /\ t[i] = s[i + 1]
      /\ 1 \in DOMAIN s /\ s[1] = Head(s)
  BY <1>1, TailHolds
<1>3. ASSUME NEW i \in DOMAIN t, NEW j \in DOMAIN t, t[i] = t[j], t[i] \in Events
      PROVE  i = j
  <2>1. i + 1 = j + 1 BY <1>2, <1>3 DEF Once
  <2>2. i \in Nat /\ j \in Nat OBVIOUS
  <2> QED BY <2>1, <2>2
<1>4. ASSUME NEW i \in DOMAIN t, t[i] = Head(s), Head(s) \in Events PROVE FALSE
  <2>1. i + 1 = 1 BY <1>2, <1>4 DEF Once
  <2>2. i \in Nat /\ i # 0 OBVIOUS
  <2> QED BY <2>1, <2>2
<1> QED BY <1>1, <1>3, <1>4 DEF Once, Holds

LEMMA SortedAppended ==
  ASSUME NEW S, NEW s \in Seq(S), NEW x \in S, Sorted(s),
         x \in Events => \A i \in DOMAIN s : s[i] \in Events => Before(s[i], x)
  PROVE  Sorted(Append(s, x))
<1>1. PICK t : t = Append(s, x) OBVIOUS
<1>2. /\ DOMAIN s = 1..Len(s) /\ Len(s) \in Nat
      /\ \A i \in DOMAIN t :
          (i \in DOMAIN s /\ t[i] = s[i]) \/ (i = Len(s) + 1 /\ t[i] = x)
  BY <1>1, AppendHolds
<1>3. ASSUME NEW i \in DOMAIN t, NEW j \in DOMAIN t, i < j, t[i] \in Events, t[j] \in Events
      PROVE  Before(t[i], t[j])
  <2>1. i \in DOMAIN s /\ t[i] = s[i] BY <1>1, <1>2, <1>3, AppendHolds
  <2>2. CASE j \in DOMAIN s /\ t[j] = s[j] BY <1>3, <2>1, <2>2 DEF Sorted
  <2>3. CASE j = Len(s) + 1 /\ t[j] = x BY <1>3, <2>1, <2>3
  <2> QED BY <1>2, <2>2, <2>3
<1> QED BY <1>1, <1>3 DEF Sorted

LEMMA SortedTail ==
  ASSUME NEW S, NEW s \in Seq(S), s # <<>>, Sorted(s)
  PROVE  /\ Sorted(Tail(s))
         /\ \A j \in DOMAIN Tail(s) :
              {Head(s), Tail(s)[j]} \subseteq Events => Before(Head(s), Tail(s)[j])
<1>1. PICK t \in Seq(S) : t = Tail(s) BY TailHolds
<1>2. /\ \A i \in DOMAIN t : i + 1 \in DOMAIN s /\ t[i] = s[i + 1]
      /\ 1 \in DOMAIN s /\ s[1] = Head(s)
      /\ \A i \in DOMAIN t : i \in Nat /\ 1 < i + 1
  BY <1>1, TailHolds
<1>3. ASSUME NEW i \in DOMAIN t, NEW j \in DOMAIN t, i < j, {t[i], t[j]} \subseteq Events
      PROVE  Before(t[i], t[j])
  <2>1. i + 1 < j + 1 BY <1>2, <1>3
  <2> QED BY <1>2, <1>3, <2>1 DEF Sorted
<1>4. ASSUME NEW j \in DOMAIN t, {Head(s), t[j]} \subseteq Events
      PROVE  Before(Head(s), t[j])
  BY <1>2, <1>4 DEF Sorted
<1> QED BY <1>1, <1>3, <1>4 DEF Sorted

-----------------------------------------------------------------------------
\* One request.

\* What a request adds to what is delivered, in the order of the batch.
AddedAt(at, es, kind) ==
  /\ \A i \in DOMAIN delivered' :
       \/ i \in DOMAIN delivered /\ delivered'[i] = delivered[i]
       \/ /\ \A k \in DOMAIN delivered : k < i
          /\ i \notin DOMAIN delivered
          /\ at[i] \in DOMAIN es /\ delivered'[i] = es[at[i]]
          /\ delivered'[i].kind = kind
  /\ \A i, j \in DOMAIN delivered' \ DOMAIN delivered : i < j => at[i] < at[j]
  /\ \A k \in DOMAIN es : es[k].kind = kind =>
       \E i \in DOMAIN delivered' : delivered'[i] = es[k]

LEMMA DeliveredGrows ==
  ASSUME NEW es \in Seq(Events), NEW kind, delivered \in Seq(Events),
         delivered' = delivered \o Exported(kind, es)
  PROVE  /\ delivered' \in Seq(Events)
         /\ \A i \in DOMAIN delivered : i \in DOMAIN delivered' /\ delivered'[i] = delivered[i]
         /\ \E at \in [DOMAIN delivered' -> Int] : AddedAt(at, es, kind)
<1>1. PICK body \in Seq(Events) : body = Exported(kind, es) BY ExportedKeepsOrder
<1>2. PICK pos \in [DOMAIN body -> DOMAIN es] :
        /\ \A k \in DOMAIN body : body[k] = es[pos[k]] /\ body[k].kind = kind
        /\ \A k, l \in DOMAIN body : k < l => pos[k] < pos[l]
        /\ \A i \in DOMAIN es : es[i].kind = kind => \E k \in DOMAIN body : pos[k] = i
  BY <1>1, ExportedKeepsOrder
<1>3. PICK whole \in Seq(Events) : whole = delivered \o body BY Joined
<1>4. /\ Len(whole) = Len(delivered) + Len(body)
      /\ \A k \in 1..Len(delivered) : whole[k] = delivered[k]
      /\ \A k \in 1..Len(body) : whole[Len(delivered) + k] = body[k]
  BY <1>3, Joined
<1>5. /\ DOMAIN whole = 1..Len(whole) /\ DOMAIN delivered = 1..Len(delivered)
      /\ DOMAIN body = 1..Len(body) /\ Len(delivered) \in Nat /\ Len(body) \in Nat
  OBVIOUS
<1> DEFINE n == Len(delivered)
           at == [i \in DOMAIN whole |-> IF i > n THEN pos[i - n] ELSE 0]
<1>6. ASSUME NEW i \in DOMAIN whole, i \notin DOMAIN delivered
      PROVE  /\ i > n /\ i - n \in DOMAIN body /\ whole[i] = body[i - n]
             /\ at[i] = pos[i - n]
  <2>1. i > n /\ i - n \in 1..Len(body) /\ n + (i - n) = i BY <1>4, <1>5, <1>6
  <2> QED BY <1>4, <1>5, <2>1
<1>7. \A i \in DOMAIN es : i \in Int OBVIOUS
<1>8. at \in [DOMAIN whole -> Int]
  <2>1. ASSUME NEW i \in DOMAIN whole PROVE at[i] \in Int
    <3>1. CASE i \in DOMAIN delivered BY <1>5, <3>1
    <3>2. CASE i \notin DOMAIN delivered BY <1>2, <1>6, <1>7, <3>2
    <3> QED BY <3>1, <3>2
  <2> QED BY <2>1
<1> HIDE DEF at
<1>9. ASSUME NEW i \in DOMAIN whole
      PROVE  \/ i \in DOMAIN delivered /\ whole[i] = delivered[i]
             \/ /\ \A k \in DOMAIN delivered : k < i
                /\ i \notin DOMAIN delivered
                /\ at[i] \in DOMAIN es /\ whole[i] = es[at[i]]
                /\ whole[i].kind = kind
  <2>1. CASE i \in DOMAIN delivered BY <1>4, <1>5, <2>1
  <2>2. CASE i \notin DOMAIN delivered
    <3>1. at[i] \in DOMAIN es /\ whole[i] = es[at[i]] /\ whole[i].kind = kind
      BY <1>2, <1>6, <2>2
    <3>2. \A k \in DOMAIN delivered : k < i BY <1>5, <1>6, <2>2
    <3> QED BY <2>2, <3>1, <3>2
  <2> QED BY <2>1, <2>2
<1>10. ASSUME NEW i \in DOMAIN whole, NEW j \in DOMAIN whole,
              i \notin DOMAIN delivered, j \notin DOMAIN delivered, i < j
       PROVE  at[i] < at[j]
  <2>1. i - n \in DOMAIN body /\ j - n \in DOMAIN body /\ i - n < j - n
    BY <1>5, <1>6, <1>10
  <2> QED BY <1>2, <1>6, <1>10, <2>1
<1>11. ASSUME NEW k \in DOMAIN es, es[k].kind = kind
       PROVE  \E i \in DOMAIN whole : whole[i] = es[k]
  <2>1. PICK m \in DOMAIN body : body[m] = es[k] BY <1>2, <1>11
  <2>2. n + m \in DOMAIN whole /\ whole[n + m] = body[m] BY <1>4, <1>5
  <2> QED BY <2>1, <2>2
<1>12. \A i \in DOMAIN delivered : i \in DOMAIN whole /\ whole[i] = delivered[i]
  BY <1>4, <1>5
<1>13. delivered' = whole BY <1>1, <1>3
<1>14. AddedAt(at, es, kind) BY <1>9, <1>10, <1>11, <1>13 DEF AddedAt
<1> QED BY <1>8, <1>12, <1>13, <1>14

\* A request settles the events of its kind in the batch, and no other.
LEMMA SendKeeps ==
  ASSUME NEW es \in Seq(Events), NEW kind, Send(kind, es), accepted' = accepted,
         delivered \in Seq(Events), failed \subseteq Events,
         Once(es), Once(delivered),
         \A e \in Events : Holds(es, e) /\ e.kind = kind => ~Settled(e),
         \A e \in Events : ~(Holds(delivered, e) /\ e \in failed)
  PROVE  /\ delivered' \in Seq(Events) /\ failed' \subseteq Events /\ Once(delivered')
         /\ \A e \in Events : Settled(e)' <=> Settled(e) \/ (Holds(es, e) /\ e.kind = kind)
         /\ \A e \in Events : ~(Holds(delivered', e) /\ e \in failed')
         /\ \A i \in DOMAIN delivered' :
              \/ i \in DOMAIN delivered /\ delivered'[i] = delivered[i]
              \/ Holds(es, delivered'[i]) /\ delivered'[i].kind = kind
         /\ SortedByKind(delivered) /\ Sorted(es)
            /\ (\A i \in DOMAIN delivered : \A e \in Events :
                  Holds(es, e) /\ e.kind = kind /\ delivered[i].kind = e.kind
                    => Before(delivered[i], e))
              => SortedByKind(delivered)'
<1>1. CASE delivered' = delivered \o Exported(kind, es) /\ failed' = failed
  <2>1. /\ delivered' \in Seq(Events)
        /\ \A i \in DOMAIN delivered : i \in DOMAIN delivered' /\ delivered'[i] = delivered[i]
    BY <1>1, DeliveredGrows
  <2>0. PICK at \in [DOMAIN delivered' -> Int] : AddedAt(at, es, kind)
    BY <1>1, DeliveredGrows
  <2>2. /\ \A i \in DOMAIN delivered' :
             \/ i \in DOMAIN delivered /\ delivered'[i] = delivered[i]
             \/ /\ \A k \in DOMAIN delivered : k < i
                /\ i \notin DOMAIN delivered
                /\ at[i] \in DOMAIN es /\ delivered'[i] = es[at[i]]
                /\ delivered'[i].kind = kind
        /\ \A i, j \in DOMAIN delivered' \ DOMAIN delivered : i < j => at[i] < at[j]
        /\ \A k \in DOMAIN es : es[k].kind = kind =>
             \E i \in DOMAIN delivered' : delivered'[i] = es[k]
    BY <2>0 DEF AddedAt
  <2>3. \A i \in DOMAIN delivered' : i \in Nat /\ delivered'[i] \in Events BY <2>1
  <2>4. \A i \in DOMAIN delivered' :
          \/ i \in DOMAIN delivered /\ delivered'[i] = delivered[i]
          \/ Holds(es, delivered'[i]) /\ delivered'[i].kind = kind
    BY <2>2 DEF Holds
  <2>5. ASSUME NEW i \in DOMAIN delivered', NEW j \in DOMAIN delivered',
               delivered'[i] = delivered'[j]
        PROVE  i = j
    <3>1. CASE i \in DOMAIN delivered /\ j \in DOMAIN delivered
      BY <2>1, <2>3, <2>5, <3>1 DEF Once
    <3>2. CASE i \in DOMAIN delivered /\ j \notin DOMAIN delivered
      <4>1. Holds(es, delivered'[j]) /\ delivered'[j].kind = kind BY <2>4, <3>2
      <4>2. Holds(delivered, delivered'[i]) BY <2>1, <3>2 DEF Holds
      <4> QED BY <2>3, <2>5, <4>1, <4>2 DEF Settled
    <3>3. CASE i \notin DOMAIN delivered /\ j \in DOMAIN delivered
      <4>1. Holds(es, delivered'[i]) /\ delivered'[i].kind = kind BY <2>4, <3>3
      <4>2. Holds(delivered, delivered'[j]) BY <2>1, <3>3 DEF Holds
      <4> QED BY <2>3, <2>5, <4>1, <4>2 DEF Settled
    <3>4. CASE i \notin DOMAIN delivered /\ j \notin DOMAIN delivered
      <4>1. /\ at[i] \in DOMAIN es /\ delivered'[i] = es[at[i]]
            /\ at[j] \in DOMAIN es /\ delivered'[j] = es[at[j]]
        BY <2>2, <3>4
      <4>2. at[i] = at[j] BY <2>3, <2>5, <4>1 DEF Once
      <4>3. ~(i < j) /\ ~(j < i) BY <2>2, <3>4, <4>2
      <4> QED BY <2>3, <4>3
    <3> QED BY <3>1, <3>2, <3>3, <3>4
  <2>6. ASSUME NEW e \in Events
        PROVE  Holds(delivered', e) <=> Holds(delivered, e) \/ (Holds(es, e) /\ e.kind = kind)
    <3>1. Holds(delivered, e) => Holds(delivered', e) BY <2>1 DEF Holds
    <3>2. Holds(es, e) /\ e.kind = kind => Holds(delivered', e) BY <2>2 DEF Holds
    <3>3. Holds(delivered', e) => Holds(delivered, e) \/ (Holds(es, e) /\ e.kind = kind)
      BY <2>4 DEF Holds
    <3> QED BY <3>1, <3>2, <3>3
  <2>7. ASSUME SortedByKind(delivered), Sorted(es),
               \A i \in DOMAIN delivered : \A e \in Events :
                  Holds(es, e) /\ e.kind = kind /\ delivered[i].kind = e.kind
                    => Before(delivered[i], e)
        PROVE  SortedByKind(delivered)'
    <3>1. ASSUME NEW i \in DOMAIN delivered', NEW j \in DOMAIN delivered', i < j,
                 delivered'[i].kind = delivered'[j].kind
          PROVE  Before(delivered'[i], delivered'[j])
      <4>1. CASE i \in DOMAIN delivered /\ j \in DOMAIN delivered
        BY <2>1, <2>7, <3>1, <4>1 DEF SortedByKind
      <4>2. CASE i \in DOMAIN delivered /\ j \notin DOMAIN delivered
        <5>1. Holds(es, delivered'[j]) /\ delivered'[j].kind = kind BY <2>4, <4>2
        <5> QED BY <2>1, <2>3, <2>7, <3>1, <4>2, <5>1
      <4>3. CASE i \notin DOMAIN delivered /\ j \in DOMAIN delivered
        <5>1. j < i BY <2>2, <4>3
        <5> QED BY <2>3, <3>1, <5>1
      <4>4. CASE i \notin DOMAIN delivered /\ j \notin DOMAIN delivered
        <5>1. /\ at[i] \in DOMAIN es /\ delivered'[i] = es[at[i]]
              /\ at[j] \in DOMAIN es /\ delivered'[j] = es[at[j]]
          BY <2>2, <4>4
        <5>2. at[i] < at[j] BY <2>2, <3>1, <4>4
        <5>3. {es[at[i]], es[at[j]]} \subseteq Events BY <2>3, <5>1
        <5> QED BY <2>7, <5>1, <5>2, <5>3 DEF Sorted
      <4> QED BY <4>1, <4>2, <4>3, <4>4
    <3> QED BY <3>1 DEF SortedByKind, Before
  <2> QED BY <1>1, <2>1, <2>4, <2>5, <2>6, <2>7 DEF Once, Settled
<1>2. CASE failed' = failed \union ToSet(Exported(kind, es)) /\ delivered' = delivered
  <2>1. PICK body \in Seq(Events) : body = Exported(kind, es) BY ExportedKeepsOrder
  <2>2. PICK pos \in [DOMAIN body -> DOMAIN es] :
          /\ \A k \in DOMAIN body : body[k] = es[pos[k]] /\ body[k].kind = kind
          /\ \A i \in DOMAIN es : es[i].kind = kind => \E k \in DOMAIN body : pos[k] = i
    BY <2>1, ExportedKeepsOrder
  <2>3. \A e : e \in ToSet(body) <=> Holds(es, e) /\ e.kind = kind
    BY <2>2 DEF ToSet, Holds
  <2>4. ToSet(body) \subseteq Events BY <2>1 DEF ToSet
  <2>5. SortedByKind(delivered) => SortedByKind(delivered)'
    BY <1>2 DEF SortedByKind, Before
  <2> QED BY <1>2, <2>1, <2>3, <2>4, <2>5 DEF Settled
<1> QED BY <1>1, <1>2 DEF Send

-----------------------------------------------------------------------------
\* The steps of the exporter that move no event.

LEMMA QuietExport ==
  ASSUME ExportInv, ExportTypes',
         UNCHANGED <<queue, batch, leftovers, delivered, failed, accepted>>,
         thread' = "logs" <=> thread = "logs", stopper' = "logs" <=> stopper = "logs",
         thread = "done" => thread' = "done", ~gaveUp' => ~gaveUp
  PROVE  ExportInv'
<1>1. HeldOnce' BY DEF ExportInv, HeldOnce, Once
<1>2. ASSUME NEW e \in Events PROVE OnePlace(e)'
  <2>1. OnePlace(e) BY DEF ExportInv
  <2> QED BY <2>1 DEF OnePlace, Batched, Taken, Settled, Requested, Holds, Posted
<1>3. ASSUME InOrder PROVE InOrder'
  <2>1. Sorted(queue)' /\ Sorted(batch)' /\ Sorted(leftovers)' /\ SortedByKind(delivered)'
    BY <1>3 DEF InOrder, Sorted, SortedByKind, Before
  <2>2. Ahead(batch, queue)' /\ Ahead(leftovers, queue)'
    BY <1>3 DEF InOrder, Ahead, Before
  <2>3. \A e \in Events : ToCome(e)' => ToCome(e)
    BY DEF ToCome, Batched, Taken, Requested, Holds
  <2>4. \A d, e : Before(d, e)' <=> Before(d, e) BY DEF Before
  <2> QED BY <1>3, <2>1, <2>2, <2>3, <2>4 DEF InOrder
<1> QED BY <1>1, <1>2, <1>3 DEF ExportInv

LEMMA StartInv == ASSUME ExportInv, Start PROVE ExportInv'
<1>1. ExportTypes'
  BY DEF ExportInv, ExportTypes, TypeOK, Start, stopperVars, collectorVars, agentVars
<1> QED BY <1>1, QuietExport DEF Start, stopperVars, collectorVars, agentVars

LEMMA TestStopInv == ASSUME ExportInv, TestStop PROVE ExportInv'
<1>1. ExportTypes'
  BY DEF ExportInv, ExportTypes, TypeOK, TestStop, stopperVars, collectorVars, agentVars
<1> QED BY <1>1, QuietExport DEF TestStop, stopperVars, collectorVars, agentVars

LEMMA GetNothingInv == ASSUME ExportInv, GetNothing PROVE ExportInv'
<1>1. ExportTypes'
  BY DEF ExportInv, ExportTypes, TypeOK, GetNothing, stopperVars, collectorVars, agentVars
<1> QED BY <1>1, QuietExport DEF GetNothing, stopperVars, collectorVars, agentVars

LEMMA StopRequestedInv == ASSUME ExportInv, StopRequested PROVE ExportInv'
<1>1. owed' \subseteq Events
  BY DEF ExportInv, ExportTypes, StopRequested, ToSet
<1>2. ExportTypes'
  BY <1>1 DEF ExportInv, ExportTypes, TypeOK, StopRequested, threadVars, collectorVars,
              agentVars
<1> QED BY <1>2, QuietExport DEF StopRequested, threadVars, collectorVars, agentVars

LEMMA JoinInv == ASSUME ExportInv, Join PROVE ExportInv'
<1>1. ExportTypes'
  <2>1. gaveUp' \in BOOLEAN BY DEF Join
  <2> QED BY <2>1 DEF ExportInv, ExportTypes, TypeOK, Join, threadVars, collectorVars,
                      agentVars
<1>2. ~gaveUp BY DEF ExportInv, ExportTypes, Join
<1> QED BY <1>1, <1>2, QuietExport DEF Join, threadVars, collectorVars, agentVars

LEMMA TakenAllInv == ASSUME ExportInv, TakenAll PROVE ExportInv'
<1>1. ExportTypes'
  BY DEF ExportInv, ExportTypes, TypeOK, TakenAll, threadVars, collectorVars, agentVars
<1> QED BY <1>1, QuietExport DEF TakenAll, threadVars, collectorVars, agentVars

LEMMA ExportStutter == ASSUME ExportInv, UNCHANGED vars PROVE ExportInv'
<1>1. ExportTypes'
  BY DEF ExportInv, ExportTypes, TypeOK, vars, threadVars, stopperVars, collectorVars,
         agentVars
<1> QED BY <1>1, QuietExport DEF vars, threadVars, stopperVars, collectorVars, agentVars

-----------------------------------------------------------------------------
\* An event comes in, and is taken.

\* What has been accepted keeps its order, and a new row comes last.
LEMMA AcceptedGrows ==
  ASSUME NEW e \in Events, accepted \in Seq(Events), accepted' = Append(accepted, e)
  PROVE  /\ \A d, x : Before(d, x) => Before(d, x)'
         /\ \A d \in Events : Holds(accepted, d) => Before(d, e)'
<1>1. PICK more \in Seq(Events) : more = Append(accepted, e) BY AppendHolds
<1>2. /\ Len(more) = Len(accepted) + 1 /\ more[Len(more)] = e /\ Len(accepted) \in Nat
      /\ \A i \in DOMAIN accepted : more[i] = accepted[i]
      /\ DOMAIN more = 1..Len(more) /\ DOMAIN accepted = 1..Len(accepted)
  BY <1>1
<1>3. accepted' = more BY <1>1
<1>4. ASSUME NEW d, NEW x, Before(d, x) PROVE Before(d, x)'
  <2>1. PICK i \in DOMAIN accepted, j \in DOMAIN accepted :
          i < j /\ accepted[i] = d /\ accepted[j] = x
    BY <1>4 DEF Before
  <2>2. i \in DOMAIN more /\ j \in DOMAIN more /\ more[i] = d /\ more[j] = x
    BY <1>2, <2>1
  <2> QED BY <1>3, <2>1, <2>2 DEF Before
<1>5. ASSUME NEW d \in Events, Holds(accepted, d) PROVE Before(d, e)'
  <2>1. PICK i \in DOMAIN accepted : accepted[i] = d BY <1>5 DEF Holds
  <2>2. /\ i \in DOMAIN more /\ Len(more) \in DOMAIN more /\ i < Len(more)
        /\ more[i] = d
    BY <1>2, <2>1
  <2> QED BY <1>2, <1>3, <2>2 DEF Before
<1> QED BY <1>4, <1>5

LEMMA EnqueueInv == ASSUME ExportInv, NEW e \in Events, Enqueue(e) PROVE ExportInv'
<1>1. /\ UNCHANGED <<thread, batch, last, stop, stopper, leftovers, owed, gaveUp,
                     delivered, failed>>
      /\ e \notin ToSet(accepted)
  BY DEF Enqueue, threadVars, stopperVars, collectorVars
<1>2. CASE Len(queue) < Capacity /\ queue' = Append(queue, e)
           /\ accepted' = Append(accepted, e) /\ dropped' = dropped
  <2>1. /\ queue \in Seq(Events \union {Sentinel}) /\ accepted \in Seq(Events)
        /\ batch \in Seq(Events) /\ leftovers \in Seq(Events) /\ delivered \in Seq(Events)
        /\ e \in Events \union {Sentinel}
    BY DEF ExportInv, ExportTypes, TypeOK
  <2>2. /\ queue' \in Seq(Events \union {Sentinel}) /\ Len(queue') = Len(queue) + 1
        /\ \A x : Holds(queue', x) <=> Holds(queue, x) \/ x = e
        /\ accepted' \in Seq(Events)
        /\ \A x : Holds(accepted', x) <=> Holds(accepted, x) \/ x = e
    <3> DEFINE Items == Events \union {Sentinel}
    <3>1. queue \in Seq(Items) /\ e \in Items BY <2>1
    <3> HIDE DEF Items
    <3>2. \A x : Holds(queue', x) <=> Holds(queue, x) \/ x = e
      BY <1>2, <3>1, AppendHolds
    <3>3. \A x : Holds(accepted', x) <=> Holds(accepted, x) \/ x = e
      BY <1>2, <2>1, AppendHolds
    <3>4. queue' \in Seq(Events \union {Sentinel}) /\ Len(queue') = Len(queue) + 1
      BY <1>2, <2>1, AppendHolds
    <3>5. accepted' \in Seq(Events) BY <1>2, <2>1, AppendHolds
    <3> QED BY <3>2, <3>3, <3>4, <3>5
  <2>3. ~Holds(accepted, e) BY <1>1 DEF Holds, ToSet
  <2>4. OnePlace(e) /\ ~Holds(queue, e) /\ ~Holds(batch, e) /\ ~Holds(leftovers, e) /\ ~Settled(e)
    BY <2>3 DEF ExportInv, OnePlace
  <2>5. ExportTypes'
    <3>1. Len(queue') <= Capacity
      <4>1. Len(queue) \in Nat BY <2>1
      <4> QED BY <1>2, <2>2, <4>1, SizesAssumption
    <3> QED BY <1>1, <1>2, <2>2, <3>1 DEF ExportInv, ExportTypes, TypeOK
  <2>6. HeldOnce'
    <3>1. Once(queue') BY <1>2, <2>1, <2>4, OnceAppended DEF ExportInv, HeldOnce
    <3> QED BY <1>1, <3>1 DEF ExportInv, HeldOnce
  <2>7. ASSUME NEW x \in Events PROVE OnePlace(x)'
    <3>1. OnePlace(x) BY DEF ExportInv
    <3>2. /\ Batched(x)' <=> Batched(x)
          /\ Taken(x)' <=> Taken(x)
          /\ Settled(x)' <=> Settled(x)
      BY <1>1 DEF Batched, Taken, Settled, Requested
    <3>3. CASE x = e BY <1>1, <2>2, <2>4, <3>2, <3>3 DEF OnePlace, Batched, Taken, Settled
    <3>4. CASE x # e BY <1>1, <2>2, <3>1, <3>2, <3>4 DEF OnePlace
    <3> QED BY <3>3, <3>4
  <2>8. ASSUME ~gaveUp' PROVE InOrder'
    <3>1. InOrder BY <1>1, <2>8 DEF ExportInv
    <3>2. \A d, x : Before(d, x) => Before(d, x)' BY <1>2, <2>1, AcceptedGrows
    <3>3. \A d \in Events : Holds(accepted, d) => Before(d, e)'
      BY <1>2, <2>1, AcceptedGrows
    <3>4. /\ \A d \in Events : Holds(queue, d) => Before(d, e)'
          /\ \A d \in Events : Holds(batch, d) => Before(d, e)'
          /\ \A d \in Events : Holds(leftovers, d) => Before(d, e)'
          /\ \A d \in Events : Holds(delivered, d) => Before(d, e)'
      BY <3>3 DEF ExportInv, OnePlace, Settled
    <3>5. Sorted(batch)' /\ Sorted(leftovers)' /\ SortedByKind(delivered)'
      BY <1>1, <3>1, <3>2 DEF InOrder, Sorted, SortedByKind
    <3> PICK q \in Seq(Events \union {Sentinel}) : q = queue' BY <2>2
    <3>6. \A i \in DOMAIN q :
            (i \in DOMAIN queue /\ q[i] = queue[i]) \/ (i = Len(queue) + 1 /\ q[i] = e)
      BY <1>2, <2>1, AppendHolds
    <3>7. Sorted(queue)'
      <4>1. ASSUME NEW i \in DOMAIN q, NEW j \in DOMAIN q, i < j,
                   {q[i], q[j]} \subseteq Events
            PROVE  Before(q[i], q[j])'
        <5>1. DOMAIN queue = 1..Len(queue) /\ DOMAIN q = 1..(Len(queue) + 1)
              /\ Len(queue) \in Nat
          BY <2>1, <2>2
        <5>2. i \in DOMAIN queue /\ q[i] = queue[i] BY <3>6, <4>1, <5>1
        <5>3. CASE j \in DOMAIN queue /\ q[j] = queue[j]
          BY <3>1, <3>2, <4>1, <5>2, <5>3 DEF InOrder, Sorted
        <5>4. CASE q[j] = e
          <6>1. Holds(queue, q[i]) BY <5>2 DEF Holds
          <6> QED BY <3>4, <4>1, <5>4, <6>1
        <5> QED BY <3>6, <5>3, <5>4
      <4> QED BY <4>1 DEF Sorted
    <3>8. \A i \in DOMAIN batch : batch[i] \in Events /\ Holds(batch, batch[i])
      BY <2>1 DEF Holds
    <3>9. \A i \in DOMAIN leftovers : leftovers[i] \in Events /\ Holds(leftovers, leftovers[i])
      BY <2>1 DEF Holds
    <3>10. \A i \in DOMAIN delivered : delivered[i] \in Events /\ Holds(delivered, delivered[i])
      BY <2>1 DEF Holds
    <3>11. Ahead(batch, queue)'
      <4>1. ASSUME NEW i \in DOMAIN batch, NEW j \in DOMAIN q, q[j] \in Events
            PROVE  Before(batch[i], q[j])'
        BY <1>1, <3>1, <3>2, <3>4, <3>6, <3>8, <4>1 DEF InOrder, Ahead
      <4> QED BY <1>1, <4>1 DEF Ahead
    <3>12. Ahead(leftovers, queue)'
      <4>1. ASSUME NEW i \in DOMAIN leftovers, NEW j \in DOMAIN q, q[j] \in Events
            PROVE  Before(leftovers[i], q[j])'
        BY <1>1, <3>1, <3>2, <3>4, <3>6, <3>9, <4>1 DEF InOrder, Ahead
      <4> QED BY <1>1, <4>1 DEF Ahead
    <3>13. \A x \in Events : ToCome(x)' => ToCome(x) \/ x = e
      BY <1>1, <2>2 DEF ToCome, Batched, Taken, Requested
    <3>14. ASSUME NEW i \in DOMAIN delivered, NEW x \in Events, ToCome(x)',
                  delivered[i].kind = x.kind
           PROVE  Before(delivered[i], x)'
      BY <1>1, <3>1, <3>2, <3>4, <3>10, <3>13, <3>14 DEF InOrder
    <3> QED BY <1>1, <3>5, <3>7, <3>11, <3>12, <3>14 DEF InOrder
  <2> QED BY <2>5, <2>6, <2>7, <2>8 DEF ExportInv
<1>3. CASE dropped' = dropped \union {e} /\ queue' = queue /\ accepted' = accepted
  <2>1. ExportTypes' BY <1>1, <1>3 DEF ExportInv, ExportTypes, TypeOK
  <2> QED BY <1>1, <1>3, <2>1, QuietExport
<1> QED BY <1>2, <1>3 DEF Enqueue

Items == Events \union {Sentinel}

LEMMA QueueTypes ==
  ASSUME ExportInv
  PROVE  /\ queue \in Seq(Items) /\ Once(queue)
         /\ batch \in Seq(Events) /\ leftovers \in Seq(Events) /\ delivered \in Seq(Events)
         /\ failed \subseteq Events
  BY DEF ExportInv, ExportTypes, TypeOK, HeldOnce, Items

\* What is so of a queue when its head is taken.
LEMMA QueueTail ==
  ASSUME ExportInv, queue # <<>>, NEW item, item = Head(queue)
  PROVE  /\ Tail(queue) \in Seq(Items) /\ item \in Items /\ Holds(queue, item)
         /\ Len(Tail(queue)) <= Capacity
         /\ Once(Tail(queue))
         /\ \A x \in Events : Holds(Tail(queue), x) <=> Holds(queue, x) /\ x # item
         /\ InOrder =>
              /\ Sorted(Tail(queue)) /\ Ahead(batch, Tail(queue))
              /\ Ahead(leftovers, Tail(queue))
              /\ item \in Events =>
                   /\ \A i \in DOMAIN batch : Before(batch[i], item)
                   /\ \A i \in DOMAIN leftovers : Before(leftovers[i], item)
                   /\ \A j \in DOMAIN Tail(queue) :
                        Tail(queue)[j] \in Events => Before(item, Tail(queue)[j])
<1>1. queue \in Seq(Items) /\ Once(queue) BY QueueTypes
<1>2. PICK t \in Seq(Items) : t = Tail(queue) BY <1>1, TailHolds
<1>3. /\ item \in Items /\ Len(t) = Len(queue) - 1 /\ Len(queue) \in Nat \ {0}
      /\ queue[1] = item
      /\ \A i \in DOMAIN t : i + 1 \in DOMAIN queue /\ t[i] = queue[i + 1]
      /\ \A x : Holds(queue, x) <=> Holds(t, x) \/ x = item
  BY <1>1, <1>2, TailHolds
<1>4. Once(t) /\ (item \in Events => ~Holds(t, item)) BY <1>1, <1>2, OnceTail
<1>5. Len(t) <= Capacity
  BY <1>3, SizesAssumption DEF ExportInv, ExportTypes, TypeOK
<1>6. \A x \in Events : Holds(t, x) <=> Holds(queue, x) /\ x # item BY <1>3, <1>4
<1>7. 1 \in DOMAIN queue BY <1>1, <1>3
<1>8. ASSUME InOrder
      PROVE  /\ Sorted(t) /\ Ahead(batch, t) /\ Ahead(leftovers, t)
             /\ item \in Events =>
                  /\ \A i \in DOMAIN batch : Before(batch[i], item)
                  /\ \A i \in DOMAIN leftovers : Before(leftovers[i], item)
                  /\ \A j \in DOMAIN t : t[j] \in Events => Before(item, t[j])
  <2>1. Sorted(queue) /\ Ahead(batch, queue) /\ Ahead(leftovers, queue) BY <1>8 DEF InOrder
  <2>2. /\ Sorted(t)
        /\ \A j \in DOMAIN t : {item, t[j]} \subseteq Events => Before(item, t[j])
    BY <1>1, <1>2, <2>1, SortedTail
  <2>3. Ahead(batch, t) /\ Ahead(leftovers, t) BY <1>3, <2>1 DEF Ahead
  <2>4. item \in Events => /\ \A i \in DOMAIN batch : Before(batch[i], item)
                           /\ \A i \in DOMAIN leftovers : Before(leftovers[i], item)
    BY <1>3, <1>7, <2>1 DEF Ahead
  <2> QED BY <2>2, <2>3, <2>4
<1> QED BY <1>2, <1>3, <1>4, <1>5, <1>6, <1>8

\* The sentinel leaves the queue.
LEMMA SentinelLeaves ==
  ASSUME ExportInv, ExportTypes', queue # <<>>, Head(queue) = Sentinel, queue' = Tail(queue),
         UNCHANGED <<batch, leftovers, delivered, failed, accepted>>,
         thread' = "logs" <=> thread = "logs", stopper' = "logs" <=> stopper = "logs",
         thread = "done" => thread' = "done", ~gaveUp' => ~gaveUp
  PROVE  ExportInv'
<1>1. PICK item : item = Head(queue) /\ item \notin Events BY SentinelAssumption
<1>2. PICK q \in Seq(Items) : q = Tail(queue) BY <1>1, QueueTail
<1>3. /\ Once(q) /\ \A x \in Events : Holds(q, x) <=> Holds(queue, x)
      /\ InOrder => Sorted(q) /\ Ahead(batch, q) /\ Ahead(leftovers, q)
  BY <1>1, <1>2, QueueTail
<1>4. HeldOnce' BY <1>2, <1>3 DEF ExportInv, HeldOnce, Once
<1>5. ASSUME NEW e \in Events PROVE OnePlace(e)'
  <2>1. OnePlace(e) BY DEF ExportInv
  <2>2. /\ Batched(e)' <=> Batched(e)
        /\ Taken(e)' <=> Taken(e)
        /\ Settled(e)' <=> Settled(e)
    BY DEF Batched, Taken, Settled, Requested, Holds
  <2> QED BY <1>2, <1>3, <2>1, <2>2 DEF OnePlace, Holds
<1>6. ASSUME InOrder PROVE InOrder'
  <2>1. \A d, e : Before(d, e)' <=> Before(d, e) BY DEF Before
  <2>2. Sorted(queue)' /\ Ahead(batch, queue)' /\ Ahead(leftovers, queue)'
    BY <1>2, <1>3, <1>6, <2>1 DEF Sorted, Ahead
  <2>3. Sorted(batch)' /\ Sorted(leftovers)' /\ SortedByKind(delivered)'
    BY <1>6, <2>1 DEF InOrder, Sorted, SortedByKind
  <2>4. \A e \in Events : ToCome(e)' => ToCome(e)
    BY <1>2, <1>3 DEF ToCome, Batched, Taken, Requested, Holds
  <2> QED BY <1>6, <2>1, <2>2, <2>3, <2>4 DEF InOrder
<1> QED BY <1>4, <1>5, <1>6 DEF ExportInv

LEMMA GetSentinelInv == ASSUME ExportInv, GetSentinel PROVE ExportInv'
<1>1. ExportTypes'
  <2>1. Tail(queue) \in Seq(Items) /\ Len(Tail(queue)) <= Capacity
    BY QueueTail DEF GetSentinel
  <2> QED BY <2>1 DEF ExportInv, ExportTypes, TypeOK, GetSentinel, stopperVars,
                      collectorVars, agentVars, Items
<1> QED BY <1>1, SentinelLeaves DEF GetSentinel, stopperVars, collectorVars, agentVars

LEMMA WakeInv == ASSUME ExportInv, Wake PROVE ExportInv'
<1>1. /\ stopper = "waking" /\ stopper' = "joining"
      /\ UNCHANGED <<thread, batch, last, stop, leftovers, owed, gaveUp, delivered, failed,
                     dropped, accepted>>
  BY DEF Wake, threadVars, collectorVars, agentVars
<1>2. CASE Len(queue) < Capacity /\ queue' = Append(queue, Sentinel)
  <2>1. queue \in Seq(Items) /\ Once(queue) /\ Sentinel \in Items BY QueueTypes DEF Items
  <2>2. PICK q \in Seq(Items) : q = queue' BY <1>2, <2>1, AppendHolds
  <2>3. /\ Len(q) = Len(queue) + 1 /\ \A x : Holds(q, x) <=> Holds(queue, x) \/ x = Sentinel
        /\ Once(q) /\ Len(queue) \in Nat
    BY <1>2, <2>1, <2>2, AppendHolds, OnceAppended, SentinelAssumption
  <2>4. ExportTypes'
    <3>1. Len(q) <= Capacity BY <1>2, <2>3, SizesAssumption
    <3> QED BY <1>1, <2>2, <3>1 DEF ExportInv, ExportTypes, TypeOK, Items
  <2>5. HeldOnce' BY <1>1, <2>2, <2>3 DEF ExportInv, HeldOnce, Once
  <2>6. \A x \in Events : Holds(q, x) <=> Holds(queue, x) BY <2>3, SentinelAssumption
  <2>7. ASSUME NEW e \in Events PROVE OnePlace(e)'
    <3>1. OnePlace(e) BY DEF ExportInv
    <3>2. /\ Batched(e)' <=> Batched(e)
          /\ Taken(e)' <=> Taken(e)
          /\ Settled(e)' <=> Settled(e)
      BY <1>1 DEF Batched, Taken, Settled, Requested, Holds
    <3> QED BY <1>1, <2>2, <2>6, <3>1, <3>2 DEF OnePlace, Holds
  <2>8. ASSUME InOrder PROVE InOrder'
    <3>1. \A d, e : Before(d, e)' <=> Before(d, e) BY <1>1 DEF Before
    <3>2. \A i \in DOMAIN q : q[i] \in Events => i \in DOMAIN queue /\ q[i] = queue[i]
      BY <1>2, <2>1, <2>2, AppendHolds, SentinelAssumption
    <3>3. Sorted(q) /\ Ahead(batch, q) /\ Ahead(leftovers, q)
      BY <2>8, <3>2 DEF InOrder, Sorted, Ahead
    <3>4. Sorted(queue)' /\ Ahead(batch, queue)' /\ Ahead(leftovers, queue)'
      BY <1>1, <2>2, <3>1, <3>3 DEF Sorted, Ahead
    <3>5. Sorted(batch)' /\ Sorted(leftovers)' /\ SortedByKind(delivered)'
      BY <1>1, <2>8, <3>1 DEF InOrder, Sorted, SortedByKind
    <3>6. \A e \in Events : ToCome(e)' => ToCome(e)
      BY <1>1, <2>2, <2>6 DEF ToCome, Batched, Taken, Requested, Holds
    <3> QED BY <1>1, <2>8, <3>1, <3>4, <3>5, <3>6 DEF InOrder
  <2> QED BY <1>1, <2>4, <2>5, <2>7, <2>8 DEF ExportInv
<1>3. CASE queue' = queue
  <2>1. ExportTypes' BY <1>1, <1>3 DEF ExportInv, ExportTypes, TypeOK
  <2> QED BY <1>1, <1>3, <2>1, QuietExport
<1> QED BY <1>2, <1>3 DEF Wake

LEMMA GetItemInv == ASSUME ExportInv, GetItem PROVE ExportInv'
<1>1. /\ thread = "get" /\ queue # <<>> /\ queue' = Tail(queue)
      /\ batch' = Append(batch, Head(queue)) /\ Head(queue) # Sentinel
      /\ thread' = IF Len(batch) + 1 >= BatchSize THEN "traces" ELSE "top"
      /\ UNCHANGED <<last, stop, stopper, leftovers, owed, gaveUp, delivered, failed,
                     dropped, accepted>>
  BY DEF GetItem, stopperVars, collectorVars, agentVars
<1>2. PICK item \in Events : item = Head(queue) BY <1>1, QueueTail DEF Items
<1>3. PICK q \in Seq(Items) : q = Tail(queue) BY <1>1, <1>2, QueueTail
<1>4. /\ Once(q) /\ Len(q) <= Capacity /\ Holds(queue, item)
      /\ \A x \in Events : Holds(q, x) <=> Holds(queue, x) /\ x # item
      /\ InOrder =>
           /\ Sorted(q) /\ Ahead(batch, q) /\ Ahead(leftovers, q)
           /\ \A i \in DOMAIN batch : Before(batch[i], item)
           /\ \A j \in DOMAIN q : q[j] \in Events => Before(item, q[j])
  BY <1>1, <1>2, <1>3, QueueTail
<1>5. batch \in Seq(Events) /\ Once(batch) BY QueueTypes DEF ExportInv, HeldOnce
<1>6. PICK b \in Seq(Events) : b = batch' BY <1>1, <1>2, <1>5, AppendHolds
<1>7. /\ Len(b) = Len(batch) + 1 /\ \A x : Holds(b, x) <=> Holds(batch, x) \/ x = item
      /\ \A i \in DOMAIN b : (i \in DOMAIN batch /\ b[i] = batch[i]) \/ b[i] = item
  BY <1>1, <1>2, <1>5, <1>6, AppendHolds
<1>8. /\ OnePlace(item) /\ ~Holds(batch, item) /\ ~Holds(leftovers, item) /\ ~Settled(item)
      /\ Holds(accepted, item)
  BY <1>4 DEF ExportInv, OnePlace
<1>9. ExportTypes'
  <2>1. Len(batch) \in Nat BY <1>5
  <2>2. Len(b) <= BatchSize /\ (thread' # "traces" => Len(b) < BatchSize)
    BY <1>1, <1>7, <2>1, SizesAssumption DEF ExportInv, ExportTypes
  <2> QED BY <1>1, <1>3, <1>4, <1>6, <2>2 DEF ExportInv, ExportTypes, TypeOK, Items
<1>10. HeldOnce'
  <2>1. Once(b) BY <1>1, <1>2, <1>5, <1>6, <1>8, OnceAppended
  <2> QED BY <1>1, <1>3, <1>4, <1>6, <2>1 DEF ExportInv, HeldOnce, Once
<1>11. ASSUME NEW e \in Events PROVE OnePlace(e)'
  <2>1. OnePlace(e) BY DEF ExportInv
  <2>2. /\ Batched(e)' <=> Holds(b, e)
        /\ Batched(e) <=> Holds(batch, e)
        /\ Taken(e)' <=> Taken(e)
        /\ Settled(e)' <=> Settled(e)
    BY <1>1, <1>6 DEF Batched, Taken, Settled, Requested, Holds
  <2>3. /\ Holds(queue, e)' <=> Holds(queue, e) /\ e # item
        /\ Holds(batch, e)' <=> Holds(batch, e) \/ e = item
    BY <1>1, <1>3, <1>4, <1>6, <1>7 DEF Holds
  <2>4. /\ Holds(leftovers, e)' <=> Holds(leftovers, e)
        /\ Holds(delivered, e)' <=> Holds(delivered, e)
        /\ Holds(accepted, e)' <=> Holds(accepted, e)
        /\ (e \in failed)' <=> e \in failed
    BY <1>1 DEF Holds
  <2>5. Taken(e) => Holds(leftovers, e) BY DEF Taken
  <2>6. CASE e = item
    BY <1>7, <1>8, <2>1, <2>2, <2>3, <2>4, <2>5, <2>6 DEF OnePlace, Settled
  <2>7. CASE e # item BY <1>7, <2>1, <2>2, <2>3, <2>4, <2>7 DEF OnePlace
  <2> QED BY <2>6, <2>7
<1>12. ASSUME InOrder PROVE InOrder'
  <2>1. \A d, e : Before(d, e)' <=> Before(d, e) BY <1>1 DEF Before
  <2>2. Sorted(queue)' /\ Ahead(leftovers, queue)'
    BY <1>1, <1>3, <1>4, <1>12, <2>1 DEF Sorted, Ahead
  <2>3. Sorted(b)
    <3>1. Sorted(batch) BY <1>12 DEF InOrder
    <3> QED BY <1>1, <1>2, <1>4, <1>5, <1>6, <1>12, <3>1, SortedAppended
  <2>4. Ahead(b, q) BY <1>4, <1>7, <1>12 DEF Ahead
  <2>5. Sorted(batch)' /\ Ahead(batch, queue)'
    BY <1>1, <1>3, <1>6, <2>1, <2>3, <2>4 DEF Sorted, Ahead
  <2>6. Sorted(leftovers)' /\ SortedByKind(delivered)'
    BY <1>1, <1>12, <2>1 DEF InOrder, Sorted, SortedByKind
  <2>7. \A e \in Events : ToCome(e)' => ToCome(e)
    <3> SUFFICES ASSUME NEW e \in Events, ToCome(e)' PROVE ToCome(e) OBVIOUS
    <3>1. Holds(queue, e)' \/ Batched(e)' \/ Taken(e)' BY DEF ToCome
    <3>2. Taken(e)' <=> Taken(e) BY <1>1 DEF Taken, Requested, Holds
    <3>3. Holds(queue, e)' => Holds(queue, e) BY <1>1, <1>3, <1>4 DEF Holds
    <3>4. Batched(e)' => Holds(batch, e) \/ e = item BY <1>6, <1>7 DEF Batched, Holds
    <3>5. Holds(batch, e) => Batched(e) BY <1>1 DEF Batched, Requested
    <3> QED BY <1>1, <1>4, <3>1, <3>2, <3>3, <3>4, <3>5 DEF ToCome
  <2> QED BY <1>1, <1>12, <2>1, <2>2, <2>5, <2>6, <2>7 DEF InOrder
<1> QED BY <1>1, <1>9, <1>10, <1>11, <1>12 DEF ExportInv

LEMMA TakeLeftoverInv == ASSUME ExportInv, TakeLeftover PROVE ExportInv'
<1>1. /\ stopper = "taking" /\ queue # <<>> /\ queue' = Tail(queue)
      /\ leftovers' = IF Head(queue) = Sentinel THEN leftovers
                      ELSE Append(leftovers, Head(queue))
      /\ UNCHANGED <<thread, batch, last, stop, stopper, owed, gaveUp, delivered, failed,
                     dropped, accepted>>
  BY DEF TakeLeftover, threadVars, collectorVars, agentVars
<1>2. CASE Head(queue) = Sentinel
  <2>1. ExportTypes'
    <3>1. Tail(queue) \in Seq(Items) /\ Len(Tail(queue)) <= Capacity BY <1>1, QueueTail
    <3> QED BY <1>1, <1>2, <3>1 DEF ExportInv, ExportTypes, TypeOK, Items
  <2> QED BY <1>1, <1>2, <2>1, SentinelLeaves
<1>3. CASE Head(queue) # Sentinel
  <2>1. PICK item \in Events : item = Head(queue) BY <1>1, <1>3, QueueTail DEF Items
  <2>2. PICK q \in Seq(Items) : q = Tail(queue) BY <1>1, <2>1, QueueTail
  <2>3. /\ Once(q) /\ Len(q) <= Capacity /\ Holds(queue, item)
        /\ \A x \in Events : Holds(q, x) <=> Holds(queue, x) /\ x # item
        /\ InOrder =>
             /\ Sorted(q) /\ Ahead(batch, q) /\ Ahead(leftovers, q)
             /\ \A i \in DOMAIN leftovers : Before(leftovers[i], item)
             /\ \A j \in DOMAIN q : q[j] \in Events => Before(item, q[j])
    BY <1>1, <2>1, <2>2, QueueTail
  <2>4. leftovers \in Seq(Events) /\ Once(leftovers)
    BY QueueTypes DEF ExportInv, HeldOnce
  <2>5. leftovers' = Append(leftovers, item) BY <1>1, <1>3, <2>1
  <2>6. PICK l \in Seq(Events) : l = leftovers' BY <2>4, <2>5, AppendHolds
  <2>7. /\ \A x : Holds(l, x) <=> Holds(leftovers, x) \/ x = item
        /\ \A i \in DOMAIN l : (i \in DOMAIN leftovers /\ l[i] = leftovers[i]) \/ l[i] = item
    BY <2>4, <2>5, <2>6, AppendHolds
  <2>8. /\ OnePlace(item) /\ ~Holds(batch, item) /\ ~Holds(leftovers, item) /\ ~Settled(item)
        /\ Holds(accepted, item)
    BY <2>3 DEF ExportInv, OnePlace
  <2>9. ExportTypes'
    BY <1>1, <2>2, <2>3, <2>6 DEF ExportInv, ExportTypes, TypeOK, Items
  <2>10. HeldOnce'
    <3>1. Once(l) BY <2>4, <2>5, <2>6, <2>8, OnceAppended
    <3> QED BY <1>1, <2>2, <2>3, <2>6, <3>1 DEF ExportInv, HeldOnce, Once
  <2>11. ASSUME NEW e \in Events PROVE OnePlace(e)'
    <3>1. OnePlace(e) BY DEF ExportInv
    <3>2. /\ Taken(e)' <=> Holds(l, e)
          /\ Taken(e) <=> Holds(leftovers, e)
          /\ Batched(e)' <=> Batched(e)
          /\ Settled(e)' <=> Settled(e)
      BY <1>1, <2>6 DEF Batched, Taken, Settled, Requested, Holds
    <3>3. /\ Holds(queue, e)' <=> Holds(queue, e) /\ e # item
          /\ Holds(leftovers, e)' <=> Holds(leftovers, e) \/ e = item
      BY <1>1, <2>2, <2>3, <2>6, <2>7 DEF Holds
    <3>4. /\ Holds(batch, e)' <=> Holds(batch, e)
          /\ Holds(delivered, e)' <=> Holds(delivered, e)
          /\ Holds(accepted, e)' <=> Holds(accepted, e)
          /\ (e \in failed)' <=> e \in failed
      BY <1>1 DEF Holds
    <3>5. Batched(e) => Holds(batch, e) BY DEF Batched
    <3>6. CASE e = item
      BY <2>7, <2>8, <3>1, <3>2, <3>3, <3>4, <3>5, <3>6 DEF OnePlace, Settled
    <3>7. CASE e # item BY <2>7, <3>1, <3>2, <3>3, <3>4, <3>7 DEF OnePlace
    <3> QED BY <3>6, <3>7
  <2>12. ASSUME InOrder PROVE InOrder'
    <3>1. \A d, e : Before(d, e)' <=> Before(d, e) BY <1>1 DEF Before
    <3>2. Sorted(queue)' /\ Ahead(batch, queue)'
      BY <1>1, <2>2, <2>3, <2>12, <3>1 DEF Sorted, Ahead
    <3>3. Sorted(l)
      <4>1. Sorted(leftovers) BY <2>12 DEF InOrder
      <4> QED BY <2>3, <2>4, <2>5, <2>6, <2>12, <4>1, SortedAppended
    <3>4. Ahead(l, q) BY <2>3, <2>7, <2>12 DEF Ahead
    <3>5. Sorted(leftovers)' /\ Ahead(leftovers, queue)'
      BY <1>1, <2>2, <2>6, <3>1, <3>3, <3>4 DEF Sorted, Ahead
    <3>6. Sorted(batch)' /\ SortedByKind(delivered)'
      BY <1>1, <2>12, <3>1 DEF InOrder, Sorted, SortedByKind
    <3>7. \A e \in Events : ToCome(e)' => ToCome(e)
      <4> SUFFICES ASSUME NEW e \in Events, ToCome(e)' PROVE ToCome(e) OBVIOUS
      <4>1. Holds(queue, e)' \/ (Batched(e)' /\ thread # "done") \/ Taken(e)'
        BY <1>1 DEF ToCome
      <4>2. Batched(e)' <=> Batched(e) BY <1>1 DEF Batched, Requested, Holds
      <4>3. Holds(queue, e)' => Holds(queue, e) BY <1>1, <2>2, <2>3 DEF Holds
      <4>4. Taken(e)' => Holds(leftovers, e) \/ e = item BY <2>6, <2>7 DEF Taken, Holds
      <4>5. Holds(leftovers, e) => Taken(e) BY <1>1 DEF Taken, Requested
      <4> QED BY <1>1, <2>3, <4>1, <4>2, <4>3, <4>4, <4>5 DEF ToCome
    <3> QED BY <1>1, <2>12, <3>1, <3>2, <3>5, <3>6, <3>7 DEF InOrder
  <2> QED BY <1>1, <2>9, <2>10, <2>11, <2>12 DEF ExportInv
<1> QED BY <1>2, <1>3

LEMMA FlushTracesInv == ASSUME ExportInv, FlushTraces PROVE ExportInv'
<1>1. /\ thread = "traces" /\ Send("llm_call", batch) /\ thread' = "logs"
      /\ UNCHANGED <<queue, batch, last, stop, stopper, leftovers, owed, gaveUp, dropped,
                     accepted>>
  BY DEF FlushTraces, stopperVars, agentVars
<1>2. /\ batch \in Seq(Events) /\ Once(batch) /\ delivered \in Seq(Events)
      /\ failed \subseteq Events /\ Once(delivered)
  BY QueueTypes DEF ExportInv, HeldOnce
<1>3. \A e \in Events :
        /\ Holds(batch, e) <=> Batched(e)
        /\ Holds(batch, e) /\ e.kind = "llm_call" => ~Settled(e)
        /\ ~(Holds(delivered, e) /\ e \in failed)
  <2>1. ASSUME NEW e \in Events PROVE OnePlace(e) BY DEF ExportInv
  <2> QED BY <1>1, <2>1 DEF OnePlace, Batched, Requested
<1>4. /\ delivered' \in Seq(Events) /\ failed' \subseteq Events /\ Once(delivered')
      /\ \A e \in Events : Settled(e)' <=> Settled(e) \/ (Holds(batch, e) /\ e.kind = "llm_call")
      /\ \A e \in Events : ~(Holds(delivered', e) /\ e \in failed')
  BY <1>1, <1>2, <1>3, SendKeeps
<1>5. ExportTypes' BY <1>1, <1>4 DEF ExportInv, ExportTypes, TypeOK
<1>6. HeldOnce' BY <1>1, <1>4 DEF ExportInv, HeldOnce, Once
<1>7. ASSUME NEW e \in Events PROVE OnePlace(e)'
  <2>1. OnePlace(e) BY DEF ExportInv
  <2>2. /\ Batched(e)' <=> Holds(batch, e) /\ e.kind # "llm_call"
        /\ Taken(e)' <=> Taken(e)
        /\ Taken(e) => Holds(leftovers, e)
    BY <1>1 DEF Batched, Taken, Requested, Holds
  <2>3. /\ Holds(queue, e)' <=> Holds(queue, e)
        /\ Holds(batch, e)' <=> Holds(batch, e)
        /\ Holds(leftovers, e)' <=> Holds(leftovers, e)
        /\ Holds(accepted, e)' <=> Holds(accepted, e)
        /\ Holds(delivered, e)' <=> Holds(delivered', e)
    BY <1>1 DEF Holds
  <2> QED BY <1>3, <1>4, <2>1, <2>2, <2>3 DEF OnePlace
<1>8. ASSUME ~gaveUp' PROVE InOrder'
  <2>1. InOrder /\ ~gaveUp BY <1>1, <1>8 DEF ExportInv
  <2>2. \A d, e : Before(d, e)' <=> Before(d, e) BY <1>1 DEF Before
  <2>3. \A e : ~Taken(e)
    BY <1>1, <2>1 DEF ExportInv, ExportTypes, TypeOK, Taken, Holds
  <2>4. \A i \in DOMAIN delivered : \A e \in Events :
          Holds(batch, e) /\ e.kind = "llm_call" /\ delivered[i].kind = e.kind
            => Before(delivered[i], e)
    BY <1>1, <1>3, <2>1 DEF InOrder, ToCome
  <2>5. SortedByKind(delivered)'
    <3>1. SortedByKind(delivered) /\ Sorted(batch) BY <2>1 DEF InOrder
    <3> QED BY <1>1, <1>2, <1>3, <2>4, <3>1, SendKeeps
  <2>6. \A i \in DOMAIN delivered' :
          \/ i \in DOMAIN delivered /\ delivered'[i] = delivered[i]
          \/ Holds(batch, delivered'[i]) /\ delivered'[i].kind = "llm_call"
    BY <1>1, <1>2, <1>3, SendKeeps
  <2>7. \A e \in Events : ToCome(e)' =>
          ToCome(e) /\ (Holds(queue, e) \/ e.kind # "llm_call")
    BY <1>1, <1>3, <2>3 DEF ToCome, Batched, Taken, Requested, Holds
  <2> PICK d \in Seq(Events) : d = delivered' BY <1>4
  <2>8. ASSUME NEW i \in DOMAIN d, NEW e \in Events, ToCome(e)', d[i].kind = e.kind
        PROVE  Before(d[i], e)
    <3>1. CASE i \in DOMAIN delivered /\ d[i] = delivered[i]
      BY <2>1, <2>7, <2>8, <3>1 DEF InOrder
    <3>2. CASE Holds(batch, d[i]) /\ d[i].kind = "llm_call"
      <4>1. Holds(queue, e) BY <2>7, <2>8, <3>2
      <4>2. Ahead(batch, queue) BY <2>1 DEF InOrder
      <4> QED BY <3>2, <4>1, <4>2 DEF Ahead, Holds
    <3> QED BY <2>6, <3>1, <3>2
  <2>9. Sorted(queue)' /\ Sorted(batch)' /\ Sorted(leftovers)'
    BY <1>1, <2>1, <2>2 DEF InOrder, Sorted
  <2>10. Ahead(batch, queue)' /\ Ahead(leftovers, queue)'
    BY <1>1, <2>1, <2>2 DEF InOrder, Ahead
  <2> QED BY <2>2, <2>5, <2>8, <2>9, <2>10 DEF InOrder
<1> QED BY <1>5, <1>6, <1>7, <1>8 DEF ExportInv

LEMMA FlushLogsInv == ASSUME ExportInv, FlushLogs PROVE ExportInv'
<1>1. /\ thread = "logs" /\ Send("outcome", batch) /\ batch' = <<>>
      /\ thread' \in {"done", "top"}
      /\ UNCHANGED <<queue, last, stop, stopper, leftovers, owed, gaveUp, dropped,
                     accepted>>
  BY DEF FlushLogs, stopperVars, agentVars
<1>2. /\ batch \in Seq(Events) /\ Once(batch) /\ delivered \in Seq(Events)
      /\ failed \subseteq Events /\ Once(delivered)
  BY QueueTypes DEF ExportInv, HeldOnce
<1>3. \A e \in Events :
        /\ Holds(batch, e) /\ e.kind # "llm_call" <=> Batched(e)
        /\ Holds(batch, e) /\ e.kind = "outcome" => ~Settled(e)
        /\ ~(Holds(delivered, e) /\ e \in failed)
  <2>1. ASSUME NEW e \in Events PROVE OnePlace(e) BY DEF ExportInv
  <2> QED BY <1>1, <2>1 DEF OnePlace, Batched, Requested
<1>4. /\ delivered' \in Seq(Events) /\ failed' \subseteq Events /\ Once(delivered')
      /\ \A e \in Events : Settled(e)' <=> Settled(e) \/ (Holds(batch, e) /\ e.kind = "outcome")
      /\ \A e \in Events : ~(Holds(delivered', e) /\ e \in failed')
  BY <1>1, <1>2, <1>3, SendKeeps
<1>5. ExportTypes'
  <2>1. <<>> \in Seq(Events) /\ Len(<<>>) = 0 OBVIOUS
  <2> QED BY <1>1, <1>4, <2>1, SizesAssumption DEF ExportInv, ExportTypes, TypeOK
<1>6. HeldOnce'
  <2>1. Once(<<>>) BY DEF Once
  <2> QED BY <1>1, <1>4, <2>1 DEF ExportInv, HeldOnce, Once
<1>7. ASSUME NEW e \in Events PROVE OnePlace(e)'
  <2>1. OnePlace(e) BY DEF ExportInv
  <2>2. /\ ~Batched(e)'
        /\ Taken(e)' <=> Taken(e)
        /\ Taken(e) => Holds(leftovers, e)
    BY <1>1 DEF Batched, Taken, Requested, Holds
  <2>3. /\ Holds(queue, e)' <=> Holds(queue, e)
        /\ ~Holds(batch, e)'
        /\ Holds(leftovers, e)' <=> Holds(leftovers, e)
        /\ Holds(accepted, e)' <=> Holds(accepted, e)
        /\ Holds(delivered, e)' <=> Holds(delivered', e)
    BY <1>1 DEF Holds
  <2> QED BY <1>3, <1>4, <2>1, <2>2, <2>3 DEF OnePlace, Posted
<1>8. ASSUME ~gaveUp' PROVE InOrder'
  <2>1. InOrder /\ ~gaveUp BY <1>1, <1>8 DEF ExportInv
  <2>2. \A d, e : Before(d, e)' <=> Before(d, e) BY <1>1 DEF Before
  <2>3. \A e : ~Taken(e)
    BY <1>1, <2>1 DEF ExportInv, ExportTypes, TypeOK, Taken, Holds
  <2>4. \A i \in DOMAIN delivered : \A e \in Events :
          Holds(batch, e) /\ e.kind = "outcome" /\ delivered[i].kind = e.kind
            => Before(delivered[i], e)
    BY <1>1, <1>3, <2>1 DEF InOrder, ToCome
  <2>5. SortedByKind(delivered)'
    <3>1. SortedByKind(delivered) /\ Sorted(batch) BY <2>1 DEF InOrder
    <3> QED BY <1>1, <1>2, <1>3, <2>4, <3>1, SendKeeps
  <2>6. \A i \in DOMAIN delivered' :
          \/ i \in DOMAIN delivered /\ delivered'[i] = delivered[i]
          \/ Holds(batch, delivered'[i]) /\ delivered'[i].kind = "outcome"
    BY <1>1, <1>2, <1>3, SendKeeps
  <2>7. \A e \in Events : ToCome(e)' =>
          ToCome(e) /\ (Holds(queue, e) \/ e.kind # "outcome")
    BY <1>1, <1>3, <2>3 DEF ToCome, Batched, Taken, Requested, Holds
  <2> PICK d \in Seq(Events) : d = delivered' BY <1>4
  <2>8. ASSUME NEW i \in DOMAIN d, NEW e \in Events, ToCome(e)', d[i].kind = e.kind
        PROVE  Before(d[i], e)
    <3>1. CASE i \in DOMAIN delivered /\ d[i] = delivered[i]
      BY <2>1, <2>7, <2>8, <3>1 DEF InOrder
    <3>2. CASE Holds(batch, d[i]) /\ d[i].kind = "outcome"
      <4>1. Holds(queue, e) BY <2>7, <2>8, <3>2
      <4>2. Ahead(batch, queue) BY <2>1 DEF InOrder
      <4> QED BY <3>2, <4>1, <4>2 DEF Ahead, Holds
    <3> QED BY <2>6, <3>1, <3>2
  <2>9. Sorted(queue)' /\ Sorted(batch)' /\ Sorted(leftovers)'
    BY <1>1, <2>1, <2>2 DEF InOrder, Sorted
  <2>10. Ahead(batch, queue)' /\ Ahead(leftovers, queue)'
    BY <1>1, <2>1, <2>2 DEF InOrder, Ahead
  <2> QED BY <2>2, <2>5, <2>8, <2>9, <2>10 DEF InOrder
<1> QED BY <1>5, <1>6, <1>7, <1>8 DEF ExportInv

LEMMA LeftoverTracesInv == ASSUME ExportInv, LeftoverTraces PROVE ExportInv'
<1>1. /\ stopper = "traces" /\ Send("llm_call", leftovers) /\ stopper' = "logs"
      /\ UNCHANGED <<queue, leftovers, last, stop, thread, batch, owed, gaveUp, dropped,
                     accepted>>
  BY DEF LeftoverTraces, threadVars, agentVars
<1>2. /\ leftovers \in Seq(Events) /\ Once(leftovers) /\ delivered \in Seq(Events)
      /\ failed \subseteq Events /\ Once(delivered)
  BY QueueTypes DEF ExportInv, HeldOnce
<1>3. \A e \in Events :
        /\ Holds(leftovers, e) <=> Taken(e)
        /\ Holds(leftovers, e) /\ e.kind = "llm_call" => ~Settled(e)
        /\ ~(Holds(delivered, e) /\ e \in failed)
  <2>1. ASSUME NEW e \in Events PROVE OnePlace(e) BY DEF ExportInv
  <2> QED BY <1>1, <2>1 DEF OnePlace, Taken, Requested
<1>4. /\ delivered' \in Seq(Events) /\ failed' \subseteq Events /\ Once(delivered')
      /\ \A e \in Events :
           Settled(e)' <=> Settled(e) \/ (Holds(leftovers, e) /\ e.kind = "llm_call")
      /\ \A e \in Events : ~(Holds(delivered', e) /\ e \in failed')
  BY <1>1, <1>2, <1>3, SendKeeps
<1>5. ExportTypes' BY <1>1, <1>4 DEF ExportInv, ExportTypes, TypeOK
<1>6. HeldOnce' BY <1>1, <1>4 DEF ExportInv, HeldOnce, Once
<1>7. ASSUME NEW e \in Events PROVE OnePlace(e)'
  <2>1. OnePlace(e) BY DEF ExportInv
  <2>2. /\ Taken(e)' <=> Holds(leftovers, e) /\ e.kind # "llm_call"
        /\ Batched(e)' <=> Batched(e)
        /\ Batched(e) => Holds(batch, e)
    BY <1>1 DEF Taken, Batched, Requested, Holds
  <2>3. /\ Holds(queue, e)' <=> Holds(queue, e)
        /\ Holds(leftovers, e)' <=> Holds(leftovers, e)
        /\ Holds(batch, e)' <=> Holds(batch, e)
        /\ Holds(accepted, e)' <=> Holds(accepted, e)
        /\ Holds(delivered, e)' <=> Holds(delivered', e)
    BY <1>1 DEF Holds
  <2> QED BY <1>3, <1>4, <2>1, <2>2, <2>3 DEF OnePlace
<1>8. ASSUME ~gaveUp' PROVE InOrder'
  <2>1. InOrder /\ ~gaveUp BY <1>1, <1>8 DEF ExportInv
  <2>2. \A d, e : Before(d, e)' <=> Before(d, e) BY <1>1 DEF Before
  <2>3. thread = "done" /\ thread' = "done"
    BY <1>1, <2>1 DEF ExportInv, ExportTypes
  <2>4. \A i \in DOMAIN delivered : \A e \in Events :
          Holds(leftovers, e) /\ e.kind = "llm_call" /\ delivered[i].kind = e.kind
            => Before(delivered[i], e)
    BY <1>1, <1>3, <2>1 DEF InOrder, ToCome
  <2>5. SortedByKind(delivered)'
    <3>1. SortedByKind(delivered) /\ Sorted(leftovers) BY <2>1 DEF InOrder
    <3> QED BY <1>1, <1>2, <1>3, <2>4, <3>1, SendKeeps
  <2>6. \A i \in DOMAIN delivered' :
          \/ i \in DOMAIN delivered /\ delivered'[i] = delivered[i]
          \/ Holds(leftovers, delivered'[i]) /\ delivered'[i].kind = "llm_call"
    BY <1>1, <1>2, <1>3, SendKeeps
  <2>7. \A e \in Events : ToCome(e)' =>
          ToCome(e) /\ (Holds(queue, e) \/ e.kind # "llm_call")
    BY <1>1, <1>3, <2>3 DEF ToCome, Taken, Batched, Requested, Holds
  <2> PICK d \in Seq(Events) : d = delivered' BY <1>4
  <2>8. ASSUME NEW i \in DOMAIN d, NEW e \in Events, ToCome(e)', d[i].kind = e.kind
        PROVE  Before(d[i], e)
    <3>1. CASE i \in DOMAIN delivered /\ d[i] = delivered[i]
      BY <2>1, <2>7, <2>8, <3>1 DEF InOrder
    <3>2. CASE Holds(leftovers, d[i]) /\ d[i].kind = "llm_call"
      <4>1. Holds(queue, e) BY <2>7, <2>8, <3>2
      <4>2. Ahead(leftovers, queue) BY <2>1 DEF InOrder
      <4> QED BY <3>2, <4>1, <4>2 DEF Ahead, Holds
    <3> QED BY <2>6, <3>1, <3>2
  <2>9. Sorted(queue)' /\ Sorted(leftovers)' /\ Sorted(batch)'
    BY <1>1, <2>1, <2>2 DEF InOrder, Sorted
  <2>10. Ahead(leftovers, queue)' /\ Ahead(batch, queue)'
    BY <1>1, <2>1, <2>2 DEF InOrder, Ahead
  <2> QED BY <2>2, <2>5, <2>8, <2>9, <2>10 DEF InOrder
<1> QED BY <1>5, <1>6, <1>7, <1>8 DEF ExportInv

LEMMA LeftoverLogsInv == ASSUME ExportInv, LeftoverLogs PROVE ExportInv'
<1>1. /\ stopper = "logs" /\ Send("outcome", leftovers) /\ leftovers' = <<>>
      /\ stopper' = "stopped"
      /\ UNCHANGED <<queue, last, stop, thread, batch, owed, gaveUp, dropped,
                     accepted>>
  BY DEF LeftoverLogs, threadVars, agentVars
<1>2. /\ leftovers \in Seq(Events) /\ Once(leftovers) /\ delivered \in Seq(Events)
      /\ failed \subseteq Events /\ Once(delivered)
  BY QueueTypes DEF ExportInv, HeldOnce
<1>3. \A e \in Events :
        /\ Holds(leftovers, e) /\ e.kind # "llm_call" <=> Taken(e)
        /\ Holds(leftovers, e) /\ e.kind = "outcome" => ~Settled(e)
        /\ ~(Holds(delivered, e) /\ e \in failed)
  <2>1. ASSUME NEW e \in Events PROVE OnePlace(e) BY DEF ExportInv
  <2> QED BY <1>1, <2>1 DEF OnePlace, Taken, Requested
<1>4. /\ delivered' \in Seq(Events) /\ failed' \subseteq Events /\ Once(delivered')
      /\ \A e \in Events : Settled(e)' <=> Settled(e) \/ (Holds(leftovers, e) /\ e.kind = "outcome")
      /\ \A e \in Events : ~(Holds(delivered', e) /\ e \in failed')
  BY <1>1, <1>2, <1>3, SendKeeps
<1>5. ExportTypes'
  <2>1. <<>> \in Seq(Events) /\ Len(<<>>) = 0 OBVIOUS
  <2> QED BY <1>1, <1>4, <2>1, SizesAssumption DEF ExportInv, ExportTypes, TypeOK
<1>6. HeldOnce'
  <2>1. Once(<<>>) BY DEF Once
  <2> QED BY <1>1, <1>4, <2>1 DEF ExportInv, HeldOnce, Once
<1>7. ASSUME NEW e \in Events PROVE OnePlace(e)'
  <2>1. OnePlace(e) BY DEF ExportInv
  <2>2. /\ ~Taken(e)'
        /\ Batched(e)' <=> Batched(e)
        /\ Batched(e) => Holds(batch, e)
    BY <1>1 DEF Taken, Batched, Requested, Holds
  <2>3. /\ Holds(queue, e)' <=> Holds(queue, e)
        /\ ~Holds(leftovers, e)'
        /\ Holds(batch, e)' <=> Holds(batch, e)
        /\ Holds(accepted, e)' <=> Holds(accepted, e)
        /\ Holds(delivered, e)' <=> Holds(delivered', e)
    BY <1>1 DEF Holds
  <2> QED BY <1>3, <1>4, <2>1, <2>2, <2>3 DEF OnePlace, Posted
<1>8. ASSUME ~gaveUp' PROVE InOrder'
  <2>1. InOrder /\ ~gaveUp BY <1>1, <1>8 DEF ExportInv
  <2>2. \A d, e : Before(d, e)' <=> Before(d, e) BY <1>1 DEF Before
  <2>3. thread = "done" /\ thread' = "done"
    BY <1>1, <2>1 DEF ExportInv, ExportTypes
  <2>4. \A i \in DOMAIN delivered : \A e \in Events :
          Holds(leftovers, e) /\ e.kind = "outcome" /\ delivered[i].kind = e.kind
            => Before(delivered[i], e)
    BY <1>1, <1>3, <2>1 DEF InOrder, ToCome
  <2>5. SortedByKind(delivered)'
    <3>1. SortedByKind(delivered) /\ Sorted(leftovers) BY <2>1 DEF InOrder
    <3> QED BY <1>1, <1>2, <1>3, <2>4, <3>1, SendKeeps
  <2>6. \A i \in DOMAIN delivered' :
          \/ i \in DOMAIN delivered /\ delivered'[i] = delivered[i]
          \/ Holds(leftovers, delivered'[i]) /\ delivered'[i].kind = "outcome"
    BY <1>1, <1>2, <1>3, SendKeeps
  <2>7. \A e \in Events : ToCome(e)' =>
          ToCome(e) /\ (Holds(queue, e) \/ e.kind # "outcome")
    BY <1>1, <1>3, <2>3 DEF ToCome, Taken, Batched, Requested, Holds
  <2> PICK d \in Seq(Events) : d = delivered' BY <1>4
  <2>8. ASSUME NEW i \in DOMAIN d, NEW e \in Events, ToCome(e)', d[i].kind = e.kind
        PROVE  Before(d[i], e)
    <3>1. CASE i \in DOMAIN delivered /\ d[i] = delivered[i]
      BY <2>1, <2>7, <2>8, <3>1 DEF InOrder
    <3>2. CASE Holds(leftovers, d[i]) /\ d[i].kind = "outcome"
      <4>1. Holds(queue, e) BY <2>7, <2>8, <3>2
      <4>2. Ahead(leftovers, queue) BY <2>1 DEF InOrder
      <4> QED BY <3>2, <4>1, <4>2 DEF Ahead, Holds
    <3> QED BY <2>6, <3>1, <3>2
  <2>9. Sorted(queue)' /\ Sorted(leftovers)' /\ Sorted(batch)'
    BY <1>1, <2>1, <2>2 DEF InOrder, Sorted
  <2>10. Ahead(leftovers, queue)' /\ Ahead(batch, queue)'
    BY <1>1, <2>1, <2>2 DEF InOrder, Ahead
  <2> QED BY <2>2, <2>5, <2>8, <2>9, <2>10 DEF InOrder
<1> QED BY <1>5, <1>6, <1>7, <1>8 DEF ExportInv

-----------------------------------------------------------------------------
\* The behaviours of the exporter.

LEMMA InitExport == ASSUME Init PROVE ExportInv
<1>1. ExportTypes
  <2>1. /\ queue = <<>> /\ batch = <<>> /\ leftovers = <<>> /\ delivered = <<>>
        /\ accepted = <<>> /\ failed = {} /\ dropped = {} /\ owed = {}
        /\ thread = "new" /\ stopper = "none" /\ last = FALSE /\ stop = FALSE
        /\ gaveUp = FALSE
    BY DEF Init
  <2>2. Len(<<>>) <= Capacity /\ Len(<<>>) < BatchSize /\ Len(<<>>) <= BatchSize
    BY SizesAssumption
  <2>3. \A S : <<>> \in Seq(S) OBVIOUS
  <2>4. TypeOK BY <2>1, <2>2, <2>3 DEF TypeOK
  <2> QED BY <2>1, <2>2, <2>3, <2>4 DEF ExportTypes
<1>2. HeldOnce BY DEF Init, HeldOnce, Once
<1>3. \A e \in Events : OnePlace(e)
  BY DEF Init, OnePlace, Holds, Batched, Taken, Settled, Requested
<1>4. InOrder BY DEF Init, InOrder, Sorted, Ahead, SortedByKind
<1> QED BY <1>1, <1>2, <1>3, <1>4 DEF ExportInv

LEMMA ExportStep == ASSUME ExportInv, [Next]_vars PROVE ExportInv'
<1>1. ASSUME NEW e \in Events, Enqueue(e) PROVE ExportInv' BY <1>1, EnqueueInv
<1>2. CASE Start BY <1>2, StartInv
<1>3. CASE ThreadStep
  <2>1. CASE TestStop BY <2>1, TestStopInv
  <2>2. CASE GetItem BY <2>2, GetItemInv
  <2>3. CASE GetSentinel BY <2>3, GetSentinelInv
  <2>4. CASE GetNothing BY <2>4, GetNothingInv
  <2>5. CASE FlushTraces BY <2>5, FlushTracesInv
  <2>6. CASE FlushLogs BY <2>6, FlushLogsInv
  <2> QED BY <1>3, <2>1, <2>2, <2>3, <2>4, <2>5, <2>6 DEF ThreadStep
<1>4. CASE StopRequested BY <1>4, StopRequestedInv
<1>5. CASE StopperStep
  <2>1. CASE Wake BY <2>1, WakeInv
  <2>2. CASE Join BY <2>2, JoinInv
  <2>3. CASE TakeLeftover BY <2>3, TakeLeftoverInv
  <2>4. CASE TakenAll BY <2>4, TakenAllInv
  <2>5. CASE LeftoverTraces BY <2>5, LeftoverTracesInv
  <2>6. CASE LeftoverLogs BY <2>6, LeftoverLogsInv
  <2> QED BY <1>5, <2>1, <2>2, <2>3, <2>4, <2>5, <2>6 DEF StopperStep
<1>6. CASE UNCHANGED vars BY <1>6, ExportStutter
<1> QED BY <1>1, <1>2, <1>3, <1>4, <1>5, <1>6 DEF Next

LEMMA ExportPathStep ==
  ASSUME [PathNext]_pathVars
  PROVE  [Next]_vars
<1>1. CASE OfExport(Next) BY <1>1 DEF OfExport
<1>2. CASE OfCalls(C!Next) BY <1>2 DEF OfCalls
<1>3. CASE UNCHANGED pathVars BY <1>3 DEF pathVars
<1> QED BY <1>1, <1>2, <1>3 DEF PathNext

\* What is once in a sequence has one place there.
Spots(name, s, e) == {<<name, i>> : i \in {k \in DOMAIN s : s[k] = e}}

LEMMA OneSpot ==
  ASSUME NEW name, NEW s, Once(s), NEW e \in Events
  PROVE  /\ Holds(s, e) => \E p : Spots(name, s, e) = {p}
         /\ ~Holds(s, e) => Spots(name, s, e) = {}
<1>1. ASSUME Holds(s, e) PROVE \E p : Spots(name, s, e) = {p}
  <2>1. PICK i \in DOMAIN s : s[i] = e BY <1>1 DEF Holds
  <2>2. \A k \in DOMAIN s : s[k] = e => k = i BY <2>1 DEF Once
  <2>3. {k \in DOMAIN s : s[k] = e} = {i} BY <2>1, <2>2
  <2> DEFINE K == {k \in DOMAIN s : s[k] = e}
  <2>4. Spots(name, s, e) = {<<name, k>> : k \in K} BY DEF Spots
  <2>5. K = {i} BY <2>3
  <2> HIDE DEF K
  <2>6. Spots(name, s, e) = {<<name, i>>} BY <2>4, <2>5
  <2> QED BY <2>6
<1> QED BY <1>1 DEF Spots, Holds

LEMMA ExportOnePlace ==
  ASSUME ExportInv
  PROVE  EachEventInOnePlace
<1> SUFFICES ASSUME NEW e \in ToSet(accepted), Posted(e)
             PROVE  \E p \in Places(e) : Places(e) = {p}
  BY DEF EachEventInOnePlace
<1> DEFINE Q == Spots("queue", queue, e)
           B == IF Requested(thread, e) THEN {} ELSE Spots("batch", batch, e)
           L == IF Requested(stopper, e) THEN {} ELSE Spots("leftovers", leftovers, e)
           D == Spots("delivered", delivered, e)
           F == IF e \in failed THEN {<<"failed", 0>>} ELSE {}
<1>1. Places(e) = Q \union B \union L \union D \union F BY DEF Places, Spots, Requested
<1>2. Holds(accepted, e) BY DEF ToSet, Holds
<1>3. e \in Events
  <2>1. accepted \in Seq(Events) BY DEF ExportInv, ExportTypes
  <2> QED BY <1>2, <2>1 DEF Holds
<1>4. OnePlace(e) BY <1>3 DEF ExportInv
<1>5. /\ Holds(queue, e) => \E p : Q = {p}
      /\ ~Holds(queue, e) => Q = {}
      /\ Batched(e) => \E p : B = {p}
      /\ ~Batched(e) => B = {}
      /\ Taken(e) => \E p : L = {p}
      /\ ~Taken(e) => L = {}
      /\ Holds(delivered, e) => \E p : D = {p}
      /\ ~Holds(delivered, e) => D = {}
  BY <1>3, OneSpot DEF ExportInv, HeldOnce, Batched, Taken
<1>6. (e \in failed => \E p : F = {p}) /\ (e \notin failed => F = {}) OBVIOUS
<1> HIDE DEF Q, B, L, D, F
<1>7. /\ Holds(queue, e) => ~Batched(e) /\ ~Taken(e) /\ ~Settled(e)
      /\ Batched(e) => ~Taken(e) /\ ~Settled(e)
      /\ Taken(e) => ~Settled(e)
      /\ ~(Holds(delivered, e) /\ e \in failed)
      /\ Holds(queue, e) \/ Batched(e) \/ Taken(e) \/ Settled(e)
  BY <1>2, <1>4 DEF OnePlace, Batched, Taken
<1>8. \E p : Q \union B \union L \union D \union F = {p}
  <2>1. CASE Holds(queue, e) BY <1>5, <1>6, <1>7, <2>1 DEF Settled
  <2>2. CASE Batched(e) BY <1>5, <1>6, <1>7, <2>2 DEF Settled
  <2>3. CASE Taken(e) BY <1>5, <1>6, <1>7, <2>3 DEF Settled
  <2>4. CASE Holds(delivered, e) BY <1>5, <1>6, <1>7, <2>4 DEF Settled
  <2>5. CASE e \in failed BY <1>5, <1>6, <1>7, <2>5 DEF Settled
  <2> QED BY <1>7, <2>1, <2>2, <2>3, <2>4, <2>5 DEF Settled
<1> QED BY <1>1, <1>8

LEMMA ExportDelivers ==
  ASSUME ExportInv
  PROVE  DeliveredOnceInOrder
<1>1. TypeOK BY DEF ExportInv, ExportTypes
<1>2. DeliveredInOrder BY DEF ExportInv, InOrder, SortedByKind, DeliveredInOrder
<1> QED BY <1>1, <1>2, ExportOnePlace DEF DeliveredOnceInOrder

LEMMA ExportAlways == PathSpec => []ExportInv
<1>1. PathInit => ExportInv BY InitExport DEF PathInit
<1>2. ExportInv /\ [PathNext]_pathVars => ExportInv' BY ExportPathStep, ExportStep
<1> QED BY <1>1, <1>2, PTL DEF PathSpec

\* Whatever the agents insert, whenever stop() overlaps a flush, and whatever the
\* collector refuses: an event the queue took is in one place, so posted at most once
\* and lost by neither thread on the way; and while join() waits, the collector gets
\* the spans, and the logs, in the order of their rows (otel/export.py:139-330).
THEOREM DeliveredAlwaysOnceInOrder == PathSpec => []DeliveredOnceInOrder
BY ExportAlways, ExportDelivers, PTL
=============================================================================
