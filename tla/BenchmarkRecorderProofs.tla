------------------------ MODULE BenchmarkRecorderProofs ------------------------
(***************************************************************************)
(* What bench run promises of the summary and of the records of the runs,  *)
(* for any number of processes, runs, iterations and crashes.              *)
(***************************************************************************)
EXTENDS BenchmarkRecorder, StoreProofs

(* The passes that were timed are those after the warm-up, and a command   *)
(* that has not failed is run until all are done.                          *)
CountInv(b) ==
  /\ b.warmup >= 0 /\ b.iters > 0 /\ b.warmup \in Warmups /\ b.iters \in Iters
  /\ b.index <= b.warmup + b.iters
  /\ b.timed = b.warmup .. b.index - 1
  /\ b.step = "running" => b.index < b.warmup + b.iters
  /\ b.step # "running" /\ b.rc = "zero" => b.index = b.warmup + b.iters

(* The entries that may be listed: the record of the run is there, and no  *)
(* command will write it any more.                                         *)
Recording == {"running", "ran", "record"}
Settled(e) ==
  /\ e.run <= runs
  /\ Current(RunFile[e.run]) = Text({e})
  /\ \A p \in Proc : bench[p].step \in Recording => bench[p].run # e.run

TimedEntries == {e \in Entry : /\ e.timed = e.warmup .. e.passes - 1
                               /\ e.rc = "zero" => e.passes = e.warmup + e.iters}
GoodEntries  == {e \in TimedEntries : Settled(e)}

(* What a bench command has in each step.                                  *)
CommandInv(p) ==
  LET b == bench[p]
  IN  /\ b.step \in Active => b.run \in RunId /\ b.run <= runs /\ CountInv(b)
      /\ b.step \notin {"record", "summary", "publish"} => Ready(p)
      /\ b.step = "record" =>
           /\ call[p].stage \in WriteStage \cup {"ok", "error"}
           /\ call[p].stage \in WriteStage =>
                call[p].path = RunFile[b.run] /\ call[p].doc = {ResultOf(b)}
           /\ call[p].stage = "ok" => Current(RunFile[b.run]) = Text({ResultOf(b)})
      /\ b.step \in {"recorded", "summary", "publish"} =>
           Current(RunFile[b.run]) = Text({ResultOf(b)})
      /\ b.step = "summary" =>
           /\ call[p].stage \notin WriteStage /\ call[p].path \in {Summary, NoPath}
           /\ call[p].doc \subseteq GoodEntries
      /\ b.step = "publish" =>
           /\ call[p].stage \in WriteStage \cup {"ok", "error"}
           /\ call[p].path \in {Summary, NoPath}

SameRun(p, q) ==
  bench[p].step \in Active /\ bench[q].step \in Active /\ bench[p].run = bench[q].run

RecordInv ==
  /\ StoreInv
  /\ TypeOK
  /\ \A r \in RunId : RunFile[r] \notin overlapped
  /\ \A p, q \in Proc : SameRun(p, q) => p = q
  /\ PathDocs(Summary, SUBSET GoodEntries)
  /\ \A p \in Proc : CommandInv(p)

(* While no two commands have updated the summary at once: the one that is *)
(* updating it has read what is in it now, and is about to write all of    *)
(* its runs and its own.                                                   *)
UpdateInv(p) ==
  LET b == bench[p]
  IN  /\ b.step = "summary" =>
           /\ call[p].stage = "reading" => call[p].fd = file[Summary]
           /\ call[p].stage = "ok" => call[p].doc = Summarized
      /\ b.step = "publish" /\ call[p].stage \in WriteStage =>
           RunsIn(Summarized) \cup {b.run} \subseteq RunsIn(call[p].doc)
      /\ b.step = "publish" /\ call[p].stage = "ok" => b.run \in RunsIn(Summarized)

SerialInv ==
  ~raced =>
    /\ Summary \notin overlapped
    /\ \A p, q \in Proc : Updating(p) /\ Updating(q) => p = q
    /\ \A p \in Proc : UpdateInv(p)
    /\ acked \subseteq RunsIn(Summarized)

-----------------------------------------------------------------------------
(* What a step of the process p may do to the runs and their records.      *)
RunStep(p) ==
  /\ \A q \in Proc \ {p} : bench'[q] = bench[q]
  /\ runs' \in Nat /\ runs <= runs'
  /\ \A r \in RunId : \/ Current(RunFile[r])' = Current(RunFile[r])
                      \/ bench[p].step = "record" /\ bench[p].run = r
  /\ bench'[p].step \in Active =>
       \/ bench[p].step \in Active /\ bench'[p].run = bench[p].run
       \/ bench'[p].run > runs
  /\ bench'[p].step \in Recording /\ bench'[p].run <= runs => bench[p].step \in Recording

LEMMA RunOf ==
  ASSUME NEW p \in Proc, RecordInv, bench[p].step \in Active
  PROVE  bench[p].run \in RunId /\ bench[p].run \in Nat /\ bench[p].run <= runs
<1>1. CommandInv(p)
  BY DEF RecordInv
<1>2. bench[p].run \in RunId /\ bench[p].run <= runs
  BY <1>1 DEF CommandInv
<1> QED  BY <1>2, BenchAssumption DEF RunId

LEMMA GoodGrow ==
  ASSUME NEW p \in Proc, RecordInv, RunStep(p)
  PROVE  GoodEntries \subseteq GoodEntries'
<1> SUFFICES ASSUME NEW e \in GoodEntries PROVE Settled(e)'
  BY DEF GoodEntries, TimedEntries
<1>1. /\ e.run \in RunId /\ e.run <= runs /\ Current(RunFile[e.run]) = Text({e})
      /\ \A q \in Proc : bench[q].step \in Recording => bench[q].run # e.run
  BY BenchAssumption DEF GoodEntries, TimedEntries, Settled, Result
<1>2. runs \in Nat /\ e.run \in Nat /\ runs' \in Nat /\ e.run <= runs'
  BY <1>1, BenchAssumption DEF RecordInv, TypeOK, RunId, RunStep
<1>3. Current(RunFile[e.run])' = Text({e})
  BY <1>1 DEF RunStep, Recording
<1>4. ASSUME NEW q \in Proc, bench'[q].step \in Recording PROVE bench'[q].run # e.run
  <2>1. CASE q # p
    BY <1>1, <1>4, <2>1 DEF RunStep
  <2>2. CASE q = p
    <3>1. \/ bench[p].step \in Recording /\ bench'[p].run = bench[p].run
          \/ bench'[p].run > runs
          \/ ~(bench'[p].run <= runs)
      BY <1>4, <2>2 DEF RunStep, Recording, Active
    <3> QED  BY <1>1, <1>2, <2>2, <3>1
  <2> QED  BY <2>1, <2>2
<1> QED  BY <1>2, <1>3, <1>4 DEF Settled

(* What RecordInv asks of a step of the process p.                         *)
LEMMA RecordStep ==
  ASSUME NEW p \in Proc, RecordInv, RunStep(p), StoreInv', TypeOK',
         \A q \in Proc \ {p} : call'[q] = call[q],
         \A r \in RunId : RunFile[r] \notin overlapped',
         NEW D, D = SUBSET GoodEntries, PathDocs(Summary, D)',
         CommandInv(p)'
  PROVE  RecordInv'
<1>1. GoodEntries \subseteq GoodEntries'
  BY GoodGrow
<1>2. PathDocs(Summary, SUBSET GoodEntries)'
  <2>1. \A d \in D : d \in SUBSET GoodEntries'
    BY <1>1
  <2> QED  BY <2>1 DEF PathDocs
<1>3. ASSUME NEW q \in Proc \ {p} PROVE CommandInv(q)'
  <2>1. CommandInv(q) /\ bench'[q] = bench[q] /\ call'[q] = call[q]
    BY DEF RecordInv, RunStep
  <2>2. runs \in Nat /\ runs' \in Nat /\ runs <= runs'
    BY DEF RecordInv, TypeOK, RunStep
  <2>3. bench[q].step \in Active => bench[q].run \in Nat /\ bench[q].run <= runs'
    BY <2>1, <2>2, BenchAssumption DEF CommandInv, RunId
  <2>4. bench[q].step \in Active => Current(RunFile[bench[q].run])' = Current(RunFile[bench[q].run])
    <3> SUFFICES ASSUME bench[q].step \in Active
                 PROVE  Current(RunFile[bench[q].run])' = Current(RunFile[bench[q].run])
      OBVIOUS
    <3>1. bench[q].run \in RunId
      BY <2>1 DEF CommandInv
    <3>2. ~(bench[p].step = "record" /\ bench[p].run = bench[q].run)
      BY DEF RecordInv, SameRun, Active
    <3> QED  BY <3>1, <3>2 DEF RunStep
  <2>5. CountInv(bench[q])' <=> CountInv(bench[q])
    BY <2>1 DEF CountInv
  <2> QED  BY <1>1, <2>1, <2>3, <2>4, <2>5 DEF CommandInv, Ready, Active
<1>4. ASSUME NEW q \in Proc, NEW s \in Proc, SameRun(q, s)' PROVE q = s
  <2>1. \A t \in Proc : bench[t].step \in Active => bench[t].run \in Nat /\ bench[t].run <= runs
    BY RunOf
  <2>2. runs \in Nat
    BY DEF RecordInv, TypeOK
  <2>3. \A t \in Proc : t # p /\ SameRun(p, t)' => SameRun(p, t)
    <3> SUFFICES ASSUME NEW t \in Proc, t # p, SameRun(p, t)' PROVE SameRun(p, t)
      OBVIOUS
    <3>1. bench'[t] = bench[t] /\ bench'[p].step \in Active /\ bench[t].step \in Active
          /\ bench'[p].run = bench[t].run
      BY DEF RunStep, SameRun
    <3>2. bench[p].step \in Active /\ bench'[p].run = bench[p].run
      BY <2>1, <2>2, <3>1 DEF RunStep
    <3> QED  BY <3>1, <3>2 DEF SameRun
  <2> QED  BY <1>4, <2>3 DEF RecordInv, RunStep, SameRun
<1> QED  BY <1>2, <1>3, <1>4 DEF RecordInv

(* The process p takes a step that is no step of the store.                *)
LEMMA CommandStep ==
  ASSUME NEW p \in Proc, RecordInv, UNCHANGED storeVars,
         \A q \in Proc \ {p} : bench'[q] = bench[q],
         runs' \in Nat, runs <= runs',
         bench'[p].step \in Active =>
           \/ bench[p].step \in Active /\ bench'[p].run = bench[p].run
           \/ bench'[p].run > runs,
         bench'[p].step \in Recording /\ bench'[p].run <= runs => bench[p].step \in Recording,
         TypeOK', CommandInv(p)'
  PROVE  RecordInv'
<1>1. UNCHANGED <<file, tmp, content, call, overlapped>>
  BY DEF storeVars
<1>2. StoreInv' /\ \A r \in RunId : RunFile[r] \notin overlapped'
  BY <1>1, IdleStepInv DEF RecordInv
<1>3. \A r \in RunId : Current(RunFile[r])' = Current(RunFile[r])
  BY <1>1 DEF Current, Missing
<1>4. RunStep(p)
  BY <1>3 DEF RunStep
<1>5. PICK D : D = SUBSET GoodEntries
  OBVIOUS
<1>6. PathDocs(Summary, D)'
  BY <1>1, <1>5 DEF RecordInv, PathDocs, Holds
<1> QED  BY <1>1, <1>2, <1>4, <1>5, <1>6, RecordStep

(* A command that ends, by itself or with an error.                        *)
LEMMA EndInv ==
  ASSUME NEW p \in Proc, RecordInv, UNCHANGED storeVars, Ready(p),
         NEW s \in Over, bench' = [bench EXCEPT ![p] = Idling(s)],
         UNCHANGED <<raced, kills>>, acked' \in SUBSET RunId,
         runs' \in 0..MaxRuns, runs <= runs'
  PROVE  RecordInv'
<1>1. /\ bench \in [Proc -> Command] /\ TypeOK /\ MaxRuns \in Nat
      /\ UNCHANGED <<file, tmp, content, call, overlapped>>
  BY BenchAssumption DEF RecordInv, TypeOK, storeVars
<1>2. Idling(s) \in Command
  BY DEF Idling, Command, RC
<1>3. /\ bench' \in [Proc -> Command] /\ bench'[p] = Idling(s)
      /\ \A q \in Proc \ {p} : bench'[q] = bench[q]
  BY <1>1, <1>2
<1>4. s \notin Active /\ s \notin Recording
  BY DEF Over, Active, Recording
<1>5. CommandInv(p)'
  BY <1>1, <1>3, <1>4 DEF CommandInv, Idling, Active, Ready
<1>6. TypeOK'
  BY <1>1, <1>3 DEF TypeOK, StoreTypeOK
<1>7. bench'[p].step = s /\ runs' \in Nat
  BY <1>1, <1>3 DEF Idling
<1> QED  BY <1>3, <1>4, <1>5, <1>6, <1>7, CommandStep

LEMMA StartInv ==
  ASSUME NEW p \in Proc, RecordInv, Start(p)
  PROVE  RecordInv'
<1>1. /\ bench \in [Proc -> Command] /\ TypeOK /\ MaxRuns \in Nat /\ runs \in Nat
      /\ UNCHANGED <<file, tmp, content, call, overlapped>>
      /\ runs' = runs + 1 /\ runs < MaxRuns /\ UNCHANGED <<storeVars, raced, acked, kills>>
  BY BenchAssumption DEF RecordInv, TypeOK, Start, storeVars
<1>2. runs' \in 0..MaxRuns /\ runs' \in RunId /\ runs <= runs' /\ runs' > runs
  BY <1>1 DEF RunId
<1>3. Ready(p)
  BY DEF RecordInv, CommandInv, Start, Over
<1>4. PICK w \in Warmups, n \in Iters :
        IF Invalid(w, n)
        THEN Raise(p)
        ELSE bench' = [bench EXCEPT ![p] =
                         [step |-> "running", run |-> runs', warmup |-> w, iters |-> n,
                          index |-> 0, timed |-> {}, rc |-> "zero", text |-> TRUE]]
  BY DEF Start
<1>5. CASE Invalid(w, n)
  <2>1. bench' = [bench EXCEPT ![p] = Idling("raised")] /\ acked' \in SUBSET RunId
    BY <1>1, <1>4, <1>5 DEF Raise, TypeOK
  <2> QED  BY <1>1, <1>2, <1>3, <2>1, EndInv DEF Over
<1>6. CASE ~Invalid(w, n)
  <2>1. w \in Int /\ n \in Int /\ w >= 0 /\ n > 0
    BY <1>6, BenchAssumption DEF Invalid
  <2>2. bench'[p] = [step |-> "running", run |-> runs', warmup |-> w, iters |-> n,
                     index |-> 0, timed |-> {}, rc |-> "zero", text |-> TRUE]
    BY <1>1, <1>4, <1>6
  <2>3. bench'[p] \in Command
    BY <1>2, <2>1, <2>2 DEF Command, Active, RC
  <2>4. bench' \in [Proc -> Command] /\ \A q \in Proc \ {p} : bench'[q] = bench[q]
    BY <1>1, <1>4, <1>6, <2>2, <2>3
  <2>5. CountInv(bench'[p])
    BY <2>1, <2>2 DEF CountInv
  <2>6. CommandInv(p)'
    BY <1>1, <1>2, <1>3, <2>2, <2>5 DEF CommandInv, Ready, CountInv
  <2>7. TypeOK'
    BY <1>1, <1>2, <2>4 DEF TypeOK, StoreTypeOK
  <2>8. bench'[p].run = runs' /\ ~(bench'[p].run <= runs)
    BY <1>1, <1>2, <2>2
  <2> QED  BY <1>1, <1>2, <2>4, <2>6, <2>7, <2>8, CommandStep
<1> QED  BY <1>5, <1>6

LEMMA RunOnceInv ==
  ASSUME NEW p \in Proc, RecordInv, RunOnce(p)
  PROVE  RecordInv'
<1>0. bench[p].step = "running" /\ UNCHANGED <<storeVars, raced, acked, runs, kills>>
  BY Zenon DEF RunOnce
<1>1. /\ bench \in [Proc -> Command] /\ TypeOK /\ bench[p] \in Command
      /\ bench[p].step = "running" /\ CommandInv(p) /\ runs \in Nat
      /\ UNCHANGED <<file, tmp, content, call, overlapped>>
      /\ UNCHANGED <<storeVars, raced, acked, runs, kills>>
  BY <1>0 DEF RecordInv, TypeOK, storeVars
<1>2. /\ Ready(p) /\ CountInv(bench[p]) /\ bench[p].run \in RunId /\ bench[p].run <= runs
      /\ runs' \in 0..MaxRuns /\ runs <= runs' /\ acked' \in SUBSET RunId
  BY <1>1 DEF CommandInv, Active, TypeOK
<1>3. CASE Raise(p)
  BY <1>1, <1>2, <1>3, EndInv DEF Raise, Over
<1>4. ASSUME NEW rc \in RC, NEW text \in BOOLEAN,
             LET b == bench[p]
             IN  bench' = [bench EXCEPT ![p] =
                   [b EXCEPT
                      !.step  = IF rc # "zero" \/ b.index + 1 = b.warmup + b.iters
                                THEN "ran" ELSE "running",
                      !.index = @ + 1,
                      !.timed = IF Timed(b) THEN @ \cup {b.index} ELSE @,
                      !.rc    = rc,
                      !.text  = text]]
      PROVE  RecordInv'
  <2> DEFINE b == bench[p]
  <2>1. PICK step \in {"ran", "running"} :
          step = IF rc # "zero" \/ b.index + 1 = b.warmup + b.iters THEN "ran" ELSE "running"
    OBVIOUS
  <2>2. PICK timed \in SUBSET Nat :
          timed = IF Timed(b) THEN b.timed \cup {b.index} ELSE b.timed
    BY <1>1 DEF Command
  <2>3. bench'[p] = [step |-> step, run |-> b.run, warmup |-> b.warmup, iters |-> b.iters,
                     index |-> b.index + 1, timed |-> timed, rc |-> rc, text |-> text]
    BY <1>1, <1>4, <2>1, <2>2 DEF Command
  <2>4. /\ b.run \in RunId /\ b.warmup \in Int /\ b.iters \in Int /\ b.index \in Nat
        /\ b.timed \in SUBSET Nat
    BY <1>1, <1>2 DEF Command
  <2>5. bench'[p] \in Command
    BY <2>3, <2>4 DEF Command, Active
  <2>6. bench' \in [Proc -> Command] /\ \A q \in Proc \ {p} : bench'[q] = bench[q]
    BY <1>1, <1>4, <2>3, <2>5
  <2>7. CountInv(bench'[p])
    <3>1. timed = b.warmup .. (b.index + 1) - 1
      <4>1. b.timed = b.warmup .. b.index - 1 /\ (b.index + 1) - 1 = b.index
        BY <1>2, <2>4 DEF CountInv
      <4>2. CASE Timed(b)
        <5>1. b.warmup <= b.index
          BY <2>4, <4>2 DEF Timed
        <5>2. b.warmup .. b.index = (b.warmup .. b.index - 1) \cup {b.index}
          BY <2>4, <5>1
        <5> QED  BY <2>2, <4>1, <4>2, <5>2
      <4>3. CASE ~Timed(b)
        <5>1. b.index < b.warmup
          BY <2>4, <4>3 DEF Timed
        <5>2. b.warmup .. b.index = {} /\ b.warmup .. b.index - 1 = {}
          BY <2>4, <5>1
        <5> QED  BY <2>2, <4>1, <4>3, <5>2
      <4> QED  BY <4>2, <4>3
    <3>2. b.index + 1 <= b.warmup + b.iters
      BY <1>1, <1>2, <2>4 DEF CountInv
    <3>3. /\ step = "running" => b.index + 1 < b.warmup + b.iters
          /\ step # "running" /\ rc = "zero" => b.index + 1 = b.warmup + b.iters
      BY <2>1, <2>4, <3>2
    <3>4. /\ bench'[p].step = step /\ bench'[p].warmup = b.warmup
          /\ bench'[p].iters = b.iters /\ bench'[p].index = b.index + 1
          /\ bench'[p].timed = timed /\ bench'[p].rc = rc
      BY <2>3
    <3>5. b.warmup >= 0 /\ b.iters > 0 /\ b.warmup \in Warmups /\ b.iters \in Iters
      BY <1>2 DEF CountInv
    <3> QED  BY <2>4, <3>1, <3>2, <3>3, <3>4, <3>5 DEF CountInv
  <2>8. CommandInv(p)'
    BY <1>1, <1>2, <2>3, <2>4, <2>7 DEF CommandInv, Ready, CountInv
  <2>9. TypeOK'
    BY <1>1, <1>2, <2>6 DEF TypeOK, StoreTypeOK
  <2>10. bench'[p].run = bench[p].run /\ bench[p].step \in Active \cap Recording
    BY <1>1, <2>3 DEF Active, Recording
  <2> QED  BY <1>1, <1>2, <2>6, <2>8, <2>9, <2>10, CommandStep
<1> QED  BY <1>3, <1>4 DEF RunOnce

LEMMA RecordedInv ==
  ASSUME NEW p \in Proc, RecordInv, Recorded(p)
  PROVE  RecordInv'
<1>1. /\ bench \in [Proc -> Command] /\ TypeOK /\ bench[p] \in Command
      /\ bench[p].step = "record" /\ CommandInv(p) /\ runs \in Nat /\ call[p].stage = "ok"
      /\ UNCHANGED <<file, tmp, content, call, overlapped>>
      /\ UNCHANGED <<storeVars, raced, acked, runs, kills>>
      /\ bench' = [bench EXCEPT ![p].step = "recorded"]
  BY DEF RecordInv, TypeOK, Recorded, storeVars
<1>2. bench'[p] = [step |-> "recorded", run |-> bench[p].run, warmup |-> bench[p].warmup,
                   iters |-> bench[p].iters, index |-> bench[p].index,
                   timed |-> bench[p].timed, rc |-> bench[p].rc, text |-> bench[p].text]
  BY <1>1 DEF Command
<1>3. bench'[p] \in Command
  BY <1>1, <1>2 DEF Command, Active
<1>4. bench' \in [Proc -> Command] /\ \A q \in Proc \ {p} : bench'[q] = bench[q]
  BY <1>1, <1>3
<1>5. /\ CountInv(bench'[p]) /\ bench[p].run \in RunId /\ bench[p].run <= runs
      /\ ResultOf(bench'[p]) = ResultOf(bench[p])
      /\ Current(RunFile[bench[p].run]) = Text({ResultOf(bench[p])})
  BY <1>1, <1>2 DEF CommandInv, CountInv, ResultOf, Active
<1>6. Current(RunFile[bench[p].run])' = Current(RunFile[bench[p].run])
  BY <1>1 DEF Current, Missing
<1>7. CommandInv(p)'
  BY <1>1, <1>2, <1>5, <1>6 DEF CommandInv, Ready, EndStage
<1>8. TypeOK'
  BY <1>1, <1>4 DEF TypeOK, StoreTypeOK
<1>9. bench'[p].run = bench[p].run /\ bench[p].step \in Active \cap Recording
  BY <1>1, <1>2 DEF Active, Recording
<1> QED  BY <1>1, <1>4, <1>7, <1>8, <1>9, CommandStep

LEMMA FinishInv ==
  ASSUME NEW p \in Proc, RecordInv, Finish(p) \/ Fail(p)
  PROVE  RecordInv'
<1>1. /\ UNCHANGED <<storeVars, raced, kills, runs>> /\ TypeOK /\ runs \in 0..MaxRuns
      /\ call[p].stage \in {"ok", "error"}
      /\ \E s \in Over : bench' = [bench EXCEPT ![p] = Idling(s)]
  BY DEF Finish, Fail, Raise, Published, RecordInv, TypeOK, Over
<1>2. acked' \in SUBSET RunId
  <2>1. CASE Fail(p)
    BY <1>1, <2>1 DEF Fail, TypeOK
  <2>2. CASE Finish(p)
    BY <1>1, <2>2, RunOf DEF Finish, Published, TypeOK, Active
  <2> QED  BY <2>1, <2>2
<1>3. Ready(p) /\ runs <= runs' /\ runs' \in 0..MaxRuns
  BY <1>1, BenchAssumption DEF Ready, EndStage
<1> QED  BY <1>1, <1>2, <1>3, EndInv

-----------------------------------------------------------------------------
(* Only the command that records a run writes to the file of its record.   *)
LEMMA WriterOf ==
  ASSUME RecordInv, NEW p \in Proc, call[p].stage \in WriteStage
  PROVE  \/ /\ bench[p].step = "record" /\ bench[p].run \in RunId
            /\ call[p].path = RunFile[bench[p].run] /\ call[p].doc = {ResultOf(bench[p])}
         \/ bench[p].step = "publish" /\ call[p].path = Summary
<1>1. CommandInv(p) /\ call[p].path \in Path
  BY DEF RecordInv, StoreInv, CallShape
<1>2. bench[p].step \in {"record", "publish"}
  BY <1>1 DEF CommandInv, Ready, WriteStage, EndStage
<1> QED  BY <1>1, <1>2, StoreAssumption DEF CommandInv, Active

LEMMA RecordFiles ==
  ASSUME RecordInv
  PROVE  \A r \in RunId : RunFile[r] \in Path \ overlapped /\ RunFile[r] # Summary
  BY BenchAssumption DEF RecordInv

(* The same command after a step that changes only where it is.            *)
LEMMA MoveOn ==
  ASSUME NEW p \in Proc, RecordInv, NEW step \in Active, bench[p].step \in Active,
         bench' = [bench EXCEPT ![p].step = step]
  PROVE  /\ bench' \in [Proc -> Command] /\ bench'[p].step = step
         /\ bench'[p].run = bench[p].run /\ ResultOf(bench'[p]) = ResultOf(bench[p])
         /\ \A q \in Proc \ {p} : bench'[q] = bench[q]
         /\ step # "running" /\ bench[p].step # "running" => CountInv(bench'[p])
<1>1. bench \in [Proc -> Command] /\ bench[p] \in Command /\ CommandInv(p)
  BY DEF RecordInv, TypeOK
<1>2. bench'[p] = [step |-> step, run |-> bench[p].run, warmup |-> bench[p].warmup,
                   iters |-> bench[p].iters, index |-> bench[p].index,
                   timed |-> bench[p].timed, rc |-> bench[p].rc, text |-> bench[p].text]
  BY <1>1 DEF Command
<1>3. bench'[p] \in Command
  BY <1>1, <1>2 DEF Command
<1>4. bench' \in [Proc -> Command] /\ \A q \in Proc \ {p} : bench'[q] = bench[q]
  BY <1>1, <1>3
<1>5. step # "running" /\ bench[p].step # "running" => CountInv(bench'[p])
  BY <1>1, <1>2 DEF CommandInv, CountInv
<1> QED  BY <1>2, <1>4, <1>5 DEF ResultOf

LEMMA ResultEntry ==
  ASSUME NEW p \in Proc, RecordInv, bench[p].step \in Active \ {"running"}
  PROVE  ResultOf(bench[p]) \in TimedEntries /\ {ResultOf(bench[p])} \in Doc
<1> DEFINE b == bench[p]
<1>1. b \in Command /\ CountInv(b) /\ b.run \in RunId
  BY DEF RecordInv, TypeOK, CommandInv
<1>2. /\ b.warmup \in Warmups /\ b.iters \in Iters /\ b.rc \in RC
      /\ b.timed = b.warmup .. b.index - 1
      /\ b.rc = "zero" => b.index = b.warmup + b.iters
  BY <1>1 DEF Command, CountInv
<1>3. b.index \in 0 .. b.warmup + b.iters /\ b.timed \in SUBSET (0 .. b.index - 1)
  BY <1>1 DEF Command, CountInv
<1>4. [run |-> b.run, warmup |-> b.warmup, iters |-> b.iters,
       passes |-> b.index, timed |-> b.timed, rc |-> b.rc] \in Entry
  BY <1>1, <1>2, <1>3, BenchAssumption
<1> QED  BY <1>2, <1>4 DEF TimedEntries, Doc, ResultOf

LEMMA RecordFacts ==
  ASSUME NEW p \in Proc, RecordInv
  PROVE  /\ TypeOK /\ StoreInv /\ CommandInv(p) /\ runs \in Nat
         /\ call \in [Proc -> Call] /\ bench \in [Proc -> Command]
         /\ PathDocs(Summary, SUBSET GoodEntries)
         /\ bench[p].step \in Active => bench[p].run \in RunId /\ bench[p].run <= runs
<1>1. TypeOK /\ StoreInv /\ CommandInv(p) /\ PathDocs(Summary, SUBSET GoodEntries)
  BY DEF RecordInv
<1>2. runs \in Nat /\ call \in [Proc -> Call] /\ bench \in [Proc -> Command]
  BY <1>1 DEF TypeOK, StoreTypeOK
<1> QED  BY <1>1, <1>2, RunOf

LEMMA WriteRecordInv ==
  ASSUME NEW p \in Proc, RecordInv, WriteRecord(p)
  PROVE  RecordInv'
<1>0. bench[p].step = "ran" /\ Ready(p)
  BY DEF WriteRecord, OpenTmp
<1>1. /\ TypeOK /\ StoreInv /\ call \in [Proc -> Call] /\ bench[p].step = "ran" /\ runs \in Nat
      /\ bench[p].run \in RunId /\ bench[p].run <= runs /\ Ready(p)
      /\ PathDocs(Summary, SUBSET GoodEntries)
  BY <1>0, RecordFacts DEF Active
<1>2. PICK d : d = {ResultOf(bench[p])} /\ OpenTmp(p, RunFile[bench[p].run], d)
  BY DEF WriteRecord, RecordPath
<1>3. d \in Doc /\ RunFile[bench[p].run] \in Path /\ RunFile[bench[p].run] # Summary
  BY <1>1, <1>2, ResultEntry, RecordFiles DEF Active
<1>4. /\ bench' = [bench EXCEPT ![p].step = "record"]
      /\ UNCHANGED <<raced, acked, runs, kills>>
  BY DEF WriteRecord
<1>5. /\ bench' \in [Proc -> Command] /\ bench'[p].step = "record"
      /\ bench'[p].run = bench[p].run /\ ResultOf(bench'[p]) = ResultOf(bench[p])
      /\ \A q \in Proc \ {p} : bench'[q] = bench[q]
      /\ CountInv(bench'[p])
  BY <1>1, <1>4, MoveOn DEF Active
<1>6. PICK D : D = SUBSET GoodEntries
  OBVIOUS
<1>7. PathDocs(Summary, D)'
  BY <1>1, <1>2, <1>3, <1>6, OpenTmpDocs, BenchAssumption
<1>8. StoreInv'
  BY <1>1, <1>2, <1>3, OpenTmpInv
<1>9. WritersOf(RunFile[bench[p].run]) = {}
  <2> SUFFICES ASSUME NEW q \in Proc, call[q].stage \in WriteStage,
                      call[q].path = RunFile[bench[p].run]
               PROVE  FALSE
    BY DEF WritersOf
  <2>1. /\ bench[q].step = "record" /\ bench[q].run \in RunId
        /\ call[q].path = RunFile[bench[q].run]
    BY <1>3, WriterOf
  <2>2. SameRun(p, q)
    BY <1>1, <2>1, BenchAssumption DEF SameRun, Active
  <2> QED  BY <1>1, <2>1, <2>2 DEF RecordInv
<1>10. /\ overlapped' = overlapped
       /\ \A q \in Proc \ {p} : call'[q] = call[q]
       /\ call'[p].stage = "writing" /\ call'[p].path = RunFile[bench[p].run]
       /\ call'[p].doc = d
  BY <1>1, <1>2, <1>9 DEF OpenTmp
<1>11. \A r \in RunId : Current(RunFile[r])' = Current(RunFile[r])
  BY <1>1, <1>2, <1>3, OpenTmpFile, RecordFiles
<1>12. RunStep(p)
  BY <1>1, <1>4, <1>5, <1>11 DEF RunStep, Active, Recording
<1>13. TypeOK'
  BY <1>1, <1>4, <1>5, <1>8 DEF TypeOK, StoreInv
<1>14. CommandInv(p)'
  BY <1>1, <1>2, <1>4, <1>5, <1>10 DEF CommandInv, WriteStage
<1>15. \A r \in RunId : RunFile[r] \notin overlapped'
  BY <1>10 DEF RecordInv
<1> QED  BY <1>6, <1>7, <1>8, <1>10, <1>12, <1>13, <1>14, <1>15, RecordStep

LEMMA ReadSummaryInv ==
  ASSUME NEW p \in Proc, RecordInv, ReadSummary(p)
  PROVE  RecordInv'
<1>0. bench[p].step = "recorded" /\ CheckExists(p, Summary)
  BY DEF ReadSummary
<1>1. /\ TypeOK /\ StoreInv /\ call \in [Proc -> Call] /\ bench[p].step = "recorded"
      /\ runs \in Nat /\ bench[p].run \in RunId /\ bench[p].run <= runs
      /\ PathDocs(Summary, SUBSET GoodEntries) /\ CheckExists(p, Summary)
      /\ Current(RunFile[bench[p].run]) = Text({ResultOf(bench[p])})
  BY <1>0, RecordFacts DEF CommandInv, Active
<1>2. /\ bench' = [bench EXCEPT ![p].step = "summary"]
      /\ UNCHANGED <<acked, runs, kills>> /\ raced' \in BOOLEAN
  BY <1>1 DEF ReadSummary, TypeOK
<1>3. /\ bench' \in [Proc -> Command] /\ bench'[p].step = "summary"
      /\ bench'[p].run = bench[p].run /\ ResultOf(bench'[p]) = ResultOf(bench[p])
      /\ \A q \in Proc \ {p} : bench'[q] = bench[q]
      /\ CountInv(bench'[p])
  BY <1>1, <1>2, MoveOn DEF Active
<1>4. PICK D : D = SUBSET GoodEntries
  OBVIOUS
<1>5. PathDocs(Summary, D)' /\ call'[p].doc \in D
  BY <1>1, <1>4, CheckExistsDocs, BenchAssumption
<1>6. StoreInv'
  BY <1>1, CheckExistsInv, BenchAssumption
<1>7. /\ \A q \in Proc \ {p} : call'[q] = call[q]
      /\ UNCHANGED <<file, content, overlapped>>
      /\ call'[p].path \in {Summary, NoPath} /\ call'[p].stage \notin WriteStage
  BY <1>1 DEF CheckExists, Ended, WriteStage
<1>8. \A r \in RunId : Current(RunFile[r])' = Current(RunFile[r])
  BY <1>7 DEF Current, Missing
<1>9. RunStep(p)
  BY <1>1, <1>2, <1>3, <1>8 DEF RunStep, Active, Recording
<1>10. call'[p].doc \subseteq GoodEntries'
  BY <1>4, <1>5, <1>9, GoodGrow
<1>11. TypeOK'
  BY <1>1, <1>2, <1>3, <1>6 DEF TypeOK, StoreInv
<1>12. CommandInv(p)'
  BY <1>1, <1>2, <1>3, <1>7, <1>8, <1>10 DEF CommandInv
<1>13. \A r \in RunId : RunFile[r] \notin overlapped'
  BY <1>7 DEF RecordInv
<1> QED  BY <1>4, <1>5, <1>6, <1>7, <1>9, <1>11, <1>12, <1>13, RecordStep

LEMMA WriteSummaryInv ==
  ASSUME NEW p \in Proc, RecordInv, WriteSummary(p)
  PROVE  RecordInv'
<1>0. bench[p].step = "summary" /\ call[p].stage = "ok"
  BY DEF WriteSummary
<1>1. /\ TypeOK /\ StoreInv /\ call \in [Proc -> Call] /\ CommandInv(p)
      /\ runs \in Nat /\ bench[p].run \in RunId /\ bench[p].run <= runs
      /\ PathDocs(Summary, SUBSET GoodEntries)
      /\ Current(RunFile[bench[p].run]) = Text({ResultOf(bench[p])})
      /\ call[p].doc \subseteq GoodEntries
  BY <1>0, RecordFacts DEF CommandInv, Active
<1>2. PICK d : /\ d = Kept(call[p].doc, bench[p]) \cup {ResultOf(bench[p])}
               /\ OpenTmp(p, Summary, d)
  BY DEF WriteSummary
<1>3. /\ bench' = [bench EXCEPT ![p].step = "publish"]
      /\ UNCHANGED <<raced, acked, runs, kills>>
  BY DEF WriteSummary
<1>4. /\ bench' \in [Proc -> Command] /\ bench'[p].step = "publish"
      /\ bench'[p].run = bench[p].run /\ ResultOf(bench'[p]) = ResultOf(bench[p])
      /\ \A q \in Proc \ {p} : bench'[q] = bench[q]
      /\ CountInv(bench'[p])
  BY <1>0, <1>3, MoveOn DEF Active
<1>5. d \subseteq GoodEntries /\ d \in Doc
  <2>1. ResultOf(bench[p]) \in TimedEntries /\ ResultOf(bench[p]).run = bench[p].run
    BY <1>0, ResultEntry DEF Active, ResultOf
  <2>2. ASSUME NEW q \in Proc, bench[q].step \in Recording PROVE bench[q].run # bench[p].run
    BY <1>0, <2>2 DEF RecordInv, SameRun, Recording, Active
  <2>3. ResultOf(bench[p]) \in GoodEntries
    BY <1>1, <2>1, <2>2 DEF GoodEntries, Settled
  <2>4. Kept(call[p].doc, bench[p]) \subseteq call[p].doc
    BY DEF Kept
  <2> QED  BY <1>1, <1>2, <2>3, <2>4 DEF GoodEntries, TimedEntries, Doc
<1>6. PICK D : D = SUBSET GoodEntries
  OBVIOUS
<1>7. PathDocs(Summary, D)'
  BY <1>1, <1>2, <1>5, <1>6, OpenTmpDocs, BenchAssumption
<1>8. StoreInv'
  BY <1>1, <1>2, <1>5, OpenTmpInv, BenchAssumption
<1>9. /\ overlapped' \subseteq overlapped \cup {Summary}
      /\ \A q \in Proc \ {p} : call'[q] = call[q]
      /\ call'[p].stage = "writing" /\ call'[p].path = Summary
  BY <1>1, <1>2 DEF OpenTmp
<1>10. \A r \in RunId : Current(RunFile[r])' = Current(RunFile[r])
  BY <1>1, <1>2, OpenTmpFile, RecordFiles, BenchAssumption
<1>11. RunStep(p)
  BY <1>0, <1>1, <1>3, <1>4, <1>10 DEF RunStep, Active, Recording
<1>12. TypeOK'
  BY <1>1, <1>3, <1>4, <1>8 DEF TypeOK, StoreInv
<1>13. CommandInv(p)'
  BY <1>1, <1>3, <1>4, <1>9, <1>10 DEF CommandInv, WriteStage
<1>14. \A r \in RunId : RunFile[r] \notin overlapped'
  BY <1>9, RecordFiles
<1> QED  BY <1>6, <1>7, <1>8, <1>9, <1>11, <1>12, <1>13, <1>14, RecordStep

LEMMA StoreStepInv ==
  ASSUME NEW p \in Proc, RecordInv, StoreStep(p)
  PROVE  RecordInv'
<1>0. /\ bench[p].step \in {"record", "summary", "publish"} /\ CallStep(p)
      /\ UNCHANGED <<bench, raced, acked, runs, kills>>
  BY DEF StoreStep, CallStep
<1>1. /\ TypeOK /\ StoreInv /\ call \in [Proc -> Call] /\ CommandInv(p)
      /\ runs \in Nat /\ bench[p].run \in RunId /\ bench[p].run <= runs
      /\ PathDocs(Summary, SUBSET GoodEntries)
  BY <1>0, RecordFacts DEF Active
<1>2. PICK D : D = SUBSET GoodEntries
  OBVIOUS
<1>3. /\ CallAfter(p) /\ StoreInv' /\ PathDocs(Summary, D)'
      /\ call[p].path = Summary => call'[p].doc \in D
  BY <1>0, <1>1, <1>2, CallAfterStep, CallStepInv, CallStepDocs, BenchAssumption
<1>4. overlapped' = overlapped /\ \A q \in Proc \ {p} : call'[q] = call[q]
  BY <1>0, <1>3 DEF CallAfter, CallStep, CloseTmp, DumpFails, ReplaceFile, OpenFile, LoadFile
<1>5. call[p].path \in Path /\ call[p].stage \notin EndStage
  BY <1>0, <1>1 DEF StoreInv, CallShape, CallStep, CloseTmp, DumpFails, ReplaceFile, OpenFile,
                    LoadFile, WriteStage, EndStage
<1>6. ASSUME NEW r \in RunId
      PROVE  \/ Current(RunFile[r])' = Current(RunFile[r])
             \/ bench[p].step = "record" /\ bench[p].run = r
  <2>1. CASE call[p].path = RunFile[r] /\ call[p].stage = "closed"
    <3>1. bench[p].step = "record" /\ RunFile[bench[p].run] = RunFile[r]
      BY <2>1, WriterOf, RecordFiles DEF WriteStage
    <3> QED  BY <1>1, <3>1, BenchAssumption
  <2>2. CASE ~(call[p].path = RunFile[r] /\ call[p].stage = "closed")
    BY <1>0, <1>1, <2>2, CallStepFile, RecordFiles
  <2> QED  BY <2>1, <2>2
<1>7. RunStep(p)
  BY <1>0, <1>1, <1>6 DEF RunStep
<1>8. TypeOK'
  BY <1>0, <1>1, <1>3 DEF TypeOK, StoreInv
<1>9. CommandInv(p)'
  <2>1. CASE bench[p].step = "record"
    <3>1. /\ call[p].stage \in WriteStage /\ call[p].path = RunFile[bench[p].run]
          /\ call[p].doc = {ResultOf(bench[p])}
      BY <1>1, <1>5, <2>1 DEF CommandInv, EndStage
    <3>2. ~OpenFile(p) /\ ~LoadFile(p)
      BY <3>1 DEF OpenFile, LoadFile, WriteStage
    <3>3. /\ call'[p].stage \in WriteStage \cup {"ok", "error"}
          /\ call'[p].stage \in WriteStage =>
               call'[p].path = RunFile[bench[p].run] /\ call'[p].doc = {ResultOf(bench[p])}
      BY <1>3, <3>1, <3>2 DEF CallAfter, Ended, WriteStage
    <3>4. ASSUME call'[p].stage = "ok"
          PROVE  Current(RunFile[bench[p].run])' = Text({ResultOf(bench[p])})
      <4>1. ReplaceFile(p)
        BY <1>3, <3>2, <3>4 DEF CallAfter, Ended
      <4>2. PICK x \in Path \ overlapped : x = RunFile[bench[p].run]
        BY <1>1, RecordFiles
      <4>3. Current(x)' = Text(call[p].doc)
        BY <1>1, <3>1, <3>4, <4>1, <4>2, ReplacedCurrent
      <4> QED  BY <1>0, <3>1, <4>2, <4>3 DEF Current
    <3>5. CountInv(bench[p])
      BY <1>1, <2>1 DEF CommandInv, Active
    <3> QED  BY <1>0, <1>1, <2>1, <3>3, <3>4, <3>5 DEF CommandInv
  <2>2. CASE bench[p].step \in {"summary", "publish"}
    <3>1. call[p].path = Summary
      BY <1>1, <1>5, <2>2, StoreAssumption DEF CommandInv
    <3>2. Current(RunFile[bench[p].run])' = Text({ResultOf(bench[p])})
      BY <1>0, <1>1, <1>6, <2>2 DEF CommandInv
    <3>3. call'[p].path \in {Summary, NoPath}
      BY <1>3, <3>1 DEF CallAfter, Ended
    <3>4. bench[p].step = "summary" => call'[p].stage \notin WriteStage
      BY <1>1, <1>3 DEF CallAfter, Ended, CommandInv, CloseTmp, WriteStage
    <3>5. bench[p].step = "publish" => call'[p].stage \in WriteStage \cup {"ok", "error"}
      BY <1>1, <1>3 DEF CallAfter, Ended, CommandInv, OpenFile, WriteStage
    <3>6. call'[p].doc \subseteq GoodEntries'
      BY <1>2, <1>3, <1>7, <3>1, GoodGrow
    <3>7. CountInv(bench[p])
      BY <1>1, <2>2 DEF CommandInv, Active
    <3> QED  BY <1>0, <1>1, <2>2, <3>2, <3>3, <3>4, <3>5, <3>6, <3>7 DEF CommandInv
  <2> QED  BY <1>0, <2>1, <2>2
<1>10. \A r \in RunId : RunFile[r] \notin overlapped'
  BY <1>4, RecordFiles
<1> QED  BY <1>2, <1>3, <1>4, <1>7, <1>8, <1>9, <1>10, RecordStep

LEMMA KillInv ==
  ASSUME NEW p \in Proc, RecordInv, Kill(p)
  PROVE  RecordInv'
<1>0. /\ KillCall(p) /\ bench' = [bench EXCEPT ![p] = Idling("idle")]
      /\ kills < MaxKills /\ kills' = kills + 1 /\ UNCHANGED <<raced, acked, runs>>
  BY DEF Kill
<1>1. /\ TypeOK /\ StoreInv /\ call \in [Proc -> Call] /\ bench \in [Proc -> Command]
      /\ runs \in Nat /\ PathDocs(Summary, SUBSET GoodEntries)
      /\ MaxKills \in Nat /\ kills \in 0..MaxKills
  BY RecordFacts, BenchAssumption DEF TypeOK
<1>2. Idling("idle") \in Command
  BY DEF Idling, Command, Over, RC
<1>3. /\ bench' \in [Proc -> Command] /\ bench'[p] = Idling("idle")
      /\ \A q \in Proc \ {p} : bench'[q] = bench[q]
  BY <1>0, <1>1, <1>2
<1>4. /\ call'[p] = Idle /\ \A q \in Proc \ {p} : call'[q] = call[q]
      /\ UNCHANGED <<file, tmp, content, overlapped>>
  BY <1>0, <1>1 DEF KillCall
<1>5. StoreInv'
  BY <1>0, <1>1, KillCallInv
<1>6. PICK D : D = SUBSET GoodEntries
  OBVIOUS
<1>7. PathDocs(Summary, D)'
  BY <1>0, <1>1, <1>6, KillCallDocs, BenchAssumption
<1>8. \A r \in RunId : Current(RunFile[r])' = Current(RunFile[r])
  BY <1>4 DEF Current, Missing
<1>9. RunStep(p)
  BY <1>0, <1>1, <1>3, <1>8 DEF RunStep, Idling, Active, Recording
<1>10. TypeOK'
  <2>1. kills' \in 0..MaxKills
    BY <1>0, <1>1
  <2> QED  BY <1>0, <1>1, <1>3, <1>5, <2>1 DEF TypeOK, StoreInv
<1>11. CommandInv(p)'
  BY <1>3, <1>4 DEF CommandInv, Idling, Active, Ready, Idle, Ended, EndStage
<1>12. \A r \in RunId : RunFile[r] \notin overlapped'
  BY <1>4, RecordFiles
<1> QED  BY <1>4, <1>5, <1>6, <1>7, <1>9, <1>10, <1>11, <1>12, RecordStep

-----------------------------------------------------------------------------
LEMMA RecordInitInv == Init => RecordInv
<1> SUFFICES ASSUME Init PROVE RecordInv
  OBVIOUS
<1>1. StoreInv
  BY StoreInitInv DEF Init
<1>2. \A p \in Proc : bench[p] = Idling("idle") /\ call[p] = Idle
  BY DEF Init, StoreInit
<1>3. Idling("idle") \in Command
  BY DEF Idling, Command, Over, RC
<1>4. TypeOK
  <2>1. bench \in [Proc -> Command]
    BY <1>3 DEF Init
  <2>2. raced \in BOOLEAN /\ acked \in SUBSET RunId
    BY DEF Init
  <2>3. runs \in 0..MaxRuns /\ kills \in 0..MaxKills
    BY BenchAssumption DEF Init
  <2> QED  BY <1>1, <2>1, <2>2, <2>3 DEF TypeOK, StoreInv
<1>5. PathDocs(Summary, SUBSET GoodEntries)
  BY InitDocs DEF Init
<1>6. \A p \in Proc : CommandInv(p)
  BY <1>2 DEF CommandInv, Idling, Active, Ready, Idle, Ended, EndStage
<1>7. \A p, q \in Proc : ~SameRun(p, q)
  BY <1>2 DEF SameRun, Idling, Active
<1> QED  BY <1>1, <1>4, <1>5, <1>6, <1>7 DEF RecordInv, Init, StoreInit

LEMMA RecordStepInv == RecordInv /\ [Next]_vars => RecordInv'
<1> SUFFICES ASSUME RecordInv, [Next]_vars PROVE RecordInv'
  OBVIOUS
<1>1. ASSUME NEW p \in Proc, Start(p) PROVE RecordInv'
  BY <1>1, StartInv
<1>2. ASSUME NEW p \in Proc, Record(p) PROVE RecordInv'
  BY <1>2, RunOnceInv, WriteRecordInv, RecordedInv, ReadSummaryInv, WriteSummaryInv,
     StoreStepInv, FinishInv DEF Record
<1>3. ASSUME NEW p \in Proc, Kill(p) PROVE RecordInv'
  BY <1>3, KillInv
<1>4. CASE UNCHANGED vars
  <2>1. /\ UNCHANGED <<file, tmp, content, call, overlapped, bench, raced, acked, runs, kills>>
        /\ UNCHANGED storeVars
    BY <1>4 DEF vars, storeVars
  <2>2. StoreInv' /\ TypeOK'
    BY <2>1, IdleStepInv DEF RecordInv, TypeOK, StoreTypeOK
  <2>3. GoodEntries' = GoodEntries
    BY <2>1 DEF GoodEntries, TimedEntries, Settled, Current, Missing
  <2>4. PathDocs(Summary, SUBSET GoodEntries)'
    BY <2>1, <2>3 DEF RecordInv, PathDocs, Holds
  <2>5. ASSUME NEW p \in Proc PROVE CommandInv(p)'
    <3>1. CommandInv(p) /\ \A r \in RunId : Current(RunFile[r])' = Current(RunFile[r])
      BY <2>1 DEF RecordInv, Current, Missing
    <3> QED  BY <2>1, <2>3, <3>1 DEF CommandInv, Ready, Active, CountInv
  <2> QED  BY <2>1, <2>2, <2>4, <2>5 DEF RecordInv, SameRun
<1> QED  BY <1>1, <1>2, <1>3, <1>4 DEF Next

(* The variables of bench run, and where each command is and has counted,  *)
(* in every state.                                                         *)
THEOREM RecordInvariant == Spec => []RecordInv
  BY RecordInitInv, RecordStepInv, PTL DEF Spec

LEMMA SummarizedGood == RecordInv => Summarized \subseteq GoodEntries
<1> SUFFICES ASSUME RecordInv PROVE Summarized \in SUBSET GoodEntries
  OBVIOUS
<1>1. PICK D : D = SUBSET GoodEntries
  OBVIOUS
<1>2. StoreInv /\ PathDocs(Summary, D) /\ Summary \in Path
  BY <1>1, BenchAssumption DEF RecordInv
<1> QED  BY <1>1, <1>2, CurrentDoc DEF Summarized

(* A run that the summary lists has its record in the store, whole and     *)
(* with the same result, whatever commands race and die: the file of the   *)
(* record is written before the run is listed, and never again.            *)
THEOREM BenchRecordsThere == Spec => []ListedRunsHaveRecords
<1>1. RecordInv => ListedRunsHaveRecords
  BY SummarizedGood DEF ListedRunsHaveRecords, GoodEntries, Settled
<1> QED  BY <1>1, RecordInvariant, PTL

(* A listed run was timed in the passes after its warm-up and in no other, *)
(* all of them if it is a success, up to the failed one if it is not, for  *)
(* any numbers of warm-up passes and iterations.                           *)
THEOREM BenchTimedThroughout == Spec => []SuccessTimedThroughout
<1>1. RecordInv => SuccessTimedThroughout
  BY SummarizedGood DEF SuccessTimedThroughout, GoodEntries, TimedEntries
<1> QED  BY <1>1, RecordInvariant, PTL

-----------------------------------------------------------------------------
(* While commands take turns in updating the summary.                      *)

LEMMA SummaryKept ==
  ASSUME UNCHANGED <<file, content>>
  PROVE  Current(Summary)' = Current(Summary) /\ Summarized' = Summarized
  BY DEF Current, Missing, Summarized

(* In a step of a process, the summary changes only when its command is    *)
(* updating it, and then loses no run.                                     *)
LEMMA SummaryAfter ==
  ASSUME RecordInv, SerialInv, ~raced, NEW p \in Proc, StoreStep(p)
  PROVE  /\ RunsIn(Summarized) \subseteq RunsIn(Summarized')
         /\ \/ Current(Summary)' = Current(Summary) /\ file'[Summary] = file[Summary]
            \/ Updating(p) /\ call[p].stage = "closed" /\ Summarized' = call[p].doc
<1>1. StoreInv /\ Summary \in Path \ overlapped /\ CallStep(p)
  BY BenchAssumption DEF RecordInv, SerialInv, StoreStep, CallStep
<1>2. CASE Current(Summary)' = Current(Summary) /\ file'[Summary] = file[Summary]
  BY <1>2 DEF Summarized
<1>3. CASE /\ call[p].path = Summary /\ call[p].stage = "closed"
           /\ Current(Summary)' = Text(call[p].doc)
  <2>1. bench[p].step = "publish" /\ Updating(p)
    BY <1>3, WriterOf, RecordFiles DEF WriteStage, Updating
  <2>2. RunsIn(Summarized) \subseteq RunsIn(call[p].doc)
    BY <1>3, <2>1 DEF SerialInv, UpdateInv, WriteStage
  <2>3. Summarized' = call[p].doc
    BY <1>3 DEF Summarized, Text
  <2> QED  BY <1>3, <2>1, <2>2, <2>3
<1> QED  BY <1>1, <1>2, <1>3, CallStepFile

(* What SerialInv asks of a step of the process p.                         *)
LEMMA SerialStep ==
  ASSUME NEW p \in Proc, SerialInv, ~raced,
         \A q \in Proc \ {p} : bench'[q] = bench[q] /\ call'[q] = call[q],
         Summary \notin overlapped',
         RunsIn(Summarized) \subseteq RunsIn(Summarized'),
         \/ Current(Summary)' = Current(Summary) /\ file'[Summary] = file[Summary]
         \/ Updating(p),
         Updating(p)' => Updating(p) \/ \A q \in Proc \ {p} : ~Updating(q),
         UpdateInv(p)',
         acked' \subseteq acked \cup RunsIn(Summarized')
  PROVE  SerialInv'
<1>1. /\ \A q, r \in Proc : Updating(q) /\ Updating(r) => q = r
      /\ \A q \in Proc : UpdateInv(q)
      /\ acked \subseteq RunsIn(Summarized)
  BY DEF SerialInv
<1>2. \A q \in Proc \ {p} : Updating(q)' <=> Updating(q)
  BY DEF Updating
<1>3. \A q, r \in Proc : Updating(q)' /\ Updating(r)' => q = r
  BY <1>1, <1>2
<1>4. ASSUME NEW q \in Proc \ {p} PROVE UpdateInv(q)'
  <2>1. UpdateInv(q) /\ bench'[q] = bench[q] /\ call'[q] = call[q]
    BY <1>1
  <2>2. CASE Updating(q)
    <3>1. Current(Summary)' = Current(Summary) /\ file'[Summary] = file[Summary]
      BY <1>1, <2>2
    <3> QED  BY <2>1, <3>1 DEF UpdateInv, Summarized
  <2>3. CASE ~Updating(q)
    <3>1. bench[q].step = "publish" /\ call[q].stage = "ok" =>
            bench[q].run \in RunsIn(Summarized')
      BY <2>1 DEF UpdateInv
    <3> QED  BY <2>1, <2>3, <3>1 DEF UpdateInv, Updating
  <2> QED  BY <2>2, <2>3
<1>5. acked' \subseteq RunsIn(Summarized')
  BY <1>1
<1> QED  BY <1>3, <1>4, <1>5 DEF SerialInv

(* A step of p outside of the store and of the summary.                    *)
LEMMA SerialOutside ==
  ASSUME NEW p \in Proc, RecordInv, SerialInv, UNCHANGED <<file, content, overlapped, raced>>,
         \A q \in Proc \ {p} : bench'[q] = bench[q] /\ call'[q] = call[q],
         bench'[p].step \notin {"summary", "publish"},
         ~raced => acked' \subseteq acked \cup RunsIn(Summarized)
  PROVE  SerialInv'
<1> SUFFICES ASSUME ~raced PROVE SerialInv'
  BY DEF SerialInv
<1>1. Current(Summary)' = Current(Summary) /\ Summarized' = Summarized
  BY SummaryKept
<1>2. ~Updating(p)' /\ UpdateInv(p)'
  BY DEF Updating, UpdateInv
<1>3. Summary \notin overlapped'
  BY DEF SerialInv
<1> QED  BY <1>1, <1>2, <1>3, SerialStep

LEMMA OutsideStep ==
  ASSUME NEW p \in Proc, RecordInv, SerialInv,
         Start(p) \/ RunOnce(p) \/ Recorded(p) \/ Finish(p) \/ Fail(p) \/ Kill(p)
  PROVE  SerialInv'
<1>1. /\ bench \in [Proc -> Command] /\ bench[p] \in Command /\ call \in [Proc -> Call]
  BY DEF RecordInv, TypeOK, StoreTypeOK
<1>2. /\ UNCHANGED <<file, content, overlapped, raced>>
      /\ \A q \in Proc \ {p} : call'[q] = call[q]
  <2>1. CASE Kill(p)
    BY <1>1, <2>1 DEF Kill, KillCall
  <2>2. CASE ~Kill(p)
    <3>1. UNCHANGED <<storeVars, raced>>
      BY <2>2, Zenon DEF Start, RunOnce, Recorded, Finish, Fail
    <3> QED  BY <3>1 DEF storeVars
  <2> QED  BY <2>1, <2>2
<1>3. bench'[p].step \notin {"summary", "publish"}
  <2>1. CASE Start(p)
    BY <1>1, <2>1 DEF Start, Raise, Idling
  <2>2. CASE RunOnce(p)
    <3>1. CASE Raise(p)
      BY <1>1, <3>1 DEF Raise, Idling
    <3>2. ASSUME NEW c, bench' = [bench EXCEPT ![p] = c], c.step \in {"ran", "running"}
          PROVE  bench'[p].step \notin {"summary", "publish"}
      BY <1>1, <3>2
    <3> QED  BY <1>1, <2>2, <3>1, <3>2 DEF RunOnce, Command
  <2>3. CASE Recorded(p)
    BY <1>1, <2>3 DEF Recorded, Command
  <2>4. CASE Finish(p) \/ Fail(p) \/ Kill(p)
    BY <1>1, <2>4 DEF Finish, Fail, Kill, Raise, Idling
  <2> QED  BY <2>1, <2>2, <2>3, <2>4
<1>4. \A q \in Proc \ {p} : bench'[q] = bench[q]
  BY <1>1 DEF Start, RunOnce, Recorded, Finish, Fail, Kill, Raise
<1>5. ~raced => acked' \subseteq acked \cup RunsIn(Summarized)
  <2>1. CASE Finish(p)
    <3>1. bench[p].step = "publish" /\ call[p].stage = "ok" /\ acked' = acked \cup {bench[p].run}
      BY <2>1 DEF Finish, Published
    <3>2. ~raced => bench[p].run \in RunsIn(Summarized)
      BY <3>1 DEF SerialInv, UpdateInv
    <3> QED  BY <3>1, <3>2
  <2>2. CASE ~Finish(p)
    <3>1. acked' = acked
      BY <2>2, Zenon DEF Start, RunOnce, Recorded, Fail, Kill
    <3> QED  BY <3>1
  <2> QED  BY <2>1, <2>2
<1> QED  BY <1>2, <1>3, <1>4, <1>5, SerialOutside

LEMMA WriteRecordSerial ==
  ASSUME NEW p \in Proc, RecordInv, SerialInv, WriteRecord(p)
  PROVE  SerialInv'
<1> SUFFICES ASSUME ~raced PROVE SerialInv'
  BY DEF SerialInv, WriteRecord
<1>1. PICK x \in Path : (\E d : OpenTmp(p, x, d)) /\ x # Summary
  <2>1. bench[p].step = "ran" /\ OpenTmp(p, RecordPath(bench[p].run), {ResultOf(bench[p])})
    BY DEF WriteRecord
  <2>2. RunFile[bench[p].run] \in Path \ {Summary}
    BY <2>1, RunOf, RecordFiles DEF Active
  <2> QED  BY <2>1, <2>2 DEF RecordPath
<1>2. /\ bench \in [Proc -> Command] /\ call \in [Proc -> Call] /\ StoreInv
      /\ bench' = [bench EXCEPT ![p].step = "record"] /\ acked' = acked
  BY DEF RecordInv, TypeOK, StoreTypeOK, WriteRecord
<1>3. Current(Summary)' = Current(Summary) /\ file' = file
  BY <1>1, <1>2, OpenTmpFile, BenchAssumption DEF SerialInv
<1>4. Summary \notin overlapped'
  BY <1>1 DEF OpenTmp, SerialInv
<1>5. \A q \in Proc \ {p} : bench'[q] = bench[q] /\ call'[q] = call[q]
  BY <1>1, <1>2 DEF OpenTmp
<1>6. ~Updating(p)' /\ UpdateInv(p)'
  BY <1>2 DEF Command, Updating, UpdateInv
<1> QED  BY <1>2, <1>3, <1>4, <1>5, <1>6, SerialStep DEF Summarized

LEMMA ReadSummarySerial ==
  ASSUME NEW p \in Proc, RecordInv, SerialInv, ReadSummary(p)
  PROVE  SerialInv'
<1> SUFFICES ASSUME ~raced' PROVE SerialInv'
  BY DEF SerialInv
<1>1. /\ bench \in [Proc -> Command] /\ call \in [Proc -> Call]
      /\ CheckExists(p, Summary) /\ bench' = [bench EXCEPT ![p].step = "summary"]
  BY DEF RecordInv, TypeOK, StoreTypeOK, ReadSummary
<1>2. ~raced /\ (\A q \in Proc \ {p} : ~Updating(q)) /\ acked' = acked
  BY DEF ReadSummary
<1>3. UNCHANGED <<file, tmp, content, overlapped>>
  BY <1>1 DEF CheckExists
<1>4. Current(Summary)' = Current(Summary) /\ Summarized' = Summarized
  BY <1>3, SummaryKept
<1>5. \A q \in Proc \ {p} : bench'[q] = bench[q] /\ call'[q] = call[q]
  BY <1>1 DEF CheckExists
<1>6. UpdateInv(p)'
  <2>1. bench'[p].step = "summary"
    BY <1>1 DEF Command
  <2>2. \/ file[Summary] = NoInode /\ call'[p] = Ended("ok", {})
        \/ call'[p].stage = "found"
    BY <1>1 DEF CheckExists
  <2>3. call'[p].stage = "ok" => call'[p].doc = Summarized
    BY <2>2 DEF Ended, Summarized, Current, Missing
  <2> QED  BY <1>4, <2>1, <2>2, <2>3 DEF UpdateInv, Ended
<1>7. Summary \notin overlapped'
  BY <1>2, <1>3 DEF SerialInv
<1> QED  BY <1>2, <1>3, <1>4, <1>5, <1>6, <1>7, SerialStep

LEMMA WriteSummarySerial ==
  ASSUME NEW p \in Proc, RecordInv, SerialInv, WriteSummary(p)
  PROVE  SerialInv'
<1> SUFFICES ASSUME ~raced PROVE SerialInv'
  BY DEF SerialInv, WriteSummary
<1>1. PICK d : /\ d = Kept(call[p].doc, bench[p]) \cup {ResultOf(bench[p])}
               /\ OpenTmp(p, Summary, d)
  BY DEF WriteSummary
<1>2. /\ bench \in [Proc -> Command] /\ call \in [Proc -> Call]
      /\ bench' = [bench EXCEPT ![p].step = "publish"] /\ call[p].stage = "ok"
      /\ bench[p].step = "summary" /\ acked' = acked /\ Updating(p)
  BY DEF RecordInv, TypeOK, StoreTypeOK, WriteSummary, Updating
<1>3. WritersOf(Summary) = {}
  <2> SUFFICES ASSUME NEW q \in Proc, call[q].stage \in WriteStage, call[q].path = Summary
               PROVE  FALSE
    BY DEF WritersOf
  <2>1. bench[q].step = "publish"
    BY WriterOf, RecordFiles
  <2>2. Updating(q)
    BY <2>1 DEF Updating
  <2> QED  BY <1>2, <2>1, <2>2 DEF SerialInv
<1>4. Summary \notin overlapped'
  BY <1>1, <1>3 DEF OpenTmp, SerialInv
<1>5. Current(Summary)' = Current(Summary) /\ file' = file
  BY <1>1, OpenTmpFile, BenchAssumption DEF RecordInv, SerialInv
<1>6. \A q \in Proc \ {p} : bench'[q] = bench[q] /\ call'[q] = call[q]
  BY <1>1, <1>2 DEF OpenTmp
<1>7. UpdateInv(p)'
  <2>1. call'[p].stage = "writing" /\ call'[p].doc = d
    BY <1>1, <1>2 DEF OpenTmp
  <2>2. bench'[p].step = "publish" /\ bench'[p].run = bench[p].run
    BY <1>2 DEF Command
  <2>3. call[p].doc = Summarized
    BY <1>2 DEF SerialInv, UpdateInv
  <2>4. RunsIn(Summarized) \cup {bench[p].run} \subseteq RunsIn(d)
    <3>1. ResultOf(bench[p]) \in d /\ ResultOf(bench[p]).run = bench[p].run
      BY <1>1 DEF ResultOf
    <3>2. \A e \in call[p].doc : e.run = bench[p].run \/ e \in d
      BY <1>1 DEF Kept
    <3> QED  BY <2>3, <3>1, <3>2 DEF RunsIn
  <2> QED  BY <1>5, <2>1, <2>2, <2>4 DEF UpdateInv, Summarized
<1> QED  BY <1>2, <1>4, <1>5, <1>6, <1>7, SerialStep DEF Summarized

LEMMA StoreStepSerial ==
  ASSUME NEW p \in Proc, RecordInv, SerialInv, StoreStep(p)
  PROVE  SerialInv'
<1> SUFFICES ASSUME ~raced PROVE SerialInv'
  BY DEF SerialInv, StoreStep
<1>1. /\ CallStep(p) /\ CommandInv(p) /\ bench[p].step \in {"record", "summary", "publish"}
      /\ UNCHANGED <<bench, raced, acked, runs, kills>>
      /\ StoreInv /\ Summary \in Path \ overlapped /\ PathInv(Summary) /\ UpdateInv(p)
  BY BenchAssumption DEF StoreStep, CallStep, RecordInv, StoreInv, SerialInv
<1>2. CallAfter(p) /\ overlapped' = overlapped
  BY <1>1, CallAfterStep
     DEF CallStep, CloseTmp, DumpFails, ReplaceFile, OpenFile, LoadFile
<1>3. /\ RunsIn(Summarized) \subseteq RunsIn(Summarized')
      /\ \/ Current(Summary)' = Current(Summary) /\ file'[Summary] = file[Summary]
         \/ Updating(p) /\ call[p].stage = "closed" /\ Summarized' = call[p].doc
  BY SummaryAfter
<1>4. Updating(p)' => Updating(p)
  <2>1. bench[p].step = "publish" /\ call'[p].stage \in WriteStage => call[p].stage \in WriteStage
    BY <1>1, <1>2 DEF CallAfter, CloseTmp, Ended, WriteStage
  <2> QED  BY <1>1, <2>1 DEF Updating
<1>5. bench[p].step \in {"summary", "publish"} => call[p].path \in {Summary, NoPath}
  BY <1>1 DEF CommandInv
<1>6. ASSUME bench[p].step = "summary", call'[p].stage = "reading"
      PROVE  call'[p].fd = file'[Summary]
  <2>1. OpenFile(p) /\ call'[p].fd = file[call[p].path]
    BY <1>2, <1>6 DEF CallAfter, Ended
  <2>2. call[p].path \in Path
    BY <1>1, <2>1 DEF StoreInv, CallShape, OpenFile
  <2>3. call[p].path = Summary
    BY <1>5, <1>6, <2>2, StoreAssumption
  <2> QED  BY <2>1, <2>3 DEF OpenFile
<1>7. ASSUME bench[p].step = "summary", call'[p].stage = "ok"
      PROVE  call'[p].doc = Summarized'
  <2>1. call[p].stage \notin WriteStage
    BY <1>1, <1>7 DEF CommandInv
  <2>2. LoadFile(p) /\ call'[p] = Ended("ok", content[call[p].fd].doc)
    BY <1>2, <1>7, <2>1 DEF CallAfter, Ended, ReplaceFile, WriteStage
  <2>3. call[p].fd = file[Summary] /\ call[p].fd \in Inode
    BY <1>1, <1>7, <2>2 DEF UpdateInv, LoadFile, StoreInv, CallShape
  <2>4. UNCHANGED <<file, content>>
    BY <2>2 DEF LoadFile
  <2> QED  BY <2>2, <2>3, <2>4, StoreAssumption DEF Ended, Summarized, Current
<1>8. ASSUME bench[p].step = "publish", call'[p].stage \in WriteStage
      PROVE  RunsIn(Summarized') \cup {bench[p].run} \subseteq RunsIn(call'[p].doc)
  <2>1. CloseTmp(p) /\ call'[p].doc = call[p].doc /\ call[p].stage = "writing"
    BY <1>1, <1>2, <1>8 DEF CallAfter, Ended, WriteStage, CommandInv, OpenFile, CloseTmp
  <2>2. Summarized' = Summarized
    BY <1>3, <2>1 DEF Summarized
  <2> QED  BY <1>1, <1>8, <2>1, <2>2 DEF UpdateInv, WriteStage
<1>9. ASSUME bench[p].step = "publish", call'[p].stage = "ok"
      PROVE  bench[p].run \in RunsIn(Summarized')
  <2>1. ReplaceFile(p)
    BY <1>1, <1>2, <1>9 DEF CallAfter, Ended, CommandInv, LoadFile, WriteStage
  <2>2. call[p].stage = "closed" /\ call[p].path = Summary
    BY <1>9, <2>1, WriterOf DEF ReplaceFile, WriteStage
  <2>3. p \in WritersOf(Summary)
    BY <2>2 DEF WritersOf, WriteStage
  <2>4. call[p].fd = tmp[Summary] /\ content[tmp[Summary]] = Text(call[p].doc) /\ call[p].fd \in Inode
    BY <1>1, <2>2, <2>3 DEF PathInv, StoreInv, CallShape, WriteStage
  <2>5. file'[Summary] = tmp[Summary] /\ content' = content
    BY <1>1, <2>1, <2>2, <2>4, StoreAssumption DEF ReplaceFile, StoreInv, StoreTypeOK
  <2>6. Summarized' = call[p].doc
    BY <2>4, <2>5, StoreAssumption DEF Summarized, Current, Text
  <2> QED  BY <1>1, <1>9, <2>2, <2>6 DEF UpdateInv, WriteStage
<1>10. UpdateInv(p)'
  BY <1>1, <1>6, <1>7, <1>8, <1>9 DEF UpdateInv
<1>11. \A q \in Proc \ {p} : bench'[q] = bench[q] /\ call'[q] = call[q]
  BY <1>1, <1>2 DEF CallAfter
<1> QED  BY <1>1, <1>2, <1>3, <1>4, <1>10, <1>11, SerialStep

LEMMA SerialInitInv == Init => SerialInv
<1> SUFFICES ASSUME Init PROVE SerialInv
  OBVIOUS
<1>1. \A p \in Proc : bench[p].step = "idle"
  BY DEF Init, Idling
<1> QED  BY <1>1 DEF Init, StoreInit, SerialInv, Updating, UpdateInv

LEMMA SerialStepInv == RecordInv /\ SerialInv /\ [Next]_vars => SerialInv'
<1> SUFFICES ASSUME RecordInv, SerialInv, [Next]_vars PROVE SerialInv'
  OBVIOUS
<1>1. ASSUME NEW p \in Proc, Start(p) \/ Kill(p) PROVE SerialInv'
  BY <1>1, OutsideStep
<1>2. ASSUME NEW p \in Proc, Record(p) PROVE SerialInv'
  BY <1>2, OutsideStep, WriteRecordSerial, ReadSummarySerial, WriteSummarySerial,
     StoreStepSerial DEF Record
<1>3. CASE UNCHANGED vars
  <2>1. UNCHANGED <<file, tmp, content, call, overlapped, bench, raced, acked>>
    BY <1>3 DEF vars
  <2>2. Current(Summary)' = Current(Summary) /\ Summarized' = Summarized
    BY <2>1, SummaryKept
  <2> QED  BY <2>1, <2>2 DEF SerialInv, Updating, UpdateInv
<1> QED  BY <1>1, <1>2, <1>3 DEF Next

(* Once a run is in the summary it stays there, and a run whose record was *)
(* printed is in it, as long as no two commands have updated the summary   *)
(* at the same time.                                                       *)
THEOREM BenchSummaryKeepsRuns == Spec => []SummaryKeepsRuns
<1>1. Init => RecordInv /\ SerialInv
  BY RecordInitInv, SerialInitInv
<1>2. RecordInv /\ SerialInv /\ [Next]_vars => RecordInv' /\ SerialInv'
  BY RecordStepInv, SerialStepInv
<1>3. SerialInv => SummaryKeepsRuns
  BY DEF SerialInv, SummaryKeepsRuns
<1> QED  BY <1>1, <1>2, <1>3, PTL DEF Spec
=============================================================================
