------------------------- MODULE BenchmarkRecorder -------------------------
(***************************************************************************)
(* npu_control_plane/benchmark.py: `npu-ctrl bench run` runs a command     *)
(* warmup + iters times, writes the record of the run to a file of its own *)
(* and then adds an entry to benchmarks/summary.json.  The command is run  *)
(* by run_command of probe.py.  Any number of processes do this at once.   *)
(***************************************************************************)
EXTENDS MetadataStore, Integers

CONSTANTS
  Summary,   \* the path of summary.json
  RunFile,   \* RunFile[r]: the path of the record of run r, a fresh UUID
  Warmups,   \* values given to --warmup
  Iters,     \* values given to --iters
  MaxRuns,   \* bound: bench commands started; run r is the r-th of them
  MaxKills   \* bound: processes killed

RunId == 1..MaxRuns

(* returncode: 0, a value of the command's own, 127 and 124 of run_command.*)
RC == {"zero", "nonzero", "missing", "timeout"}

(* What an entry of the summary and the record of the run have in common.  *)
(* The median is that of the durations of the passes in timed, None if     *)
(* there are none; passes, the number of passes made, is a history.        *)
Result == [run : RunId, warmup : Warmups, iters : Iters,
           passes : Nat, timed : SUBSET Nat, rc : RC]

ASSUME BenchAssumption ==
  /\ Summary \in Path
  /\ RunFile \in [RunId -> Path \ {Summary}]
  /\ \A r, s \in RunId : RunFile[r] = RunFile[s] => r = s
  /\ Entry \subseteq Result
  /\ \A r \in RunId, w \in Warmups, n \in Iters, rc \in RC :
       \A k \in 0 .. w + n : \A t \in SUBSET (0 .. k - 1) :
         [run |-> r, warmup |-> w, iters |-> n, passes |-> k, timed |-> t, rc |-> rc] \in Entry
  /\ Warmups \subseteq Int /\ Iters \subseteq Int
  /\ MaxRuns \in Nat /\ MaxKills \in Nat

VARIABLES
  bench,  \* bench[p]: the bench command of process p
  raced,  \* history: two commands were updating the summary at once
  acked,  \* history: the runs whose record was printed
  runs, kills

vars == <<file, tmp, content, call, overlapped, bench, raced, acked, runs, kills>>

(* The steps: running the command, about to write the record, in its       *)
(* write_json, about to read the summary, in read_json, in write_json.     *)
Over   == {"idle", "done", "raised"}
Active == {"running", "ran", "record", "recorded", "summary", "publish"}
Command == [step : Over \cup Active, run : RunId \cup {0}, warmup : Int,
            iters : Int, index : Nat, timed : SUBSET Nat, rc : RC, text : BOOLEAN]

Idling(step) == [step |-> step, run |-> 0, warmup |-> 0, iters |-> 0,
                 index |-> 0, timed |-> {}, rc |-> "zero", text |-> TRUE]

ResultOf(b) == [run |-> b.run, warmup |-> b.warmup, iters |-> b.iters,
                passes |-> b.index, timed |-> b.timed, rc |-> b.rc]
BugSharedFile(r) == RunFile[1]
RecordPath(r)    == RunFile[r]
RunsIn(d)   == {e.run : e \in d}

Init ==
  /\ StoreInit
  /\ bench = [p \in Proc |-> Idling("idle")]
  /\ raced = FALSE
  /\ acked = {}
  /\ runs = 0 /\ kills = 0

-----------------------------------------------------------------------------
(* record_command                                                          *)

Raise(p) == bench' = [bench EXCEPT ![p] = Idling("raised")]

(* ValueError for a negative warmup or no iterations.                      *)
Invalid(w, n) == w < 0 \/ n <= 0

Start(p) ==
  /\ bench[p].step \in Over
  /\ runs < MaxRuns
  /\ runs' = runs + 1
  /\ \E w \in Warmups, n \in Iters :
       IF Invalid(w, n)
       THEN Raise(p)
       ELSE bench' = [bench EXCEPT ![p] =
                        [step |-> "running", run |-> runs', warmup |-> w, iters |-> n,
                         index |-> 0, timed |-> {}, rc |-> "zero", text |-> TRUE]]
  /\ UNCHANGED <<storeVars, raced, acked, kills>>

(* Is pass number b.index timed?                                           *)
BugFirstTimed(b) == b.index < b.iters
Timed(b)         == b.index >= b.warmup

(* One pass of the loop.  What TimeoutExpired has captured is bytes, not   *)
(* text, if the command had printed anything; an error other than          *)
(* FileNotFoundError in starting the command leaves record_command.        *)
RunOnce(p) ==
  /\ bench[p].step = "running"
  /\ \/ Raise(p)
     \/ \E rc \in RC, text \in BOOLEAN :
          /\ text \/ rc = "timeout"
          /\ LET b == bench[p]
             IN bench' = [bench EXCEPT ![p] =
                  [b EXCEPT
                     !.step  = IF rc # "zero" \/ b.index + 1 = b.warmup + b.iters
                               THEN "ran" ELSE "running",
                     !.index = @ + 1,
                     !.timed = IF Timed(b) THEN @ \cup {b.index} ELSE @,
                     !.rc    = rc,
                     !.text  = text]]
  /\ UNCHANGED <<storeVars, raced, acked, runs, kills>>

(* write_json of the full record, into the file of this run.               *)
WriteRecord(p) ==
  /\ bench[p].step = "ran"
  /\ OpenTmp(p, RecordPath(bench[p].run), {ResultOf(bench[p])})
  /\ bench' = [bench EXCEPT ![p].step = "record"]
  /\ UNCHANGED <<raced, acked, runs, kills>>

Recorded(p) ==
  /\ bench[p].step = "record"
  /\ call[p].stage = "ok"
  /\ bench' = [bench EXCEPT ![p].step = "recorded"]
  /\ UNCHANGED <<storeVars, raced, acked, runs, kills>>

(* p has begun to read the summary and has not yet replaced it.            *)
Updating(p) ==
  \/ bench[p].step = "summary"
  \/ bench[p].step = "publish" /\ call[p].stage \in WriteStage

(* self.list_runs()                                                        *)
ReadSummary(p) ==
  /\ bench[p].step = "recorded"
  /\ CheckExists(p, Summary)
  /\ bench' = [bench EXCEPT ![p].step = "summary"]
  /\ raced' = (raced \/ \E q \in Proc \ {p} : Updating(q))
  /\ UNCHANGED <<acked, runs, kills>>

(* The entries of the summary d that stay when b is added.                 *)
Kept(d, b) == {e \in d : e.run # b.run}

WriteSummary(p) ==
  /\ bench[p].step = "summary"
  /\ call[p].stage = "ok"
  /\ OpenTmp(p, Summary, Kept(call[p].doc, bench[p]) \cup {ResultOf(bench[p])})
  /\ bench' = [bench EXCEPT ![p].step = "publish"]
  /\ UNCHANGED <<raced, acked, runs, kills>>

(* json.dump of the record raises TypeError at the bytes of a timed-out    *)
(* command; the summary entry holds none of its output.                    *)
StoreStep(p) ==
  /\ bench[p].step \in {"record", "summary", "publish"}
  /\ IF bench[p].step = "record" /\ ~bench[p].text THEN DumpFails(p) ELSE CallStep(p)
  /\ UNCHANGED <<bench, raced, acked, runs, kills>>

BugAnyOutcome(p) == bench[p].step = "publish" /\ call[p].stage \in {"ok", "error"}
Published(p)     == bench[p].step = "publish" /\ call[p].stage = "ok"

Finish(p) ==
  /\ Published(p)
  /\ bench' = [bench EXCEPT ![p] = Idling("done")]
  /\ acked' = acked \cup {bench[p].run}
  /\ UNCHANGED <<storeVars, raced, runs, kills>>

(* main catches nothing that record_command raises.                        *)
Fail(p) ==
  /\ bench[p].step \in {"record", "summary", "publish"}
  /\ call[p].stage = "error"
  /\ Raise(p)
  /\ UNCHANGED <<storeVars, raced, acked, runs, kills>>

Record(p) ==
  \/ RunOnce(p) \/ WriteRecord(p) \/ Recorded(p) \/ ReadSummary(p)
  \/ WriteSummary(p) \/ StoreStep(p) \/ Finish(p) \/ Fail(p)

Kill(p) ==
  /\ kills < MaxKills
  /\ bench[p].step \in Active
  /\ KillCall(p)
  /\ bench' = [bench EXCEPT ![p] = Idling("idle")]
  /\ kills' = kills + 1
  /\ UNCHANGED <<raced, acked, runs>>

Next == \E p \in Proc : Start(p) \/ Record(p) \/ Kill(p)

Spec == Init /\ [][Next]_vars

-----------------------------------------------------------------------------
TypeOK ==
  /\ StoreTypeOK
  /\ bench \in [Proc -> Command]
  /\ raced \in BOOLEAN
  /\ acked \in SUBSET RunId
  /\ runs \in 0..MaxRuns /\ kills \in 0..MaxKills

Summarized == Current(Summary).doc

(* A run that the summary lists has its full record in the store, whole    *)
(* and with the same result, whatever races and crashes there have been:   *)
(* the record is written before the summary, into a file of its own.       *)
ListedRunsHaveRecords ==
  \A e \in Summarized : Current(RunFile[e.run]) = Text({e})

(* A run that the summary lists was timed in the passes after its warm-up  *)
(* and in no other: a success in each of its iterations, a failure in those*)
(* up to the pass that failed, and in none if that was a warm-up.          *)
SuccessTimedThroughout ==
  \A e \in Summarized :
    /\ e.timed = e.warmup .. e.passes - 1
    /\ e.rc = "zero" => e.passes = e.warmup + e.iters

(* Once a run is in the summary it stays there, as long as no two commands *)
(* have updated the summary at the same time; a run whose record was       *)
(* printed is in the summary.                                              *)
SummaryKeepsRuns ==
  ~raced => acked \subseteq RunsIn(Summarized)
=============================================================================
