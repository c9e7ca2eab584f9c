---------------------------- MODULE MatrixProofs ----------------------------
(***************************************************************************)
(* MatrixOutcome for every platform set, matrix and number of invocations. *)
(*                                                                         *)
(* MatrixOutcome speaks only of the state after build_all_platforms has    *)
(* returned; what makes it true is what the loop keeps while it runs.      *)
(* MatrixInv is that loop invariant of build_all_platforms: the targets   *)
(* before mpos have a result, and an artifact of this invocation exactly   *)
(* when their build succeeded; the targets from mpos on have none and no   *)
(* artifact of this invocation; all_ok is the conjunction of the results   *)
(* so far; only the last attempted target can have raised, and then the   *)
(* invocation ended with that exception.  It needs two facts about the     *)
(* rest of the model: no artifact carries a later run number than the      *)
(* current one (so main() starts a build-all with no artifact of its own), *)
(* and the fail-fast invariant (so a running build-all is at one of its    *)
(* three steps, and the loop runs only at the third).                      *)
(***************************************************************************)
EXTENDS BuildRunnerProofs

USE Assumptions

\* build/ holds no artifact of a later invocation than the current one.
BinRunsInv ==
    \A s \in Slots : bin[s] # None => bin[s].run <= run

\* The artifact of target t was written by the current invocation.
Fresh(t) == bin[t] # None /\ bin[t].run = run

\* What the loop of build_all_platforms keeps for the i-th target of the
\* matrix.
TargetInv(i) ==
    IF i < mpos
      THEN /\ tres[Matrix[i]] \in StepResult
           /\ Fresh(Matrix[i]) <=> tres[Matrix[i]] = "ok"
           /\ tres[Matrix[i]] = "exc" => Len(Trace) = 3 /\ Trace[3] = "exc"
      ELSE /\ tres[Matrix[i]] = "none"
           /\ ~Fresh(Matrix[i])

MatrixInv ==
    (run >= 1 /\ Cmd = "build-all") =>
        /\ mpos > 1 => Len(Trace) >= 2
        /\ \A i \in 1..Len(Matrix) : TargetInv(i)
        /\ allOk <=> \A i \in 1..mpos - 1 : tres[Matrix[i]] = "ok"
        /\ (Len(Trace) = 3 /\ Trace[3] # "exc") =>
             /\ mpos = Len(Matrix) + 1
             /\ (Trace[3] = "ok") <=> allOk

MatrixProofInv ==
    /\ FailFastInv
    /\ BinRunsInv
    /\ MatrixInv

-----------------------------------------------------------------------------
(* Lemmas about the model's operators.                                     *)

\* A running build-all is at one of main()'s three steps for it:
\* check_prerequisites, download_dependencies, build_all_platforms.
LEMMA BuildAllSteps ==
    ASSUME FailFastInv, Running, Cmd = "build-all"
    PROVE  /\ Current \in {"Prerequisites", "Dependencies", "BuildAll"}
           /\ Current \in {"Prerequisites", "Dependencies"} => Len(Trace) \in 0..1
           /\ Current = "BuildAll" => Len(Trace) = 2
<1>1. Steps = <<"Prerequisites", "Dependencies", "BuildAll">>
  BY DEF Steps, StepsOf
<1>2. run \in 1..MaxRuns /\ hist[run] \in HistEntry
  BY DEF FailFastInv, TypeInv, TypeOK, Running
<1>3. Trace \in Seq(StepResult) /\ Len(Trace) < 3
  BY <1>1, <1>2 DEF FailFastInv, RunningInv, Trace, HistEntry
<1>4. CASE Len(Trace) = 0
  BY <1>1, <1>4 DEF Current
<1>5. CASE Len(Trace) = 1
  BY <1>1, <1>5 DEF Current
<1>6. CASE Len(Trace) = 2
  BY <1>1, <1>6 DEF Current
<1>7. Len(Trace) = 0 \/ Len(Trace) = 1 \/ Len(Trace) = 2
  <2>1. Len(Trace) \in Nat
    BY <1>3
  <2>2. \A x \in Nat : x < 3 => x = 0 \/ x = 1 \/ x = 2
    OBVIOUS
  <2>3. QED
    BY <1>3, <2>1, <2>2
<1>8. QED
  BY <1>4, <1>5, <1>6, <1>7, Zenon

\* The running invocation's trace is a sequence of step results.
LEMMA TraceTyped ==
    ASSUME TypeInv, Running
    PROVE  Trace \in Seq(StepResult) /\ Len(Trace) \in Nat
<1>1. run \in 1..MaxRuns /\ hist[run] \in HistEntry
  BY DEF TypeInv, TypeOK, Running
<1>2. QED
  BY <1>1 DEF Trace, HistEntry

\* Recording a result appends it to the running invocation's trace and
\* leaves its command, and every other invocation, as they were.
LEMMA RecordTrace ==
    ASSUME TypeInv, Running, NEW r \in StepResult, Record(r), run' = run
    PROVE  /\ Cmd' = Cmd
           /\ Trace' = Append(Trace, r)
           /\ Len(Trace') = Len(Trace) + 1
           /\ Trace'[Len(Trace) + 1] = r
<1>1. run \in 1..MaxRuns /\ hist \in [1..MaxRuns -> HistEntry]
  BY DEF TypeInv, TypeOK, Running
<1>2. hist'[run] = [hist[run] EXCEPT !.trace = Append(Trace, r)]
  BY <1>1 DEF Record, Trace
<1>3. hist'[run].cmd = Cmd /\ hist'[run].trace = Append(Trace, r)
  BY <1>1, <1>2 DEF HistEntry, Cmd
<1>4. Trace \in Seq(StepResult)
  BY <1>1 DEF Trace, HistEntry
<1>5. QED
  BY <1>3, <1>4 DEF Cmd, Trace

\* A step of the running invocation is a step of the same invocation.
LEMMA StepKeepsCmd ==
    ASSUME TypeInv, Running, Step
    PROVE  run' = run /\ Cmd' = Cmd
<1>1. (RecordStep \/ Quiet) /\ UNCHANGED <<run, interrupted>>
  BY StepShape
<1>2. CASE RecordStep
  BY <1>1, <1>2, RecordTrace DEF RecordStep
<1>3. CASE Quiet
  BY <1>1, <1>3 DEF Quiet, Cmd
<1>4. QED
  BY <1>1, <1>2, <1>3

\* A build leaves every slot but its own alone and stamps its own with the
\* current run.
LEMMA BuiltForFrame ==
    ASSUME TypeInv, NEW t, NEW o, NEW s \in Slots
    PROVE  BuiltFor(t, o)[s] = bin[s] \/ BuiltFor(t, o)[s].run = run
BY DEF BuiltFor, TypeInv, TypeOK

\* What build_for_platform(t) leaves in slot s.
LEMMA BuiltForAt ==
    ASSUME TypeInv, NEW t \in Slots, NEW o, NEW s \in Slots
    PROVE  BuiltFor(t, o)[s] = IF s = t /\ o = "ok"
                                 THEN [target |-> CompiledFor(t), run |-> run]
                                 ELSE bin[s]
BY DEF BuiltFor, TypeInv, TypeOK

\* No step writes an artifact stamped with anything but the current run.
LEMMA BinFrame ==
    ASSUME TypeInv, Running, Step, NEW s \in Slots
    PROVE  bin'[s] = bin[s] \/ bin'[s] = None \/ bin'[s].run = run
<1>1. CASE check_prerequisites \/ download_dependencies \/ format_code
           \/ lint_code \/ run_security_checks \/ build_all_platforms_done
  BY <1>1 DEF check_prerequisites, download_dependencies, format_code, lint_code,
              run_security_checks, build_all_platforms_done, Pure, files
<1>2. CASE run_tests \/ generate_build_info
  BY <1>2 DEF run_tests, generate_build_info
<1>3. CASE build_binary
  BY <1>3 DEF build_binary, TypeInv, TypeOK
<1>4. CASE build_for_platform
  BY <1>4, BuiltForFrame DEF build_for_platform
<1>5. CASE build_all_platforms_target
  BY <1>5, BuiltForFrame DEF build_all_platforms_target
<1>6. CASE clean
  BY <1>6 DEF clean
<1>7. QED
  BY <1>1, <1>2, <1>3, <1>4, <1>5, <1>6 DEF Step

-----------------------------------------------------------------------------
(* The inductive invariant.                                                *)

THEOREM MatrixProofInvInit == Init => MatrixProofInv
BY FailFastInvInit DEF Init, MatrixProofInv, BinRunsInv, MatrixInv

\* No step of any actor stamps an artifact with a later run than the
\* current one; main() only moves the current run forward.
LEMMA BinRunsStep ==
    ASSUME MatrixProofInv, [Next]_vars
    PROVE  BinRunsInv'
<1>1. TypeInv /\ run \in Runs
  BY DEF MatrixProofInv, FailFastInv, TypeInv, TypeOK
<1>2. CASE Step
  <2>1. Running /\ run' = run
    BY <1>1, <1>2, StepKeepsCmd DEF Step
  <2>2. SUFFICES ASSUME NEW s \in Slots, bin'[s] # None PROVE bin'[s].run <= run
    BY <2>1 DEF BinRunsInv
  <2>3. bin'[s] = bin[s] \/ bin'[s].run = run
    BY <1>1, <1>2, <2>1, <2>2, BinFrame
  <2>4. QED
    BY <1>1, <2>2, <2>3 DEF MatrixProofInv, BinRunsInv, Runs
<1>3. CASE Interrupt
  BY <1>3 DEF Interrupt, files, MatrixProofInv, BinRunsInv
<1>4. CASE main
  <2>1. run' = run + 1 /\ bin' = bin
    BY <1>4 DEF main, files
  <2>2. SUFFICES ASSUME NEW s \in Slots, bin[s] # None PROVE bin[s].run <= run + 1
    BY <2>1 DEF BinRunsInv
  <2>3. bin[s] \in Binary /\ bin[s].run <= run
    BY <2>2 DEF MatrixProofInv, BinRunsInv, FailFastInv, TypeInv, TypeOK
  <2>4. QED
    BY <1>1, <2>3 DEF Binary, Runs
<1>5. CASE UNCHANGED vars
  BY <1>5 DEF vars, files, proc, MatrixProofInv, BinRunsInv
<1>6. QED
  BY <1>2, <1>3, <1>4, <1>5 DEF Next

\* main() starting a build-all resets the loop state; build/ holds no
\* artifact of the new run yet.
LEMMA MatrixMainStep ==
    ASSUME MatrixProofInv, main
    PROVE  MatrixInv'
<1>1. PICK c \in Commands, p \in PlatformArg :
          hist' = [hist EXCEPT ![run + 1] = [cmd |-> c, plat |-> p, trace |-> <<>>]]
  BY DEF main
<1>2. run \in 0..MaxRuns - 1 /\ run' = run + 1 /\ hist \in [1..MaxRuns -> HistEntry]
  BY DEF main, MatrixProofInv, FailFastInv, TypeInv, TypeOK, Runs
<1>3. Cmd' = c /\ Trace' = <<>>
  BY <1>1, <1>2 DEF Cmd, Trace
<1>4. CASE c # "build-all"
  BY <1>3, <1>4 DEF MatrixInv
<1>5. CASE c = "build-all"
  <2>1. /\ mpos' = 1 /\ allOk' = TRUE /\ bin' = bin
        /\ tres' = [t \in Platforms |-> "none"]
    BY DEF main, files
  <2>2. ASSUME NEW i \in 1..Len(Matrix) PROVE TargetInv(i)'
    <3>1. Matrix[i] \in Platforms /\ Matrix[i] \in Slots
      BY DEF Slots
    <3>2. tres'[Matrix[i]] = "none"
      BY <2>1, <3>1
    <3>3. bin[Matrix[i]] # None => bin[Matrix[i]] \in Binary /\ bin[Matrix[i]].run <= run
      BY <3>1 DEF MatrixProofInv, BinRunsInv, FailFastInv, TypeInv, TypeOK
    <3>4. ~Fresh(Matrix[i])'
      BY <1>2, <2>1, <3>3 DEF Fresh, Binary
    <3>5. QED
      BY <2>1, <3>2, <3>4 DEF TargetInv
  <2>3. QED
    BY <1>3, <2>1, <2>2 DEF MatrixInv
<1>6. QED
  BY <1>4, <1>5

\* check_prerequisites and download_dependencies of a build-all run
\* before the loop: they leave its state as main() set it.
LEMMA MatrixPureStep ==
    ASSUME MatrixProofInv, Running, Cmd = "build-all",
           check_prerequisites \/ download_dependencies
    PROVE  MatrixInv'
<1>1. /\ Current \in {"Prerequisites", "Dependencies"}
      /\ \E r \in StepResult : Record(r)
      /\ UNCHANGED <<run, interrupted, mpos, allOk, covReported, files, tres>>
  BY ThenTyped DEF check_prerequisites, download_dependencies, Pure, StepResult
<1>2. TypeInv /\ run \in 1..MaxRuns /\ mpos \in 1..Len(Matrix) + 1
  BY DEF MatrixProofInv, FailFastInv, TypeInv, TypeOK, Running
<1>3. Len(Trace) \in 0..1
  BY <1>1, BuildAllSteps DEF MatrixProofInv
<1>4. mpos = 1
  <2>1. mpos > 1 => Len(Trace) >= 2
    BY <1>2 DEF MatrixProofInv, MatrixInv
  <2>2. Len(Trace) \in Nat
    BY <1>2, TraceTyped
  <2>3. \A n \in 0..1, m \in 1..Len(Matrix) + 1 : (m > 1 => n >= 2) => m = 1
    OBVIOUS
  <2>4. QED
    BY <1>2, <1>3, <2>1, <2>2, <2>3
<1>5. PICK r \in StepResult : Record(r)
  BY <1>1
<1>6. Cmd' = Cmd /\ Len(Trace') = Len(Trace) + 1
  BY <1>1, <1>2, <1>5, RecordTrace
<1>7. ASSUME NEW i \in 1..Len(Matrix) PROVE TargetInv(i)'
  <2>1. tres[Matrix[i]] = "none" /\ ~Fresh(Matrix[i])
    BY <1>2, <1>4 DEF MatrixProofInv, MatrixInv, TargetInv
  <2>2. Fresh(Matrix[i])' <=> Fresh(Matrix[i])
    BY <1>1 DEF Fresh, files
  <2>3. QED
    BY <1>1, <1>4, <2>1, <2>2 DEF TargetInv
<1>8. allOk' <=> \A i \in 1..mpos' - 1 : tres'[Matrix[i]] = "ok"
  BY <1>1, <1>2 DEF MatrixProofInv, MatrixInv
<1>9. run' >= 1 /\ mpos' = 1 /\ Len(Trace') \in 1..2
  <2>1. run' >= 1 /\ mpos' = 1
    BY <1>1, <1>2, <1>4
  <2>2. \A n \in 0..1 : n + 1 \in 1..2
    OBVIOUS
  <2>3. Len(Trace') \in 1..2
    BY <1>3, <1>6, <2>2, Zenon
  <2>4. QED
    BY <2>1, <2>3
<1>10. QED
  BY <1>7, <1>8, <1>9 DEF MatrixInv

\* build_all_platforms returns all_ok once every target has been tried.
LEMMA MatrixDoneStep ==
    ASSUME MatrixProofInv, Running, Cmd = "build-all", build_all_platforms_done
    PROVE  MatrixInv'
<1> DEFINE r == IF allOk THEN "ok" ELSE "fail"
<1>1. /\ Current = "BuildAll" /\ mpos > Len(Matrix) /\ Record(r)
      /\ UNCHANGED <<run, interrupted, mpos, allOk, covReported, files, tres>>
  BY DEF build_all_platforms_done
<1>2. TypeInv /\ run \in 1..MaxRuns /\ mpos \in 1..Len(Matrix) + 1
  BY DEF MatrixProofInv, FailFastInv, TypeInv, TypeOK, Running
<1>3. Len(Trace) = 2 /\ mpos = Len(Matrix) + 1
  BY <1>1, <1>2, BuildAllSteps DEF MatrixProofInv
<1>4. Cmd' = Cmd /\ Len(Trace') = 3 /\ Trace'[3] = r
  BY <1>1, <1>2, <1>3, RecordTrace DEF StepResult
<1>5. \A i \in 1..Len(Matrix) : TargetInv(i)
  BY <1>2 DEF MatrixProofInv, MatrixInv
<1>6. ASSUME NEW i \in 1..Len(Matrix) PROVE TargetInv(i)'
  <2>1. i < mpos
    BY <1>3
  <2>2. /\ tres[Matrix[i]] \in StepResult
        /\ Fresh(Matrix[i]) <=> tres[Matrix[i]] = "ok"
        /\ tres[Matrix[i]] # "exc"
    BY <1>3, <1>5, <2>1 DEF TargetInv
  <2>3. Fresh(Matrix[i])' <=> Fresh(Matrix[i])
    BY <1>1 DEF Fresh, files
  <2>4. QED
    BY <1>1, <2>1, <2>2, <2>3 DEF TargetInv
<1>7. allOk' <=> \A i \in 1..mpos' - 1 : tres'[Matrix[i]] = "ok"
  BY <1>1, <1>2 DEF MatrixProofInv, MatrixInv
<1>8. QED
  BY <1>1, <1>3, <1>4, <1>6, <1>7 DEF MatrixInv

\* One iteration of the loop: the target at mpos gets its result, and an
\* artifact of this run exactly when `go build` exited 0; a False does not
\* end the loop, an exception ends it and the invocation.
LEMMA MatrixTargetStep ==
    ASSUME MatrixProofInv, Running, Cmd = "build-all", build_all_platforms_target
    PROVE  MatrixInv'
<1> DEFINE t == Matrix[mpos]
<1>1. PICK o \in Outcome :
        /\ bin' = BuiltFor(t, o)
        /\ tres' = [tres EXCEPT ![t] = Then(o, "ok")]
        /\ mpos' = mpos + 1
        /\ allOk' = (allOk /\ Then(o, "ok") = "ok")
        /\ IF Then(o, "ok") = "exc" THEN Record("exc")
                                   ELSE UNCHANGED <<hist, failedStep, phase, verdict>>
  BY DEF build_all_platforms_target
<1> DEFINE r == Then(o, "ok")
<1>2. /\ TypeInv /\ run \in 1..MaxRuns /\ run' = run
      /\ mpos \in 1..Len(Matrix) /\ t \in Platforms /\ t \in Slots
      /\ tres \in [Platforms -> TargetResult]
  BY DEF build_all_platforms_target, MatrixProofInv, FailFastInv, TypeInv, TypeOK,
         Running, Slots
<1>3. Len(Trace) = 2
  BY <1>2, BuildAllSteps DEF build_all_platforms_target, MatrixProofInv
<1>4. r \in StepResult /\ (r = "ok" <=> o = "ok")
  BY DEF Then, StepResult
<1>5. /\ Cmd' = Cmd
      /\ r = "exc" => Len(Trace') = 3 /\ Trace'[3] = "exc"
      /\ r # "exc" => Len(Trace') = 2
  <2>1. CASE r = "exc"
    <3>1. Record("exc") /\ "exc" \in StepResult
      BY <1>1, <2>1 DEF StepResult
    <3>2. Cmd' = Cmd /\ Len(Trace') = Len(Trace) + 1 /\ Trace'[Len(Trace) + 1] = "exc"
      BY <1>2, <3>1, RecordTrace
    <3>3. QED
      BY <1>3, <2>1, <3>2
  <2>2. CASE r # "exc"
    BY <1>1, <1>2, <1>3, <2>2 DEF Cmd, Trace
  <2>3. QED
    BY <2>1, <2>2
<1>6. \A i \in 1..Len(Matrix) : TargetInv(i)
  BY <1>2 DEF MatrixProofInv, MatrixInv
<1>7. ASSUME NEW i \in 1..Len(Matrix) PROVE TargetInv(i)'
  <2>1. Matrix[i] \in Platforms /\ Matrix[i] \in Slots
    BY DEF Slots
  <2>2. CASE i < mpos
    <3>1. Matrix[i] # t
      BY <1>2, <2>2
    <3>2. tres'[Matrix[i]] = tres[Matrix[i]] /\ bin'[Matrix[i]] = bin[Matrix[i]]
      <4>1. tres'[Matrix[i]] = tres[Matrix[i]]
        BY <1>1, <1>2, <2>1, <3>1
      <4>2. bin'[Matrix[i]] = bin[Matrix[i]]
        BY <1>1, <1>2, <2>1, <3>1 DEF BuiltFor, TypeInv, TypeOK
      <4>3. QED
        BY <4>1, <4>2
    <3>3. /\ tres[Matrix[i]] \in StepResult
          /\ Fresh(Matrix[i]) <=> tres[Matrix[i]] = "ok"
          /\ tres[Matrix[i]] # "exc"
      BY <1>3, <1>6, <2>2 DEF TargetInv
    <3>4. QED
      BY <1>1, <1>2, <2>2, <3>2, <3>3 DEF TargetInv, Fresh
  <2>3. CASE i = mpos
    <3>1. tres'[t] = r
      BY <1>1, <1>2
    <3>2. bin'[t] = IF o = "ok" THEN [target |-> CompiledFor(t), run |-> run] ELSE bin[t]
      BY <1>1, <1>2 DEF BuiltFor, TypeInv, TypeOK
    <3>3. ~Fresh(Matrix[i])
      BY <1>2, <1>6, <2>3 DEF TargetInv
    <3>4. [target |-> CompiledFor(t), run |-> run] # None
      BY <1>2 DEF CompiledFor
    <3>5. Fresh(Matrix[i])' <=> o = "ok"
      BY <1>2, <2>3, <3>2, <3>3, <3>4 DEF Fresh
    <3>6. i < mpos' /\ tres'[Matrix[i]] \in StepResult
      BY <1>1, <1>4, <2>3, <3>1
    <3>7. tres'[Matrix[i]] = "ok" <=> o = "ok"
      BY <1>4, <2>3, <3>1
    <3>8. tres'[Matrix[i]] = "exc" => Len(Trace') = 3 /\ Trace'[3] = "exc"
      BY <1>5, <2>3, <3>1
    <3>9. QED
      BY <3>5, <3>6, <3>7, <3>8 DEF TargetInv
  <2>4. CASE i > mpos
    <3>1. Matrix[i] # t
      BY <1>2, <2>4
    <3>2. tres'[Matrix[i]] = tres[Matrix[i]] /\ bin'[Matrix[i]] = bin[Matrix[i]]
      <4>1. tres'[Matrix[i]] = tres[Matrix[i]]
        BY <1>1, <1>2, <2>1, <3>1
      <4>2. bin'[Matrix[i]] = bin[Matrix[i]]
        BY <1>1, <1>2, <2>1, <3>1 DEF BuiltFor, TypeInv, TypeOK
      <4>3. QED
        BY <4>1, <4>2
    <3>3. tres[Matrix[i]] = "none" /\ ~Fresh(Matrix[i])
      BY <1>2, <1>6, <2>4 DEF TargetInv
    <3>4. QED
      BY <1>1, <1>2, <2>4, <3>2, <3>3 DEF TargetInv, Fresh
  <2>5. QED
    BY <1>2, <2>2, <2>3, <2>4
<1>8. allOk' <=> \A i \in 1..mpos' - 1 : tres'[Matrix[i]] = "ok"
  <2>1. allOk <=> \A i \in 1..mpos - 1 : tres[Matrix[i]] = "ok"
    BY <1>2 DEF MatrixProofInv, MatrixInv
  <2>2. \A i \in 1..mpos - 1 : tres'[Matrix[i]] = tres[Matrix[i]]
    BY <1>1, <1>2
  <2>3. tres'[Matrix[mpos]] = r
    BY <1>1, <1>2
  <2>4. (\A i \in 1..mpos : tres'[Matrix[i]] = "ok")
          <=> (\A i \in 1..mpos - 1 : tres[Matrix[i]] = "ok") /\ r = "ok"
    BY <1>2, <2>2, <2>3
  <2>5. 1..mpos' - 1 = 1..mpos /\ allOk' = (allOk /\ r = "ok")
    BY <1>1, <1>2
  <2>6. QED
    BY <2>1, <2>4, <2>5
<1>9. /\ run' >= 1 /\ Cmd' = "build-all"
      /\ Len(Trace') >= 2
      /\ ~(Len(Trace') = 3 /\ Trace'[3] # "exc")
  <2>1. run' >= 1 /\ Cmd' = "build-all"
    BY <1>2, <1>5
  <2>2. CASE r = "exc"
    BY <1>5, <2>1, <2>2
  <2>3. CASE r # "exc"
    <3>1. 2 >= 2 /\ 2 # 3
      OBVIOUS
    <3>2. QED
      BY <1>5, <2>1, <2>3, <3>1, Zenon
  <2>4. QED
    BY <2>1, <2>2, <2>3
<1>10. QED
  BY <1>7, <1>8, <1>9 DEF MatrixInv

-----------------------------------------------------------------------------
(* The theorems.                                                           *)

THEOREM MatrixProofInvStep == MatrixProofInv /\ [Next]_vars => MatrixProofInv'
<1> SUFFICES ASSUME MatrixProofInv, [Next]_vars PROVE MatrixProofInv'
  OBVIOUS
<1>1. FailFastInv'
  BY FailFastInvStep DEF MatrixProofInv
<1>2. BinRunsInv'
  BY BinRunsStep
<1>3. MatrixInv'
  <2>1. CASE Step /\ Cmd = "build-all"
    <3>1. Running /\ FailFastInv
      BY <2>1 DEF Step, MatrixProofInv
    <3>2. Current \in {"Prerequisites", "Dependencies", "BuildAll"}
      BY <2>1, <3>1, BuildAllSteps
    <3>3. ~(\/ format_code \/ lint_code \/ run_tests \/ run_security_checks
            \/ build_binary \/ build_for_platform \/ generate_build_info \/ clean)
      BY <3>2 DEF format_code, lint_code, run_tests, run_security_checks, build_binary,
                  build_for_platform, generate_build_info, clean, Pure
    <3>4. CASE check_prerequisites \/ download_dependencies
      BY <2>1, <3>1, <3>4, MatrixPureStep
    <3>5. CASE build_all_platforms_target
      BY <2>1, <3>1, <3>5, MatrixTargetStep
    <3>6. CASE build_all_platforms_done
      BY <2>1, <3>1, <3>6, MatrixDoneStep
    <3>7. QED
      BY <2>1, <3>3, <3>4, <3>5, <3>6 DEF Step
  <2>2. CASE Step /\ Cmd # "build-all"
    <3>1. Running /\ TypeInv
      BY <2>2 DEF Step, MatrixProofInv, FailFastInv
    <3>2. Cmd' # "build-all"
      BY <2>2, <3>1, StepKeepsCmd
    <3>3. QED
      BY <3>2 DEF MatrixInv
  <2>3. CASE Interrupt
    BY <2>3 DEF Interrupt, files, MatrixProofInv, MatrixInv, TargetInv, Fresh, Cmd, Trace
  <2>4. CASE main
    BY <2>4, MatrixMainStep
  <2>5. CASE UNCHANGED vars
    BY <2>5 DEF vars, proc, files, MatrixProofInv, MatrixInv, TargetInv, Fresh, Cmd,
                Trace
  <2>6. QED
    BY <2>1, <2>2, <2>3, <2>4, <2>5 DEF Next
<1>4. QED
  BY <1>1, <1>2, <1>3 DEF MatrixProofInv

\* Once the loop is over its invariant is MatrixOutcome.
LEMMA MatrixInvOutcome ==
    ASSUME MatrixProofInv
    PROVE  MatrixOutcome
<1> SUFFICES ASSUME run >= 1, Cmd = "build-all", Len(Trace) = 3, Trace[3] # "exc"
             PROVE  /\ \A i \in 1..Len(Matrix) : tres[Matrix[i]] \in {"ok", "fail"}
                    /\ (Trace[3] = "ok") <=> (\A i \in 1..Len(Matrix) : tres[Matrix[i]] = "ok")
                    /\ \A i \in 1..Len(Matrix) :
                         (bin[Matrix[i]] # None /\ bin[Matrix[i]].run = run)
                            <=> tres[Matrix[i]] = "ok"
  BY DEF MatrixOutcome
<1>1. mpos = Len(Matrix) + 1 /\ ((Trace[3] = "ok") <=> allOk)
  BY DEF MatrixProofInv, MatrixInv
<1>2. allOk <=> \A i \in 1..mpos - 1 : tres[Matrix[i]] = "ok"
  BY DEF MatrixProofInv, MatrixInv
<1>3. ASSUME NEW i \in 1..Len(Matrix)
      PROVE  /\ tres[Matrix[i]] \in StepResult
             /\ Fresh(Matrix[i]) <=> tres[Matrix[i]] = "ok"
             /\ tres[Matrix[i]] # "exc"
  <2>1. TargetInv(i) /\ i < mpos
    BY <1>1 DEF MatrixProofInv, MatrixInv
  <2>2. QED
    BY <2>1 DEF TargetInv
<1>4. QED
  BY <1>1, <1>2, <1>3 DEF StepResult, Fresh

\* build_all_platforms does not fail fast, for every platform set, matrix
\* and number of invocations: once it has returned, every declared target
\* was attempted, build-all succeeded iff every target did, and a target
\* has an artifact of this invocation iff its `go build` succeeded, older
\* artifacts in build/ notwithstanding (the loop of build_all_platforms
\* and its all_ok).
THEOREM MatrixOutcomeHolds == Spec => []MatrixOutcome
BY MatrixProofInvInit, MatrixProofInvStep, MatrixInvOutcome, PTL DEF Spec

=============================================================================
