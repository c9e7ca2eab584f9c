---------------------------- MODULE ProgressProofs ----------------------------
(***************************************************************************)
(* StepProgress for every platform set, matrix and number of invocations:  *)
(* every step of a running invocation strictly decreases Remaining, a      *)
(* natural number.  A step function records one more result of a trace   *)
(* that the fail-fast invariant keeps shorter than the command's list      *)
(* while the invocation runs, and leaves the loop index alone; an          *)
(* iteration of the matrix loop moves the index past one more target, and *)
(* records an exception if there is one.  This is the safety half of the  *)
(* argument for Termination; the other half, that a step is eventually    *)
(* taken, is the fairness of Spec and is left to TLC.                     *)
(***************************************************************************)
EXTENDS MatrixProofs

USE Assumptions

\* Remaining, with the step list's length n, the trace's length k, the
\* matrix's length L and the loop index m as numbers.
Measure(n, k, L, m) == (n - k) * (L + 1) + (L + 1 - m)

\* Recording one more result, and moving the index by at most one, or
\* moving the index alone, decreases the measure and keeps it natural.
LEMMA MeasureDecreases ==
    ASSUME NEW n \in Nat, NEW k \in Nat, NEW L \in Nat, NEW m \in 1..L + 1,
           NEW k2 \in Nat, NEW m2 \in 1..L + 1,
           k < n,
           \/ k2 = k + 1 /\ m2 \in {m, m + 1}
           \/ k2 = k /\ m2 = m + 1
    PROVE  /\ Measure(n, k2, L, m2) \in Nat
           /\ Measure(n, k2, L, m2) < Measure(n, k, L, m)
<1> DEFINE d == n - k
<1>1. d \in Nat \ {0}
  OBVIOUS
<1>2. CASE k2 = k + 1 /\ m2 \in {m, m + 1}
  <2>1. Measure(n, k2, L, m2) = (d - 1) * (L + 1) + (L + 1 - m2)
    BY <1>2 DEF Measure
  <2>2. Measure(n, k, L, m) = (d - 1) * (L + 1) + (L + 1) + (L + 1 - m)
    BY <1>1 DEF Measure
  <2>3. (d - 1) * (L + 1) \in Nat
    BY <1>1
  <2>4. QED
    BY <1>2, <2>1, <2>2, <2>3
<1>3. CASE k2 = k /\ m2 = m + 1
  <2>1. d * (L + 1) \in Nat
    BY <1>1
  <2>2. QED
    BY <1>3, <2>1 DEF Measure
<1>4. QED
  BY <1>2, <1>3

\* The command, its --platform and so its step list are those of the
\* running invocation before and after any of its steps.
LEMMA StepKeepsSteps ==
    ASSUME TypeInv, Running, Step
    PROVE  Steps' = Steps
<1>1. (RecordStep \/ Quiet) /\ UNCHANGED <<run, interrupted>>
  BY StepShape
<1>2. run \in 1..MaxRuns /\ hist \in [1..MaxRuns -> HistEntry]
  BY DEF TypeInv, TypeOK, Running
<1>3. CASE RecordStep
  <2>1. PICK r \in StepResult : Record(r)
    BY <1>3 DEF RecordStep
  <2>2. hist'[run].cmd = hist[run].cmd /\ hist'[run].plat = hist[run].plat
    BY <1>2, <2>1 DEF Record, HistEntry
  <2>3. QED
    BY <1>1, <2>2 DEF Steps, Cmd
<1>4. CASE Quiet
  BY <1>1, <1>4 DEF Quiet, Steps, Cmd
<1>5. QED
  BY <1>1, <1>3, <1>4

\* Every step of a running invocation decreases the work left.
LEMMA StepProgressStep ==
    ASSUME FailFastInv, Step
    PROVE  Remaining' \in Nat /\ Remaining' < Remaining
<1>1. Running /\ TypeInv
  BY DEF Step, FailFastInv
<1>2. /\ run \in 1..MaxRuns /\ run' = run
      /\ mpos \in 1..Len(Matrix) + 1 /\ Len(Matrix) \in Nat
  BY <1>1, StepShape DEF TypeInv, TypeOK, Running
<1>3. /\ Len(Steps) \in Nat /\ Len(Trace) \in Nat
      /\ Len(Trace) < Len(Steps)
      /\ Steps' = Steps
  <2>1. Cmd \in Commands
    BY <1>2 DEF FailFastInv, CommandsInv, Cmd
  <2>2. Len(Steps) \in 1..8
    BY <2>1, StepsOfFacts DEF Steps
  <2>3. QED
    BY <1>1, <2>2, TraceTyped, StepKeepsSteps DEF FailFastInv, RunningInv
<1> DEFINE n == Len(Steps)
           k == Len(Trace)
           L == Len(Matrix)
<1>4. Remaining = Measure(n, k, L, mpos)
  BY DEF Remaining, Measure
<1>5. Remaining' = Measure(n, Len(Trace'), L, mpos')
  BY <1>3 DEF Remaining, Measure
\* The step functions other than the loop's iteration record a result and
\* keep the loop index.
<1>6. CASE ~build_all_platforms_target
  <2>1. mpos' = mpos /\ RecordStep
    <3>1. mpos' = mpos
      BY <1>6 DEF Step, check_prerequisites, download_dependencies, format_code,
                  lint_code, run_tests, run_security_checks, build_binary,
                  build_for_platform, build_all_platforms_done, generate_build_info,
                  clean, Pure
    <3>2. RecordStep
      <4>1. CASE check_prerequisites \/ download_dependencies \/ format_code
                 \/ lint_code \/ run_security_checks
        BY <4>1, ThenTyped DEF check_prerequisites, download_dependencies, format_code,
                               lint_code, run_security_checks, Pure, RecordStep, StepResult
      <4>2. CASE run_tests
        BY <4>2 DEF run_tests, RecordStep, StepResult
      <4>3. CASE build_binary \/ build_for_platform
        BY <4>3, ThenTyped DEF build_binary, build_for_platform, RecordStep, StepResult
      <4>4. CASE build_all_platforms_done \/ generate_build_info \/ clean
        BY <4>4 DEF build_all_platforms_done, generate_build_info, clean, RecordStep,
                    StepResult
      <4>5. QED
        BY <1>6, <4>1, <4>2, <4>3, <4>4 DEF Step
    <3>3. QED
      BY <3>1, <3>2
  <2>2. PICK r \in StepResult : Record(r)
    BY <2>1 DEF RecordStep
  <2>3. Len(Trace') = k + 1
    BY <1>1, <1>2, <2>2, RecordTrace
  <2>4. QED
    BY <1>2, <1>3, <1>4, <1>5, <2>1, <2>3, MeasureDecreases
\* An iteration of the loop moves the index on, and records an exception.
<1>7. CASE build_all_platforms_target
  <2>1. PICK o \in Outcome :
          /\ mpos' = mpos + 1
          /\ mpos <= Len(Matrix)
          /\ IF Then(o, "ok") = "exc" THEN Record("exc")
                                     ELSE UNCHANGED <<hist, failedStep, phase, verdict>>
    BY <1>7 DEF build_all_platforms_target
  <2>2. mpos' \in 1..L + 1
    BY <1>2, <2>1
  <2>3. Len(Trace') = k + 1 \/ Len(Trace') = k
    <3>1. CASE Then(o, "ok") = "exc"
      <4>1. Record("exc") /\ "exc" \in StepResult
        BY <2>1, <3>1 DEF StepResult
      <4>2. QED
        BY <1>1, <1>2, <4>1, RecordTrace
    <3>2. CASE Then(o, "ok") # "exc"
      BY <1>2, <2>1, <3>2 DEF Trace
    <3>3. QED
      BY <3>1, <3>2
  <2>4. mpos' = mpos + 1
    BY <2>1
  <2>5. CASE Len(Trace') = k + 1
    <3>1. k + 1 \in Nat /\ (k + 1 = k + 1 /\ mpos + 1 \in {mpos, mpos + 1})
      BY <1>3
    <3>2. /\ Measure(n, k + 1, L, mpos + 1) \in Nat
          /\ Measure(n, k + 1, L, mpos + 1) < Measure(n, k, L, mpos)
      BY <1>2, <1>3, <2>2, <2>4, <3>1, MeasureDecreases
    <3>3. QED
      BY <1>4, <1>5, <2>4, <2>5, <3>2
  <2>6. CASE Len(Trace') = k
    <3>1. /\ Measure(n, k, L, mpos + 1) \in Nat
          /\ Measure(n, k, L, mpos + 1) < Measure(n, k, L, mpos)
      BY <1>2, <1>3, <2>2, <2>4, MeasureDecreases
    <3>2. QED
      BY <1>4, <1>5, <2>4, <2>6, <3>1
  <2>7. QED
    BY <2>3, <2>5, <2>6
<1>8. QED
  BY <1>6, <1>7

\* No step of build.py stands still or repeats work, for every platform
\* set, matrix and number of invocations: every step function and every
\* iteration of build_all_platforms' loop strictly decreases the work left
\* to the invocation, a natural number (validate()'s loop, main()'s `and`
\* chains and the for loop over SUPPORTED_PLATFORMS).
THEOREM StepProgressHolds == Spec => StepProgress
<1>1. Spec => []FailFastInv
  BY FailFastInvInit, FailFastInvStep, PTL DEF Spec
<1>2. FailFastInv /\ [Next]_vars
        => [Step => Remaining' \in Nat /\ Remaining' < Remaining]_vars
  BY StepProgressStep
<1>3. QED
  BY <1>1, <1>2, PTL DEF Spec, StepProgress

=============================================================================
