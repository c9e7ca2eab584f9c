------------------------ MODULE MatrixRefinementProofs ------------------------
(***************************************************************************)
(* build.py implements PlatformMatrix: under the mapping MatrixStatus,     *)
(* MatrixResult, MatrixArtifact of BuildRunner, download_dependencies'     *)
(* success in a build-all is a Begin, an iteration of build_all_platforms' *)
(* loop an Attempt of its target, the loop's end a Finish, Ctrl-C in the   *)
(* loop an Abandon and main() a Reset; every other step stutters.          *)
(*                                                                         *)
(* The invariant needed is MatrixProofInv of MatrixProofs: the loop        *)
(* attempts a target only while it has no result (TargetInv from mpos on), *)
(* the matrix starts with no result and no artifact of its invocation,    *)
(* and when the loop ends every target has a result that is not an       *)
(* exception and all_ok is their conjunction.                             *)
(***************************************************************************)
EXTENDS MatrixProofs

USE Assumptions

-----------------------------------------------------------------------------
(* Lemmas about the mapping.                                               *)

\* The cases of MatrixStatus.
LEMMA StatusCases ==
    /\ ~InMatrix => MatrixStatus = "idle"
    /\ InMatrix /\ Len(Trace) = 3 => MatrixStatus = Trace[3]
    /\ InMatrix /\ Len(Trace) # 3 /\ Running => MatrixStatus = "building"
    /\ InMatrix /\ Len(Trace) # 3 /\ ~Running => MatrixStatus = "idle"
BY DEF MatrixStatus

\* The current invocation's trace, running or not, is a sequence of step
\* results.
LEMMA LastTraceTyped ==
    ASSUME TypeInv, run >= 1
    PROVE  Trace \in Seq(StepResult) /\ Len(Trace) \in Nat
<1>1. run \in 1..MaxRuns /\ hist[run] \in HistEntry
  BY DEF TypeInv, TypeOK, Runs
<1>2. QED
  BY <1>1 DEF Trace, HistEntry

\* A matrix build in progress is a running build-all inside the loop.
LEMMA BuildingShape ==
    ASSUME FailFastInv, MatrixStatus = "building"
    PROVE  /\ Running /\ Cmd = "build-all" /\ run >= 1
           /\ Len(Trace) = 2 /\ Current = "BuildAll"
<1>1. InMatrix /\ Len(Trace) # 3 /\ Running
  <2>1. InMatrix
    BY StatusCases
  <2>2. Len(Trace) # 3
    <3>1. Trace \in Seq(StepResult)
      BY <2>1, LastTraceTyped DEF InMatrix, FailFastInv
    <3>2. QED
      BY <2>1, <3>1, StatusCases DEF StepResult
  <2>3. QED
    BY <2>1, <2>2, StatusCases
<1>2. Current \in {"Prerequisites", "Dependencies", "BuildAll"}
      /\ (Current \in {"Prerequisites", "Dependencies"} => Len(Trace) \in 0..1)
      /\ (Current = "BuildAll" => Len(Trace) = 2)
  BY <1>1, BuildAllSteps DEF InMatrix
<1>3. Len(Trace) >= 2 /\ Len(Trace) \in Nat
  BY <1>1, TraceTyped DEF InMatrix, FailFastInv
<1>4. Current = "BuildAll"
  <2>1. \A n \in Nat : n >= 2 => n \notin 0..1
    OBVIOUS
  <2>2. QED
    BY <1>2, <1>3, <2>1
<1>5. QED
  BY <1>1, <1>2, <1>4 DEF InMatrix

\* Every step into an idle matrix clears its record: it is a Reset or,
\* from a build in progress, an Abandon.
LEMMA IdleStep ==
    ASSUME MatrixStatus' = "idle"
    PROVE  Matrix_!Reset \/ Matrix_!Abandon
<1>1. /\ MatrixResult' = [t \in MatrixTargets |-> "none"]
      /\ MatrixArtifact' = [t \in MatrixTargets |-> FALSE]
  BY DEF MatrixResult, MatrixArtifact, MatrixTargets
<1>2. CASE MatrixStatus = "building"
  BY <1>1, <1>2 DEF Matrix_!Abandon, Matrix_!Cleared
<1>3. CASE MatrixStatus # "building"
  BY <1>1, <1>3 DEF Matrix_!Reset, Matrix_!Cleared
<1>4. QED
  BY <1>2, <1>3

THEOREM MatrixRefinementInit == Init => Matrix_!Init
<1> SUFFICES ASSUME Init PROVE Matrix_!Init
  OBVIOUS
<1>1. ~InMatrix
  BY DEF Init, InMatrix
<1>2. MatrixStatus = "idle"
  BY <1>1, StatusCases
<1>3. QED
  BY <1>2 DEF Matrix_!Init, MatrixResult, MatrixArtifact

-----------------------------------------------------------------------------
(* The steps of a build-all.                                               *)

\* download_dependencies succeeding in a build-all starts the matrix
\* build: no target has a result or an artifact of this invocation yet.
LEMMA BeginStep ==
    ASSUME MatrixProofInv, MatrixProofInv', Running, Cmd = "build-all",
           check_prerequisites \/ download_dependencies,
           MatrixStatus' # "idle"
    PROVE  Matrix_!Begin
<1>1. /\ \E r \in StepResult : Record(r)
      /\ UNCHANGED <<run, interrupted, mpos, allOk, covReported, files, tres>>
  BY ThenTyped DEF check_prerequisites, download_dependencies, Pure, StepResult
<1>2. TypeInv /\ run \in 1..MaxRuns /\ mpos \in 1..Len(Matrix) + 1
  BY DEF MatrixProofInv, FailFastInv, TypeInv, TypeOK, Running
<1>3. Len(Trace) \in 0..1
  <2>1. Current \in {"Prerequisites", "Dependencies"}
    BY DEF check_prerequisites, download_dependencies, Pure
  <2>2. QED
    BY <2>1, BuildAllSteps DEF MatrixProofInv
<1>4. PICK r \in StepResult : Record(r)
  BY <1>1
<1>5. Cmd' = Cmd /\ Len(Trace') = Len(Trace) + 1
  BY <1>1, <1>2, <1>4, RecordTrace
<1>6. InMatrix'
  BY DEF MatrixStatus
<1>7. Len(Trace) = 1 /\ Len(Trace') = 2
  <2>1. Len(Trace') >= 2
    BY <1>6 DEF InMatrix
  <2>2. \A n \in 0..1 : n + 1 >= 2 => n = 1 /\ n + 1 = 2
    OBVIOUS
  <2>3. QED
    BY <1>3, <1>5, <2>1, <2>2
<1>8. MatrixStatus = "idle"
  <2>1. \A n \in Nat : n = 1 => ~(n >= 2)
    OBVIOUS
  <2>2. ~InMatrix
    BY <1>7, <2>1 DEF InMatrix
  <2>3. QED
    BY <2>2, StatusCases
<1>9. MatrixStatus' = "building"
  <2>1. Len(Trace') # 3
    BY <1>7
  <2>2. QED
    BY <1>6, <2>1 DEF MatrixStatus
<1>10. mpos' = 1
  <2>1. mpos > 1 => Len(Trace) >= 2
    BY <1>2 DEF MatrixProofInv, MatrixInv
  <2>2. \A m \in 1..Len(Matrix) + 1 : (m > 1 => 1 >= 2) => m = 1
    OBVIOUS
  <2>3. QED
    BY <1>1, <1>2, <1>7, <2>1, <2>2
<1>11. ASSUME NEW i \in 1..Len(Matrix)
       PROVE  tres'[Matrix[i]] = "none" /\ ~Fresh(Matrix[i])'
  <2>1. run' >= 1 /\ Cmd' = "build-all"
    BY <1>1, <1>2, <1>5
  <2>2. TargetInv(i)'
    BY <2>1 DEF MatrixProofInv, MatrixInv
  <2>3. ~(i < mpos')
    BY <1>10
  <2>4. QED
    BY <2>2, <2>3 DEF TargetInv
<1>12. \A t \in MatrixTargets : tres'[t] = "none" /\ ~(bin'[t] # None /\ bin'[t].run = run')
  <2> TAKE t \in MatrixTargets
  <2>1. PICK i \in 1..Len(Matrix) : t = Matrix[i]
    BY DEF MatrixTargets
  <2>2. QED
    BY <1>11, <2>1 DEF Fresh
<1>13. MatrixResult' = [t \in MatrixTargets |-> "none"]
  BY <1>9, <1>12 DEF MatrixResult
<1>14. MatrixArtifact' = [t \in MatrixTargets |-> FALSE]
  BY <1>9, <1>12 DEF MatrixArtifact
<1>15. QED
  BY <1>8, <1>9, <1>13, <1>14 DEF Matrix_!Begin, Matrix_!Cleared

\* A step that keeps the invocation, its trace and its phase keeps the
\* matrix's status.
LEMMA StatusFrame ==
    ASSUME run' = run, hist' = hist, phase' = phase
    PROVE  MatrixStatus' = MatrixStatus
BY DEF MatrixStatus, InMatrix, Cmd, Trace, Running

\* In the loop, the matrix build is in progress.
LEMMA LoopIsBuilding ==
    ASSUME FailFastInv, Running, Cmd = "build-all", Current = "BuildAll"
    PROVE  MatrixStatus = "building" /\ Len(Trace) = 2 /\ InMatrix
<1>1. Len(Trace) = 2
  BY BuildAllSteps
<1>2. run \in 1..MaxRuns /\ Trace[2] = "ok"
  BY <1>1 DEF FailFastInv, RunningInv, TypeInv, TypeOK, Running
<1>3. InMatrix
  BY <1>1, <1>2 DEF InMatrix
<1>4. QED
  BY <1>1, <1>3, StatusCases

\* One iteration of the loop attempts the target at mpos, which has no
\* result yet; its artifact is of this invocation iff `go build` exited 0,
\* and an exception ends the matrix build.
LEMMA AttemptStep ==
    ASSUME MatrixProofInv, Running, Cmd = "build-all", build_all_platforms_target
    PROVE  \E t \in MatrixTargets, r \in Matrix_!Result : Matrix_!Attempt(t, r)
<1> DEFINE t == Matrix[mpos]
<1>1. PICK o \in Outcome :
        /\ bin' = BuiltFor(t, o)
        /\ tres' = [tres EXCEPT ![t] = Then(o, "ok")]
        /\ IF Then(o, "ok") = "exc" THEN Record("exc")
                                   ELSE UNCHANGED <<hist, failedStep, phase, verdict>>
  BY DEF build_all_platforms_target
<1> DEFINE r == Then(o, "ok")
<1>2. /\ TypeInv /\ FailFastInv /\ run \in 1..MaxRuns /\ run' = run
      /\ mpos \in 1..Len(Matrix) /\ t \in Platforms /\ t \in Slots
      /\ t \in MatrixTargets /\ tres \in [Platforms -> TargetResult]
      /\ Current = "BuildAll"
  BY DEF build_all_platforms_target, MatrixProofInv, FailFastInv, TypeInv, TypeOK,
         Running, Slots, MatrixTargets
<1>3. MatrixStatus = "building" /\ Len(Trace) = 2 /\ InMatrix
  BY <1>2, LoopIsBuilding
<1>4. r \in StepResult /\ (r = "ok" <=> o = "ok")
  BY DEF Then, StepResult
<1>5. MatrixStatus' = IF r = "exc" THEN "exc" ELSE "building"
  <2>1. CASE r = "exc"
    <3>1. Record("exc") /\ "exc" \in StepResult
      BY <1>1, <2>1 DEF StepResult
    <3>2. /\ Cmd' = Cmd /\ Trace' = Append(Trace, "exc")
          /\ Len(Trace') = Len(Trace) + 1 /\ Trace'[Len(Trace) + 1] = "exc"
      BY <1>2, <3>1, RecordTrace
    <3>3. Trace \in Seq(StepResult)
      BY <1>2, TraceTyped
    <3>4. Len(Trace') = 3 /\ Trace'[3] = "exc" /\ Trace'[2] = Trace[2]
      BY <1>3, <3>2, <3>3
    <3>5. InMatrix'
      BY <1>2, <1>3, <3>2, <3>4 DEF InMatrix
    <3>6. QED
      BY <2>1, <3>4, <3>5 DEF MatrixStatus
  <2>2. CASE r # "exc"
    <3>1. MatrixStatus' = MatrixStatus
      BY <1>1, <1>2, <2>2, StatusFrame
    <3>2. QED
      BY <1>3, <2>2, <3>1
  <2>3. QED
    BY <2>1, <2>2
<1>6. tres[t] = "none" /\ ~Fresh(t)
  <2>1. TargetInv(mpos)
    BY <1>2 DEF MatrixProofInv, MatrixInv, InMatrix
  <2>2. QED
    BY <1>2, <2>1 DEF TargetInv
<1>7. /\ MatrixResult = [s \in MatrixTargets |-> tres[s]]
      /\ MatrixResult' = [s \in MatrixTargets |-> tres'[s]]
      /\ MatrixArtifact = [s \in MatrixTargets |-> Fresh(s)]
      /\ MatrixArtifact' = [s \in MatrixTargets |-> bin'[s] # None /\ bin'[s].run = run]
  BY <1>2, <1>3, <1>5 DEF MatrixResult, MatrixArtifact, Fresh
<1>8. MatrixTargets \subseteq Platforms
  BY DEF MatrixTargets
<1>9. MatrixResult' = [MatrixResult EXCEPT ![t] = r]
  BY <1>1, <1>2, <1>7, <1>8
<1>10. MatrixArtifact' = [MatrixArtifact EXCEPT ![t] = (r = "ok")]
  <2>1. [target |-> CompiledFor(t), run |-> run] # None
    BY <1>2 DEF CompiledFor
  <2>2. ASSUME NEW s \in MatrixTargets
        PROVE  (bin'[s] # None /\ bin'[s].run = run)
                 = IF s = t THEN r = "ok" ELSE Fresh(s)
    <3>1. s \in Slots
      BY <1>8 DEF Slots
    <3>2. bin'[s] = IF s = t /\ o = "ok" THEN [target |-> CompiledFor(t), run |-> run]
                                          ELSE bin[s]
      BY <1>1, <1>2, <3>1 DEF BuiltFor, TypeInv, TypeOK
    <3>3. QED
      BY <1>4, <1>6, <2>1, <3>2 DEF Fresh
  <2>3. QED
    BY <1>2, <1>7, <2>2
<1>11. QED
  BY <1>2, <1>3, <1>4, <1>5, <1>6, <1>7, <1>9, <1>10
     DEF Matrix_!Attempt, Matrix_!Result, StepResult

\* The loop's end finishes the matrix build: every target has been tried
\* without an exception, and build-all's result is all_ok, the
\* conjunction of theirs.
LEMMA FinishStep ==
    ASSUME MatrixProofInv, Running, Cmd = "build-all", build_all_platforms_done
    PROVE  Matrix_!Finish
<1> DEFINE r == IF allOk THEN "ok" ELSE "fail"
<1>1. /\ Current = "BuildAll" /\ mpos > Len(Matrix) /\ Record(r)
      /\ UNCHANGED <<run, interrupted, mpos, allOk, covReported, files, tres>>
  BY DEF build_all_platforms_done
<1>2. /\ TypeInv /\ FailFastInv /\ run \in 1..MaxRuns
      /\ mpos \in 1..Len(Matrix) + 1 /\ r \in StepResult
  BY DEF MatrixProofInv, FailFastInv, TypeInv, TypeOK, Running, StepResult
<1>3. MatrixStatus = "building" /\ Len(Trace) = 2 /\ InMatrix /\ mpos = Len(Matrix) + 1
  BY <1>1, <1>2, LoopIsBuilding
<1>4. MatrixStatus' = r
  <2>1. /\ Cmd' = Cmd /\ Trace' = Append(Trace, r)
        /\ Len(Trace') = Len(Trace) + 1 /\ Trace'[Len(Trace) + 1] = r
    BY <1>1, <1>2, RecordTrace
  <2>2. Trace \in Seq(StepResult)
    BY <1>2, TraceTyped
  <2>3. Len(Trace') = 3 /\ Trace'[3] = r /\ Trace'[2] = Trace[2]
    BY <1>3, <2>1, <2>2
  <2>4. InMatrix'
    BY <1>1, <1>3, <2>1, <2>3 DEF InMatrix
  <2>5. QED
    BY <2>3, <2>4 DEF MatrixStatus
<1>5. ASSUME NEW i \in 1..Len(Matrix) PROVE tres[Matrix[i]] \in {"ok", "fail"}
  <2>1. TargetInv(i) /\ i < mpos
    BY <1>3 DEF MatrixProofInv, MatrixInv, InMatrix
  <2>2. QED
    BY <1>3, <2>1 DEF TargetInv, StepResult
<1>6. allOk <=> \A i \in 1..Len(Matrix) : tres[Matrix[i]] = "ok"
  BY <1>3 DEF MatrixProofInv, MatrixInv, InMatrix
<1>7. /\ MatrixResult = [s \in MatrixTargets |-> tres[s]]
      /\ MatrixResult' = MatrixResult
      /\ MatrixArtifact' = MatrixArtifact
  BY <1>1, <1>3, <1>4 DEF MatrixResult, MatrixArtifact, files
<1>8. /\ \A s \in MatrixTargets : MatrixResult[s] \in {"ok", "fail"}
      /\ (\A s \in MatrixTargets : MatrixResult[s] = "ok") <=> allOk
  BY <1>5, <1>6, <1>7 DEF MatrixTargets
<1>9. QED
  BY <1>3, <1>4, <1>7, <1>8 DEF Matrix_!Finish

-----------------------------------------------------------------------------
(* The theorems.                                                           *)

THEOREM MatrixRefinementStep ==
    MatrixProofInv /\ MatrixProofInv' /\ [Next]_vars => [Matrix_!Next]_Matrix_!vars
<1> SUFFICES ASSUME MatrixProofInv, MatrixProofInv', [Next]_vars
             PROVE  [Matrix_!Next]_Matrix_!vars
  OBVIOUS
<1>1. CASE MatrixStatus' = "idle"
  BY <1>1, IdleStep DEF Matrix_!Next
<1>2. CASE MatrixStatus' # "idle"
  <2>1. InMatrix'
    BY <1>2 DEF MatrixStatus
  <2>2. CASE Step
    <3>1. Running /\ TypeInv /\ FailFastInv
      BY <2>2 DEF Step, MatrixProofInv, FailFastInv
    <3>2. Cmd = "build-all"
      <4>1. Cmd' = Cmd
        BY <2>2, <3>1, StepKeepsCmd
      <4>2. QED
        BY <2>1, <4>1 DEF InMatrix
    <3>3. Current \in {"Prerequisites", "Dependencies", "BuildAll"}
      BY <3>1, <3>2, BuildAllSteps
    <3>4. ~(\/ format_code \/ lint_code \/ run_tests \/ run_security_checks
            \/ build_binary \/ build_for_platform \/ generate_build_info \/ clean)
      BY <3>3 DEF format_code, lint_code, run_tests, run_security_checks, build_binary,
                  build_for_platform, generate_build_info, clean, Pure
    <3>5. CASE check_prerequisites \/ download_dependencies
      BY <1>2, <3>1, <3>2, <3>5, BeginStep DEF Matrix_!Next
    <3>6. CASE build_all_platforms_target
      BY <3>1, <3>2, <3>6, AttemptStep DEF Matrix_!Next
    <3>7. CASE build_all_platforms_done
      BY <3>1, <3>2, <3>7, FinishStep DEF Matrix_!Next
    <3>8. QED
      BY <2>2, <3>4, <3>5, <3>6, <3>7 DEF Step
  \* Ctrl-C cannot end a matrix build with a result: it comes before the
  \* loop's end.
  <2>3. CASE Interrupt
    <3>1. Running /\ FailFastInv /\ ~Running'
      BY <2>3 DEF Interrupt, MatrixProofInv, Running
    <3>2. UNCHANGED <<run, hist>>
      BY <2>3 DEF Interrupt
    <3>3. Cmd = "build-all" /\ Cmd' = Cmd /\ Trace' = Trace
      BY <2>1, <3>2 DEF InMatrix, Cmd, Trace
    <3>4. Len(Trace) # 3
      <4>1. Len(Trace) \in 0..1 \/ Len(Trace) = 2
        BY <3>1, <3>3, BuildAllSteps
      <4>2. \A n : (n \in 0..1 \/ n = 2) => n # 3
        OBVIOUS
      <4>3. QED
        BY <4>1, <4>2
    <3>5. MatrixStatus' = "idle"
      BY <3>1, <3>3, <3>4 DEF MatrixStatus
    <3>6. QED
      BY <1>2, <3>5
  \* main() starts an invocation with an empty trace.
  <2>4. CASE main
    <3>1. PICK c \in Commands, p \in PlatformArg :
            hist' = [hist EXCEPT ![run + 1] = [cmd |-> c, plat |-> p, trace |-> <<>>]]
      BY <2>4 DEF main
    <3>2. run \in 0..MaxRuns - 1 /\ run' = run + 1 /\ hist \in [1..MaxRuns -> HistEntry]
      BY <2>4 DEF main, MatrixProofInv, FailFastInv, TypeInv, TypeOK, Runs
    <3>3. Trace' = <<>>
      BY <3>1, <3>2 DEF Trace
    <3>4. QED
      BY <2>1, <3>3 DEF InMatrix
  <2>5. CASE UNCHANGED vars
    BY <2>5 DEF vars, proc, files, Matrix_!vars, MatrixStatus, MatrixResult,
                MatrixArtifact, InMatrix, Cmd, Trace, Running
  <2>6. QED
    BY <2>2, <2>3, <2>4, <2>5 DEF Next
<1>3. QED
  BY <1>1, <1>2

\* build_all_platforms implements PlatformMatrix's safety part, for every
\* platform set, matrix and number of invocations: a build-all that passed
\* download_dependencies builds each declared target at most once, a
\* False does not stop the loop and an exception ends it, it returns
\* success iff every target was tried and succeeded, and a target has an
\* artifact of this invocation iff its `go build` succeeded (the loop of
\* build_all_platforms, its all_ok, and build_for_platform's output path).
THEOREM MatrixRefinedSafety == Spec => Matrix_!SafetySpec
<1>1. Spec => []MatrixProofInv
  BY MatrixProofInvInit, MatrixProofInvStep, PTL DEF Spec
<1>2. QED
  BY <1>1, MatrixRefinementInit, MatrixRefinementStep, PTL DEF Spec, Matrix_!SafetySpec

=============================================================================
