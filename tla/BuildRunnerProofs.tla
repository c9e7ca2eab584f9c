------------------------- MODULE BuildRunnerProofs -------------------------
(***************************************************************************)
(* Proofs about BuildRunner, for every platform set, matrix and number of  *)
(* invocations that satisfy Assumptions.                                   *)
(***************************************************************************)
EXTENDS BuildRunner, TLAPS

(***************************************************************************)
(* TypeOK is not inductive by itself: a step of a running invocation       *)
(* stamps the files it writes with `run`, which is a run number only once  *)
(* main() has counted the invocation.                                      *)
(***************************************************************************)
TypeInv ==
    /\ TypeOK
    /\ Running => run \in 1..MaxRuns

USE Assumptions

\* Recording a step result keeps the process variables typed.
LEMMA RecordTyped ==
    ASSUME TypeInv, Running, NEW r \in StepResult, Record(r)
    PROVE  /\ hist' \in [1..MaxRuns -> HistEntry]
           /\ failedStep' \in PipelineSteps \cup {"none"}
           /\ phase' \in {"running", "exited"}
           /\ verdict' \in BOOLEAN
<1>1. hist' \in [1..MaxRuns -> HistEntry]
  <2>1. run \in 1..MaxRuns /\ hist[run] \in HistEntry
    BY DEF TypeInv, TypeOK, Running
  <2>2. Append(hist[run].trace, r) \in Seq(StepResult)
    BY <2>1 DEF HistEntry
  <2>3. [hist[run] EXCEPT !.trace = Append(hist[run].trace, r)] \in HistEntry
    BY <2>1, <2>2 DEF HistEntry
  <2>4. hist' = [hist EXCEPT ![run] = [hist[run] EXCEPT !.trace = Append(hist[run].trace, r)]]
    BY DEF Record
  <2>5. QED
    BY <2>1, <2>3, <2>4 DEF TypeInv, TypeOK
<1>2. failedStep' \in PipelineSteps \cup {"none"}
  BY DEF Record, TypeInv, TypeOK
<1>3. phase' \in {"running", "exited"} /\ verdict' \in BOOLEAN
  BY DEF Record, TypeInv, TypeOK
<1>4. QED
  BY <1>1, <1>2, <1>3

\* A build writes a typed binary into its slot.
LEMMA BuiltForTyped ==
    ASSUME TypeInv, Running, NEW t \in PlatformArg, NEW o \in Outcome
    PROVE  BuiltFor(t, o) \in [Slots -> Binary \cup {None}]
BY DEF BuiltFor, CompiledFor, TypeInv, TypeOK, Binary, Running

\* Then yields a step result when its continuation does.
LEMMA ThenTyped ==
    ASSUME NEW o \in Outcome, NEW r \in StepResult
    PROVE  Then(o, r) \in StepResult
BY DEF Then, StepResult

\* generate_build_info's record has the type of build-info.json's fields.
LEMMA GitFieldsTyped ==
    ASSUME NEW ctx \in GitContext, NEW oRev \in Outcome, NEW oBr \in Outcome,
           NEW oSt \in Outcome, NEW d \in BOOLEAN
    PROVE  GitFields(ctx, oRev, oBr, oSt, d) \in InfoRecord
BY DEF GitFields, InfoRecord

THEOREM TypeInvInit == Init => TypeInv
<1> SUFFICES ASSUME Init PROVE TypeInv
  OBVIOUS
<1>1. Len(Matrix) \in Nat
  OBVIOUS
<1>2. [r \in 1..MaxRuns |-> [cmd |-> "none", plat |-> NoPlatform, trace |-> <<>>]]
        \in [1..MaxRuns -> HistEntry]
  BY DEF HistEntry, PlatformArg
<1>3. [s \in Slots |-> None] \in [Slots -> Binary \cup {None}]
  OBVIOUS
<1>4. [t \in Platforms |-> "none"] \in [Platforms -> TargetResult]
  BY DEF TargetResult
<1>5. /\ run \in Runs /\ info \in Runs /\ covOut \in Runs /\ covHtml \in Runs
      /\ mpos \in 1..Len(Matrix) + 1
  BY <1>1 DEF Init, Runs
<1>6. /\ phase \in {"running", "exited"}
      /\ verdict \in BOOLEAN /\ interrupted \in BOOLEAN
      /\ failedStep \in PipelineSteps \cup {"none"}
      /\ allOk \in BOOLEAN /\ covReported \in BOOLEAN
      /\ infoRec \in InfoRecord
  BY DEF Init, NoInfo, InfoRecord
<1>7. /\ bin \in [Slots -> Binary \cup {None}]
      /\ hist \in [1..MaxRuns -> HistEntry]
      /\ tres \in [Platforms -> TargetResult]
  BY <1>2, <1>3, <1>4 DEF Init
<1>8. TypeOK
  BY <1>5, <1>6, <1>7 DEF TypeOK
<1>9. QED
  BY <1>8 DEF Init, TypeInv, Running

THEOREM TypeInvStep == TypeInv /\ [Next]_vars => TypeInv'
<1> SUFFICES ASSUME TypeInv, [Next]_vars PROVE TypeInv'
  OBVIOUS
<1>1. ASSUME Running, check_prerequisites PROVE TypeInv'
  <2>1. PICK o \in Outcome, gomod \in BOOLEAN :
            Pure("Prerequisites", Then(o, IF gomod THEN "ok" ELSE "fail"))
    BY <1>1 DEF check_prerequisites
  <2>2. Then(o, IF gomod THEN "ok" ELSE "fail") \in StepResult
    BY ThenTyped DEF StepResult
  <2>3. QED
    BY <2>1, <2>2, <1>1, RecordTyped DEF Pure, TypeInv, TypeOK, files, Running
<1>2. ASSUME Running, download_dependencies PROVE TypeInv'
  <2>1. PICK o1, o2 \in Outcome : Pure("Dependencies", Then(o1, Then(o2, "ok")))
    BY <1>2 DEF download_dependencies
  <2>2. Then(o1, Then(o2, "ok")) \in StepResult
    BY ThenTyped DEF StepResult
  <2>3. QED
    BY <2>1, <2>2, <1>2, RecordTyped DEF Pure, TypeInv, TypeOK, files, Running
<1>3. ASSUME Running, format_code PROVE TypeInv'
  <2>1. PICK o \in Outcome : Pure("Format", Then(o, "ok"))
    BY <1>3 DEF format_code
  <2>2. Then(o, "ok") \in StepResult
    BY ThenTyped DEF StepResult
  <2>3. QED
    BY <2>1, <2>2, <1>3, RecordTyped DEF Pure, TypeInv, TypeOK, files, Running
<1>4. ASSUME Running, lint_code PROVE TypeInv'
  <2>1. PICK probe, o \in Outcome :
            Pure("Lint", IF probe = "raise" THEN "exc" ELSE Then(o, "ok"))
    BY <1>4 DEF lint_code
  <2>2. (IF probe = "raise" THEN "exc" ELSE Then(o, "ok")) \in StepResult
    BY ThenTyped DEF StepResult
  <2>3. QED
    BY <2>1, <2>2, <1>4, RecordTyped DEF Pure, TypeInv, TypeOK, files, Running
<1>5. ASSUME Running, run_security_checks PROVE TypeInv'
  <2>1. PICK probe, o \in Outcome :
            Pure("Security", CASE probe = "raise" -> "exc"
                               [] probe = "ok"    -> Then(o, "ok")
                               [] OTHER           -> "ok")
    BY <1>5 DEF run_security_checks
  <2>2. (CASE probe = "raise" -> "exc"
           [] probe = "ok"    -> Then(o, "ok")
           [] OTHER           -> "ok") \in StepResult
    BY ThenTyped DEF StepResult
  <2>3. QED
    BY <2>1, <2>2, <1>5, RecordTyped DEF Pure, TypeInv, TypeOK, files, Running
<1>6. ASSUME Running, run_tests PROVE TypeInv'
  BY <1>6, RecordTyped DEF run_tests, TypeInv, TypeOK, StepResult, Runs, Running
<1>7. ASSUME Running, build_binary PROVE TypeInv'
  <2>1. PICK oBuild, oExec \in Outcome :
            /\ bin' = IF oBuild = "ok"
                        THEN [bin EXCEPT ![MainBin] = [target |-> CompiledFor(Host), run |-> run]]
                        ELSE bin
            /\ Record(IF oBuild = "ok" /\ oExec = "raise" THEN "exc" ELSE Then(oBuild, "ok"))
    BY <1>7 DEF build_binary
  <2>2. (IF oBuild = "ok" /\ oExec = "raise" THEN "exc" ELSE Then(oBuild, "ok")) \in StepResult
    BY ThenTyped DEF StepResult
  <2>3. bin' \in [Slots -> Binary \cup {None}]
    BY <2>1, <1>7 DEF TypeInv, TypeOK, CompiledFor, Binary, Slots, Running
  <2>4. QED
    BY <1>7, <2>1, <2>2, <2>3, RecordTyped DEF build_binary, TypeInv, TypeOK, Running
<1>8. ASSUME Running, build_for_platform PROVE TypeInv'
  <2>1. PICK o \in Outcome :
            /\ bin' = BuiltFor(hist[run].plat, o)
            /\ Record(Then(o, "ok"))
    BY <1>8 DEF build_for_platform
  <2>2. hist[run].plat \in PlatformArg
    BY <1>8 DEF TypeInv, TypeOK, HistEntry, Running
  <2>3. QED
    BY <1>8, <2>1, <2>2, ThenTyped, BuiltForTyped, RecordTyped
       DEF build_for_platform, TypeInv, TypeOK, StepResult, Running
<1>9. ASSUME Running, build_all_platforms_target PROVE TypeInv'
  <2>1. PICK o \in Outcome :
          /\ bin' = BuiltFor(Matrix[mpos], o)
          /\ tres' = [tres EXCEPT ![Matrix[mpos]] = Then(o, "ok")]
          /\ mpos' = mpos + 1
          /\ allOk' = (allOk /\ Then(o, "ok") = "ok")
          /\ IF Then(o, "ok") = "exc" THEN Record("exc")
                                     ELSE UNCHANGED <<hist, failedStep, phase, verdict>>
    BY <1>9 DEF build_all_platforms_target
  <2>2. mpos \in 1..Len(Matrix) /\ Matrix[mpos] \in Platforms
    BY <1>9 DEF build_all_platforms_target, TypeInv, TypeOK
  <2>3. Then(o, "ok") \in StepResult
    BY ThenTyped DEF StepResult
  <2>4. bin' \in [Slots -> Binary \cup {None}]
    BY <1>9, <2>1, <2>2, BuiltForTyped DEF PlatformArg
  <2>5. tres' \in [Platforms -> TargetResult] /\ mpos' \in 1..Len(Matrix) + 1
    BY <2>1, <2>2, <2>3 DEF TypeInv, TypeOK, TargetResult
  <2>6. /\ hist' \in [1..MaxRuns -> HistEntry]
        /\ failedStep' \in PipelineSteps \cup {"none"}
        /\ phase' \in {"running", "exited"}
        /\ verdict' \in BOOLEAN
    <3>1. CASE Then(o, "ok") = "exc"
      BY <1>9, <2>1, <3>1, RecordTyped DEF StepResult
    <3>2. CASE Then(o, "ok") # "exc"
      BY <2>1, <3>2 DEF TypeInv, TypeOK
    <3>3. QED
      BY <3>1, <3>2
  <2>7. Running' => run' \in 1..MaxRuns
    BY <1>9 DEF build_all_platforms_target, TypeInv, Running
  <2>8. QED
    BY <1>9, <2>1, <2>4, <2>5, <2>6, <2>7
       DEF build_all_platforms_target, TypeInv, TypeOK
<1>10. ASSUME Running, build_all_platforms_done PROVE TypeInv'
  BY <1>10, RecordTyped DEF build_all_platforms_done, TypeInv, TypeOK, files,
                            StepResult, Running
<1>11. ASSUME Running, generate_build_info PROVE TypeInv'
  <2>1. PICK r \in StepResult :
          /\ info' \in {run, info, 0}
          /\ infoRec' \in InfoRecord \cup {infoRec}
          /\ Record(r)
    BY <1>11, GitFieldsTyped DEF generate_build_info, StepResult
  <2>2. QED
    BY <1>11, <2>1, RecordTyped DEF generate_build_info, TypeInv, TypeOK, Runs, Running
<1>12. ASSUME Running, clean PROVE TypeInv'
  <2>1. /\ hist' \in [1..MaxRuns -> HistEntry]
        /\ failedStep' \in PipelineSteps \cup {"none"}
        /\ phase' \in {"running", "exited"}
        /\ verdict' \in BOOLEAN
    <3>1. Record("ok") \/ Record("exc")
      BY <1>12 DEF clean
    <3>2. QED
      BY <1>12, <3>1, RecordTyped DEF StepResult
  <2>2. bin' \in [Slots -> Binary \cup {None}]
    <3>1. \A keep \in SUBSET Slots :
            [s \in Slots |-> IF s \in keep THEN bin[s] ELSE None] \in [Slots -> Binary \cup {None}]
      BY DEF TypeInv, TypeOK
    <3>2. QED
      BY <1>12, <3>1 DEF clean
  <2>3. info' \in Runs /\ covOut' \in Runs /\ covHtml' \in Runs
    BY <1>12 DEF clean, TypeInv, TypeOK, Runs
  <2>4. QED
    BY <1>12, <2>1, <2>2, <2>3 DEF clean, TypeInv, TypeOK, Running
<1>13. CASE Step
  BY <1>13, <1>1, <1>2, <1>3, <1>4, <1>5, <1>6, <1>7, <1>8, <1>9, <1>10, <1>11, <1>12
     DEF Step
<1>14. CASE Interrupt
  <2>1. info' \in {run, info, 0} /\ infoRec' \in InfoRecord \cup {infoRec}
    BY <1>14, GitFieldsTyped DEF Interrupt, InfoLeftBehind
  <2>2. info' \in Runs /\ infoRec' \in InfoRecord
    BY <1>14, <2>1 DEF Interrupt, TypeInv, TypeOK, Runs, Running
  <2>3. /\ phase' \in {"running", "exited"} /\ verdict' \in BOOLEAN /\ interrupted' \in BOOLEAN
        /\ UNCHANGED <<run, failedStep, mpos, allOk, covReported, bin, covOut, covHtml, hist, tres>>
        /\ ~Running'
    BY <1>14 DEF Interrupt, Running
  <2>4. QED
    BY <2>2, <2>3 DEF TypeInv, TypeOK
<1>15. CASE main
  <2>1. PICK c \in Commands, p \in PlatformArg :
            hist' = [hist EXCEPT ![run + 1] = [cmd |-> c, plat |-> p, trace |-> <<>>]]
    BY <1>15 DEF main
  <2>2. run + 1 \in 1..MaxRuns /\ run' = run + 1
    BY <1>15 DEF main, TypeInv, TypeOK, Runs
  <2>3. hist' \in [1..MaxRuns -> HistEntry]
    BY <2>1, <2>2 DEF TypeInv, TypeOK, HistEntry
  <2>4. Len(Matrix) \in Nat
    OBVIOUS
  <2>5. [t \in Platforms |-> "none"] \in [Platforms -> TargetResult]
    BY DEF TargetResult
  <2>6. /\ run' \in Runs /\ mpos' \in 1..Len(Matrix) + 1
        /\ info' \in Runs /\ covOut' \in Runs /\ covHtml' \in Runs
    BY <1>15, <2>2, <2>4 DEF main, TypeInv, TypeOK, Runs, files
  <2>7. /\ phase' \in {"running", "exited"}
        /\ verdict' \in BOOLEAN /\ interrupted' \in BOOLEAN
        /\ failedStep' \in PipelineSteps \cup {"none"}
        /\ allOk' \in BOOLEAN /\ covReported' \in BOOLEAN
    BY <1>15 DEF main
  <2>8. /\ bin' \in [Slots -> Binary \cup {None}] /\ tres' \in [Platforms -> TargetResult]
        /\ infoRec' \in InfoRecord
    BY <1>15, <2>5 DEF main, TypeInv, TypeOK, files
  <2>9. TypeOK'
    BY <2>3, <2>6, <2>7, <2>8 DEF TypeOK
  <2>10. QED
    BY <1>15, <2>2, <2>9 DEF main, TypeInv, Running
<1>16. CASE UNCHANGED vars
  BY <1>16 DEF vars, proc, files, TypeInv, TypeOK, Running
<1>17. QED
  BY <1>13, <1>14, <1>15, <1>16 DEF Next

(***************************************************************************)
(* FailFast.  Its first half speaks of finished invocations and its second *)
(* of the last one once it has exited; neither says anything of the       *)
(* invocation still running, which is what a step changes.  The inductive *)
(* invariant adds: while an invocation runs, every step so far returned   *)
(* True, one step of its command is still to come, nothing has been       *)
(* reported failed and no interrupt arrived; and every counted invocation *)
(* has a command.                                                          *)
(***************************************************************************)
RunningInv ==
    Running =>
        /\ Len(Trace) < Len(Steps)
        /\ \A i \in 1..Len(Trace) : Trace[i] = "ok"
        /\ failedStep = "none"
        /\ ~interrupted

CommandsInv ==
    \A r \in 1..run : hist[r].cmd \in Commands

FailFastInv ==
    /\ TypeInv
    /\ CommandsInv
    /\ RunningInv
    /\ FailFast

\* Every command chains between one and eight step functions; validate's
\* first seven are the pipeline steps whose failure it names.
LEMMA StepsOfFacts ==
    ASSUME NEW c \in Commands, NEW p
    PROVE  /\ Len(StepsOf(c, p)) \in 1..8
           /\ c = "validate" =>
                /\ StepsOf(c, p) = ValidateSteps
                /\ \A i \in 1..7 : ValidateSteps[i] \in PipelineSteps
<1>1. CASE c = "validate"
  <2>1. StepsOf(c, p) = ValidateSteps
    BY <1>1 DEF StepsOf
  <2>2. Len(ValidateSteps) = 8
    BY DEF ValidateSteps
  <2>3. \A i \in 1..7 : ValidateSteps[i] \in PipelineSteps
    BY DEF ValidateSteps, PipelineSteps
  <2>4. QED
    BY <2>1, <2>2, <2>3
<1>2. CASE c = "build"
  <2>1. StepsOf(c, p) \in {<<"Prerequisites", "Dependencies", "Build">>,
                           <<"Prerequisites", "Dependencies", "BuildPlatform">>}
    BY <1>2 DEF StepsOf
  <2>2. QED
    BY <1>2, <2>1
<1>3. CASE c = "clean"
  BY <1>3 DEF StepsOf
<1>4. CASE c \in {"deps", "fmt", "lint"}
  <2>1. Len(StepsOf(c, p)) = 2
    BY <1>4 DEF StepsOf
  <2>2. QED
    BY <1>4, <2>1
<1>5. CASE c \in {"test", "coverage", "build-all"}
  <2>1. Len(StepsOf(c, p)) = 3
    BY <1>5 DEF StepsOf
  <2>2. QED
    BY <1>5, <2>1
<1>6. QED
  BY <1>1, <1>2, <1>3, <1>4, <1>5 DEF Commands

\* A step of a running invocation either records a result or, in the
\* middle of the matrix loop, leaves the invocation's record alone; it
\* never changes the run number or the interrupt flag.
RecordStep == \E r \in StepResult : Record(r)
Quiet == UNCHANGED <<hist, failedStep, phase, verdict>>

LEMMA StepShape ==
    ASSUME TypeInv, Running, Step
    PROVE  /\ RecordStep \/ Quiet
           /\ UNCHANGED <<run, interrupted>>
<1>1. UNCHANGED <<run, interrupted>>
  BY DEF Step, check_prerequisites, download_dependencies, format_code, lint_code,
         run_tests, run_security_checks, build_binary, build_for_platform,
         build_all_platforms_target, build_all_platforms_done, generate_build_info,
         clean, Pure
<1>2. RecordStep \/ Quiet
  <2>1. CASE check_prerequisites \/ download_dependencies \/ format_code
             \/ lint_code \/ run_security_checks
    BY <2>1, ThenTyped DEF check_prerequisites, download_dependencies, format_code,
                           lint_code, run_security_checks, Pure, RecordStep, StepResult
  <2>2. CASE run_tests
    BY <2>2 DEF run_tests, RecordStep, StepResult
  <2>3. CASE build_binary \/ build_for_platform
    BY <2>3, ThenTyped DEF build_binary, build_for_platform, RecordStep, StepResult
  <2>4. CASE build_all_platforms_target
    BY <2>4 DEF build_all_platforms_target, RecordStep, Quiet, StepResult
  <2>5. CASE build_all_platforms_done \/ generate_build_info \/ clean
    BY <2>5 DEF build_all_platforms_done, generate_build_info, clean, RecordStep,
                StepResult
  <2>6. QED
    BY <2>1, <2>2, <2>3, <2>4, <2>5 DEF Step
<1>3. QED
  BY <1>1, <1>2

\* Recording a result keeps the fail-fast invariants.
LEMMA RecordKeepsFailFast ==
    ASSUME FailFastInv, Running, NEW r \in StepResult, Record(r),
           UNCHANGED <<run, interrupted>>
    PROVE  (CommandsInv /\ RunningInv /\ FailFast)'
<1> DEFINE n == Len(Trace)
<1>1. /\ run \in 1..MaxRuns
      /\ hist[run] \in HistEntry
      /\ Cmd \in Commands
      /\ n \in Nat
      /\ n < Len(Steps)
      /\ \A i \in 1..n : Trace[i] = "ok"
      /\ failedStep = "none"
      /\ ~interrupted
  <2>1. run \in 1..MaxRuns /\ hist[run] \in HistEntry
    BY DEF FailFastInv, TypeInv, TypeOK, Running
  <2>2. Cmd \in Commands /\ n \in Nat
    BY <2>1 DEF FailFastInv, CommandsInv, Cmd, Trace, HistEntry
  <2>3. n < Len(Steps) /\ (\A i \in 1..n : Trace[i] = "ok")
        /\ failedStep = "none" /\ ~interrupted
    BY DEF FailFastInv, RunningInv
  <2>4. QED
    BY <2>1, <2>2, <2>3
<1>2. Len(Steps) \in 1..8
  BY <1>1, StepsOfFacts DEF Steps, Cmd
<1>3. /\ hist' = [hist EXCEPT ![run] = [hist[run] EXCEPT !.trace = Append(Trace, r)]]
      /\ Trace' = Append(Trace, r)
      /\ Cmd' = Cmd
      /\ Steps' = Steps
      /\ \A k \in 1..MaxRuns \ {run} : hist'[k] = hist[k]
  <2>1. hist' = [hist EXCEPT ![run] = [hist[run] EXCEPT !.trace = Append(Trace, r)]]
    BY DEF Record, Trace
  <2>2. hist \in [1..MaxRuns -> HistEntry]
    BY DEF FailFastInv, TypeInv, TypeOK
  <2>3. hist'[run] = [hist[run] EXCEPT !.trace = Append(Trace, r)]
    BY <1>1, <2>1, <2>2
  <2>4. hist'[run].trace = Append(Trace, r)
        /\ hist'[run].cmd = hist[run].cmd
        /\ hist'[run].plat = hist[run].plat
    BY <1>1, <2>3 DEF HistEntry
  <2>5. \A k \in 1..MaxRuns \ {run} : hist'[k] = hist[k]
    BY <2>1, <2>2
  <2>6. QED
    BY <2>1, <2>4, <2>5 DEF Trace, Cmd, Steps
<1>4. /\ Len(Trace') = n + 1
      /\ \A i \in 1..n : Trace'[i] = "ok"
      /\ Trace'[n + 1] = r
  BY <1>1, <1>3 DEF Trace, HistEntry
<1>5. CommandsInv'
  BY <1>1, <1>3 DEF CommandsInv, FailFastInv, Cmd
<1>6. RunningInv'
  <2>1. CASE r = "ok" /\ n + 1 < Len(Steps)
    BY <1>1, <1>3, <1>4, <2>1 DEF RunningInv, Record, Running
  <2>2. CASE ~(r = "ok" /\ n + 1 < Len(Steps))
    BY <2>2 DEF RunningInv, Record, Running, Trace
  <2>3. QED
    BY <2>1, <2>2
<1>7. FailFast'
  <2>1. \A k \in 1..run' :
          /\ Len(hist'[k].trace) <= Len(StepsOf(hist'[k].cmd, hist'[k].plat))
          /\ \A i \in 1..Len(hist'[k].trace) - 1 : hist'[k].trace[i] = "ok"
    <3>1. SUFFICES ASSUME NEW k \in 1..run
                   PROVE  /\ Len(hist'[k].trace) <= Len(StepsOf(hist'[k].cmd, hist'[k].plat))
                          /\ \A i \in 1..Len(hist'[k].trace) - 1 : hist'[k].trace[i] = "ok"
      OBVIOUS
    <3>2. CASE k = run
      BY <1>1, <1>2, <1>3, <1>4, <3>2 DEF Trace, Cmd, Steps
    <3>3. CASE k # run
      BY <1>1, <1>3, <3>3 DEF FailFastInv, FailFast
    <3>4. QED
      BY <3>2, <3>3
  <2>2. (phase' = "exited" /\ run' >= 1 /\ ~interrupted') =>
           /\ verdict' <=> (/\ Len(Trace') = Len(Steps')
                            /\ \A i \in 1..Len(Trace') : Trace'[i] = "ok")
           /\ (/\ Cmd' = "validate" /\ ~verdict' /\ Len(Trace') \in 1..7)
                => failedStep' = Steps'[Len(Trace')]
    <3>1. SUFFICES ASSUME phase' = "exited"
                   PROVE  /\ verdict' <=> (/\ Len(Trace') = Len(Steps')
                                           /\ \A i \in 1..Len(Trace') : Trace'[i] = "ok")
                          /\ (/\ Cmd' = "validate" /\ ~verdict' /\ Len(Trace') \in 1..7)
                               => failedStep' = Steps'[Len(Trace')]
      OBVIOUS
    <3>2. ~(r = "ok" /\ n + 1 < Len(Steps)) /\ verdict' = (r = "ok")
      BY <3>1 DEF Record, Running, Trace, Steps
    <3>3. verdict' <=> (/\ Len(Trace') = Len(Steps')
                        /\ \A i \in 1..Len(Trace') : Trace'[i] = "ok")
      <4>1. CASE r = "ok"
        <5>1. n + 1 = Len(Steps)
          BY <1>1, <1>2, <3>2, <4>1
        <5>2. \A i \in 1..n + 1 : Trace'[i] = "ok"
          BY <1>1, <1>4, <4>1
        <5>3. QED
          BY <1>3, <1>4, <3>2, <4>1, <5>1, <5>2
      <4>2. CASE r # "ok"
        <5>1. ~(\A i \in 1..Len(Trace') : Trace'[i] = "ok")
          BY <1>1, <1>4, <4>2
        <5>2. QED
          BY <3>2, <4>2, <5>1
      <4>3. QED
        BY <4>1, <4>2
    <3>4. (/\ Cmd' = "validate" /\ ~verdict' /\ Len(Trace') \in 1..7)
            => failedStep' = Steps'[Len(Trace')]
      <4>1. SUFFICES ASSUME Cmd = "validate", r # "ok", n + 1 \in 1..7
                     PROVE  failedStep' = Steps[n + 1]
        BY <1>3, <1>4, <3>2
      <4>2. Steps = ValidateSteps /\ Steps[n + 1] \in PipelineSteps
        BY <1>1, <4>1, StepsOfFacts DEF Steps, Cmd
      <4>3. Current = Steps[n + 1]
        BY DEF Current
      <4>4. QED
        BY <4>1, <4>2, <4>3 DEF Record
    <3>5. QED
      BY <3>3, <3>4
  <2>3. QED
    BY <2>1, <2>2 DEF FailFast
<1>8. QED
  BY <1>5, <1>6, <1>7

\* Every reachable state is well typed (TypeOK is the invariant of every
\* run of the model).
THEOREM TypeCorrect == Spec => []TypeOK
<1>1. TypeInv => TypeOK
  BY DEF TypeInv
<1>2. QED
  BY TypeInvInit, TypeInvStep, <1>1, PTL DEF Spec
THEOREM FailFastInvInit == Init => FailFastInv
BY TypeInvInit DEF Init, FailFastInv, CommandsInv, RunningInv, FailFast, Running

THEOREM FailFastInvStep == FailFastInv /\ [Next]_vars => FailFastInv'
<1> SUFFICES ASSUME FailFastInv, [Next]_vars PROVE FailFastInv'
  OBVIOUS
<1>1. TypeInv'
  BY TypeInvStep DEF FailFastInv
<1>2. CASE Step
  <2>1. Running /\ TypeInv
    BY <1>2 DEF Step, FailFastInv
  <2>2. (RecordStep \/ Quiet) /\ UNCHANGED <<run, interrupted>>
    BY <1>2, <2>1, StepShape
  <2>3. CASE RecordStep
    BY <2>1, <2>2, <2>3, <1>1, RecordKeepsFailFast DEF RecordStep, FailFastInv
  <2>4. CASE Quiet
    BY <2>1, <2>2, <2>4, <1>1
       DEF Quiet, FailFastInv, CommandsInv, RunningInv, FailFast, Running, Trace,
           Steps, Cmd
  <2>5. QED
    BY <2>2, <2>3, <2>4
<1>3. CASE Interrupt
  BY <1>1, <1>3 DEF Interrupt, FailFastInv, CommandsInv, RunningInv, FailFast, Running
<1>4. CASE main
  <2>1. PICK c \in Commands, p \in PlatformArg :
            hist' = [hist EXCEPT ![run + 1] = [cmd |-> c, plat |-> p, trace |-> <<>>]]
    BY <1>4 DEF main
  <2>2. run \in 0..MaxRuns - 1 /\ run' = run + 1
    BY <1>4 DEF main, FailFastInv, TypeInv, TypeOK, Runs
  <2>3. hist \in [1..MaxRuns -> HistEntry]
    BY DEF FailFastInv, TypeInv, TypeOK
  <2>4. /\ hist'[run + 1] = [cmd |-> c, plat |-> p, trace |-> <<>>]
        /\ \A k \in 1..run : hist'[k] = hist[k]
    BY <2>1, <2>2, <2>3
  <2>5. CommandsInv'
    BY <2>2, <2>4 DEF CommandsInv, FailFastInv
  <2>6. RunningInv'
    <3>1. Len(StepsOf(c, p)) \in 1..8
      BY StepsOfFacts
    <3>2. hist'[run'] = [cmd |-> c, plat |-> p, trace |-> <<>>]
      BY <2>2, <2>4
    <3>3. failedStep' = "none" /\ ~interrupted'
      BY <1>4 DEF main
    <3>4. Len(hist'[run'].trace) = 0
      BY <3>2
    <3>5. Len(hist'[run'].trace) < Len(StepsOf(hist'[run'].cmd, hist'[run'].plat))
      <4>1. hist'[run'].cmd = c /\ hist'[run'].plat = p
        BY <3>2
      <4>2. StepsOf(hist'[run'].cmd, hist'[run'].plat) = StepsOf(c, p)
        BY <4>1, Zenon
      <4>3. Len(StepsOf(hist'[run'].cmd, hist'[run'].plat)) \in 1..8
        BY <3>1, <4>2, Zenon
      <4>4. \A x, y : x = 0 /\ y \in 1..8 => x < y
        OBVIOUS
      <4>5. QED
        BY <3>4, <4>3, <4>4, Zenon
    <3>6. QED
      BY <3>3, <3>4, <3>5 DEF RunningInv, Trace, Steps, Cmd
  <2>7. FailFast'
    <3>1. \A k \in 1..run' :
            /\ Len(hist'[k].trace) <= Len(StepsOf(hist'[k].cmd, hist'[k].plat))
            /\ \A i \in 1..Len(hist'[k].trace) - 1 : hist'[k].trace[i] = "ok"
      <4>1. SUFFICES ASSUME NEW k \in 1..run'
                     PROVE  /\ Len(hist'[k].trace) <= Len(StepsOf(hist'[k].cmd, hist'[k].plat))
                            /\ \A i \in 1..Len(hist'[k].trace) - 1 : hist'[k].trace[i] = "ok"
        OBVIOUS
      <4>2. CASE k = run + 1
        BY <2>4, <4>2, StepsOfFacts
      <4>3. CASE k \in 1..run
        BY <2>4, <4>3 DEF FailFastInv, FailFast
      <4>4. QED
        BY <2>2, <4>2, <4>3
    <3>2. QED
      BY <1>4, <3>1 DEF main, FailFast
  <2>8. QED
    BY <1>1, <2>5, <2>6, <2>7 DEF FailFastInv
<1>5. CASE UNCHANGED vars
  BY <1>1, <1>5 DEF vars, proc, files, FailFastInv, CommandsInv, RunningInv, FailFast,
                    Running, Trace, Steps, Cmd, Current
<1>6. QED
  BY <1>2, <1>3, <1>4, <1>5 DEF Next

\* Fail-fast holds in every reachable state, for every platform set,
\* matrix and number of invocations: no step of validate() or of a
\* command's `and` chain runs after one that failed, and an invocation
\* that was not interrupted succeeds iff all its steps returned True,
\* with validate naming the failed step.
THEOREM FailFastHolds == Spec => []FailFast
<1>1. FailFastInv => FailFast
  BY DEF FailFastInv
<1>2. QED
  BY FailFastInvInit, FailFastInvStep, <1>1, PTL DEF Spec
=============================================================================
