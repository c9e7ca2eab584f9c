---------------------------- MODULE BuildRunner ----------------------------
(***************************************************************************)
(* The build runner of src/build.py: one invocation of `build.py <cmd>`    *)
(* runs the step functions of its command in order, each step a sequence  *)
(* of external commands (run_command) whose outcome the environment       *)
(* chooses.  Invocations follow one another; what persists between them   *)
(* is the build tree (binaries, build-info.json) and the coverage files.  *)
(*                                                                         *)
(* One action per step function; each action is the whole function, the  *)
(* files it writes included, together with what its caller does with the  *)
(* result: the fail-fast loop of validate() or the `and` chain of main(). *)
(***************************************************************************)
EXTENDS Naturals, Sequences, FiniteSets

CONSTANTS
    Platforms,    \* the (os, arch) pairs a build can target
    Host,         \* the platform build.py itself runs on
    Matrix,       \* BuildRunner.SUPPORTED_PLATFORMS, in declaration order
    MainBin,      \* the slot build/shoal, written by build_binary
    None,         \* an absent file
    NoPlatform,   \* `build` without --platform
    MaxRuns       \* how many times build.py is invoked

ASSUME Assumptions ==
    /\ Host \in Platforms
    /\ Matrix \in Seq(Platforms)
    /\ \A i, j \in 1..Len(Matrix) : Matrix[i] = Matrix[j] => i = j
    /\ MainBin \notin Platforms
    /\ None \notin [target : Platforms, run : 1..MaxRuns]
    /\ NoPlatform \notin Platforms
    /\ MaxRuns \in Nat \ {0}

VARIABLES
    \* -- the running process --------------------------------------------
    run,          \* invocations started so far
    phase,        \* "running" while an invocation runs, "exited" after
    verdict,      \* main()'s `success`
    interrupted,  \* KeyboardInterrupt reached main()
    failedStep,   \* the step validate() reported as failed
    mpos,         \* loop position in build_all_platforms
    allOk,        \* build_all_platforms' all_ok
    covReported,  \* run_tests printed "Coverage report generated"
    \* -- the file system, persistent across invocations -----------------
    bin,          \* build/shoal and build/shoal-<os>-<arch>[.exe]
    info,         \* build/build-info.json: the run that wrote it, 0 if absent
    covOut,       \* coverage.out: the run that wrote it, 0 if absent
    covHtml,      \* coverage.html: the run that wrote it, 0 if absent
    infoRec,      \* the git fields of build-info.json (meaningful while info # 0)
    \* -- history, read only by the properties ---------------------------
    hist,         \* per invocation: command, --platform and step results
    tres          \* per matrix target: what build_for_platform returned

proc == <<run, phase, verdict, interrupted, failedStep, mpos, allOk, covReported>>
files == <<bin, info, covOut, covHtml, infoRec>>
vars == <<proc, files, hist, tres>>

-----------------------------------------------------------------------------
(* Data.                                                                   *)

Commands == {"clean", "deps", "fmt", "lint", "test", "coverage",
             "build", "build-all", "validate"}
PlatformArg == Platforms \cup {NoPlatform}

\* What subprocess.run can do: exit 0, exit nonzero, FileNotFoundError
\* (turned into exit code 1 by run_command), or another OSError, which
\* run_command does not catch.
Outcome == {"ok", "fail", "missing", "raise"}

\* What a step function can do: return True, return False, or raise.
StepResult == {"ok", "fail", "exc"}
TargetResult == StepResult \cup {"none"}

\* The fields of build-info.json that git supplies: the commit prefix
\* ("hash" for any 8-character prefix), the branch ("name" for any
\* non-empty branch name) and the dirty flag.
InfoRecord == [commit : {"hash", "unknown"}, branch : {"name", "", "unknown"},
               dirty : BOOLEAN]
NoInfo == [commit |-> "unknown", branch |-> "unknown", dirty |-> FALSE]

\* The working tree build.py runs in: not a git repository, a checkout of
\* a branch, or a detached HEAD.
GitContext == {"norepo", "branch", "detached"}

Slots == Platforms \cup {MainBin}
Binary == [target : Platforms, run : 1..MaxRuns]
Runs == 0..MaxRuns
HistEntry == [cmd : Commands \cup {"none"}, plat : PlatformArg,
              trace : Seq(StepResult)]

\* validate()'s `steps` list, followed by the call of generate_build_info.
PipelineSteps == {"Prerequisites", "Dependencies", "Format", "Lint",
                  "Tests", "Security", "Build"}
ValidateSteps == <<"Prerequisites", "Dependencies", "Format", "Lint",
                   "Tests", "Security", "Build", "BuildInfo">>

\* The step functions main() chains with `and` for each command.
StepsOf(c, p) ==
    CASE c = "clean"     -> <<"Clean">>
      [] c = "deps"      -> <<"Prerequisites", "Dependencies">>
      [] c = "fmt"       -> <<"Prerequisites", "Format">>
      [] c = "lint"      -> <<"Prerequisites", "Lint">>
      [] c = "test"      -> <<"Prerequisites", "Dependencies", "Tests">>
      [] c = "coverage"  -> <<"Prerequisites", "Dependencies", "Tests">>
      [] c = "build"     -> IF p = NoPlatform
                              THEN <<"Prerequisites", "Dependencies", "Build">>
                              ELSE <<"Prerequisites", "Dependencies", "BuildPlatform">>
      [] c = "build-all" -> <<"Prerequisites", "Dependencies", "BuildAll">>
      [] c = "validate"  -> ValidateSteps

Cmd == hist[run].cmd
Trace == hist[run].trace
Steps == StepsOf(Cmd, hist[run].plat)
Current == Steps[Len(Trace) + 1]
WithCoverage == Cmd \in {"coverage", "validate"}

\* The result of `ret_code, ... = run_command(...); if ret_code != 0:
\* return False` followed by the rest r of the function.
Then(o, r) == CASE o = "raise" -> "exc"
                [] o = "ok"    -> r
                [] OTHER       -> "fail"

\* GOOS/GOARCH are put in a copy of os.environ that is never handed to
\* run_command, so `go build` compiles for the host whatever the target.
CompiledFor(target) == Host

-----------------------------------------------------------------------------
(* The caller's handling of a step's result: the loop of validate() and    *)
(* the `and` chains of main() go on with the next step after True, and     *)
(* end the invocation after False or an exception (caught by validate()'s *)
(* `except Exception` or by main()'s).                                     *)

\* Mutant: validate() reports generate_build_info's exception as a
\* failed step of its own, as if the call sat inside the loop's try.
Record_infoInTry(r) ==
    /\ hist' = [hist EXCEPT ![run].trace = Append(@, r)]
    /\ failedStep' = IF Cmd = "validate" /\ r # "ok" THEN Current ELSE failedStep
    /\ IF r = "ok" /\ Len(Trace) + 1 < Len(Steps)
         THEN UNCHANGED <<phase, verdict>>
         ELSE /\ phase' = "exited"
              /\ verdict' = (r = "ok")

\* Mutant: a step returning False does not end the chain (a dropped
\* `return False`).
Record_failContinues(r) ==
    /\ hist' = [hist EXCEPT ![run].trace = Append(@, r)]
    /\ failedStep' = IF Cmd = "validate" /\ r # "ok" /\ Current \in PipelineSteps
                       THEN Current ELSE failedStep
    /\ IF r # "exc" /\ Len(Trace) + 1 < Len(Steps)
         THEN UNCHANGED <<phase, verdict>>
         ELSE /\ phase' = "exited"
              /\ verdict' = (r = "ok")

\* Mutant: validate()'s `except Exception` prints the error and goes on
\* with the next step.
Record_excContinues(r) ==
    /\ hist' = [hist EXCEPT ![run].trace = Append(@, r)]
    /\ failedStep' = IF Cmd = "validate" /\ r # "ok" /\ Current \in PipelineSteps
                       THEN Current ELSE failedStep
    /\ IF r # "fail" /\ Len(Trace) + 1 < Len(Steps)
         THEN UNCHANGED <<phase, verdict>>
         ELSE /\ phase' = "exited"
              /\ verdict' = (r = "ok")

Record(r) ==
    /\ hist' = [hist EXCEPT ![run].trace = Append(@, r)]
    /\ failedStep' = IF Cmd = "validate" /\ r # "ok" /\ Current \in PipelineSteps
                       THEN Current ELSE failedStep
    /\ IF r = "ok" /\ Len(Trace) + 1 < Len(Steps)
         THEN UNCHANGED <<phase, verdict>>
         ELSE /\ phase' = "exited"
              /\ verdict' = (r = "ok")

\* A step that leaves the file system alone.
Pure(name, r) ==
    /\ Current = name
    /\ Record(r)
    /\ UNCHANGED <<run, interrupted, mpos, allOk, covReported, files, tres>>

-----------------------------------------------------------------------------
(* The step functions.                                                     *)

Running == phase = "running"

\* `go version`, then go.mod must exist.
check_prerequisites ==
    \E o \in Outcome, gomod \in BOOLEAN :
        Pure("Prerequisites", Then(o, IF gomod THEN "ok" ELSE "fail"))

\* `go mod download`, then `go mod verify`.
download_dependencies ==
    \E o1, o2 \in Outcome : Pure("Dependencies", Then(o1, Then(o2, "ok")))

\* `go fmt ./...`.
format_code ==
    \E o \in Outcome : Pure("Format", Then(o, "ok"))

\* `golangci-lint --version`; exit 0 runs `golangci-lint run`, anything
\* else (the linter missing included) falls back to `go vet ./...`.
lint_code ==
    \E probe, o \in Outcome :
        Pure("Lint", IF probe = "raise" THEN "exc" ELSE Then(o, "ok"))

\* `gosec -version`; exit 0 runs `gosec ./...`, anything else skips the
\* scan with a warning and passes.
run_security_checks ==
    \E probe, o \in Outcome :
        Pure("Security", CASE probe = "raise" -> "exc"
                           [] probe = "ok"    -> Then(o, "ok")
                           [] OTHER           -> "ok")

\* `go test [-coverprofile=coverage.out] -v ./...`; with coverage, when
\* coverage.out exists, `go tool cover -func`, and on its success
\* `go tool cover -html`, after which the report is announced if
\* coverage.html exists.
run_tests ==
    /\ Current = "Tests"
    /\ \E oTest, oFunc, oHtml \in Outcome :
        LET out == IF WithCoverage /\ oTest = "ok" THEN run ELSE covOut
            report == WithCoverage /\ oTest = "ok" /\ out # 0 /\ oFunc = "ok"
            html == IF report /\ oHtml = "ok" THEN run ELSE covHtml
            r == CASE oTest = "raise"           -> "exc"
                   [] oTest # "ok"              -> "fail"
                   [] WithCoverage /\ oFunc = "raise" -> "exc"
                   [] report /\ oHtml = "raise" -> "exc"
                   [] OTHER                     -> "ok"
        IN /\ covOut' = out
           /\ covHtml' = html
           /\ covReported' = (report /\ oHtml # "raise" /\ html # 0)
           /\ Record(r)
    /\ UNCHANGED <<run, interrupted, mpos, allOk, bin, info, infoRec, tres>>

\* `go build ... -o build/shoal`; the binary must then exist, and
\* `build/shoal -h` is tried, its failure only a warning.
build_binary ==
    /\ Current = "Build"
    /\ \E oBuild, oExec \in Outcome :
        /\ bin' = IF oBuild = "ok"
                    THEN [bin EXCEPT ![MainBin] = [target |-> CompiledFor(Host), run |-> run]]
                    ELSE bin
        /\ Record(IF oBuild = "ok" /\ oExec = "raise" THEN "exc" ELSE Then(oBuild, "ok"))
    /\ UNCHANGED <<run, interrupted, mpos, allOk, covReported, info, covOut, covHtml, infoRec, tres>>

\* build_for_platform(t) writes build/shoal-<os>-<arch> when `go build`
\* exits 0.
BuiltFor(t, o) ==
    IF o = "ok" THEN [bin EXCEPT ![t] = [target |-> CompiledFor(t), run |-> run]]
    ELSE bin

build_for_platform ==
    /\ Current = "BuildPlatform"
    /\ \E o \in Outcome :
        /\ bin' = BuiltFor(hist[run].plat, o)
        /\ Record(Then(o, "ok"))
    /\ UNCHANGED <<run, interrupted, mpos, allOk, covReported, info, covOut, covHtml, infoRec, tres>>

\* Mutant: `all_ok = all_ok and self.build_for_platform(...)`, which
\* skips every target after the first failure.
build_all_platforms_target_shortCircuit ==
    /\ Current = "BuildAll"
    /\ mpos <= Len(Matrix)
    /\ \/ /\ ~allOk
          /\ mpos' = mpos + 1
          /\ UNCHANGED <<bin, tres, allOk, hist, failedStep, phase, verdict>>
       \/ /\ allOk
          /\ \E o \in Outcome :
               LET t == Matrix[mpos]
                   r == Then(o, "ok")
               IN /\ bin' = BuiltFor(t, o)
                  /\ tres' = [tres EXCEPT ![t] = r]
                  /\ mpos' = mpos + 1
                  /\ allOk' = (r = "ok")
                  /\ IF r = "exc" THEN Record("exc")
                                  ELSE UNCHANGED <<hist, failedStep, phase, verdict>>
    /\ UNCHANGED <<run, interrupted, covReported, info, covOut, covHtml, infoRec>>

build_all_platforms_target_retry ==
    /\ Current = "BuildAll"
    /\ mpos <= Len(Matrix)
    /\ \E o \in Outcome :
        LET t == Matrix[mpos]
            r == Then(o, "ok")
        IN /\ bin' = BuiltFor(t, o)
           /\ tres' = [tres EXCEPT ![t] = r]
           /\ mpos' = IF r = "fail" THEN mpos ELSE mpos + 1
           /\ allOk' = (allOk /\ r = "ok")
           /\ IF r = "exc" THEN Record("exc")
                           ELSE UNCHANGED <<hist, failedStep, phase, verdict>>
    /\ UNCHANGED <<run, interrupted, covReported, info, covOut, covHtml, infoRec>>

\* One iteration of build_all_platforms' loop: a False does not stop the
\* loop, an exception leaves it (and main()'s chain).
build_all_platforms_target ==
    /\ Current = "BuildAll"
    /\ mpos <= Len(Matrix)
    /\ \E o \in Outcome :
        LET t == Matrix[mpos]
            r == Then(o, "ok")
        IN /\ bin' = BuiltFor(t, o)
           /\ tres' = [tres EXCEPT ![t] = r]
           /\ mpos' = mpos + 1
           /\ allOk' = (allOk /\ r = "ok")
           /\ IF r = "exc" THEN Record("exc")
                           ELSE UNCHANGED <<hist, failedStep, phase, verdict>>
    /\ UNCHANGED <<run, interrupted, covReported, info, covOut, covHtml, infoRec>>

\* Mutant: the loop's end tested one past the last target.
build_all_platforms_done_offByOne ==
    /\ Current = "BuildAll"
    /\ mpos > Len(Matrix) + 1
    /\ Record(IF allOk THEN "ok" ELSE "fail")
    /\ UNCHANGED <<run, interrupted, mpos, allOk, covReported, files, tres>>

\* The loop is over: build_all_platforms returns all_ok.
build_all_platforms_done ==
    /\ Current = "BuildAll"
    /\ mpos > Len(Matrix)
    /\ Record(IF allOk THEN "ok" ELSE "fail")
    /\ UNCHANGED <<run, interrupted, mpos, allOk, covReported, files, tres>>

\* The record generate_build_info builds from the exit codes of
\* `git rev-parse HEAD`, `git branch --show-current` and
\* `git status --porcelain` (whether status printed anything is d).
\* On a detached HEAD the branch probe exits 0 and prints nothing.
GitFields(ctx, oRev, oBr, oSt, d) ==
    [commit |-> IF oRev = "ok" THEN "hash" ELSE "unknown",
     branch |-> CASE oBr # "ok"       -> "unknown"
                  [] ctx = "detached" -> ""
                  [] OTHER            -> "name",
     dirty  |-> oSt = "ok" /\ d]

\* The outcomes of generate_build_info's probes in working tree ctx:
\* outside a repository every git probe exits nonzero.
ProbesIn(ctx, oRev, oBr, oSt) == ctx = "norepo" => "ok" \notin {oRev, oBr, oSt}

\* validate() calls generate_build_info after the loop, outside its try:
\* an OSError of one of the git probes or of `go version`, or a failed
\* write of build-info.json, reaches main()'s `except`.  write_text opens
\* the file with truncation: a write that fails after the open leaves no
\* record, one whose open fails leaves the old file.  After the write,
\* validate()'s print_success can still raise an OSError (a closed
\* stdout), which main()'s `except` turns into a failure with the new
\* record on disk.
generate_build_info ==
    /\ Current = "BuildInfo"
    /\ \E ctx \in GitContext, oRev, oBr, oSt \in Outcome, d, written, printed \in BOOLEAN :
        LET raised == "raise" \in {oRev, oBr, oSt}
            wrote == ~raised /\ written
        IN /\ ProbesIn(ctx, oRev, oBr, oSt)
           /\ \/ wrote /\ info' = run
              \/ raised /\ info' = info
              \/ ~raised /\ ~written /\ info' \in {info, 0}
           /\ infoRec' = IF wrote THEN GitFields(ctx, oRev, oBr, oSt, d) ELSE infoRec
           /\ Record(IF wrote /\ printed THEN "ok" ELSE "exc")
    /\ UNCHANGED <<run, interrupted, mpos, allOk, covReported, bin, covOut, covHtml, tres>>

\* rmtree(build), then the unlinks of the coverage and test files; an
\* OSError in rmtree leaves part of build/, one in an unlink leaves part
\* of the coverage files: coverage.out is unlinked before coverage.html.
clean ==
    /\ Current = "Clean"
    /\ \/ /\ bin' = [s \in Slots |-> None]
          /\ info' = 0 /\ covOut' = 0 /\ covHtml' = 0
          /\ Record("ok")
       \/ /\ \E keep \in SUBSET Slots :
                bin' = [s \in Slots |-> IF s \in keep THEN bin[s] ELSE None]
          /\ info' \in {info, 0}
          /\ UNCHANGED <<covOut, covHtml>>
          /\ Record("exc")
       \/ /\ bin' = [s \in Slots |-> None]
          /\ info' = 0
          /\ \/ UNCHANGED <<covOut, covHtml>>
             \/ covOut' = 0 /\ covHtml' \in {covHtml, 0}
          /\ Record("exc")
    /\ UNCHANGED <<run, interrupted, mpos, allOk, covReported, infoRec, tres>>

-----------------------------------------------------------------------------
(* main(): a new invocation, and KeyboardInterrupt.                        *)

main ==
    /\ phase = "exited"
    /\ run < MaxRuns
    /\ \E c \in Commands, p \in PlatformArg :
        /\ c # "build" => p = NoPlatform
        /\ hist' = [hist EXCEPT ![run + 1] = [cmd |-> c, plat |-> p, trace |-> <<>>]]
    /\ run' = run + 1
    /\ phase' = "running"
    /\ verdict' = FALSE
    /\ interrupted' = FALSE
    /\ failedStep' = "none"
    /\ mpos' = 1
    /\ allOk' = TRUE
    /\ covReported' = FALSE
    /\ tres' = [t \in Platforms |-> "none"]
    /\ UNCHANGED files

\* What a Ctrl-C inside generate_build_info leaves of build-info.json:
\* the file write_text has opened and truncated, or the new record once
\* the write is done and validate() has not yet returned True (lines
\* 374-420, and main()'s assignment at 481).
InfoLeftBehind ==
    \/ info' = 0 /\ infoRec' = infoRec
    \/ \E ctx \in GitContext, oRev, oBr, oSt \in Outcome \ {"raise"}, d \in BOOLEAN :
          /\ ProbesIn(ctx, oRev, oBr, oSt)
          /\ info' = run
          /\ infoRec' = GitFields(ctx, oRev, oBr, oSt, d)

\* Ctrl-C anywhere: main() reports failure; nothing is cleaned up.  Inside
\* a step function it has the effect of Ctrl-C before or after it, except
\* in generate_build_info, whose write it can interrupt or follow.
Interrupt ==
    /\ Running
    /\ phase' = "exited"
    /\ verdict' = FALSE
    /\ interrupted' = TRUE
    /\ \/ UNCHANGED <<info, infoRec>>
       \/ Current = "BuildInfo" /\ InfoLeftBehind
    /\ UNCHANGED <<run, failedStep, mpos, allOk, covReported, bin, covOut, covHtml, hist, tres>>

-----------------------------------------------------------------------------

Init ==
    /\ run = 0
    /\ phase = "exited"
    /\ verdict = FALSE
    /\ interrupted = FALSE
    /\ failedStep = "none"
    /\ mpos = 1
    /\ allOk = TRUE
    /\ covReported = FALSE
    /\ bin = [s \in Slots |-> None]
    /\ info = 0
    /\ covOut = 0
    /\ covHtml = 0
    /\ infoRec = NoInfo
    /\ hist = [r \in 1..MaxRuns |-> [cmd |-> "none", plat |-> NoPlatform, trace |-> <<>>]]
    /\ tres = [t \in Platforms |-> "none"]

\* One step of the running invocation.
Step ==
    /\ Running
    /\ \/ check_prerequisites
       \/ download_dependencies
       \/ format_code
       \/ lint_code
       \/ run_tests
       \/ run_security_checks
       \/ build_binary
       \/ build_for_platform
       \/ build_all_platforms_target
       \/ build_all_platforms_done
       \/ generate_build_info
       \/ clean

Next == Step \/ Interrupt \/ main

\* build.py runs one command at a time to completion; the process is not
\* starved while it runs (the tools it waits on are assumed to return:
\* there is no timeout).
Spec == Init /\ [][Next]_vars /\ WF_vars(Step)

-----------------------------------------------------------------------------
(* Properties.                                                             *)

\* Every variable holds a value of its type.
TypeOK ==
    /\ run \in Runs
    /\ phase \in {"running", "exited"}
    /\ verdict \in BOOLEAN
    /\ interrupted \in BOOLEAN
    /\ failedStep \in PipelineSteps \cup {"none"}
    /\ mpos \in 1..Len(Matrix) + 1
    /\ allOk \in BOOLEAN
    /\ covReported \in BOOLEAN
    /\ bin \in [Slots -> Binary \cup {None}]
    /\ info \in Runs
    /\ covOut \in Runs
    /\ covHtml \in Runs
    /\ infoRec \in InfoRecord
    /\ hist \in [1..MaxRuns -> HistEntry]
    /\ tres \in [Platforms -> TargetResult]

\* Fail-fast (spec section 3): in every invocation, no step function ran
\* after one that returned False or raised, and none ran beyond the
\* command's list; an invocation that ended without Ctrl-C succeeded iff
\* every step of its command ran and returned True, and a failed validate
\* names the step that failed (validate()'s loop and main()'s `and` chains).
FailFast ==
    /\ \A r \in 1..run :
         /\ Len(hist[r].trace) <= Len(StepsOf(hist[r].cmd, hist[r].plat))
         /\ \A i \in 1..Len(hist[r].trace) - 1 : hist[r].trace[i] = "ok"
    /\ (phase = "exited" /\ run >= 1 /\ ~interrupted) =>
         /\ verdict <=> (/\ Len(Trace) = Len(Steps)
                         /\ \A i \in 1..Len(Trace) : Trace[i] = "ok")
         /\ (/\ Cmd = "validate" /\ ~verdict /\ Len(Trace) \in 1..7)
              => failedStep = Steps[Len(Trace)]

\* The platform matrix does not fail fast (spec 4.3): once
\* build_all_platforms has returned, every declared target was attempted,
\* the matrix succeeded iff every target did, and a target has an artifact
\* written by this invocation iff its build succeeded, whatever older
\* artifacts build/ still holds.
MatrixOutcome ==
    (run >= 1 /\ Cmd = "build-all" /\ Len(Trace) = 3 /\ Trace[3] # "exc") =>
        /\ \A i \in 1..Len(Matrix) : tres[Matrix[i]] \in {"ok", "fail"}
        /\ (Trace[3] = "ok") <=> (\A i \in 1..Len(Matrix) : tres[Matrix[i]] = "ok")
        /\ \A i \in 1..Len(Matrix) :
             (bin[Matrix[i]] # None /\ bin[Matrix[i]].run = run)
                <=> tres[Matrix[i]] = "ok"

\* build-info.json documents a known-good build (spec 3): whenever it
\* exists, the invocation that wrote it was a validate whose seven
\* pipeline steps all returned True; no later clean, failed run or
\* interrupt leaves a record of a failed pipeline behind.
KnownGoodInfo ==
    info # 0 =>
        /\ hist[info].cmd = "validate"
        /\ Len(hist[info].trace) >= 7
        /\ \A i \in 1..7 : hist[info].trace[i] = "ok"

\* Every invocation ends with a verdict (spec 4.2: the pipeline always
\* terminates with a definite pass/fail), given that the tools it waits
\* on return.
Termination == Running ~> phase = "exited"

\* The work left to the running invocation: the steps of its command not
\* yet run, each counted as a whole pass of the matrix loop, and the
\* targets the loop has not tried yet.
Remaining ==
    (Len(Steps) - Len(Trace)) * (Len(Matrix) + 1) + (Len(Matrix) + 1 - mpos)

\* No step of build.py stands still or repeats work: every step function
\* and every iteration of build_all_platforms' loop strictly decreases the
\* work left, which stays a natural number, so an invocation runs at most
\* (steps + 1) * (targets + 1) steps.  With the fairness of Spec this is
\* why every invocation ends.
StepProgress == [][Step => Remaining' \in Nat /\ Remaining' < Remaining]_vars

\* Each artifact build/shoal-<os>-<arch> is a binary for <os>/<arch>
\* (spec 4.3: the environment overrides select the target of go build).
ArtifactMatchesTarget ==
    \A t \in Platforms : bin[t] # None => bin[t].target = t

\* Between invocations, build-info.json sits beside the binary whose
\* known-good build it documents (spec 3 and 4.4).
BuildInfoMatchesBinary ==
    (phase = "exited" /\ info # 0 /\ bin[MainBin] # None) => bin[MainBin].run = info

\* When run_tests announces "Coverage report generated: coverage.html",
\* the report was generated from this invocation's coverage.out.
CoverageReportFresh ==
    covReported => covHtml = run

\* BuildInfoRecorder never fails the pipeline (spec 4.4): a validate whose
\* seven steps all returned True and that was not interrupted succeeds.
BuildInfoNeverFails ==
    (/\ phase = "exited" /\ run >= 1 /\ ~interrupted /\ Cmd = "validate"
     /\ Len(Trace) >= 7 /\ \A i \in 1..7 : Trace[i] = "ok") => verdict

\* The matrix does not fail fast (spec 4.3, 7 PartialMatrixFailure): an
\* uninterrupted build-all that reached build_all_platforms attempted
\* every declared target, whatever happened to the earlier ones.
MatrixAttemptsAll ==
    (/\ phase = "exited" /\ run >= 1 /\ ~interrupted /\ Cmd = "build-all"
     /\ Len(Trace) = 3)
        => \A i \in 1..Len(Matrix) : tres[Matrix[i]] \in {"ok", "fail"}

\* build-info.json names the branch it was built from, or "unknown" when
\* the branch cannot be determined (spec 3 and 4.4).
InfoBranchNamed ==
    info # 0 => infoRec.branch \in {"name", "unknown"}

-----------------------------------------------------------------------------
(* The refinement of PlatformMatrix: a matrix build starts when a build-all *)
(* has passed its dependency step and ends with build_all_platforms'       *)
(* result; the loop's iterations are the attempts, Ctrl-C in the loop      *)
(* abandons it and the next invocation forgets it.  Everything else is a   *)
(* stuttering step.                                                        *)

MatrixTargets == {Matrix[i] : i \in 1..Len(Matrix)}

\* The running or last invocation is a build-all that reached the loop.
InMatrix == run >= 1 /\ Cmd = "build-all" /\ Len(Trace) >= 2 /\ Trace[2] = "ok"

\* Idle outside the loop's invocation and after Ctrl-C in it; building
\* while the loop runs; then build_all_platforms' result.
MatrixStatus ==
    IF ~InMatrix THEN "idle"
    ELSE IF Len(Trace) = 3 THEN Trace[3]
    ELSE IF Running THEN "building"
    ELSE "idle"

MatrixResult == [t \in MatrixTargets |-> IF MatrixStatus = "idle" THEN "none" ELSE tres[t]]

MatrixArtifact == [t \in MatrixTargets |->
                      MatrixStatus # "idle" /\ bin[t] # None /\ bin[t].run = run]

Matrix_ == INSTANCE PlatformMatrix WITH
    Targets  <- MatrixTargets,
    status   <- MatrixStatus,
    result   <- MatrixResult,
    artifact <- MatrixArtifact

=============================================================================
