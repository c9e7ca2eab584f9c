-------------------------- MODULE BuildInfoProofs --------------------------
(***************************************************************************)
(* build-info.json only ever documents a passing validate: the proof of    *)
(* KnownGoodInfo for every platform set, matrix and number of invocations.*)
(*                                                                         *)
(* KnownGoodInfo speaks of the invocation that wrote the file; the steps  *)
(* that could disturb it are the ones that append to the running          *)
(* invocation's trace and main(), which starts a new trace.  Neither      *)
(* touches that invocation's record as long as it is an earlier one:     *)
(* InfoInv says the writer is a counted invocation, and an earlier one    *)
(* while another runs.  generate_build_info writes the file only as the   *)
(* last step of a validate whose seven steps returned True, which is      *)
(* what RunningInv of the fail-fast proof gives.                          *)
(***************************************************************************)
EXTENDS BuildRunnerProofs

USE Assumptions

InfoInv ==
    /\ info \in 0..run
    /\ Running => info < run

KnownGoodInv ==
    /\ FailFastInv
    /\ InfoInv
    /\ KnownGoodInfo

\* Only validate has a step "BuildInfo", and it is its eighth.
LEMMA BuildInfoStep ==
    ASSUME NEW c \in Commands, NEW p, NEW i \in 1..Len(StepsOf(c, p)),
           StepsOf(c, p)[i] = "BuildInfo"
    PROVE  c = "validate" /\ i = 8
<1>1. CASE c = "validate"
  BY <1>1 DEF StepsOf, ValidateSteps
<1>2. CASE c \in {"clean", "deps", "fmt", "lint", "test", "coverage", "build-all"}
  BY <1>2 DEF StepsOf
<1>3. CASE c = "build"
  <2>1. CASE p = NoPlatform
    BY <1>3, <2>1 DEF StepsOf
  <2>2. CASE p # NoPlatform
    BY <1>3, <2>2 DEF StepsOf
  <2>3. QED
    BY <2>1, <2>2
<1>4. QED
  BY <1>1, <1>2, <1>3 DEF Commands

\* A step of the running invocation changes no other invocation's record.
LEMMA HistFrame ==
    ASSUME TypeInv, Running, RecordStep \/ Quiet
    PROVE  \A k \in 1..MaxRuns \ {run} : hist'[k] = hist[k]
<1>1. run \in 1..MaxRuns /\ hist \in [1..MaxRuns -> HistEntry]
  BY DEF TypeInv, TypeOK, Running
<1>2. QED
  BY <1>1 DEF RecordStep, Quiet, Record

THEOREM KnownGoodInvInit == Init => KnownGoodInv
BY FailFastInvInit DEF Init, KnownGoodInv, InfoInv, KnownGoodInfo, Running

\* Appending a result to a trace keeps the results before it.
LEMMA AppendKeeps ==
    ASSUME NEW q \in Seq(StepResult), NEW x \in StepResult
    PROVE  Len(Append(q, x)) = Len(q) + 1 /\ \A i \in 1..Len(q) : Append(q, x)[i] = q[i]
OBVIOUS

\* ... so a trace of seven results becomes one of eight with the same
\* first seven.
LEMMA AppendSeven ==
    ASSUME NEW q \in Seq(StepResult), NEW x \in StepResult, Len(q) = 7
    PROVE  Len(Append(q, x)) = 8 /\ \A i \in 1..7 : Append(q, x)[i] = q[i]
<1>1. Len(Append(q, x)) = Len(q) + 1 /\ \A i \in 1..Len(q) : Append(q, x)[i] = q[i]
  BY AppendKeeps
<1>2. QED
  BY <1>1

\* When generate_build_info is next, the running invocation is a validate
\* whose seven pipeline steps returned True.
LEMMA AtBuildInfo ==
    ASSUME FailFastInv, Running, Current = "BuildInfo"
    PROVE  /\ run \in 1..MaxRuns /\ hist \in [1..MaxRuns -> HistEntry]
           /\ Cmd = "validate" /\ Trace \in Seq(StepResult)
           /\ Len(Trace) = 7 /\ Len(Steps) = 8
           /\ \A i \in 1..7 : Trace[i] = "ok"
<1>1. /\ run \in 1..MaxRuns /\ hist \in [1..MaxRuns -> HistEntry]
      /\ Cmd \in Commands /\ Trace \in Seq(StepResult) /\ Len(Trace) \in Nat
      /\ Len(Trace) < Len(Steps) /\ \A i \in 1..Len(Trace) : Trace[i] = "ok"
  <2>1. run \in 1..MaxRuns /\ hist \in [1..MaxRuns -> HistEntry]
    BY DEF FailFastInv, TypeInv, TypeOK, Running
  <2>2. Cmd \in Commands /\ Trace \in Seq(StepResult) /\ Len(Trace) \in Nat
    BY <2>1 DEF FailFastInv, CommandsInv, Cmd, Trace, HistEntry
  <2>3. QED
    BY <2>1, <2>2 DEF FailFastInv, RunningInv
<1>2. Cmd = "validate" /\ Len(Trace) + 1 = 8
  <2>1. Steps[Len(Trace) + 1] = "BuildInfo"
    BY DEF Current
  <2>2. Len(Trace) + 1 \in 1..Len(Steps)
    BY <1>1
  <2>3. QED
    BY <1>1, <2>1, <2>2, BuildInfoStep DEF Steps, Cmd
<1>3. Len(Steps) = 8
  BY <1>1, <1>2, StepsOfFacts DEF Steps, Cmd, ValidateSteps
<1>4. Len(Trace) = 7
  <2>1. \A m \in Nat : m + 1 = 8 => m = 7
    OBVIOUS
  <2>2. QED
    BY <1>1, <1>2, <2>1
<1>5. QED
  BY <1>1, <1>2, <1>3, <1>4

\* A new record in build-info.json, written while a validate whose seven
\* steps returned True runs, documents a known-good build as long as that
\* invocation's trace keeps those seven results.
LEMMA FreshInfoKnownGood ==
    ASSUME FailFastInv, Running, Current = "BuildInfo", info' = run,
           hist'[run].cmd = hist[run].cmd,
           Len(hist'[run].trace) >= 7,
           \A i \in 1..7 : hist'[run].trace[i] = hist[run].trace[i]
    PROVE  KnownGoodInfo'
<1>1. Cmd = "validate" /\ Len(Trace) = 7 /\ \A i \in 1..7 : Trace[i] = "ok"
  BY AtBuildInfo
<1>2. QED
  BY <1>1 DEF KnownGoodInfo, Cmd, Trace

\* generate_build_info writes a new record, truncates the file or leaves
\* it, and ends validate; a new record can be followed by True or by the
\* OSError of print_success.
LEMMA BuildInfoShape ==
    ASSUME generate_build_info
    PROVE  \E r \in {"ok", "exc"} :
              /\ info' \in {run, info, 0}
              /\ r = "ok" => info' = run
              /\ Record(r)
BY DEF generate_build_info

\* The file is written only as the last step of a validate whose seven
\* steps returned True, and that step ends the invocation.
LEMMA BuildInfoKeepsKnownGood ==
    ASSUME KnownGoodInv, Running, generate_build_info
    PROVE  (InfoInv /\ KnownGoodInfo)'
<1>1. /\ run \in 1..MaxRuns /\ hist \in [1..MaxRuns -> HistEntry]
      /\ Cmd = "validate" /\ Trace \in Seq(StepResult)
      /\ Len(Trace) = 7 /\ Len(Steps) = 8
      /\ \A i \in 1..7 : Trace[i] = "ok"
  BY AtBuildInfo DEF KnownGoodInv, generate_build_info
<1>2. info \in 0..run /\ info < run
  BY DEF KnownGoodInv, InfoInv
<1>3. PICK r \in {"ok", "exc"} :
        /\ info' \in {run, info, 0}
        /\ Record(r)
  BY BuildInfoShape
<1>4. /\ hist' = [hist EXCEPT ![run] = [hist[run] EXCEPT !.trace = Append(Trace, r)]]
      /\ phase' = "exited"
  BY <1>1, <1>3 DEF Record, Trace
<1>5. run' = run
  BY DEF generate_build_info
<1>6. InfoInv'
  BY <1>1, <1>2, <1>3, <1>4, <1>5 DEF InfoInv, Running
<1>7. CASE info' = run
  <2>1. hist'[run] = [hist[run] EXCEPT !.trace = Append(Trace, r)]
    BY <1>1, <1>4
  <2>2. hist'[run].cmd = hist[run].cmd /\ hist'[run].trace = Append(Trace, r)
    BY <1>1, <2>1 DEF HistEntry, Trace
  <2>3. Len(hist'[run].trace) = 8 /\ \A i \in 1..7 : hist'[run].trace[i] = Trace[i]
    <3>1. r \in StepResult /\ Trace \in Seq(StepResult) /\ Len(Trace) = 7
      BY <1>1 DEF StepResult
    <3>2. Len(Append(Trace, r)) = 8 /\ \A i \in 1..7 : Append(Trace, r)[i] = Trace[i]
      BY <3>1, AppendSeven
    <3>3. QED
      BY <2>2, <3>2
  <2>4. QED
    BY <1>6, <1>7, <2>2, <2>3, FreshInfoKnownGood DEF KnownGoodInv, generate_build_info, Trace
<1>8. CASE info' = 0
  BY <1>6, <1>8 DEF KnownGoodInfo
<1>9. CASE info' = info /\ info # run
  <2>1. info # 0 => hist'[info] = hist[info]
    BY <1>1, <1>2, <1>4
  <2>2. SUFFICES ASSUME info # 0
                 PROVE  /\ hist'[info].cmd = "validate"
                        /\ Len(hist'[info].trace) >= 7
                        /\ \A i \in 1..7 : hist'[info].trace[i] = "ok"
    BY <1>6, <1>9 DEF KnownGoodInfo
  <2>3. QED
    BY <1>6, <2>1, <2>2 DEF KnownGoodInv, KnownGoodInfo
<1>10. QED
  BY <1>2, <1>3, <1>7, <1>8, <1>9

\* Ctrl-C inside generate_build_info leaves an empty file or the new
\* record of the running validate, whose seven steps returned True.
LEMMA InterruptKeepsKnownGood ==
    ASSUME KnownGoodInv, Interrupt
    PROVE  (InfoInv /\ KnownGoodInfo)'
<1>1. Running /\ ~Running' /\ run' = run /\ hist' = hist
  BY DEF Interrupt, Running
<1>2. info \in 0..run /\ run \in 1..MaxRuns
  BY <1>1 DEF KnownGoodInv, InfoInv, FailFastInv, TypeInv
<1>3. CASE UNCHANGED <<info, infoRec>>
  BY <1>1, <1>2, <1>3 DEF KnownGoodInv, InfoInv, KnownGoodInfo
<1>4. CASE Current = "BuildInfo" /\ InfoLeftBehind
  <2>1. info' \in {0, run}
    BY <1>4 DEF InfoLeftBehind
  <2>2. InfoInv'
    BY <1>1, <1>2, <2>1 DEF InfoInv
  <2>3. CASE info' = 0
    BY <2>2, <2>3 DEF KnownGoodInfo
  <2>4. CASE info' = run
    <3>1. Len(Trace) = 7
      BY <1>1, <1>4, AtBuildInfo DEF KnownGoodInv
    <3>2. /\ hist'[run].cmd = hist[run].cmd
          /\ Len(hist'[run].trace) >= 7
          /\ \A i \in 1..7 : hist'[run].trace[i] = hist[run].trace[i]
      BY <1>1, <3>1 DEF Trace
    <3>3. KnownGoodInfo'
      BY <1>1, <1>4, <2>4, <3>2, FreshInfoKnownGood DEF KnownGoodInv
    <3>4. QED
      BY <2>2, <3>3
  <2>5. QED
    BY <2>1, <2>2, <2>3, <2>4
<1>5. QED
  BY <1>3, <1>4 DEF Interrupt

\* Every step but generate_build_info leaves build-info.json alone or, in
\* clean, removes it.
LEMMA InfoFrame ==
    ASSUME Step, ~generate_build_info
    PROVE  info' \in {info, 0}
<1>1. CASE clean
  BY <1>1 DEF clean
<1>2. CASE ~clean
  BY <1>2 DEF Step, check_prerequisites, download_dependencies, format_code,
              lint_code, run_tests, run_security_checks, build_binary,
              build_for_platform, build_all_platforms_target,
              build_all_platforms_done, Pure, files
<1>3. QED
  BY <1>1, <1>2

THEOREM KnownGoodInvStep == KnownGoodInv /\ [Next]_vars => KnownGoodInv'
<1> SUFFICES ASSUME KnownGoodInv, [Next]_vars PROVE KnownGoodInv'
  OBVIOUS
<1>1. FailFastInv'
  BY FailFastInvStep DEF KnownGoodInv
<1>2. info \in 0..run /\ (Running => info < run) /\ run \in Runs
  BY DEF KnownGoodInv, InfoInv, FailFastInv, TypeInv, TypeOK
<1>3. CASE Step /\ generate_build_info
  BY <1>1, <1>3, BuildInfoKeepsKnownGood DEF Step, KnownGoodInv
<1>4. CASE Step /\ ~generate_build_info
  <2>1. Running /\ TypeInv
    BY <1>4 DEF Step, KnownGoodInv, FailFastInv
  <2>2. (RecordStep \/ Quiet) /\ UNCHANGED <<run, interrupted>>
    BY <1>4, <2>1, StepShape
  <2>3. \A k \in 1..MaxRuns \ {run} : hist'[k] = hist[k]
    BY <2>1, <2>2, HistFrame
  <2>4. info' \in {info, 0}
    BY <1>4, InfoFrame
  <2>5. InfoInv'
    BY <1>2, <2>1, <2>2, <2>4 DEF InfoInv, Running, Runs
  <2>6. KnownGoodInfo'
    <3>1. SUFFICES ASSUME info' # 0
                   PROVE  /\ hist'[info'].cmd = "validate"
                          /\ Len(hist'[info'].trace) >= 7
                          /\ \A i \in 1..7 : hist'[info'].trace[i] = "ok"
      BY DEF KnownGoodInfo
    <3>2. info' = info /\ info \in 1..run /\ info # run
      BY <1>2, <2>1, <2>4, <3>1
    <3>3. run \in 1..MaxRuns
      BY <2>1 DEF TypeInv
    <3>4. info \in 1..MaxRuns \ {run}
      BY <3>2, <3>3
    <3>5. hist'[info] = hist[info]
      BY <2>3, <3>4
    <3>6. QED
      BY <3>2, <3>5 DEF KnownGoodInv, KnownGoodInfo
  <2>7. QED
    BY <1>1, <2>5, <2>6 DEF KnownGoodInv
<1>5. CASE Interrupt
  BY <1>1, <1>5, InterruptKeepsKnownGood DEF KnownGoodInv
<1>6. CASE main
  <2>1. PICK c \in Commands, p \in PlatformArg :
            hist' = [hist EXCEPT ![run + 1] = [cmd |-> c, plat |-> p, trace |-> <<>>]]
    BY <1>6 DEF main
  <2>2. run \in 0..MaxRuns - 1 /\ run' = run + 1 /\ info' = info
    <3>1. run < MaxRuns /\ run' = run + 1 /\ info' = info
      BY <1>6 DEF main, files
    <3>2. run \in 0..MaxRuns - 1
      BY <1>2, <3>1 DEF Runs
    <3>3. QED
      BY <3>1, <3>2
  <2>3. hist \in [1..MaxRuns -> HistEntry]
    BY DEF KnownGoodInv, FailFastInv, TypeInv, TypeOK
  <2>4. \A k \in 1..run : hist'[k] = hist[k]
    BY <2>1, <2>2, <2>3
  <2>5. InfoInv'
    BY <1>2, <2>2 DEF InfoInv
  <2>6. KnownGoodInfo'
    <3>1. SUFFICES ASSUME info # 0
                   PROVE  /\ hist'[info].cmd = "validate"
                          /\ Len(hist'[info].trace) >= 7
                          /\ \A i \in 1..7 : hist'[info].trace[i] = "ok"
      BY <2>2 DEF KnownGoodInfo
    <3>2. info \in 1..run
      BY <1>2, <3>1
    <3>3. hist'[info] = hist[info]
      BY <2>4, <3>2
    <3>4. QED
      BY <3>1, <3>3 DEF KnownGoodInv, KnownGoodInfo
  <2>7. QED
    BY <1>1, <2>5, <2>6 DEF KnownGoodInv
<1>7. CASE UNCHANGED vars
  BY <1>1, <1>7 DEF vars, proc, files, KnownGoodInv, InfoInv, KnownGoodInfo, Running
<1>8. QED
  BY <1>3, <1>4, <1>5, <1>6, <1>7 DEF Next

\* build-info.json documents a known-good build in every reachable state,
\* for every platform set, matrix and number of invocations: whenever it
\* exists it was written by a validate whose seven pipeline steps all
\* returned True, whatever clean, failed steps or Ctrl-C did after it
\* (generate_build_info's place at the end of validate()).
THEOREM KnownGoodInfoHolds == Spec => []KnownGoodInfo
<1>1. KnownGoodInv => KnownGoodInfo
  BY DEF KnownGoodInv
<1>2. QED
  BY KnownGoodInvInit, KnownGoodInvStep, <1>1, PTL DEF Spec

=============================================================================
