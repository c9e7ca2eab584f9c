--------------------------- MODULE PlatformMatrix ---------------------------
(***************************************************************************)
(* What a matrix build promises (spec 4.3): every declared target is       *)
(* attempted at most once, in no particular order; a target that fails     *)
(* does not stop the others, one that raises ends the matrix build; once   *)
(* every target has been attempted the build succeeds iff all of them     *)
(* did; and a target has an artifact of this build exactly when its build *)
(* succeeded.  An interrupt abandons the build; a new invocation of the    *)
(* build tool forgets the last one.                                        *)
(***************************************************************************)

\* Targets is the finite set of declared targets.
CONSTANT Targets

VARIABLES
    status,     \* "idle", "building", or how the last build ended
    result,     \* per target: "none" until attempted, then its result
    artifact    \* per target: an artifact of this build exists

vars == <<status, result, artifact>>

Result == {"ok", "fail", "exc"}

\* The record of a matrix build is empty.
Cleared ==
    /\ result' = [t \in Targets |-> "none"]
    /\ artifact' = [t \in Targets |-> FALSE]

Init ==
    /\ status = "idle"
    /\ result = [t \in Targets |-> "none"]
    /\ artifact = [t \in Targets |-> FALSE]

\* A matrix build starts.
Begin ==
    /\ status = "idle"
    /\ status' = "building"
    /\ Cleared

\* Target t, not attempted yet, is built with result r.
Attempt(t, r) ==
    /\ status = "building"
    /\ result[t] = "none"
    /\ result' = [result EXCEPT ![t] = r]
    /\ artifact' = [artifact EXCEPT ![t] = (r = "ok")]
    /\ status' = IF r = "exc" THEN "exc" ELSE "building"

\* Every target has been attempted: the build ends with the conjunction
\* of their results.
Finish ==
    /\ status = "building"
    /\ \A t \in Targets : result[t] \in {"ok", "fail"}
    /\ status' = IF \A t \in Targets : result[t] = "ok" THEN "ok" ELSE "fail"
    /\ UNCHANGED <<result, artifact>>

\* An interrupt abandons the build.
Abandon ==
    /\ status = "building"
    /\ status' = "idle"
    /\ Cleared

\* A new invocation forgets the last build.
Reset ==
    /\ status # "building"
    /\ status' = "idle"
    /\ Cleared

Next ==
    \/ Begin
    \/ \E t \in Targets, r \in Result : Attempt(t, r)
    \/ Finish
    \/ Abandon
    \/ Reset

SafetySpec == Init /\ [][Next]_vars

\* A matrix build that is not abandoned comes to an end.
Spec == SafetySpec /\ WF_vars(Finish \/ \E t \in Targets, r \in Result : Attempt(t, r))

=============================================================================
