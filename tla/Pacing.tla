------------------------------- MODULE Pacing -------------------------------
(***************************************************************************)
(* What the scan of a GitHub repository does by the clock, one after the   *)
(* other: the request to the API that lists it, with retries in a budget   *)
(* of time; the enumeration of its history, within the repository's        *)
(* timeout; and the validations of what is found, spaced and timed out.    *)
(* A listing or an enumeration that fails leaves nothing to validate.      *)
(***************************************************************************)
EXTENDS HttpValidation, GithubRetry, GitHistory

pacingVars == <<httpVars, githubVars, historyVars>>

PacingInit == Init /\ GithubInit /\ HistoryInit

List == GithubNext /\ UNCHANGED <<httpVars, historyVars>>
Enumerate == stage = "response" /\ HistoryNext /\ UNCHANGED <<httpVars, githubVars>>
Validate(A) == progress = "scanned" /\ A /\ UNCHANGED <<githubVars, historyVars>>

PacingNext ==
  \/ List \/ Enumerate \/ Validate(HttpNext)
  \/ (stage = "error" \/ progress = "skipped") /\ UNCHANGED pacingVars

\* Time goes by, the runtime polls every future, and GitHub's client has a timeout
\* of its own.  No service has to answer a validator.
PacingSpec ==
  /\ PacingInit /\ [][PacingNext]_pacingVars
  /\ WF_pacingVars(List)
  /\ WF_pacingVars(Validate(Tick))
  /\ \A t \in Task : WF_pacingVars(Validate(Own(t)))
=============================================================================
