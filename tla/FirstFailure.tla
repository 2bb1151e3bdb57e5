---------------------------- MODULE FirstFailure ----------------------------
(***************************************************************************)
(* What the chaining operator a |-> b of Scalable.hs promises its users:   *)
(* in s1 |-> s2 |-> ... |-> sn the stages run in order, a stage runs only  *)
(* when every earlier one returned 0, and the whole chain returns the code *)
(* of the first stage that did not, or what the last stage returned.       *)
(* Operations built from |-> are shown to implement this specification.    *)
(***************************************************************************)
EXTENDS Integers

CONSTANTS Stages,   \* how many stages the chain has
          Codes     \* the nonzero codes a stage may return

VARIABLES stage,    \* the stage that is running, or that decided the result
          status,   \* "running", "returned" or "crashed"
          result    \* the chain's code, once it has returned

chainVars == <<stage, status, result>>

ChainInit == stage = 1 /\ status = "running" /\ result = 0

\* A stage returns 0 and hands over to the next one.
StageSucceeds ==
  /\ status = "running" /\ stage < Stages
  /\ stage' = stage + 1
  /\ UNCHANGED <<status, result>>

\* The last stage returns 0: so does the chain.
ChainSucceeds ==
  /\ status = "running" /\ stage = Stages
  /\ status' = "returned"
  /\ UNCHANGED <<stage, result>>

\* A stage returns a nonzero code: no later stage runs and the chain returns it.
StageFails ==
  /\ status = "running"
  /\ status' = "returned"
  /\ result' \in Codes
  /\ UNCHANGED stage

\* A stage takes the whole process down.
StageCrashes ==
  /\ status = "running"
  /\ status' = "crashed"
  /\ UNCHANGED <<stage, result>>

ChainNext == StageSucceeds \/ ChainSucceeds \/ StageFails \/ StageCrashes

ChainSpec == ChainInit /\ [][ChainNext]_chainVars
=============================================================================
