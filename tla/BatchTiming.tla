----------------------------- MODULE BatchTiming -----------------------------
(***************************************************************************)
(* When a batch process runs (batchProcessing.ts, lib/batchProcessing.ts,  *)
(* tryToRunOngoingIssuanceUpdater, tryToCheckForNewPOAPCodes and           *)
(* routes/triggers.ts): every server tries at its start and then by a      *)
(* timer, staff may start it, and the BatchTiming row that all of them     *)
(* share tells when it last began.  Both processes are run in this way.    *)
(***************************************************************************)
EXTENDS FiniteSets

CONSTANTS Servers,   \* the instances of the backend
          Attempts,  \* attempts to run; those of one server may overlap
          ServerOf   \* ServerOf[t]: the server that attempt t is made on

ASSUME BatchAssumption == DOMAIN ServerOf = Attempts /\ \A t \in Attempts : ServerOf[t] \in Servers

VARIABLES lastRun,  \* of the BatchTiming row: "recent" as long as the delay has not passed
          server,   \* a server awaits its first attempt, then sets its timer
          attempt
VARIABLES begun,    \* history: who has looked and begun a run since the delay last passed
          outrun    \* history: attempts that somebody outran since they looked

batchVars == <<lastRun, server, attempt, begun, outrun>>

BatchTypeOK ==
    /\ lastRun \in {"never", "old", "recent"}
    /\ server \in [Servers -> {"down", "up", "first", "timer"}]
    /\ attempt \in [Attempts -> {"none", "update", "run", "trigger", "triggered run"}]
    /\ begun \subseteq Attempts /\ outrun \subseteq Attempts

BatchInit ==
    /\ lastRun = "never"
    /\ server = [s \in Servers |-> "down"]
    /\ attempt = [t \in Attempts |-> "none"]
    /\ begun = {} /\ outrun = {}

-----------------------------------------------------------------------------
Become(t, at) == attempt' = [attempt EXCEPT ![t] = at]

\* startBatchProcesses.
Boot(s) ==
    /\ server[s] = "down"
    /\ server' = [server EXCEPT ![s] = "up"]
    /\ UNCHANGED <<lastRun, attempt, begun, outrun>>

\* lookupLastRun: nothing to do yet, or the lookup fails; or the delay has passed.
Look(t) ==
    LET s == ServerOf[t] IN
    /\ attempt[t] = "none" /\ server[s] \in {"up", "timer"}
    /\ \/ /\ server' = [server EXCEPT ![s] = "timer"]
          /\ UNCHANGED <<attempt, outrun>>
       \/ /\ lastRun # "recent"
          /\ Become(t, "update")
          /\ server' = [server EXCEPT ![s] = IF @ = "up" THEN "first" ELSE @]
          /\ outrun' = outrun \ {t}
    /\ UNCHANGED <<lastRun, begun>>

\* POST /triggers/ongoing-issuance and /check-for-codes look at nothing.
Trigger(t) ==
    /\ attempt[t] = "none" /\ server[ServerOf[t]] # "down"
    /\ Become(t, "trigger")
    /\ UNCHANGED <<lastRun, server, begun, outrun>>

Begins(t) ==
    /\ \/ attempt[t] = "update" /\ Become(t, "run") /\ begun' = begun \cup {t}
       \/ attempt[t] = "trigger" /\ Become(t, "triggered run") /\ UNCHANGED begun
    /\ outrun' = outrun \cup {u \in Attempts \ {t} : attempt[u] = "update"}

\* Mutant: the time is taken when the run has ended.
BeginUnmarked(t) == Begins(t) /\ UNCHANGED <<lastRun, server>>

\* updateLastRun, "so the other instance also doesn't start this process"; the run begins.
Begin(t) == Begins(t) /\ lastRun' = "recent" /\ UNCHANGED server

\* The update fails, the run ends or throws: however the first attempt ends, the
\* server sets its timer then.
Finish(t) ==
    /\ attempt[t] # "none"
    /\ Become(t, "none")
    /\ server' = [server EXCEPT ![ServerOf[t]] =
          IF @ = "first" /\ attempt[t] \in {"update", "run"} THEN "timer" ELSE @]
    /\ UNCHANGED <<lastRun, begun, outrun>>

\* ONGOING_ISSUANCE_DELAY_HOURS, CHECK_FOR_CODES_DELAY_MINUTES; runs may take longer.
Elapse ==
    /\ lastRun = "recent"
    /\ lastRun' = "old"
    /\ begun' = {}
    /\ UNCHANGED <<server, attempt, outrun>>

Halt(s) ==
    /\ server[s] # "down"
    /\ server' = [server EXCEPT ![s] = "down"]
    /\ attempt' = [t \in Attempts |-> IF ServerOf[t] = s THEN "none" ELSE attempt[t]]
    /\ UNCHANGED <<lastRun, begun, outrun>>

BatchNext ==
    \/ \E s \in Servers : Boot(s) \/ Halt(s)
    \/ \E t \in Attempts : Look(t) \/ Trigger(t) \/ Begin(t) \/ Finish(t)
    \/ Elapse

BatchSpec == BatchInit /\ [][BatchNext]_batchVars

-----------------------------------------------------------------------------
\* lib/ongoing.ts: "so the other instance also doesn't start this process": while
\* the delay has not passed, of all the servers' attempts one begins a run, and the
\* others that do had looked before somebody else began.
RunsAreSpaced ==
    \A t, u \in begun \ outrun : t = u

\* Why: a begun run is followed by "recent" until the delay passes, and who has looked
\* and is not outrun still sees what it saw.
LooksAreTrue ==
    /\ begun # {} => lastRun = "recent"
    /\ \A t \in Attempts : attempt[t] = "update" => t \in outrun \/ lastRun # "recent"
BatchInv == BatchTypeOK /\ LooksAreTrue /\ RunsAreSpaced
=============================================================================
