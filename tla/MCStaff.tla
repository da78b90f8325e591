------------------------------- MODULE MCStaff -------------------------------
(***************************************************************************)
(* Constants for model-checking what staff and teams do: GitPOAPRequests,  *)
(* Projects, BatchTiming and Teams.  They share no state: a behaviour      *)
(* moves one of them, and their states add up instead of multiplying.      *)
(***************************************************************************)
EXTENDS GitPOAPRequests, Projects, BatchTiming, Teams, TLC

CONSTANTS a1, a2, j1, e1, ensName, email, hex, mail,
          k1, k2, j2, q1, q2, p1,
          s1, s2, t1, t2, t3,
          h1, h2, h3, team1, team2, o1, o2, r1, g1

\* The ENS name denotes an address.
MCAccount == (ensName :> hex) @@ (email :> mail)

\* A server whose attempts overlap, and another one.
MCServerOf == (t1 :> s1) @@ (t2 :> s1) @@ (t3 :> s2)

VARIABLE moving  \* the component that moves

StaffInit ==
    /\ moving \in {"requests", "projects", "batches", "teams"}
    /\ Init /\ ProjectsInit /\ BatchInit /\ TeamsInit
    /\ moving # "projects" => projects = {}
    /\ moving # "teams" => teams = {}

StaffNext ==
    /\ \/ moving = "requests" /\ Next /\ UNCHANGED <<projectVars, batchVars, teamsVars>>
       \/ moving = "projects" /\ ProjectsNext /\ UNCHANGED <<vars, batchVars, teamsVars>>
       \/ moving = "batches" /\ BatchNext /\ UNCHANGED <<vars, projectVars, teamsVars>>
       \/ moving = "teams" /\ TeamsNext /\ UNCHANGED <<vars, projectVars, batchVars>>
    /\ UNCHANGED moving

StaffSpec == StaffInit /\ [][StaffNext]_<<vars, projectVars, batchVars, teamsVars, moving>>
=============================================================================
