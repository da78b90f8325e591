----------------------------- MODULE RedeemCodes -----------------------------
(***************************************************************************)
(* The stock of redeem codes of one GitPOAP (lib/codes.ts): the RedeemCode *)
(* rows, what the POAP service knows of each code, and the code check that *)
(* reconciles the two.  A redeem code is a one-time right to mint a POAP.  *)
(* The check awaits the database or the POAP API between any two of its    *)
(* steps, so checks of several processes and the claims that use up codes  *)
(* interleave freely.  The modules that run code checks EXTEND this one.   *)
(***************************************************************************)
EXTENDS Integers, FiniteSets

CONSTANTS Codes,      \* the qr hashes of the GitPOAP's POAP event
          Checkers,   \* the processes that may run a code check
          NoCode      \* null

ASSUME CodesAssumption == IsFiniteSet(Codes) /\ NoCode \notin Codes

VARIABLES redeemCodes,  \* the codes that have a RedeemCode row
          rowId,        \* the id of each code's row, new with every insertion
          poap,         \* what the POAP service says of each code
          check         \* the code check each process is running

codeVars == <<redeemCodes, rowId, poap, check>>

\* absent: not issued to the event; free: issued and unclaimed; submitted:
\* claimed, tx_status ''; bumped and minted: tx_status 'bumped' and 'passed'.
POAPStates == {"absent", "free", "submitted", "bumped", "minted"}
Accepted == {"submitted", "bumped", "minted"}

CheckSteps == {"off", "count", "fetch", "find", "sync",
               "gained", "same", "threw"}

Rows == Codes \X Nat
NoRow == <<NoCode, 0>>

NoCheck == [at |-> "off", start |-> 0, unused |-> {}, stale |-> {}, missing |-> {}]
NewCheck == [NoCheck EXCEPT !.at = "count"]

CheckType == [at : CheckSteps, start : Nat, unused : SUBSET Codes,
              stale : SUBSET Rows, missing : SUBSET Codes]

CodesTypeOK ==
    /\ redeemCodes \subseteq Codes
    /\ rowId \in [Codes -> Nat]
    /\ poap \in [Codes -> POAPStates]
    /\ check \in [Checkers -> CheckType]

CodesInit ==
    /\ redeemCodes \in SUBSET Codes
    /\ rowId = [k \in Codes |-> 0]
    /\ poap = [k \in Codes |-> IF k \in redeemCodes THEN "free" ELSE "absent"]
    /\ check = [p \in Checkers |-> NoCheck]

-----------------------------------------------------------------------------
(* Rows are read with their id and deleted by it: a row that was deleted   *)
(* and inserted again is another row.                                      *)

Row(k) == <<k, rowId[k]>>
RowExists(row) == row[1] \in redeemCodes /\ row = Row(row[1])

\* deleteRedeemCode, where it does not throw.
DeleteRow(row) ==
    /\ redeemCodes' = redeemCodes \ {row[1]}
    /\ UNCHANGED rowId

\* upsertRedeemCode: a code that has a row keeps it.
Upsert(k) ==
    /\ redeemCodes' = redeemCodes \cup {k}
    /\ rowId' = IF k \in redeemCodes THEN rowId ELSE [rowId EXCEPT ![k] = @ + 1]

-----------------------------------------------------------------------------
(* checkGitPOAPForNewCodesHelper, one action per await.                    *)

CheckCount(p) ==
    /\ check[p].at = "count"
    /\ check' = [check EXCEPT ![p].at = "fetch", ![p].start = Cardinality(redeemCodes)]
    /\ UNCHANGED <<redeemCodes, rowId, poap>>

\* generateCodeUsageMap asks the POAP API for every code of the event.
CheckFetch(p) ==
    /\ check[p].at = "fetch"
    /\ check' = [check EXCEPT ![p].at = "find",
                              ![p].unused = {k \in Codes : poap[k] = "free"}]
    /\ UNCHANGED <<redeemCodes, rowId, poap>>

\* The POAP API call fails: the helper reports no change.  If POAP's token cannot be
\* fetched it throws.
CheckFetchFails(p) ==
    /\ check[p].at = "fetch"
    /\ \E end \in {"same", "threw"} : check' = [check EXCEPT ![p].at = end]
    /\ UNCHANGED <<redeemCodes, rowId, poap>>

\* findMany: rows to delete (unknown or used) and unused codes without a row.
CheckFind(p) ==
    /\ check[p].at = "find"
    /\ check' = [check EXCEPT ![p].at = "sync",
                              ![p].stale = {Row(k) : k \in redeemCodes \ check[p].unused},
                              ![p].missing = check[p].unused \ redeemCodes,
                              ![p].unused = {}]
    /\ UNCHANGED <<redeemCodes, rowId, poap>>

\* deleteRedeemCode throws when another process has deleted the row since.
CheckDelete(p) ==
    /\ check[p].at = "sync"
    /\ \E row \in check[p].stale :
          IF RowExists(row)
          THEN /\ DeleteRow(row)
               /\ check' = [check EXCEPT ![p].stale = @ \ {row}]
          ELSE /\ check' = [check EXCEPT ![p] = [NoCheck EXCEPT !.at = "threw"]]
               /\ UNCHANGED <<redeemCodes, rowId>>
    /\ UNCHANGED poap

CheckUpsert(p) ==
    /\ check[p].at = "sync"
    /\ check[p].stale = {}
    /\ \E k \in check[p].missing :
          /\ Upsert(k)
          /\ check' = [check EXCEPT ![p].missing = @ \ {k}]
    /\ UNCHANGED poap

\* Mutant: off by one in the comparison of the counts.
CheckRecountOffByOne(p) ==
    /\ check[p].at = "sync"
    /\ check[p].stale = {}
    /\ check[p].missing = {}
    /\ check' = [check EXCEPT ![p].at =
                    IF check[p].start + 1 < Cardinality(redeemCodes) THEN "gained" ELSE "same"]
    /\ UNCHANGED <<redeemCodes, rowId, poap>>

CheckRecount(p) ==
    /\ check[p].at = "sync"
    /\ check[p].stale = {}
    /\ check[p].missing = {}
    /\ check' = [check EXCEPT ![p].at =
                    IF check[p].start < Cardinality(redeemCodes) THEN "gained" ELSE "same"]
    /\ UNCHANGED <<redeemCodes, rowId, poap>>

CheckStep(p) ==
    \/ CheckCount(p)
    \/ CheckFetch(p)
    \/ CheckFetchFails(p)
    \/ CheckFind(p)
    \/ CheckDelete(p)
    \/ CheckUpsert(p)
    \/ CheckRecount(p)

\* The POAP team issues a code of the event.
POAPIssue(k) ==
    /\ poap[k] = "absent"
    /\ poap' = [poap EXCEPT ![k] = "free"]
    /\ UNCHANGED <<redeemCodes, rowId, check>>
=============================================================================
