---------------------------- MODULE TransfersProofs ----------------------------
(* Proofs about Transfers, for any number of tokens, addresses and handlers. *)
EXTENDS Transfers, TLAPS

LEMMA InitTransfers == Init => TransfersInv
  <1> SUFFICES ASSUME Init PROVE TransfersInv
    OBVIOUS
  <1>1. TypeOK
    <2>1. Idle \in HandType
      BY DEF Idle, HandType, Steps
    <2>2. transfers \in 0 .. TransferLimit /\ failures \in 0 .. FailLimit
      BY TransfersAssumption DEF Init
    <2>3. QED
      BY <2>1, <2>2, TransfersAssumption DEF Init, TypeOK
  <1>2. \A h \in Handlers : HandFits(h) /\ RevalidatorTrue(h)
    BY DEF Init, Idle, HandFits, InPage, RevalidatorTrue, Revalidating
  <1>3. ASSUME NEW t \in Tokens PROVE StillKept(t) /\ \A h \in Handlers : StillSeen(t, h)
    BY DEF Init, Idle, StillKept, StillSeen, InPage
  <1>4. QED
    BY <1>1, <1>2, <1>3 DEF Init, TransfersInv

-----------------------------------------------------------------------------
(* Steps of one handler.                                                   *)

LEMMA HandTypes ==
    ASSUME TransfersInv, NEW h \in Handlers
    PROVE  hand[h] \in HandType /\ HandFits(h) /\ RevalidatorTrue(h)
  BY DEF TransfersInv, TypeOK

\* A handler's step that leaves the claims alone: only the handler itself is to be looked at,
\* and what the caches say.
LEMMA OneHand ==
    ASSUME TransfersInv, NEW h \in Handlers, NEW r \in HandType, hand' = [hand EXCEPT ![h] = r],
           UNCHANGED <<owner, known, minted, needs, sold, rushed>>,
           featured' \subseteq Tokens \X Addresses,
           lists' \in [Addresses -> (SUBSET Tokens) \cup {NoList}],
           infos' \in [Tokens -> Addresses \cup {NoAddress}],
           UNCHANGED transfers, failures' \in 0 .. FailLimit,
           \A t \in Tokens : Still(t) =>
               /\ infos'[t] \in {NoAddress, Claimer[t]}
               /\ \A a \in Addresses : lists'[a] # NoList /\ t \in lists'[a] => a = Claimer[t],
           HandFits(h)', RevalidatorTrue(h)',
           \A t \in Tokens : Still(t) => StillSeen(t, h)'
    PROVE  TransfersInv'
  <1>1. TypeOK'
    BY DEF TransfersInv, TypeOK
  <1>2. \A g \in Handlers \ {h} : hand'[g] = hand[g]
    BY DEF TransfersInv, TypeOK
  <1>3. \A g \in Handlers : HandFits(g)' /\ RevalidatorTrue(g)'
    BY <1>2 DEF TransfersInv, HandFits, InPage, RevalidatorTrue, Revalidating
  <1>4. ASSUME NEW t \in Tokens, Still(t)' PROVE StillKept(t)' /\ \A g \in Handlers : StillSeen(t, g)'
    <2>1. Still(t)
      BY <1>4 DEF Still
    <2>2. StillKept(t)'
      BY <2>1 DEF TransfersInv, StillKept
    <2>3. \A g \in Handlers \ {h} : StillSeen(t, g)'
      BY <1>2, <2>1 DEF TransfersInv, StillSeen, InPage
    <2>4. QED
      BY <2>1, <2>2, <2>3
  <1>5. QED
    BY <1>1, <1>3, <1>4 DEF TransfersInv

\* Without a change of the caches.
LEMMA HandOnly ==
    ASSUME TransfersInv, NEW h \in Handlers, NEW r \in HandType, hand' = [hand EXCEPT ![h] = r],
           UNCHANGED <<owner, known, minted, needs, sold, rushed, caches>>,
           featured' \subseteq Tokens \X Addresses,
           UNCHANGED transfers, failures' \in 0 .. FailLimit,
           HandFits(h)', RevalidatorTrue(h)',
           \A t \in Tokens : Still(t) => StillSeen(t, h)'
    PROVE  TransfersInv'
  <1>1. UNCHANGED <<lists, infos>>
    BY DEF caches
  <1>2. \A t \in Tokens : Still(t) =>
               /\ infos'[t] \in {NoAddress, Claimer[t]}
               /\ \A a \in Addresses : lists'[a] # NoList /\ t \in lists'[a] => a = Claimer[t]
    BY <1>1 DEF TransfersInv, StillKept
  <1>3. /\ lists' \in [Addresses -> (SUBSET Tokens) \cup {NoList}]
        /\ infos' \in [Tokens -> Addresses \cup {NoAddress}]
    BY <1>1 DEF TransfersInv, TypeOK
  <1>4. QED
    BY <1>2, <1>3, OneHand

\* A handler that is about to do nothing that depends on what it read about claims.
LEMMA Harmless ==
    ASSUME TransfersInv, NEW h \in Handlers, NEW r \in HandType, hand' = [hand EXCEPT ![h] = r],
           r.at \in {"idle", "checks", "removing", "look", "info", "needed", "feature"}, r.back = "idle",
           r.got = NoList, r.to = NoAddress,
           r.at = "look" => (minted'[r.token] = r.who => r.had),
           r.at = "removing" => r.claims # NoList /\ r.who \in Addresses,
           r.at \in {"look", "info", "needed", "feature"} => r.who \in Addresses /\ r.token \in Tokens
    PROVE  /\ HandFits(h)' /\ RevalidatorTrue(h)'
           /\ \A t \in Tokens : Still(t) => StillSeen(t, h)'
  <1>1. hand'[h] = r
    BY DEF TransfersInv, TypeOK
  <1>2. QED
    BY <1>1 DEF HandFits, InPage, RevalidatorTrue, Revalidating, StillSeen

LEMMA StepNames ==
    /\ "idle" \in Steps /\ "reading" \in Steps /\ "arrivals" \in Steps /\ "removing" \in Steps
    /\ "checks" \in Steps /\ "look" \in Steps /\ "clear" \in Steps /\ "unfeature" \in Steps
    /\ "validate" \in Steps /\ "info" \in Steps /\ "needed" \in Steps /\ "feature" \in Steps
  BY DEF Steps

LEMMA IdleType ==
    Idle \in HandType /\ Idle.at = "idle" /\ Idle.back = "idle"
    /\ Idle.got = NoList /\ Idle.to = NoAddress
  BY DEF Idle, HandType, Steps

LEMMA Bounded == ASSUME TransfersInv, UNCHANGED failures \/ Fail PROVE failures' \in 0 .. FailLimit
  <1>1. failures \in 0 .. FailLimit /\ FailLimit \in Nat
    BY TransfersAssumption DEF TransfersInv, TypeOK
  <1>2. QED
    BY <1>1 DEF Fail

LEMMA EndKeeps ==
    ASSUME TransfersInv, NEW h \in Handlers, End(h),
           UNCHANGED <<owner, claimVars, caches, transfers, history>>,
           featured' \subseteq Tokens \X Addresses, UNCHANGED failures \/ Fail
    PROVE  TransfersInv'
  <1>1. hand' = [hand EXCEPT ![h] = Idle]
    BY DEF End
  <1>2. UNCHANGED <<owner, known, minted, needs, sold, rushed, caches, transfers>>
    BY DEF claimVars, history
  <1>3. QED
    BY <1>1, <1>2, IdleType, Bounded, Harmless, HandOnly

LEMMA GotoRecord ==
    ASSUME TransfersInv, NEW h \in Handlers, NEW step \in Steps, Goto(h, step)
    PROVE  \E r \in HandType :
              /\ hand' = [hand EXCEPT ![h] = r] /\ r.at = step
              /\ r.who = hand[h].who /\ r.list = hand[h].list /\ r.claims = hand[h].claims
              /\ r.todo = hand[h].todo /\ r.token = hand[h].token /\ r.from = hand[h].from
              /\ r.to = hand[h].to /\ r.back = hand[h].back /\ r.had = hand[h].had
              /\ r.got = hand[h].got
  <1> DEFINE r == [hand[h] EXCEPT !.at = step]
  <1>1. hand[h] \in HandType
    BY HandTypes
  <1>2. hand' = [hand EXCEPT ![h] = r]
    BY DEF Goto, TransfersInv, TypeOK
  <1>3. r \in HandType
    BY <1>1 DEF HandType
  <1>4. /\ r.at = step
        /\ r.who = hand[h].who /\ r.list = hand[h].list /\ r.claims = hand[h].claims
        /\ r.todo = hand[h].todo /\ r.token = hand[h].token /\ r.from = hand[h].from
        /\ r.to = hand[h].to /\ r.back = hand[h].back /\ r.had = hand[h].had
        /\ r.got = hand[h].got
    BY <1>1 DEF HandType
  <1> HIDE DEF r
  <1>5. QED
    BY <1>2, <1>3, <1>4

-----------------------------------------------------------------------------
(* Loads of pages.                                                         *)

LEMMA OpenKeeps ==
    ASSUME TransfersInv, NEW h \in Handlers, NEW a \in Addresses, Open(h, a) PROVE TransfersInv'
  <1> DEFINE r == [Idle EXCEPT !.at = "reading", !.who = a]
  <1>1. hand' = [hand EXCEPT ![h] = r]
    BY DEF Open
  <1>2. r \in HandType
    BY DEF Idle, HandType, Steps
  <1>3. r.at = "reading" /\ r.who = a /\ r.list = NoList /\ r.claims = NoList /\ r.back = "idle"
        /\ r.got = NoList /\ r.to = NoAddress
    BY DEF Idle
  <1> HIDE DEF r
  <1>4. hand'[h] = r
    BY <1>1 DEF TransfersInv, TypeOK
  <1>5. /\ HandFits(h)' /\ RevalidatorTrue(h)'
        /\ \A t \in Tokens : Still(t) => StillSeen(t, h)'
    BY <1>3, <1>4 DEF HandFits, InPage, RevalidatorTrue, Revalidating, StillSeen
  <1>6. /\ UNCHANGED <<owner, known, minted, needs, sold, rushed, caches, transfers>>
        /\ UNCHANGED failures /\ featured' \subseteq Tokens \X Addresses
    BY DEF Open, claimVars, history, bounds, TransfersInv, TypeOK
  <1>7. QED
    BY <1>1, <1>2, <1>5, <1>6, Bounded, HandOnly

\* What a load knows once it has read one thing more.
LEMMA SortFits ==
    ASSUME TransfersInv, NEW h \in Handlers, NEW q \in HandType, q.at = "reading",
           q.who \in Addresses, q.back = "idle", hand' = [hand EXCEPT ![h] = Sort(q)],
           \A t \in Tokens : Still(t) =>
               /\ q.list # NoList /\ t \in q.list => q.who = Claimer[t]
               /\ q.got # NoList /\ t \in q.got => q.who = Claimer[t]
               /\ q.claims # NoList /\ t \in known /\ q.who = Claimer[t] => t \in q.claims,
           q.got # NoList => q.list = NoList, q.to = NoAddress,
           UNCHANGED known
    PROVE  /\ Sort(q) \in HandType
           /\ HandFits(h)' /\ RevalidatorTrue(h)'
           /\ \A t \in Tokens : Still(t) => StillSeen(t, h)'
  <1>1. CASE q.list = NoList \/ q.claims = NoList
    <2>1. Sort(q) = q
      BY <1>1 DEF Sort
    <2>2. hand'[h] = q
      BY <2>1 DEF TransfersInv, TypeOK
    <2>3. QED
      BY <2>1, <2>2 DEF HandFits, InPage, RevalidatorTrue, Revalidating, StillSeen
  <1>2. CASE q.list # NoList /\ q.claims # NoList
    <2>1. q.list \subseteq Tokens /\ q.claims \subseteq Tokens
      BY <1>2 DEF HandType
    <2>2. PICK S \in SUBSET Tokens : S = q.list \ q.claims
      BY <2>1
    <2>3. PICK U \in SUBSET Tokens : U = q.claims \ q.list
      BY <2>1
    <2> DEFINE r == [q EXCEPT !.at = "arrivals", !.todo = S, !.claims = U]
    <2>4. Sort(q) = r
      BY <1>2, <2>2, <2>3 DEF Sort
    <2>5. r \in HandType
      BY StepNames DEF HandType
    <2>6. r.at = "arrivals" /\ r.who = q.who /\ r.back = "idle" /\ r.todo = S /\ r.claims = U
          /\ r.got = NoList /\ r.to = NoAddress
      BY <1>2 DEF HandType
    <2> HIDE DEF r
    <2>7. hand'[h] = r
      BY <2>4 DEF TransfersInv, TypeOK
    <2>8. U # NoList
      BY TransfersAssumption
    <2>9. HandFits(h)' /\ RevalidatorTrue(h)'
      BY <2>6, <2>7, <2>8 DEF HandFits, InPage, RevalidatorTrue, Revalidating
    <2>10. ASSUME NEW t \in Tokens, Still(t), t \in S PROVE q.who = Claimer[t] /\ t \notin known
      BY <1>2, <2>2, <2>10
    <2>11. \A t \in Tokens : Still(t) => StillSeen(t, h)'
      BY <2>6, <2>7, <2>10 DEF InPage, StillSeen
    <2>12. QED
      BY <2>4, <2>5, <2>9, <2>11
  <1>3. QED
    BY <1>1, <1>2

LEMMA ReadClaimsKeeps ==
    ASSUME TransfersInv, NEW h \in Handlers, ReadClaims(h) PROVE TransfersInv'
  <1>1. PICK S \in SUBSET Tokens : S = {t \in known : minted[t] = hand[h].who}
    BY DEF TransfersInv, TypeOK
  <1> DEFINE q == [hand[h] EXCEPT !.claims = S]
  <1>2. hand' = [hand EXCEPT ![h] = Sort(q)]
    BY <1>1 DEF ReadClaims, TransfersInv, TypeOK
  <1>3. hand[h] \in HandType /\ hand[h].at = "reading" /\ hand[h].who \in Addresses
        /\ hand[h].back = "idle" /\ (hand[h].got # NoList => hand[h].list = NoList)
        /\ hand[h].to = NoAddress
    BY HandTypes DEF ReadClaims, HandFits
  <1>4. q \in HandType
    BY <1>3 DEF HandType
  <1>5. q.at = "reading" /\ q.who = hand[h].who /\ q.list = hand[h].list /\ q.claims = S
        /\ q.back = "idle" /\ q.got = hand[h].got /\ q.to = NoAddress
    BY <1>3 DEF HandType
  <1> HIDE DEF q
  <1>6. ASSUME NEW t \in Tokens, Still(t)
        PROVE  /\ q.list # NoList /\ t \in q.list => q.who = Claimer[t]
               /\ q.got # NoList /\ t \in q.got => q.who = Claimer[t]
               /\ q.claims # NoList /\ t \in known /\ q.who = Claimer[t] => t \in q.claims
    BY <1>1, <1>3, <1>5, <1>6 DEF TransfersInv, StillSeen, StillKept
  <1>7. /\ UNCHANGED <<owner, known, minted, needs, sold, rushed, caches, transfers>>
        /\ UNCHANGED failures /\ featured' \subseteq Tokens \X Addresses
    BY DEF ReadClaims, claimVars, history, bounds, TransfersInv, TypeOK
  <1>8. /\ Sort(q) \in HandType
        /\ HandFits(h)' /\ RevalidatorTrue(h)'
        /\ \A t \in Tokens : Still(t) => StillSeen(t, h)'
    BY <1>2, <1>3, <1>4, <1>5, <1>6, <1>7, SortFits
  <1>9. QED
    BY <1>2, <1>7, <1>8, Bounded, HandOnly

LEMMA ReadListKeeps ==
    ASSUME TransfersInv, NEW h \in Handlers, ReadList(h) PROVE TransfersInv'
  <1>1. PICK a : a = hand[h].who
    OBVIOUS
  <1>2. /\ hand[h] \in HandType /\ hand[h].at = "reading" /\ a \in Addresses
        /\ hand[h].back = "idle" /\ hand[h].list = NoList /\ hand[h].got = NoList
        /\ hand[h].to = NoAddress
        /\ hand \in [Handlers -> HandType]
    BY <1>1, HandTypes DEF ReadList, HandFits, TransfersInv, TypeOK
  <1>3. /\ UNCHANGED <<owner, known, minted, needs, sold, rushed, caches, transfers>>
        /\ UNCHANGED failures /\ featured' \subseteq Tokens \X Addresses
    BY DEF ReadList, claimVars, history, bounds, TransfersInv, TypeOK
  <1>4. CASE lists[a] # NoList
    <2>1. PICK S \in SUBSET Tokens : S = lists[a]
      BY <1>2, <1>4 DEF TransfersInv, TypeOK
    <2> DEFINE q == [hand[h] EXCEPT !.list = S]
    <2>2. hand' = [hand EXCEPT ![h] = Sort(q)]
      BY <1>1, <1>2, <1>4, <2>1 DEF ReadList
    <2>3. q \in HandType
      BY <1>2 DEF HandType
    <2>4. q.at = "reading" /\ q.who = a /\ q.list = S /\ q.claims = hand[h].claims
          /\ q.back = "idle" /\ q.got = NoList /\ q.to = NoAddress
      BY <1>1, <1>2 DEF HandType
    <2> HIDE DEF q
    <2>5. ASSUME NEW t \in Tokens, Still(t), t \in S PROVE a = Claimer[t]
      BY <1>2, <1>4, <2>1, <2>5 DEF StillKept, TransfersInv
    <2>6. ASSUME NEW t \in Tokens, Still(t)
          PROVE  /\ q.list # NoList /\ t \in q.list => q.who = Claimer[t]
                 /\ q.got # NoList /\ t \in q.got => q.who = Claimer[t]
                 /\ q.claims # NoList /\ t \in known /\ q.who = Claimer[t] => t \in q.claims
      BY <1>1, <1>2, <2>4, <2>5, <2>6 DEF TransfersInv, StillSeen
    <2>7. /\ Sort(q) \in HandType
          /\ HandFits(h)' /\ RevalidatorTrue(h)'
          /\ \A t \in Tokens : Still(t) => StillSeen(t, h)'
      BY <1>2, <1>3, <2>2, <2>3, <2>4, <2>6, SortFits
    <2>8. QED
      BY <1>3, <2>2, <2>7, Bounded, HandOnly
  <1>5. CASE lists[a] = NoList
    <2>1. PICK S \in SUBSET Tokens : S = Held(a)
      BY DEF Held
    <2> DEFINE q == [hand[h] EXCEPT !.got = S]
    <2>2. hand' = [hand EXCEPT ![h] = q]
      BY <1>1, <1>2, <1>5, <2>1 DEF ReadList
    <2>3. q \in HandType
      BY <1>2 DEF HandType
    <2>4. q.at = "reading" /\ q.who = a /\ q.list = NoList /\ q.claims = hand[h].claims
          /\ q.back = "idle" /\ q.got = S /\ q.to = NoAddress
      BY <1>1, <1>2 DEF HandType
    <2> HIDE DEF q
    <2>5. hand'[h] = q
      BY <1>2, <2>2
    <2>6. ASSUME NEW t \in Tokens, Still(t), t \in S PROVE a = Claimer[t]
      BY <1>2, <2>1, <2>6, TransfersAssumption DEF StillKept, TransfersInv, Held
    <2>7. HandFits(h)' /\ RevalidatorTrue(h)'
      BY <1>2, <2>4, <2>5 DEF HandFits, InPage, RevalidatorTrue, Revalidating
    <2>8. ASSUME NEW t \in Tokens, Still(t) PROVE StillSeen(t, h)'
      BY <1>1, <1>2, <1>3, <2>4, <2>5, <2>6, <2>8 DEF TransfersInv, StillSeen, InPage
    <2>9. QED
      BY <1>3, <2>2, <2>3, <2>7, <2>8, Bounded, HandOnly
  <1>6. QED
    BY <1>4, <1>5

\* The list that is cached and used is what POAP answered, some time ago.
LEMMA CacheListKeeps ==
    ASSUME TransfersInv, NEW h \in Handlers, CacheList(h) PROVE TransfersInv'
  <1>1. PICK a : a = hand[h].who
    OBVIOUS
  <1>2. /\ hand[h] \in HandType /\ hand[h].at = "reading" /\ a \in Addresses
        /\ hand[h].back = "idle" /\ hand \in [Handlers -> HandType]
        /\ hand[h].to = NoAddress
    BY <1>1, HandTypes DEF CacheList, HandFits, TransfersInv, TypeOK
  <1>3. PICK S \in SUBSET Tokens : S = hand[h].got
    BY <1>2 DEF CacheList, HandType
  <1> DEFINE q == [hand[h] EXCEPT !.list = S, !.got = NoList]
  <1>4. hand' = [hand EXCEPT ![h] = Sort(q)] /\ lists' = [lists EXCEPT ![a] = S]
    BY <1>1, <1>2, <1>3 DEF CacheList
  <1>5. q \in HandType
    BY <1>2 DEF HandType
  <1>6. q.at = "reading" /\ q.who = a /\ q.list = S /\ q.claims = hand[h].claims
        /\ q.back = "idle" /\ q.got = NoList /\ q.to = NoAddress
    BY <1>1, <1>2 DEF HandType
  <1> HIDE DEF q
  <1>7. S # NoList
    BY TransfersAssumption
  <1>8. ASSUME NEW t \in Tokens, Still(t), t \in S PROVE a = Claimer[t]
    BY <1>1, <1>2, <1>3, <1>7, <1>8 DEF TransfersInv, StillSeen
  <1>9. ASSUME NEW t \in Tokens, Still(t)
        PROVE  /\ q.list # NoList /\ t \in q.list => q.who = Claimer[t]
               /\ q.got # NoList /\ t \in q.got => q.who = Claimer[t]
               /\ q.claims # NoList /\ t \in known /\ q.who = Claimer[t] => t \in q.claims
    BY <1>1, <1>2, <1>6, <1>8, <1>9 DEF TransfersInv, StillSeen
  <1>10. /\ UNCHANGED <<owner, known, minted, needs, sold, rushed, infos, transfers>>
         /\ UNCHANGED failures /\ featured' \subseteq Tokens \X Addresses
    BY DEF CacheList, claimVars, history, bounds, TransfersInv, TypeOK
  <1>11. /\ Sort(q) \in HandType
         /\ HandFits(h)' /\ RevalidatorTrue(h)'
         /\ \A t \in Tokens : Still(t) => StillSeen(t, h)'
    BY <1>2, <1>4, <1>5, <1>6, <1>9, <1>10, SortFits
  <1>12. lists' \in [Addresses -> (SUBSET Tokens) \cup {NoList}]
    BY <1>2, <1>4 DEF TransfersInv, TypeOK
  <1>13. ASSUME NEW t \in Tokens, Still(t)
         PROVE  /\ infos'[t] \in {NoAddress, Claimer[t]}
                /\ \A b \in Addresses : lists'[b] # NoList /\ t \in lists'[b] => b = Claimer[t]
    <2>1. StillKept(t) /\ lists \in [Addresses -> (SUBSET Tokens) \cup {NoList}]
      BY <1>13 DEF TransfersInv, TypeOK
    <2>2. QED
      BY <1>4, <1>8, <1>10, <1>13, <2>1 DEF StillKept
  <1>14. infos' \in [Tokens -> Addresses \cup {NoAddress}]
    BY <1>10 DEF TransfersInv, TypeOK
  <1>15. QED
    BY <1>4, <1>10, <1>11, <1>12, <1>13, <1>14, Bounded, OneHand


\* A POAP on the list whose token has a claim: that is no claim of a token that stands still.
LEMMA ArriveKeeps ==
    ASSUME TransfersInv, NEW h \in Handlers, Arrive(h) PROVE TransfersInv'
  <1>1. PICK t \in hand[h].todo :
          hand' = [hand EXCEPT ![h] =
                     IF t \notin known THEN [@ EXCEPT !.todo = hand[h].todo \ {t}]
                     ELSE [@ EXCEPT !.at = "unfeature", !.todo = hand[h].todo \ {t},
                                    !.token = t, !.from = minted[t], !.to = hand[h].who,
                                    !.back = "arrivals"]]
    BY DEF Arrive
  <1>2. /\ hand[h] \in HandType /\ hand[h].at = "arrivals" /\ hand[h].who \in Addresses
        /\ hand[h].claims # NoList /\ hand[h].back = "idle" /\ t \in Tokens
        /\ hand \in [Handlers -> HandType] /\ minted[t] \in Addresses
        /\ hand[h].got = NoList /\ hand[h].to = NoAddress
    BY HandTypes DEF Arrive, HandFits, InPage, HandType, TransfersInv, TypeOK
  <1>3. PICK S \in SUBSET Tokens : S = hand[h].todo \ {t}
    BY <1>2 DEF HandType
  <1>4. /\ UNCHANGED <<owner, known, minted, needs, sold, rushed, caches, transfers>>
        /\ UNCHANGED failures /\ featured' \subseteq Tokens \X Addresses
    BY DEF Arrive, claimVars, history, bounds, TransfersInv, TypeOK
  <1>5. ASSUME NEW u \in Tokens, Still(u)
        PROVE  u \in hand[h].todo => hand[h].who = Claimer[u] /\ u \notin known
    BY <1>2, <1>5 DEF TransfersInv, StillSeen, InPage
  <1>6. CASE t \notin known
    <2> DEFINE r == [hand[h] EXCEPT !.todo = S]
    <2>1. hand' = [hand EXCEPT ![h] = r]
      BY <1>1, <1>2, <1>3, <1>6
    <2>2. r \in HandType
      BY <1>2 DEF HandType
    <2>3. /\ r.at = "arrivals" /\ r.who = hand[h].who /\ r.claims = hand[h].claims
          /\ r.back = "idle" /\ r.todo = S /\ r.got = NoList /\ r.to = NoAddress
      BY <1>2 DEF HandType
    <2> HIDE DEF r
    <2>4. hand'[h] = r
      BY <1>2, <2>1
    <2>5. /\ HandFits(h)' /\ RevalidatorTrue(h)'
          /\ \A u \in Tokens : Still(u) => StillSeen(u, h)'
      BY <1>2, <1>3, <1>4, <1>5, <2>3, <2>4 DEF HandFits, InPage, RevalidatorTrue, Revalidating, StillSeen
    <2>6. QED
      BY <1>4, <2>1, <2>2, <2>5, Bounded, HandOnly
  <1>7. CASE t \in known
    <2>1. PICK m : m = minted[t] /\ m \in Addresses
      BY <1>2
    <2>2. PICK w : w = hand[h].who /\ w \in Addresses
      BY <1>2
    <2> DEFINE r == [hand[h] EXCEPT !.at = "unfeature", !.todo = S, !.token = t,
                                    !.from = m, !.to = w, !.back = "arrivals"]
    <2>3. hand' = [hand EXCEPT ![h] = r]
      BY <1>1, <1>2, <1>3, <1>7, <2>1, <2>2
    <2>4. r \in HandType
      BY <1>2, <2>1, <2>2, StepNames DEF HandType
    <2>5. /\ r.at = "unfeature" /\ r.who = w /\ r.claims = hand[h].claims
          /\ r.back = "arrivals" /\ r.todo = S /\ r.token = t /\ r.to = w
          /\ r.got = NoList
      BY <1>2, <2>2 DEF HandType
    <2> HIDE DEF r
    <2>6. hand'[h] = r
      BY <1>2, <2>3
    <2>7. ~Still(t)
      BY <1>2, <1>5, <1>7
    <2>8. HandFits(h)' /\ RevalidatorTrue(h)'
      BY <1>2, <2>2, <2>5, <2>6 DEF HandFits, InPage, RevalidatorTrue, Revalidating
    <2>9. \A u \in Tokens : Still(u) => StillSeen(u, h)'
      BY <1>3, <1>4, <1>5, <2>2, <2>5, <2>6, <2>7 DEF InPage, StillSeen
    <2>10. QED
      BY <1>4, <2>3, <2>4, <2>8, <2>9, Bounded, HandOnly
  <1>8. QED
    BY <1>6, <1>7

LEMMA ChecksFit ==
    ASSUME NEW q \in HandType, q.claims # NoList
    PROVE  /\ Checks(q) \in HandType /\ Checks(q).at \in {"idle", "checks"}
           /\ Checks(q).back = "idle" /\ Checks(q).got = NoList /\ Checks(q).to = NoAddress
  <1>1. PICK S \in SUBSET Tokens : S = q.claims
    BY DEF HandType
  <1>2. [Idle EXCEPT !.at = "checks", !.todo = S] \in HandType
    <2> DEFINE s == [Idle EXCEPT !.at = "checks"]
    <2>1. s \in HandType
      BY IdleType, StepNames DEF HandType
    <2>2. ASSUME NEW x \in HandType PROVE [x EXCEPT !.todo = S] \in HandType
      BY DEF HandType
    <2>3. QED
      BY <2>1, <2>2
  <1>3. /\ [Idle EXCEPT !.at = "checks", !.todo = S].at = "checks"
        /\ [Idle EXCEPT !.at = "checks", !.todo = S].back = "idle"
        /\ [Idle EXCEPT !.at = "checks", !.todo = S].got = NoList
        /\ [Idle EXCEPT !.at = "checks", !.todo = S].to = NoAddress
    BY DEF Idle
  <1>4. QED
    BY <1>1, <1>2, <1>3, IdleType DEF Checks

LEMMA ReadFeaturedKeeps ==
    ASSUME TransfersInv, NEW h \in Handlers, ReadFeatured(h) PROVE TransfersInv'
  <1>1. PICK S \in SUBSET Tokens : S = {t \in Tokens \ hand[h].list : <<t, hand[h].who>> \in featured}
    OBVIOUS
  <1>2. /\ hand[h] \in HandType /\ hand[h].who \in Addresses
        /\ hand[h].claims # NoList /\ hand[h].back = "idle"
        /\ hand[h].got = NoList /\ hand[h].to = NoAddress
        /\ hand \in [Handlers -> HandType]
    BY HandTypes DEF ReadFeatured, HandFits, InPage, TransfersInv, TypeOK
  <1> DEFINE r == [hand[h] EXCEPT !.at = "removing", !.todo = S, !.list = NoList]
  <1>3. hand' = [hand EXCEPT ![h] = IF S = {} THEN Checks(hand[h]) ELSE r]
    BY <1>1, <1>2 DEF ReadFeatured
  <1>4. /\ r \in HandType /\ r.at = "removing" /\ r.back = "idle" /\ r.claims # NoList
        /\ r.who \in Addresses /\ r.got = NoList /\ r.to = NoAddress
    BY <1>2, StepNames DEF HandType
  <1> HIDE DEF r
  <1>5. PICK q \in HandType : /\ hand' = [hand EXCEPT ![h] = q]
                              /\ q.at \in {"idle", "checks", "removing"} /\ q.back = "idle"
                              /\ q.got = NoList /\ q.to = NoAddress
                              /\ q.at = "removing" => q.claims # NoList /\ q.who \in Addresses
    BY <1>2, <1>3, <1>4, ChecksFit
  <1>6. /\ UNCHANGED <<owner, known, minted, needs, sold, rushed, caches, transfers>>
        /\ UNCHANGED failures /\ featured' \subseteq Tokens \X Addresses
    BY DEF ReadFeatured, claimVars, history, bounds, TransfersInv, TypeOK
  <1>7. QED
    BY <1>5, <1>6, Harmless, Bounded, HandOnly

LEMMA RemoveFeatureKeeps ==
    ASSUME TransfersInv, NEW h \in Handlers, RemoveFeature(h) PROVE TransfersInv'
  <1>1. /\ hand[h] \in HandType /\ hand[h].who \in Addresses /\ hand[h].at = "removing"
        /\ hand[h].claims # NoList /\ hand[h].back = "idle"
        /\ hand[h].got = NoList /\ hand[h].to = NoAddress
        /\ hand \in [Handlers -> HandType]
    BY HandTypes DEF RemoveFeature, HandFits, TransfersInv, TypeOK
  <1>2. PICK t \in hand[h].todo :
          /\ featured' = featured \ {<<t, hand[h].who>>}
          /\ hand' = [hand EXCEPT ![h] =
                         IF <<t, hand[h].who>> \notin featured THEN Idle
                         ELSE IF hand[h].todo = {t} THEN Checks(@)
                         ELSE [@ EXCEPT !.todo = hand[h].todo \ {t}]]
    BY DEF RemoveFeature
  <1>3. PICK S \in SUBSET Tokens : S = hand[h].todo \ {t}
    BY <1>1 DEF HandType
  <1> DEFINE r == [hand[h] EXCEPT !.todo = S]
  <1>4. hand' = [hand EXCEPT ![h] = IF <<t, hand[h].who>> \notin featured THEN Idle
                                    ELSE IF hand[h].todo = {t} THEN Checks(hand[h]) ELSE r]
    BY <1>1, <1>2, <1>3
  <1>5. /\ r \in HandType /\ r.at = "removing" /\ r.back = "idle" /\ r.claims # NoList
        /\ r.who \in Addresses /\ r.got = NoList /\ r.to = NoAddress
    BY <1>1 DEF HandType
  <1> HIDE DEF r
  <1>6. PICK q \in HandType : /\ hand' = [hand EXCEPT ![h] = q]
                              /\ q.at \in {"idle", "checks", "removing"} /\ q.back = "idle"
                              /\ q.got = NoList /\ q.to = NoAddress
                              /\ q.at = "removing" => q.claims # NoList /\ q.who \in Addresses
    BY <1>1, <1>4, <1>5, ChecksFit, IdleType
  <1>7. /\ UNCHANGED <<owner, known, minted, needs, sold, rushed, caches, transfers>>
        /\ UNCHANGED failures /\ featured' \subseteq Tokens \X Addresses
    BY <1>2 DEF RemoveFeature, claimVars, history, bounds, TransfersInv, TypeOK
  <1>8. QED
    BY <1>6, <1>7, Harmless, Bounded, HandOnly

LEMMA ListFailsKeeps ==
    ASSUME TransfersInv, NEW h \in Handlers, ListFails(h) \/ Abort(h) PROVE TransfersInv'
  <1>1. featured' \subseteq Tokens \X Addresses
    BY DEF ListFails, Abort, TransfersInv, TypeOK
  <1>2. QED
    BY <1>1, EndKeeps DEF ListFails, Abort

-----------------------------------------------------------------------------
(* Checks.                                                                 *)

\* Where a check or a transfer returns to.
LEMMA ReturnedFits ==
    ASSUME NEW q \in HandType, q.back \in {"arrivals", "checks", "validate"}, NEW holder,
           q.got = NoList
    PROVE  LET r == Returned(q, holder) IN
           /\ r \in HandType
           /\ \/ r = Idle
              \/ /\ r.back = "idle" /\ r.at = q.back /\ r.had = q.had
                 /\ r.got = NoList /\ r.to = NoAddress
                 /\ r.who = q.who /\ r.claims = q.claims /\ r.todo = q.todo
                 /\ r.at = "validate" => r.token = q.token /\ holder = q.who
  <1>0. PICK k \in Tokens \cup {NoToken} : k = IF q.back = "validate" THEN q.token ELSE NoToken
    BY DEF HandType
  <1> DEFINE s == [q EXCEPT !.at = q.back, !.back = "idle", !.from = NoAddress, !.to = NoAddress,
                            !.token = k]
  <1>1. s \in HandType
    BY StepNames DEF HandType
  <1>2. /\ s.back = "idle" /\ s.at = q.back /\ s.had = q.had
        /\ s.got = NoList /\ s.to = NoAddress
        /\ s.who = q.who /\ s.claims = q.claims /\ s.todo = q.todo
        /\ s.at = "validate" => s.token = q.token
    BY <1>0 DEF HandType
  <1>3. Resume(q) = IF q.back = "checks" /\ q.todo = {} THEN Idle ELSE s
    BY <1>0 DEF Resume
  <1> HIDE DEF s
  <1>4. QED
    BY <1>1, <1>2, <1>3, IdleType DEF Returned

\* A check returns to a request only if POAP names its address, which then had the claim.
LEMMA CheckReturns ==
    ASSUME TransfersInv, NEW h \in Handlers, NEW q \in HandType, q.back \in {"checks", "validate"},
           q.back = "validate" => q.who \in Addresses /\ q.token \in Tokens, q.got = NoList,
           NEW holder, hand' = [hand EXCEPT ![h] = Returned(q, holder)],
           holder = q.who /\ q.back = "validate" => q.had,
           UNCHANGED minted
    PROVE  /\ Returned(q, holder) \in HandType
           /\ HandFits(h)' /\ RevalidatorTrue(h)'
           /\ \A t \in Tokens : Still(t) => StillSeen(t, h)'
  <1>1. PICK r \in HandType :
           /\ r = Returned(q, holder)
           /\ \/ r = Idle
              \/ /\ r.back = "idle" /\ r.at = q.back /\ r.had = q.had
                 /\ r.got = NoList /\ r.to = NoAddress
                 /\ r.who = q.who /\ r.claims = q.claims /\ r.todo = q.todo
                 /\ r.at = "validate" => r.token = q.token /\ holder = q.who
    BY ReturnedFits
  <1>2. hand' = [hand EXCEPT ![h] = r] /\ hand'[h] = r
    BY <1>1 DEF TransfersInv, TypeOK
  <1>3. CASE r.at # "validate"
    BY <1>1, <1>2, <1>3, IdleType, Harmless
  <1>4. CASE r.at = "validate"
    <2>1. HandFits(h)' /\ RevalidatorTrue(h)'
      BY <1>1, <1>2, <1>4, IdleType DEF HandFits, InPage, RevalidatorTrue, Revalidating
    <2>2. \A t \in Tokens : Still(t) => StillSeen(t, h)'
      BY <1>1, <1>2, <1>4, IdleType DEF InPage, StillSeen
    <2>3. QED
      BY <1>1, <2>1, <2>2
  <1>5. QED
    BY <1>3, <1>4

LEMMA LookKeeps ==
    ASSUME TransfersInv, NEW h \in Handlers, Look(h) PROVE TransfersInv'
  <1>1. PICK t \in IF hand[h].at = "checks" THEN hand[h].todo ELSE {hand[h].token} :
          LET r == [hand[h] EXCEPT !.todo = @ \ {t}, !.token = t, !.from = minted[t], !.at = "clear",
                       !.back = IF hand[h].at = "checks" THEN "checks" ELSE "validate"] IN
          /\ hand[h].at \in {"checks", "look"}
          /\ hand' = [hand EXCEPT ![h] = IF t \in known THEN r ELSE Returned(r, NoAddress)]
    BY DEF Look
  <1>2. /\ hand[h] \in HandType /\ hand[h].at \in {"checks", "look"} /\ t \in Tokens
        /\ hand \in [Handlers -> HandType] /\ minted[t] \in Addresses
        /\ hand[h].at = "look" => /\ hand[h].who \in Addresses /\ t = hand[h].token
                                  /\ minted[t] = hand[h].who => hand[h].had
        /\ hand[h].got = NoList /\ hand[h].to = NoAddress
    BY <1>1, HandTypes DEF HandFits, HandType, TransfersInv, TypeOK, RevalidatorTrue, Revalidating
  <1>3. PICK S \in SUBSET Tokens : S = hand[h].todo \ {t}
    BY <1>2 DEF HandType
  <1>4. PICK b \in {"checks", "validate"} : b = IF hand[h].at = "checks" THEN "checks" ELSE "validate"
    OBVIOUS
  <1>5. PICK m \in Addresses : m = minted[t]
    BY <1>2
  <1> DEFINE r == [hand[h] EXCEPT !.todo = S, !.token = t, !.from = m, !.at = "clear", !.back = b]
  <1>6. hand' = [hand EXCEPT ![h] = IF t \in known THEN r ELSE Returned(r, NoAddress)]
    BY <1>1, <1>3, <1>4, <1>5
  <1>7. r \in HandType
    <2>1. ASSUME NEW x \in HandType PROVE [x EXCEPT !.todo = S, !.token = t] \in HandType
      BY <1>2 DEF HandType
    <2>2. ASSUME NEW x \in HandType PROVE [x EXCEPT !.from = m] \in HandType
      BY DEF HandType
    <2>3. ASSUME NEW x \in HandType PROVE [x EXCEPT !.at = "clear", !.back = b] \in HandType
      BY StepNames DEF HandType
    <2>4. QED
      BY <1>2, <2>1, <2>2, <2>3
  <1>8. /\ r.at = "clear" /\ r.token = t /\ r.from = m /\ r.back = b /\ r.who = hand[h].who
        /\ r.had = hand[h].had /\ r.got = NoList /\ r.to = NoAddress
    BY <1>2 DEF HandType
  <1> HIDE DEF r
  <1>9. /\ UNCHANGED <<owner, known, minted, needs, sold, rushed, caches, transfers>>
        /\ UNCHANGED failures /\ featured' \subseteq Tokens \X Addresses
    BY DEF Look, claimVars, history, bounds, TransfersInv, TypeOK
  <1>10. CASE t \in known
    <2>1. hand' = [hand EXCEPT ![h] = r] /\ hand'[h] = r
      BY <1>2, <1>6, <1>10
    <2>2. HandFits(h)' /\ RevalidatorTrue(h)'
      BY <1>2, <1>4, <1>5, <1>8, <1>9, <1>10, <2>1 DEF HandFits, InPage, RevalidatorTrue, Revalidating
    <2>3. \A u \in Tokens : Still(u) => StillSeen(u, h)'
      BY <1>4, <1>5, <1>8, <2>1 DEF InPage, StillSeen, TransfersInv, StillKept
    <2>4. QED
      BY <1>7, <1>9, <2>1, <2>2, <2>3, Bounded, HandOnly
  <1>11. CASE t \notin known
    <2>1. hand' = [hand EXCEPT ![h] = Returned(r, NoAddress)]
      BY <1>6, <1>11
    <2>2. b = "validate" => r.who # NoAddress /\ r.who \in Addresses
      BY <1>2, <1>4, <1>8, TransfersAssumption
    <2>3. /\ Returned(r, NoAddress) \in HandType
          /\ HandFits(h)' /\ RevalidatorTrue(h)'
          /\ \A u \in Tokens : Still(u) => StillSeen(u, h)'
      BY <1>2, <1>7, <1>8, <1>9, <2>1, <2>2, CheckReturns
    <2>4. QED
      BY <1>9, <2>1, <2>3, Bounded, HandOnly
  <1>12. QED
    BY <1>10, <1>11

LEMMA ClearInfoKeeps ==
    ASSUME TransfersInv, NEW h \in Handlers, ClearInfo(h) PROVE TransfersInv'
  <1>1. PICK r \in HandType :
              /\ hand' = [hand EXCEPT ![h] = r] /\ r.at = "ask"
              /\ r.who = hand[h].who /\ r.list = hand[h].list /\ r.claims = hand[h].claims
              /\ r.todo = hand[h].todo /\ r.token = hand[h].token /\ r.from = hand[h].from
              /\ r.to = hand[h].to /\ r.back = hand[h].back /\ r.had = hand[h].had
              /\ r.got = hand[h].got
    BY GotoRecord DEF ClearInfo, Steps
  <1>2. hand'[h] = r /\ hand[h].at = "clear" /\ HandFits(h) /\ RevalidatorTrue(h)
    BY <1>1 DEF ClearInfo, TransfersInv, TypeOK
  <1>3. /\ UNCHANGED <<owner, known, minted, needs, sold, rushed, lists, transfers>>
        /\ UNCHANGED failures /\ featured' \subseteq Tokens \X Addresses
        /\ infos' = [infos EXCEPT ![hand[h].token] = NoAddress]
    BY DEF ClearInfo, claimVars, history, bounds, TransfersInv, TypeOK
  <1>4. HandFits(h)' /\ RevalidatorTrue(h)'
    BY <1>1, <1>2, <1>3 DEF HandFits, InPage, RevalidatorTrue, Revalidating
  <1>5. \A t \in Tokens : Still(t) => StillSeen(t, h)'
    BY <1>1, <1>2, <1>3 DEF HandFits, InPage, StillSeen, TransfersInv
  <1>6. infos' \in [Tokens -> Addresses \cup {NoAddress}]
    BY <1>3 DEF TransfersInv, TypeOK
  <1>7. \A t \in Tokens : Still(t) =>
               /\ infos'[t] \in {NoAddress, Claimer[t]}
               /\ \A a \in Addresses : lists'[a] # NoList /\ t \in lists'[a] => a = Claimer[t]
    BY <1>3 DEF TransfersInv, TypeOK, StillKept
  <1>8. lists' \in [Addresses -> (SUBSET Tokens) \cup {NoList}]
    BY <1>3 DEF TransfersInv, TypeOK
  <1>9. QED
    BY <1>1, <1>3, <1>4, <1>5, <1>6, <1>7, <1>8, Bounded, OneHand

\* What POAP answers.
LEMMA AskPOAPKeeps ==
    ASSUME TransfersInv, NEW h \in Handlers, AskPOAP(h) PROVE TransfersInv'
  <1>1. /\ hand[h] \in HandType /\ hand \in [Handlers -> HandType] /\ hand[h].at \in {"ask", "info"}
        /\ HandFits(h) /\ RevalidatorTrue(h) /\ hand[h].token \in Tokens
    BY HandTypes DEF AskPOAP, HandFits, TransfersInv, TypeOK
  <1>2. PICK holder : holder = owner[hand[h].token]
    OBVIOUS
  <1>3. /\ holder \in Addresses \cup {NoAddress}
        /\ Still(hand[h].token) => holder \in {NoAddress, Claimer[hand[h].token]}
    BY <1>1, <1>2 DEF TransfersInv, TypeOK, StillKept
  <1> DEFINE r == [hand[h] EXCEPT !.to = holder]
  <1>4. hand' = [hand EXCEPT ![h] = r]
    BY <1>1, <1>2 DEF AskPOAP
  <1>5. r \in HandType
    BY <1>1, <1>3 DEF HandType
  <1>6. /\ r.at = hand[h].at /\ r.to = holder /\ r.token = hand[h].token /\ r.from = hand[h].from
        /\ r.who = hand[h].who /\ r.back = hand[h].back /\ r.claims = hand[h].claims
        /\ r.todo = hand[h].todo /\ r.got = hand[h].got /\ r.had = hand[h].had
    BY <1>1 DEF HandType
  <1> HIDE DEF r
  <1>7. hand'[h] = r
    BY <1>1, <1>4
  <1>8. /\ UNCHANGED <<owner, known, minted, needs, sold, rushed, caches, transfers>>
        /\ UNCHANGED failures /\ featured' \subseteq Tokens \X Addresses
    BY DEF AskPOAP, claimVars, history, bounds, TransfersInv, TypeOK
  <1>9. HandFits(h)' /\ RevalidatorTrue(h)'
    BY <1>1, <1>6, <1>7, <1>8 DEF HandFits, InPage, RevalidatorTrue, Revalidating
  <1>10. \A t \in Tokens : Still(t) => StillSeen(t, h)'
    BY <1>1, <1>3, <1>6, <1>7, <1>8 DEF InPage, StillSeen, TransfersInv
  <1>11. QED
    BY <1>4, <1>5, <1>8, <1>9, <1>10, Bounded, HandOnly

\* What the cache of infos says after an answer.
LEMMA AnswerFits ==
    ASSUME TransfersInv, NEW h \in Handlers, Answered(h), hand[h].at \in {"ask", "info"}
    PROVE  /\ infos' \in [Tokens -> Addresses \cup {NoAddress}]
           /\ \A u \in Tokens : Still(u) => infos'[u] \in {NoAddress, Claimer[u]}
           /\ Answer(h) \in Addresses
           /\ Still(hand[h].token) => Answer(h) = Claimer[hand[h].token]
  <1>1. PICK t \in Tokens : t = hand[h].token
    BY HandTypes DEF HandFits, TransfersInv, TypeOK
  <1>2. /\ infos \in [Tokens -> Addresses \cup {NoAddress}]
        /\ hand[h].to \in Addresses \cup {NoAddress}
    BY HandTypes DEF TransfersInv, TypeOK, HandType
  <1>3. \A u \in Tokens : Still(u) => infos[u] \in {NoAddress, Claimer[u]} /\ StillSeen(u, h)
    BY DEF TransfersInv, StillKept
  <1>4. /\ Answer(h) \in Addresses
        /\ Still(t) => Answer(h) = Claimer[t]
    BY <1>1, <1>2, <1>3, TransfersAssumption DEF Answered, Answer, StillSeen
  <1>5. infos' = [infos EXCEPT ![t] = Answer(h)]
    BY <1>1 DEF Answered
  <1>6. infos' \in [Tokens -> Addresses \cup {NoAddress}]
    BY <1>2, <1>4, <1>5
  <1>7. \A u \in Tokens : Still(u) => infos'[u] \in {NoAddress, Claimer[u]}
    BY <1>2, <1>3, <1>4, <1>5
  <1>8. QED
    BY <1>1, <1>4, <1>6, <1>7

LEMMA AskKeeps ==
    ASSUME TransfersInv, NEW h \in Handlers, Ask(h) PROVE TransfersInv'
  <1>1. /\ hand[h] \in HandType /\ hand \in [Handlers -> HandType] /\ hand[h].at = "ask"
        /\ hand[h].token \in known /\ hand[h].from \in Addresses /\ hand[h].token \in Tokens
        /\ HandFits(h) /\ RevalidatorTrue(h)
    BY HandTypes DEF Ask, HandFits, TransfersInv, TypeOK
  <1>2. PICK holder : holder = Answer(h)
    OBVIOUS
  <1>3. Answered(h)
    BY DEF Ask
  <1>4. /\ infos' \in [Tokens -> Addresses \cup {NoAddress}]
        /\ \A u \in Tokens : Still(u) => infos'[u] \in {NoAddress, Claimer[u]}
        /\ holder \in Addresses
        /\ Still(hand[h].token) => holder = Claimer[hand[h].token]
    BY <1>1, <1>2, <1>3, AnswerFits
  <1>5. /\ UNCHANGED <<owner, known, minted, needs, sold, rushed, lists, transfers>>
        /\ UNCHANGED failures /\ featured' \subseteq Tokens \X Addresses
        /\ lists' \in [Addresses -> (SUBSET Tokens) \cup {NoList}]
    BY DEF Ask, claimVars, history, bounds, TransfersInv, TypeOK
  <1>6. \A t \in Tokens : Still(t) =>
               /\ infos'[t] \in {NoAddress, Claimer[t]}
               /\ \A a \in Addresses : lists'[a] # NoList /\ t \in lists'[a] => a = Claimer[t]
    BY <1>4, <1>5 DEF TransfersInv, StillKept
  <1>7. CASE holder = hand[h].from /\ holder \notin Mixed
    <2>1. PICK q \in HandType : q = hand[h]
      BY <1>1
    <2>2. hand' = [hand EXCEPT ![h] = Returned(q, holder)]
      BY <1>1, <1>2, <1>7, <2>1 DEF Ask, Return
    <2>3. q.back \in {"checks", "validate"} /\ q.got = NoList
      BY <1>1, <2>1 DEF HandFits, HandType, InPage
    <2>4. holder = q.who /\ q.back = "validate" => q.had
      BY <1>1, <1>7, <2>1 DEF RevalidatorTrue
    <2>5. q.back = "validate" => q.who \in Addresses /\ q.token \in Tokens
      BY <1>1, <2>1 DEF HandFits
    <2>6. /\ Returned(q, holder) \in HandType
          /\ HandFits(h)' /\ RevalidatorTrue(h)'
          /\ \A t \in Tokens : Still(t) => StillSeen(t, h)'
      BY <1>5, <2>2, <2>3, <2>4, <2>5, CheckReturns
    <2>7. QED
      BY <1>4, <1>5, <1>6, <2>2, <2>6, Bounded, OneHand
  <1>8. CASE ~(holder = hand[h].from /\ holder \notin Mixed)
    <2> DEFINE r == [hand[h] EXCEPT !.at = "unfeature", !.to = holder]
    <2>1. hand' = [hand EXCEPT ![h] = r]
      BY <1>1, <1>2, <1>8 DEF Ask
    <2>2. r \in HandType
      BY <1>1, <1>4, StepNames DEF HandType
    <2>3. /\ r.at = "unfeature" /\ r.to = holder /\ r.token = hand[h].token
          /\ r.who = hand[h].who /\ r.back = hand[h].back /\ r.claims = hand[h].claims
          /\ r.todo = hand[h].todo /\ r.got = hand[h].got /\ r.had = hand[h].had
      BY <1>1 DEF HandType
    <2> HIDE DEF r
    <2>4. hand'[h] = r
      BY <1>1, <2>1
    <2>5. HandFits(h)' /\ RevalidatorTrue(h)'
      BY <1>1, <1>4, <1>5, <2>3, <2>4 DEF HandFits, InPage, RevalidatorTrue, Revalidating
    <2>6. ~Still(hand[h].token)
      BY <1>1, <1>4, <1>8 DEF TransfersInv, StillSeen, Still
    <2>7. \A t \in Tokens : Still(t) => StillSeen(t, h)'
      BY <1>1, <1>5, <2>3, <2>4, <2>6 DEF InPage, StillSeen, TransfersInv
    <2>8. QED
      BY <1>4, <1>5, <1>6, <2>1, <2>2, <2>5, <2>7, Bounded, OneHand
  <1>9. QED
    BY <1>7, <1>8

LEMMA AskFailsKeeps ==
    ASSUME TransfersInv, NEW h \in Handlers, AskFails(h) PROVE TransfersInv'
  <1>1. PICK q \in HandType : q = hand[h]
    BY HandTypes
  <1>2. hand' = [hand EXCEPT ![h] = Returned(q, NoAddress)] /\ HandFits(h) /\ q.at = "ask"
    BY <1>1, HandTypes DEF AskFails, Return, TransfersInv, TypeOK
  <1>3. /\ UNCHANGED <<owner, known, minted, needs, sold, rushed, caches, transfers>>
        /\ Fail /\ featured' \subseteq Tokens \X Addresses
    BY DEF AskFails, claimVars, history, TransfersInv, TypeOK
  <1>4. /\ q.back \in {"checks", "validate"} /\ q.got = NoList
        /\ q.back = "validate" => q.who \in Addresses /\ q.token \in Tokens
    BY <1>1, <1>2 DEF HandFits, HandType, InPage
  <1>5. q.back = "validate" => q.who # NoAddress
    BY <1>4, TransfersAssumption
  <1>6. /\ Returned(q, NoAddress) \in HandType
        /\ HandFits(h)' /\ RevalidatorTrue(h)'
        /\ \A t \in Tokens : Still(t) => StillSeen(t, h)'
    BY <1>2, <1>3, <1>4, <1>5, CheckReturns
  <1>7. QED
    BY <1>2, <1>3, <1>6, Bounded, HandOnly


-----------------------------------------------------------------------------
(* Transfers.                                                              *)

LEMMA UnfeatureKeeps ==
    ASSUME TransfersInv, NEW h \in Handlers, Unfeature(h) PROVE TransfersInv'
  <1>1. PICK r \in HandType :
              /\ hand' = [hand EXCEPT ![h] = r] /\ r.at = "move"
              /\ r.who = hand[h].who /\ r.list = hand[h].list /\ r.claims = hand[h].claims
              /\ r.todo = hand[h].todo /\ r.token = hand[h].token /\ r.from = hand[h].from
              /\ r.to = hand[h].to /\ r.back = hand[h].back /\ r.had = hand[h].had
              /\ r.got = hand[h].got
    BY GotoRecord DEF Unfeature, Steps
  <1>2. hand'[h] = r /\ hand[h].at = "unfeature" /\ HandFits(h) /\ RevalidatorTrue(h)
    BY <1>1 DEF Unfeature, TransfersInv, TypeOK
  <1>3. /\ UNCHANGED <<owner, known, minted, needs, sold, rushed, caches, transfers>>
        /\ UNCHANGED failures /\ featured' \subseteq Tokens \X Addresses
    BY DEF Unfeature, claimVars, history, bounds, TransfersInv, TypeOK
  <1>4. HandFits(h)' /\ RevalidatorTrue(h)'
    BY <1>1, <1>2, <1>3 DEF HandFits, InPage, RevalidatorTrue, Revalidating
  <1>5. \A t \in Tokens : Still(t) => StillSeen(t, h)'
    BY <1>1, <1>2, <1>3 DEF InPage, StillSeen, TransfersInv
  <1>6. QED
    BY <1>1, <1>3, <1>4, <1>5, Bounded, HandOnly

\* The claim of a token that changed hands or was recorded late gets another address and
\* is marked; requests of that address that revalidate it had it from now on.
LEMMA MoveKeeps ==
    ASSUME TransfersInv, NEW h \in Handlers, Move(h) PROVE TransfersInv'
  <1>1. PICK p \in HandType : p = hand[h]
    BY HandTypes
  <1>2. PICK t \in Tokens : t = p.token
    BY <1>1, HandTypes DEF Move, HandFits
  <1>3. /\ p.at = "move" /\ p.to \in Addresses /\ p.back \in {"arrivals", "checks", "validate"}
        /\ p.got = NoList /\ HandFits(h) /\ hand \in [Handlers -> HandType]
    BY <1>1, HandTypes DEF Move, HandFits, HandType, TransfersInv, TypeOK
  <1>4. ~Still(t)
    BY <1>1, <1>2, <1>3 DEF TransfersInv, StillSeen
  <1>5. /\ minted' = [minted EXCEPT ![t] = p.to] /\ needs' = needs \cup {t}
        /\ UNCHANGED <<owner, known, featured, lists, infos, transfers, failures, sold, rushed>>
    BY <1>1, <1>2 DEF Move, caches, bounds, history
  <1>6. ASSUME NEW g \in Handlers
        PROVE  LET r == Given(hand[g], t, p.to) IN
               /\ r \in HandType
               /\ r.at = hand[g].at /\ r.who = hand[g].who /\ r.got = hand[g].got
               /\ r.list = hand[g].list /\ r.claims = hand[g].claims
               /\ r.todo = hand[g].todo /\ r.token = hand[g].token
               /\ r.from = hand[g].from /\ r.to = hand[g].to
               /\ r.back = hand[g].back
               /\ hand[g].had => r.had
               /\ Revalidating(hand[g]) /\ hand[g].token = t /\ hand[g].who = p.to => r.had
    <2>1. PICK q \in HandType : q = hand[g]
      BY <1>3
    <2>2. (q.had \/ (Revalidating(q) /\ q.token = t /\ q.who = p.to)) \in BOOLEAN
      BY DEF HandType
    <2>3. PICK b \in BOOLEAN : b = (q.had \/ (Revalidating(q) /\ q.token = t /\ q.who = p.to))
      BY <2>2, Zenon
    <2> DEFINE r == [q EXCEPT !.had = b]
    <2>4. Given(hand[g], t, p.to) = r
      BY <2>1, <2>3 DEF Given
    <2>5. r \in HandType /\ r.had = b
      BY DEF HandType
    <2>6. /\ r.at = q.at /\ r.who = q.who /\ r.got = q.got
          /\ r.list = q.list /\ r.claims = q.claims
          /\ r.todo = q.todo /\ r.token = q.token
          /\ r.from = q.from /\ r.to = q.to
          /\ r.back = q.back
      BY DEF HandType
    <2> HIDE DEF r
    <2>7. /\ q.had => r.had
          /\ Revalidating(q) /\ q.token = t /\ q.who = p.to => r.had
      BY <2>3, <2>5, Zenon
    <2>8. QED
      BY <2>1, <2>4, <2>5, <2>6, <2>7
  <1>7. PICK q \in HandType :
           /\ q = Given(hand[h], t, p.to)
           /\ q.at = p.at /\ q.who = p.who /\ q.got = p.got /\ q.claims = p.claims
           /\ q.todo = p.todo /\ q.token = p.token /\ q.to = p.to /\ q.back = p.back
           /\ p.had => q.had
           /\ Revalidating(p) /\ p.who = p.to => q.had
    BY <1>1, <1>2, <1>6
  <1>8. PICK r \in HandType :
           /\ r = Returned(q, p.to)
           /\ \/ r = Idle
              \/ /\ r.back = "idle" /\ r.at = q.back /\ r.had = q.had
                 /\ r.got = NoList /\ r.to = NoAddress
                 /\ r.who = q.who /\ r.claims = q.claims /\ r.todo = q.todo
                 /\ r.at = "validate" => r.token = q.token /\ p.to = q.who
    BY <1>3, <1>7, ReturnedFits
  <1>9. hand' = [g \in Handlers |-> IF g = h THEN r ELSE Given(hand[g], t, p.to)] /\ hand'[h] = r
    BY <1>1, <1>2, <1>7, <1>8 DEF Move
  <1>10. TypeOK'
    <2>1. hand' \in [Handlers -> HandType]
      <3>1. \A g \in Handlers : hand'[g] \in HandType
        BY <1>6, <1>9
      <3>2. QED
        BY <1>9, <3>1
    <2>2. minted' \in [Tokens -> Addresses] /\ needs' \subseteq Tokens
      BY <1>3, <1>5 DEF TransfersInv, TypeOK
    <2>3. QED
      BY <1>5, <2>1, <2>2 DEF TransfersInv, TypeOK
  <1>11. ASSUME NEW g \in Handlers PROVE HandFits(g)' /\ RevalidatorTrue(g)'
    <2>1. CASE g = h
      <3>1. HandFits(h)'
        BY <1>1, <1>2, <1>3, <1>7, <1>8, <1>9, IdleType DEF HandFits, InPage
      <3>2. RevalidatorTrue(h)'
        <4>1. CASE r = Idle
          BY <1>9, <4>1, IdleType DEF RevalidatorTrue, Revalidating
        <4>2. CASE r.at = p.back /\ r.back = "idle" /\ r.had = q.had
          BY <1>3, <1>7, <1>8, <1>9, <4>2, IdleType DEF RevalidatorTrue, Revalidating
        <4>3. QED
          BY <1>7, <1>8, <4>1, <4>2
      <3>3. QED
        BY <2>1, <3>1, <3>2
    <2>2. CASE g # h
      <3>1. HandFits(g) /\ RevalidatorTrue(g) /\ hand'[g] = Given(hand[g], t, p.to)
        BY <1>9, <2>2, HandTypes
      <3>2. HandFits(g)'
        BY <1>5, <1>6, <2>2, <3>1 DEF HandFits, InPage
      <3>3. /\ \A u \in Tokens : u # t => minted'[u] = minted[u]
            /\ minted'[t] = p.to
        BY <1>5 DEF TransfersInv, TypeOK
      <3>4. Revalidating(hand[g]) => hand[g].token \in Tokens
        BY <3>1 DEF HandFits, Revalidating
      <3>5. RevalidatorTrue(g)'
        BY <1>6, <3>1, <3>3, <3>4 DEF RevalidatorTrue, Revalidating
      <3>6. QED
        BY <3>2, <3>5
    <2>3. QED
      BY <2>1, <2>2
  <1>12. ASSUME NEW u \in Tokens, Still(u)' PROVE StillKept(u)' /\ \A g \in Handlers : StillSeen(u, g)'
    <2>1. Still(u) /\ u # t
      BY <1>4, <1>5, <1>12 DEF Still
    <2>2. StillKept(u) /\ minted'[u] = minted[u]
      BY <1>5, <2>1 DEF TransfersInv, TypeOK
    <2>3. StillKept(u)'
      BY <1>5, <2>1, <2>2 DEF StillKept
    <2>4. ASSUME NEW g \in Handlers \ {h} PROVE StillSeen(u, g)'
      <3>1. hand'[g] = Given(hand[g], t, p.to) /\ StillSeen(u, g)
        BY <1>9, <2>1 DEF TransfersInv
      <3>2. QED
        BY <1>5, <1>6, <3>1 DEF StillSeen, InPage
    <2>5. StillSeen(u, h)
      BY <2>1 DEF TransfersInv
    <2>6. StillSeen(u, h)'
      <3>1. CASE r = Idle
        BY <1>9, <3>1, IdleType DEF StillSeen, InPage
      <3>2. CASE r.at = p.back /\ r.back = "idle" /\ r.who = p.who /\ r.todo = p.todo
        <4>1. CASE p.back = "arrivals"
          <5>1. u \in p.todo => p.who = Claimer[u] /\ u \notin known
            BY <1>1, <2>5, <4>1 DEF StillSeen, InPage
          <5>2. QED
            BY <1>5, <1>9, <3>2, <4>1, <5>1 DEF StillSeen, InPage
        <4>2. CASE p.back \in {"checks", "validate"}
          BY <1>9, <3>2, <4>2 DEF StillSeen, InPage
        <4>3. QED
          BY <1>3, <4>1, <4>2
      <3>3. QED
        BY <1>7, <1>8, <3>1, <3>2
    <2>7. QED
      BY <2>3, <2>4, <2>6
  <1>13. QED
    BY <1>5, <1>10, <1>11, <1>12 DEF TransfersInv

-----------------------------------------------------------------------------
(* Requests.                                                               *)

LEMMA RevalidateKeeps ==
    ASSUME TransfersInv, NEW h \in Handlers, NEW a \in Addresses, NEW t \in Tokens, Revalidate(h, a, t)
    PROVE  TransfersInv'
  <1>1. PICK step \in {"validate", "look"} : step = IF minted[t] = a THEN "validate" ELSE "look"
    OBVIOUS
  <1>0. PICK b \in BOOLEAN : b = (minted[t] = a)
    BY Zenon
  <1> DEFINE r == [Idle EXCEPT !.at = step, !.who = a, !.token = t, !.had = b]
  <1>2. hand' = [hand EXCEPT ![h] = r]
    BY <1>0, <1>1 DEF Revalidate
  <1>3. r \in HandType
    BY IdleType, StepNames DEF HandType
  <1>4. r.at = step /\ r.who = a /\ r.token = t /\ r.back = "idle" /\ r.had = b
        /\ r.got = NoList /\ r.to = NoAddress
    BY DEF Idle
  <1> HIDE DEF r
  <1>5. hand'[h] = r
    BY <1>2 DEF TransfersInv, TypeOK
  <1>6. /\ UNCHANGED <<owner, known, minted, needs, sold, rushed, caches, transfers>>
        /\ UNCHANGED failures /\ featured' \subseteq Tokens \X Addresses
    BY DEF Revalidate, claimVars, history, bounds, TransfersInv, TypeOK
  <1>7. /\ HandFits(h)' /\ RevalidatorTrue(h)'
        /\ \A u \in Tokens : Still(u) => StillSeen(u, h)'
    BY <1>0, <1>1, <1>4, <1>5, <1>6 DEF HandFits, InPage, RevalidatorTrue, Revalidating, StillSeen
  <1>8. QED
    BY <1>2, <1>3, <1>6, <1>7, Bounded, HandOnly

LEMMA ValidateKeeps ==
    ASSUME TransfersInv, NEW h \in Handlers, Validate(h) PROVE TransfersInv'
  <1>1. PICK t \in Tokens : t = hand[h].token
    BY HandTypes DEF Validate, HandFits
  <1>2. /\ needs' = needs \ {t} /\ hand' = [hand EXCEPT ![h] = Idle]
        /\ UNCHANGED <<owner, known, minted, featured, lists, infos, transfers, failures, sold, rushed>>
    BY <1>1 DEF Validate, End, caches, bounds, history
  <1>3. hand'[h] = Idle /\ \A g \in Handlers \ {h} : hand'[g] = hand[g]
    BY <1>2 DEF TransfersInv, TypeOK
  <1>4. TypeOK'
    BY <1>2, IdleType DEF TransfersInv, TypeOK
  <1>5. /\ HandFits(h)' /\ RevalidatorTrue(h)'
        /\ \A u \in Tokens : Still(u) => StillSeen(u, h)'
    BY <1>2, IdleType, Harmless
  <1>6. \A g \in Handlers \ {h} : HandFits(g)' /\ RevalidatorTrue(g)'
    BY <1>2, <1>3 DEF TransfersInv, HandFits, InPage, RevalidatorTrue, Revalidating
  <1>7. ASSUME NEW u \in Tokens, Still(u)' PROVE StillKept(u)' /\ \A g \in Handlers : StillSeen(u, g)'
    <2>1. Still(u)
      BY <1>2, <1>7 DEF Still
    <2>2. StillKept(u)'
      BY <1>2, <2>1 DEF TransfersInv, StillKept
    <2>3. \A g \in Handlers \ {h} : StillSeen(u, g)'
      BY <1>2, <1>3, <2>1 DEF TransfersInv, StillSeen, InPage
    <2>4. QED
      BY <1>5, <2>1, <2>2, <2>3
  <1>8. QED
    BY <1>2, <1>4, <1>5, <1>6, <1>7 DEF TransfersInv

LEMMA AskToFeatureKeeps ==
    ASSUME TransfersInv, NEW h \in Handlers, NEW a \in Addresses, NEW t \in Tokens, AskToFeature(h, a, t)
    PROVE  TransfersInv'
  <1> DEFINE r == [Idle EXCEPT !.at = "info", !.who = a, !.token = t]
  <1>1. hand' = [hand EXCEPT ![h] = r]
    BY DEF AskToFeature
  <1>2. r \in HandType
    BY IdleType, StepNames DEF HandType
  <1>3. r.at = "info" /\ r.who = a /\ r.token = t /\ r.back = "idle"
        /\ r.got = NoList /\ r.to = NoAddress
    BY DEF Idle
  <1> HIDE DEF r
  <1>4. /\ UNCHANGED <<owner, known, minted, needs, sold, rushed, caches, transfers>>
        /\ UNCHANGED failures /\ featured' \subseteq Tokens \X Addresses
    BY DEF AskToFeature, claimVars, history, bounds, TransfersInv, TypeOK
  <1>5. QED
    BY <1>1, <1>2, <1>3, <1>4, Harmless, Bounded, HandOnly

\* A request to feature a POAP goes on, or ends.
LEMMA FeatureGoes ==
    ASSUME TransfersInv, NEW h \in Handlers, hand[h].at \in {"info", "needed", "feature"},
           NEW step \in {"needed", "feature"},
           \/ hand' = [hand EXCEPT ![h].at = step, ![h].to = NoAddress]
           \/ Goto(h, step) /\ hand[h].at # "info"
           \/ End(h)
    PROVE  \E r \in HandType :
              /\ hand' = [hand EXCEPT ![h] = r]
              /\ HandFits(h)' /\ RevalidatorTrue(h)'
              /\ \A t \in Tokens : Still(t) => StillSeen(t, h)'
  <1>1. HandFits(h)
    BY HandTypes
  <1>2. CASE End(h)
    <2>1. hand' = [hand EXCEPT ![h] = Idle]
      BY <1>2 DEF End
    <2>2. QED
      BY <2>1, IdleType, Harmless
  <1>3. CASE hand' = [hand EXCEPT ![h].at = step, ![h].to = NoAddress]
    <2> DEFINE r == [hand[h] EXCEPT !.at = step, !.to = NoAddress]
    <2>1. hand[h] \in HandType /\ hand \in [Handlers -> HandType]
      BY HandTypes DEF TransfersInv, TypeOK
    <2>2. hand' = [hand EXCEPT ![h] = r]
      BY <1>3, <2>1
    <2>3. r \in HandType
      BY <2>1, StepNames DEF HandType
    <2>4. /\ r.at = step /\ r.back = hand[h].back /\ r.who = hand[h].who
          /\ r.token = hand[h].token /\ r.got = hand[h].got /\ r.to = NoAddress
      BY <2>1 DEF HandType
    <2> HIDE DEF r
    <2>5. r.back = "idle" /\ r.who \in Addresses /\ r.token \in Tokens /\ r.got = NoList
      BY <1>1, <2>4 DEF HandFits
    <2>6. QED
      BY <2>2, <2>3, <2>4, <2>5, Harmless
  <1>4. CASE Goto(h, step) /\ hand[h].at # "info"
    <2>1. PICK r \in HandType :
              /\ hand' = [hand EXCEPT ![h] = r] /\ r.at = step
              /\ r.who = hand[h].who /\ r.list = hand[h].list /\ r.claims = hand[h].claims
              /\ r.todo = hand[h].todo /\ r.token = hand[h].token /\ r.from = hand[h].from
              /\ r.to = hand[h].to /\ r.back = hand[h].back /\ r.had = hand[h].had
              /\ r.got = hand[h].got
      <3>1. step \in Steps
        BY DEF Steps
      <3>2. QED
        BY <1>4, <3>1, GotoRecord
    <2>2. /\ r.back = "idle" /\ r.who \in Addresses /\ r.token \in Tokens
          /\ r.got = NoList /\ r.to = NoAddress
      BY <1>1, <1>4, <2>1 DEF HandFits
    <2>3. QED
      BY <2>1, <2>2, Harmless
  <1>5. QED
    BY <1>2, <1>3, <1>4

LEMMA ReadInfoKeeps ==
    ASSUME TransfersInv, NEW h \in Handlers, ReadInfo(h) PROVE TransfersInv'
  <1>1. PICK r \in HandType :
              /\ hand' = [hand EXCEPT ![h] = r]
              /\ HandFits(h)' /\ RevalidatorTrue(h)'
              /\ \A t \in Tokens : Still(t) => StillSeen(t, h)'
    BY FeatureGoes DEF ReadInfo
  <1>2. hand[h].at = "info" /\ Answered(h)
    BY DEF ReadInfo
  <1>3. /\ infos' \in [Tokens -> Addresses \cup {NoAddress}]
        /\ \A u \in Tokens : Still(u) => infos'[u] \in {NoAddress, Claimer[u]}
    BY <1>2, AnswerFits
  <1>4. /\ UNCHANGED <<owner, known, minted, needs, sold, rushed, lists, transfers>>
        /\ UNCHANGED failures /\ featured' \subseteq Tokens \X Addresses
        /\ lists' \in [Addresses -> (SUBSET Tokens) \cup {NoList}]
    BY DEF ReadInfo, claimVars, history, bounds, TransfersInv, TypeOK
  <1>5. \A t \in Tokens : Still(t) =>
               /\ infos'[t] \in {NoAddress, Claimer[t]}
               /\ \A a \in Addresses : lists'[a] # NoList /\ t \in lists'[a] => a = Claimer[t]
    BY <1>3, <1>4 DEF TransfersInv, StillKept
  <1>6. QED
    BY <1>1, <1>3, <1>4, <1>5, Bounded, OneHand

LEMMA ReadNeedKeeps ==
    ASSUME TransfersInv, NEW h \in Handlers, ReadNeed(h) PROVE TransfersInv'
  <1>1. PICK r \in HandType :
              /\ hand' = [hand EXCEPT ![h] = r]
              /\ HandFits(h)' /\ RevalidatorTrue(h)'
              /\ \A t \in Tokens : Still(t) => StillSeen(t, h)'
    BY FeatureGoes DEF ReadNeed
  <1>2. /\ UNCHANGED <<owner, known, minted, needs, sold, rushed, caches, transfers>>
        /\ UNCHANGED failures /\ featured' \subseteq Tokens \X Addresses
    BY DEF ReadNeed, claimVars, history, bounds, TransfersInv, TypeOK
  <1>3. QED
    BY <1>1, <1>2, Bounded, HandOnly

LEMMA FeatureKeeps ==
    ASSUME TransfersInv, NEW h \in Handlers, Feature(h) PROVE TransfersInv'
  <1>1. hand[h].token \in Tokens /\ hand[h].who \in Addresses
    BY HandTypes DEF Feature, HandFits
  <1>2. featured' \subseteq Tokens \X Addresses
    <2>1. featured' \subseteq featured \cup {<<hand[h].token, hand[h].who>>}
      BY DEF Feature
    <2>2. QED
      BY <1>1, <2>1 DEF TransfersInv, TypeOK
  <1>3. End(h) /\ UNCHANGED <<owner, claimVars, caches, transfers, failures, history>>
    BY DEF Feature, bounds
  <1>4. QED
    BY <1>2, <1>3, EndKeeps

-----------------------------------------------------------------------------
(* Steps that move no handler.                                             *)

\* The claims stay, and the tokens that still stand still stood still before.
LEMMA NoHand ==
    ASSUME TransfersInv, TypeOK', UNCHANGED <<minted, needs, hand>>,
           sold \subseteq sold', rushed \subseteq rushed', known \subseteq known',
           \A t \in known' : owner'[t] # NoAddress,
           \A t \in Tokens : Still(t)' =>
               /\ owner'[t] \in {NoAddress, Claimer[t]}
               /\ infos'[t] \in {NoAddress, Claimer[t]}
               /\ \A a \in Addresses : lists'[a] # NoList /\ t \in lists'[a] => a = Claimer[t]
               /\ t \in known' => t \in known \/ \A h \in Handlers : StillSeen(t, h)'
    PROVE  TransfersInv'
  <1>1. \A h \in Handlers : HandFits(h)' /\ RevalidatorTrue(h)'
    BY DEF TransfersInv, HandFits, InPage, RevalidatorTrue, Revalidating
  <1>2. ASSUME NEW t \in Tokens, Still(t)' PROVE StillKept(t)' /\ \A h \in Handlers : StillSeen(t, h)'
    <2>1. Still(t)
      BY <1>2 DEF Still
    <2>2. StillKept(t)'
      BY <1>2, <2>1 DEF TransfersInv, StillKept
    <2>3. t \notin known' \/ t \in known => \A h \in Handlers : StillSeen(t, h)'
      BY <2>1 DEF TransfersInv, StillSeen, InPage
    <2>4. QED
      BY <1>2, <2>2, <2>3
  <1>3. QED
    BY <1>1, <1>2 DEF TransfersInv

LEMMA TokenKeeps ==
    ASSUME TransfersInv, NEW t \in Tokens,
           \/ Mint(t)
           \/ \E a \in Addresses : Transfer(t, a) \/ Withdraw(t, a)
    PROVE  TransfersInv'
  <1>0. TypeOK /\ Claimer[t] \in Addresses
    BY TransfersAssumption DEF TransfersInv
  <1>1. UNCHANGED <<known, minted, needs, lists, infos, hand, failures, rushed>>
    BY DEF Mint, Transfer, Withdraw, claimVars, caches, bounds, history
  <1>2. PICK a \in Addresses :
           \/ owner' = [owner EXCEPT ![t] = a] /\ (t \in sold' \/ a = Claimer[t])
           \/ owner' = owner
    BY <1>0 DEF Mint, Transfer, Withdraw
  <1>3. /\ sold' \subseteq Tokens /\ sold \subseteq sold' /\ transfers' \in 0 .. TransferLimit
        /\ featured' \subseteq Tokens \X Addresses
    <2>1. TransferLimit \in Nat /\ transfers \in 0 .. TransferLimit
      BY <1>0, TransfersAssumption DEF TypeOK
    <2>2. transfers' \in 0 .. TransferLimit
      <3>1. CASE Mint(t)
        BY <2>1, <3>1 DEF Mint, bounds
      <3>2. ASSUME NEW b \in Addresses, Transfer(t, b) PROVE transfers' \in 0 .. TransferLimit
        BY <2>1, <3>2 DEF Transfer
      <3>3. ASSUME NEW b \in Addresses, Withdraw(t, b) PROVE transfers' \in 0 .. TransferLimit
        BY <2>1, <3>3 DEF Withdraw, bounds
      <3>4. QED
        BY <3>1, <3>2, <3>3
    <2>3. QED
      BY <1>0, <2>2 DEF Mint, Transfer, Withdraw, history, TypeOK
  <1>4. TypeOK'
    BY <1>0, <1>1, <1>2, <1>3 DEF TypeOK
  <1>5. \A u \in known' : owner'[u] # NoAddress
    BY <1>0, <1>1, <1>2, TransfersAssumption DEF TransfersInv, TypeOK
  <1>6. ASSUME NEW u \in Tokens, Still(u)'
        PROVE  /\ owner'[u] \in {NoAddress, Claimer[u]}
               /\ infos'[u] \in {NoAddress, Claimer[u]}
               /\ \A b \in Addresses : lists'[b] # NoList /\ u \in lists'[b] => b = Claimer[u]
    <2>1. Still(u) /\ u \notin sold'
      BY <1>1, <1>3, <1>6 DEF Still
    <2>2. StillKept(u)
      BY <2>1 DEF TransfersInv
    <2>3. QED
      BY <1>0, <1>1, <1>2, <2>1, <2>2 DEF StillKept, TypeOK
  <1>7. QED
    BY <1>1, <1>3, <1>4, <1>5, <1>6, NoHand

\* A claim that gets its token is not one that a page that is loading has missed, or else
\* it is rushed.
LEMMA RecordKeeps ==
    ASSUME TransfersInv, NEW t \in Tokens, Record(t) PROVE TransfersInv'
  <1>1. /\ UNCHANGED <<owner, minted, needs, lists, infos, hand, sold>>
        /\ known' = known \cup {t} /\ owner[t] # NoAddress /\ rushed \subseteq rushed'
        /\ Overtaken(t) => t \in rushed'
    BY DEF Record, caches
  <1>2. TypeOK'
    BY DEF Record, caches, bounds, TransfersInv, TypeOK
  <1>3. \A u \in known' : owner'[u] # NoAddress
    BY <1>1 DEF TransfersInv
  <1>4. ASSUME NEW u \in Tokens, Still(u)'
        PROVE  /\ owner'[u] \in {NoAddress, Claimer[u]}
               /\ infos'[u] \in {NoAddress, Claimer[u]}
               /\ \A a \in Addresses : lists'[a] # NoList /\ u \in lists'[a] => a = Claimer[u]
               /\ u \in known' => u \in known \/ \A h \in Handlers : StillSeen(u, h)'
    <2>1. Still(u)
      BY <1>1, <1>4 DEF Still
    <2>2. StillKept(u)
      BY <2>1 DEF TransfersInv
    <2>3. ASSUME u = t, NEW h \in Handlers PROVE StillSeen(u, h)'
      <3>1. ~Overtaken(t) /\ minted[t] = Claimer[t]
        BY <1>1, <1>4, <2>2, <2>3 DEF Still, StillKept
      <3>2. StillSeen(t, h) /\ HandFits(h)
        BY <2>1, <2>3 DEF TransfersInv
      <3>3. hand[h].who = Claimer[t] =>
               /\ ~(hand[h].at = "reading" /\ hand[h].claims # NoList)
               /\ ~(t \in hand[h].todo /\ hand[h].at \notin {"removing", "checks"})
        BY <3>1 DEF Overtaken
      <3>4. InPage(hand[h]) => hand[h].at \notin {"removing", "checks"}
        BY <3>2 DEF HandFits, InPage
      <3>5. QED
        BY <1>1, <2>3, <3>2, <3>3, <3>4 DEF StillSeen, InPage
    <2>4. QED
      BY <1>1, <2>2, <2>3 DEF StillKept
  <1>5. QED
    BY <1>1, <1>2, <1>3, <1>4, NoHand

LEMMA ExpireKeeps ==
    ASSUME TransfersInv, NEW a \in Addresses, Expire(a) PROVE TransfersInv'
  <1>1. /\ UNCHANGED <<owner, known, minted, needs, infos, hand, sold, rushed>>
        /\ lists' = [lists EXCEPT ![a] = NoList]
    BY DEF Expire, claimVars, history
  <1>2. TypeOK'
    BY DEF Expire, claimVars, bounds, history, TransfersInv, TypeOK
  <1>3. \A t \in known' : owner'[t] # NoAddress
    BY <1>1 DEF TransfersInv
  <1>4. ASSUME NEW t \in Tokens, Still(t)'
        PROVE  /\ owner'[t] \in {NoAddress, Claimer[t]}
               /\ infos'[t] \in {NoAddress, Claimer[t]}
               /\ \A b \in Addresses : lists'[b] # NoList /\ t \in lists'[b] => b = Claimer[t]
    <2>1. StillKept(t) /\ lists \in [Addresses -> (SUBSET Tokens) \cup {NoList}]
      BY <1>1, <1>4 DEF Still, TransfersInv, TypeOK
    <2>2. QED
      BY <1>1, <2>1 DEF StillKept
  <1>5. QED
    BY <1>1, <1>2, <1>3, <1>4, NoHand

-----------------------------------------------------------------------------
LEMMA TransfersStep == TransfersInv /\ [Next]_vars => TransfersInv'
  <1> SUFFICES ASSUME TransfersInv, [Next]_vars PROVE TransfersInv'
    OBVIOUS
  <1>1. CASE UNCHANGED vars
    <2>1. UNCHANGED <<owner, known, minted, needs, featured, lists, infos, hand, transfers, failures,
                      sold, rushed>>
      BY <1>1 DEF vars, claimVars, caches, bounds, history
    <2>2. TypeOK'
      BY <2>1 DEF TransfersInv, TypeOK
    <2>3. QED
      BY <2>1, <2>2, NoHand DEF TransfersInv, StillKept, Still
  <1>2. ASSUME NEW t \in Tokens, Mint(t) \/ Record(t) PROVE TransfersInv'
    BY <1>2, TokenKeeps, RecordKeeps
  <1>3. ASSUME NEW t \in Tokens, NEW a \in Addresses, Transfer(t, a) \/ Withdraw(t, a)
        PROVE  TransfersInv'
    BY <1>3, TokenKeeps
  <1>4. ASSUME NEW a \in Addresses, Expire(a) PROVE TransfersInv'
    BY <1>4, ExpireKeeps
  <1>5. ASSUME NEW h \in Pages, NEW a \in Addresses, Open(h, a) PROVE TransfersInv'
    BY <1>5, OpenKeeps DEF Handlers
  <1>6. ASSUME NEW h \in Requests, NEW a \in Addresses, NEW t \in Tokens,
               Revalidate(h, a, t) \/ AskToFeature(h, a, t)
        PROVE  TransfersInv'
    BY <1>6, RevalidateKeeps, AskToFeatureKeeps DEF Handlers
  <1>7. ASSUME NEW h \in Handlers, HandStep(h) PROVE TransfersInv'
    <2>1. CASE PageStep(h)
      BY <2>1, ReadClaimsKeeps, ReadListKeeps, CacheListKeeps, ArriveKeeps, ReadFeaturedKeeps,
         RemoveFeatureKeeps DEF PageStep
    <2>2. CASE CheckStep(h) \/ TransferStep(h)
      BY <2>2, LookKeeps, ClearInfoKeeps, AskPOAPKeeps, AskKeeps, UnfeatureKeeps, MoveKeeps
         DEF CheckStep, TransferStep
    <2>3. CASE RequestStep(h)
      BY <2>3, ValidateKeeps, ReadInfoKeeps, ReadNeedKeeps, FeatureKeeps DEF RequestStep
    <2>4. QED
      BY <1>7, <2>1, <2>2, <2>3 DEF HandStep
  <1>8. ASSUME NEW h \in Handlers, ListFails(h) \/ AskFails(h) \/ Abort(h) PROVE TransfersInv'
    BY <1>8, ListFailsKeeps, AskFailsKeeps
  <1>9. QED
    BY <1>1, <1>2, <1>3, <1>4, <1>5, <1>6, <1>7, <1>8 DEF Next

LEMMA TransfersHold == Spec => []TransfersInv
  BY InitTransfers, TransfersStep, PTL DEF Spec

\* The types of the claims, the caches, the featured POAPs and the handlers.
THEOREM TransferTypesHold == Spec => []TypeOK
  <1>1. TransfersInv => TypeOK
    BY DEF TransfersInv
  <1>2. QED
    BY <1>1, TransfersHold, PTL

\* However old the lists and infos in the caches are and however the page loads and
\* revalidations of all servers overlap, no claim is marked whose token never changed
\* hands, unless it got its token while its claimer's page was loading or POAP spells its
\* claimer with capitals.
THEOREM MarkedTransferred == Spec => []MarkedWereTransferred
  <1>1. TransfersInv => MarkedWereTransferred
    BY DEF TransfersInv, TypeOK, MarkedWereTransferred, Still, StillKept
  <1>2. QED
    BY <1>1, TransfersHold, PTL

\* A request that is about to revalidate a claim is of an address that had the claim at
\* some moment since the request began, however page loads and other requests move it.
THEOREM RevalidatorsHadIt == Spec => []RevalidatorsHad
  <1>1. TransfersInv => RevalidatorsHad
    BY DEF TransfersInv, RevalidatorsHad, RevalidatorTrue
  <1>2. QED
    BY <1>1, TransfersHold, PTL
=============================================================================
