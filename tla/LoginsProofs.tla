---------------------------- MODULE LoginsProofs ----------------------------
(* Proofs about Logins and Emails, for any sets of requests, logins,       *)
(* addresses and users: tokens keep the promise of RefreshTokens.          *)
EXTENDS Emails, TLAPS

\* The steps in which a request has taken a generation and not handed it out.
Holding == {"check", "wipe", "drop", "answer"}
Connecting == {"exchange", "link", "unlink"}
Answers(h) == {s \in sent : s.by = h}

\* A request at work has a login whose row is or was there, and a user before it links.
BusyHaveRows ==
    \A h \in Handlers :
        /\ hand[h].at \in Busy =>
              hand[h].login \in Lineages /\ authTokens[hand[h].login].row # "none"
        /\ hand[h].at = "link" => hand[h].user \in Users

\* A generation that is held has been taken, and by nobody else.
HeldWereTaken ==
    \A h \in Handlers : hand[h].at \in Holding =>
        /\ hand[h].generation <= authTokens[hand[h].login].generation
        /\ \A k \in Handlers : hand[k].at \in Holding /\ hand[k].login = hand[h].login
                               /\ hand[k].generation = hand[h].generation => k = h

AnsweredAreDone == \A h \in Handlers : Answers(h) # {} => hand[h].at = "done"

\* The generation of a login is past the tokens whose refresh has got that far.
RefreshedArePast ==
    \A h \in Handlers : hand[h].call = "refresh" =>
        /\ hand[h].at \notin Connecting
        /\ hand[h].at = "bump" => hand[h].token <= authTokens[hand[h].login].generation
        /\ hand[h].at \in Holding => hand[h].token < authTokens[hand[h].login].generation
        /\ Answers(h) # {} => hand[h].login \in Lineages
                              /\ hand[h].token < authTokens[hand[h].login].generation

TokensInv ==
    /\ TypeOK
    /\ BusyHaveRows
    /\ HeldWereTaken
    /\ AnsweredAreDone
    /\ RefreshedArePast
    /\ SpentTokensAreRefused

\* What every step does to the rows.
RowsGrow ==
    /\ \A l \in Lineages : authTokens[l].generation <= authTokens'[l].generation
    /\ \A l \in Lineages : authTokens[l].row # "none" => authTokens'[l].row # "none"

LEMMA IdleType == Idle \in Hand /\ Idle.at = "idle"
  BY DEF Idle, Hand, AllCalls, Providers, Copy, Nothing, None, Links, Unlinked

LEMMA InitTokens == Init => TokensInv
  <1> SUFFICES ASSUME Init PROVE TokensInv
    OBVIOUS
  <1>1. TypeOK
    <2>1. authTokens \in [Lineages -> Row]
      <3> DEFINE First == [row : {"none", "live"}, generation : {0}, expired : {FALSE}]
      <3>1. authTokens \in [Lineages -> First]
        BY DEF Init
      <3>2. ASSUME NEW r \in First PROVE r \in Row
        <4>1. r.expired \in BOOLEAN
          OBVIOUS
        <4>2. r = [row |-> r.row, generation |-> r.generation, expired |-> r.expired]
          OBVIOUS
        <4>3. r.row \in {"none", "live", "purged"} /\ r.generation \in Nat
          OBVIOUS
        <4>4. QED
          BY <4>1, <4>2, <4>3 DEF Row
      <3> HIDE DEF First
      <3>3. QED
        BY <3>1, <3>2
    <2>2. oauth \in [Providers -> [Users -> Tokens \cup {NoToken}]]
      BY DEF Init, Tokens
    <2>3. sent \subseteq Sent
      BY DEF Init, Sent
    <2>4. QED
      BY <2>1, <2>2, <2>3, IdleType DEF Init, TypeOK
  <1>2. \A h \in Handlers : hand[h] = Idle /\ Answers(h) = {}
    BY LoginsAssumption DEF Init, Answers
  <1>3. QED
    BY <1>1, <1>2 DEF TokensInv, BusyHaveRows, HeldWereTaken, AnsweredAreDone, RefreshedArePast,
                      SpentTokensAreRefused, Idle, Busy, Holding, Connecting

-----------------------------------------------------------------------------
(* Types.                                                                  *)

LEMMA SnapshotType ==
    ASSUME TypeOK, NEW a \in Addresses
    PROVE  Snapshot(a) \in Copy
  BY DEF Snapshot, Copy, TypeOK, Links

LEMMA NoneType == None \in [user : Users \cup {NoUser}, token : Tokens \cup {NoToken}]
  BY DEF None

LEMMA OverType ==
    ASSUME NEW q \in Hand, NEW how \in {"done", "dead"}
    PROVE  [Idle EXCEPT !.at = how, !.call = q.call, !.login = q.login, !.token = q.token,
                        !.spent = q.spent] \in Hand
  BY IdleType DEF Hand, Idle

LEMMA CheckedType ==
    ASSUME TypeOK, NEW h \in Handlers, hand[h].login \in Lineages
    PROVE  Checked(h) \in Copy
  <1>1. Snapshot(Owner[hand[h].login]) \in Copy
    BY SnapshotType, LoginsAssumption
  <1>2. hand[h].provider \in Providers /\ hand[h].user \in Users \cup {NoUser} /\ h \in Tokens
    BY DEF TypeOK, Hand, Tokens
  <1>3. QED
    BY <1>1, <1>2, NoneType DEF Checked, Copy

LEMMA NextCheckType ==
    ASSUME NEW q \in Hand, NEW names \in Links
    PROVE  NextCheck(q, names) \in Hand
  <1>1. [q.copy EXCEPT ![q.checking] = None] \in Copy
    BY NoneType DEF Hand, Copy
  <1>2. QED
    BY <1>1 DEF NextCheck, Hand, Busy, Providers

LEMMA EnterType ==
    ASSUME TypeOK, NEW l \in Lineages, Enter(l)
    PROVE  overlapped' \subseteq Addresses
  BY LoginsAssumption DEF Enter, TypeOK

-----------------------------------------------------------------------------
(* A request's step changes its own record.                                *)

LEMMA OneRequest ==
    ASSUME TokensInv, TypeOK', RowsGrow,
           NEW h \in Handlers, NEW r \in Hand, hand' = [hand EXCEPT ![h] = r],
           \A k \in Handlers \ {h} : Answers(k)' = Answers(k),
           r.at \in Busy => r.login \in Lineages /\ authTokens'[r.login].row # "none",
           r.at = "link" => r.user \in Users,
           r.at \in Holding =>
               /\ r.generation <= authTokens'[r.login].generation
               /\ \A k \in Handlers \ {h} :
                     hand[k].at \in Holding /\ hand[k].login = r.login
                         => hand[k].generation # r.generation,
           Answers(h)' # {} => r.at = "done",
           r.call = "refresh" =>
               /\ r.at \notin Connecting
               /\ r.at = "bump" => r.token <= authTokens'[r.login].generation
               /\ r.at \in Holding => r.token < authTokens'[r.login].generation
               /\ Answers(h)' # {} => r.login \in Lineages
                                      /\ r.token < authTokens'[r.login].generation,
           r.spent => r.at \in {"purge", "done", "dead"} /\ Answers(h)' = {}
    PROVE  TokensInv'
  <1>0. /\ hand'[h] = r
        /\ \A k \in Handlers \ {h} : hand'[k] = hand[k] /\ Answers(k)' = Answers(k)
        /\ \A k \in Handlers : hand[k] \in Hand
        /\ \A l \in Lineages : authTokens[l].generation \in Nat /\ authTokens'[l].generation \in Nat
        /\ \A k \in Handlers : hand[k].token \in Nat /\ hand[k].generation \in Nat
    BY DEF TokensInv, TypeOK, Hand, Row
  <1>1. BusyHaveRows'
    BY <1>0 DEF TokensInv, BusyHaveRows, RowsGrow
  <1>2. HeldWereTaken'
    <2> SUFFICES ASSUME NEW g \in Handlers, hand'[g].at \in Holding
                 PROVE  /\ hand'[g].generation <= authTokens'[hand'[g].login].generation
                        /\ \A k \in Handlers : hand'[k].at \in Holding
                               /\ hand'[k].login = hand'[g].login
                               /\ hand'[k].generation = hand'[g].generation => k = g
      BY DEF HeldWereTaken
    <2>1. CASE g = h
      BY <1>0, <2>1
    <2>2. CASE g # h
      <3>1. hand[g].at \in Busy
        BY <1>0, <2>2 DEF Holding, Busy
      <3>2. hand[g].login \in Lineages
        BY <3>1 DEF TokensInv, BusyHaveRows
      <3>3. hand[g].generation <= authTokens'[hand[g].login].generation
        BY <1>0, <2>2, <3>2 DEF TokensInv, HeldWereTaken, RowsGrow
      <3>4. QED
        BY <1>0, <2>2, <3>3 DEF TokensInv, HeldWereTaken
    <2>3. QED
      BY <2>1, <2>2
  <1>3. AnsweredAreDone'
    BY <1>0 DEF TokensInv, AnsweredAreDone
  <1>4. RefreshedArePast'
    <2> SUFFICES ASSUME NEW g \in Handlers, hand'[g].call = "refresh"
                 PROVE  /\ hand'[g].at \notin Connecting
                        /\ hand'[g].at = "bump" => hand'[g].token <= authTokens'[hand'[g].login].generation
                        /\ hand'[g].at \in Holding => hand'[g].token < authTokens'[hand'[g].login].generation
                        /\ Answers(g)' # {} => hand'[g].login \in Lineages
                               /\ hand'[g].token < authTokens'[hand'[g].login].generation
      BY DEF RefreshedArePast
    <2>1. CASE g = h
      BY <1>0, <2>1
    <2>2. CASE g # h
      <3>1. hand[g].at \in Holding \cup {"bump"} => hand[g].login \in Lineages
        BY DEF TokensInv, BusyHaveRows, Holding, Busy
      <3>2. QED
        BY <1>0, <2>2, <3>1 DEF TokensInv, RefreshedArePast, RowsGrow
    <2>3. QED
      BY <2>1, <2>2
  <1>5. SpentTokensAreRefused'
    BY <1>0 DEF TokensInv, SpentTokensAreRefused, Answers
  <1>6. QED
    BY <1>1, <1>2, <1>3, <1>4, <1>5 DEF TokensInv

\* Steps that leave the rows and the tokens sent as they are.
LEMMA SameRows ==
    ASSUME TokensInv, TypeOK', UNCHANGED <<authTokens, sent>>,
           NEW h \in Handlers, NEW r \in Hand, hand' = [hand EXCEPT ![h] = r],
           r.login = hand[h].login, r.call = hand[h].call, r.token = hand[h].token,
           r.spent = hand[h].spent,
           hand[h].at \in Busy,
           \/ r.at \in {"done", "dead"}
           \/ /\ r.at \in Busy /\ hand[h].at \notin {"bump", "purge"}
              /\ r.at \in Holding <=> hand[h].at \in Holding
              /\ r.at \in Connecting \cup {"bump"} => r.call # "refresh"
              /\ r.generation = hand[h].generation
              /\ r.at = "link" => r.user \in Users
    PROVE  TokensInv'
  <1>1. RowsGrow
    BY DEF RowsGrow, TokensInv, TypeOK, Row
  <1>2. \A k \in Handlers : Answers(k)' = Answers(k)
    BY DEF Answers
  <1>3. Answers(h) = {}
    BY DEF TokensInv, AnsweredAreDone, Busy
  <1>4. hand[h].spent => hand[h].at = "purge"
    BY DEF TokensInv, SpentTokensAreRefused, Busy
  <1>5. CASE r.at \in {"done", "dead"}
    BY <1>1, <1>2, <1>3, <1>4, <1>5, OneRequest DEF Holding, Busy, Connecting
  <1>6. CASE /\ r.at \in Busy /\ hand[h].at \notin {"bump", "purge"}
             /\ r.at \in Holding <=> hand[h].at \in Holding
             /\ r.at \in Connecting \cup {"bump"} => r.call # "refresh"
             /\ r.generation = hand[h].generation
             /\ r.at = "link" => r.user \in Users
    <2>1. r.login \in Lineages /\ authTokens'[r.login].row # "none"
      BY <1>6 DEF TokensInv, BusyHaveRows
    <2>2. r.at \in Holding =>
              /\ r.generation <= authTokens'[r.login].generation
              /\ \A k \in Handlers \ {h} :
                    hand[k].at \in Holding /\ hand[k].login = r.login
                        => hand[k].generation # r.generation
      BY <1>6 DEF TokensInv, HeldWereTaken
    <2>3. r.call = "refresh" =>
              /\ r.at \notin Connecting
              /\ r.at = "bump" => r.token <= authTokens'[r.login].generation
              /\ r.at \in Holding => r.token < authTokens'[r.login].generation
      BY <1>6 DEF TokensInv, RefreshedArePast
    <2>4. QED
      BY <1>1, <1>2, <1>3, <1>4, <1>6, <2>1, <2>2, <2>3, OneRequest
  <1>7. QED
    BY <1>5, <1>6

-----------------------------------------------------------------------------
(* The steps, one by one.                                                  *)

LEMMA LoginTokens ==
    ASSUME TokensInv, NEW h \in Handlers, NEW l \in Lineages, Login(h, l)
    PROVE  TokensInv'
  <1> DEFINE r == [Idle EXCEPT !.at = "check", !.call = "login", !.login = l,
                               !.copy = Snapshot(Owner[l])]
  <1>1. /\ hand' = [hand EXCEPT ![h] = r]
        /\ authTokens' = [authTokens EXCEPT ![l].row = "live"]
        /\ hand[h].at = "idle" /\ authTokens[l].row = "none"
    BY DEF Login
  <1>2. r \in Hand
    <2>1. Snapshot(Owner[l]) \in Copy
      BY SnapshotType, LoginsAssumption DEF TokensInv
    <2>2. QED
      BY <2>1, IdleType DEF Hand, Idle, Busy, AllCalls
  <1>3. TypeOK'
    <2>1. overlapped' \subseteq Addresses
      BY EnterType DEF TokensInv, Login
    <2>2. hand' \in [Handlers -> Hand] /\ authTokens' \in [Lineages -> Row]
      BY <1>1, <1>2 DEF TokensInv, TypeOK, Row
    <2>3. QED
      BY <2>1, <2>2 DEF TokensInv, TypeOK, Login
  <1>4. RowsGrow /\ authTokens'[l].row = "live" /\ authTokens'[l].generation \in Nat
    BY <1>1 DEF RowsGrow, TokensInv, TypeOK, Row
  <1>5. \A k \in Handlers : Answers(k)' = Answers(k)
    BY DEF Login, Answers
  <1>6. Answers(h) = {}
    BY <1>1 DEF TokensInv, AnsweredAreDone
  <1>7. \A k \in Handlers : hand[k].at \in Holding => hand[k].login # l
    BY <1>1 DEF TokensInv, BusyHaveRows, Holding, Busy
  <1>8. /\ r.at = "check" /\ r.call = "login" /\ r.login = l /\ r.generation = 0
        /\ ~r.spent
    BY DEF Idle
  <1> HIDE DEF r
  <1>9. Answers(h)' = {}
    BY <1>5, <1>6
  <1>10. \A k \in Handlers \ {h} : Answers(k)' = Answers(k)
    BY <1>5
  <1>11. r.generation <= authTokens'[r.login].generation
    BY <1>4, <1>8
  <1>12. QED
    BY <1>1, <1>2, <1>3, <1>4, <1>7, <1>8, <1>9, <1>10, <1>11, OneRequest

LEMMA RefreshTokensStay ==
    ASSUME TokensInv, NEW h \in Handlers, NEW s \in sent, Refresh(h, s)
    PROVE  TokensInv'
  <1> DEFINE l == s.login
             g == s.generation
             r == [Idle EXCEPT
                     !.at = IF authTokens[l].row # "live" THEN "done"
                            ELSE IF Purgeable(l, g) THEN "purge" ELSE "bump",
                     !.call = "refresh", !.login = l, !.token = g,
                     !.spent = <<l, g>> \in Spent]
  <1>1. /\ hand' = [hand EXCEPT ![h] = r] /\ hand[h].at = "idle"
        /\ UNCHANGED <<authTokens, sent>>
    BY DEF Refresh, db
  <1>2. l \in Lineages /\ g \in Nat
    BY DEF TokensInv, TypeOK, Sent
  <1>3. /\ r.at \in {"done", "purge", "bump"} /\ r.login = l /\ r.token = g
        /\ r.call = "refresh" /\ r.spent = (<<l, g>> \in Spent)
        /\ r.at \in {"purge", "bump"} => authTokens[l].row = "live"
        /\ r.at = "bump" => g = authTokens[l].generation
    BY DEF Idle, Purgeable
  <1>4. r \in Hand
    <2>1. (<<l, g>> \in Spent) \in BOOLEAN
      OBVIOUS
    <2>2. QED
      BY <1>2, <2>1, IdleType DEF Hand, Idle, Busy, AllCalls
  <1> HIDE DEF r, l, g
  <1>5. TypeOK'
    <2>1. Enter(l) /\ replayed' \subseteq Lineages
      BY <1>2 DEF Refresh, TokensInv, TypeOK, l
    <2>2. overlapped' \subseteq Addresses
      BY <2>1, <1>2, EnterType DEF TokensInv
    <2>3. hand' \in [Handlers -> Hand]
      BY <1>1, <1>4 DEF TokensInv, TypeOK
    <2>4. QED
      BY <2>1, <2>2, <2>3 DEF TokensInv, TypeOK, Refresh, db
  <1>6. RowsGrow
    BY <1>1 DEF RowsGrow, TokensInv, TypeOK, Row
  <1>7. \A k \in Handlers : Answers(k)' = Answers(k)
    BY <1>1 DEF Answers
  <1>8. Answers(h) = {}
    BY <1>1 DEF TokensInv, AnsweredAreDone
  <1>9. <<l, g>> \in Spent => g < authTokens[l].generation
    <2> SUFFICES ASSUME <<l, g>> \in Spent PROVE g < authTokens[l].generation
      OBVIOUS
    <2>1. PICK k \in Handlers : /\ <<hand[k].login, hand[k].token>> = <<l, g>>
                                /\ hand[k].call = "refresh" /\ Answers(k) # {}
      BY DEF Spent, Answers
    <2>2. QED
      BY <2>1 DEF TokensInv, RefreshedArePast
  <1>10. authTokens[l].generation \in Nat
    BY <1>2 DEF TokensInv, TypeOK, Row
  <1>11. r.spent => r.at # "bump"
    <2>1. r.at = "bump" => <<l, g>> \notin Spent
      BY <1>2, <1>3, <1>9, <1>10
    <2>2. QED
      BY <1>3, <2>1, Zenon
  <1>12. r.spent => r.at \in {"purge", "done", "dead"}
    BY <1>3, <1>11, Zenon
  <1>13. Answers(h)' = {}
    BY <1>7, <1>8
  <1>14. \A k \in Handlers \ {h} : Answers(k)' = Answers(k)
    BY <1>7
  <1>15. r.at \notin Holding \cup Connecting \cup {"link"}
    BY <1>3 DEF Holding, Connecting
  <1>16. r.at \in Busy => r.login \in Lineages /\ authTokens'[r.login].row # "none"
    BY <1>1, <1>2, <1>3 DEF Busy
  <1>17. r.at = "bump" => r.token <= authTokens'[r.login].generation
    BY <1>1, <1>3, <1>10
  <1>18. QED
    BY <1>1, <1>4, <1>5, <1>6, <1>12, <1>13, <1>14, <1>15, <1>16, <1>17, OneRequest

LEMMA PurgeTokens ==
    ASSUME TokensInv, NEW h \in Handlers, Purge(h)
    PROVE  TokensInv'
  <1> DEFINE l == hand[h].login
             r == [Idle EXCEPT !.at = "done", !.call = hand[h].call, !.login = hand[h].login,
                               !.token = hand[h].token, !.spent = hand[h].spent]
  <1>1. /\ hand' = [hand EXCEPT ![h] = r] /\ hand[h].at = "purge"
        /\ authTokens' = [authTokens EXCEPT ![l].row = "purged"]
        /\ UNCHANGED sent
    BY DEF Purge, End, Over
  <1>2. hand[h] \in Hand /\ l \in Lineages
    BY <1>1 DEF TokensInv, TypeOK, BusyHaveRows, Busy
  <1>3. r \in Hand
    BY <1>2, OverType
  <1>4. TypeOK'
    <2>1. hand' \in [Handlers -> Hand] /\ authTokens' \in [Lineages -> Row]
      BY <1>1, <1>2, <1>3 DEF TokensInv, TypeOK, Row
    <2>2. QED
      BY <2>1 DEF TokensInv, TypeOK, Purge, history
  <1>5. RowsGrow
    BY <1>1, <1>2 DEF RowsGrow, TokensInv, TypeOK, Row
  <1>6. \A k \in Handlers : Answers(k)' = Answers(k)
    BY <1>1 DEF Answers
  <1>7. Answers(h) = {}
    BY <1>1 DEF TokensInv, AnsweredAreDone
  <1>8. r.at = "done"
    BY DEF Idle
  <1> HIDE DEF r
  <1>9. QED
    BY <1>1, <1>3, <1>4, <1>5, <1>6, <1>7, <1>8, OneRequest DEF Busy, Holding, Connecting

\* Steps that end a request, as Over does.
LEMMA OverTokens ==
    ASSUME TokensInv, UNCHANGED <<db, sent, named, overlapped, replayed, held>>,
           NEW h \in Handlers, hand[h].at \in Busy, NEW how \in {"done", "dead"}, Over(h, how),
           cut' \subseteq Addresses
    PROVE  TokensInv'
  <1> DEFINE r == [Idle EXCEPT !.at = how, !.call = hand[h].call, !.login = hand[h].login,
                               !.token = hand[h].token, !.spent = hand[h].spent]
  <1>1. hand' = [hand EXCEPT ![h] = r]
    BY DEF Over
  <1>2. r \in Hand
    BY OverType DEF TokensInv, TypeOK
  <1>3. /\ r.at = how /\ r.login = hand[h].login /\ r.call = hand[h].call
        /\ r.token = hand[h].token /\ r.spent = hand[h].spent
    BY DEF Idle
  <1> HIDE DEF r
  <1>4. TypeOK'
    BY <1>1, <1>2 DEF TokensInv, TypeOK, db
  <1>5. UNCHANGED <<authTokens, sent>>
    BY DEF db
  <1>6. r.at \in {"done", "dead"}
    BY <1>3
  <1>7. QED
    BY <1>1, <1>2, <1>3, <1>4, <1>5, <1>6, SameRows

LEMMA ThrowTokens ==
    ASSUME TokensInv, UNCHANGED <<db, sent, named, overlapped, replayed, held>>,
           NEW h \in Handlers, hand[h].at \in Busy, Throw(h)
    PROVE  TokensInv'
  <1>1. hand[h].login \in Lineages
    BY DEF TokensInv, BusyHaveRows
  <1>2. cut' \subseteq Addresses
    BY <1>1, LoginsAssumption DEF Throw, TokensInv, TypeOK
  <1>3. QED
    BY <1>2, OverTokens DEF Throw

\* Steps in which a request only goes on.
LEMMA GoOnTokens ==
    ASSUME TokensInv, UNCHANGED <<authTokens, sent>>,
           oauth' \in [Providers -> [Users -> Tokens \cup {NoToken}]],
           link' \in [Addresses -> Links],
           held' \subseteq Addresses \X Providers \X Users,
           UNCHANGED <<named, overlapped, cut, replayed>>,
           NEW h \in Handlers, hand[h].at \in Connecting \cup Holding,
           NEW r \in Hand, hand' = [hand EXCEPT ![h] = r],
           r.login = hand[h].login, r.call = hand[h].call, r.token = hand[h].token,
           r.spent = hand[h].spent, r.generation = hand[h].generation,
           hand[h].at \in Connecting => r.at \in Connecting \cup {"bump"},
           hand[h].at \in Holding => r.at \in Holding,
           r.at = "link" => r.user \in Users
    PROVE  TokensInv'
  <1>1. TypeOK'
    BY DEF TokensInv, TypeOK
  <1>2. hand[h].at \in Connecting => hand[h].call # "refresh"
    BY DEF TokensInv, RefreshedArePast
  <1>3. hand[h].at \in Busy /\ r.at \in Busy /\ hand[h].at \notin {"bump", "purge"}
    BY DEF Busy, Connecting, Holding
  <1>4. r.at \in Holding <=> hand[h].at \in Holding
    BY DEF Connecting, Holding
  <1>5. r.at \in Connecting \cup {"bump"} => r.call # "refresh"
    BY <1>2 DEF Connecting, Holding
  <1>6. QED
    BY <1>1, <1>3, <1>4, <1>5, SameRows

LEMMA UpsertUserTokens ==
    ASSUME TokensInv, NEW h \in Handlers, UpsertUser(h)
    PROVE  TokensInv'
  <1>1. hand[h].at = "exchange" /\ UNCHANGED <<authTokens, link, sent, history>>
    BY DEF UpsertUser
  <1>2. CASE End(h) /\ UNCHANGED oauth
    <2>1. cut' \subseteq Addresses
      BY <1>1 DEF TokensInv, TypeOK, history
    <2>2. QED
      BY <1>1, <1>2, <2>1, OverTokens DEF End, Busy, db, history
  <1>3. ASSUME NEW u \in Users, oauth' = [oauth EXCEPT ![hand[h].provider][u] = h],
               hand' = [hand EXCEPT ![h] = [@ EXCEPT !.at = "link", !.user = u]]
        PROVE  TokensInv'
    <2> DEFINE r == [hand[h] EXCEPT !.at = "link", !.user = u]
    <2>1. hand[h] \in Hand
      BY DEF TokensInv, TypeOK
    <2>2. r \in Hand
      BY <2>1 DEF Hand, Busy
    <2>3. /\ r.at = "link" /\ r.login = hand[h].login /\ r.call = hand[h].call
          /\ r.token = hand[h].token /\ r.spent = hand[h].spent
          /\ r.generation = hand[h].generation /\ r.user = u
      BY <2>1 DEF Hand
    <2>4. hand' = [hand EXCEPT ![h] = r]
      BY <1>3
    <2> HIDE DEF r
    <2>5. oauth' \in [Providers -> [Users -> Tokens \cup {NoToken}]]
      BY <1>3, <2>1 DEF TokensInv, TypeOK, Tokens
    <2>6. /\ link' \in [Addresses -> Links]
          /\ held' \subseteq Addresses \X Providers \X Users
      BY <1>1 DEF TokensInv, TypeOK, history
    <2>7. hand[h].at \in Connecting /\ hand[h].at \notin Holding /\ r.at \in Connecting
      BY <1>1, <2>3 DEF Connecting, Holding
    <2>8. QED
      BY <1>1, <2>2, <2>3, <2>4, <2>5, <2>6, <2>7, GoOnTokens DEF history
  <1>4. QED
    BY <1>2, <1>3 DEF UpsertUser

\* The record that Goto makes.
LEMMA GotoType ==
    ASSUME NEW q \in Hand, NEW step \in Busy
    PROVE  LET r == [q EXCEPT !.at = step] IN
           /\ r \in Hand /\ r.at = step /\ r.login = q.login /\ r.call = q.call
           /\ r.token = q.token /\ r.spent = q.spent /\ r.generation = q.generation
  BY DEF Hand

LEMMA GotoTokens ==
    ASSUME TokensInv, UNCHANGED <<authTokens, sent>>,
           oauth' \in [Providers -> [Users -> Tokens \cup {NoToken}]],
           link' \in [Addresses -> Links],
           held' \subseteq Addresses \X Providers \X Users,
           UNCHANGED <<named, overlapped, cut, replayed>>,
           NEW h \in Handlers, NEW step \in Busy \ {"link"}, Goto(h, step),
           \/ hand[h].at \in Connecting /\ step \in Connecting \cup {"bump"}
           \/ hand[h].at \in Holding /\ step \in Holding
    PROVE  TokensInv'
  <1> DEFINE r == [hand[h] EXCEPT !.at = step]
  <1>1. hand[h] \in Hand
    BY DEF TokensInv, TypeOK
  <1>2. /\ r \in Hand /\ r.at = step /\ r.login = hand[h].login /\ r.call = hand[h].call
        /\ r.token = hand[h].token /\ r.spent = hand[h].spent
        /\ r.generation = hand[h].generation
    BY <1>1, GotoType
  <1>3. hand' = [hand EXCEPT ![h] = r]
    BY DEF Goto
  <1> HIDE DEF r
  <1>4. hand[h].at \in Connecting => hand[h].at \notin Holding
    BY DEF Connecting, Holding
  <1>5. QED
    BY <1>2, <1>3, <1>4, GoOnTokens

LEMMA LinkTokens ==
    ASSUME TokensInv, NEW h \in Handlers, Link(h) \/ Unlink(h)
    PROVE  TokensInv'
  <1>1. hand[h].at \in {"link", "unlink"} /\ hand[h] \in Hand
    BY DEF TokensInv, TypeOK, Link, Unlink
  <1>2. hand[h].login \in Lineages
    BY <1>1 DEF TokensInv, BusyHaveRows, Busy
  <1>3. Owner[hand[h].login] \in Addresses /\ hand[h].provider \in Providers
    BY <1>1, <1>2, LoginsAssumption DEF Hand
  <1>4. CASE Unlink(h)
    <2>1. link' \in [Addresses -> Links]
      BY <1>3, <1>4 DEF TokensInv, TypeOK, Unlink, Links
    <2>2. QED
      BY <1>1, <1>4, <2>1, GotoTokens
        DEF Unlink, Connecting, Busy, history, TokensInv, TypeOK
  <1>5. CASE Link(h)
    <2>1. hand[h].user \in Users
      BY <1>1, <1>5 DEF TokensInv, BusyHaveRows, Link
    <2>2. link' \in [Addresses -> Links]
      BY <1>3, <1>5, <2>1 DEF TokensInv, TypeOK, Link, Links
    <2>3. held' \subseteq Addresses \X Providers \X Users
      BY <1>3, <1>5, <2>1 DEF TokensInv, TypeOK, Link
    <2>4. QED
      BY <1>1, <1>5, <2>2, <2>3, GotoTokens
        DEF Link, Connecting, Busy, TokensInv, TypeOK
  <1>6. QED
    BY <1>4, <1>5

\* The beginnings of a connection and of a disconnection.
LEMMA BeginTokens ==
    ASSUME TokensInv, NEW h \in Handlers, NEW l \in Lineages, NEW p \in Providers,
           Connect(h, l, p) \/ Disconnect(h, l, p)
    PROVE  TokensInv'
  <1>1. PICK at \in {"exchange", "unlink", "done"}, call \in {"connect", "disconnect"} :
            /\ hand' = [hand EXCEPT ![h] = [Idle EXCEPT !.at = at, !.call = call,
                                                        !.login = l, !.provider = p]]
            /\ at # "done" => authTokens[l].row = "live"
    BY DEF Connect, Disconnect
  <1> DEFINE r == [Idle EXCEPT !.at = at, !.call = call, !.login = l, !.provider = p]
  <1>2. hand' = [hand EXCEPT ![h] = r]
    BY <1>1
  <1>3. r \in Hand
    BY IdleType DEF Hand, Idle, Busy, AllCalls
  <1>4. r.at = at /\ r.call = call /\ r.login = l /\ ~r.spent
    BY DEF Idle
  <1> HIDE DEF r
  <1>5. UNCHANGED <<authTokens, sent>> /\ hand[h].at = "idle" /\ Enter(l)
    BY DEF Connect, Disconnect, db
  <1>6. TypeOK'
    <2>1. overlapped' \subseteq Addresses
      BY <1>5, EnterType DEF TokensInv
    <2>2. hand' \in [Handlers -> Hand]
      BY <1>2, <1>3 DEF TokensInv, TypeOK
    <2>3. QED
      BY <2>1, <2>2 DEF TokensInv, TypeOK, Connect, Disconnect, db
  <1>7. RowsGrow
    BY <1>5 DEF RowsGrow, TokensInv, TypeOK, Row
  <1>8. \A k \in Handlers : Answers(k)' = Answers(k)
    BY <1>5 DEF Answers
  <1>9. Answers(h)' = {}
    BY <1>5, <1>8 DEF TokensInv, AnsweredAreDone
  <1>10. \A k \in Handlers \ {h} : Answers(k)' = Answers(k)
    BY <1>8
  <1>11. r.at \notin Holding \cup {"link"} /\ r.call # "refresh"
    BY <1>4 DEF Holding
  <1>12. r.at \in Busy => r.login \in Lineages /\ authTokens'[r.login].row # "none"
    BY <1>1, <1>4, <1>5 DEF Busy
  <1>13. QED
    BY <1>2, <1>3, <1>4, <1>6, <1>7, <1>9, <1>10, <1>11, <1>12, OneRequest

LEMMA AfterCheckTokens ==
    ASSUME TokensInv, UNCHANGED <<authTokens, sent>>,
           oauth' \in [Providers -> [Users -> Tokens \cup {NoToken}]],
           link' \in [Addresses -> Links],
           UNCHANGED <<named, overlapped, cut, replayed, held>>,
           NEW h \in Handlers, hand[h].at \in Holding,
           NEW names \in Links, AfterCheck(h, names)
    PROVE  TokensInv'
  <1> DEFINE r == NextCheck(hand[h], names)
  <1>1. hand[h] \in Hand /\ held' \subseteq Addresses \X Providers \X Users
    BY DEF TokensInv, TypeOK
  <1>2. r \in Hand
    BY <1>1, NextCheckType
  <1>3. hand' = [hand EXCEPT ![h] = r]
    BY DEF AfterCheck
  <1>4. /\ r.login = hand[h].login /\ r.call = hand[h].call
        /\ r.token = hand[h].token /\ r.spent = hand[h].spent
        /\ r.generation = hand[h].generation /\ r.at \in Holding \ {"link"}
    BY <1>1 DEF NextCheck, Hand, Holding
  <1> HIDE DEF r
  <1>5. hand[h].at \notin Connecting /\ r.at # "link"
    BY <1>4 DEF Connecting, Holding
  <1>6. QED
    BY <1>1, <1>2, <1>3, <1>4, <1>5, GoOnTokens

LEMMA CheckTokens ==
    ASSUME TokensInv, NEW h \in Handlers, Check(h)
    PROVE  TokensInv'
  <1> DEFINE p == hand[h].checking
             c == hand[h].copy[p]
  <1>1. /\ hand[h].at = "check" /\ hand[h].at \in Holding /\ hand[h].at \in Busy
        /\ hand[h] \in Hand
        /\ UNCHANGED <<authTokens, oauth, link, sent, named, overlapped, replayed, held>>
    BY DEF Check, Holding, Busy, TokensInv, TypeOK, db
  <1>2. p \in Providers /\ hand[h].names \in Links /\ c.user \in Users \cup {NoUser}
    BY <1>1 DEF Hand, Copy
  <1>3. /\ oauth' \in [Providers -> [Users -> Tokens \cup {NoToken}]]
        /\ link' \in [Addresses -> Links]
        /\ held' \subseteq Addresses \X Providers \X Users
    BY <1>1 DEF TokensInv, TypeOK
  <1>4. ASSUME NEW names \in Links, AfterCheck(h, names), UNCHANGED cut
        PROVE  TokensInv'
    BY <1>1, <1>3, <1>4, AfterCheckTokens
  <1>5. [hand[h].names EXCEPT ![p] = c.user] \in Links
    BY <1>2 DEF Links
  <1>6. CASE Goto(h, "wipe") /\ UNCHANGED cut
    BY <1>1, <1>3, <1>6, GotoTokens DEF Busy, Holding
  <1>7. CASE Throw(h)
    BY <1>1, <1>7, ThrowTokens DEF db
  <1> HIDE DEF p, c
  <1>8. QED
    BY <1>2, <1>4, <1>5, <1>6, <1>7 DEF Check, p, c

LEMMA WipeTokens ==
    ASSUME TokensInv, NEW h \in Handlers, Wipe(h) \/ Drop(h)
    PROVE  TokensInv'
  <1>1. /\ hand[h].at \in {"wipe", "drop"} /\ hand[h].at \in Holding /\ hand[h] \in Hand
        /\ UNCHANGED <<authTokens, sent, named, overlapped, cut, replayed, held>>
    BY DEF Wipe, Drop, Holding, TokensInv, TypeOK, history
  <1>2. hand[h].login \in Lineages
    BY <1>1 DEF TokensInv, BusyHaveRows, Busy
  <1>3. Owner[hand[h].login] \in Addresses /\ hand[h].checking \in Providers
        /\ hand[h].names \in Links
    BY <1>1, <1>2, LoginsAssumption DEF Hand
  <1>4. held' \subseteq Addresses \X Providers \X Users
    BY <1>1 DEF TokensInv, TypeOK
  <1>5. CASE Wipe(h)
    <2>1. oauth' \in [Providers -> [Users -> Tokens \cup {NoToken}]]
      BY <1>3, <1>5 DEF TokensInv, TypeOK, Wipe
    <2>2. link' \in [Addresses -> Links]
      BY <1>5 DEF TokensInv, TypeOK, Wipe
    <2>3. QED
      BY <1>1, <1>4, <1>5, <2>1, <2>2, GotoTokens DEF Wipe, Holding, Busy
  <1>6. CASE Drop(h)
    <2>1. oauth' \in [Providers -> [Users -> Tokens \cup {NoToken}]]
      BY <1>6 DEF TokensInv, TypeOK, Drop
    <2>2. link' \in [Addresses -> Links]
      BY <1>3, <1>6 DEF TokensInv, TypeOK, Drop, Links
    <2>3. QED
      BY <1>1, <1>3, <1>6, <2>1, <2>2, AfterCheckTokens DEF Drop
  <1>7. QED
    BY <1>5, <1>6

LEMMA BumpTokens ==
    ASSUME TokensInv, NEW h \in Handlers, Bump(h)
    PROVE  TokensInv'
  <1> DEFINE l == hand[h].login
             r == [hand[h] EXCEPT !.at = "check", !.generation = Increment(h, l),
                                  !.copy = Checked(h)]
  <1>1. /\ hand[h].at = "bump" /\ hand[h].at \in Busy /\ hand[h] \in Hand /\ l \in Lineages
        /\ UNCHANGED <<oauth, link, sent, named, overlapped, replayed, held>>
    BY DEF Bump, Busy, TokensInv, TypeOK, BusyHaveRows
  <1>2. CASE authTokens[l].row # "live"
    <2>1. (End(h) /\ UNCHANGED cut) \/ Throw(h)
      BY <1>2 DEF Bump
    <2>2. UNCHANGED authTokens
      BY <1>2 DEF Bump
    <2>3. cut' = cut => cut' \subseteq Addresses
      BY DEF TokensInv, TypeOK
    <2>4. QED
      BY <1>1, <2>1, <2>2, <2>3, OverTokens, ThrowTokens DEF End, db
  <1>3. CASE authTokens[l].row = "live"
    <2>1. /\ authTokens' = [authTokens EXCEPT ![l].generation = authTokens[l].generation + 1]
          /\ hand' = [hand EXCEPT ![h] = r]
          /\ UNCHANGED cut
      BY <1>3 DEF Bump, Increment
    <2>2. authTokens[l].generation \in Nat /\ authTokens[l] \in Row
      BY <1>1 DEF TokensInv, TypeOK, Row
    <2>3. r \in Hand
      <3>1. Checked(h) \in Copy
        BY <1>1, CheckedType DEF TokensInv
      <3>2. Increment(h, l) \in Nat
        BY <2>2 DEF Increment
      <3>3. QED
        BY <1>1, <3>1, <3>2 DEF Hand, Busy
    <2>4. /\ r.at = "check" /\ r.generation = authTokens[l].generation + 1
          /\ r.login = l /\ r.call = hand[h].call /\ r.token = hand[h].token
          /\ r.spent = hand[h].spent
      BY <1>1 DEF Hand, Increment
    <2> HIDE DEF r, l
    <2>5. /\ authTokens' \in [Lineages -> Row]
          /\ authTokens'[l].generation = authTokens[l].generation + 1
          /\ authTokens'[l].row = "live"
          /\ RowsGrow
      BY <1>1, <1>3, <2>1, <2>2 DEF TokensInv, TypeOK, Row, RowsGrow
    <2>6. TypeOK'
      <3>1. hand' \in [Handlers -> Hand]
        BY <2>1, <2>3 DEF TokensInv, TypeOK
      <3>2. QED
        BY <1>1, <2>1, <2>5, <3>1 DEF TokensInv, TypeOK
    <2>7. \A k \in Handlers : Answers(k)' = Answers(k)
      BY <1>1 DEF Answers
    <2>8. Answers(h)' = {} /\ ~hand[h].spent
      BY <1>1, <2>7 DEF TokensInv, AnsweredAreDone, SpentTokensAreRefused
    <2>9. ~r.spent
      BY <2>4, <2>8, Zenon
    <2>10. \A k \in Handlers \ {h} : Answers(k)' = Answers(k)
      BY <2>7
    <2>11. \A k \in Handlers : hand[k].at \in Holding /\ hand[k].login = r.login
                                   => hand[k].generation # r.generation
      <3>1. \A k \in Handlers : hand[k].generation \in Nat
        BY DEF TokensInv, TypeOK, Hand
      <3>2. QED
        BY <2>2, <2>4, <3>1 DEF TokensInv, HeldWereTaken
    <2>12. r.call = "refresh" => r.token < authTokens'[r.login].generation
      <3>1. hand[h].token \in Nat
        BY <1>1 DEF Hand
      <3>2. hand[h].call = "refresh" => hand[h].token <= authTokens[l].generation
        BY <1>1 DEF TokensInv, RefreshedArePast, l
      <3>3. QED
        BY <2>2, <2>4, <2>5, <3>1, <3>2
    <2>13. r.at \notin Connecting \cup {"link", "bump"}
      BY <2>4 DEF Connecting
    <2>14. r.generation <= authTokens'[r.login].generation
      BY <2>2, <2>4, <2>5
    <2>15. r.login \in Lineages /\ authTokens'[r.login].row # "none"
      BY <1>1, <2>4, <2>5
    <2>16. QED
      BY <2>1, <2>3, <2>5, <2>6, <2>8, <2>9, <2>10, <2>11, <2>12, <2>13, <2>14, <2>15,
         OneRequest
  <1>4. QED
    BY <1>2, <1>3

LEMMA AnswerTokens ==
    ASSUME TokensInv, NEW h \in Handlers, Answer(h)
    PROVE  TokensInv'
  <1> DEFINE l == hand[h].login
             new == [by |-> h, login |-> hand[h].login, generation |-> hand[h].generation]
             r == [Idle EXCEPT !.at = "done", !.call = hand[h].call, !.login = hand[h].login,
                               !.token = hand[h].token, !.spent = hand[h].spent]
  <1>1. /\ hand[h].at = "answer" /\ hand[h].at \in Busy /\ hand[h].at \in Holding
        /\ hand[h] \in Hand /\ l \in Lineages
        /\ hand' = [hand EXCEPT ![h] = r] /\ sent' = sent \cup {new}
        /\ UNCHANGED <<authTokens, oauth, link, overlapped, cut, replayed, held>>
    BY DEF Answer, End, Over, Busy, Holding, TokensInv, TypeOK, BusyHaveRows, db
  <1>2. r \in Hand
    BY <1>1, OverType
  <1>3. /\ r.at = "done" /\ r.login = l /\ r.call = hand[h].call
        /\ r.token = hand[h].token /\ r.spent = hand[h].spent
    BY DEF Idle
  <1> HIDE DEF r
  <1>4. TypeOK'
    <2>1. new \in Sent
      BY <1>1 DEF Sent, Hand
    <2>2. Owner[l] \in Addresses /\ hand[h].names \in Links
      BY <1>1, LoginsAssumption DEF Hand
    <2>3. named' \in [Addresses -> Links]
      BY <2>2 DEF Answer, TokensInv, TypeOK
    <2>4. hand' \in [Handlers -> Hand]
      BY <1>1, <1>2 DEF TokensInv, TypeOK
    <2>5. sent' \subseteq Sent
      BY <1>1, <2>1 DEF TokensInv, TypeOK
    <2>6. QED
      BY <1>1, <2>3, <2>4, <2>5 DEF TokensInv, TypeOK
  <1>5. RowsGrow
    BY <1>1 DEF RowsGrow, TokensInv, TypeOK, Row
  <1>6. \A k \in Handlers \ {h} : Answers(k)' = Answers(k)
    BY <1>1 DEF Answers
  <1>7. ~hand[h].spent
    BY <1>1 DEF TokensInv, SpentTokensAreRefused
  <1>8. ~r.spent
    BY <1>3, <1>7, Zenon
  <1>9. r.call = "refresh" => r.login \in Lineages /\ r.token < authTokens'[r.login].generation
    BY <1>1, <1>3 DEF TokensInv, RefreshedArePast
  <1>10. r.at \notin Busy \cup Holding \cup Connecting \cup {"link", "bump"}
    BY <1>3 DEF Busy, Holding, Connecting
  <1>11. QED
    BY <1>1, <1>2, <1>3, <1>4, <1>5, <1>6, <1>8, <1>9, <1>10, OneRequest

LEMMA ExpireTokens ==
    ASSUME TokensInv, NEW l \in Lineages, Expire(l)
    PROVE  TokensInv'
  <1>1. /\ \A m \in Lineages : authTokens'[m].row = authTokens[m].row
                               /\ authTokens'[m].generation = authTokens[m].generation
        /\ authTokens' \in [Lineages -> Row]
    BY DEF Expire, TokensInv, TypeOK, Row
  <1>2. UNCHANGED <<oauth, link, sent, hand, history>>
    BY DEF Expire
  <1>3. TypeOK'
    BY <1>1, <1>2 DEF TokensInv, TypeOK, history
  <1>4. \A k \in Handlers : Answers(k)' = Answers(k)
    BY <1>2 DEF Answers
  <1>5. BusyHaveRows' /\ HeldWereTaken'
    BY <1>1, <1>2 DEF TokensInv, BusyHaveRows, HeldWereTaken, Holding, Busy
  <1>6. AnsweredAreDone' /\ SpentTokensAreRefused'
    BY <1>2, <1>4 DEF TokensInv, AnsweredAreDone, SpentTokensAreRefused
  <1>7. RefreshedArePast'
    BY <1>1, <1>2, <1>4, <1>5 DEF TokensInv, RefreshedArePast, BusyHaveRows, Holding, Busy
  <1>8. QED
    BY <1>3, <1>5, <1>6, <1>7 DEF TokensInv

LEMMA TokensInductive == TokensInv /\ [Next]_loginVars => TokensInv'
  <1> SUFFICES ASSUME TokensInv, [Next]_loginVars PROVE TokensInv'
    OBVIOUS
  <1>1. ASSUME NEW h \in Handlers, LoginStep(h) PROVE TokensInv'
    <2>1. ASSUME NEW l \in Lineages, Login(h, l) PROVE TokensInv'
      BY <2>1, LoginTokens
    <2>2. ASSUME NEW l \in Lineages, NEW p \in Providers,
                 Connect(h, l, p) \/ Disconnect(h, l, p)
          PROVE  TokensInv'
      BY <2>2, BeginTokens
    <2>3. ASSUME NEW s \in sent, Refresh(h, s) PROVE TokensInv'
      BY <2>3, RefreshTokensStay
    <2>4. CASE UpsertUser(h)
      BY <2>4, UpsertUserTokens
    <2>5. CASE Link(h) \/ Unlink(h)
      BY <2>5, LinkTokens
    <2>6. CASE Purge(h)
      BY <2>6, PurgeTokens
    <2>7. CASE Bump(h)
      BY <2>7, BumpTokens
    <2>8. CASE Check(h)
      BY <2>8, CheckTokens
    <2>9. CASE Wipe(h) \/ Drop(h)
      BY <2>9, WipeTokens
    <2>10. CASE Answer(h)
      BY <2>10, AnswerTokens
    <2>11. CASE Crash(h)
      BY <2>11, ThrowTokens DEF Crash
    <2>12. QED
      BY <1>1, <2>1, <2>2, <2>3, <2>4, <2>5, <2>6, <2>7, <2>8, <2>9, <2>10, <2>11
        DEF LoginStep
  <1>2. ASSUME NEW l \in Lineages, Expire(l) PROVE TokensInv'
    BY <1>2, ExpireTokens
  <1>3. CASE UNCHANGED loginVars
    <2>1. \A k \in Handlers : Answers(k)' = Answers(k)
      BY <1>3 DEF loginVars, Answers
    <2>2. TypeOK' /\ BusyHaveRows' /\ HeldWereTaken'
      BY <1>3 DEF loginVars, db, history, TokensInv, TypeOK, BusyHaveRows, HeldWereTaken
    <2>3. AnsweredAreDone' /\ RefreshedArePast' /\ SpentTokensAreRefused'
      BY <1>3, <2>1 DEF loginVars, db, TokensInv, AnsweredAreDone, RefreshedArePast,
                        SpentTokensAreRefused
    <2>4. QED
      BY <2>2, <2>3 DEF TokensInv
  <1>4. QED
    BY <1>1, <1>2, <1>3 DEF Next

LEMMA TokensHold == Spec => []TokensInv
  BY InitTokens, TokensInductive, PTL DEF Spec

\* Every variable of routes/auth.ts, routes/oauth and lib/authTokens.ts keeps its type.
THEOREM TypesHold == Spec => []TypeOK
  <1>1. TokensInv => TypeOK
    BY DEF TokensInv
  <1>2. QED
    BY <1>1, TokensHold, PTL

\* A refresh token whose refresh was answered is never again answered with a pair.
THEOREM SpentTokensRefused == Spec => []SpentTokensAreRefused
  <1>1. TokensInv => SpentTokensAreRefused
    BY DEF TokensInv
  <1>2. QED
    BY <1>1, TokensHold, PTL

-----------------------------------------------------------------------------
(* The promise of RefreshTokens, with the names of its variables.          *)

Generations(l) == {hand[h].generation : h \in Taken(l)}
HandedOut(l) == {s.generation : s \in {t \in sent : t.login = l}}

States == [l \in Lineages |-> authTokens[l].row]
Lasts == [l \in Lineages |-> authTokens[l].generation]
Takens == [l \in Lineages |-> Generations(l)]
Handeds == [l \in Lineages |-> HandedOut(l)]

LEMMA PromiseVars == Promise!vars = <<States, Lasts, Takens, Handeds>>
  BY DEF Promise!vars, States, Lasts, Takens, Handeds, Generations, HandedOut

LEMMA InitPromise == Init => Promise!Init
  <1> SUFFICES ASSUME Init PROVE Promise!Init
    OBVIOUS
  <1>1. States \in [Lineages -> {"none", "live"}] /\ Lasts = [l \in Lineages |-> 0]
    BY DEF Init, States, Lasts
  <1>2. \A l \in Lineages : Generations(l) = {}
    BY DEF Init, Generations, Taken, Idle
  <1>3. \A l \in Lineages : HandedOut(l) = IF authTokens[l].row = "live" THEN {0} ELSE {}
    <2> TAKE l \in Lineages
    <2> DEFINE live == {m \in Lineages : authTokens[m].row = "live"}
               first(m) == [by |-> NoHandler, login |-> m, generation |-> 0]
    <2>1. sent = {first(m) : m \in live}
      BY DEF Init
    <2>2. ASSUME NEW g PROVE g \in HandedOut(l) <=> authTokens[l].row = "live" /\ g = 0
      <3>1. g \in HandedOut(l) <=> \E s \in sent : s.login = l /\ s.generation = g
        BY DEF HandedOut
      <3>2. \A m \in live : first(m).login = m /\ first(m).generation = 0
        OBVIOUS
      <3>3. g \in HandedOut(l) <=> \E m \in live : m = l /\ g = 0
        BY <2>1, <3>1, <3>2
      <3>4. QED
        BY <3>3
    <2>3. QED
      BY <2>2
  <1>4. Takens = [l \in Lineages |-> {}]
    BY <1>2 DEF Takens
  <1>5. Handeds = [l \in Lineages |-> IF States[l] = "live" THEN {0} ELSE {}]
    BY <1>3 DEF Handeds, States
  <1>6. QED
    BY <1>1, <1>4, <1>5 DEF Promise!Init, States, Lasts, Takens, Handeds, Generations, HandedOut

LEMMA SameGenerations ==
    ASSUME TypeOK, NEW h \in Handlers, NEW r, hand' = [hand EXCEPT ![h] = r],
           hand[h].at \in Holding <=> r.at \in Holding,
           r.at \in Holding => r.login = hand[h].login /\ r.generation = hand[h].generation
    PROVE  Takens' = Takens
  <1>1. hand'[h] = r /\ \A k \in Handlers \ {h} : hand'[k] = hand[k]
    BY DEF TypeOK
  <1>2. ASSUME NEW l \in Lineages PROVE Generations(l)' = Generations(l)
    <2>1. \A k \in Handlers : k \in Taken(l)' <=> k \in Taken(l)
      BY <1>1 DEF Taken, Holding
    <2>2. \A k \in Taken(l) : hand'[k].generation = hand[k].generation
      BY <1>1 DEF Taken, Holding
    <2>3. Taken(l)' = Taken(l)
      BY <2>1 DEF Taken
    <2>4. QED
      BY <2>2, <2>3 DEF Generations
  <1>3. QED
    BY <1>2 DEF Takens

LEMMA OneReleased ==
    ASSUME TokensInv, NEW h \in Handlers, NEW r, hand' = [hand EXCEPT ![h] = r],
           hand[h].at \in Holding, r.at \notin Holding
    PROVE  /\ hand[h].login \in Lineages
           /\ hand[h].generation \in Generations(hand[h].login)
           /\ Takens' = [Takens EXCEPT ![hand[h].login] = @ \ {hand[h].generation}]
  <1>0. PICK l \in Lineages : l = hand[h].login
    BY DEF TokensInv, BusyHaveRows, Holding, Busy
  <1>2. PICK g : g = hand[h].generation
    OBVIOUS
  <1>1. hand'[h] = r /\ \A k \in Handlers \ {h} : hand'[k] = hand[k]
    BY DEF TokensInv, TypeOK
  <1>3. h \in Taken(l)
    BY <1>0 DEF Taken, Holding
  <1>4. \A k \in Taken(l) \ {h} : hand[k].generation # g
    BY <1>0, <1>2 DEF TokensInv, HeldWereTaken, Taken, Holding
  <1>5. ASSUME NEW m \in Lineages PROVE Taken(m)' = Taken(m) \ {h}
    BY <1>1 DEF Taken, Holding
  <1>6. ASSUME NEW m \in Lineages, m # l PROVE h \notin Taken(m)
    BY <1>0, <1>6 DEF Taken
  <1>7. Generations(l)' = Generations(l) \ {g}
    <2>1. Generations(l)' = {hand'[k].generation : k \in Taken(l)'}
      BY DEF Generations
    <2>2. Taken(l)' = Taken(l) \ {h} /\ Taken(l) \subseteq Handlers
      BY <1>5 DEF Taken
    <2>3. Generations(l)' = {hand[k].generation : k \in Taken(l) \ {h}}
      BY <1>1, <2>1, <2>2
    <2>4. QED
      BY <1>2, <1>3, <1>4, <2>3 DEF Generations
  <1>8. ASSUME NEW m \in Lineages, m # l PROVE Generations(m)' = Generations(m)
    BY <1>1, <1>5, <1>6, <1>8 DEF Generations, Taken
  <1>9. g \in Generations(l)
    BY <1>2, <1>3 DEF Generations
  <1>10. QED
    BY <1>0, <1>2, <1>7, <1>8, <1>9 DEF Takens

LEMMA OneTaken ==
    ASSUME TokensInv, NEW h \in Handlers, NEW r, hand' = [hand EXCEPT ![h] = r],
           hand[h].at \notin Holding, r.at \in Holding, r.login \in Lineages
    PROVE  Takens' = [Takens EXCEPT ![r.login] = @ \cup {r.generation}]
  <1>1. hand'[h] = r /\ \A k \in Handlers \ {h} : hand'[k] = hand[k]
    BY DEF TokensInv, TypeOK
  <1>2. Taken(r.login)' = Taken(r.login) \cup {h}
    BY <1>1 DEF Taken, Holding
  <1>3. ASSUME NEW m \in Lineages PROVE h \notin Taken(m)
    BY DEF Taken, Holding
  <1>4. ASSUME NEW m \in Lineages, m # r.login PROVE Taken(m)' = Taken(m)
    BY <1>1, <1>3, <1>4 DEF Taken, Holding
  <1>5. Generations(r.login)' = Generations(r.login) \cup {r.generation}
    BY <1>1, <1>2, <1>3 DEF Generations, Taken
  <1>6. ASSUME NEW m \in Lineages, m # r.login PROVE Generations(m)' = Generations(m)
    BY <1>1, <1>3, <1>4, <1>6 DEF Generations, Taken
  <1>7. QED
    BY <1>5, <1>6 DEF Takens

\* A step that takes and hands out nothing, and one that only gives up a generation.
LEMMA QuietStep ==
    ASSUME States' = States, Lasts' = Lasts, Takens' = Takens, UNCHANGED sent
    PROVE  [Promise!Next]_(Promise!vars)
  <1>1. Handeds' = Handeds
    BY DEF Handeds, HandedOut
  <1>2. Promise!vars' = <<States', Lasts', Takens', Handeds'>>
    BY DEF Promise!vars, States, Lasts, Takens, Handeds, Generations, HandedOut
  <1>3. QED
    BY <1>1, <1>2, PromiseVars

LEMMA LoseStep ==
    ASSUME States' = States, Lasts' = Lasts, UNCHANGED sent,
           NEW l \in Lineages, NEW g \in Generations(l),
           Takens' = [Takens EXCEPT ![l] = @ \ {g}]
    PROVE  [Promise!Next]_(Promise!vars)
  <1>1. Handeds' = Handeds
    BY DEF Handeds, HandedOut
  <1>2. g \in Takens[l]
    BY DEF Takens
  <1>3. Promise!Lose(l, g)
    BY <1>1, <1>2 DEF Promise!Lose, States, Lasts, Takens, Handeds, Generations, HandedOut
  <1>4. QED
    BY <1>2, <1>3 DEF Promise!Next, Takens, Generations

-----------------------------------------------------------------------------
(* Every step keeps the promise.                                           *)

\* Steps that leave the rows and the tokens sent as they are.
LEMMA SameRowsPromise ==
    ASSUME TokensInv, NEW h \in Handlers, NEW r, hand' = [hand EXCEPT ![h] = r],
           \A l \in Lineages : authTokens'[l].row = authTokens[l].row
                               /\ authTokens'[l].generation = authTokens[l].generation,
           UNCHANGED sent,
           \/ hand[h].at \notin Holding /\ r.at \notin Holding
           \/ hand[h].at \in Holding /\ r.at \notin Holding
           \/ /\ hand[h].at \in Holding /\ r.at \in Holding
              /\ r.login = hand[h].login /\ r.generation = hand[h].generation
    PROVE  [Promise!Next]_(Promise!vars)
  <1>1. States' = States /\ Lasts' = Lasts
    BY DEF States, Lasts
  <1>2. CASE hand[h].at \in Holding /\ r.at \notin Holding
    <2>1. /\ hand[h].login \in Lineages /\ hand[h].generation \in Generations(hand[h].login)
          /\ Takens' = [Takens EXCEPT ![hand[h].login] = @ \ {hand[h].generation}]
      BY <1>2, OneReleased
    <2>2. PICK l \in Lineages : l = hand[h].login
      BY <2>1
    <2>3. PICK g \in Generations(l) : g = hand[h].generation
      BY <2>1, <2>2
    <2>4. Takens' = [Takens EXCEPT ![l] = @ \ {g}]
      BY <2>1, <2>2, <2>3
    <2>5. QED
      BY <1>1, <2>4, LoseStep
  <1>3. CASE hand[h].at \in Holding <=> r.at \in Holding
    <2>1. Takens' = Takens
      BY <1>3, SameGenerations DEF TokensInv
    <2>2. QED
      BY <1>1, <2>1, QuietStep
  <1>4. QED
    BY <1>2, <1>3

LEMMA OverPromise ==
    ASSUME TokensInv, NEW h \in Handlers, NEW how \in {"done", "dead"}, Over(h, how),
           UNCHANGED <<authTokens, sent>>
    PROVE  [Promise!Next]_(Promise!vars)
  <1> DEFINE r == [Idle EXCEPT !.at = how, !.call = hand[h].call, !.login = hand[h].login,
                               !.token = hand[h].token, !.spent = hand[h].spent]
  <1>1. hand' = [hand EXCEPT ![h] = r]
    BY DEF Over
  <1>2. r.at \notin Holding
    BY DEF Idle, Holding
  <1> HIDE DEF r
  <1>3. QED
    BY <1>1, <1>2, SameRowsPromise

LEMMA GotoPromise ==
    ASSUME TokensInv, NEW h \in Handlers, NEW step, Goto(h, step),
           UNCHANGED <<authTokens, sent>>,
           hand[h].at \in Holding <=> step \in Holding
    PROVE  [Promise!Next]_(Promise!vars)
  <1> DEFINE r == [hand[h] EXCEPT !.at = step]
  <1>1. hand[h] \in Hand
    BY DEF TokensInv, TypeOK
  <1>2. r.at = step /\ r.login = hand[h].login /\ r.generation = hand[h].generation
    BY <1>1 DEF Hand
  <1>3. hand' = [hand EXCEPT ![h] = r]
    BY DEF Goto
  <1> HIDE DEF r
  <1>4. QED
    BY <1>2, <1>3, SameRowsPromise

LEMMA AfterCheckPromise ==
    ASSUME TokensInv, NEW h \in Handlers, NEW names, AfterCheck(h, names),
           UNCHANGED <<authTokens, sent>>, hand[h].at \in Holding
    PROVE  [Promise!Next]_(Promise!vars)
  <1> DEFINE r == NextCheck(hand[h], names)
  <1>1. hand[h] \in Hand
    BY DEF TokensInv, TypeOK
  <1>2. r.at \in Holding /\ r.login = hand[h].login /\ r.generation = hand[h].generation
    BY <1>1 DEF Hand, NextCheck, Holding
  <1>3. hand' = [hand EXCEPT ![h] = r]
    BY DEF AfterCheck
  <1> HIDE DEF r
  <1>4. QED
    BY <1>2, <1>3, SameRowsPromise

\* A request that begins, without a generation.
LEMMA BeginPromise ==
    ASSUME TokensInv, NEW h \in Handlers, NEW l \in Lineages, NEW p \in Providers,
           \/ Connect(h, l, p) \/ Disconnect(h, l, p)
           \/ \E s \in sent : Refresh(h, s)
    PROVE  [Promise!Next]_(Promise!vars)
  <1>1. hand[h].at \notin Holding /\ UNCHANGED <<authTokens, sent>>
    BY DEF Connect, Disconnect, Refresh, Holding, db
  <1>2. PICK r : hand' = [hand EXCEPT ![h] = r] /\ r.at \notin Holding
    <2>1. CASE Connect(h, l, p)
      <3> DEFINE r == [Idle EXCEPT
             !.at = IF authTokens[l].row = "live" THEN "exchange" ELSE "done",
             !.call = "connect", !.login = l, !.provider = p]
      <3>1. hand' = [hand EXCEPT ![h] = r]
        BY <2>1 DEF Connect
      <3>2. r.at \notin Holding
        BY DEF Idle, Holding
      <3> HIDE DEF r
      <3>3. QED
        BY <3>1, <3>2
    <2>2. CASE Disconnect(h, l, p)
      <3> DEFINE r == [Idle EXCEPT
             !.at = IF authTokens[l].row = "live" /\ link[Owner[l]][p] # NoUser
                    THEN "unlink" ELSE "done",
             !.call = "disconnect", !.login = l, !.provider = p]
      <3>1. hand' = [hand EXCEPT ![h] = r]
        BY <2>2 DEF Disconnect
      <3>2. r.at \notin Holding
        BY DEF Idle, Holding
      <3> HIDE DEF r
      <3>3. QED
        BY <3>1, <3>2
    <2>3. ASSUME NEW s \in sent, Refresh(h, s)
          PROVE  \E r : hand' = [hand EXCEPT ![h] = r] /\ r.at \notin Holding
      <3> DEFINE r == [Idle EXCEPT
             !.at = IF authTokens[s.login].row # "live" THEN "done"
                    ELSE IF Purgeable(s.login, s.generation) THEN "purge" ELSE "bump",
             !.call = "refresh", !.login = s.login, !.token = s.generation,
             !.spent = <<s.login, s.generation>> \in Spent]
      <3>1. hand' = [hand EXCEPT ![h] = r]
        BY <2>3 DEF Refresh
      <3>2. r.at \notin Holding
        BY DEF Idle, Holding
      <3> HIDE DEF r
      <3>3. QED
        BY <3>1, <3>2
    <2>4. QED
      BY <2>1, <2>2, <2>3
  <1>3. QED
    BY <1>1, <1>2, SameRowsPromise

LEMMA LoginPromise ==
    ASSUME TokensInv, NEW h \in Handlers, NEW l \in Lineages, Login(h, l)
    PROVE  [Promise!Next]_(Promise!vars)
  <1> DEFINE r == [Idle EXCEPT !.at = "check", !.call = "login", !.login = l,
                               !.copy = Snapshot(Owner[l])]
  <1>1. /\ hand' = [hand EXCEPT ![h] = r] /\ hand[h].at \notin Holding
        /\ authTokens' = [authTokens EXCEPT ![l].row = "live"]
        /\ authTokens[l].row = "none" /\ UNCHANGED sent
    BY DEF Login, Holding
  <1>2. r.at \in Holding /\ r.login = l /\ r.generation = 0
    BY DEF Idle, Holding
  <1> HIDE DEF r
  <1>3. Takens' = [Takens EXCEPT ![l] = @ \cup {0}]
    BY <1>1, <1>2, OneTaken
  <1>4. Generations(l) = {}
    BY <1>1 DEF TokensInv, BusyHaveRows, Generations, Taken, Busy
  <1>5. Takens' = [Takens EXCEPT ![l] = {0}]
    BY <1>3, <1>4 DEF Takens
  <1>6. States' = [States EXCEPT ![l] = "live"] /\ Lasts' = Lasts
    BY <1>1 DEF States, Lasts, TokensInv, TypeOK, Row
  <1>7. Handeds' = Handeds
    BY <1>1 DEF Handeds, HandedOut
  <1>8. Promise!Open(l)
    BY <1>1, <1>5, <1>6, <1>7
      DEF Promise!Open, States, Lasts, Takens, Handeds, Generations, HandedOut
  <1>9. QED
    BY <1>8 DEF Promise!Next

LEMMA BumpPromise ==
    ASSUME TokensInv, NEW h \in Handlers, Bump(h)
    PROVE  [Promise!Next]_(Promise!vars)
  <1>1. PICK l \in Lineages : l = hand[h].login
    BY DEF Bump, Busy, TokensInv, BusyHaveRows
  <1>2. hand[h].at \notin Holding /\ UNCHANGED sent /\ hand[h] \in Hand
    BY DEF Bump, Holding, TokensInv, TypeOK
  <1>3. CASE authTokens[l].row # "live"
    <2>1. (End(h) \/ Throw(h)) /\ UNCHANGED authTokens
      BY <1>1, <1>3 DEF Bump
    <2>2. QED
      BY <1>2, <2>1, OverPromise DEF End, Throw
  <1>4. CASE authTokens[l].row = "live"
    <2> DEFINE r == [hand[h] EXCEPT !.at = "check", !.generation = Increment(h, l),
                                    !.copy = Checked(h)]
    <2>1. /\ authTokens' = [authTokens EXCEPT ![l].generation = authTokens[l].generation + 1]
          /\ hand' = [hand EXCEPT ![h] = r]
      BY <1>1, <1>4 DEF Bump, Increment
    <2>2. r.at \in Holding /\ r.login = l /\ r.generation = authTokens[l].generation + 1
      BY <1>1, <1>2 DEF Hand, Increment, Holding
    <2> HIDE DEF r
    <2>3. Takens' = [Takens EXCEPT ![l] = @ \cup {authTokens[l].generation + 1}]
      BY <1>2, <2>1, <2>2, OneTaken
    <2>4. States' = States /\ Lasts' = [Lasts EXCEPT ![l] = @ + 1]
      BY <2>1 DEF States, Lasts, TokensInv, TypeOK, Row
    <2>5. Handeds' = Handeds
      BY <1>2 DEF Handeds, HandedOut
    <2>6. States[l] = "live" /\ Lasts[l] = authTokens[l].generation
      BY <1>4 DEF States, Lasts
    <2>7. Promise!Advance(l)
      BY <2>3, <2>4, <2>5, <2>6
        DEF Promise!Advance, States, Lasts, Takens, Handeds, Generations, HandedOut
    <2>8. QED
      BY <2>7 DEF Promise!Next
  <1>5. QED
    BY <1>3, <1>4

LEMMA AnswerPromise ==
    ASSUME TokensInv, NEW h \in Handlers, Answer(h)
    PROVE  [Promise!Next]_(Promise!vars)
  <1> DEFINE r == [Idle EXCEPT !.at = "done", !.call = hand[h].call, !.login = hand[h].login,
                               !.token = hand[h].token, !.spent = hand[h].spent]
  <1>1. /\ hand[h].at \in Holding /\ hand' = [hand EXCEPT ![h] = r]
        /\ UNCHANGED authTokens
    BY DEF Answer, End, Over, Holding, db
  <1>2. r.at \notin Holding
    BY DEF Idle, Holding
  <1> HIDE DEF r
  <1>3. /\ hand[h].login \in Lineages /\ hand[h].generation \in Generations(hand[h].login)
        /\ Takens' = [Takens EXCEPT ![hand[h].login] = @ \ {hand[h].generation}]
    BY <1>1, <1>2, OneReleased
  <1>4. PICK l \in Lineages : l = hand[h].login
    BY <1>3
  <1>5. PICK g \in Generations(l) : g = hand[h].generation
    BY <1>3, <1>4
  <1>6. sent' = sent \cup {[by |-> h, login |-> l, generation |-> g]}
    BY <1>4, <1>5 DEF Answer
  <1>7. Takens' = [Takens EXCEPT ![l] = @ \ {g}]
    BY <1>3, <1>4, <1>5
  <1>8. Handeds' = [Handeds EXCEPT ![l] = @ \cup {g}]
    <2> DEFINE new == [by |-> h, login |-> l, generation |-> g]
    <2>1. new.login = l /\ new.generation = g
      OBVIOUS
    <2> HIDE DEF new
    <2>2. sent' = sent \cup {new}
      BY <1>6 DEF new
    <2>3. HandedOut(l)' = HandedOut(l) \cup {g}
      BY <2>1, <2>2 DEF HandedOut
    <2>4. \A m \in Lineages \ {l} : HandedOut(m)' = HandedOut(m)
      BY <2>1, <2>2 DEF HandedOut
    <2>5. QED
      BY <2>3, <2>4 DEF Handeds
  <1>9. States' = States /\ Lasts' = Lasts
    BY <1>1 DEF States, Lasts
  <1>10. g \in Takens[l]
    BY DEF Takens
  <1>11. Promise!HandOut(l, g)
    BY <1>7, <1>8, <1>9, <1>10
      DEF Promise!HandOut, States, Lasts, Takens, Handeds, Generations, HandedOut
  <1>12. QED
    BY <1>10, <1>11 DEF Promise!Next, Takens, Generations

LEMMA PurgePromise ==
    ASSUME TokensInv, NEW h \in Handlers, Purge(h)
    PROVE  [Promise!Next]_(Promise!vars)
  <1> DEFINE r == [Idle EXCEPT !.at = "done", !.call = hand[h].call, !.login = hand[h].login,
                               !.token = hand[h].token, !.spent = hand[h].spent]
  <1>1. PICK l \in Lineages : l = hand[h].login /\ authTokens[l].row # "none"
    BY DEF Purge, Busy, TokensInv, BusyHaveRows
  <1>2. /\ hand[h].at \notin Holding /\ hand' = [hand EXCEPT ![h] = r]
        /\ authTokens' = [authTokens EXCEPT ![l].row = "purged"] /\ UNCHANGED sent
    BY <1>1 DEF Purge, End, Over, Holding
  <1>3. r.at \notin Holding
    BY DEF Idle, Holding
  <1> HIDE DEF r
  <1>4. authTokens \in [Lineages -> Row]
    BY DEF TokensInv, TypeOK
  <1>5. CASE authTokens[l].row = "live"
    <2>1. Takens' = Takens
      BY <1>2, <1>3, SameGenerations DEF TokensInv
    <2>2. States' = [States EXCEPT ![l] = "purged"] /\ Lasts' = Lasts
      BY <1>2, <1>4 DEF States, Lasts, Row
    <2>3. Handeds' = Handeds
      BY <1>2 DEF Handeds, HandedOut
    <2>4. Promise!Purge(l)
      BY <1>5, <2>1, <2>2, <2>3
        DEF Promise!Purge, States, Lasts, Takens, Handeds, Generations, HandedOut
    <2>5. QED
      BY <2>4 DEF Promise!Next
  <1>6. CASE authTokens[l].row = "purged"
    <2>1. \A m \in Lineages : authTokens'[m].row = authTokens[m].row
                              /\ authTokens'[m].generation = authTokens[m].generation
      BY <1>2, <1>4, <1>6 DEF Row
    <2>2. QED
      BY <1>2, <1>3, <2>1, SameRowsPromise
  <1>7. QED
    BY <1>1, <1>4, <1>5, <1>6 DEF Row

LEMMA StepPromise == TokensInv /\ [Next]_loginVars => [Promise!Next]_(Promise!vars)
  <1> SUFFICES ASSUME TokensInv, [Next]_loginVars PROVE [Promise!Next]_(Promise!vars)
    OBVIOUS
  <1>1. ASSUME NEW h \in Handlers, LoginStep(h) PROVE [Promise!Next]_(Promise!vars)
    <2>1. ASSUME NEW l \in Lineages, Login(h, l) PROVE [Promise!Next]_(Promise!vars)
      BY <2>1, LoginPromise
    <2>2. ASSUME NEW l \in Lineages, NEW p \in Providers,
                 Connect(h, l, p) \/ Disconnect(h, l, p)
          PROVE  [Promise!Next]_(Promise!vars)
      BY <2>2, BeginPromise
    <2>3. ASSUME NEW s \in sent, Refresh(h, s) PROVE [Promise!Next]_(Promise!vars)
      <3>1. s.login \in Lineages /\ "github" \in Providers
        BY DEF TokensInv, TypeOK, Sent, Providers
      <3>2. QED
        BY <2>3, <3>1, BeginPromise
    <2>4. CASE UpsertUser(h)
      <3>1. hand[h].at = "exchange" /\ UNCHANGED <<authTokens, sent>>
        BY <2>4 DEF UpsertUser
      <3>2. ASSUME NEW u \in Users,
                   hand' = [hand EXCEPT ![h] = [@ EXCEPT !.at = "link", !.user = u]]
            PROVE  [Promise!Next]_(Promise!vars)
        <4> DEFINE r == [hand[h] EXCEPT !.at = "link", !.user = u]
        <4>1. hand' = [hand EXCEPT ![h] = r]
          BY <3>2
        <4>2. r.at \notin Holding /\ hand[h].at \notin Holding
          BY <3>1 DEF TokensInv, TypeOK, Hand, Holding
        <4> HIDE DEF r
        <4>3. QED
          BY <3>1, <4>1, <4>2, SameRowsPromise
      <3>3. QED
        BY <2>4, <3>1, <3>2, OverPromise DEF UpsertUser, End
    <2>5. CASE Link(h) \/ Unlink(h)
      BY <2>5, GotoPromise DEF Link, Unlink, Holding, history
    <2>6. CASE Purge(h)
      BY <2>6, PurgePromise
    <2>7. CASE Bump(h)
      BY <2>7, BumpPromise
    <2>8. CASE Check(h)
      <3>1. hand[h].at = "check" /\ hand[h].at \in Holding /\ UNCHANGED <<authTokens, sent>>
        BY <2>8 DEF Check, Holding, db
      <3>2. \/ \E names : AfterCheck(h, names)
            \/ Goto(h, "wipe") \/ Throw(h)
        BY <2>8 DEF Check
      <3>3. QED
        BY <3>1, <3>2, AfterCheckPromise, GotoPromise, OverPromise DEF Throw, Holding
    <2>9. CASE Wipe(h) \/ Drop(h)
      BY <2>9, GotoPromise, AfterCheckPromise DEF Wipe, Drop, Holding
    <2>10. CASE Answer(h)
      BY <2>10, AnswerPromise
    <2>11. CASE Crash(h)
      BY <2>11, OverPromise DEF Crash, Throw, db
    <2>12. QED
      BY <1>1, <2>1, <2>2, <2>3, <2>4, <2>5, <2>6, <2>7, <2>8, <2>9, <2>10, <2>11
        DEF LoginStep
  <1>2. ASSUME NEW l \in Lineages, Expire(l) PROVE [Promise!Next]_(Promise!vars)
    <2>1. States' = States /\ Lasts' = Lasts
      BY <1>2 DEF Expire, States, Lasts, TokensInv, TypeOK, Row
    <2>2. UNCHANGED <<hand, sent>>
      BY <1>2 DEF Expire
    <2>3. Takens' = Takens
      BY <2>2 DEF Takens, Generations, Taken
    <2>4. QED
      BY <2>1, <2>2, <2>3, QuietStep
  <1>3. CASE UNCHANGED loginVars
    <2>1. States' = States /\ Lasts' = Lasts /\ UNCHANGED <<hand, sent>>
      BY <1>3 DEF loginVars, db, States, Lasts
    <2>2. Takens' = Takens
      BY <2>1 DEF Takens, Generations, Taken
    <2>3. QED
      BY <2>1, <2>2, QuietStep
  <1>4. QED
    BY <1>1, <1>2, <1>3 DEF Next

\* Every generation of a login is taken once and handed out once at most, whatever
\* requests overlap or are cut short, and a login that was purged stays purged.
THEOREM LoginsImplementPromise == Spec => ImplementsPromise
  <1>1. Init => Promise!Init
    BY InitPromise
  <1>2. TokensInv /\ [Next]_loginVars => [Promise!Next]_(Promise!vars)
    BY StepPromise
  <1>3. QED
    BY <1>1, <1>2, TokensHold, PTL DEF Spec, ImplementsPromise, Promise!Spec

-----------------------------------------------------------------------------
(* What a calm address can count on: LoginsInv.                            *)

OwnTrue(h, a) ==
    /\ Works(h, a) => RequestTrue(h, a) /\ UserTrue(h, a)
    /\ named[a] = link[a] \/ (Works(h, a) /\ hand[h].at \notin {"exchange", "purge"})
    /\ \A p \in Providers : TokenTrue(a, p)

\* Request h takes a step for login l, which leaves it as r.
StepOf(h, l, r) ==
    /\ hand' = [hand EXCEPT ![h] = r] /\ r.login = l
    /\ hand[h].at = "idle" \/ (hand[h].at \in Busy /\ hand[h].login = l)
    /\ \A m \in Lineages \ {l} : authTokens'[m] = authTokens[m]
    /\ \A b \in Addresses \ {Owner[l]} : link'[b] = link[b] /\ named'[b] = named[b]
    /\ overlapped \subseteq overlapped' /\ cut \subseteq cut' /\ replayed \subseteq replayed'
    /\ held \subseteq held' /\ sent \subseteq sent' /\ \A s \in sent' \ sent : s.login = l
    /\ \A p \in Providers, u \in Users :
          oauth'[p][u] = NoToken => oauth[p][u] = NoToken \/ <<Owner[l], p, u>> \in held

Facts(h) ==
    /\ hand \in [Handlers -> Hand] /\ hand[h] \in Hand
    /\ link \in [Addresses -> Links] /\ named \in [Addresses -> Links]
    /\ authTokens \in [Lineages -> Row]
    /\ oauth \in [Providers -> [Users -> Tokens \cup {NoToken}]]
    /\ sent \subseteq Sent
    /\ Owner \in [Lineages -> Addresses]
LEMMA TokensFacts == ASSUME TokensInv, NEW h \in Handlers PROVE Facts(h)
  BY LoginsAssumption DEF TokensInv, TypeOK, Facts

\* Nobody else is at work for the address of whoever works there, if it is calm.
LEMMA Alone ==
    ASSUME LoginsInv, TokensInv, NEW h \in Handlers, hand[h].at \in Busy,
           Owner[hand[h].login] \notin overlapped
    PROVE  \A k \in Handlers \ {h} : ~Works(k, Owner[hand[h].login])
  <1>1. Owner[hand[h].login] \in Addresses
    BY LoginsAssumption DEF TokensInv, BusyHaveRows
  <1>2. QED
    BY <1>1 DEF LoginsInv, OneAtWork, Works

LEMMA OtherAddresses ==
    ASSUME LoginsInv, TokensInv, NEW h \in Handlers, NEW l \in Lineages, NEW r, StepOf(h, l, r),
           NEW b \in Addresses \ {Owner[l]}, Calm(b)'
    PROVE  /\ AddressTrue(b)'
           /\ \A p \in Providers : TokenTrue(b, p)'
           /\ \A k \in Handlers : Works(k, b)' => UserTrue(k, b)'
  <1>0. Facts(h) /\ BusyHaveRows
    BY TokensFacts DEF TokensInv
  <1>1. Calm(b) /\ link'[b] = link[b] /\ named'[b] = named[b]
    BY DEF Calm, StepOf
  <1>2. /\ \A k \in Handlers \ {h} : hand'[k] = hand[k]
        /\ hand'[h] = r
    BY <1>0 DEF StepOf, Facts
  <1>3. \A k \in Handlers : Works(k, b)' => k # h /\ Works(k, b)
    BY <1>2 DEF Works, StepOf
  <1>4. \A k \in Handlers : Works(k, b) => k # h /\ Works(k, b)'
    <2>1. ~Works(h, b)
      BY <1>0 DEF Works, StepOf, Busy
    <2>2. QED
      BY <1>2, <2>1 DEF Works
  <1>9. \A p \in Providers, u \in Users :
           /\ Shared(b, p, u) => Shared(b, p, u)'
           /\ oauth'[p][u] = NoToken => oauth[p][u] = NoToken \/ Shared(b, p, u)'
    <2>1. Owner[l] \in Addresses \ {b}
      BY <1>0 DEF Facts
    <2>2. QED
      BY <2>1 DEF Shared, StepOf
  <1>5. ASSUME NEW k \in Handlers, Works(k, b)'
        PROVE  RequestTrue(k, b)' /\ UserTrue(k, b)'
    <2>1. k # h /\ Works(k, b) /\ hand'[k] = hand[k]
      BY <1>2, <1>3, <1>5
    <2>2. RequestTrue(k, b) /\ UserTrue(k, b)
      BY <1>1, <2>1 DEF LoginsInv, AddressTrue
    <2>3. hand[k].login \in Lineages /\ hand[k].login # l
      BY <1>0, <2>1 DEF Works, BusyHaveRows
    <2>4. authTokens'[hand[k].login] = authTokens[hand[k].login]
      BY <2>3 DEF StepOf
    <2>5. CopyTrue(k, b)' <=> CopyTrue(k, b)
      BY <1>1, <2>1 DEF CopyTrue
    <2>6. RequestTrue(k, b)'
      BY <1>1, <2>1, <2>2, <2>4, <2>5 DEF RequestTrue, StepOf
    <2>7. UserTrue(k, b)'
      <3>1. CASE hand[k].at = "link"
        <4>1. hand[k].user \in Users /\ hand[k].provider \in Providers
          BY <1>0, <3>1 DEF BusyHaveRows, Facts, Hand
        <4>2. QED
          BY <1>9, <2>1, <2>2, <4>1 DEF UserTrue
      <3>2. QED
        BY <2>1, <3>1 DEF UserTrue
    <2>8. QED
      BY <2>6, <2>7
  <1>6. AddressTrue(b)'
    <2>1. AddressTrue(b)
      BY <1>1 DEF LoginsInv
    <2>2. QED
      BY <1>1, <1>2, <1>4, <1>5, <2>1 DEF AddressTrue
  <1>7. ASSUME NEW p \in Providers PROVE TokenTrue(b, p)'
    <2>1. TokenTrue(b, p)
      BY <1>1 DEF LoginsInv
    <2>2. link[b][p] \in Users \cup {NoUser}
      BY <1>0 DEF Facts, Links
    <2>3. CASE link[b][p] = NoUser
      BY <1>1, <2>3 DEF TokenTrue
    <2>4. CASE link[b][p] \in Users
      BY <1>1, <1>2, <1>4, <1>9, <2>1, <2>4 DEF TokenTrue
    <2>5. QED
      BY <2>2, <2>3, <2>4
  <1>8. QED
    BY <1>5, <1>6, <1>7

LEMMA OtherLogins ==
    ASSUME LoginsInv, TokensInv, NEW h \in Handlers, NEW l \in Lineages, NEW r, StepOf(h, l, r),
           NEW m \in Lineages \ {l}
    PROVE  LoginTrue(m)'
  <1>0. Facts(h)
    BY TokensFacts
  <1>1. /\ \A k \in Handlers \ {h} : hand'[k] = hand[k]
        /\ authTokens'[m] = authTokens[m]
    BY <1>0 DEF StepOf, Facts
  <1>2. Current(m) => Current(m)'
    <2>1. ASSUME NEW k \in Handlers, hand[k].at \in {"check", "wipe", "drop", "answer"},
                 hand[k].login = m
          PROVE  hand'[k] = hand[k]
      BY <1>1, <2>1 DEF StepOf
    <2>2. QED
      BY <1>1, <2>1 DEF Current, StepOf
  <1>3. Calm(Owner[m])' => Calm(Owner[m])
    BY DEF Calm, StepOf
  <1>4. LoginTrue(m)
    BY DEF LoginsInv
  <1>5. QED
    BY <1>1, <1>2, <1>3, <1>4 DEF LoginTrue, StepOf

LEMMA StepFrame ==
    ASSUME LoginsInv, TokensInv, NEW h \in Handlers, NEW l \in Lineages, NEW r, StepOf(h, l, r),
           Owner[l] \notin overlapped' => \A k \in Handlers \ {h} : ~Works(k, Owner[l]),
           Calm(Owner[l])' => OwnTrue(h, Owner[l])',
           LoginTrue(l)',
           Early(r),
           r.at \in Busy => HandHeld(r)',
           \A p \in Providers : Held(Owner[l], p, link[Owner[l]][p])',
           \/ authTokens'[l].row = authTokens[l].row
              /\ (authTokens[l].expired => authTokens'[l].expired)
           \/ authTokens'[l].row # "purged"
           \/ authTokens'[l].expired \/ l \in replayed' \/ ~Calm(Owner[l])'
    PROVE  LoginsInv'
  <1>0. Facts(h) /\ BusyHaveRows
    BY TokensFacts DEF TokensInv
  <1>1. /\ \A k \in Handlers \ {h} : hand'[k] = hand[k]
        /\ hand'[h] = r /\ r.login = l /\ Owner[l] \in Addresses
    BY <1>0 DEF StepOf, Facts
  <1>2. OneAtWork'
    <2> SUFFICES ASSUME NEW b \in Addresses \ overlapped', NEW j \in Handlers, NEW k \in Handlers,
                        Works(j, b)', Works(k, b)'
                 PROVE  j = k
      BY DEF OneAtWork
    <2>1. CASE b = Owner[l]
      <3>1. \A i \in Handlers \ {h} : ~Works(i, b)'
        BY <1>1, <2>1 DEF Works
      <3>2. QED
        BY <3>1
    <2>2. CASE b # Owner[l]
      <3>1. Works(j, b) /\ Works(k, b)
        BY <1>1, <2>2 DEF Works
      <3>2. b \notin overlapped
        BY DEF StepOf
      <3>3. QED
        BY <3>1, <3>2 DEF LoginsInv, OneAtWork
    <2>3. QED
      BY <2>1, <2>2
  <1>3. HeldTrue'
    <2>1. ASSUME NEW a \in Addresses, NEW p \in Providers PROVE Held(a, p, link[a][p])'
      BY DEF LoginsInv, HeldTrue, Held, StepOf
    <2>2. ASSUME NEW k \in Handlers, hand'[k].at \in Busy PROVE HandHeld(hand[k])'
      BY <1>1, <2>2 DEF LoginsInv, HeldTrue, HandHeld, Held, StepOf
    <2>3. QED
      BY <2>1, <2>2 DEF HeldTrue
  <1>4. \A k \in Handlers : Early(hand[k])'
    BY <1>1 DEF LoginsInv, Early
  <1>5. \A m \in Lineages : LoginTrue(m)'
    BY OtherLogins
  <1>6. ASSUME NEW a \in Addresses, Calm(a)'
        PROVE  /\ AddressTrue(a)'
               /\ \A p \in Providers : TokenTrue(a, p)'
               /\ \A k \in Handlers : Works(k, a)' => UserTrue(k, a)'
    <2>1. CASE a # Owner[l]
      BY <1>6, <2>1, OtherAddresses
    <2>2. CASE a = Owner[l]
      <3>1. \A k \in Handlers \ {h} : ~Works(k, a)'
        BY <1>1, <1>6, <2>2 DEF Works, Calm
      <3>2. OwnTrue(h, a)'
        BY <1>6, <2>2
      <3>3. QED
        BY <3>1, <3>2 DEF OwnTrue, AddressTrue
    <2>3. QED
      BY <2>1, <2>2
  <1>7. PatientStayLoggedIn'
    <2> SUFFICES ASSUME NEW m \in Lineages, authTokens'[m].row = "purged", Calm(Owner[m])'
                 PROVE  authTokens'[m].expired \/ m \in replayed'
      BY DEF PatientStayLoggedIn, Calm
    <2>1. CASE m = l /\ ~(authTokens'[l].row = authTokens[l].row
                          /\ (authTokens[l].expired => authTokens'[l].expired))
      BY <2>1
    <2>2. CASE m # l \/ (authTokens'[l].row = authTokens[l].row
                         /\ (authTokens[l].expired => authTokens'[l].expired))
      <3>1. authTokens[m].row = "purged" /\ (authTokens[m].expired => authTokens'[m].expired)
        BY <2>2 DEF StepOf
      <3>2. authTokens[m].expired \/ m \in replayed
        BY <3>1 DEF LoginsInv, PatientStayLoggedIn, Calm, StepOf
      <3>3. QED
        BY <3>1, <3>2 DEF StepOf
    <2>3. QED
      BY <2>1, <2>2
  <1>8. QED
    BY <1>2, <1>3, <1>4, <1>5, <1>6, <1>7 DEF LoginsInv


\* A request that begins.
LEMMA BeginKeeps ==
    ASSUME LoginsInv, TokensInv, NEW h \in Handlers, NEW l \in Lineages, NEW r,
           hand[h].at = "idle", hand' = [hand EXCEPT ![h] = r], r.login = l, r.at # "link",
           Enter(l), UNCHANGED <<oauth, link, sent, named, cut, held>>, replayed \subseteq replayed',
           \A m \in Lineages \ {l} : authTokens'[m] = authTokens[m],
           LoginTrue(l)', Early(r), r.at \in Busy => HandHeld(r),
           Calm(Owner[l])' /\ r.at \in Busy => RequestTrue(h, Owner[l])',
           authTokens'[l] = authTokens[l] \/ authTokens'[l].row # "purged"
    PROVE  LoginsInv'
  <1>0. Facts(h) /\ Owner[l] \in Addresses
    BY TokensFacts DEF Facts
  <1>1. StepOf(h, l, r)
    BY DEF StepOf, Enter
  <1>2. Owner[l] \notin overlapped' => \A k \in Handlers : ~Works(k, Owner[l])
    BY <1>0 DEF Enter, AtWork, Works
  <1>3. ASSUME Calm(Owner[l])' PROVE OwnTrue(h, Owner[l])'
    <2>1. Calm(Owner[l]) /\ \A k \in Handlers : ~Works(k, Owner[l])
      BY <1>1, <1>2, <1>3 DEF Calm, StepOf
    <2>2. named[Owner[l]] = link[Owner[l]]
      BY <1>0, <2>1 DEF LoginsInv, AddressTrue
    <2>3. \A p \in Providers : TokenTrue(Owner[l], p)'
      BY <1>0, <2>1 DEF LoginsInv, TokenTrue, Shared
    <2>4. Works(h, Owner[l])' => r.at \in Busy /\ UserTrue(h, Owner[l])'
      BY <1>0 DEF Works, UserTrue, Facts
    <2>5. QED
      BY <1>3, <2>2, <2>3, <2>4 DEF OwnTrue
  <1>4. r.at \in Busy => HandHeld(r)'
    BY DEF HandHeld, Held
  <1>5. \A p \in Providers : Held(Owner[l], p, link[Owner[l]][p])'
    BY <1>0 DEF LoginsInv, HeldTrue, Held
  <1>6. QED
    BY <1>1, <1>2, <1>3, <1>4, <1>5, StepFrame

\* What a request at work for a calm address knows.
LEMMA OwnHas ==
    ASSUME LoginsInv, TokensInv, NEW h \in Handlers, hand[h].at \in Busy, NEW l, l = hand[h].login,
           Calm(Owner[l])
    PROVE  /\ RequestTrue(h, Owner[l]) /\ UserTrue(h, Owner[l])
           /\ hand[h].at \in {"exchange", "purge"} => named[Owner[l]] = link[Owner[l]]
           /\ \A p \in Providers :
                 link[Owner[l]][p] # NoUser /\ oauth[p][link[Owner[l]][p]] = NoToken =>
                     Shared(Owner[l], p, link[Owner[l]][p])
                     \/ (hand[h].at = "drop" /\ hand[h].checking = p)
           /\ \A k \in Handlers \ {h} : ~Works(k, Owner[l])
  <1>1. l \in Lineages /\ Owner[l] \in Addresses /\ Works(h, Owner[l])
    BY LoginsAssumption DEF TokensInv, BusyHaveRows, Works
  <1>2. \A k \in Handlers \ {h} : ~Works(k, Owner[l])
    BY Alone DEF Calm
  <1>3. AddressTrue(Owner[l]) /\ UserTrue(h, Owner[l])
    BY <1>1 DEF LoginsInv
  <1>4. \A p \in Providers : TokenTrue(Owner[l], p)
    BY <1>1 DEF LoginsInv
  <1>5. QED
    BY <1>1, <1>2, <1>3, <1>4 DEF AddressTrue, TokenTrue

\* A request that goes on, or ends, and leaves the logins as they are.
LEMMA GoesKeep ==
    ASSUME LoginsInv, TokensInv, NEW h \in Handlers, NEW l, l = hand[h].login, NEW r,
           hand[h].at \in Busy, hand' = [hand EXCEPT ![h] = r], r.login = l,
           UNCHANGED <<authTokens, sent, overlapped, replayed>>,
           cut \subseteq cut', held \subseteq held',
           \A b \in Addresses \ {Owner[l]} : link'[b] = link[b] /\ named'[b] = named[b],
           \A p \in Providers, u \in Users :
              oauth'[p][u] = NoToken => oauth[p][u] = NoToken \/ <<Owner[l], p, u>> \in held,
           Calm(Owner[l])' /\ hand[h].at \in Holding =>
              r.at \in Holding /\ r.generation = hand[h].generation,
           Calm(Owner[l])' => OwnTrue(h, Owner[l])',
           Early(r),
           r.at \in Busy => HandHeld(r)',
           \A p \in Providers : Held(Owner[l], p, link[Owner[l]][p])'
    PROVE  LoginsInv'
  <1>0. Facts(h) /\ l \in Lineages
    BY TokensFacts DEF TokensInv, BusyHaveRows
  <1>1. StepOf(h, l, r)
    BY DEF StepOf
  <1>2. Owner[l] \notin overlapped' => \A k \in Handlers \ {h} : ~Works(k, Owner[l])
    BY Alone
  <1>3. LoginTrue(l)'
    <2>1. LoginTrue(l)
      BY <1>0 DEF LoginsInv
    <2>2. Calm(Owner[l])' => Calm(Owner[l])
      BY DEF Calm
    <2>3. ASSUME Calm(Owner[l])', Current(l) PROVE Current(l)'
      <3>1. CASE \E s \in sent : s.login = l /\ s.generation = authTokens[l].generation
        BY <3>1 DEF Current
      <3>2. ASSUME NEW k \in Handlers, hand[k].at \in Holding, hand[k].login = l,
                   hand[k].generation = authTokens[l].generation
            PROVE  Current(l)'
        <4>1. CASE k = h
          BY <1>0, <2>3, <3>2, <4>1 DEF Current, Holding, Facts
        <4>2. CASE k # h
          BY <1>0, <3>2, <4>2 DEF Current, Holding, Facts
        <4>3. QED
          BY <4>1, <4>2
      <3>3. QED
        BY <2>3, <3>1, <3>2 DEF Current, Holding
    <2>4. QED
      BY <2>1, <2>2, <2>3 DEF LoginTrue
  <1>4. QED
    BY <1>0, <1>1, <1>2, <1>3, StepFrame

LEMMA LoginKeeps ==
    ASSUME LoginsInv, TokensInv, NEW h \in Handlers, NEW l \in Lineages, Login(h, l)
    PROVE  LoginsInv'
  <1> DEFINE r == [Idle EXCEPT !.at = "check", !.call = "login", !.login = l,
                               !.copy = Snapshot(Owner[l])]
  <1>0. Facts(h) /\ Owner[l] \in Addresses /\ LoginTrue(l)
    BY TokensFacts DEF Facts, LoginsInv
  <1>1. /\ r.at = "check" /\ r.login = l /\ r.checking = "github" /\ r.names = Unlinked
        /\ r.call = "login" /\ r.generation = 0
        /\ \A p \in Providers : r.copy[p].user = link[Owner[l]][p]
    BY DEF Idle, Snapshot
  <1>2. hand'[h] = r /\ authTokens'[l].row = "live" /\ authTokens'[l].generation = 0
    BY <1>0 DEF Login, Facts, Row, LoginTrue
  <1>3. LoginTrue(l)'
    <2>1. Current(l)'
      BY <1>1, <1>2 DEF Current
    <2>2. authTokens[l].generation = 0 /\ sent' = sent
      BY <1>0 DEF Login, LoginTrue
    <2>3. QED
      BY <1>0, <1>2, <2>1, <2>2 DEF LoginTrue
  <1>4. HandHeld(r) /\ Early(r)
    BY <1>0, <1>1 DEF HandHeld, Early, LoginsInv, HeldTrue
  <1>5. RequestTrue(h, Owner[l])'
    BY <1>1, <1>2 DEF RequestTrue, CopyTrue, Login
  <1> HIDE DEF r
  <1>6. /\ hand' = [hand EXCEPT ![h] = r] /\ hand[h].at = "idle" /\ Enter(l)
        /\ UNCHANGED <<oauth, link, sent, named, cut, replayed, held>>
        /\ \A m \in Lineages \ {l} : authTokens'[m] = authTokens[m]
    BY <1>0 DEF Login, Facts, r
  <1>7. QED
    BY <1>1, <1>2, <1>3, <1>4, <1>5, <1>6, BeginKeeps

\* Requests that begin without a look at the links.
LEMMA PlainBegins ==
    ASSUME LoginsInv, TokensInv, NEW h \in Handlers, NEW l \in Lineages, NEW r,
           hand[h].at = "idle", hand' = [hand EXCEPT ![h] = r], r.login = l,
           r.checking = "github", r.names = Unlinked, r.copy = Nothing,
           r.at \in {"done", "purge", "bump", "exchange", "unlink"},
           r.at = "exchange" => r.call = "connect",
           r.at = "unlink" => r.call = "disconnect",
           r.at = "bump" => r.call \in {"refresh", "remove email"},
           Enter(l), UNCHANGED <<db, sent, named, cut, held>>, replayed \subseteq replayed',
           Calm(Owner[l])' => (r.at = "purge" => authTokens[l].expired \/ l \in replayed'),
           r.at \in {"bump", "exchange", "unlink"} => authTokens[l].row = "live"
    PROVE  LoginsInv'
  <1>0. Facts(h) /\ LoginTrue(l) /\ hand'[h] = r
    BY TokensFacts DEF Facts, LoginsInv
  <1>1. Early(r)
    BY DEF Early
  <1>2. HandHeld(r)
    <2>1. \A p \in Providers : r.copy[p].user = NoUser
      <3>1. \A p \in Providers : Nothing[p] = None
        BY DEF Nothing
      <3>2. None.user = NoUser
        BY DEF None
      <3>3. QED
        BY <3>1, <3>2
    <2>2. ~(r.at = "bump" /\ r.call = "connect")
      OBVIOUS
    <2>3. QED
      BY <2>1, <2>2 DEF HandHeld, Held
  <1>3. Calm(Owner[l])' /\ r.at \in Busy => RequestTrue(h, Owner[l])'
    BY <1>0 DEF RequestTrue, Busy, db
  <1>4. LoginTrue(l)'
    <2>1. Current(l) => Current(l)'
      BY <1>0 DEF Current, db, Facts
    <2>2. Calm(Owner[l])' => Calm(Owner[l])
      BY DEF Calm, Enter
    <2>3. QED
      BY <1>0, <2>1, <2>2 DEF LoginTrue, db
  <1>5. QED
    BY <1>1, <1>2, <1>3, <1>4, BeginKeeps DEF db


LEMMA RefreshKeeps ==
    ASSUME LoginsInv, TokensInv, NEW h \in Handlers, NEW s \in sent, Refresh(h, s)
    PROVE  LoginsInv'
  <1> DEFINE l == s.login
             r == [Idle EXCEPT !.at = IF authTokens[l].row # "live" THEN "done"
                                      ELSE IF Purgeable(l, s.generation) THEN "purge" ELSE "bump",
                               !.call = "refresh", !.login = l, !.token = s.generation,
                               !.spent = <<l, s.generation>> \in Spent]
  <1>0. Facts(h) /\ s \in Sent /\ l \in Lineages
    BY TokensFacts DEF Facts, Sent
  <1>1. /\ r.login = l /\ r.checking = "github" /\ r.names = Unlinked /\ r.copy = Nothing
        /\ r.at \in {"done", "purge", "bump"} /\ r.call = "refresh"
        /\ r.at = "purge" => authTokens[l].row = "live" /\ Purgeable(l, s.generation)
        /\ r.at = "bump" => authTokens[l].row = "live"
    BY DEF Idle
  <1> HIDE DEF r
  <1>2. /\ hand[h].at = "idle" /\ hand' = [hand EXCEPT ![h] = r] /\ Enter(l)
        /\ UNCHANGED <<db, sent, named, cut, held>>
        /\ replayed' = IF Newest(l, s.generation) THEN replayed ELSE replayed \cup {l}
    BY DEF Refresh, r
  <1>3. ASSUME Calm(Owner[l])', r.at = "purge" PROVE authTokens[l].expired \/ l \in replayed'
    <2>1. CASE authTokens[l].expired
      BY <2>1
    <2>2. CASE s.generation # authTokens[l].generation
      <3>1. Calm(Owner[l]) /\ ~AtWork(l)
        BY <1>0, <1>2, <1>3, LoginsAssumption DEF Calm, Enter
      <3>2. Current(l)
        BY <1>0, <1>1, <1>3, <3>1 DEF LoginsInv, LoginTrue
      <3>3. PICK t \in sent : t.login = l /\ t.generation = authTokens[l].generation
        BY <1>0, <3>1, <3>2 DEF Current, AtWork, Busy
      <3>4. s.generation <= authTokens[l].generation
        BY <1>0 DEF LoginsInv, LoginTrue
      <3>5. s.generation \in Nat /\ t.generation \in Nat
        BY <1>0 DEF Facts, Sent
      <3>6. ~Newest(l, s.generation)
        BY <2>2, <3>3, <3>4, <3>5 DEF Newest
      <3>7. QED
        BY <1>2, <3>6
    <2>3. QED
      BY <1>1, <1>3, <2>1, <2>2 DEF Purgeable
  <1>4. QED
    BY <1>0, <1>1, <1>2, <1>3, PlainBegins

LEMMA ConnectKeeps ==
    ASSUME LoginsInv, TokensInv, NEW h \in Handlers, NEW l \in Lineages, NEW p \in Providers,
           Connect(h, l, p)
    PROVE  LoginsInv'
  <1> DEFINE r == [Idle EXCEPT !.at = IF authTokens[l].row = "live" THEN "exchange" ELSE "done",
                               !.call = "connect", !.login = l, !.provider = p]
  <1>1. /\ r.login = l /\ r.checking = "github" /\ r.names = Unlinked /\ r.copy = Nothing
        /\ r.at \in {"done", "exchange"} /\ r.call = "connect"
        /\ r.at = "exchange" => authTokens[l].row = "live"
    BY DEF Idle
  <1> HIDE DEF r
  <1>2. /\ hand[h].at = "idle" /\ hand' = [hand EXCEPT ![h] = r] /\ Enter(l)
        /\ UNCHANGED <<db, sent, named, cut, replayed, held>>
    BY DEF Connect, r
  <1>3. QED
    BY <1>1, <1>2, PlainBegins

LEMMA DisconnectKeeps ==
    ASSUME LoginsInv, TokensInv, NEW h \in Handlers, NEW l \in Lineages, NEW p \in Providers,
           Disconnect(h, l, p)
    PROVE  LoginsInv'
  <1> DEFINE r == [Idle EXCEPT
                     !.at = IF authTokens[l].row = "live" /\ link[Owner[l]][p] # NoUser
                            THEN "unlink" ELSE "done",
                     !.call = "disconnect", !.login = l, !.provider = p]
  <1>1. /\ r.login = l /\ r.checking = "github" /\ r.names = Unlinked /\ r.copy = Nothing
        /\ r.at \in {"done", "unlink"} /\ r.call = "disconnect"
        /\ r.at = "unlink" => authTokens[l].row = "live"
    BY DEF Idle
  <1> HIDE DEF r
  <1>2. /\ hand[h].at = "idle" /\ hand' = [hand EXCEPT ![h] = r] /\ Enter(l)
        /\ UNCHANGED <<db, sent, named, cut, replayed, held>>
    BY DEF Disconnect, r
  <1>3. QED
    BY <1>1, <1>2, PlainBegins

\* A request that gets no answer: its address is not calm any more.
LEMMA ThrowKeeps ==
    ASSUME LoginsInv, TokensInv, NEW h \in Handlers, hand[h].at \in Busy, Throw(h),
           UNCHANGED <<db, sent, named, overlapped, replayed, held>>
    PROVE  LoginsInv'
  <1>l. PICK l : l = hand[h].login
    OBVIOUS
  <1> DEFINE r == [Idle EXCEPT !.at = "dead", !.call = hand[h].call, !.login = hand[h].login,
                               !.token = hand[h].token, !.spent = hand[h].spent]
  <1>0. Facts(h) /\ Owner[l] \in Addresses
    BY <1>l, TokensFacts DEF TokensInv, BusyHaveRows, Facts
  <1>1. r.login = l /\ r.at = "dead"
    BY <1>l DEF Idle
  <1> HIDE DEF r
  <1>2. hand' = [hand EXCEPT ![h] = r] /\ ~Calm(Owner[l])' /\ cut \subseteq cut'
    BY <1>l DEF Throw, Over, Calm, r
  <1>3. Early(r) /\ r.at \notin Busy
    BY <1>1 DEF Early, Busy
  <1>4. \A p \in Providers : Held(Owner[l], p, link[Owner[l]][p])'
    BY <1>0 DEF LoginsInv, HeldTrue, Held, db
  <1>5. QED
    BY <1>l, <1>1, <1>2, <1>3, <1>4, GoesKeep DEF db

LEMMA EndRecord ==
    ASSUME NEW h \in Handlers, End(h)
    PROVE  \E r : /\ hand' = [hand EXCEPT ![h] = r] /\ r.login = hand[h].login /\ r.at = "done"
                  /\ Early(r) /\ r.at \notin Busy
  <1> DEFINE r == [Idle EXCEPT !.at = "done", !.call = hand[h].call, !.login = hand[h].login,
                               !.token = hand[h].token, !.spent = hand[h].spent]
  <1>1. r.login = hand[h].login /\ r.at = "done"
    BY DEF Idle
  <1>2. hand' = [hand EXCEPT ![h] = r]
    BY DEF End, Over
  <1> HIDE DEF r
  <1>3. Early(r) /\ r.at \notin Busy
    BY <1>1 DEF Early, Busy
  <1>4. QED
    BY <1>1, <1>2, <1>3

\* A request that ends with nothing changed, before it had a generation.
LEMMA EndKeeps ==
    ASSUME LoginsInv, TokensInv, NEW h \in Handlers, hand[h].at \in Busy \ Holding, End(h),
           UNCHANGED <<db, sent, named, overlapped, cut, replayed, held>>,
           Calm(Owner[hand[h].login]) => hand[h].at \in {"exchange", "purge"}
    PROVE  LoginsInv'
  <1>l. PICK l : l = hand[h].login
    OBVIOUS
  <1>0. Facts(h) /\ Owner[l] \in Addresses /\ hand[h].at \in Busy
    BY <1>l, TokensFacts DEF TokensInv, BusyHaveRows, Facts
  <1>1. PICK r : /\ hand' = [hand EXCEPT ![h] = r] /\ r.login = l /\ r.at = "done"
                 /\ Early(r) /\ r.at \notin Busy
    BY <1>l, EndRecord
  <1>2. ASSUME Calm(Owner[l])' PROVE OwnTrue(h, Owner[l])'
    <2>1. Calm(Owner[l]) /\ ~Works(h, Owner[l])' /\ hand[h].at # "drop"
      BY <1>l, <1>0, <1>1, <1>2 DEF Calm, Works, Facts, Holding
    <2>2. named[Owner[l]] = link[Owner[l]]
      BY <1>l, <1>0, <2>1, OwnHas
    <2>3. ASSUME NEW p \in Providers PROVE TokenTrue(Owner[l], p)'
      <3>1. link[Owner[l]][p] # NoUser /\ oauth[p][link[Owner[l]][p]] = NoToken =>
               Shared(Owner[l], p, link[Owner[l]][p])
        BY <1>l, <1>0, <2>1, OwnHas
      <3>2. QED
        BY <3>1 DEF TokenTrue, Shared, db
    <2>4. QED
      BY <2>1, <2>2, <2>3 DEF OwnTrue, db
  <1>3. \A p \in Providers : Held(Owner[l], p, link[Owner[l]][p])'
    BY <1>0 DEF LoginsInv, HeldTrue, Held, db
  <1>4. hand[h].at \notin Holding
    OBVIOUS
  <1>5. QED
    BY <1>l, <1>0, <1>1, <1>2, <1>3, <1>4, GoesKeep DEF db


LEMMA PurgeKeeps ==
    ASSUME LoginsInv, TokensInv, NEW h \in Handlers, Purge(h)
    PROVE  LoginsInv'
  <1>l. PICK l : l = hand[h].login
    OBVIOUS
  <1>0. Facts(h) /\ l \in Lineages /\ Owner[l] \in Addresses /\ hand[h].at = "purge"
        /\ hand[h].at \in Busy
    BY <1>l, TokensFacts DEF TokensInv, BusyHaveRows, Facts, Purge, Busy
  <1>1. PICK r : /\ hand' = [hand EXCEPT ![h] = r] /\ r.login = l /\ r.at = "done"
                 /\ Early(r) /\ r.at \notin Busy
    BY <1>l, EndRecord DEF Purge
  <1>2. /\ \A m \in Lineages \ {l} : authTokens'[m] = authTokens[m]
        /\ authTokens'[l].row = "purged" /\ authTokens'[l].generation = authTokens[l].generation
        /\ authTokens'[l].expired = authTokens[l].expired
        /\ UNCHANGED <<oauth, link, sent, named, overlapped, cut, replayed, held>>
    BY <1>l, <1>0 DEF Purge, Facts, Row, history
  <1>3. StepOf(h, l, r)
    BY <1>l, <1>0, <1>1, <1>2 DEF StepOf
  <1>4. Calm(Owner[l])' => Calm(Owner[l])
    BY <1>2 DEF Calm
  <1>5. ASSUME Calm(Owner[l])' PROVE OwnTrue(h, Owner[l])'
    <2>1. ~Works(h, Owner[l])'
      BY <1>0, <1>1 DEF Works, Facts
    <2>2. named[Owner[l]] = link[Owner[l]]
      BY <1>l, <1>0, <1>4, <1>5, OwnHas
    <2>3. ASSUME NEW p \in Providers PROVE TokenTrue(Owner[l], p)'
      <3>1. link[Owner[l]][p] # NoUser /\ oauth[p][link[Owner[l]][p]] = NoToken =>
               Shared(Owner[l], p, link[Owner[l]][p])
        BY <1>l, <1>0, <1>4, <1>5, OwnHas
      <3>2. QED
        BY <1>2, <3>1 DEF TokenTrue, Shared
    <2>4. QED
      BY <1>2, <2>1, <2>2, <2>3 DEF OwnTrue
  <1>6. LoginTrue(l)'
    <2>1. LoginTrue(l)
      BY <1>0 DEF LoginsInv
    <2>2. QED
      BY <1>2, <2>1 DEF LoginTrue
  <1>7. \A p \in Providers : Held(Owner[l], p, link[Owner[l]][p])'
    BY <1>0, <1>2 DEF LoginsInv, HeldTrue, Held
  <1>8. authTokens'[l].expired \/ l \in replayed' \/ ~Calm(Owner[l])'
    <2>1. Calm(Owner[l]) => RequestTrue(h, Owner[l])
      BY <1>l, <1>0, OwnHas
    <2>2. QED
      BY <1>l, <1>0, <1>2, <1>4, <2>1 DEF RequestTrue
  <1>9. Owner[l] \notin overlapped' => \A k \in Handlers \ {h} : ~Works(k, Owner[l])
    BY <1>l, <1>0, <1>2, Alone
  <1>10. QED
    BY <1>0, <1>1, <1>3, <1>5, <1>6, <1>7, <1>8, <1>9, StepFrame

LEMMA UpsertUserKeeps ==
    ASSUME LoginsInv, TokensInv, NEW h \in Handlers, UpsertUser(h)
    PROVE  LoginsInv'
  <1>l. PICK l : l = hand[h].login
    OBVIOUS
  <1>0. Facts(h) /\ Owner[l] \in Addresses /\ hand[h].at = "exchange" /\ hand[h].at \in Busy \ Holding
        /\ UNCHANGED <<authTokens, link, sent, named, overlapped, cut, replayed, held>>
    BY <1>l, TokensFacts DEF TokensInv, BusyHaveRows, Facts, UpsertUser, Busy, Holding, history
  <1>1. CASE End(h) /\ UNCHANGED oauth
    BY <1>0, <1>1, EndKeeps DEF db
  <1>2. ASSUME NEW u \in Users, oauth' = [oauth EXCEPT ![hand[h].provider][u] = h],
               hand' = [hand EXCEPT ![h] = [@ EXCEPT !.at = "link", !.user = u]]
        PROVE  LoginsInv'
    <2>1. PICK r : r = [hand[h] EXCEPT !.at = "link", !.user = u]
      OBVIOUS
    <2>2. /\ r.at = "link" /\ r.user = u /\ r.login = l /\ r.provider = hand[h].provider
          /\ r.checking = hand[h].checking /\ r.names = hand[h].names /\ r.call = hand[h].call
          /\ r.copy = hand[h].copy /\ hand' = [hand EXCEPT ![h] = r] /\ hand'[h] = r
      BY <1>l, <1>0, <1>2, <2>1 DEF Facts, Hand
    <2>3. /\ \A p \in Providers, v \in Users : oauth'[p][v] = NoToken => oauth[p][v] = NoToken
          /\ oauth'[r.provider][u] # NoToken
      BY <1>0, <1>2, <2>2, LoginsAssumption DEF Facts, Hand, Tokens
    <2>4. Early(r) /\ HandHeld(r)'
      <3>1. Early(hand[h]) /\ HandHeld(hand[h])
        BY <1>0 DEF LoginsInv, HeldTrue
      <3>2. Early(r)
        BY <1>0, <2>2, <3>1 DEF Early
      <3>3. HandHeld(r)'
        BY <1>l, <1>0, <2>2, <3>1 DEF HandHeld, Held
      <3>4. QED
        BY <3>2, <3>3
    <2>5. \A p \in Providers : Held(Owner[l], p, link[Owner[l]][p])'
      BY <1>0 DEF LoginsInv, HeldTrue, Held
    <2>6. ASSUME Calm(Owner[l])' PROVE OwnTrue(h, Owner[l])'
      <3>1. Calm(Owner[l])
        BY <1>0, <2>6 DEF Calm
      <3>2. RequestTrue(h, Owner[l])
        BY <1>l, <1>0, <3>1, OwnHas
      <3>3. RequestTrue(h, Owner[l])' /\ UserTrue(h, Owner[l])'
        <4>1. RequestTrue(h, Owner[l])'
          BY <1>l, <1>0, <2>2, <3>2 DEF RequestTrue
        <4>2. UserTrue(h, Owner[l])'
          BY <2>2, <2>3 DEF UserTrue
        <4>3. QED
          BY <4>1, <4>2
      <3>4. ASSUME NEW p \in Providers PROVE TokenTrue(Owner[l], p)'
        <4>1. link[Owner[l]][p] # NoUser /\ oauth[p][link[Owner[l]][p]] = NoToken =>
                 Shared(Owner[l], p, link[Owner[l]][p])
          BY <1>l, <1>0, <3>1, OwnHas
        <4>2. link[Owner[l]][p] \in Users \cup {NoUser}
          BY <1>0 DEF Facts, Links
        <4>3. QED
          BY <1>0, <2>3, <4>1, <4>2 DEF TokenTrue, Shared
      <3>5. Works(h, Owner[l])'
        BY <2>2 DEF Works, Busy
      <3>6. QED
        BY <2>2, <3>3, <3>4, <3>5 DEF OwnTrue
    <2>7. hand[h].at \in Busy /\ hand[h].at \notin Holding
      BY <1>0
    <2>8. QED
      BY <1>l, <1>0, <2>2, <2>3, <2>4, <2>5, <2>6, <2>7, GoesKeep
  <1>3. QED
    BY <1>1, <1>2 DEF UpsertUser

\* What a step leaves of the record of a request that only goes on.
LEMMA GotoRecord ==
    ASSUME TokensInv, NEW h \in Handlers, NEW step, Goto(h, step)
    PROVE  \E r : /\ hand' = [hand EXCEPT ![h] = r] /\ hand'[h] = r /\ r.at = step
                  /\ r.login = hand[h].login /\ r.provider = hand[h].provider
                  /\ r.user = hand[h].user /\ r.copy = hand[h].copy
                  /\ r.checking = hand[h].checking /\ r.names = hand[h].names
                  /\ r.generation = hand[h].generation /\ r.call = hand[h].call
  <1>0. Facts(h)
    BY TokensFacts
  <1>1. PICK r : r = [hand[h] EXCEPT !.at = step]
    OBVIOUS
  <1>2. /\ r.at = step
        /\ r.login = hand[h].login /\ r.provider = hand[h].provider
        /\ r.user = hand[h].user /\ r.copy = hand[h].copy
        /\ r.checking = hand[h].checking /\ r.names = hand[h].names
        /\ r.generation = hand[h].generation /\ r.call = hand[h].call
    BY <1>0, <1>1 DEF Facts, Hand
  <1>3. hand' = [hand EXCEPT ![h] = r] /\ hand'[h] = r
    BY <1>0, <1>1 DEF Goto, Facts
  <1>4. QED
    BY <1>2, <1>3

\* A link is made or removed, by a request that goes on to its new generation.
LEMMA SetLinkKeeps ==
    ASSUME LoginsInv, TokensInv, NEW h \in Handlers, NEW l, l = hand[h].login,
           hand[h].at \in {"link", "unlink"},
           NEW u, u = (IF hand[h].at = "link" THEN hand[h].user ELSE NoUser),
           link' = [link EXCEPT ![Owner[l]][hand[h].provider] = u],
           held' = IF hand[h].at = "link" THEN held \cup {<<Owner[l], hand[h].provider, u>>}
                   ELSE held,
           Goto(h, "bump"),
           UNCHANGED <<authTokens, oauth, sent, named, overlapped, cut, replayed>>
    PROVE  LoginsInv'
  <1>0. Facts(h) /\ Owner[l] \in Addresses /\ hand[h].at \in Busy /\ hand[h].at \notin Holding
        /\ hand[h].provider \in Providers /\ Early(hand[h])
    BY TokensFacts DEF TokensInv, BusyHaveRows, Facts, Busy, Holding, Hand, LoginsInv
  <1>1. PICK r : /\ hand' = [hand EXCEPT ![h] = r] /\ hand'[h] = r /\ r.at = "bump"
                 /\ r.login = l /\ r.provider = hand[h].provider
                 /\ r.user = hand[h].user /\ r.copy = hand[h].copy
                 /\ r.checking = hand[h].checking /\ r.names = hand[h].names
                 /\ r.generation = hand[h].generation /\ r.call = hand[h].call
    BY GotoRecord
  <1>2. /\ \A b \in Addresses \ {Owner[l]} : link'[b] = link[b]
        /\ link'[Owner[l]][r.provider] = u
        /\ \A p \in Providers \ {r.provider} : link'[Owner[l]][p] = link[Owner[l]][p]
    BY <1>0, <1>1 DEF Facts, Links
  <1>3. /\ held \subseteq held' /\ r.call = (IF hand[h].at = "link" THEN "connect" ELSE "disconnect")
        /\ u # NoUser => <<Owner[l], r.provider, u>> \in held' /\ u = r.user
        /\ r.call = "connect" => u = r.user
    BY <1>0, <1>1 DEF Early
  <1>4. HandHeld(hand[h]) /\ \A p \in Providers : Held(Owner[l], p, link[Owner[l]][p])
    BY <1>0 DEF LoginsInv, HeldTrue
  <1>5. HandHeld(r)' /\ Early(r)
    BY <1>0, <1>1, <1>3, <1>4 DEF HandHeld, Held, Early
  <1>6. \A p \in Providers : Held(Owner[l], p, link[Owner[l]][p])'
    BY <1>2, <1>3, <1>4 DEF Held
  <1>7. ASSUME Calm(Owner[l])' PROVE OwnTrue(h, Owner[l])'
    <2>1. Calm(Owner[l])
      BY <1>7 DEF Calm
    <2>2. RequestTrue(h, Owner[l]) /\ UserTrue(h, Owner[l])
      BY <1>0, <2>1, OwnHas
    <2>3. RequestTrue(h, Owner[l])'
      BY <1>0, <1>1, <1>2, <1>3, <2>2 DEF RequestTrue
    <2>4. UserTrue(h, Owner[l])' /\ Works(h, Owner[l])'
      BY <1>1 DEF UserTrue, Works, Busy
    <2>5. ASSUME NEW p \in Providers PROVE TokenTrue(Owner[l], p)'
      <3>1. link[Owner[l]][p] # NoUser /\ oauth[p][link[Owner[l]][p]] = NoToken =>
               Shared(Owner[l], p, link[Owner[l]][p])
        BY <1>0, <2>1, OwnHas
      <3>2. \A v : Shared(Owner[l], p, v) => Shared(Owner[l], p, v)'
        BY <1>3 DEF Shared
      <3>3. CASE p # r.provider
        BY <1>2, <3>1, <3>2, <3>3 DEF TokenTrue
      <3>4. CASE p = r.provider /\ hand[h].at = "unlink"
        BY <1>2, <3>4 DEF TokenTrue
      <3>5. CASE p = r.provider /\ hand[h].at = "link"
        BY <1>1, <1>2, <2>2, <3>2, <3>5 DEF TokenTrue, UserTrue
      <3>6. QED
        BY <3>3, <3>4, <3>5
    <2>6. QED
      BY <1>1, <2>3, <2>4, <2>5 DEF OwnTrue
  <1>8. QED
    BY <1>0, <1>1, <1>2, <1>3, <1>5, <1>6, <1>7, GoesKeep

LEMMA LinkKeeps ==
    ASSUME LoginsInv, TokensInv, NEW h \in Handlers, Link(h)
    PROVE  LoginsInv'
  <1>l. PICK l : l = hand[h].login
    OBVIOUS
  <1>u. PICK u : u = hand[h].user
    OBVIOUS
  <1>1. /\ hand[h].at = "link" /\ Goto(h, "bump")
        /\ link' = [link EXCEPT ![Owner[l]][hand[h].provider] = u]
        /\ held' = held \cup {<<Owner[l], hand[h].provider, u>>}
        /\ UNCHANGED <<authTokens, oauth, sent, named, overlapped, cut, replayed>>
    BY <1>l, <1>u DEF Link
  <1>2. QED
    BY <1>l, <1>u, <1>1, SetLinkKeeps

LEMMA UnlinkKeeps ==
    ASSUME LoginsInv, TokensInv, NEW h \in Handlers, Unlink(h)
    PROVE  LoginsInv'
  <1>l. PICK l : l = hand[h].login
    OBVIOUS
  <1>1. /\ hand[h].at = "unlink" /\ Goto(h, "bump") /\ held' = held
        /\ link' = [link EXCEPT ![Owner[l]][hand[h].provider] = NoUser]
        /\ UNCHANGED <<authTokens, oauth, sent, named, overlapped, cut, replayed>>
    BY <1>l DEF Unlink, history
  <1>2. QED
    BY <1>l, <1>1, SetLinkKeeps


LEMMA BumpKeeps ==
    ASSUME LoginsInv, TokensInv, NEW h \in Handlers, Bump(h)
    PROVE  LoginsInv'
  <1>l. PICK l : l = hand[h].login
    OBVIOUS
  <1>0. Facts(h) /\ l \in Lineages /\ Owner[l] \in Addresses /\ hand[h].at = "bump"
        /\ hand[h].at \in Busy \ Holding
        /\ UNCHANGED <<oauth, link, sent, named, overlapped, replayed, held>>
    BY <1>l, TokensFacts DEF TokensInv, BusyHaveRows, Facts, Bump, Busy, Holding
  <1>1. Calm(Owner[l]) => RequestTrue(h, Owner[l])
    BY <1>l, <1>0, OwnHas
  <1>2. CASE authTokens[l].row # "live" /\ authTokens' = authTokens
    <2>1. ~Calm(Owner[l])
      BY <1>l, <1>0, <1>1, <1>2 DEF RequestTrue
    <2>2. CASE End(h) /\ UNCHANGED cut
      BY <1>l, <1>0, <1>2, <2>1, <2>2, EndKeeps DEF db
    <2>3. CASE Throw(h)
      BY <1>0, <1>2, <2>3, ThrowKeeps DEF db
    <2>4. QED
      BY <1>l, <1>2, <2>2, <2>3 DEF Bump
  <1>3. ASSUME NEW g, g = Increment(h, l), authTokens[l].row = "live",
               authTokens' = [authTokens EXCEPT ![l].generation = g],
               hand' = [hand EXCEPT ![h] = [@ EXCEPT !.at = "check", !.generation = g,
                                                     !.copy = Checked(h)]],
               UNCHANGED cut
        PROVE  LoginsInv'
    <2>1. PICK r : r = [hand[h] EXCEPT !.at = "check", !.generation = g, !.copy = Checked(h)]
      OBVIOUS
    <2>2. /\ r.at = "check" /\ r.login = l /\ r.generation = g /\ r.copy = Checked(h)
          /\ r.checking = hand[h].checking /\ r.names = hand[h].names
          /\ hand' = [hand EXCEPT ![h] = r] /\ hand'[h] = r
      BY <1>l, <1>0, <1>3, <2>1 DEF Facts, Hand
    <2>3. /\ authTokens'[l].row = "live" /\ authTokens'[l].generation = g
          /\ \A m \in Lineages \ {l} : authTokens'[m] = authTokens[m]
          /\ g \in Nat /\ authTokens[l].generation \in Nat /\ authTokens[l].generation < g
      BY <1>0, <1>3 DEF Facts, Row, Increment
    <2>4. StepOf(h, l, r)
      BY <1>l, <1>0, <1>3, <2>2, <2>3 DEF StepOf
    <2>5. \A p \in Providers : Checked(h)[p].user
             = IF hand[h].call = "connect" /\ p = hand[h].provider THEN hand[h].user
               ELSE IF hand[h].call = "disconnect" /\ p = hand[h].provider THEN NoUser
               ELSE link[Owner[l]][p]
      BY <1>l, <1>0 DEF Checked, Snapshot, None, Facts, Hand
    <2>6. Early(hand[h]) /\ HandHeld(hand[h])
          /\ \A p \in Providers : Held(Owner[l], p, link[Owner[l]][p])
      BY <1>0 DEF LoginsInv, HeldTrue
    <2>7. Early(r) /\ r.checking = "github" /\ r.names = Unlinked
      BY <1>0, <2>2, <2>6 DEF Early
    <2>8. HandHeld(r)'
      <3>1. ASSUME NEW p \in Providers PROVE Held(Owner[l], p, r.copy[p].user)
        <4>1. CASE hand[h].call = "connect" /\ p = hand[h].provider
          BY <1>l, <1>0, <2>2, <2>5, <2>6, <4>1 DEF HandHeld
        <4>2. CASE ~(hand[h].call = "connect" /\ p = hand[h].provider)
          BY <2>2, <2>5, <2>6, <4>2 DEF Held
        <4>3. QED
          BY <4>1, <4>2
      <3>2. QED
        BY <1>0, <2>2, <3>1 DEF HandHeld, Held
    <2>9. LoginTrue(l)'
      <3>1. Current(l)'
        BY <2>2, <2>3 DEF Current
      <3>2. \A s \in sent : s.login = l => s.generation \in Nat /\ s.generation <= authTokens[l].generation
        BY <1>0 DEF LoginsInv, LoginTrue, Facts, Sent
      <3>3. \A s \in sent : s.login = l => s.generation <= g
        BY <2>3, <3>2
      <3>4. QED
        BY <1>0, <2>3, <3>1, <3>3 DEF LoginTrue
    <2>10. ASSUME Calm(Owner[l])' PROVE OwnTrue(h, Owner[l])'
      <3>1. Calm(Owner[l])
        BY <1>0, <1>3, <2>10 DEF Calm
      <3>2. RequestTrue(h, Owner[l])
        BY <1>1, <3>1
      <3>3. \A p \in Providers : r.copy[p].user = link[Owner[l]][p]
        <4>1. hand[h].call = "connect" => link[Owner[l]][hand[h].provider] = hand[h].user
          BY <1>0, <3>2 DEF RequestTrue
        <4>2. hand[h].call = "disconnect" => link[Owner[l]][hand[h].provider] = NoUser
          BY <1>0, <3>2 DEF RequestTrue
        <4>3. QED
          BY <2>2, <2>5, <4>1, <4>2
      <3>4. CopyTrue(h, Owner[l])'
        BY <1>0, <2>2, <2>7, <3>3 DEF CopyTrue
      <3>5. RequestTrue(h, Owner[l])'
        BY <2>2, <2>3, <3>4 DEF RequestTrue
      <3>6. UserTrue(h, Owner[l])' /\ Works(h, Owner[l])'
        BY <2>2 DEF UserTrue, Works, Busy
      <3>7. ASSUME NEW p \in Providers PROVE TokenTrue(Owner[l], p)'
        <4>1. link[Owner[l]][p] # NoUser /\ oauth[p][link[Owner[l]][p]] = NoToken =>
                 Shared(Owner[l], p, link[Owner[l]][p])
          BY <1>l, <1>0, <3>1, OwnHas
        <4>2. QED
          BY <1>0, <4>1 DEF TokenTrue, Shared
      <3>8. QED
        BY <2>2, <3>5, <3>6, <3>7 DEF OwnTrue
    <2>11. \A p \in Providers : Held(Owner[l], p, link[Owner[l]][p])'
      BY <1>0, <2>6 DEF Held
    <2>12. Owner[l] \notin overlapped' => \A k \in Handlers \ {h} : ~Works(k, Owner[l])
      BY <1>l, <1>0, Alone
    <2>13. authTokens'[l].row # "purged"
      BY <2>3
    <2>14. QED
      BY <1>0, <2>4, <2>7, <2>8, <2>9, <2>10, <2>11, <2>12, <2>13, StepFrame
  <1>4. QED
    BY <1>l, <1>2, <1>3 DEF Bump

\* A request's copy is right of what it has not checked, its names of what it has.
CopyOf(q, links) ==
    IF q.checking = "github"
    THEN q.names = Unlinked /\ \A p \in Providers : q.copy[p].user = links[p]
    ELSE q.names = [links EXCEPT !["discord"] = NoUser] /\ q.copy["discord"].user = links["discord"]

\* ... and stays right when a provider is checked and its link remains or is dropped.
LEMMA NextCheckTrue ==
    ASSUME NEW q \in Hand, NEW a \in Links, NEW b \in Links, NEW n, CopyOf(q, a),
           n = [q.names EXCEPT ![q.checking] = b[q.checking]],
           \A p \in Providers \ {q.checking} : b[p] = a[p], NEW r, r = NextCheck(q, n)
    PROVE  /\ r.at = "check" => CopyOf(r, b)
           /\ r.at = "answer" => r.names = b
  <1>1. /\ r.at = IF q.checking = "github" THEN "check" ELSE "answer"
        /\ r.checking = "discord" /\ r.names = n
        /\ r.copy = [q.copy EXCEPT ![q.checking] = None]
        /\ q.checking \in Providers /\ q.names \in Links /\ q.copy \in Copy
    BY DEF NextCheck, Hand
  <1>2. "github" \in Providers /\ "discord" \in Providers
        /\ \A p \in Providers : p = "github" \/ p = "discord"
    BY DEF Providers
  <1>3. CASE q.checking = "github"
    <2>1. r.copy["discord"].user = b["discord"]
      BY <1>1, <1>2, <1>3 DEF CopyOf, Copy
    <2>2. \A p \in Providers : n[p] = (IF p = "discord" THEN NoUser ELSE b[p])
      BY <1>1, <1>2, <1>3 DEF CopyOf, Unlinked
    <2>3. n \in [Providers -> Users \cup {NoUser}]
      BY <1>1, <1>2, <1>3 DEF Links
    <2>4. [b EXCEPT !["discord"] = NoUser] \in [Providers -> Users \cup {NoUser}]
          /\ \A p \in Providers : [b EXCEPT !["discord"] = NoUser][p]
                                  = (IF p = "discord" THEN NoUser ELSE b[p])
      BY DEF Links
    <2>5. n = [b EXCEPT !["discord"] = NoUser]
      BY <2>2, <2>3, <2>4
    <2>6. QED
      BY <1>1, <1>3, <2>1, <2>5 DEF CopyOf
  <1>4. CASE q.checking = "discord"
    <2>1. \A p \in Providers : n[p] = b[p]
      BY <1>1, <1>2, <1>4 DEF CopyOf, Links
    <2>2. n \in [Providers -> Users \cup {NoUser}] /\ b \in [Providers -> Users \cup {NoUser}]
      BY <1>1, <1>4 DEF Links
    <2>3. n = b
      BY <2>1, <2>2
    <2>4. QED
      BY <1>1, <1>4, <2>3
  <1>5. QED
    BY <1>1, <1>2, <1>3, <1>4

\* Request h checked a provider and goes on as r; u is what its address is linked to now.
Checks(h, l, n, u, r) ==
    /\ l = hand[h].login /\ hand[h].at \in {"check", "drop"}
    /\ r = NextCheck(hand[h], n) /\ hand' = [hand EXCEPT ![h] = r]
    /\ UNCHANGED <<authTokens, oauth, sent, named, overlapped, cut, replayed, held>>
    /\ \A b \in Addresses \ {Owner[l]} : link'[b] = link[b]
    /\ u = IF hand[h].at = "drop" THEN NoUser ELSE link[Owner[l]][hand[h].checking]
    /\ link'[Owner[l]] = [link[Owner[l]] EXCEPT ![hand[h].checking] = u]
    /\ Calm(Owner[l]) => n = [hand[h].names EXCEPT ![hand[h].checking] = u]

LEMMA AfterCheckKeeps ==
    ASSUME LoginsInv, TokensInv, NEW h \in Handlers, NEW l, NEW n, NEW u, NEW r,
           Checks(h, l, n, u, r)
    PROVE  LoginsInv'
  <1> USE DEF Checks
  <1>0. Facts(h) /\ Owner[l] \in Addresses /\ hand[h].at \in Busy
        /\ hand[h].checking \in Providers
        /\ UNCHANGED <<named, overlapped, cut, replayed, held>>
    BY TokensFacts DEF TokensInv, BusyHaveRows, Facts, Busy, Hand
  <1>1. r = NextCheck(hand[h], n)
    OBVIOUS
  <1>2. /\ r.at \in {"check", "answer"} /\ r.login = l /\ r.generation = hand[h].generation
        /\ \A p \in Providers : r.copy[p].user \in {hand[h].copy[p].user, NoUser}
    BY <1>0, <1>1 DEF NextCheck, Facts, Hand, Copy, None
  <1>3. hand' = [hand EXCEPT ![h] = r] /\ hand'[h] = r
    BY <1>0 DEF Facts
  <1>4. /\ \A p \in Providers \ {hand[h].checking} : link'[Owner[l]][p] = link[Owner[l]][p]
        /\ link'[Owner[l]][hand[h].checking] = u
        /\ link'[Owner[l]] \in Links /\ link[Owner[l]] \in Links
    <2>1. link[Owner[l]] \in Links
      BY <1>0 DEF Facts
    <2>2. HandHeld(hand[h]) /\ u \in Users \cup {NoUser}
      BY <1>0, <2>1 DEF LoginsInv, HeldTrue, Links
    <2>3. QED
      BY <1>0, <2>1, <2>2 DEF Links
  <1>5. HandHeld(hand[h]) /\ \A p \in Providers : Held(Owner[l], p, link[Owner[l]][p])
    BY <1>0 DEF LoginsInv, HeldTrue
  <1>6. Early(r) /\ HandHeld(r)'
    <2>1. Early(r)
      BY <1>2 DEF Early
    <2>2. \A p \in Providers : Held(Owner[l], p, r.copy[p].user)
      BY <1>2, <1>5 DEF HandHeld, Held
    <2>3. QED
      BY <1>0, <1>2, <2>1, <2>2 DEF HandHeld, Held
  <1>7. \A p \in Providers : Held(Owner[l], p, link[Owner[l]][p])'
    BY <1>0, <1>4, <1>5 DEF Held
  <1>8. ASSUME Calm(Owner[l])' PROVE OwnTrue(h, Owner[l])'
    <2>1. Calm(Owner[l])
      BY <1>0, <1>8 DEF Calm
    <2>2. RequestTrue(h, Owner[l])
      BY <1>0, <2>1, OwnHas
    <2>3. CopyOf(hand[h], link[Owner[l]])
      BY <2>2 DEF RequestTrue, CopyTrue, CopyOf
    <2>4. /\ r.at = "check" => CopyOf(r, link'[Owner[l]])
          /\ r.at = "answer" => r.names = link'[Owner[l]]
      <3>1. PICK b : b = link'[Owner[l]]
        OBVIOUS
      <3>2. hand[h] \in Hand
        BY <1>0 DEF Facts
      <3>3. /\ n = [hand[h].names EXCEPT ![hand[h].checking] = b[hand[h].checking]]
            /\ b \in Links /\ link[Owner[l]] \in Links
            /\ \A p \in Providers \ {hand[h].checking} : b[p] = link[Owner[l]][p]
        BY <1>4, <2>1, <3>1
      <3>4. (r.at = "check" => CopyOf(r, b)) /\ (r.at = "answer" => r.names = b)
        BY <1>1, <2>3, <3>2, <3>3, NextCheckTrue
      <3>5. QED
        BY <3>1, <3>4
    <2>5. RequestTrue(h, Owner[l])'
      <3>1. authTokens'[l].row = "live"
        BY <2>2 DEF RequestTrue
      <3>2. r.at = "check" => CopyTrue(h, Owner[l])'
        BY <1>3, <2>4 DEF CopyTrue, CopyOf
      <3>3. QED
        BY <1>2, <1>3, <2>4, <3>1, <3>2 DEF RequestTrue
    <2>6. UserTrue(h, Owner[l])' /\ Works(h, Owner[l])'
      BY <1>2, <1>3 DEF UserTrue, Works, Busy
    <2>7. ASSUME NEW p \in Providers PROVE TokenTrue(Owner[l], p)'
      <3>1. link[Owner[l]][p] # NoUser /\ oauth[p][link[Owner[l]][p]] = NoToken =>
               Shared(Owner[l], p, link[Owner[l]][p])
               \/ (hand[h].at = "drop" /\ hand[h].checking = p)
        BY <1>0, <2>1, OwnHas
      <3>2. \A v : Shared(Owner[l], p, v)' <=> Shared(Owner[l], p, v)
        BY <1>0 DEF Shared
      <3>3. CASE hand[h].at = "drop" /\ hand[h].checking = p
        BY <1>4, <3>3 DEF TokenTrue
      <3>4. CASE ~(hand[h].at = "drop" /\ hand[h].checking = p)
        BY <1>4, <3>1, <3>2, <3>4 DEF TokenTrue
      <3>5. QED
        BY <3>3, <3>4
    <2>8. QED
      BY <1>2, <1>3, <2>5, <2>6, <2>7 DEF OwnTrue
  <1>9. r.at \in Holding
    BY <1>2 DEF Holding
  <1>10. QED
    BY <1>0, <1>2, <1>3, <1>4, <1>6, <1>7, <1>8, <1>9, GoesKeep


\* To set the name a provider's user gets where it is none already changes nothing.
LEMMA SameNames ==
    ASSUME LoginsInv, TokensInv, NEW h \in Handlers, NEW l, l = hand[h].login,
           hand[h].at \in {"check", "wipe", "drop"}, Calm(Owner[l])
    PROVE  hand[h].names = [hand[h].names EXCEPT ![hand[h].checking] = NoUser]
  <1>0. Facts(h) /\ hand[h].names \in Links /\ hand[h].checking \in Providers
        /\ hand[h].at \in Busy
    BY TokensFacts DEF Facts, Hand, Busy
  <1>1. RequestTrue(h, Owner[l])
    BY <1>0, OwnHas
  <1>2. CopyTrue(h, Owner[l])
    BY <1>1 DEF RequestTrue
  <1>3. link[Owner[l]] \in Links
    BY <1>0, LoginsAssumption DEF TokensInv, BusyHaveRows, Facts
  <1>4. hand[h].names[hand[h].checking] = NoUser
    <2>1. CASE hand[h].checking = "github"
      BY <1>0, <1>2, <2>1 DEF CopyTrue, Unlinked
    <2>2. CASE hand[h].checking = "discord"
      BY <1>0, <1>2, <1>3, <2>2 DEF CopyTrue, Links
    <2>3. QED
      BY <1>0, <2>1, <2>2 DEF Providers
  <1>5. QED
    BY <1>0, <1>4 DEF Links

LEMMA CheckedLink ==
    ASSUME LoginsInv, TokensInv, NEW h \in Handlers, NEW l, l = hand[h].login,
           hand[h].at \in {"check", "wipe", "drop"}, Calm(Owner[l])
    PROVE  link[Owner[l]][hand[h].checking] = hand[h].copy[hand[h].checking].user
  <1>0. hand[h].checking \in Providers /\ hand[h].at \in Busy
    BY TokensFacts DEF Facts, Hand, Busy
  <1>1. RequestTrue(h, Owner[l])
    BY <1>0, OwnHas
  <1>2. CopyTrue(h, Owner[l])
    BY <1>1 DEF RequestTrue
  <1>3. QED
    BY <1>0, <1>2 DEF CopyTrue, Providers

\* A check that fails, up to the removal of the OAuth token.
LEMMA WipingKeeps ==
    ASSUME LoginsInv, TokensInv, NEW h \in Handlers, NEW l, l = hand[h].login,
           \/ /\ hand[h].at = "check" /\ Goto(h, "wipe") /\ UNCHANGED oauth
              /\ hand[h].copy[hand[h].checking].user # NoUser
           \/ /\ hand[h].at = "wipe" /\ Goto(h, "drop")
              /\ oauth' = [oauth EXCEPT ![hand[h].checking][hand[h].copy[hand[h].checking].user]
                                 = NoToken],
           UNCHANGED <<authTokens, link, sent, history>>
    PROVE  LoginsInv'
  <1>0. Facts(h) /\ Owner[l] \in Addresses /\ hand[h].at \in Busy /\ hand[h].at \in {"check", "wipe"}
        /\ hand[h].checking \in Providers
        /\ UNCHANGED <<named, overlapped, cut, replayed, held>>
    BY TokensFacts DEF TokensInv, BusyHaveRows, Facts, Busy, Hand, history
  <1>1. PICK r : /\ hand' = [hand EXCEPT ![h] = r] /\ hand'[h] = r
                 /\ r.at = (IF hand[h].at = "check" THEN "wipe" ELSE "drop")
                 /\ r.login = l /\ r.copy = hand[h].copy
                 /\ r.checking = hand[h].checking /\ r.names = hand[h].names
                 /\ r.generation = hand[h].generation
    <2>1. CASE hand[h].at = "check" /\ Goto(h, "wipe")
      BY <2>1, GotoRecord
    <2>2. CASE hand[h].at = "wipe" /\ Goto(h, "drop")
      BY <2>2, GotoRecord
    <2>3. QED
      BY <2>1, <2>2
  <1>2. HandHeld(hand[h]) /\ \A p \in Providers : Held(Owner[l], p, link[Owner[l]][p])
    BY <1>0 DEF LoginsInv, HeldTrue
  <1>3. Early(r) /\ HandHeld(r)'
    BY <1>0, <1>1, <1>2 DEF Early, HandHeld, Held
  <1>4. \A p \in Providers : Held(Owner[l], p, link[Owner[l]][p])'
    BY <1>0, <1>2 DEF Held
  <1>5. \A p \in Providers, u \in Users :
           \/ oauth'[p][u] = oauth[p][u]
           \/ /\ p = hand[h].checking /\ u = hand[h].copy[p].user /\ r.at = "drop"
              /\ <<Owner[l], p, u>> \in held
    <2>1. CASE hand[h].at = "check" /\ UNCHANGED oauth
      BY <2>1
    <2>2. ASSUME hand[h].at = "wipe",
                 oauth' = [oauth EXCEPT ![hand[h].checking][hand[h].copy[hand[h].checking].user]
                                    = NoToken],
                 NEW p \in Providers, NEW u \in Users, oauth'[p][u] # oauth[p][u]
          PROVE  /\ p = hand[h].checking /\ u = hand[h].copy[p].user /\ r.at = "drop"
                 /\ <<Owner[l], p, u>> \in held
      <3>1. p = hand[h].checking /\ u = hand[h].copy[p].user
        BY <1>0, <2>2 DEF Facts
      <3>2. u # NoUser
        BY LoginsAssumption
      <3>3. QED
        BY <1>1, <1>2, <2>2, <3>1, <3>2 DEF HandHeld, Held
    <2>3. QED
      BY <2>1, <2>2
  <1>6. ASSUME Calm(Owner[l])' PROVE OwnTrue(h, Owner[l])'
    <2>1. Calm(Owner[l])
      BY <1>0, <1>6 DEF Calm
    <2>2. RequestTrue(h, Owner[l])
      BY <1>0, <2>1, OwnHas
    <2>3. CopyTrue(h, Owner[l])'
      BY <1>0, <1>1, <2>2 DEF RequestTrue, CopyTrue
    <2>4. hand[h].copy[hand[h].checking].user # NoUser
      BY <2>2 DEF RequestTrue
    <2>5. RequestTrue(h, Owner[l])'
      BY <1>0, <1>1, <2>2, <2>3, <2>4 DEF RequestTrue
    <2>6. UserTrue(h, Owner[l])' /\ Works(h, Owner[l])'
      BY <1>0, <1>1 DEF UserTrue, Works, Busy
    <2>7. ASSUME NEW p \in Providers PROVE TokenTrue(Owner[l], p)'
      <3>1. link[Owner[l]][p] # NoUser /\ oauth[p][link[Owner[l]][p]] = NoToken =>
               Shared(Owner[l], p, link[Owner[l]][p])
        BY <1>0, <2>1, OwnHas
      <3>2. link[Owner[l]][p] \in Users \cup {NoUser}
        BY <1>0 DEF Facts, Links
      <3>3. CASE p = hand[h].checking /\ r.at = "drop"
        BY <1>1, <2>6, <3>3 DEF TokenTrue
      <3>4. CASE ~(p = hand[h].checking /\ r.at = "drop")
        BY <1>0, <1>5, <3>1, <3>2, <3>4 DEF TokenTrue, Shared
      <3>5. QED
        BY <3>3, <3>4
    <2>8. QED
      BY <1>1, <2>5, <2>6, <2>7 DEF OwnTrue
  <1>7. r.at \in Holding
    BY <1>1 DEF Holding
  <1>8. /\ \A p \in Providers, u \in Users :
              oauth'[p][u] = NoToken => oauth[p][u] = NoToken \/ <<Owner[l], p, u>> \in held
        /\ \A b \in Addresses \ {Owner[l]} : link'[b] = link[b] /\ named'[b] = named[b]
        /\ cut \subseteq cut' /\ held \subseteq held'
        /\ UNCHANGED <<authTokens, sent, overlapped, replayed>>
    BY <1>0, <1>5
  <1>9. QED
    BY <1>0, <1>1, <1>3, <1>4, <1>6, <1>7, <1>8, GoesKeep

LEMMA CheckKeeps ==
    ASSUME LoginsInv, TokensInv, NEW h \in Handlers, Check(h)
    PROVE  LoginsInv'
  <1>l. PICK l : l = hand[h].login
    OBVIOUS
  <1> DEFINE p == hand[h].checking
             c == hand[h].copy[hand[h].checking]
  <1>0. hand[h].at = "check" /\ hand[h].at \in Busy /\ UNCHANGED <<db, sent, named, overlapped, replayed, held>>
    BY DEF Check, Busy
  <1>1. CASE c.user = NoUser /\ AfterCheck(h, hand[h].names) /\ UNCHANGED cut
    <2>1. PICK u : u = link[Owner[l]][p]
      OBVIOUS
    <2>2. Calm(Owner[l]) => hand[h].names = [hand[h].names EXCEPT ![p] = u]
      BY <1>l, <1>0, <1>1, <2>1, SameNames, CheckedLink
    <2>3. /\ UNCHANGED <<authTokens, oauth, sent, history>> /\ link' = link
          /\ link[Owner[l]] = [link[Owner[l]] EXCEPT ![p] = u]
      <3>1. link[Owner[l]] \in Links
        BY <1>l, <1>0, TokensFacts, LoginsAssumption DEF TokensInv, BusyHaveRows, Facts
      <3>2. QED
        BY <1>0, <1>1, <2>1, <3>1 DEF db, history, Links
    <2>4. PICK n, r : /\ n = hand[h].names /\ r = NextCheck(hand[h], n)
                      /\ hand' = [hand EXCEPT ![h] = r]
      BY <1>1 DEF AfterCheck
    <2>5. Checks(h, l, n, u, r)
      BY <1>l, <1>0, <2>1, <2>2, <2>3, <2>4 DEF Checks, history
    <2>6. QED
      BY <2>5, AfterCheckKeeps
  <1>2. CASE c.user # NoUser /\ AfterCheck(h, [hand[h].names EXCEPT ![p] = c.user]) /\ UNCHANGED cut
    <2>1. PICK u : u = link[Owner[l]][p]
      OBVIOUS
    <2>2. PICK n : n = [hand[h].names EXCEPT ![p] = c.user]
      OBVIOUS
    <2>3. Calm(Owner[l]) => n = [hand[h].names EXCEPT ![p] = u]
      BY <1>l, <1>0, <2>1, <2>2, CheckedLink
    <2>4. /\ UNCHANGED <<authTokens, oauth, sent, history>> /\ link' = link
          /\ link[Owner[l]] = [link[Owner[l]] EXCEPT ![p] = u]
      <3>1. link[Owner[l]] \in Links
        BY <1>l, <1>0, TokensFacts, LoginsAssumption DEF TokensInv, BusyHaveRows, Facts
      <3>2. QED
        BY <1>0, <1>2, <2>1, <3>1 DEF db, history, Links
    <2>5. PICK r : r = NextCheck(hand[h], n) /\ hand' = [hand EXCEPT ![h] = r]
      BY <1>2, <2>2 DEF AfterCheck
    <2>6. Checks(h, l, n, u, r)
      BY <1>l, <1>0, <2>1, <2>3, <2>4, <2>5 DEF Checks, history
    <2>7. QED
      BY <2>6, AfterCheckKeeps
  <1>3. CASE c.user # NoUser /\ Goto(h, "wipe") /\ UNCHANGED cut
    BY <1>l, <1>0, <1>3, WipingKeeps DEF db, history
  <1>4. CASE Throw(h)
    BY <1>0, <1>4, ThrowKeeps DEF db
  <1>5. QED
    BY <1>1, <1>2, <1>3, <1>4 DEF Check

LEMMA WipeKeeps ==
    ASSUME LoginsInv, TokensInv, NEW h \in Handlers, Wipe(h)
    PROVE  LoginsInv'
  <1>l. PICK l : l = hand[h].login
    OBVIOUS
  <1>1. QED
    BY <1>l, WipingKeeps DEF Wipe

LEMMA DropKeeps ==
    ASSUME LoginsInv, TokensInv, NEW h \in Handlers, Drop(h)
    PROVE  LoginsInv'
  <1>l. PICK l : l = hand[h].login
    OBVIOUS
  <1>0. hand[h].at = "drop"
        /\ link' = [link EXCEPT ![Owner[l]][hand[h].checking] = NoUser]
        /\ UNCHANGED <<authTokens, oauth, sent, history>>
    BY <1>l DEF Drop
  <1>r. PICK n, r : /\ n = hand[h].names /\ r = NextCheck(hand[h], n)
                    /\ hand' = [hand EXCEPT ![h] = r]
    BY DEF Drop, AfterCheck
  <1>1. Facts(h) /\ Owner[l] \in Addresses /\ hand[h].checking \in Providers
    BY <1>l, <1>0, TokensFacts DEF TokensInv, BusyHaveRows, Facts, Busy, Hand
  <1>2. /\ \A b \in Addresses \ {Owner[l]} : link'[b] = link[b]
        /\ link'[Owner[l]] = [link[Owner[l]] EXCEPT ![hand[h].checking] = NoUser]
    BY <1>0, <1>1 DEF Facts
  <1>3. Calm(Owner[l]) => hand[h].names = [hand[h].names EXCEPT ![hand[h].checking] = NoUser]
    BY <1>l, <1>0, SameNames
  <1>4. Checks(h, l, n, NoUser, r)
    BY <1>l, <1>r, <1>0, <1>2, <1>3 DEF Checks, history
  <1>5. QED
    BY <1>4, AfterCheckKeeps

LEMMA AnswerKeeps ==
    ASSUME LoginsInv, TokensInv, NEW h \in Handlers, Answer(h)
    PROVE  LoginsInv'
  <1>l. PICK l : l = hand[h].login
    OBVIOUS
  <1>0. Facts(h) /\ l \in Lineages /\ Owner[l] \in Addresses /\ hand[h].at = "answer"
        /\ hand[h].at \in Busy /\ hand[h].at \in Holding
        /\ UNCHANGED <<authTokens, oauth, link, overlapped, cut, replayed, held>>
    BY <1>l, TokensFacts DEF TokensInv, BusyHaveRows, Facts, Answer, Busy, Holding, db
  <1>1. PICK r : /\ hand' = [hand EXCEPT ![h] = r] /\ r.login = l /\ r.at = "done"
                 /\ Early(r) /\ r.at \notin Busy
    BY <1>l, EndRecord DEF Answer
  <1>2. PICK t : t = [by |-> h, login |-> l, generation |-> hand[h].generation]
    OBVIOUS
  <1>3. t.login = l /\ t.generation = hand[h].generation /\ sent' = sent \cup {t}
    BY <1>l, <1>2 DEF Answer
  <1>4. named'[Owner[l]] = hand[h].names
        /\ \A b \in Addresses \ {Owner[l]} : named'[b] = named[b]
    BY <1>l, <1>0 DEF Answer, Facts
  <1>5. StepOf(h, l, r)
    BY <1>l, <1>0, <1>1, <1>3, <1>4 DEF StepOf
  <1>6. LoginTrue(l)'
    <2>1. LoginTrue(l) /\ hand[h].generation <= authTokens[l].generation
      BY <1>l, <1>0 DEF LoginsInv, TokensInv, HeldWereTaken
    <2>2. Current(l) => Current(l)'
      <3>1. \A k \in Handlers \ {h} : hand'[k] = hand[k]
        BY <1>0, <1>1 DEF Facts
      <3>2. CASE \E s \in sent : s.login = l /\ s.generation = authTokens[l].generation
        BY <1>0, <1>3, <3>2 DEF Current
      <3>3. ASSUME NEW k \in Handlers, hand[k].at \in Holding, hand[k].login = l,
                   hand[k].generation = authTokens[l].generation
            PROVE  Current(l)'
        BY <1>0, <1>3, <3>1, <3>3 DEF Current, Holding
      <3>4. QED
        BY <3>2, <3>3 DEF Current, Holding
    <2>3. QED
      BY <1>0, <1>3, <2>1, <2>2 DEF LoginTrue, Calm
  <1>7. ASSUME Calm(Owner[l])' PROVE OwnTrue(h, Owner[l])'
    <2>1. Calm(Owner[l]) /\ ~Works(h, Owner[l])'
      BY <1>0, <1>1, <1>7 DEF Calm, Works, Facts
    <2>2. RequestTrue(h, Owner[l])
      BY <1>l, <1>0, <2>1, OwnHas
    <2>3. named'[Owner[l]] = link[Owner[l]]
      BY <1>0, <1>4, <2>2 DEF RequestTrue
    <2>4. ASSUME NEW p \in Providers PROVE TokenTrue(Owner[l], p)'
      <3>1. link[Owner[l]][p] # NoUser /\ oauth[p][link[Owner[l]][p]] = NoToken =>
               Shared(Owner[l], p, link[Owner[l]][p])
        BY <1>l, <1>0, <2>1, OwnHas
      <3>2. QED
        BY <1>0, <3>1 DEF TokenTrue, Shared
    <2>5. QED
      BY <1>0, <2>1, <2>3, <2>4 DEF OwnTrue
  <1>8. \A p \in Providers : Held(Owner[l], p, link[Owner[l]][p])'
    BY <1>0 DEF LoginsInv, HeldTrue, Held
  <1>9. Owner[l] \notin overlapped' => \A k \in Handlers \ {h} : ~Works(k, Owner[l])
    BY <1>l, <1>0, Alone
  <1>10. QED
    BY <1>0, <1>1, <1>5, <1>6, <1>7, <1>8, <1>9, StepFrame


LEMMA ExpireKeeps ==
    ASSUME LoginsInv, TokensInv, NEW e \in Lineages, Expire(e)
    PROVE  LoginsInv'
  <1>0. /\ UNCHANGED <<oauth, link, sent, hand, named, overlapped, cut, replayed, held>>
        /\ authTokens \in [Lineages -> Row] /\ BusyHaveRows
    BY DEF Expire, history, TokensInv, TypeOK
  <1>1. \A l \in Lineages : /\ authTokens'[l].row = authTokens[l].row
                            /\ authTokens'[l].generation = authTokens[l].generation
                            /\ authTokens[l].expired => authTokens'[l].expired
    BY <1>0 DEF Expire, Row
  <1>2. OneAtWork' /\ HeldTrue' /\ \A h \in Handlers : Early(hand[h])'
    <2>1. OneAtWork'
      BY <1>0 DEF LoginsInv, OneAtWork, Works
    <2>2. HeldTrue'
      BY <1>0 DEF LoginsInv, HeldTrue, Held, HandHeld
    <2>3. QED
      BY <1>0, <2>1, <2>2 DEF LoginsInv
  <1>3. ASSUME NEW l \in Lineages PROVE LoginTrue(l)'
    <2>1. Current(l) => Current(l)'
      BY <1>0, <1>1 DEF Current
    <2>2. QED
      BY <1>0, <1>1, <2>1 DEF LoginsInv, LoginTrue, Calm
  <1>4. ASSUME NEW a \in Addresses, Calm(a)'
        PROVE  /\ AddressTrue(a)'
               /\ \A p \in Providers : TokenTrue(a, p)'
               /\ \A h \in Handlers : Works(h, a)' => UserTrue(h, a)'
    <2>1. Calm(a) /\ \A h \in Handlers : Works(h, a)' <=> Works(h, a)
      BY <1>0, <1>4 DEF Calm, Works
    <2>2. ASSUME NEW h \in Handlers, Works(h, a) PROVE RequestTrue(h, a)'
      <3>1. RequestTrue(h, a) /\ hand[h].login \in Lineages
        BY <1>0, <2>1, <2>2 DEF LoginsInv, AddressTrue, Works, BusyHaveRows
      <3>2. CopyTrue(h, a)' <=> CopyTrue(h, a)
        BY <1>0 DEF CopyTrue
      <3>3. QED
        BY <1>0, <1>1, <3>1, <3>2 DEF RequestTrue
    <2>3. AddressTrue(a)'
      BY <1>0, <2>1, <2>2 DEF LoginsInv, AddressTrue
    <2>4. \A p \in Providers : TokenTrue(a, p)'
      BY <1>0, <2>1 DEF LoginsInv, TokenTrue, Shared
    <2>5. \A h \in Handlers : Works(h, a)' => UserTrue(h, a)'
      BY <1>0, <2>1 DEF LoginsInv, UserTrue, Shared
    <2>6. QED
      BY <2>3, <2>4, <2>5
  <1>5. PatientStayLoggedIn'
    BY <1>0, <1>1 DEF LoginsInv, PatientStayLoggedIn
  <1>6. QED
    BY <1>2, <1>3, <1>4, <1>5 DEF LoginsInv

LEMMA StutterKeeps == ASSUME LoginsInv, UNCHANGED loginVars PROVE LoginsInv'
  <1>0. UNCHANGED <<authTokens, oauth, link, sent, hand, named, overlapped, cut, replayed, held>>
    BY DEF loginVars, db, history
  <1>1. OneAtWork'
    BY <1>0 DEF LoginsInv, OneAtWork, Works
  <1>2. HeldTrue'
    BY <1>0 DEF LoginsInv, HeldTrue, Held, HandHeld
  <1>3. \A h \in Handlers : Early(hand[h])'
    BY <1>0 DEF LoginsInv
  <1>4. \A l \in Lineages : LoginTrue(l)'
    BY <1>0 DEF LoginsInv, LoginTrue, Current, Calm
  <1>5. ASSUME NEW a \in Addresses, Calm(a)'
        PROVE  /\ AddressTrue(a)'
               /\ \A p \in Providers : TokenTrue(a, p)'
               /\ \A h \in Handlers : Works(h, a)' => UserTrue(h, a)'
    <2>1. Calm(a) /\ \A h \in Handlers : Works(h, a)' <=> Works(h, a)
      BY <1>0, <1>5 DEF Calm, Works
    <2>2. \A h \in Handlers : RequestTrue(h, a)' <=> RequestTrue(h, a)
      BY <1>0 DEF RequestTrue, CopyTrue
    <2>3. AddressTrue(a)'
      BY <1>0, <2>1, <2>2 DEF LoginsInv, AddressTrue
    <2>4. \A p \in Providers : TokenTrue(a, p)'
      BY <1>0, <2>1 DEF LoginsInv, TokenTrue, Shared
    <2>5. \A h \in Handlers : Works(h, a)' => UserTrue(h, a)'
      BY <1>0, <2>1 DEF LoginsInv, UserTrue, Shared
    <2>6. QED
      BY <2>3, <2>4, <2>5
  <1>6. PatientStayLoggedIn'
    BY <1>0 DEF LoginsInv, PatientStayLoggedIn
  <1>7. QED
    BY <1>1, <1>2, <1>3, <1>4, <1>5, <1>6 DEF LoginsInv

LEMMA InitLogins == Init => LoginsInv
  <1> SUFFICES ASSUME Init PROVE LoginsInv
    OBVIOUS
  <1>1. \A h \in Handlers : hand[h] = Idle /\ hand[h].at = "idle"
    BY IdleType DEF Init
  <1>2. OneAtWork /\ \A h \in Handlers, a \in Addresses : ~Works(h, a)
    BY <1>1 DEF OneAtWork, Works, Busy
  <1>3. \A a \in Addresses, p \in Providers :
           /\ Held(a, p, link[a][p])
           /\ link[a][p] # NoUser => oauth[p][link[a][p]] # NoToken
    <2> TAKE a \in Addresses, p \in Providers
    <2>1. link[a][p] \in Users \cup {NoUser}
      BY DEF Init, Links
    <2>2. CASE link[a][p] = NoUser
      BY <2>2 DEF Held
    <2>3. CASE link[a][p] \in Users
      <3>1. <<a, p, link[a][p]>> \in held
        BY <2>3 DEF Init
      <3>2. a \in Linked(p, link[a][p])
        BY DEF Linked
      <3>3. oauth[p][link[a][p]] = OldToken
        BY <2>3, <3>2 DEF Init
      <3>4. OldToken # NoToken
        BY LoginsAssumption DEF Tokens
      <3>5. QED
        BY <3>1, <3>3, <3>4 DEF Held
    <2>4. QED
      BY <2>1, <2>2, <2>3
  <1>4. HeldTrue /\ \A h \in Handlers : Early(hand[h])
    BY <1>1, <1>3 DEF HeldTrue, Early, Busy
  <1>5. ASSUME NEW l \in Lineages PROVE LoginTrue(l) /\ authTokens[l].row # "purged"
    <2>1. /\ authTokens[l].row \in {"none", "live"} /\ authTokens[l].generation = 0
          /\ \A s \in sent : s.generation = 0
      <3>1. \A s \in sent : s.generation = 0
        BY DEF Init
      <3>2. authTokens[l] \in [row : {"none", "live"}, generation : {0}, expired : {FALSE}]
        BY DEF Init
      <3>3. QED
        BY <3>1, <3>2
    <2>2. authTokens[l].row = "live" => Current(l)
      <3>1. SUFFICES ASSUME authTokens[l].row = "live" PROVE Current(l)
        OBVIOUS
      <3>2. [by |-> NoHandler, login |-> l, generation |-> 0] \in sent
        BY <3>1 DEF Init
      <3>3. QED
        BY <2>1, <3>2 DEF Current
    <2>3. QED
      BY <2>1, <2>2 DEF LoginTrue
  <1>6. \A a \in Addresses : AddressTrue(a) /\ \A p \in Providers : TokenTrue(a, p)
    BY <1>2, <1>3 DEF AddressTrue, TokenTrue, Init
  <1>7. PatientStayLoggedIn
    BY <1>5 DEF PatientStayLoggedIn
  <1>8. QED
    BY <1>2, <1>4, <1>5, <1>6, <1>7 DEF LoginsInv

LEMMA LoginsInductive == LoginsInv /\ TokensInv /\ [Next]_loginVars => LoginsInv'
  <1> SUFFICES ASSUME LoginsInv, TokensInv, [Next]_loginVars PROVE LoginsInv'
    OBVIOUS
  <1>1. CASE UNCHANGED loginVars
    BY <1>1, StutterKeeps
  <1>2. ASSUME NEW l \in Lineages, Expire(l) PROVE LoginsInv'
    BY <1>2, ExpireKeeps
  <1>3. ASSUME NEW h \in Handlers, LoginStep(h) PROVE LoginsInv'
    <2>1. ASSUME NEW l \in Lineages, Login(h, l) PROVE LoginsInv'
      BY <2>1, LoginKeeps
    <2>2. ASSUME NEW l \in Lineages, NEW p \in Providers, Connect(h, l, p) PROVE LoginsInv'
      BY <2>2, ConnectKeeps
    <2>3. ASSUME NEW l \in Lineages, NEW p \in Providers, Disconnect(h, l, p) PROVE LoginsInv'
      BY <2>3, DisconnectKeeps
    <2>4. ASSUME NEW s \in sent, Refresh(h, s) PROVE LoginsInv'
      BY <2>4, RefreshKeeps
    <2>5. CASE UpsertUser(h)
      BY <2>5, UpsertUserKeeps
    <2>6. CASE Link(h)
      BY <2>6, LinkKeeps
    <2>7. CASE Unlink(h)
      BY <2>7, UnlinkKeeps
    <2>8. CASE Purge(h)
      BY <2>8, PurgeKeeps
    <2>9. CASE Bump(h)
      BY <2>9, BumpKeeps
    <2>10. CASE Check(h)
      BY <2>10, CheckKeeps
    <2>11. CASE Wipe(h)
      BY <2>11, WipeKeeps
    <2>12. CASE Drop(h)
      BY <2>12, DropKeeps
    <2>13. CASE Answer(h)
      BY <2>13, AnswerKeeps
    <2>14. CASE Crash(h)
      BY <2>14, ThrowKeeps DEF Crash
    <2>15. QED
      BY <1>3, <2>1, <2>2, <2>3, <2>4, <2>5, <2>6, <2>7, <2>8, <2>9, <2>10, <2>11, <2>12, <2>13,
         <2>14 DEF LoginStep
  <1>4. QED
    BY <1>1, <1>2, <1>3 DEF Next

LEMMA LoginsHold == Spec => []LoginsInv
  BY InitLogins, LoginsInductive, TokensHold, PTL DEF Spec

\* A login is purged only when it has expired, an outdated token of it was presented, or
\* requests for its address overlapped or got no answer: deleteAuthToken in /auth/refresh
\* is reached by no request of a client who waits for each pair and uses the newest.
THEOREM PatientStay == Spec => []PatientStayLoggedIn
  <1>1. LoginsInv => PatientStayLoggedIn
    BY DEF LoginsInv
  <1>2. QED
    BY <1>1, LoginsHold, PTL

\* Between requests that did not overlap and were answered, the users that the newest
\* pair of an address names are the ones its row is linked to, however /auth,
\* /auth/refresh and /oauth linked it, unlinked it, or dropped a link that failed a check.
THEOREM PairsTrue == Spec => []PairsAreTrue
  <1>1. LoginsInv => PairsAreTrue
    BY DEF LoginsInv, PairsAreTrue, AddressTrue, Quiet, Works, Calm
  <1>2. QED
    BY <1>1, LoginsHold, PTL

\* A user whom an address is linked to has an OAuth token in its row, because a failed
\* check removes the token and the link one after the other, unless another address was
\* ever connected to that user, or requests for the address overlapped, got no answer or
\* are still at work.
THEOREM ConnectedTokens == Spec => []ConnectedHaveTokens
  <1>1. ASSUME LoginsInv PROVE ConnectedHaveTokens
    <2> SUFFICES ASSUME NEW a \in Addresses, NEW p \in Providers, link[a][p] # NoUser,
                        oauth[p][link[a][p]] = NoToken, Calm(a), Quiet(a)
                 PROVE  Shared(a, p, link[a][p])
      BY DEF ConnectedHaveTokens, Shared, Calm
    <2>1. TokenTrue(a, p)
      BY <1>1 DEF LoginsInv
    <2>2. \A h \in Handlers : ~Works(h, a)
      BY DEF Quiet, Works
    <2>3. QED
      BY <2>1, <2>2 DEF TokenTrue
  <1>2. QED
    BY <1>1, LoginsHold, PTL


-----------------------------------------------------------------------------
(* What a validated e-mail proves: EmailInv.                               *)

ValidFits(e) ==
    emails[e].isValidated =>
        /\ emails[e].address # NoAddress =>
              <<e, emails[e].address>> \in followed \/ e \in overtaken
        /\ emails[e].address = NoAddress => e \in overtaken \cup swapped

LEMMA AllFit ==
    (\A e \in EmailAddresses : ValidFits(e)) <=> ValidatedWereFollowed /\ ValidatedHaveAddresses
  BY DEF ValidFits, ValidatedWereFollowed, ValidatedHaveAddresses

\* A row that changes without a mailer's step.
LEMMA RowsKeep ==
    ASSUME EmailInv, emails' \in [EmailAddresses -> Email],
           UNCHANGED <<mailed, mailer, emailHistory>>,
           \A e \in EmailAddresses : emails'[e] # emails[e] => TokenFits(e)' /\ ValidFits(e)'
    PROVE  EmailInv'
  <1>1. EmailTypes'
    BY DEF EmailInv, EmailTypes, emailHistory
  <1>2. ASSUME NEW e \in EmailAddresses PROVE TokenFits(e)' /\ ValidFits(e)'
    BY AllFit DEF EmailInv, TokenFits, ValidFits, emailHistory
  <1>3. \A m \in Mailers : MailerTrue(m)'
    BY DEF EmailInv, MailerTrue, emailHistory
  <1>4. (ValidatedWereFollowed /\ ValidatedHaveAddresses)'
    BY <1>2 DEF ValidFits, ValidatedWereFollowed, ValidatedHaveAddresses
  <1>5. QED
    BY <1>1, <1>2, <1>3, <1>4 DEF EmailInv

\* A mailer's step.
LEMMA MailerKeeps ==
    ASSUME EmailInv, NEW m \in Mailers, NEW r \in Mailer, mailer' = [mailer EXCEPT ![m] = r],
           mailer[m].at # "done", mailer[m].at = "mail" => r.at = "done",
           emails' \in [EmailAddresses -> Email],
           followed \subseteq followed', followed' \subseteq EmailAddresses \X Addresses,
           overtaken \subseteq overtaken', overtaken' \subseteq EmailAddresses,
           swapped \subseteq swapped', swapped' \subseteq EmailAddresses,
           \/ mailed' = mailed
           \/ /\ mailer[m].at = "mail"
              /\ mailed' = mailed \cup {[activeToken |-> m, to |-> mailer[m].email,
                                         from |-> mailer[m].address]},
           MailerTrue(m)',
           \A e \in EmailAddresses : emails'[e] # emails[e] => TokenFits(e)' /\ ValidFits(e)'
    PROVE  EmailInv'
  <1>0. EmailTypes /\ MailerTrue(m) /\ mailer \in [Mailers -> Mailer]
    BY DEF EmailInv, EmailTypes
  <1>1. EmailTypes'
    <2>1. mailed' \subseteq [activeToken : Mailers, to : EmailAddresses, from : Addresses]
      BY <1>0 DEF EmailTypes, MailerTrue
    <2>2. mailer' \in [Mailers -> Mailer]
      BY <1>0
    <2>3. QED
      BY <1>0, <2>1, <2>2 DEF EmailTypes
  <1>2. mailer'[m] = r /\ \A k \in Mailers \ {m} : mailer'[k] = mailer[k]
    BY <1>0
  <1>3. \A t \in mailed : t.activeToken \in Mailers \ {m} /\ mailer[t.activeToken].at = "done"
    BY <1>0 DEF EmailInv, EmailTypes
  <1>4. ASSUME NEW t \in mailed', t \notin mailed
        PROVE  t.activeToken = m /\ t.to = mailer[m].email /\ t.from = mailer[m].address
               /\ mailer[m].at = "mail"
    BY <1>4
  <1>5. \A t \in mailed' : mailer'[t.activeToken].at = "done"
    BY <1>2, <1>3, <1>4
  <1>6. \A k \in Mailers : MailerTrue(k)'
    BY <1>2 DEF EmailInv, MailerTrue
  <1>7. ASSUME NEW e \in EmailAddresses PROVE TokenFits(e)' /\ ValidFits(e)'
    <2>1. CASE emails'[e] # emails[e]
      BY <2>1
    <2>2. CASE emails'[e] = emails[e]
      <3>0. TokenFits(e) /\ ValidFits(e) /\ emails[e].activeToken \in Mailers \cup {NoMail}
        BY <1>0, AllFit DEF EmailInv, EmailTypes, Email
      <3>1. ValidFits(e)'
        BY <2>2, <3>0 DEF ValidFits
      <3>2. CASE emails[e].activeToken = NoMail
        BY <2>2, <3>1, <3>2 DEF TokenFits
      <3>3. CASE emails[e].activeToken = m /\ m # NoMail
        <4>1. mailer[m].at = "mail" /\ r.at = "done"
          BY <3>0, <3>3 DEF TokenFits
        <4>2. e \notin overtaken => mailer[m].email = e /\ emails[e].address \in {mailer[m].address, NoAddress}
          BY <3>0, <3>3, <4>1 DEF TokenFits
        <4>3. ASSUME NEW t \in mailed', t.activeToken = m, e \notin overtaken'
              PROVE  t.to = e /\ emails[e].address \in {t.from, NoAddress}
          <5>1. t \notin mailed
            BY <1>3, <4>3
          <5>2. QED
            BY <1>4, <4>2, <4>3, <5>1
        <4>4. QED
          <5>1. mailer'[m].at = "done" /\ emails'[e] = emails[e]
            BY <1>2, <2>2, <4>1
          <5>2. emails[e].tokenExpiresAt # "null"
                /\ (emails[e].address = NoAddress => e \in overtaken' \cup swapped')
            BY <3>0, <3>3 DEF TokenFits
          <5>3. QED
            BY <3>1, <3>3, <4>3, <5>1, <5>2 DEF TokenFits
      <3>4. CASE emails[e].activeToken \in Mailers \ {m}
        <4>1. \A t \in mailed' : t.activeToken = emails[e].activeToken => t \in mailed
          BY <1>4, <3>4
        <4>2. QED
          BY <1>2, <2>2, <3>0, <3>1, <3>4, <4>1 DEF TokenFits
      <3>5. QED
        BY <3>0, <3>2, <3>3, <3>4
    <2>3. QED
      BY <2>1, <2>2
  <1>8. (ValidatedWereFollowed /\ ValidatedHaveAddresses)'
    BY <1>7 DEF ValidFits, ValidatedWereFollowed, ValidatedHaveAddresses
  <1>9. QED
    BY <1>1, <1>5, <1>6, <1>7, <1>8 DEF EmailInv

LEMMA EmptyType == Empty \in Email /\ Waiting \in Mailer
  BY DEF Empty, Email, Waiting, Mailer

LEMMA DoneRecord ==
    ASSUME NEW m \in Mailers, Done(m)
    PROVE  \E r \in Mailer : /\ mailer' = [mailer EXCEPT ![m] = r] /\ r.at = "done"
  <1> DEFINE r == [Waiting EXCEPT !.at = "done"]
  <1>1. r \in Mailer /\ r.at = "done"
    BY EmptyType DEF Waiting, Mailer
  <1>2. QED
    BY <1>1 DEF Done

\* A request that ends.
LEMMA DoneKeeps ==
    ASSUME EmailInv, NEW m \in Mailers, mailer[m].at # "done", Done(m),
           emails' \in [EmailAddresses -> Email],
           followed \subseteq followed', followed' \subseteq EmailAddresses \X Addresses,
           overtaken \subseteq overtaken', overtaken' \subseteq EmailAddresses,
           UNCHANGED swapped,
           \/ mailed' = mailed
           \/ /\ mailer[m].at = "mail"
              /\ mailed' = mailed \cup {[activeToken |-> m, to |-> mailer[m].email,
                                         from |-> mailer[m].address]},
           \A e \in EmailAddresses : emails'[e] # emails[e] => TokenFits(e)' /\ ValidFits(e)'
    PROVE  EmailInv'
  <1>1. PICK r \in Mailer : mailer' = [mailer EXCEPT ![m] = r] /\ r.at = "done"
    BY DoneRecord
  <1>2. MailerTrue(m)'
    BY <1>1 DEF MailerTrue, EmailInv, EmailTypes
  <1>3. swapped \subseteq swapped' /\ swapped' \subseteq EmailAddresses
    BY DEF EmailInv, EmailTypes
  <1>4. QED
    BY <1>1, <1>2, <1>3, MailerKeeps

\* A request that begins: the row is read.
LEMMA AskKeeps ==
    ASSUME EmailInv, NEW m \in Mailers, mailer[m].at = "idle",
           NEW step \in {"upsert", "update", "clear", "validate"},
           NEW a \in Addresses \cup {NoAddress}, NEW e \in EmailAddresses, Ask(m, step, a, e),
           UNCHANGED <<emails, mailed, overtaken, swapped>>,
           followed \subseteq followed', followed' \subseteq EmailAddresses \X Addresses,
           step \in {"upsert", "update"} => a \in Addresses,
           step \in {"upsert", "clear"} => ~emails[e].isValidated,
           step = "validate" =>
               /\ emails[e].address = NoAddress => e \in overtaken \cup swapped
               /\ emails[e].address # NoAddress =>
                     <<e, emails[e].address>> \in followed' \/ e \in overtaken
    PROVE  EmailInv'
  <1> DEFINE r == [at |-> step, address |-> a, email |-> e, seen |-> emails[e]]
  <1>1. EmailTypes /\ e # NoEmail
    BY EmailsAssumption DEF EmailInv
  <1>2. mailer' = [mailer EXCEPT ![m] = r]
    BY <1>1 DEF Ask
  <1>3. r \in Mailer
    BY <1>1 DEF Mailer, EmailTypes
  <1>4. MailerTrue(m)'
    BY <1>1, <1>2 DEF MailerTrue, EmailTypes
  <1>5. emails' \in [EmailAddresses -> Email] /\ overtaken' \subseteq EmailAddresses
        /\ swapped' \subseteq EmailAddresses
    BY <1>1 DEF EmailTypes
  <1> HIDE DEF r
  <1>6. QED
    BY <1>2, <1>3, <1>4, <1>5, MailerKeeps


LEMMA PostKeeps ==
    ASSUME EmailInv, NEW m \in Mailers, NEW a \in Addresses, NEW e \in EmailAddresses, Post(m, a, e)
    PROVE  EmailInv'
  <1>0. /\ mailer[m].at = "idle" /\ UNCHANGED <<emails, mailed, followed, overtaken, swapped>>
        /\ EmailTypes
    BY DEF Post, emailHistory, EmailInv
  <1>1. CASE IsTaken(e) /\ Done(m)
    BY <1>0, <1>1, DoneKeeps DEF EmailTypes
  <1>2. CASE ~IsTaken(e) /\ Ask(m, "upsert", a, e)
    BY <1>0, <1>2, AskKeeps DEF IsTaken, EmailTypes
  <1>3. QED
    BY <1>1, <1>2 DEF Post

LEMMA ResendKeeps ==
    ASSUME EmailInv, NEW m \in Mailers, NEW a \in Addresses, Resend(m, a)
    PROVE  EmailInv'
  <1>0. /\ mailer[m].at = "idle" /\ UNCHANGED <<emails, mailed, followed, overtaken, swapped>>
        /\ EmailTypes
    BY DEF Resend, emailHistory, EmailInv
  <1>1. CASE Done(m)
    BY <1>0, <1>1, DoneKeeps DEF EmailTypes
  <1>2. ASSUME NEW e \in EmailAddresses, Ask(m, "update", a, e) PROVE EmailInv'
    BY <1>0, <1>2, AskKeeps DEF EmailTypes
  <1>3. QED
    BY <1>1, <1>2 DEF Resend, Of

LEMMA UpsertKeeps ==
    ASSUME EmailInv, NEW m \in Mailers, UpsertUnverifiedEmail(m)
    PROVE  EmailInv'
  <1>a. PICK a : a = mailer[m].address
    OBVIOUS
  <1>e. PICK e : e = mailer[m].email
    OBVIOUS
  <1>o. PICK others : others = Of(a) \ {e}
    OBVIOUS
  <1>0. /\ mailer[m].at = "upsert" /\ UNCHANGED <<mailed, followed>> /\ EmailTypes
        /\ a \in Addresses /\ a # NoAddress /\ e \in EmailAddresses /\ ~mailer[m].seen.isValidated
    BY <1>a, <1>e, EmailsAssumption DEF UpsertUnverifiedEmail, EmailInv, MailerTrue
  <1>1. CASE Done(m) /\ UNCHANGED <<emails, overtaken, swapped>>
    BY <1>0, <1>1, DoneKeeps DEF EmailTypes
  <1>2. ASSUME emails' = [f \in EmailAddresses |->
                 IF f = e THEN [emails[e] EXCEPT !.address = a, !.activeToken = m,
                                                 !.tokenExpiresAt = "ahead"]
                 ELSE IF f \in others THEN Released(f)
                 ELSE emails[f]],
               Overtake(m, e), swapped' = swapped \cup others,
               mailer' = [mailer EXCEPT ![m].at = "mail"]
        PROVE  EmailInv'
    <2>1. PICK r : r = [mailer[m] EXCEPT !.at = "mail"]
      OBVIOUS
    <2>2. /\ r \in Mailer /\ r.at = "mail" /\ r.email = e /\ r.address = a
          /\ mailer' = [mailer EXCEPT ![m] = r] /\ mailer'[m] = r
          /\ \A k \in Mailers \ {m} : mailer'[k] = mailer[k]
      BY <1>0, <1>a, <1>e, <1>2, <2>1 DEF EmailTypes, Mailer
    <2>3. /\ emails'[e].address = a /\ emails'[e].activeToken = m
          /\ emails'[e].tokenExpiresAt = "ahead" /\ emails'[e].isValidated = emails[e].isValidated
          /\ emails'[e] \in Email
      BY <1>0, <1>2 DEF EmailTypes, Email
    <2>4. \A f \in EmailAddresses \ ({e} \cup others) : emails'[f] = emails[f]
      BY <1>2
    <2>5. \A f \in others :
             /\ f \in EmailAddresses /\ emails'[f].address = NoAddress
             /\ emails'[f].activeToken = emails[f].activeToken
             /\ emails'[f].tokenExpiresAt = emails[f].tokenExpiresAt
             /\ emails'[f] \in Email /\ f \in swapped'
      BY <1>0, <1>2, <1>o DEF EmailTypes, Email, Released, Of
    <2>6. overtaken' \subseteq EmailAddresses /\ overtaken \subseteq overtaken'
          /\ (e \notin overtaken' => emails[e] = mailer[m].seen)
      BY <1>0, <1>2 DEF Overtake, EmailTypes
    <2>7. swapped \subseteq swapped' /\ swapped' \subseteq EmailAddresses
      BY <1>0, <1>2, <1>o DEF EmailTypes, Of
    <2>8. emails' \in [EmailAddresses -> Email]
      <3>1. \A f \in EmailAddresses : emails'[f] \in Email
        BY <1>0, <2>3, <2>4, <2>5 DEF EmailTypes
      <3>2. QED
        BY <1>2, <3>1
    <2>9. TokenFits(e)' /\ ValidFits(e)'
      <3>1. \A t \in mailed : t.activeToken # m
        BY <1>0 DEF EmailInv
      <3>2. TokenFits(e)'
        BY <1>0, <2>2, <2>3, <3>1 DEF TokenFits
      <3>3. ValidFits(e)'
        BY <1>0, <2>3, <2>6 DEF ValidFits
      <3>4. QED
        BY <3>2, <3>3
    <2>10. ASSUME NEW f \in others PROVE TokenFits(f)' /\ ValidFits(f)'
      <3>1. ValidFits(f)'
        BY <2>5 DEF ValidFits
      <3>2. CASE emails[f].activeToken = NoMail
        BY <2>5, <3>1, <3>2 DEF TokenFits
      <3>3. CASE emails[f].activeToken # NoMail
        <4>1. TokenFits(f)
          BY <2>5 DEF EmailInv
        <4>2. emails[f].activeToken # m
          BY <1>0, <3>3, <4>1 DEF TokenFits
        <4>3. emails[f].activeToken \in Mailers
          BY <1>0, <2>5, <3>3 DEF EmailTypes, Email
        <4>4. mailer'[emails[f].activeToken] = mailer[emails[f].activeToken]
          BY <2>2, <4>2, <4>3
        <4>5. QED
          BY <1>0, <2>5, <2>6, <3>1, <3>3, <4>1, <4>4 DEF TokenFits
      <3>4. QED
        BY <3>2, <3>3
    <2>11. \A f \in EmailAddresses : emails'[f] # emails[f] => TokenFits(f)' /\ ValidFits(f)'
      BY <2>4, <2>9, <2>10
    <2>12. MailerTrue(m)'
      BY <1>0, <2>2 DEF MailerTrue
    <2>13. followed \subseteq followed' /\ followed' \subseteq EmailAddresses \X Addresses
      BY <1>0 DEF EmailTypes
    <2>14. QED
      BY <1>0, <2>2, <2>6, <2>7, <2>8, <2>11, <2>12, <2>13, MailerKeeps
  <1>3. QED
    BY <1>a, <1>e, <1>o, <1>1, <1>2 DEF UpsertUnverifiedEmail

LEMMA MailKeeps ==
    ASSUME EmailInv, NEW m \in Mailers, Mail(m)
    PROVE  EmailInv'
  <1>0. /\ mailer[m].at = "mail" /\ UNCHANGED <<emails, followed, overtaken, swapped>>
        /\ EmailTypes /\ Done(m)
    BY DEF Mail, emailHistory, EmailInv
  <1>1. QED
    BY <1>0, DoneKeeps DEF Mail, EmailTypes

LEMMA UpdateTokenKeeps ==
    ASSUME EmailInv, NEW m \in Mailers, UpdateToken(m)
    PROVE  EmailInv'
  <1>0. /\ mailer[m].at = "update" /\ UNCHANGED <<mailed, followed, swapped>> /\ EmailTypes
        /\ mailer[m].address \in Addresses /\ mailer[m].address # NoAddress
        /\ mailer[m].email \in EmailAddresses
    BY EmailsAssumption DEF UpdateToken, EmailInv, MailerTrue
  <1>1. CASE Done(m) /\ UNCHANGED <<emails, overtaken>>
    BY <1>0, <1>1, DoneKeeps DEF EmailTypes
  <1>2. ASSUME NEW e \in Of(mailer[m].address),
               emails' = [emails EXCEPT ![e] = [@ EXCEPT !.activeToken = m,
                                                         !.tokenExpiresAt = "ahead"]],
               overtaken' = IF e = mailer[m].email THEN overtaken ELSE overtaken \cup {e},
               mailer' = [mailer EXCEPT ![m].at = "mail"]
        PROVE  EmailInv'
    <2>0. e \in EmailAddresses /\ emails[e].address = mailer[m].address
      BY DEF Of
    <2>1. PICK r : r = [mailer[m] EXCEPT !.at = "mail"]
      OBVIOUS
    <2>2. /\ r \in Mailer /\ r.at = "mail" /\ r.email = mailer[m].email
          /\ r.address = mailer[m].address
          /\ mailer' = [mailer EXCEPT ![m] = r] /\ mailer'[m] = r
      BY <1>0, <1>2, <2>1 DEF EmailTypes, Mailer
    <2>3. /\ emails'[e].address = mailer[m].address /\ emails'[e].activeToken = m
          /\ emails'[e].tokenExpiresAt = "ahead" /\ emails'[e].isValidated = emails[e].isValidated
          /\ emails'[e] \in Email /\ emails' \in [EmailAddresses -> Email]
          /\ \A f \in EmailAddresses \ {e} : emails'[f] = emails[f]
      BY <1>0, <1>2, <2>0 DEF EmailTypes, Email
    <2>4. TokenFits(e)' /\ ValidFits(e)'
      <3>1. \A t \in mailed : t.activeToken # m
        BY <1>0 DEF EmailInv
      <3>2. TokenFits(e)'
        BY <1>0, <1>2, <2>2, <2>3, <3>1 DEF TokenFits
      <3>3. ValidFits(e)
        BY <2>0, AllFit DEF EmailInv
      <3>4. ValidFits(e)'
        BY <1>0, <1>2, <2>0, <2>3, <3>3 DEF ValidFits
      <3>5. QED
        BY <3>2, <3>4
    <2>5. MailerTrue(m)'
      BY <1>0, <2>2 DEF MailerTrue
    <2>6. /\ followed \subseteq followed' /\ followed' \subseteq EmailAddresses \X Addresses
          /\ overtaken \subseteq overtaken' /\ overtaken' \subseteq EmailAddresses
          /\ swapped \subseteq swapped' /\ swapped' \subseteq EmailAddresses
      BY <1>0, <1>2, <2>0 DEF EmailTypes
    <2>7. QED
      BY <1>0, <2>2, <2>3, <2>4, <2>5, <2>6, MailerKeeps
  <1>3. QED
    BY <1>1, <1>2 DEF UpdateToken

LEMMA VerifyKeeps ==
    ASSUME EmailInv, NEW m \in Mailers, NEW t \in mailed, Verify(m, t)
    PROVE  EmailInv'
  <1>0. /\ mailer[m].at = "idle" /\ UNCHANGED <<emails, mailed, overtaken, swapped>>
        /\ EmailTypes /\ followed' = followed \cup {<<t.to, t.from>>}
        /\ t.to \in EmailAddresses /\ t.from \in Addresses /\ t.activeToken \in Mailers
        /\ t.activeToken # NoMail
    BY EmailsAssumption DEF Verify, EmailInv, EmailTypes
  <1>1. followed \subseteq followed' /\ followed' \subseteq EmailAddresses \X Addresses
    BY <1>0 DEF EmailTypes
  <1>2. CASE Done(m)
    BY <1>0, <1>1, <1>2, DoneKeeps DEF EmailTypes
  <1>3. ASSUME NEW e \in Found(t)
        PROVE  /\ e \in EmailAddresses /\ TokenFits(e) /\ emails[e].activeToken = t.activeToken
               /\ emails[e].tokenExpiresAt # "null"
               /\ emails[e].address = NoAddress => e \in overtaken \cup swapped
               /\ emails[e].address # NoAddress =>
                     <<e, emails[e].address>> \in followed' \/ e \in overtaken
    BY <1>0 DEF EmailInv, Found, TokenFits
  <1>4. ASSUME NEW e \in Found(t), ~emails[e].isValidated, Ask(m, "clear", NoAddress, e)
        PROVE  EmailInv'
    BY <1>0, <1>1, <1>3, <1>4, AskKeeps
  <1>5. ASSUME NEW e \in Found(t), Ask(m, "validate", NoAddress, e)
        PROVE  EmailInv'
    BY <1>0, <1>1, <1>3, <1>5, AskKeeps
  <1>6. CASE Found(t) = {} /\ Done(m)
    BY <1>2, <1>6
  <1>7. ASSUME NEW e \in Found(t),
               CASE emails[e].tokenExpiresAt = "null" -> Ask(m, "clear", NoAddress, e)
                 [] emails[e].tokenExpiresAt # "null" /\ emails[e].isValidated -> Done(m)
                 [] emails[e].tokenExpiresAt = "past" /\ ~emails[e].isValidated ->
                        Ask(m, "clear", NoAddress, e)
                 [] OTHER -> Ask(m, "validate", NoAddress, e)
        PROVE  EmailInv'
    <2>1. emails[e].tokenExpiresAt # "null"
      BY <1>3
    <2>2. CASE emails[e].isValidated
      BY <1>2, <1>7, <2>1, <2>2
    <2>3. CASE ~emails[e].isValidated /\ emails[e].tokenExpiresAt = "past"
      BY <1>4, <1>7, <2>1, <2>3
    <2>4. CASE ~emails[e].isValidated /\ emails[e].tokenExpiresAt # "past"
      BY <1>5, <1>7, <2>1, <2>4
    <2>5. QED
      BY <2>2, <2>3, <2>4
  <1>8. QED
    BY <1>6, <1>7 DEF Verify

LEMMA ClearKeeps ==
    ASSUME EmailInv, NEW m \in Mailers, Clear(m)
    PROVE  EmailInv'
  <1>e. PICK e : e = mailer[m].email
    OBVIOUS
  <1>0. /\ mailer[m].at = "clear" /\ UNCHANGED <<mailed, followed, swapped>> /\ EmailTypes
        /\ e \in EmailAddresses /\ ~mailer[m].seen.isValidated /\ Overtake(m, e) /\ Done(m)
        /\ emails' = [emails EXCEPT ![e] = [Empty EXCEPT !.isValidated = emails[e].isValidated]]
    BY <1>e DEF Clear, EmailInv, MailerTrue
  <1>1. /\ emails'[e].activeToken = NoMail /\ emails'[e].isValidated = emails[e].isValidated
        /\ emails'[e].address = NoAddress
        /\ emails' \in [EmailAddresses -> Email]
        /\ \A f \in EmailAddresses \ {e} : emails'[f] = emails[f]
    BY <1>0, EmptyType DEF EmailTypes, Email, Empty
  <1>2. overtaken' \subseteq EmailAddresses /\ overtaken \subseteq overtaken'
        /\ (e \notin overtaken' => emails[e] = mailer[m].seen)
    BY <1>0 DEF Overtake, EmailTypes
  <1>3. TokenFits(e)' /\ ValidFits(e)'
    BY <1>0, <1>1, <1>2 DEF TokenFits, ValidFits
  <1>4. QED
    BY <1>0, <1>1, <1>2, <1>3, DoneKeeps DEF EmailTypes

LEMMA ValidateKeeps ==
    ASSUME EmailInv, NEW m \in Mailers, Validate(m)
    PROVE  EmailInv'
  <1>e. PICK e : e = mailer[m].email
    OBVIOUS
  <1>0. /\ mailer[m].at = "validate" /\ UNCHANGED <<mailed, followed, swapped>> /\ EmailTypes
        /\ e \in EmailAddresses /\ Overtake(m, e) /\ Done(m) /\ MailerTrue(m)
        /\ emails' = [emails EXCEPT ![e].isValidated = TRUE]
    BY <1>e DEF Validate, EmailInv, MailerTrue
  <1>1. /\ emails'[e].activeToken = emails[e].activeToken
        /\ emails'[e].tokenExpiresAt = emails[e].tokenExpiresAt
        /\ emails'[e].address = emails[e].address
        /\ emails' \in [EmailAddresses -> Email]
        /\ \A f \in EmailAddresses \ {e} : emails'[f] = emails[f]
    BY <1>0 DEF EmailTypes, Email
  <1>2. overtaken' \subseteq EmailAddresses /\ overtaken \subseteq overtaken'
        /\ (e \notin overtaken' => emails[e] = mailer[m].seen)
    BY <1>0 DEF Overtake, EmailTypes
  <1>3. TokenFits(e)'
    <2>1. TokenFits(e) /\ emails[e].activeToken \in Mailers \cup {NoMail}
      BY <1>0 DEF EmailInv, EmailTypes, Email
    <2>2. CASE emails[e].activeToken = NoMail
      BY <1>1, <2>2 DEF TokenFits
    <2>3. CASE emails[e].activeToken # NoMail
      <3>1. emails[e].activeToken \in Mailers \ {m}
        BY <1>0, <2>1, <2>3 DEF TokenFits
      <3>2. mailer'[emails[e].activeToken] = mailer[emails[e].activeToken]
        BY <1>0, <3>1 DEF Done, EmailTypes
      <3>3. QED
        BY <1>0, <1>1, <1>2, <2>1, <3>2 DEF TokenFits
    <2>4. QED
      BY <2>2, <2>3
  <1>4. ValidFits(e)'
    <2>1. e \notin overtaken' =>
             /\ emails[e].address = NoAddress => e \in overtaken \cup swapped
             /\ emails[e].address # NoAddress => <<e, emails[e].address>> \in followed \/ e \in overtaken
      BY <1>0, <1>2, <1>e DEF MailerTrue
    <2>2. QED
      BY <1>0, <1>1, <1>2, <2>1 DEF ValidFits
  <1>5. QED
    BY <1>0, <1>1, <1>2, <1>3, <1>4, DoneKeeps DEF EmailTypes

LEMMA CrashMailerKeeps ==
    ASSUME EmailInv, NEW m \in Mailers, CrashMailer(m)
    PROVE  EmailInv'
  <1>0. /\ mailer[m].at # "done" /\ UNCHANGED <<emails, mailed, followed, overtaken, swapped>>
        /\ EmailTypes /\ Done(m)
    BY DEF CrashMailer, emailHistory, EmailInv
  <1>1. QED
    BY <1>0, DoneKeeps DEF EmailTypes

LEMMA RemoveEmailKeeps ==
    ASSUME EmailInv, NEW h \in Handlers, NEW l \in Lineages, RemoveEmail(h, l)
    PROVE  EmailInv'
  <1>0. EmailTypes /\ UNCHANGED <<mailed, mailer, emailHistory>>
    BY DEF RemoveEmail, EmailInv
  <1>1. \A e \in EmailAddresses : emails'[e] \in {Empty, emails[e]}
    BY DEF RemoveEmail, Removed
  <1>2. emails' \in [EmailAddresses -> Email]
    BY <1>0, <1>1, EmptyType DEF RemoveEmail, EmailTypes
  <1>3. ASSUME NEW e \in EmailAddresses, emails'[e] = Empty PROVE TokenFits(e)' /\ ValidFits(e)'
    BY <1>3 DEF TokenFits, ValidFits, Empty
  <1>4. QED
    BY <1>0, <1>1, <1>2, <1>3, RowsKeep

LEMMA ExpireMailKeeps ==
    ASSUME EmailInv, NEW e \in EmailAddresses, ExpireMail(e)
    PROVE  EmailInv'
  <1>0. EmailTypes /\ UNCHANGED <<mailed, mailer, emailHistory>> /\ TokenFits(e) /\ ValidFits(e)
    BY AllFit DEF ExpireMail, EmailInv
  <1>1. /\ emails'[e].activeToken = emails[e].activeToken
        /\ emails'[e].tokenExpiresAt = "past"
        /\ emails'[e].address = emails[e].address
        /\ emails'[e].isValidated = emails[e].isValidated
        /\ emails' \in [EmailAddresses -> Email]
        /\ \A f \in EmailAddresses \ {e} : emails'[f] = emails[f]
    BY <1>0 DEF ExpireMail, EmailTypes, Email
  <1>2. TokenFits(e)' /\ ValidFits(e)'
    BY <1>0, <1>1 DEF TokenFits, ValidFits, emailHistory
  <1>3. QED
    BY <1>0, <1>1, <1>2, RowsKeep

LEMMA EmailsInductive == EmailInv /\ [EmailNext]_allVars => EmailInv'
  <1> SUFFICES ASSUME EmailInv, [EmailNext]_allVars PROVE EmailInv'
    OBVIOUS
  <1>1. CASE UNCHANGED emailVars
    <2>1. UNCHANGED <<emails, mailed, mailer, emailHistory>>
      BY <1>1 DEF emailVars
    <2>2. QED
      BY <2>1, RowsKeep DEF EmailInv, EmailTypes
  <1>2. CASE UNCHANGED allVars
    BY <1>1, <1>2 DEF allVars
  <1>3. CASE Next /\ UNCHANGED emailVars
    BY <1>1, <1>3
  <1>4. ASSUME NEW m \in Mailers, MailerStep(m) PROVE EmailInv'
    BY <1>4, PostKeeps, ResendKeeps, VerifyKeeps, UpsertKeeps, MailKeeps, UpdateTokenKeeps,
       ClearKeeps, ValidateKeeps, CrashMailerKeeps DEF MailerStep
  <1>5. ASSUME NEW h \in Handlers, NEW l \in Lineages, RemoveEmail(h, l) PROVE EmailInv'
    BY <1>5, RemoveEmailKeeps
  <1>6. ASSUME NEW e \in EmailAddresses, ExpireMail(e) PROVE EmailInv'
    BY <1>6, ExpireMailKeeps
  <1>7. QED
    BY <1>2, <1>3, <1>4, <1>5, <1>6 DEF EmailNext

LEMMA InitEmails == EmailInit => EmailInv
  <1> SUFFICES ASSUME EmailInit PROVE EmailInv
    OBVIOUS
  <1>1. EmailTypes
    BY EmptyType DEF EmailInit, EmailTypes
  <1>2. \A e \in EmailAddresses : TokenFits(e) /\ ValidFits(e)
    BY DEF EmailInit, TokenFits, ValidFits, Empty
  <1>3. \A m \in Mailers : MailerTrue(m)
    BY DEF EmailInit, MailerTrue, Waiting
  <1>4. QED
    BY <1>1, <1>2, <1>3, AllFit DEF EmailInv, EmailInit

LEMMA EmailsHold == EmailSpec => []EmailInv
  BY InitEmails, EmailsInductive, PTL DEF EmailSpec

\* An e-mail that an address has validated had its link followed out of a mail that was
\* sent to that e-mail for that address, however POST /email, resend, verify and DELETE
\* /email overlap, unless a request wrote over a row that had changed since it read it.
THEOREM ValidatedFollowed == EmailSpec => []ValidatedWereFollowed
  <1>1. EmailInv => ValidatedWereFollowed
    BY DEF EmailInv
  <1>2. QED
    BY <1>1, EmailsHold, PTL

\* A validated e-mail has an address, so that it can be removed again, unless that address
\* connected another e-mail or a verification wrote over a row that had changed.
THEOREM ValidatedAddressed == EmailSpec => []ValidatedHaveAddresses
  <1>1. EmailInv => ValidatedHaveAddresses
    BY DEF EmailInv
  <1>2. QED
    BY <1>1, EmailsHold, PTL

-----------------------------------------------------------------------------
(* DELETE /email makes a new pair as the requests of Logins do, and what   *)
(* they keep it keeps.                                                     *)

LEMMA RemovalRecord ==
    ASSUME NEW h \in Handlers, NEW l \in Lineages, RemoveEmail(h, l)
    PROVE  \E r \in Hand : /\ hand' = [hand EXCEPT ![h] = r] /\ r.login = l
                           /\ r.at \in {"done", "bump"} /\ r.call = "remove email" /\ ~r.spent
                           /\ r.checking = "github" /\ r.names = Unlinked /\ r.copy = Nothing
                           /\ authTokens[l].row = "live"
  <1> DEFINE r == [Idle EXCEPT !.at = IF Of(Owner[l]) = {} THEN "done" ELSE "bump",
                               !.call = "remove email", !.login = l]
  <1>1. hand' = [hand EXCEPT ![h] = r] /\ authTokens[l].row = "live"
    BY DEF RemoveEmail
  <1>2. /\ r.login = l /\ r.at \in {"done", "bump"} /\ r.call = "remove email" /\ ~r.spent
        /\ r.checking = "github" /\ r.names = Unlinked /\ r.copy = Nothing
    BY DEF Idle
  <1>3. r \in Hand
    BY IdleType DEF Hand, Idle, Busy, AllCalls
  <1> HIDE DEF r
  <1>4. QED
    BY <1>1, <1>2, <1>3

LEMMA RemovalTokens ==
    ASSUME TokensInv, NEW h \in Handlers, NEW l \in Lineages, RemoveEmail(h, l)
    PROVE  TokensInv'
  <1>1. PICK r \in Hand : /\ hand' = [hand EXCEPT ![h] = r] /\ r.login = l
                          /\ r.at \in {"done", "bump"} /\ r.call = "remove email" /\ ~r.spent
                          /\ r.checking = "github" /\ r.names = Unlinked /\ r.copy = Nothing
                          /\ authTokens[l].row = "live"
    BY RemovalRecord
  <1>2. /\ UNCHANGED <<authTokens, oauth, link, sent, named, cut, replayed, held>>
        /\ hand[h].at = "idle" /\ Enter(l)
    BY DEF RemoveEmail, db
  <1>3. TypeOK'
    <2>1. overlapped' \subseteq Addresses
      BY <1>2, EnterType DEF TokensInv
    <2>2. hand' \in [Handlers -> Hand]
      BY <1>1 DEF TokensInv, TypeOK
    <2>3. QED
      BY <1>2, <2>1, <2>2 DEF TokensInv, TypeOK
  <1>4. RowsGrow
    BY <1>2 DEF RowsGrow, TokensInv, TypeOK, Row
  <1>5. \A k \in Handlers : Answers(k)' = Answers(k)
    BY <1>2 DEF Answers
  <1>6. Answers(h)' = {}
    BY <1>2, <1>5 DEF TokensInv, AnsweredAreDone
  <1>7. \A k \in Handlers \ {h} : Answers(k)' = Answers(k)
    BY <1>5
  <1>8. r.at \notin Holding \cup {"link"} /\ r.call # "refresh"
    BY <1>1 DEF Holding
  <1>9. r.at \in Busy => r.login \in Lineages /\ authTokens'[r.login].row # "none"
    BY <1>1, <1>2 DEF Busy
  <1>10. QED
    BY <1>1, <1>3, <1>4, <1>6, <1>7, <1>8, <1>9, OneRequest

LEMMA RemovalKeeps ==
    ASSUME LoginsInv, TokensInv, NEW h \in Handlers, NEW l \in Lineages, RemoveEmail(h, l)
    PROVE  LoginsInv'
  <1>1. PICK r \in Hand : /\ hand' = [hand EXCEPT ![h] = r] /\ r.login = l
                          /\ r.at \in {"done", "bump"} /\ r.call = "remove email" /\ ~r.spent
                          /\ r.checking = "github" /\ r.names = Unlinked /\ r.copy = Nothing
                          /\ authTokens[l].row = "live"
    BY RemovalRecord
  <1>2. /\ UNCHANGED <<db, sent, named, cut, replayed, held>>
        /\ hand[h].at = "idle" /\ Enter(l)
    BY DEF RemoveEmail
  <1>3. QED
    BY <1>1, <1>2, PlainBegins

\* The other steps leave the logins alone.
LEMMA EmailSteps ==
    ASSUME [EmailNext]_allVars
    PROVE  \/ Next \/ UNCHANGED loginVars
           \/ \E h \in Handlers, l \in Lineages : RemoveEmail(h, l)
  <1>1. ASSUME NEW m \in Mailers, MailerStep(m) PROVE UNCHANGED loginVars
    <2>1. ASSUME NEW a \in Addresses, Resend(m, a) PROVE UNCHANGED loginVars
      BY <2>1 DEF Resend
    <2>2. ASSUME NEW a \in Addresses, NEW e \in EmailAddresses, Post(m, a, e)
          PROVE  UNCHANGED loginVars
      BY <2>2 DEF Post
    <2>3. ASSUME NEW t \in mailed, Verify(m, t) PROVE UNCHANGED loginVars
      BY <2>3 DEF Verify
    <2>4. CASE UpsertUnverifiedEmail(m)
      BY <2>4 DEF UpsertUnverifiedEmail
    <2>5. CASE Mail(m) \/ UpdateToken(m)
      BY <2>5 DEF Mail, UpdateToken
    <2>6. CASE Clear(m) \/ Validate(m) \/ CrashMailer(m)
      BY <2>6 DEF Clear, Validate, CrashMailer
    <2>7. QED
      BY <1>1, <2>1, <2>2, <2>3, <2>4, <2>5, <2>6 DEF MailerStep
  <1>2. ASSUME NEW e \in EmailAddresses, ExpireMail(e) PROVE UNCHANGED loginVars
    BY <1>2 DEF ExpireMail
  <1>3. UNCHANGED allVars => UNCHANGED loginVars
    BY DEF allVars
  <1>4. QED
    BY <1>1, <1>2, <1>3 DEF EmailNext

\* The types of the rows, the requests and the mails, with DELETE /email among the requests.
THEOREM EmailTypesHold == EmailSpec => []EmailTypeOK
  <1>1. EmailInit => TokensInv
    BY InitTokens DEF EmailInit
  <1>2. TokensInv /\ [EmailNext]_allVars => TokensInv'
    <2> SUFFICES ASSUME TokensInv, [EmailNext]_allVars PROVE TokensInv'
      OBVIOUS
    <2>1. CASE Next \/ UNCHANGED loginVars
      BY <2>1, TokensInductive
    <2>2. ASSUME NEW h \in Handlers, NEW l \in Lineages, RemoveEmail(h, l) PROVE TokensInv'
      BY <2>2, RemovalTokens
    <2>3. QED
      BY <2>1, <2>2, EmailSteps
  <1>3. TokensInv /\ EmailInv => EmailTypeOK
    BY DEF TokensInv, EmailInv, EmailTypeOK
  <1>4. QED
    BY <1>1, <1>2, <1>3, EmailsHold, PTL DEF EmailSpec

\* Removing an e-mail and being mailed links neither logs out who always uses the newest
\* token, nor spoils what a pair names, nor brings a spent refresh token back.
THEOREM LoginsStandEmails ==
    EmailSpec => [](SpentTokensAreRefused /\ PatientStayLoggedIn /\ PairsAreTrue)
  <1>1. EmailInit => TokensInv /\ LoginsInv
    BY InitTokens, InitLogins DEF EmailInit
  <1>2. TokensInv /\ LoginsInv /\ [EmailNext]_allVars => TokensInv' /\ LoginsInv'
    <2> SUFFICES ASSUME TokensInv, LoginsInv, [EmailNext]_allVars PROVE TokensInv' /\ LoginsInv'
      OBVIOUS
    <2>1. CASE Next \/ UNCHANGED loginVars
      BY <2>1, TokensInductive, LoginsInductive
    <2>2. ASSUME NEW h \in Handlers, NEW l \in Lineages, RemoveEmail(h, l)
          PROVE  TokensInv' /\ LoginsInv'
      BY <2>2, RemovalTokens, RemovalKeeps
    <2>3. QED
      BY <2>1, <2>2, EmailSteps
  <1>3. TokensInv /\ LoginsInv => SpentTokensAreRefused /\ PatientStayLoggedIn /\ PairsAreTrue
    BY DEF TokensInv, LoginsInv, PairsAreTrue, AddressTrue, Quiet, Works, Calm
  <1>4. QED
    BY <1>1, <1>2, <1>3, PTL DEF EmailSpec
=============================================================================
