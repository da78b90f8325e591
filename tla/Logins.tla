------------------------------- MODULE Logins -------------------------------
(***************************************************************************)
(* Logins of addresses (routes/auth.ts, routes/oauth, lib/authTokens.ts):  *)
(* a login is an AuthToken row, whose generation every new pair of tokens  *)
(* raises; an address may be connected to a user of GitHub and of Discord, *)
(* whose OAuth token is tried before each pair is made.  Requests for the  *)
(* same address interleave at every await, and each may be cut short.      *)
(***************************************************************************)
EXTENDS Naturals, FiniteSets

CONSTANTS Handlers,   \* the requests, one each
          Lineages, Addresses,
          Owner,      \* Owner[l]: the address of AuthToken l
          Users,      \* users of a provider
          Calls,      \* what requests may ask for
          OldToken,   \* an OAuth token from before
          NoHandler, NoLogin, NoUser, NoToken

Providers == {"github", "discord"}
AllCalls == {"login", "refresh", "connect", "disconnect", "remove email"}
Tokens == Handlers \cup {OldToken}   \* a connection brings a token of its own

ASSUME LoginsAssumption ==
    /\ Calls \subseteq AllCalls
    /\ Owner \in [Lineages -> Addresses]
    /\ NoHandler \notin Handlers /\ NoLogin \notin Lineages /\ NoUser \notin Users
    /\ NoToken \notin Tokens /\ OldToken \notin Handlers

VARIABLES authTokens, \* the AuthToken rows
          oauth,      \* oauth[p][u]: the OAuth token in the row of user u
          link,       \* link[a][p]: githubUserId and discordUserId of address a
          sent,       \* the refresh tokens that were handed out, and by whom
          hand        \* the requests
VARIABLES named,      \* history: the users in the newest pair of an address
          overlapped, \* history: addresses for which two requests ran at once
          cut,        \* history: addresses of which a request got no answer
          replayed,   \* history: logins of which an outdated token was presented
          held        \* history: who was ever connected to which user

db == <<authTokens, oauth, link>>
history == <<named, overlapped, cut, replayed, held>>
loginVars == <<db, sent, hand, history>>

Row == [row : {"none", "live", "purged"}, generation : Nat, expired : BOOLEAN]
Links == [Providers -> Users \cup {NoUser}]
Copy == [Providers -> [user : Users \cup {NoUser}, token : Tokens \cup {NoToken}]]
Sent == [by : Handlers \cup {NoHandler}, login : Lineages, generation : Nat]
Busy == {"exchange", "link", "unlink", "purge", "bump", "check", "wipe", "drop", "answer"}
\* token: the generation a refresh presents; spent: it had got its answer before;
\* checking: the provider whose turn it is; generation: the one taken.
Hand == [at : {"idle", "done", "dead"} \cup Busy, login : Lineages \cup {NoLogin},
         token : Nat, spent : BOOLEAN, provider : Providers, user : Users \cup {NoUser},
         copy : Copy, checking : Providers, names : Links, generation : Nat,
         call : AllCalls \cup {"none"}]

Unlinked == [p \in Providers |-> NoUser]
None == [user |-> NoUser, token |-> NoToken]
Nothing == [p \in Providers |-> None]
Idle == [at |-> "idle", login |-> NoLogin, token |-> 0, spent |-> FALSE,
         provider |-> "github", user |-> NoUser, copy |-> Nothing, checking |-> "github",
         names |-> Unlinked, generation |-> 0, call |-> "none"]

TypeOK ==
    /\ authTokens \in [Lineages -> Row]
    /\ oauth \in [Providers -> [Users -> Tokens \cup {NoToken}]]
    /\ link \in [Addresses -> Links]
    /\ sent \subseteq Sent
    /\ hand \in [Handlers -> Hand]
    /\ named \in [Addresses -> Links]
    /\ overlapped \subseteq Addresses
    /\ cut \subseteq Addresses
    /\ replayed \subseteq Lineages
    /\ held \subseteq Addresses \X Providers \X Users

Linked(p, u) == {a \in Addresses : link[a][p] = u}

\* Some addresses are logged in, once each, and connected.
Init ==
    /\ authTokens \in [Lineages -> [row : {"none", "live"}, generation : {0}, expired : {FALSE}]]
    /\ link \in [Addresses -> Links]
    /\ oauth = [p \in Providers |-> [u \in Users |->
                   IF Linked(p, u) = {} THEN NoToken ELSE OldToken]]
    /\ sent = {[by |-> NoHandler, login |-> l, generation |-> 0] :
                   l \in {m \in Lineages : authTokens[m].row = "live"}}
    /\ hand = [h \in Handlers |-> Idle]
    /\ named = link
    /\ overlapped = {} /\ cut = {} /\ replayed = {}
    /\ held = {apu \in Addresses \X Providers \X Users : link[apu[1]][apu[2]] = apu[3]}

-----------------------------------------------------------------------------
Goto(h, step) == hand' = [hand EXCEPT ![h].at = step]
\* What is left of a request: what it asked for.
Over(h, how) == hand' = [hand EXCEPT ![h] = [Idle EXCEPT
    !.at = how, !.call = hand[h].call, !.login = hand[h].login, !.token = hand[h].token,
    !.spent = hand[h].spent]]
End(h) == Over(h, "done")
Throw(h) ==
    /\ Over(h, "dead")
    /\ cut' = cut \cup {Owner[hand[h].login]}

AtWork(l) == \E k \in Handlers : hand[k].at \in Busy /\ Owner[hand[k].login] = Owner[l]

\* Whoever begins to work for an address for which another request is at work.
Enter(l) == overlapped' = IF AtWork(l) THEN overlapped \cup {Owner[l]} ELSE overlapped

\* The address as a query returns it, with its users and their tokens.
Snapshot(a) == [p \in Providers |->
    [user |-> link[a][p],
     token |-> IF link[a][p] = NoUser THEN NoToken ELSE oauth[p][link[a][p]]]]

\* POST /auth: createAuthToken, after the signature was checked.
Login(h, l) ==
    /\ "login" \in Calls
    /\ hand[h].at = "idle" /\ authTokens[l].row = "none"
    /\ authTokens' = [authTokens EXCEPT ![l].row = "live"]
    /\ hand' = [hand EXCEPT ![h] = [Idle EXCEPT !.at = "check", !.call = "login",
                                                !.login = l, !.copy = Snapshot(Owner[l])]]
    /\ Enter(l)
    /\ UNCHANGED <<oauth, link, sent, named, cut, replayed, held>>

-----------------------------------------------------------------------------
(* POST /auth/refresh                                                      *)

\* The tokens whose refresh was answered with a new pair.
Spent == {<<hand[k].login, hand[k].token>> :
             k \in {j \in Handlers : hand[j].at = "done" /\ hand[j].call = "refresh"
                                     /\ \E s \in sent : s.by = j}}

Newest(l, g) == \A s \in sent : s.login = l => s.generation <= g

\* Mutant: the generation presented is not compared.
ExpiredOnly(l, g) == authTokens[l].expired

\* Whether the lineage of a token must be purged.
Purgeable(l, g) == g # authTokens[l].generation \/ authTokens[l].expired

\* A token that was handed out is presented: its row is read.
Refresh(h, s) ==
    /\ "refresh" \in Calls
    /\ hand[h].at = "idle"
    /\ LET l == s.login  g == s.generation IN
       /\ hand' = [hand EXCEPT ![h] = [Idle EXCEPT
             !.at = IF authTokens[l].row # "live" THEN "done"
                    ELSE IF Purgeable(l, g) THEN "purge" ELSE "bump",
             !.call = "refresh", !.login = l, !.token = g,
             !.spent = <<l, g>> \in Spent]]
       /\ Enter(l)
       /\ replayed' = IF Newest(l, g) THEN replayed ELSE replayed \cup {l}
    /\ UNCHANGED <<db, sent, named, cut, held>>

\* deleteAuthToken; a row that is gone already is only logged.
Purge(h) ==
    /\ hand[h].at = "purge"
    /\ authTokens' = [authTokens EXCEPT ![hand[h].login].row = "purged"]
    /\ End(h)
    /\ UNCHANGED <<oauth, link, sent, history>>

-----------------------------------------------------------------------------
(* POST and DELETE /oauth/github and /oauth/discord                        *)

\* The middleware has looked the login up; without it the answer is 401.
Connect(h, l, p) ==
    /\ "connect" \in Calls
    /\ hand[h].at = "idle" /\ \E s \in sent : s.login = l
    /\ hand' = [hand EXCEPT ![h] = [Idle EXCEPT
          !.at = IF authTokens[l].row = "live" THEN "exchange" ELSE "done",
          !.call = "connect", !.login = l, !.provider = p]]
    /\ Enter(l)
    /\ UNCHANGED <<db, sent, named, cut, replayed, held>>

\* Mutant: the token is not stored.
UpsertNoToken(h) ==
    /\ hand[h].at = "exchange"
    /\ \/ \E u \in Users :
             hand' = [hand EXCEPT ![h] = [@ EXCEPT !.at = "link", !.user = u]]
       \/ End(h)
    /\ UNCHANGED <<db, sent, history>>

\* The provider names the user and gives a token, or refuses.
UpsertUser(h) ==
    /\ hand[h].at = "exchange"
    /\ \/ /\ \E u \in Users :
                /\ oauth' = [oauth EXCEPT ![hand[h].provider][u] = h]
                /\ hand' = [hand EXCEPT ![h] = [@ EXCEPT !.at = "link", !.user = u]]
       \/ End(h) /\ UNCHANGED oauth
    /\ UNCHANGED <<authTokens, link, sent, history>>

Link(h) ==
    /\ hand[h].at = "link"
    /\ LET a == Owner[hand[h].login]  p == hand[h].provider  u == hand[h].user IN
       /\ link' = [link EXCEPT ![a][p] = u]
       /\ held' = held \cup {<<a, p, u>>}
    /\ Goto(h, "bump")
    /\ UNCHANGED <<authTokens, oauth, sent, named, overlapped, cut, replayed>>

\* The middleware has put the link as it is into the request; 400 without one.
Disconnect(h, l, p) ==
    /\ "disconnect" \in Calls
    /\ hand[h].at = "idle" /\ \E s \in sent : s.login = l
    /\ hand' = [hand EXCEPT ![h] = [Idle EXCEPT
          !.at = IF authTokens[l].row = "live" /\ link[Owner[l]][p] # NoUser
                 THEN "unlink" ELSE "done",
          !.call = "disconnect", !.login = l, !.provider = p]]
    /\ Enter(l)
    /\ UNCHANGED <<db, sent, named, cut, replayed, held>>

Unlink(h) ==
    /\ hand[h].at = "unlink"
    /\ link' = [link EXCEPT ![Owner[hand[h].login]][hand[h].provider] = NoUser]
    /\ Goto(h, "bump")
    /\ UNCHANGED <<authTokens, oauth, sent, history>>
-----------------------------------------------------------------------------
(* What they all end with: a new generation, the checks, a new pair        *)

\* What the checks will look at: a connection's own user, none after a disconnection.
Checked(h) ==
    LET copy == Snapshot(Owner[hand[h].login])  p == hand[h].provider IN
    CASE hand[h].call = "connect" ->
             [copy EXCEPT ![p] = [user |-> hand[h].user, token |-> h]]
      [] hand[h].call = "disconnect" ->
             [copy EXCEPT ![p] = None]
      [] OTHER -> copy

\* Mutant: the generation is written from the one that was read.
NextGeneration(h, l) ==
    IF hand[h].call = "refresh" THEN hand[h].token + 1 ELSE authTokens[l].generation + 1

\* The database increments what it has.
Increment(h, l) == authTokens[l].generation + 1

\* Mutant: the pair is made with the generation before the update.
BumpReturnsOld(h) ==
    /\ hand[h].at = "bump"
    /\ LET l == hand[h].login  g == Increment(h, l) IN
       \/ /\ authTokens[l].row = "live"
          /\ authTokens' = [authTokens EXCEPT ![l].generation = g]
          /\ hand' = [hand EXCEPT ![h] = [@ EXCEPT !.at = "check", !.generation = g - 1,
                                                   !.copy = Checked(h)]]
          /\ UNCHANGED cut
       \/ /\ authTokens[l].row # "live"
          /\ IF hand[h].call = "connect" THEN End(h) /\ UNCHANGED cut ELSE Throw(h)
          /\ UNCHANGED authTokens
    /\ UNCHANGED <<oauth, link, sent, named, overlapped, replayed, held>>

\* updateAuthTokenGeneration throws when the row is gone; a connection answers 401 then.
Bump(h) ==
    /\ hand[h].at = "bump"
    /\ LET l == hand[h].login  g == Increment(h, l) IN
       \/ /\ authTokens[l].row = "live"
          /\ authTokens' = [authTokens EXCEPT ![l].generation = g]
          /\ hand' = [hand EXCEPT ![h] = [@ EXCEPT !.at = "check", !.generation = g,
                                                   !.copy = Checked(h)]]
          /\ UNCHANGED cut
       \/ /\ authTokens[l].row # "live"
          /\ IF hand[h].call = "connect" THEN End(h) /\ UNCHANGED cut ELSE Throw(h)
          /\ UNCHANGED authTokens
    /\ UNCHANGED <<oauth, link, sent, named, overlapped, replayed, held>>

\* GitHub is checked first.
NextCheck(q, names) ==
    [q EXCEPT !.at = IF q.checking = "github" THEN "check" ELSE "answer",
              !.checking = "discord", !.names = names, !.copy = [@ EXCEPT ![q.checking] = None]]

AfterCheck(h, names) == hand' = [hand EXCEPT ![h] = NextCheck(hand[h], names)]

\* The OAuth token is tried.  Whatever GitHub answers with an error to, and it may
\* be an outage, counts as invalid; an error in talking to Discord is thrown.
Check(h) ==
    /\ hand[h].at = "check"
    /\ LET p == hand[h].checking  c == hand[h].copy[hand[h].checking] IN
       \/ c.user = NoUser /\ AfterCheck(h, hand[h].names) /\ UNCHANGED cut
       \/ /\ c.user # NoUser /\ c.token # NoToken
          /\ AfterCheck(h, [hand[h].names EXCEPT ![p] = c.user]) /\ UNCHANGED cut
       \/ c.user # NoUser /\ Goto(h, "wipe") /\ UNCHANGED cut
       \/ c.user # NoUser /\ c.token # NoToken /\ p = "discord" /\ Throw(h)
    /\ UNCHANGED <<db, sent, named, overlapped, replayed, held>>

\* Mutant: the link stays.
WipeOnly(h) ==
    /\ hand[h].at = "wipe"
    /\ LET p == hand[h].checking IN
       oauth' = [oauth EXCEPT ![p][hand[h].copy[p].user] = NoToken]
    /\ AfterCheck(h, hand[h].names)
    /\ UNCHANGED <<authTokens, link, sent, history>>

\* removeGithubUsersGithubOAuthToken, whatever token is there by now ...
Wipe(h) ==
    /\ hand[h].at = "wipe"
    /\ LET p == hand[h].checking IN
       oauth' = [oauth EXCEPT ![p][hand[h].copy[p].user] = NoToken]
    /\ Goto(h, "drop")
    /\ UNCHANGED <<authTokens, link, sent, history>>

\* ... and removeGithubLoginForAddress, whatever it is connected to by now.
Drop(h) ==
    /\ hand[h].at = "drop"
    /\ link' = [link EXCEPT ![Owner[hand[h].login]][hand[h].checking] = NoUser]
    /\ AfterCheck(h, hand[h].names)
    /\ UNCHANGED <<authTokens, oauth, sent, history>>

Answer(h) ==
    /\ hand[h].at = "answer"
    /\ sent' = sent \cup {[by |-> h, login |-> hand[h].login,
                           generation |-> hand[h].generation]}
    /\ named' = [named EXCEPT ![Owner[hand[h].login]] = hand[h].names]
    /\ End(h)
    /\ UNCHANGED <<db, overlapped, cut, replayed, held>>

-----------------------------------------------------------------------------
\* The server stops, or the answer is lost on its way.
Crash(h) ==
    /\ hand[h].at \in Busy
    /\ Throw(h)
    /\ UNCHANGED <<db, sent, named, overlapped, replayed, held>>

\* LOGIN_EXP_TIME_MONTHS have passed.
Expire(l) ==
    /\ authTokens[l].row = "live" /\ ~authTokens[l].expired
    /\ authTokens' = [authTokens EXCEPT ![l].expired = TRUE]
    /\ UNCHANGED <<oauth, link, sent, hand, history>>

LoginStep(h) ==
    \/ \E l \in Lineages : \/ Login(h, l)
                           \/ \E p \in Providers : Connect(h, l, p) \/ Disconnect(h, l, p)
    \/ \E s \in sent : Refresh(h, s)
    \/ UpsertUser(h) \/ Link(h) \/ Unlink(h) \/ Purge(h)
    \/ Bump(h) \/ Check(h) \/ Wipe(h) \/ Drop(h) \/ Answer(h) \/ Crash(h)

Next == (\E h \in Handlers : LoginStep(h)) \/ (\E l \in Lineages : Expire(l))

Spec == Init /\ [][Next]_loginVars

-----------------------------------------------------------------------------
(* Properties                                                              *)

\* The promise of the abstract specification, for tokens in transit and sent.
Taken(l) == {h \in Handlers : hand[h].login = l
                              /\ hand[h].at \in {"check", "wipe", "drop", "answer"}}

Promise == INSTANCE RefreshTokens WITH
    state <- [l \in Lineages |-> authTokens[l].row],
    last <- [l \in Lineages |-> authTokens[l].generation],
    taken <- [l \in Lineages |-> {hand[h].generation : h \in Taken(l)}],
    handed <- [l \in Lineages |-> {s.generation : s \in {t \in sent : t.login = l}}]

\* Every generation of a login is taken once and handed out once at most, whatever
\* requests overlap or are cut short, and a login that was purged stays purged:
\* updateAuthTokenGeneration increments in the database and throws without a row.
ImplementsPromise == Promise!Spec

\* A refresh token whose refresh was answered is never again answered with a pair
\* (docs/Auth.md: "If you attempt to use the old Refresh Token again you will
\* invalidate your login").  Two requests that both read the row first are another
\* matter: both are answered.
SpentTokensAreRefused ==
    \A h \in Handlers : hand[h].spent => hand[h].at \in {"purge", "done", "dead"}
                                         /\ \A s \in sent : s.by # h

\* Who always waits for the answer, gets it, and goes on with the newest token is
\* not logged out before the login expires, although connections, disconnections
\* and refreshes all replace the token.
PatientStayLoggedIn ==
    \A l \in Lineages : authTokens[l].row = "purged" =>
        \/ authTokens[l].expired \/ l \in replayed
        \/ Owner[l] \in overlapped \cup cut

Quiet(a) == \A h \in Handlers : hand[h].at \in Busy => Owner[hand[h].login] # a

\* What the newest pair of an address names is what the database has, after
\* connections, disconnections and checks that failed, if its requests did not
\* overlap and were answered.
PairsAreTrue ==
    \A a \in Addresses : Quiet(a) /\ a \notin overlapped \cup cut => named[a] = link[a]

\* A connected user has an OAuth token, since a failed check removes both, unless
\* somebody else was ever connected to the same user: a check of theirs that failed
\* removes whatever token the user has by then.
ConnectedHaveTokens ==
    \A a \in Addresses, p \in Providers :
        LET u == link[a][p] IN
        u # NoUser /\ oauth[p][u] = NoToken =>
            (\E b \in Addresses \ {a} : <<b, p, u>> \in held) \/ a \in overlapped \cup cut \/ ~Quiet(a)
-----------------------------------------------------------------------------
(* The inductive invariant behind PatientStayLoggedIn, PairsAreTrue and    *)
(* ConnectedHaveTokens: what a request knows of an address it has to       *)
(* itself, and whose requests have all been answered so far.               *)

Calm(a) == a \notin overlapped \cup cut
Works(h, a) == hand[h].at \in Busy /\ Owner[hand[h].login] = a

OneAtWork ==
    \A a \in Addresses \ overlapped :
        \A h, k \in Handlers : Works(h, a) /\ Works(k, a) => h = k

\* The newest generation of a login has been handed out, or is about to be.
Current(l) ==
    \/ \E s \in sent : s.login = l /\ s.generation = authTokens[l].generation
    \/ \E h \in Handlers : /\ hand[h].at \in {"check", "wipe", "drop", "answer"}
                           /\ hand[h].login = l
                           /\ hand[h].generation = authTokens[l].generation
LoginTrue(l) ==
    /\ authTokens[l].row = "none" => authTokens[l].generation = 0
    /\ authTokens[l].row = "live" /\ Calm(Owner[l]) => Current(l)
    /\ \A s \in sent : s.login = l => s.generation <= authTokens[l].generation

\* A request's copy of the links and the names it has checked so far.
CopyTrue(h, a) ==
    IF hand[h].checking = "github"
    THEN hand[h].names = Unlinked /\ \A p \in Providers : hand[h].copy[p].user = link[a][p]
    ELSE /\ hand[h].names = [link[a] EXCEPT !["discord"] = NoUser]
         /\ hand[h].copy["discord"].user = link[a]["discord"]
RequestTrue(h, a) ==
    /\ hand[h].at = "purge" => authTokens[hand[h].login].expired \/ hand[h].login \in replayed
    /\ hand[h].at # "purge" => authTokens[hand[h].login].row = "live"
    /\ hand[h].at = "bump" /\ hand[h].call = "connect" => link[a][hand[h].provider] = hand[h].user
    /\ hand[h].at = "bump" /\ hand[h].call = "disconnect" => link[a][hand[h].provider] = NoUser
    /\ hand[h].at \in {"check", "wipe", "drop"} => CopyTrue(h, a)
    /\ hand[h].at \in {"wipe", "drop"} => hand[h].copy[hand[h].checking].user # NoUser
    /\ hand[h].at = "answer" => hand[h].names = link[a]
\* A request that has not got to its new generation yet.
Early(q) ==
    /\ q.at \in {"exchange", "link", "unlink", "bump"} => q.checking = "github" /\ q.names = Unlinked
    /\ q.at \in {"exchange", "link"} => q.call = "connect"
    /\ q.at = "unlink" => q.call = "disconnect"
AddressTrue(a) ==
    /\ \A h \in Handlers : Works(h, a) => RequestTrue(h, a)
    /\ named[a] = link[a] \/ \E h \in Handlers : Works(h, a) /\ hand[h].at \notin {"exchange", "purge"}

\* Who is or was about to be connected to a user, or checks the user's token.
Held(a, p, u) == u # NoUser => <<a, p, u>> \in held
HandHeld(q) ==
    /\ \A p \in Providers : Held(Owner[q.login], p, q.copy[p].user)
    /\ q.at = "bump" /\ q.call = "connect" => Held(Owner[q.login], q.provider, q.user)
HeldTrue ==
    /\ \A a \in Addresses, p \in Providers : Held(a, p, link[a][p])
    /\ \A h \in Handlers : hand[h].at \in Busy => HandHeld(hand[h])
Shared(a, p, u) == \E b \in Addresses \ {a} : <<b, p, u>> \in held
TokenTrue(a, p) ==
    LET u == link[a][p] IN
    u # NoUser /\ oauth[p][u] = NoToken =>
        \/ Shared(a, p, u)
        \/ \E h \in Handlers : Works(h, a) /\ hand[h].at = "drop" /\ hand[h].checking = p
UserTrue(h, a) ==
    hand[h].at = "link" /\ oauth[hand[h].provider][hand[h].user] = NoToken =>
        Shared(a, hand[h].provider, hand[h].user)

LoginsInv ==
    /\ OneAtWork /\ HeldTrue
    /\ \A h \in Handlers : Early(hand[h])
    /\ \A l \in Lineages : LoginTrue(l)
    /\ \A a \in Addresses : Calm(a) =>
          /\ AddressTrue(a)
          /\ \A p \in Providers : TokenTrue(a, p)
          /\ \A h \in Handlers : Works(h, a) => UserTrue(h, a)
    /\ PatientStayLoggedIn
=============================================================================
