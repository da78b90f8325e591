-------------------------- MODULE ContributionsProofs --------------------------
(* Proofs about Contributions, for any number of users, contributions, GitPOAPs *)
(* and handlers.                                                                *)
EXTENDS Contributions, FiniteSetTheorems, SequenceTheorems, TLAPS

-----------------------------------------------------------------------------
(* Calls, users and what a step makes of its handler.                      *)

LEMMA Queues ==
    ASSUME NEW s \in Seq(Users), s # <<>>
    PROVE  /\ Head(s) \in Users /\ Tail(s) \in Seq(Users)
           /\ Len(s) # 1 => Tail(s) # <<>>
           /\ Len(s) > 1 => Tail(s) # <<>>
  <1>1. Head(s) \in Users /\ Tail(s) \in Seq(Users) /\ Len(Tail(s)) = Len(s) - 1
        /\ Len(s) \in Nat /\ Len(s) # 0
    BY HeadTailProperties, EmptySeq, LenProperties
  <1>2. Len(s) # 1 => Len(Tail(s)) # 0
    BY <1>1
  <1>3. Len(s) > 1 => Len(s) # 1
    BY <1>1
  <1>4. QED
    BY <1>1, <1>2, <1>3, EmptySeq

LEMMA CallFacts ==
    ASSUME NEW c \in Calls
    PROVE  /\ c \in Call /\ c.kind \in Kinds /\ c.users \in Seq(Users) /\ c.users # <<>>
           /\ c.kind \in {"merged", "updater", "backload", "mention"} => c.item \in Pulls
           /\ c.kind = "issue" => c.item \in Issues
           /\ c.kind = "staff" => c.item \in GitPOAPs
           /\ c.item \in Items \cup GitPOAPs
  <1>1. c \in Call
    BY ContributionsAssumption
  <1>2. QED
    BY <1>1, ContributionsAssumption DEF Call

LEMMA IdleType == Idle \in Hand
  BY DEF Idle, Hand, NoCall, Steps

LEMMA HandFacts ==
    ASSUME HandsFit, NEW h \in Handlers
    PROVE  /\ hand[h] \in Hand /\ HandFits(h) /\ hand \in [Handlers -> Hand]
           /\ hand[h].todo # <<>> => User(h) \in Users
  <1>1. hand[h] \in Hand /\ HandFits(h) /\ hand \in [Handlers -> Hand]
    BY DEF HandsFit, TypeOK
  <1>2. hand[h].todo \in Seq(Users)
    BY <1>1 DEF Hand
  <1>3. QED
    BY <1>1, <1>2, Queues DEF User

\* The item of a call.
LEMMA ItemFacts ==
    ASSUME HandsFit, NEW h \in Handlers, hand[h].at # "idle"
    PROVE  /\ Kind(h) \in Kinds
           /\ Kind(h) \in {"merged", "updater", "backload", "mention"} => Item(h) \in Pulls
           /\ Kind(h) = "issue" => Item(h) \in Issues
           /\ Kind(h) = "staff" => Item(h) \in GitPOAPs
  BY HandFacts, CallFacts DEF HandFits, Kind, Item

\* All fields but the step.
Same(r, q) ==
    /\ r.call = q.call /\ r.todo = q.todo /\ r.before = q.before /\ r.seen = q.seen
    /\ r.merged = q.merged /\ r.year = q.year /\ r.count = q.count /\ r.due = q.due
    /\ r.bare = q.bare /\ r.made = q.made /\ r.told = q.told /\ r.replied = q.replied

LEMMA GotoRecord ==
    ASSUME HandsFit, NEW h \in Handlers, NEW step \in Steps, Goto(h, step)
    PROVE  \E r \in Hand : hand' = [hand EXCEPT ![h] = r] /\ r.at = step /\ Same(r, hand[h])
  <1> DEFINE r == [hand[h] EXCEPT !.at = step]
  <1>1. hand[h] \in Hand /\ hand \in [Handlers -> Hand]
    BY HandFacts
  <1>2. hand' = [hand EXCEPT ![h] = r]
    BY <1>1 DEF Goto
  <1>3. r \in Hand
    BY <1>1 DEF Hand
  <1>4. r.at = step /\ Same(r, hand[h])
    BY <1>1 DEF Hand, Same
  <1> HIDE DEF r
  <1>5. QED
    BY <1>2, <1>3, <1>4

\* What is left of a handler that has ended.
Over(r, q, step) ==
    /\ r.at = step /\ r.call = q.call /\ r.made = q.made /\ r.replied = q.replied
    /\ r.todo = <<>> /\ r.before = {} /\ r.seen = {} /\ r.year = 0 /\ r.due = {} /\ r.bare = {}
    /\ r.told = {}

LEMMA FinishRecord ==
    ASSUME HandsFit, NEW h \in Handlers, NEW step \in {"done", "failed"}, Finish(h, step)
    PROVE  \E r \in Hand : hand' = [hand EXCEPT ![h] = r] /\ Over(r, hand[h], step)
  <1>1. PICK q \in Hand : q = hand[h]
    BY HandFacts
  <1> DEFINE r == [Idle EXCEPT !.at = step, !.call = q.call, !.made = q.made, !.replied = q.replied]
  <1>2. hand' = [hand EXCEPT ![h] = r]
    BY <1>1 DEF Finish
  <1>3. r \in Hand
    <2>1. q.call \in Calls \cup {NoCall} /\ q.made \in SUBSET RowIds /\ q.replied \in SUBSET RowIds
      BY DEF Hand
    <2>2. step \in Steps
      BY DEF Steps
    <2>3. QED
      BY <2>1, <2>2, IdleType DEF Hand
  <1>4. Over(r, q, step)
    BY DEF Over, Idle
  <1> HIDE DEF r
  <1>5. QED
    BY <1>1, <1>2, <1>3, <1>4

LEMMA NextUserRecord ==
    ASSUME HandsFit, NEW h \in Handlers, hand[h].todo # <<>>, NEW told \in SUBSET Users,
           NextUser(h, told)
    PROVE  \E r \in Hand :
              /\ hand' = [hand EXCEPT ![h] = r]
              /\ r.at \in {"read", "retrieve"} /\ (r.at = "read" => r.todo # <<>>)
              /\ r.year = 0 /\ r.told = told
              /\ r.call = hand[h].call /\ r.before = hand[h].before /\ r.bare = hand[h].bare
              /\ r.made = hand[h].made /\ r.replied = hand[h].replied
  <1>1. PICK q \in Hand : q = hand[h]
    BY HandFacts
  <1>2. q.todo \in Seq(Users) /\ q.todo # <<>>
    BY <1>1 DEF Hand
  <1>3. PICK rest \in Seq(Users) : rest = Tail(q.todo) /\ (Len(q.todo) > 1 => rest # <<>>)
    BY <1>2, Queues
  <1>4. PICK step \in {"read", "retrieve"} : step = IF Len(q.todo) > 1 THEN "read" ELSE "retrieve"
    OBVIOUS
  <1> DEFINE r == [q EXCEPT !.todo = rest, !.told = told, !.year = 0, !.at = step]
  <1>5. hand' = [hand EXCEPT ![h] = r]
    BY <1>1, <1>3, <1>4, HandFacts DEF NextUser
  <1>6. r \in Hand
    BY DEF Hand, Steps
  <1>7. /\ r.at = step /\ r.todo = rest /\ r.year = 0 /\ r.told = told
        /\ r.call = q.call /\ r.before = q.before /\ r.bare = q.bare
        /\ r.made = q.made /\ r.replied = q.replied
    BY DEF Hand
  <1> HIDE DEF r
  <1>8. QED
    BY <1>1, <1>3, <1>4, <1>5, <1>6, <1>7


LEMMA RowFacts ==
    ASSUME HandsFit
    PROVE  /\ Existing \subseteq RowIds
           /\ \A id \in RowIds : id \in Existing <=>
                 claims[id[1]] # NoClaim /\ id[2] = claims[id[1]].late
  <1>1. claims \in [Keys -> Claim \cup {NoClaim}]
    BY DEF HandsFit, TypeOK
  <1>2. \A k \in Keys : claims[k] # NoClaim => claims[k].late \in BOOLEAN
    BY <1>1 DEF Claim
  <1>3. QED
    BY <1>2 DEF Existing, RowId, RowIds

LEMMA StartRecord ==
    ASSUME HandsFit, NEW h \in Handlers, Start(h)
    PROVE  \E c \in Calls, r \in Hand :
              /\ hand' = [hand EXCEPT ![h] = r]
              /\ r.at = "read" /\ r.call = c /\ r.todo = c.users
              /\ r.before \subseteq Existing /\ r.seen = {} /\ r.year = 0 /\ r.due = {} /\ r.bare = {}
              /\ r.made = {} /\ r.told = {} /\ r.replied = {}
              /\ c.kind = "merged" => c.item \in merged
  <1>1. PICK c \in Calls :
          /\ c.kind \in {"merged", "updater"} => c.item \in merged
          /\ hand' = [hand EXCEPT ![h] = [Idle EXCEPT !.at = "read", !.call = c, !.todo = c.users,
                !.before = IF c.kind = "merged" THEN Existing ELSE {}]]
    BY DEF Start
  <1>2. PICK S \in SUBSET RowIds : S = IF c.kind = "merged" THEN Existing ELSE {}
    BY RowFacts
  <1> DEFINE r == [Idle EXCEPT !.at = "read", !.call = c, !.todo = c.users, !.before = S]
  <1>3. r \in Hand
    BY IdleType, CallFacts DEF Hand, Steps
  <1>4. /\ r.at = "read" /\ r.call = c /\ r.todo = c.users
        /\ r.before = S /\ r.seen = {} /\ r.year = 0 /\ r.due = {} /\ r.bare = {}
        /\ r.made = {} /\ r.told = {} /\ r.replied = {}
    BY DEF Idle
  <1>5. hand' = [hand EXCEPT ![h] = r]
    BY <1>1, <1>2
  <1>6. S \subseteq Existing
    BY <1>2
  <1> HIDE DEF r
  <1>7. QED
    BY <1>1, <1>3, <1>4, <1>5, <1>6

\* What reading and counting leave alone.
SameUser(r, q) ==
    /\ r.call = q.call /\ r.todo = q.todo /\ r.before = q.before
    /\ r.bare = q.bare /\ r.made = q.made /\ r.told = q.told /\ r.replied = q.replied

LEMMA ReadRepoRecord ==
    ASSUME HandsFit, NEW h \in Handlers, ReadRepo(h)
    PROVE  \E r \in Hand : /\ hand' = [hand EXCEPT ![h] = r] /\ SameUser(r, hand[h])
                           /\ r.at \in {"done", "fetch"}
                           /\ r.at = "done" => Kind(h) \in {"updater", "backload"}
                           /\ r.seen = Found(Kind(h)) /\ r.year = hand[h].year
  <1>1. PICK q \in Hand : q = hand[h]
    BY HandFacts
  <1>2. PICK S \in SUBSET GitPOAPs : S = Found(Kind(h))
    BY DEF Found
  <1>3. PICK step \in {"done", "fetch"} :
           step = IF Kind(h) \in {"updater", "backload"} /\ Found(Kind(h)) = {} THEN "done" ELSE "fetch"
    OBVIOUS
  <1> DEFINE r == [q EXCEPT !.seen = S, !.at = step]
  <1>4. hand' = [hand EXCEPT ![h] = r]
    BY <1>1, <1>2, <1>3, HandFacts DEF ReadRepo, Hand
  <1>5. r \in Hand
    BY DEF Hand, Steps
  <1>6. SameUser(r, q) /\ r.at = step /\ r.seen = S /\ r.year = q.year
    BY DEF Hand, SameUser
  <1> HIDE DEF r
  <1>7. QED
    BY <1>1, <1>2, <1>3, <1>4, <1>5, <1>6

LEMMA FetchRecord ==
    ASSUME HandsFit, NEW h \in Handlers, Fetch(h)
    PROVE  \/ Kind(h) = "backload" /\ Finish(h, "done")
           \/ \E r \in Hand : /\ hand' = [hand EXCEPT ![h] = r] /\ SameUser(r, hand[h])
                              /\ r.at = IF Kind(h) = "issue" THEN "mention" ELSE "record"
                              /\ r.seen = hand[h].seen /\ r.year = hand[h].year
                              /\ r.merged <=> Item(h) \in merged
  <1>1. PICK q \in Hand : q = hand[h]
    BY HandFacts
  <1>2. (Item(h) \in merged) \in BOOLEAN
    OBVIOUS
  <1>3. PICK step \in {"mention", "record"} : step = IF Kind(h) = "issue" THEN "mention" ELSE "record"
    OBVIOUS
  <1> DEFINE r == [q EXCEPT !.merged = (Item(h) \in merged), !.at = step]
  <1>4. (Kind(h) = "backload" /\ Finish(h, "done")) \/ hand' = [hand EXCEPT ![h] = r]
    BY <1>1, <1>2, <1>3, HandFacts DEF Fetch, Hand
  <1>5. r \in Hand
    BY <1>2 DEF Hand, Steps
  <1>6. SameUser(r, q) /\ r.at = step /\ r.seen = q.seen /\ r.year = q.year
    BY DEF Hand, SameUser
  <1>61. r.merged <=> Item(h) \in merged
    BY <1>2 DEF Hand
  <1> HIDE DEF r
  <1>7. QED
    BY <1>1, <1>3, <1>4, <1>5, <1>6, <1>61

LEMMA CountedRecord ==
    ASSUME HandsFit, NEW h \in Handlers, NEW y \in Years, NEW n, Counted(h, y, n)
    PROVE  \E r \in Hand : /\ hand' = [hand EXCEPT ![h] = r] /\ SameUser(r, hand[h])
                           /\ r.at = IF r.due = {} THEN "count" ELSE "claim"
                           /\ r.year = y /\ r.seen = hand[h].seen /\ r.due = Due(h, y, n)
  <1>1. PICK q \in Hand : q = hand[h]
    BY HandFacts
  <1>2. PICK S \in SUBSET GitPOAPs : S = Due(h, y, n)
    BY <1>1 DEF Due, Hand
  <1>3. PICK step \in {"count", "claim"} : step = IF S = {} THEN "count" ELSE "claim"
    OBVIOUS
  <1> DEFINE r == [q EXCEPT !.year = y, !.count = 0, !.due = S, !.at = step]
  <1>4. hand' = [hand EXCEPT ![h] = r]
    BY <1>1, <1>2, <1>3, HandFacts DEF Counted
  <1>5. r \in Hand
    BY DEF Hand, Steps
  <1>6. SameUser(r, q) /\ r.at = step /\ r.seen = q.seen /\ r.year = y /\ r.due = S
    BY DEF Hand, SameUser
  <1> HIDE DEF r
  <1>7. QED
    BY <1>1, <1>2, <1>3, <1>4, <1>5, <1>6

LEMMA YearsAreNumbers == Years \subseteq Nat \ {0} /\ \A g \in GitPOAPs : Year[g] \in Years
  BY ContributionsAssumption DEF Years

LEMMA YearType == ASSUME HandsFit, NEW h \in Handlers PROVE hand[h].year \in Nat
  <1>1. PICK y \in Years \cup {0} : y = hand[h].year
    BY HandFacts DEF Hand
  <1>2. y \in Years => y \in Nat
    BY YearsAreNumbers
  <1>3. y \in Nat
    BY <1>2
  <1>4. QED
    BY <1>1, <1>3

LEMMA MentionCounts ==
    ASSUME HandsFit, NEW u, NEW y
    PROVE  IsFiniteSet(MentionsIn(u, y)) /\ Cardinality(MentionsIn(u, y)) \in Nat
  <1>1. mentions \subseteq Users \X Items
    BY DEF HandsFit, TypeOK
  <1>2. IsFiniteSet(Items)
    BY ContributionsAssumption, FS_Union DEF Items
  <1>3. IsFiniteSet(Users \X Items)
    BY <1>2, ContributionsAssumption, FS_Product
  <1>4. MentionsIn(u, y) \subseteq Users \X Items
    BY <1>1 DEF MentionsIn
  <1>5. QED
    BY <1>3, <1>4, FS_Subset, FS_CardinalityType

LEMMA MentionCountsNext ==
    ASSUME NEW u, NEW y
    PROVE  HandsFit' => (IsFiniteSet(MentionsIn(u, y)) /\ Cardinality(MentionsIn(u, y)) \in Nat)'
  <1>1. HandsFit => IsFiniteSet(MentionsIn(u, y)) /\ Cardinality(MentionsIn(u, y)) \in Nat
    BY MentionCounts
  <1>2. QED
    BY <1>1, PTL

\* Either the mentions are all that counts in the year, or the PRs are counted next.
LEMMA CountMentionsRecord ==
    ASSUME HandsFit, NEW h \in Handlers, CountMentions(h)
    PROVE  \E y \in YearsLeft(h), first \in hand[h].seen :
              /\ \A later \in YearsLeft(h) : y <= later
              /\ Year[first] = y
              /\ \/ /\ first \in PRBased
                    /\ \E r \in Hand : /\ hand' = [hand EXCEPT ![h] = r] /\ SameUser(r, hand[h])
                                       /\ r.at = "countPulls" /\ r.year = y /\ r.seen = hand[h].seen
                                       /\ r.count = Cardinality(MentionsIn(User(h), y))
                 \/ first \notin PRBased /\ Counted(h, y, Cardinality(MentionsIn(User(h), y)))
  <1>1. PICK q \in Hand : q = hand[h]
    BY HandFacts
  <1>2. PICK y \in YearsLeft(h) :
          /\ \A later \in YearsLeft(h) : y <= later
          /\ \E first \in {g \in hand[h].seen : Year[g] = y} :
                IF first \in PRBased
                THEN hand' = [hand EXCEPT ![h] = [@ EXCEPT !.year = y,
                        !.count = Cardinality(MentionsIn(User(h), y)), !.at = "countPulls"]]
                ELSE Counted(h, y, Cardinality(MentionsIn(User(h), y)))
    BY DEF CountMentions
  <1>3. PICK first \in {g \in hand[h].seen : Year[g] = y} :
                IF first \in PRBased
                THEN hand' = [hand EXCEPT ![h] = [@ EXCEPT !.year = y,
                        !.count = Cardinality(MentionsIn(User(h), y)), !.at = "countPulls"]]
                ELSE Counted(h, y, Cardinality(MentionsIn(User(h), y)))
    BY <1>2
  <1>4. PICK n \in Nat : n = Cardinality(MentionsIn(User(h), y))
    BY MentionCounts
  <1>5. y \in Years
    BY <1>1, <1>3, YearsAreNumbers DEF Hand
  <1> DEFINE r == [q EXCEPT !.year = y, !.count = n, !.at = "countPulls"]
  <1>6. r \in Hand
    BY <1>5 DEF Hand, Steps
  <1>7. SameUser(r, q) /\ r.at = "countPulls" /\ r.year = y /\ r.seen = q.seen /\ r.count = n
    BY <1>5 DEF Hand, SameUser
  <1>8. first \in PRBased => hand' = [hand EXCEPT ![h] = r]
    BY <1>1, <1>3, <1>4, HandFacts
  <1> HIDE DEF r
  <1>9. QED
    BY <1>1, <1>2, <1>3, <1>4, <1>6, <1>7, <1>8

\* A claim for the contribution of h, made with GitPOAP g.
Fresh(h, g, new) ==
    /\ new.status = "UNCLAIMED" /\ (new.late <=> gitPOAPs[g] = "closed")
    /\ Kind(h) \in {"mention", "issue"} => new.pull = NoItem /\ new.mention = Item(h)
    /\ Kind(h) \notin {"mention", "issue"} => new.pull = Item(h) /\ new.mention = NoItem

\* The handler after it has asked for claim k of g, which is c now.
Made(h, g, k, c, r) ==
    /\ r.at = IF r.due = {} THEN "count" ELSE "claim"
    /\ r.due = hand[h].due \ {g}
    /\ r.made = IF claims[k] = NoClaim THEN hand[h].made \cup {<<k, c.late>>} ELSE hand[h].made
    /\ r.bare = IF Kind(h) = "backload" /\ c.pull = NoItem
                THEN hand[h].bare \cup {<<k, c.late>>} ELSE hand[h].bare
    /\ r.call = hand[h].call /\ r.todo = hand[h].todo /\ r.before = hand[h].before
    /\ r.seen = hand[h].seen /\ r.year = hand[h].year
    /\ r.told = hand[h].told /\ r.replied = hand[h].replied

LEMMA FreshClaim ==
    ASSUME HandsFit, NEW h \in Handlers, NEW g, Item(h) \in Items,
           Kind(h) \notin {"mention", "issue"} => Item(h) \in Pulls,
           NEW pull, pull = IF Kind(h) \in {"mention", "issue"} THEN NoItem ELSE Item(h),
           NEW mention, mention = IF Kind(h) \in {"mention", "issue"} THEN Item(h) ELSE NoItem
    PROVE  NewClaim(g, pull, mention) \in Claim /\ Fresh(h, g, NewClaim(g, pull, mention))
  <1>1. pull \in Pulls \cup {NoItem} /\ mention \in Items \cup {NoItem}
    OBVIOUS
  <1>2. (gitPOAPs[g] = "closed") \in BOOLEAN
    OBVIOUS
  <1>3. PICK new : new = NewClaim(g, pull, mention)
    OBVIOUS
  <1>4. new \in Claim
    BY <1>1, <1>2, <1>3 DEF Claim, NewClaim
  <1>5. new.status = "UNCLAIMED" /\ new.pull = pull /\ new.mention = mention
    BY <1>3 DEF NewClaim
  <1>6. new.late <=> gitPOAPs[g] = "closed"
    BY <1>2, <1>3 DEF NewClaim
  <1>7. QED
    BY <1>3, <1>4, <1>5, <1>6 DEF Fresh

LEMMA UpsertRecord ==
    ASSUME HandsFit, NEW k \in Keys, NEW new \in Claim, Upsert(k, new)
    PROVE  \E c \in Claim : /\ c = IF claims[k] = NoClaim THEN new ELSE claims[k]
                            /\ claims' = [claims EXCEPT ![k] = c] /\ claims'[k] = c
  <1>1. claims \in [Keys -> Claim \cup {NoClaim}]
    BY DEF HandsFit, TypeOK
  <1>2. QED
    BY <1>1 DEF Upsert

LEMMA MakeClaimRecord ==
    ASSUME HandsFit, NEW h \in Handlers, MakeClaim(h)
    PROVE  \E g \in GitPOAPs, k \in Keys, r \in Hand, new \in Claim, c \in Claim :
              /\ g \in hand[h].due /\ k = <<g, User(h)>> /\ Fresh(h, g, new)
              /\ c = IF claims[k] = NoClaim THEN new ELSE claims[k]
              /\ claims' = [claims EXCEPT ![k] = c]
              /\ hand' = [hand EXCEPT ![h] = r]
              /\ Made(h, g, k, c, r)
  <1>1. PICK q \in Hand : q = hand[h]
    BY HandFacts
  <1>2. PICK pull : pull = IF Kind(h) \in {"mention", "issue"} THEN NoItem ELSE Item(h)
    OBVIOUS
  <1>3. PICK mention : mention = IF Kind(h) \in {"mention", "issue"} THEN Item(h) ELSE NoItem
    OBVIOUS
  <1>4. PICK g \in q.due :
          LET k == <<g, User(h)>>  rest == q.due \ {g} IN
          /\ Upsert(k, NewClaim(g, pull, mention))
          /\ hand' = [hand EXCEPT ![h] = [@ EXCEPT !.due = rest,
                    !.made = MadeBy(h, k),
                    !.bare = IF Kind(h) = "backload" /\ claims'[k].pull = NoItem
                             THEN hand[h].bare \cup {<<k, claims'[k].late>>} ELSE hand[h].bare,
                    !.at = IF rest = {} THEN "count" ELSE "claim"]]
    BY <1>1, <1>2, <1>3 DEF MakeClaim
  <1>5. q.todo # <<>> /\ q.at = "claim" /\ Kind(h) # "staff" /\ User(h) \in Users
    BY <1>1, HandFacts DEF MakeClaim, HandFits, Recorded, Handled
  <1>6. /\ Item(h) \in Items
        /\ Kind(h) \notin {"mention", "issue"} => Item(h) \in Pulls
    BY <1>1, <1>5, ItemFacts DEF Kinds, BotKinds, Items
  <1>7. g \in GitPOAPs
    BY DEF Hand
  <1>8. PICK k \in Keys : k = <<g, User(h)>>
    BY <1>5, <1>7 DEF Keys
  <1>9. PICK new \in Claim : new = NewClaim(g, pull, mention) /\ Fresh(h, g, new)
    BY <1>2, <1>3, <1>6, FreshClaim
  <1>10. Upsert(k, new)
    BY <1>4, <1>8, <1>9
  <1>11. PICK c \in Claim : /\ c = IF claims[k] = NoClaim THEN new ELSE claims[k]
                            /\ claims' = [claims EXCEPT ![k] = c] /\ claims'[k] = c
    BY <1>10, UpsertRecord
  <1>12. <<k, c.late>> \in RowIds
    BY DEF Claim, RowIds
  <1>13. PICK made \in SUBSET RowIds :
            /\ made = IF claims[k] = NoClaim THEN q.made \cup {<<k, c.late>>} ELSE q.made
            /\ made = MadeBy(h, k)
    BY <1>1, <1>11, <1>12 DEF MadeBy, Hand
  <1>14. PICK bare \in SUBSET RowIds :
            bare = IF Kind(h) = "backload" /\ c.pull = NoItem
                   THEN q.bare \cup {<<k, c.late>>} ELSE q.bare
    BY <1>1, <1>12 DEF Hand
  <1>15. PICK rest \in SUBSET GitPOAPs : rest = q.due \ {g}
    BY DEF Hand
  <1>16. PICK step \in {"count", "claim"} : step = IF rest = {} THEN "count" ELSE "claim"
    OBVIOUS
  <1> DEFINE r == [q EXCEPT !.due = rest, !.made = made, !.bare = bare, !.at = step]
  <1>17. hand' = [hand EXCEPT ![h] = r]
    BY <1>1, <1>4, <1>8, <1>11, <1>13, <1>14, <1>15, <1>16, HandFacts
  <1>18. r \in Hand
    BY DEF Hand, Steps
  <1>19. /\ r.at = step /\ r.due = rest /\ r.made = made /\ r.bare = bare
         /\ r.call = q.call /\ r.todo = q.todo /\ r.before = q.before
         /\ r.seen = q.seen /\ r.year = q.year
         /\ r.told = q.told /\ r.replied = q.replied
    BY DEF Hand
  <1> HIDE DEF r
  <1>20. Made(h, g, k, c, r)
    BY <1>1, <1>13, <1>14, <1>15, <1>16, <1>19 DEF Made
  <1>21. QED
    BY <1>1, <1>7, <1>8, <1>9, <1>11, <1>17, <1>18, <1>20


LEMMA SetEarnedRecord ==
    ASSUME HandsFit, NEW h \in Handlers, SetEarned(h)
    PROVE  \/ Finish(h, "failed") /\ UNCHANGED claims
           \/ \E k \in Keys, c \in Claim, bare \in SUBSET RowIds :
                 /\ claims[k] # NoClaim
                 /\ c.pull = Item(h) /\ c.mention = claims[k].mention
                 /\ c.late = claims[k].late /\ c.status = claims[k].status
                 /\ claims' = [claims EXCEPT ![k] = c]
                 /\ <<k, c.late>> \in hand[h].bare
                 /\ bare \subseteq hand[h].bare
                 /\ \/ Finish(h, "done")
                    \/ \E r \in Hand : /\ hand' = [hand EXCEPT ![h] = r] /\ r.bare = bare
                                       /\ r.at = "earn" /\ r.call = hand[h].call /\ r.todo = hand[h].todo
                                       /\ r.before = hand[h].before /\ r.made = hand[h].made
                                       /\ r.told = hand[h].told /\ r.replied = hand[h].replied
  <1>1. PICK q \in Hand : q = hand[h]
    BY HandFacts
  <1>2. PICK id \in q.bare :
          IF id \in Existing
          THEN /\ claims' = [claims EXCEPT ![id[1]].pull = Item(h)]
               /\ IF q.bare = {id} THEN Finish(h, "done")
                  ELSE hand' = [hand EXCEPT ![h].bare = @ \ {id}]
          ELSE Finish(h, "failed") /\ UNCHANGED claims
    BY <1>1 DEF SetEarned
  <1>3. id \in RowIds
    BY DEF Hand
  <1>4. CASE id \notin Existing
    BY <1>2, <1>4
  <1>5. CASE id \in Existing
    <2>1. PICK k \in Keys, b \in BOOLEAN : id = <<k, b>>
      BY <1>3 DEF RowIds
    <2>2. claims[k] # NoClaim /\ b = claims[k].late
      BY <1>3, <1>5, <2>1, RowFacts
    <2>3. claims \in [Keys -> Claim \cup {NoClaim}]
      BY DEF HandsFit, TypeOK
    <2>4. PICK old \in Claim : old = claims[k]
      BY <2>2, <2>3
    <2>5. Item(h) \in Pulls
      <3>1. Kind(h) = "backload" /\ hand[h].at # "idle"
        BY HandFacts DEF SetEarned, HandFits
      <3>2. QED
        BY <3>1, ItemFacts
    <2>6. PICK item \in Pulls : item = Item(h)
      BY <2>5
    <2> DEFINE c == [old EXCEPT !.pull = item]
    <2>7. c \in Claim /\ c.pull = item /\ c.mention = old.mention /\ c.late = old.late /\ c.status = old.status
      BY DEF Claim
    <2>8. claims' = [claims EXCEPT ![k] = c]
      BY <1>2, <1>5, <2>1, <2>3, <2>4, <2>6
    <2> HIDE DEF c
    <2>9. PICK bare \in SUBSET RowIds : bare = q.bare \ {id}
      BY DEF Hand
    <2>10. CASE q.bare = {id}
      <3>1. Finish(h, "done")
        BY <1>2, <1>5, <2>10
      <3>2. QED
        BY <1>1, <2>1, <2>2, <2>4, <2>6, <2>7, <2>8, <2>9, <3>1
    <2>11. CASE q.bare # {id}
      <3> DEFINE r == [q EXCEPT !.bare = bare]
      <3>1. hand' = [hand EXCEPT ![h] = r]
        BY <1>1, <1>2, <1>5, <2>9, <2>11, HandFacts DEF Hand
      <3>2. r \in Hand
        BY DEF Hand
      <3>3. /\ r.bare = bare /\ r.at = "earn" /\ r.call = q.call /\ r.todo = q.todo
            /\ r.before = q.before /\ r.made = q.made /\ r.told = q.told /\ r.replied = q.replied
        BY <1>1 DEF Hand, SetEarned
      <3> HIDE DEF r
      <3>4. QED
        BY <1>1, <2>1, <2>2, <2>4, <2>6, <2>7, <2>8, <2>9, <3>1, <3>2, <3>3
    <2>12. QED
      BY <2>10, <2>11
  <1>6. QED
    BY <1>4, <1>5

LEMMA RetrieveRecord ==
    ASSUME HandsFit, NEW h \in Handlers, Retrieve(h)
    PROVE  \E u \in hand[h].told, r \in Hand :
              /\ hand' = [hand EXCEPT ![h] = r] /\ r.at = "retrieve" /\ r.told = hand[h].told \ {u}
              /\ r.replied = hand[h].replied \cup
                               (IF Kind(h) = "merged" THEN CreatedByPR(Item(h), hand[h].before)
                                ELSE CreatedByMention(u, Item(h)))
              /\ r.call = hand[h].call /\ r.todo = hand[h].todo
              /\ r.before = hand[h].before /\ r.bare = hand[h].bare /\ r.made = hand[h].made
  <1>1. PICK q \in Hand : q = hand[h]
    BY HandFacts
  <1>2. PICK u \in q.told :
          hand' = [hand EXCEPT ![h] = [@ EXCEPT !.told = hand[h].told \ {u},
                !.replied = hand[h].replied \cup
                               (IF Kind(h) = "merged" THEN CreatedByPR(Item(h), hand[h].before)
                                ELSE CreatedByMention(u, Item(h)))]]
    BY <1>1 DEF Retrieve
  <1>3. PICK replied \in SUBSET RowIds :
           replied = q.replied \cup (IF Kind(h) = "merged" THEN CreatedByPR(Item(h), hand[h].before)
                                     ELSE CreatedByMention(u, Item(h)))
    <2>1. CreatedByPR(Item(h), hand[h].before) \subseteq RowIds /\ CreatedByMention(u, Item(h)) \subseteq RowIds
      BY RowFacts DEF CreatedByPR, CreatedByMention
    <2>2. QED
      BY <2>1 DEF Hand
  <1>4. PICK told \in SUBSET Users : told = q.told \ {u}
    BY DEF Hand
  <1> DEFINE r == [q EXCEPT !.told = told, !.replied = replied]
  <1>5. hand' = [hand EXCEPT ![h] = r]
    BY <1>1, <1>2, <1>3, <1>4, HandFacts
  <1>6. r \in Hand
    BY DEF Hand
  <1>7. /\ r.at = "retrieve" /\ r.told = told /\ r.replied = replied
        /\ r.call = q.call /\ r.todo = q.todo /\ r.before = q.before /\ r.bare = q.bare /\ r.made = q.made
    BY <1>1 DEF Hand, Retrieve
  <1> HIDE DEF r
  <1>8. QED
    BY <1>1, <1>3, <1>4, <1>5, <1>6, <1>7

LEMMA NextGiftRecord ==
    ASSUME HandsFit, NEW h \in Handlers, hand[h].todo # <<>>, NextGift(h)
    PROVE  \/ Finish(h, "done")
           \/ \E r \in Hand :
                 /\ hand' = [hand EXCEPT ![h] = r] /\ r.at = hand[h].at /\ r.todo # <<>>
                 /\ r.call = hand[h].call /\ r.before = hand[h].before /\ r.bare = hand[h].bare
                 /\ r.made = hand[h].made /\ r.told = hand[h].told /\ r.replied = hand[h].replied
                 /\ r.year = hand[h].year /\ r.seen = hand[h].seen
  <1>1. PICK q \in Hand : q = hand[h]
    BY HandFacts
  <1>2. q.todo \in Seq(Users) /\ q.todo # <<>>
    BY <1>1 DEF Hand
  <1>3. CASE Len(q.todo) = 1
    BY <1>1, <1>3 DEF NextGift
  <1>4. CASE Len(q.todo) # 1
    <2>1. PICK rest \in Seq(Users) : rest = Tail(q.todo) /\ rest # <<>>
      BY <1>2, <1>4, Queues
    <2> DEFINE r == [q EXCEPT !.todo = rest]
    <2>2. hand' = [hand EXCEPT ![h] = r]
      BY <1>1, <1>4, <2>1, HandFacts DEF NextGift, Hand
    <2>3. r \in Hand
      BY DEF Hand
    <2>4. /\ r.at = q.at /\ r.todo = rest /\ r.call = q.call /\ r.before = q.before /\ r.bare = q.bare
          /\ r.made = q.made /\ r.told = q.told /\ r.replied = q.replied /\ r.year = q.year /\ r.seen = q.seen
      BY DEF Hand
    <2> HIDE DEF r
    <2>5. QED
      BY <1>1, <2>1, <2>2, <2>3, <2>4
  <1>5. QED
    BY <1>3, <1>4

LEMMA RecordPullHand ==
    ASSUME NEW h, RecordPull(h)
    PROVE  \/ Kind(h) = "mention" /\ Goto(h, "mention")
           \/ Kind(h) = "updater" /\ Finish(h, "done")
              /\ \A g \in hand[h].seen : Year[g] # MergeYear[Item(h)]
           \/ Kind(h) # "mention" /\ Goto(h, "count")
  BY DEF RecordPull

LEMMA EndUserHand ==
    ASSUME HandsFit, NEW h \in Handlers, EndUser(h)
    PROVE  \/ Kind(h) \in {"updater", "backload"} /\ Finish(h, "done")
           \/ Kind(h) = "backload" /\ Goto(h, "earn")
           \/ Kind(h) \in BotKinds /\ NextUser(h, hand[h].told \cup {User(h)})
  <1>1. hand[h].at = "count" /\ Kind(h) \in Kinds /\ Kind(h) # "staff"
    BY HandFacts, ItemFacts DEF EndUser, HandFits, Recorded, Handled
  <1>2. CASE Kind(h) = "updater"
    BY <1>2 DEF EndUser
  <1>3. CASE Kind(h) = "backload"
    BY <1>3 DEF EndUser
  <1>4. CASE Kind(h) \in BotKinds
    BY <1>4 DEF EndUser, BotKinds
  <1>5. QED
    BY <1>1, <1>2, <1>3, <1>4 DEF Kinds


-----------------------------------------------------------------------------
(* Types, and what every handler at work has.                              *)

TablesFit ==
    /\ merged \subseteq Pulls
    /\ gitPOAPs \in [GitPOAPs -> {"absent", "live", "deprecated", "closed"}]
    /\ pullUser \in [Pulls -> Users \cup {NoUser}]
    /\ pullMerged \subseteq {p \in Pulls : pullUser[p] # NoUser}
    /\ mentions \subseteq Users \X Items
    /\ claims \in [Keys -> Claim \cup {NoClaim}]
    /\ unmerged \subseteq Pulls /\ uncounted \subseteq pullMerged

LEMMA Moved ==
    ASSUME HandsFit, NEW h \in Handlers, NEW r \in Hand, hand' = [hand EXCEPT ![h] = r]
    PROVE  hand' \in [Handlers -> Hand] /\ hand'[h] = r /\ \A o \in Handlers \ {h} : hand'[o] = hand[o]
  BY HandFacts

LEMMA HandsFitMoved ==
    ASSUME HandsFit, NEW h \in Handlers, NEW r \in Hand, hand' = [hand EXCEPT ![h] = r],
           TablesFit', UNCHANGED gitPOAPs, HandFits(h)'
    PROVE  HandsFit'
  <1>1. TypeOK'
    BY Moved DEF TablesFit, TypeOK
  <1>2. ASSUME NEW o \in Handlers PROVE HandFits(o)'
    <2>1. CASE o = h
      BY <2>1
    <2>2. CASE o # h
      <3>1. hand'[o] = hand[o] /\ HandFits(o)
        BY <2>2, Moved, HandFacts
      <3>2. QED
        BY <3>1 DEF HandFits, Kind
    <2>3. QED
      BY <2>1, <2>2
  <1>3. \A g \in GitPOAPs \ Later : gitPOAPs'[g] # "absent"
    BY DEF HandsFit
  <1>4. QED
    BY <1>1, <1>2, <1>3 DEF HandsFit

LEMMA HandsFitStill ==
    ASSUME HandsFit, UNCHANGED hand, TablesFit',
           \A g \in GitPOAPs \ Later : gitPOAPs'[g] # "absent" /\ (gitPOAPs'[g] = "live" => gitPOAPs[g] = "live")
    PROVE  HandsFit'
  <1>1. TypeOK'
    BY DEF TablesFit, TypeOK, HandsFit
  <1>2. ASSUME NEW o \in Handlers PROVE HandFits(o)'
    BY HandFacts DEF HandFits, Kind
  <1>3. QED
    BY <1>1, <1>2 DEF HandsFit

LEMMA Tables == ASSUME HandsFit PROVE TablesFit
  BY DEF HandsFit, TypeOK, TablesFit

LEMMA SameTables ==
    ASSUME HandsFit, UNCHANGED <<merged, gitPOAPs, rows, claims, history>>
    PROVE  TablesFit'
  BY Tables DEF TablesFit, rows, history

LEMMA ClaimsTables ==
    ASSUME HandsFit, UNCHANGED <<merged, gitPOAPs, rows, history>>,
           NEW k \in Keys, NEW c \in Claim, claims' = [claims EXCEPT ![k] = c]
    PROVE  TablesFit'
  BY Tables DEF TablesFit, rows, history

\* Nothing is asked of a handler that has ended.
LEMMA FinishFits ==
    ASSUME HandsFit, NEW h \in Handlers, hand[h].at # "idle", NEW step \in {"done", "failed"},
           Finish(h, step), TablesFit', UNCHANGED gitPOAPs
    PROVE  HandsFit'
  <1>1. PICK r \in Hand : hand' = [hand EXCEPT ![h] = r] /\ Over(r, hand[h], step)
    BY FinishRecord
  <1>2. hand'[h] = r
    BY <1>1, Moved
  <1>3. HandFits(h)'
    BY <1>1, <1>2, HandFacts DEF HandFits, Over, Recorded, Handled
  <1>4. QED
    BY <1>1, <1>3, HandsFitMoved

LEMMA GotoFits ==
    ASSUME HandsFit, NEW h \in Handlers, hand[h].at # "idle", NEW step \in Steps, Goto(h, step),
           TablesFit', UNCHANGED gitPOAPs,
           step \in {"read", "fetch", "record", "give"} \cup Recorded => hand[h].todo # <<>>,
           step \in {"fetch", "record", "retrieve", "earn"} \cup Recorded => Kind(h) # "staff",
           step = "give" => Kind(h) = "staff",
           step = "mention" => Kind(h) \in {"mention", "issue"},
           step = "earn" => Kind(h) = "backload",
           step \in {"read", "fetch", "record", "mention"} => hand[h].year = 0,
           step \in {"fetch", "record"} \cup Recorded => hand[h].at \in {"fetch", "record"} \cup Recorded,
           step \notin {"record", "retrieve", "countPulls"}
    PROVE  HandsFit'
  <1>1. PICK r \in Hand : hand' = [hand EXCEPT ![h] = r] /\ r.at = step /\ Same(r, hand[h])
    BY GotoRecord
  <1>2. hand'[h] = r
    BY <1>1, Moved
  <1>3. HandFits(h)'
    BY <1>1, <1>2, HandFacts DEF HandFits, Same, Kind
  <1>4. QED
    BY <1>1, <1>3, HandsFitMoved

LEMMA NextUserFits ==
    ASSUME HandsFit, NEW h \in Handlers, hand[h].at # "idle", hand[h].todo # <<>>,
           NEW told \in SUBSET Users, NextUser(h, told), Kind(h) \in BotKinds,
           UNCHANGED <<merged, gitPOAPs, rows, claims, history>>
    PROVE  HandsFit'
  <1>1. PICK r \in Hand :
              /\ hand' = [hand EXCEPT ![h] = r]
              /\ r.at \in {"read", "retrieve"} /\ (r.at = "read" => r.todo # <<>>)
              /\ r.year = 0 /\ r.told = told
              /\ r.call = hand[h].call /\ r.before = hand[h].before /\ r.bare = hand[h].bare
              /\ r.made = hand[h].made /\ r.replied = hand[h].replied
    BY NextUserRecord
  <1>2. hand'[h] = r
    BY <1>1, Moved
  <1>3. HandFits(h)'
    BY <1>1, <1>2, HandFacts DEF HandFits, Kind, BotKinds, Recorded, Handled
  <1>4. QED
    BY <1>1, <1>3, HandsFitMoved, SameTables


\* A handler at work, by its step.
LEMMA AtWork ==
    ASSUME HandsFit, NEW h \in Handlers
    PROVE  /\ hand[h].at \in {"read", "fetch", "record", "give"} \cup Recorded =>
                 hand[h].todo # <<>> /\ User(h) \in Users
           /\ hand[h].at \in {"fetch", "record", "retrieve", "earn"} \cup Recorded => Kind(h) # "staff"
           /\ hand[h].at \in {"read", "fetch", "record", "mention"} => hand[h].year = 0
           /\ hand[h].at \in {"record"} \cup Handled => Kind(h) \in Kinds \ {"staff"}
           /\ hand[h].at = "record" => Item(h) \in Pulls
           /\ hand[h].at \in {"fetch", "record", "retrieve"} \cup Recorded => Item(h) \in Items
           /\ hand[h].at \in {"mention"} => Kind(h) \in {"mention", "issue"}
  <1>1. HandFits(h) /\ (hand[h].todo # <<>> => User(h) \in Users)
    BY HandFacts
  <1>2. hand[h].at # "idle" /\ Kind(h) # "staff" => Item(h) \in Items
    BY ItemFacts DEF Kinds, BotKinds, Items
  <1>3. hand[h].at = "record" => Item(h) \in Pulls
    BY <1>1, ItemFacts DEF Kinds, BotKinds, HandFits
  <1>4. QED
    BY <1>1, <1>2, <1>3, ItemFacts DEF HandFits, Recorded, Handled

LEMMA RecordPullTables ==
    ASSUME HandsFit, NEW h \in Handlers, RecordPull(h)
    PROVE  /\ TablesFit'
           /\ pullUser'[Item(h)] = IF pullUser[Item(h)] = NoUser THEN User(h) ELSE pullUser[Item(h)]
           /\ \A p \in Pulls \ {Item(h)} : /\ pullUser'[p] = pullUser[p]
                                           /\ p \in pullMerged' <=> p \in pullMerged
                                           /\ p \in uncounted' <=> p \in uncounted
                                           /\ p \in unmerged' <=> p \in unmerged
           /\ Item(h) \in Pulls /\ User(h) \in Users
  <1>1. Item(h) \in Pulls /\ User(h) \in Users
    BY AtWork DEF RecordPull
  <1>2. TablesFit
    BY Tables
  <1>3. /\ pullUser' = [pullUser EXCEPT ![Item(h)] = IF pullUser[Item(h)] = NoUser THEN User(h) ELSE pullUser[Item(h)]]
        /\ pullMerged' = IF hand[h].merged THEN pullMerged \cup {Item(h)} ELSE pullMerged \ {Item(h)}
        /\ unmerged' = IF hand[h].merged THEN unmerged ELSE unmerged \cup (pullMerged \cap {Item(h)})
        /\ uncounted' = IF ~hand[h].merged \/ pullUser'[Item(h)] = User(h) THEN uncounted \ {Item(h)}
                        ELSE uncounted \cup ({Item(h)} \ pullMerged)
        /\ UNCHANGED <<merged, gitPOAPs, mentions, claims>>
    BY <1>2 DEF RecordPull, TablesFit
  <1>4. /\ pullUser' \in [Pulls -> Users \cup {NoUser}]
        /\ pullUser'[Item(h)] = IF pullUser[Item(h)] = NoUser THEN User(h) ELSE pullUser[Item(h)]
        /\ \A p \in Pulls \ {Item(h)} : pullUser'[p] = pullUser[p]
        /\ pullUser'[Item(h)] # NoUser
    BY <1>1, <1>2, <1>3, ContributionsAssumption DEF TablesFit
  <1>5. pullMerged' \subseteq {p \in Pulls : pullUser'[p] # NoUser} /\ unmerged' \subseteq Pulls
    BY <1>1, <1>2, <1>3, <1>4 DEF TablesFit
  <1>6. uncounted' \subseteq pullMerged'
    BY <1>2, <1>3 DEF TablesFit
  <1>7. \A p \in Pulls \ {Item(h)} : /\ p \in pullMerged' <=> p \in pullMerged
                                     /\ p \in uncounted' <=> p \in uncounted
                                     /\ p \in unmerged' <=> p \in unmerged
    BY <1>3
  <1>8. TablesFit'
    BY <1>2, <1>3, <1>4, <1>5, <1>6 DEF TablesFit
  <1>9. QED
    BY <1>1, <1>4, <1>7, <1>8

LEMMA GiveRecord ==
    ASSUME HandsFit, NEW h \in Handlers, GiveClaim(h)
    PROVE  \E k \in Keys, new \in Claim, c \in Claim :
              /\ k = <<Item(h), User(h)>>
              /\ new.pull = NoItem /\ new.mention = NoItem /\ (new.late <=> gitPOAPs[k[1]] = "closed")
              /\ c = IF claims[k] = NoClaim THEN new ELSE claims[k]
              /\ claims' = [claims EXCEPT ![k] = c]
  <1>1. Kind(h) = "staff" /\ hand[h].at = "give" /\ hand[h].todo # <<>>
    BY HandFacts DEF GiveClaim, HandFits
  <1>2. PICK g \in GitPOAPs : g = Item(h)
    BY <1>1, ItemFacts
  <1>3. PICK k \in Keys : k = <<g, User(h)>>
    BY <1>1, HandFacts DEF Keys
  <1>4. (gitPOAPs[g] = "closed") \in BOOLEAN
    OBVIOUS
  <1>5. PICK new : new = NewClaim(g, NoItem, NoItem)
    OBVIOUS
  <1>6. new \in Claim
    BY <1>4, <1>5 DEF Claim, NewClaim
  <1>7. new.pull = NoItem /\ new.mention = NoItem
    BY <1>5 DEF NewClaim
  <1>8. new.late <=> gitPOAPs[g] = "closed"
    BY <1>4, <1>5 DEF NewClaim
  <1>9. Upsert(k, new)
    BY <1>2, <1>3, <1>5 DEF GiveClaim
  <1>10. PICK c \in Claim : /\ c = IF claims[k] = NoClaim THEN new ELSE claims[k]
                            /\ claims' = [claims EXCEPT ![k] = c] /\ claims'[k] = c
    BY <1>6, <1>9, UpsertRecord
  <1>11. QED
    <2>1. k[1] = g
      BY <1>3
    <2>2. QED
      BY <1>2, <1>3, <1>6, <1>7, <1>8, <1>10, <2>1

LEMMA StepFits ==
    ASSUME HandsFit, NEW h \in Handlers, Start(h) \/ HandlerStep(h)
    PROVE  HandsFit'
  <1> USE HandFacts
  <1>1. CASE Start(h)
    <2>1. PICK c \in Calls, r \in Hand :
              /\ hand' = [hand EXCEPT ![h] = r]
              /\ r.at = "read" /\ r.call = c /\ r.todo = c.users
              /\ r.before \subseteq Existing /\ r.seen = {} /\ r.year = 0 /\ r.due = {} /\ r.bare = {}
              /\ r.made = {} /\ r.told = {} /\ r.replied = {}
              /\ c.kind = "merged" => c.item \in merged
      BY <1>1, StartRecord
    <2>2. hand'[h] = r /\ c.users # <<>>
      BY <2>1, Moved, CallFacts
    <2>3. HandFits(h)'
      BY <2>1, <2>2 DEF HandFits, Recorded, Handled
    <2>4. QED
      BY <1>1, <2>1, <2>3, HandsFitMoved, SameTables DEF Start
  <1>2. CASE ReadRepo(h)
    <2>1. PICK r \in Hand : /\ hand' = [hand EXCEPT ![h] = r] /\ SameUser(r, hand[h])
                            /\ r.at \in {"done", "fetch"}
                            /\ r.at = "done" => Kind(h) \in {"updater", "backload"}
                            /\ r.seen = Found(Kind(h)) /\ r.year = hand[h].year
      BY <1>2, ReadRepoRecord
    <2>2. hand'[h] = r /\ Kind(h) # "staff" /\ hand[h].at = "read" /\ UNCHANGED gitPOAPs
      BY <1>2, <2>1, Moved DEF ReadRepo
    <2>3. Kind(h) \in Kinds
      BY <2>2, ItemFacts
    <2>4. \A g \in GitPOAPs \ Later :
              gitPOAPs[g] = "live" /\ (Kind(h) \in {"mention", "issue"} \/ g \in PRBased) => g \in r.seen
      BY <2>1, <2>3 DEF Found, Kinds, BotKinds
    <2>5. HandFits(h)'
      BY <2>1, <2>2, <2>4 DEF HandFits, Recorded, Handled, SameUser, Kind
    <2>6. QED
      BY <1>2, <2>1, <2>5, HandsFitMoved, SameTables DEF ReadRepo
  <1>3. CASE SkipUser(h)
    <2>1. hand[h].told \in SUBSET Users /\ hand[h].todo # <<>>
      BY <1>3, AtWork DEF Hand, SkipUser
    <2>2. QED
      BY <1>3, <2>1, NextUserFits DEF SkipUser
  <1>4. CASE Fetch(h)
    <2>1. CASE Finish(h, "done")
      BY <1>4, <2>1, FinishFits, SameTables DEF Fetch
    <2>2. CASE ~ Finish(h, "done")
      <3>1. PICK r \in Hand : /\ hand' = [hand EXCEPT ![h] = r] /\ SameUser(r, hand[h])
                              /\ r.at = IF Kind(h) = "issue" THEN "mention" ELSE "record"
                              /\ r.seen = hand[h].seen /\ r.year = hand[h].year
                              /\ r.merged <=> Item(h) \in merged
        BY <1>4, <2>2, FetchRecord
      <3>2. hand'[h] = r /\ hand[h].at = "fetch" /\ UNCHANGED gitPOAPs
        BY <1>4, <3>1, Moved DEF Fetch
      <3>3. HandFits(h)'
        BY <3>1, <3>2 DEF HandFits, Recorded, Handled, SameUser, Kind
      <3>4. QED
        BY <1>4, <3>1, <3>3, HandsFitMoved, SameTables DEF Fetch
    <2>3. QED
      BY <2>1, <2>2
  <1>5. CASE FetchFails(h)
    BY <1>5, FinishFits, SameTables DEF FetchFails
  <1>6. CASE RecordPull(h)
    <2>1. TablesFit' /\ UNCHANGED gitPOAPs /\ hand[h].at = "record"
      BY <1>6, RecordPullTables DEF RecordPull
    <2>2. hand[h].todo # <<>> /\ Kind(h) # "staff" /\ hand[h].year = 0
      BY <2>1, AtWork
    <2>3. CASE Kind(h) = "mention" /\ Goto(h, "mention")
      BY <2>1, <2>2, <2>3, GotoFits DEF Recorded, Handled, Steps
    <2>4. CASE Finish(h, "done")
      BY <2>1, <2>4, FinishFits
    <2>5. CASE Goto(h, "count")
      BY <2>1, <2>2, <2>5, GotoFits DEF Recorded, Handled, Steps
    <2>6. QED
      BY <1>6, <2>3, <2>4, <2>5, RecordPullHand
  <1>7. CASE RecordMention(h)
    <2>1. hand[h].at = "mention" /\ hand[h].todo # <<>> /\ Kind(h) # "staff"
          /\ User(h) \in Users /\ Item(h) \in Items
      BY <1>7, AtWork DEF RecordMention, Recorded
    <2>2. TablesFit'
      BY <1>7, <2>1, Tables DEF TablesFit, RecordMention, history
    <2>3. QED
      BY <1>7, <2>1, <2>2, GotoFits DEF RecordMention, Recorded, Handled, Steps
  <1>8. CASE CountMentions(h)
    <2>1. PICK y \in YearsLeft(h), first \in hand[h].seen :
              /\ \A later \in YearsLeft(h) : y <= later
              /\ Year[first] = y
              /\ \/ /\ first \in PRBased
                    /\ \E r \in Hand : /\ hand' = [hand EXCEPT ![h] = r] /\ SameUser(r, hand[h])
                                       /\ r.at = "countPulls" /\ r.year = y /\ r.seen = hand[h].seen
                                       /\ r.count = Cardinality(MentionsIn(User(h), y))
                 \/ first \notin PRBased /\ Counted(h, y, Cardinality(MentionsIn(User(h), y)))
      BY <1>8, CountMentionsRecord
    <2>2. y \in Years /\ y # 0
      BY <2>1, YearsAreNumbers DEF Hand
    <2>3. \E r \in Hand : /\ hand' = [hand EXCEPT ![h] = r] /\ SameUser(r, hand[h])
                          /\ r.at \in {"countPulls", "count", "claim"} /\ r.year = y
                          /\ r.seen = hand[h].seen
      <3>1. CASE Counted(h, y, Cardinality(MentionsIn(User(h), y)))
        BY <2>2, <3>1, CountedRecord
      <3>2. QED
        BY <2>1, <3>1
    <2>4. PICK r \in Hand : /\ hand' = [hand EXCEPT ![h] = r] /\ SameUser(r, hand[h])
                            /\ r.at \in {"countPulls", "count", "claim"} /\ r.year = y
                            /\ r.seen = hand[h].seen
      BY <2>3
    <2>5. hand'[h] = r /\ hand[h].at = "count" /\ UNCHANGED gitPOAPs
      BY <1>8, <2>4, Moved DEF CountMentions
    <2>6. HandFits(h)'
      BY <2>2, <2>4, <2>5 DEF HandFits, Recorded, Handled, SameUser, Kind
    <2>7. QED
      BY <1>8, <2>4, <2>6, HandsFitMoved, SameTables DEF CountMentions
  <1>9. CASE CountPulls(h)
    <2>1. hand[h].at = "countPulls" /\ UNCHANGED gitPOAPs
          /\ Counted(h, hand[h].year, hand[h].count + Cardinality(PullsIn(User(h), hand[h].year)))
      BY <1>9 DEF CountPulls
    <2>2. hand[h].year \in Years
      BY <2>1 DEF HandFits, Hand
    <2>3. PICK y \in Years : y = hand[h].year
      BY <2>2
    <2>n. PICK n : n = hand[h].count + Cardinality(PullsIn(User(h), hand[h].year))
      OBVIOUS
    <2>4. Counted(h, y, n)
      BY <2>1, <2>3, <2>n
    <2>5. PICK r \in Hand : /\ hand' = [hand EXCEPT ![h] = r] /\ SameUser(r, hand[h])
                            /\ r.at = IF r.due = {} THEN "count" ELSE "claim"
                            /\ r.year = y /\ r.seen = hand[h].seen /\ r.due = Due(h, y, n)
      BY <2>4, CountedRecord
    <2>6. hand'[h] = r
      BY <2>5, Moved
    <2>7. HandFits(h)'
      BY <2>1, <2>3, <2>5, <2>6 DEF HandFits, Recorded, Handled, SameUser, Kind
    <2>8. QED
      BY <1>9, <2>5, <2>7, HandsFitMoved, SameTables DEF CountPulls
  <1>10. CASE MakeClaim(h)
    <2>1. PICK g \in GitPOAPs, k \in Keys, r \in Hand, new \in Claim, c \in Claim :
              /\ g \in hand[h].due /\ k = <<g, User(h)>> /\ Fresh(h, g, new)
              /\ c = IF claims[k] = NoClaim THEN new ELSE claims[k]
              /\ claims' = [claims EXCEPT ![k] = c]
              /\ hand' = [hand EXCEPT ![h] = r]
              /\ Made(h, g, k, c, r)
      BY <1>10, MakeClaimRecord
    <2>2. hand'[h] = r /\ hand[h].at = "claim" /\ UNCHANGED gitPOAPs
      BY <1>10, <2>1, Moved DEF MakeClaim
    <2>3. r.at \in {"count", "claim"} /\ r.call = hand[h].call /\ r.todo = hand[h].todo
          /\ r.seen = hand[h].seen /\ r.year = hand[h].year
      BY <2>1 DEF Made
    <2>4. HandFits(h)'
      BY <2>2, <2>3 DEF HandFits, Recorded, Handled, Kind
    <2>5. TablesFit'
      BY <1>10, <2>1, ClaimsTables DEF MakeClaim
    <2>6. QED
      BY <2>1, <2>2, <2>4, <2>5, HandsFitMoved
  <1>11. CASE EndUser(h)
    <2>1. hand[h].at = "count" /\ UNCHANGED <<merged, gitPOAPs, rows, claims, history>>
      BY <1>11 DEF EndUser
    <2>2. TablesFit' /\ UNCHANGED gitPOAPs
      BY <2>1, SameTables
    <2>3. CASE Finish(h, "done")
      BY <2>1, <2>2, <2>3, FinishFits
    <2>4. CASE Kind(h) = "backload" /\ Goto(h, "earn")
      BY <2>1, <2>2, <2>4, GotoFits DEF Recorded, Handled, Steps
    <2>5. CASE Kind(h) \in BotKinds /\ NextUser(h, hand[h].told \cup {User(h)})
      <3>1. hand[h].todo # <<>> /\ hand[h].told \cup {User(h)} \in SUBSET Users
        BY <2>1, AtWork DEF Hand, Recorded, Handled
      <3>2. QED
        BY <2>1, <2>5, <3>1, NextUserFits
    <2>6. QED
      BY <1>11, <2>3, <2>4, <2>5, EndUserHand
  <1>12. CASE SetEarned(h)
    <2>1. hand[h].at = "earn" /\ UNCHANGED <<merged, gitPOAPs, rows, history>>
      BY <1>12 DEF SetEarned
    <2>2. CASE Finish(h, "failed") /\ UNCHANGED claims
      BY <2>1, <2>2, FinishFits, SameTables
    <2>3. ASSUME NEW k \in Keys, NEW c \in Claim, claims' = [claims EXCEPT ![k] = c], Finish(h, "done")
          PROVE  HandsFit'
      BY <2>1, <2>3, FinishFits, ClaimsTables
    <2>4. ASSUME NEW k \in Keys, NEW c \in Claim, claims' = [claims EXCEPT ![k] = c],
                 NEW r \in Hand, hand' = [hand EXCEPT ![h] = r], r.at = "earn", r.call = hand[h].call
          PROVE  HandsFit'
      <3>1. hand'[h] = r
        BY <2>4, Moved
      <3>2. HandFits(h)'
        BY <2>1, <2>4, <3>1 DEF HandFits, Recorded, Handled, Kind
      <3>3. QED
        BY <2>1, <2>4, <3>2, HandsFitMoved, ClaimsTables
    <2>5. CASE ~ (Finish(h, "failed") /\ UNCHANGED claims)
      <3>1. PICK k \in Keys, c \in Claim, bare \in SUBSET RowIds :
                 /\ claims[k] # NoClaim
                 /\ c.pull = Item(h) /\ c.mention = claims[k].mention
                 /\ c.late = claims[k].late /\ c.status = claims[k].status
                 /\ claims' = [claims EXCEPT ![k] = c]
                 /\ <<k, c.late>> \in hand[h].bare
                 /\ bare \subseteq hand[h].bare
                 /\ \/ Finish(h, "done")
                    \/ \E r \in Hand : /\ hand' = [hand EXCEPT ![h] = r] /\ r.bare = bare
                                       /\ r.at = "earn" /\ r.call = hand[h].call /\ r.todo = hand[h].todo
                                       /\ r.before = hand[h].before /\ r.made = hand[h].made
                                       /\ r.told = hand[h].told /\ r.replied = hand[h].replied
        BY <1>12, <2>5, SetEarnedRecord
      <3>2. QED
        BY <2>3, <2>4, <3>1
    <2>6. QED
      BY <2>2, <2>5
  <1>13. CASE Retrieve(h)
    <2>1. \E r \in Hand : hand' = [hand EXCEPT ![h] = r] /\ r.at = "retrieve" /\ r.call = hand[h].call
      BY <1>13, RetrieveRecord
    <2>2. PICK r \in Hand : hand' = [hand EXCEPT ![h] = r] /\ r.at = "retrieve" /\ r.call = hand[h].call
      BY <2>1
    <2>3. hand'[h] = r /\ hand[h].at = "retrieve"
      BY <1>13, <2>2, Moved DEF Retrieve
    <2>4. HandFits(h)'
      BY <2>2, <2>3 DEF HandFits, Recorded, Handled, Kind
    <2>5. QED
      BY <1>13, <2>2, <2>4, HandsFitMoved, SameTables DEF Retrieve
  <1>14. CASE Reply(h)
    BY <1>14, FinishFits, SameTables DEF Reply
  <1>15. CASE ReadGitPOAP(h)
    <2>1. hand[h].at = "read" /\ Kind(h) = "staff" /\ UNCHANGED <<merged, gitPOAPs, rows, claims, history>>
      BY <1>15 DEF ReadGitPOAP
    <2>2. CASE Finish(h, "failed")
      BY <2>1, <2>2, FinishFits, SameTables
    <2>3. CASE Goto(h, "give")
      BY <2>1, <2>3, GotoFits, SameTables, AtWork DEF Recorded, Handled, Steps
    <2>4. QED
      BY <1>15, <2>2, <2>3 DEF ReadGitPOAP
  <1>16. CASE GiveClaim(h) \/ SkipGift(h)
    <2>1. hand[h].at = "give" /\ hand[h].todo # <<>> /\ User(h) \in Users /\ Kind(h) = "staff"
          /\ UNCHANGED <<merged, gitPOAPs, rows, history>> /\ NextGift(h)
      BY <1>16, AtWork DEF GiveClaim, SkipGift, HandFits
    <2>2. TablesFit'
      <3>1. CASE GiveClaim(h)
        <4>1. \E k \in Keys, c \in Claim : claims' = [claims EXCEPT ![k] = c]
          BY <2>1, <3>1, GiveRecord
        <4>2. QED
          BY <2>1, <4>1, ClaimsTables
      <3>2. CASE SkipGift(h)
        BY <3>2, SameTables DEF SkipGift
      <3>3. QED
        BY <1>16, <3>1, <3>2
    <2>3. CASE Finish(h, "done")
      BY <2>1, <2>2, <2>3, FinishFits
    <2>4. CASE ~ Finish(h, "done")
      <3>1. PICK r \in Hand :
                 /\ hand' = [hand EXCEPT ![h] = r] /\ r.at = hand[h].at /\ r.todo # <<>>
                 /\ r.call = hand[h].call /\ r.before = hand[h].before /\ r.bare = hand[h].bare
                 /\ r.made = hand[h].made /\ r.told = hand[h].told /\ r.replied = hand[h].replied
                 /\ r.year = hand[h].year /\ r.seen = hand[h].seen
        BY <2>1, <2>4, NextGiftRecord
      <3>2. hand'[h] = r
        BY <3>1, Moved
      <3>3. HandFits(h)'
        BY <2>1, <3>1, <3>2 DEF HandFits, Recorded, Handled, Kind
      <3>4. QED
        BY <2>1, <2>2, <3>1, <3>3, HandsFitMoved
    <2>5. QED
      BY <2>3, <2>4
  <1>17. QED
    BY <1>1, <1>2, <1>3, <1>4, <1>5, <1>6, <1>7, <1>8, <1>9, <1>10, <1>11, <1>12, <1>13, <1>14,
       <1>15, <1>16 DEF HandlerStep


\* What the steps of GitHub, of staff and of the minting leave alone, and what they do to claims.
LEMMA DeleteFacts ==
    ASSUME HandsFit, NEW g \in GitPOAPs, DeleteClaims(g)
    PROVE  /\ TablesFit' /\ UNCHANGED <<merged, rows, hand, history>>
           /\ gitPOAPs'[g] = "closed" /\ \A o \in GitPOAPs \ {g} : gitPOAPs'[o] = gitPOAPs[o]
           /\ \A k \in Keys : \/ claims'[k] = claims[k]
                              \/ k[1] = g /\ claims'[k] = NoClaim
  <1>1. TablesFit
    BY Tables
  <1>2. gitPOAPs'[g] = "closed" /\ \A o \in GitPOAPs \ {g} : gitPOAPs'[o] = gitPOAPs[o]
    BY <1>1 DEF DeleteClaims, TablesFit
  <1>3. \A k \in Keys : \/ claims'[k] = claims[k]
                        \/ k[1] = g /\ claims'[k] = NoClaim
    BY DEF DeleteClaims
  <1>4. claims' \in [Keys -> Claim \cup {NoClaim}]
    <2>1. \A k \in Keys : claims'[k] \in Claim \cup {NoClaim}
      BY <1>1, <1>3 DEF TablesFit
    <2>2. QED
      BY <2>1 DEF DeleteClaims
  <1>5. gitPOAPs' \in [GitPOAPs -> {"absent", "live", "deprecated", "closed"}]
    BY <1>1 DEF DeleteClaims, TablesFit
  <1>6. TablesFit'
    BY <1>1, <1>4, <1>5 DEF DeleteClaims, TablesFit, rows, history
  <1>7. QED
    BY <1>2, <1>3, <1>6 DEF DeleteClaims

LEMMA MintFacts ==
    ASSUME HandsFit, NEW k \in Keys, Mint(k)
    PROVE  /\ TablesFit' /\ UNCHANGED <<merged, gitPOAPs, rows, hand, history>>
           /\ \E c \in Claim : /\ claims' = [claims EXCEPT ![k] = c]
                               /\ c.pull = claims[k].pull /\ c.mention = claims[k].mention
                               /\ c.late = claims[k].late /\ claims[k] # NoClaim
  <1>1. PICK old \in Claim : old = claims[k]
    BY Tables DEF TablesFit, Mint
  <1> DEFINE c == [old EXCEPT !.status = "CLAIMED"]
  <1>2. c \in Claim /\ c.pull = old.pull /\ c.mention = old.mention /\ c.late = old.late
    BY DEF Claim
  <1>3. claims' = [claims EXCEPT ![k] = c]
    BY <1>1, Tables DEF TablesFit, Mint
  <1> HIDE DEF c
  <1>4. UNCHANGED <<merged, gitPOAPs, rows, hand, history>> /\ claims[k] # NoClaim
    BY DEF Mint
  <1>5. TablesFit'
    BY <1>2, <1>3, <1>4, ClaimsTables
  <1>6. QED
    BY <1>1, <1>2, <1>3, <1>4, <1>5

LEMMA OthersFacts ==
    ASSUME HandsFit,
           \/ \E p \in Pulls : Merge(p)
           \/ \E g \in GitPOAPs : CreateGitPOAP(g) \/ Deprecate(g)
    PROVE  /\ TablesFit' /\ UNCHANGED <<rows, claims, hand, history>> /\ merged \subseteq merged'
           /\ \A g \in GitPOAPs : gitPOAPs[g] = "closed" <=> gitPOAPs'[g] = "closed"
           /\ \A g \in GitPOAPs \ Later : /\ gitPOAPs'[g] # "absent"
                                          /\ gitPOAPs'[g] = "live" => gitPOAPs[g] = "live"
  <1>1. TablesFit /\ \A g \in GitPOAPs \ Later : gitPOAPs[g] # "absent"
    BY Tables DEF HandsFit
  <1>2. ASSUME NEW p \in Pulls, Merge(p)
        PROVE  /\ TablesFit' /\ UNCHANGED <<gitPOAPs, rows, claims, hand, history>> /\ merged \subseteq merged'
    BY <1>1, <1>2 DEF Merge, TablesFit, rows, history
  <1>3. ASSUME NEW g \in GitPOAPs, CreateGitPOAP(g) \/ Deprecate(g)
        PROVE  /\ TablesFit' /\ UNCHANGED <<merged, rows, claims, hand, history>>
               /\ \A o \in GitPOAPs : gitPOAPs[o] = "closed" <=> gitPOAPs'[o] = "closed"
               /\ \A o \in GitPOAPs \ Later : /\ gitPOAPs'[o] # "absent"
                                              /\ gitPOAPs'[o] = "live" => gitPOAPs[o] = "live"
    <2>1. PICK s \in {"live", "deprecated"} : gitPOAPs' = [gitPOAPs EXCEPT ![g] = s]
      BY <1>3 DEF CreateGitPOAP, Deprecate
    <2>2. UNCHANGED <<merged, rows, claims, hand, history>>
      BY <1>3 DEF CreateGitPOAP, Deprecate
    <2>3. gitPOAPs'[g] = s /\ gitPOAPs[g] # "closed" /\ \A o \in GitPOAPs \ {g} : gitPOAPs'[o] = gitPOAPs[o]
      BY <1>1, <1>3, <2>1 DEF CreateGitPOAP, Deprecate, TablesFit
    <2>4. TablesFit'
      BY <1>1, <2>1, <2>2 DEF TablesFit, rows, history
    <2>5. g \notin Later => gitPOAPs[g] = "live"
      BY <1>1, <1>3 DEF CreateGitPOAP, Deprecate
    <2>6. QED
      BY <1>1, <2>2, <2>3, <2>4, <2>5
  <1>4. QED
    BY <1>1, <1>2, <1>3

LEMMA NextFits == HandsFit /\ [Next]_vars => HandsFit'
  <1> SUFFICES ASSUME HandsFit, [Next]_vars PROVE HandsFit'
    OBVIOUS
  <1>1. CASE \/ \E p \in Pulls : Merge(p)
             \/ \E g \in GitPOAPs : CreateGitPOAP(g) \/ Deprecate(g)
    BY <1>1, OthersFacts, HandsFitStill
  <1>2. ASSUME NEW g \in GitPOAPs, DeleteClaims(g) PROVE HandsFit'
    <2>1. \A o \in GitPOAPs \ Later : gitPOAPs[o] # "absent"
      BY DEF HandsFit
    <2>2. \A o \in GitPOAPs \ Later : gitPOAPs'[o] # "absent" /\ (gitPOAPs'[o] = "live" => gitPOAPs[o] = "live")
      BY <1>2, <2>1, DeleteFacts
    <2>3. QED
      BY <1>2, <2>2, DeleteFacts, HandsFitStill
  <1>3. ASSUME NEW k \in Keys, Mint(k) PROVE HandsFit'
    BY <1>3, MintFacts, HandsFitStill DEF HandsFit
  <1>4. ASSUME NEW h \in Handlers, Start(h) \/ HandlerStep(h) PROVE HandsFit'
    BY <1>4, StepFits
  <1>5. CASE UNCHANGED vars
    BY <1>5, SameTables, HandsFitStill DEF vars, HandsFit
  <1>6. QED
    BY <1>1, <1>2, <1>3, <1>4, <1>5 DEF Next

LEMMA InitFits == Init => HandsFit
  <1> SUFFICES ASSUME Init PROVE HandsFit
    OBVIOUS
  <1>1. TypeOK
    BY IdleType DEF Init, TypeOK
  <1>2. ASSUME NEW h \in Handlers PROVE HandFits(h)
    <2>1. hand[h] = Idle
      BY DEF Init
    <2>2. QED
      BY <2>1 DEF HandFits, Idle, NoCall, Recorded, Handled, BotKinds
  <1>3. \A g \in GitPOAPs \ Later : gitPOAPs[g] # "absent"
    BY DEF Init
  <1>4. QED
    BY <1>1, <1>2, <1>3 DEF HandsFit

\* The tables and the handlers have the values of their columns, and a handler at work has
\* a call, a user and the GitPOAPs that were there when it read them.
THEOREM HandsAlwaysFit == Spec => []HandsFit
  BY InitFits, NextFits, PTL DEF Spec

\* The tables have the types of their columns, in every state of the handlers of
\* lib/claims.ts and routes/claims.ts.
THEOREM ContributionTypesHold == Spec => []TypeOK
  <1>1. HandsFit => TypeOK
    BY DEF HandsFit
  <1>2. QED
    BY <1>1, HandsAlwaysFit, PTL


-----------------------------------------------------------------------------
(* ClaimsAreEarned: what was contributed once stays contributed.           *)

Done == pullMerged \cup unmerged

\* Rows are only added, and keep their user.
LEMMA RowsGrow ==
    ASSUME HandsFit, [Next]_vars
    PROVE  /\ mentions \subseteq mentions' /\ Done \subseteq Done'
           /\ unmerged \subseteq unmerged' /\ merged \subseteq merged'
           /\ \A p \in Pulls : pullUser[p] # NoUser => pullUser'[p] = pullUser[p]
  <1>1. CASE UNCHANGED rows /\ UNCHANGED history /\ merged \subseteq merged'
    BY <1>1 DEF rows, history, Done
  <1>2. CASE \/ \E p \in Pulls : Merge(p)
             \/ \E g \in GitPOAPs : CreateGitPOAP(g) \/ Deprecate(g) \/ DeleteClaims(g)
             \/ \E k \in Keys : Mint(k)
             \/ UNCHANGED vars
    BY <1>1, <1>2 DEF Merge, CreateGitPOAP, Deprecate, DeleteClaims, Mint, vars
  <1>3. ASSUME NEW h \in Handlers, Start(h) \/ HandlerStep(h), ~ RecordPull(h), ~ RecordMention(h)
        PROVE  UNCHANGED rows /\ UNCHANGED history /\ UNCHANGED merged
    BY <1>3 DEF HandlerStep, Start, ReadRepo, SkipUser, Fetch, FetchFails, CountMentions, CountPulls,
                MakeClaim, EndUser, SetEarned, Retrieve, Reply, ReadGitPOAP, GiveClaim, SkipGift
  <1>4. ASSUME NEW h \in Handlers, RecordPull(h)
        PROVE  /\ mentions \subseteq mentions' /\ Done \subseteq Done'
               /\ unmerged \subseteq unmerged' /\ merged \subseteq merged'
               /\ \A p \in Pulls : pullUser[p] # NoUser => pullUser'[p] = pullUser[p]
    <2>1. UNCHANGED <<merged, mentions>> /\ unmerged \subseteq unmerged'
      BY <1>4 DEF RecordPull
    <2>2. Done \subseteq Done'
      BY <1>4 DEF RecordPull, Done
    <2>3. \A p \in Pulls : pullUser[p] # NoUser => pullUser'[p] = pullUser[p]
      BY <1>4, RecordPullTables
    <2>4. QED
      BY <2>1, <2>2, <2>3
  <1>5. ASSUME NEW h \in Handlers, RecordMention(h)
        PROVE  /\ mentions \subseteq mentions' /\ UNCHANGED <<merged, pullUser, pullMerged, history>>
    BY <1>5 DEF RecordMention
  <1>6. QED
    BY <1>1, <1>2, <1>3, <1>4, <1>5 DEF Next, history, Done

CountedPulls(u, g, done) == {p \in done : pullUser[p] = u /\ MergeYear[p] = Year[g]}

LEMMA DonePulls == ASSUME HandsFit PROVE Done \in SUBSET Pulls /\ pullMerged \in SUBSET Pulls
  BY Tables DEF TablesFit, Done

LEMMA EarnedStays ==
    ASSUME HandsFit, HandsFit', [Next]_vars, \A p \in unmerged : pullUser[p] # NoUser,
           NEW u \in Users, NEW g \in GitPOAPs, Earned(u, g)
    PROVE  Earned(u, g)'
  <1>1. SUFFICES ASSUME Uniform(g) PROVE Contributed(u, g, Done)' >= Threshold[g]
    BY DEF Earned, Done, Uniform
  <1>2. Contributed(u, g, Done) >= Threshold[g]
    BY <1>1 DEF Earned, Done
  <1>3. /\ IsFiniteSet(MentionsIn(u, Year[g])') /\ Cardinality(MentionsIn(u, Year[g])) \in Nat
        /\ Cardinality(MentionsIn(u, Year[g])') \in Nat
    <2>1. IsFiniteSet(MentionsIn(u, Year[g])) /\ Cardinality(MentionsIn(u, Year[g])) \in Nat
      BY MentionCounts
    <2>2. (IsFiniteSet(MentionsIn(u, Year[g])) /\ Cardinality(MentionsIn(u, Year[g])) \in Nat)'
      BY MentionCountsNext
    <2>3. QED
      BY <2>1, <2>2
  <1>4. Cardinality(MentionsIn(u, Year[g])) <= Cardinality(MentionsIn(u, Year[g])')
    <2>1. MentionsIn(u, Year[g]) \subseteq MentionsIn(u, Year[g])'
      BY RowsGrow DEF MentionsIn
    <2>2. QED
      BY <1>3, <2>1, FS_Subset
  <1> DEFINE S == {p \in Done : pullUser[p] = u /\ MergeYear[p] = Year[g]}
             T == {p \in Done' : pullUser'[p] = u /\ MergeYear[p] = Year[g]}
  <1>5. Done \in SUBSET Pulls /\ Done' \in SUBSET Pulls
    <2>1. (HandsFit => Done \in SUBSET Pulls)'
      BY DEF HandsFit, TypeOK, Done
    <2>2. QED
      BY <2>1, DonePulls
  <1>6. S \subseteq T
    <2>1. ASSUME NEW p \in S PROVE p \in T
      <3>1. p \in Done /\ p \in Pulls /\ pullUser[p] = u /\ MergeYear[p] = Year[g]
        BY <1>5
      <3>2. pullUser[p] # NoUser
        BY <3>1, ContributionsAssumption
      <3>3. QED
        BY <3>1, <3>2, RowsGrow
    <2>2. QED
      BY <2>1
  <1>7. T \subseteq Pulls /\ IsFiniteSet(Pulls)
    BY <1>5, ContributionsAssumption
  <1>8. Cardinality(S) \in Nat /\ Cardinality(T) \in Nat /\ Cardinality(S) <= Cardinality(T)
    <2> HIDE DEF S, T
    <2>1. IsFiniteSet(T)
      BY <1>7, FS_Subset
    <2>2. QED
      BY <1>6, <2>1, FS_Subset, FS_CardinalityType
  <1>9. Contributed(u, g, Done) = Cardinality(MentionsIn(u, Year[g])) + (IF g \in PRBased THEN Cardinality(S) ELSE 0)
    BY DEF Contributed
  <1>10. Contributed(u, g, Done)' = Cardinality(MentionsIn(u, Year[g])') + (IF g \in PRBased THEN Cardinality(T) ELSE 0)
    BY DEF Contributed
  <1>11. Threshold[g] \in Nat
    BY ContributionsAssumption
  <1> HIDE DEF S, T
  <1>12. QED
    BY <1>2, <1>3, <1>4, <1>8, <1>9, <1>10, <1>11


\* The parts of EarnedInv that a step of h leaves to show.
LEMMA EarnedMoved ==
    ASSUME HandsFit, HandsFit', [Next]_vars, EarnedInv,
           NEW h \in Handlers, NEW r \in Hand, hand' = [hand EXCEPT ![h] = r],
           \A p \in unmerged' : pullUser'[p] # NoUser,
           HandEarned(h)', ClaimsAreEarned'
    PROVE  EarnedInv'
  <1>1. ASSUME NEW o \in Handlers, o # h PROVE HandEarned(o)'
    <2>1. hand'[o] = hand[o] /\ hand[o] \in Hand /\ HandEarned(o) /\ HandFits(o)
      BY <1>1, Moved, HandFacts DEF EarnedInv
    <2>2. hand[o].at = "countPulls" =>
             hand[o].count <= Cardinality(MentionsIn(User(o), hand[o].year)')
      <3>1. SUFFICES ASSUME hand[o].at = "countPulls"
                     PROVE  hand[o].count <= Cardinality(MentionsIn(User(o), hand[o].year)')
        OBVIOUS
      <3>2. PICK u \in Users, y \in Nat : u = User(o) /\ y = hand[o].year
        BY <2>1, <3>1, AtWork, YearsAreNumbers DEF Hand, Recorded, Handled
      <3>3. /\ IsFiniteSet(MentionsIn(u, y)') /\ Cardinality(MentionsIn(u, y)') \in Nat
            /\ Cardinality(MentionsIn(u, y)) \in Nat
        BY MentionCounts, MentionCountsNext
      <3>4. MentionsIn(u, y) \subseteq MentionsIn(u, y)'
        BY RowsGrow DEF MentionsIn
      <3>5. Cardinality(MentionsIn(u, y)) <= Cardinality(MentionsIn(u, y)')
        BY <3>3, <3>4, FS_Subset
      <3>6. hand[o].count <= Cardinality(MentionsIn(u, y)) /\ hand[o].count \in Nat
        BY <2>1, <3>1, <3>2 DEF HandEarned, Hand
      <3>7. MentionsIn(User(o), hand[o].year)' = MentionsIn(u, y)'
        BY <2>1, <3>2 DEF User, MentionsIn
      <3>8. QED
        BY <2>1, <3>2, <3>3, <3>5, <3>6, <3>7
    <2>3. hand[o].at = "claim" => \A g \in hand[o].due : Earned(User(o), g)'
      <3>1. SUFFICES ASSUME hand[o].at = "claim", NEW g \in hand[o].due PROVE Earned(User(o), g)'
        OBVIOUS
      <3>2. PICK u \in Users : u = User(o)
        BY <3>1, AtWork DEF Recorded, Handled
      <3>3. g \in GitPOAPs /\ Earned(u, g)
        BY <2>1, <3>1, <3>2 DEF Hand, HandEarned
      <3>4. Earned(u, g)'
        BY <3>3, EarnedStays DEF EarnedInv
      <3>5. User(o)' = u
        BY <2>1, <3>2 DEF User
      <3>6. QED
        BY <3>4, <3>5
    <2>4. \A id \in hand[o].bare : Earned(id[1][2], id[1][1])'
      <3>1. SUFFICES ASSUME NEW id \in hand[o].bare PROVE Earned(id[1][2], id[1][1])'
        OBVIOUS
      <3>2. PICK u \in Users, g \in GitPOAPs : u = id[1][2] /\ g = id[1][1]
        BY <2>1 DEF Hand, RowIds, Keys
      <3>3. Earned(u, g)
        BY <2>1, <3>2 DEF HandEarned
      <3>4. Earned(u, g)'
        BY <3>3, EarnedStays DEF EarnedInv
      <3>5. QED
        BY <3>2, <3>4
    <2>5. User(o)' = User(o)
      BY <2>1 DEF User
    <2>6. QED
      BY <2>1, <2>2, <2>3, <2>4, <2>5 DEF HandEarned
  <1>2. QED
    BY <1>1 DEF EarnedInv

LEMMA EarnedStill ==
    ASSUME HandsFit, HandsFit', [Next]_vars, EarnedInv, UNCHANGED <<hand, rows, history>>, ClaimsAreEarned'
    PROVE  EarnedInv'
  <1>1. ASSUME NEW h \in Handlers PROVE HandEarned(h)'
    <2>1. HandEarned(h) /\ hand'[h] = hand[h] /\ User(h)' = User(h)
      BY DEF EarnedInv, User
    <2>2. ASSUME NEW u, NEW y PROVE MentionsIn(u, y)' = MentionsIn(u, y)
      BY DEF MentionsIn, rows
    <2>3. ASSUME NEW u, NEW g PROVE Earned(u, g)' <=> Earned(u, g)
      BY <2>2 DEF Earned, Uniform, Contributed, rows, history
    <2>4. MentionsIn(User(h), hand[h].year)' = MentionsIn(User(h), hand[h].year)
      BY <2>1, <2>2
    <2>5. \A g : Earned(User(h), g)' <=> Earned(User(h), g)
      BY <2>1, <2>3
    <2>6. \A id : Earned(id[1][2], id[1][1])' <=> Earned(id[1][2], id[1][1])
      BY <2>3
    <2>7. QED
      BY <2>1, <2>4, <2>5, <2>6 DEF HandEarned
  <1>2. QED
    BY <1>1 DEF EarnedInv, rows, history

\* No claim comes to name a contribution.
LEMMA SameClaimsEarned ==
    ASSUME HandsFit, HandsFit', [Next]_vars, EarnedInv,
           \A k \in Keys : Named(claims'[k]) => Named(claims[k]) \/ Earned(k[2], k[1])
    PROVE  ClaimsAreEarned'
  <1>1. SUFFICES ASSUME NEW g \in GitPOAPs, NEW u \in Users, Named(claims'[<<g, u>>]) PROVE Earned(u, g)'
    BY DEF ClaimsAreEarned, Named, Earned
  <1>2. PICK k \in Keys : k = <<g, u>>
    BY DEF Keys
  <1>21. k[1] = g /\ k[2] = u
    BY <1>2
  <1>3. Earned(u, g)
    <2>1. CASE Named(claims[<<g, u>>])
      BY <2>1 DEF EarnedInv, ClaimsAreEarned, Earned
    <2>2. CASE ~ Named(claims[<<g, u>>])
      BY <1>1, <1>2, <1>21, <2>2
    <2>3. QED
      BY <2>1, <2>2
  <1>4. QED
    BY <1>3, EarnedStays DEF EarnedInv

LEMMA ContributedValue ==
    ASSUME HandsFit, NEW u \in Users, NEW g \in GitPOAPs, NEW done \in SUBSET Pulls
    PROVE  /\ Cardinality(MentionsIn(u, Year[g])) \in Nat
           /\ IsFiniteSet(CountedPulls(u, g, done)) /\ Cardinality(CountedPulls(u, g, done)) \in Nat
           /\ Contributed(u, g, done) = Cardinality(MentionsIn(u, Year[g]))
                 + (IF g \in PRBased THEN Cardinality(CountedPulls(u, g, done)) ELSE 0)
           /\ Threshold[g] \in Nat /\ Threshold[g] > 0 /\ Year[g] \in Nat /\ Year[g] > 0
  <1>1. IsFiniteSet(CountedPulls(u, g, done)) /\ Cardinality(CountedPulls(u, g, done)) \in Nat
    <2>1. CountedPulls(u, g, done) \subseteq Pulls
      BY DEF CountedPulls
    <2>2. QED
      BY <2>1, ContributionsAssumption, FS_Subset, FS_CardinalityType
  <1>2. QED
    BY <1>1, MentionCounts, ContributionsAssumption DEF Contributed, CountedPulls

\* The GitPOAPs due by the mentions alone, where PRs do not count, are earned ...
LEMMA DueByMentions ==
    ASSUME HandsFit, NEW h \in Handlers, User(h) \in Users, NEW y,
           NEW g \in Due(h, y, Cardinality(MentionsIn(User(h), y)))
    PROVE  Earned(User(h), g)
  <1>1. hand[h].seen \subseteq GitPOAPs
    BY HandFacts DEF Hand
  <1>2. g \in GitPOAPs /\ Year[g] = y /\ Cardinality(MentionsIn(User(h), y)) >= Threshold[g]
    BY <1>1 DEF Due
  <1>3. Contributed(User(h), g, Done) >= Threshold[g]
    BY <1>2, ContributedValue, DonePulls
  <1>4. QED
    BY <1>3 DEF Earned, Done

\* ... and so are those due by mentions and PRs.
LEMMA DueByPulls ==
    ASSUME HandsFit, EarnedInv, NEW h \in Handlers, hand[h].at = "countPulls", User(h) \in Users,
           NEW g \in Due(h, hand[h].year, hand[h].count + Cardinality(PullsIn(User(h), hand[h].year)))
    PROVE  Earned(User(h), g)
  <1>1. hand[h].seen \subseteq GitPOAPs /\ hand[h].count \in Nat
    BY HandFacts DEF Hand
  <1>2. PICK y : y = hand[h].year
    OBVIOUS
  <1>20. PICK u \in Users : u = User(h)
    OBVIOUS
  <1>3. g \in GitPOAPs /\ Year[g] = y /\ hand[h].count + Cardinality(PullsIn(u, y)) >= Threshold[g]
    BY <1>1, <1>2, <1>20 DEF Due
  <1>4. PICK first \in PRBased : Year[first] = y
    BY <1>2, <1>20 DEF EarnedInv, HandEarned
  <1>5. hand[h].count <= Cardinality(MentionsIn(u, y))
    BY <1>2, <1>20 DEF EarnedInv, HandEarned
  <1>6. Uniform(g) => g \in PRBased
    BY <1>3, <1>4, ContributionsAssumption DEF Uniform
  <1>7. Cardinality(PullsIn(u, y)) \in Nat /\ Cardinality(PullsIn(u, y)) <= Cardinality(CountedPulls(u, g, Done))
    <2>1. PullsIn(u, y) \subseteq CountedPulls(u, g, Done)
      BY <1>3 DEF PullsIn, CountedPulls, Done
    <2>2. IsFiniteSet(CountedPulls(u, g, Done))
      BY <1>3, ContributedValue, DonePulls
    <2>3. QED
      BY <2>1, <2>2, FS_Subset, FS_CardinalityType
  <1>8. Uniform(g) => Contributed(u, g, Done) >= Threshold[g]
    BY <1>1, <1>3, <1>5, <1>6, <1>7, ContributedValue, DonePulls
  <1>9. QED
    BY <1>2, <1>20, <1>8 DEF Earned, Done


\* Steps that neither count nor touch a table.
Aside(h) ==
    \/ Start(h) \/ ReadRepo(h) \/ SkipUser(h) \/ Fetch(h) \/ FetchFails(h) \/ EndUser(h)
    \/ Retrieve(h) \/ Reply(h) \/ ReadGitPOAP(h) \/ SkipGift(h)

LEMMA FinishOrGoto ==
    ASSUME HandsFit, NEW h \in Handlers,
           \/ \E step \in {"done", "failed"} : Finish(h, step)
           \/ \E step \in Steps \ {"countPulls", "claim"} : Goto(h, step)
    PROVE  \E r \in Hand : /\ hand' = [hand EXCEPT ![h] = r] /\ r.bare \subseteq hand[h].bare
                           /\ r.at \notin {"countPulls", "claim"}
  <1>1. ASSUME NEW step \in {"done", "failed"}, Finish(h, step)
        PROVE  \E r \in Hand : /\ hand' = [hand EXCEPT ![h] = r] /\ r.bare \subseteq hand[h].bare
                               /\ r.at \notin {"countPulls", "claim"}
    <2>1. PICK r \in Hand : hand' = [hand EXCEPT ![h] = r] /\ Over(r, hand[h], step)
      BY <1>1, FinishRecord
    <2>2. QED
      BY <2>1 DEF Over
  <1>2. ASSUME NEW step \in Steps \ {"countPulls", "claim"}, Goto(h, step)
        PROVE  \E r \in Hand : /\ hand' = [hand EXCEPT ![h] = r] /\ r.bare \subseteq hand[h].bare
                               /\ r.at \notin {"countPulls", "claim"}
    <2>1. PICK r \in Hand : hand' = [hand EXCEPT ![h] = r] /\ r.at = step /\ Same(r, hand[h])
      BY <1>2, GotoRecord
    <2>2. QED
      BY <2>1 DEF Same
  <1>3. QED
    BY <1>1, <1>2

LEMMA NextUserAside ==
    ASSUME HandsFit, NEW h \in Handlers, hand[h].todo # <<>>, NEW told \in SUBSET Users, NextUser(h, told)
    PROVE  \E r \in Hand : /\ hand' = [hand EXCEPT ![h] = r] /\ r.bare \subseteq hand[h].bare
                           /\ r.at \notin {"countPulls", "claim"}
  <1>1. PICK r \in Hand :
              /\ hand' = [hand EXCEPT ![h] = r]
              /\ r.at \in {"read", "retrieve"} /\ (r.at = "read" => r.todo # <<>>)
              /\ r.year = 0 /\ r.told = told
              /\ r.call = hand[h].call /\ r.before = hand[h].before /\ r.bare = hand[h].bare
              /\ r.made = hand[h].made /\ r.replied = hand[h].replied
    BY NextUserRecord
  <1>2. QED
    BY <1>1

LEMMA AsideRecord ==
    ASSUME HandsFit, NEW h \in Handlers, Aside(h)
    PROVE  /\ UNCHANGED <<merged, gitPOAPs, rows, claims, history>>
           /\ \E r \in Hand : /\ hand' = [hand EXCEPT ![h] = r] /\ r.bare \subseteq hand[h].bare
                              /\ r.at \notin {"countPulls", "claim"}
  <1> DEFINE Goal == \E r \in Hand : /\ hand' = [hand EXCEPT ![h] = r] /\ r.bare \subseteq hand[h].bare
                                     /\ r.at \notin {"countPulls", "claim"}
  <1>0. \A step \in {"done", "failed"} : Finish(h, step) => Goal
    BY FinishOrGoto
  <1>1. CASE Start(h)
    <2>1. PICK c \in Calls, r \in Hand :
              /\ hand' = [hand EXCEPT ![h] = r]
              /\ r.at = "read" /\ r.call = c /\ r.todo = c.users
              /\ r.before \subseteq Existing /\ r.seen = {} /\ r.year = 0 /\ r.due = {} /\ r.bare = {}
              /\ r.made = {} /\ r.told = {} /\ r.replied = {}
              /\ c.kind = "merged" => c.item \in merged
      BY <1>1, StartRecord
    <2>2. QED
      BY <1>1, <2>1 DEF Start
  <1>2. CASE ReadRepo(h)
    <2>1. PICK r \in Hand : /\ hand' = [hand EXCEPT ![h] = r] /\ SameUser(r, hand[h])
                            /\ r.at \in {"done", "fetch"}
                            /\ r.at = "done" => Kind(h) \in {"updater", "backload"}
                            /\ r.seen = Found(Kind(h)) /\ r.year = hand[h].year
      BY <1>2, ReadRepoRecord
    <2>2. QED
      BY <1>2, <2>1 DEF ReadRepo, SameUser
  <1>3. CASE SkipUser(h)
    <2>1. hand[h].told \in SUBSET Users /\ hand[h].todo # <<>>
      BY <1>3, AtWork, HandFacts DEF Hand, SkipUser
    <2>2. QED
      BY <1>3, <2>1, NextUserAside DEF SkipUser
  <1>4. CASE Fetch(h)
    <2>1. CASE Finish(h, "done")
      BY <1>0, <1>4, <2>1 DEF Fetch
    <2>2. CASE ~ Finish(h, "done")
      <3>1. PICK r \in Hand : /\ hand' = [hand EXCEPT ![h] = r] /\ SameUser(r, hand[h])
                              /\ r.at = IF Kind(h) = "issue" THEN "mention" ELSE "record"
                              /\ r.seen = hand[h].seen /\ r.year = hand[h].year
                              /\ r.merged <=> Item(h) \in merged
        BY <1>4, <2>2, FetchRecord
      <3>2. QED
        BY <1>4, <3>1 DEF Fetch, SameUser
    <2>3. QED
      BY <2>1, <2>2
  <1>5. CASE FetchFails(h)
    BY <1>0, <1>5 DEF FetchFails
  <1>6. CASE EndUser(h)
    <2>1. hand[h].todo # <<>> /\ hand[h].told \cup {User(h)} \in SUBSET Users
      BY <1>6, AtWork, HandFacts DEF Hand, EndUser, Recorded, Handled
    <2>2. Goto(h, "earn") => Goal
      BY FinishOrGoto DEF Steps
    <2>3. NextUser(h, hand[h].told \cup {User(h)}) => Goal
      BY <2>1, NextUserAside
    <2>4. QED
      BY <1>0, <1>6, <2>2, <2>3, EndUserHand DEF EndUser
  <1>7. CASE Retrieve(h)
    <2>1. PICK u \in hand[h].told, r \in Hand :
              /\ hand' = [hand EXCEPT ![h] = r] /\ r.at = "retrieve" /\ r.told = hand[h].told \ {u}
              /\ r.replied = hand[h].replied \cup
                               (IF Kind(h) = "merged" THEN CreatedByPR(Item(h), hand[h].before)
                                ELSE CreatedByMention(u, Item(h)))
              /\ r.call = hand[h].call /\ r.todo = hand[h].todo
              /\ r.before = hand[h].before /\ r.bare = hand[h].bare /\ r.made = hand[h].made
      BY <1>7, RetrieveRecord
    <2>2. QED
      BY <1>7, <2>1 DEF Retrieve
  <1>8. CASE Reply(h)
    BY <1>0, <1>8 DEF Reply
  <1>9. CASE ReadGitPOAP(h)
    <2>1. Goto(h, "give") => Goal
      BY FinishOrGoto DEF Steps
    <2>2. QED
      BY <1>0, <1>9, <2>1 DEF ReadGitPOAP
  <1>10. CASE SkipGift(h)
    <2>1. hand[h].at = "give" /\ hand[h].todo # <<>> /\ NextGift(h)
      BY <1>10, AtWork DEF SkipGift
    <2>2. CASE Finish(h, "done")
      BY <1>0, <1>10, <2>2 DEF SkipGift
    <2>3. CASE ~ Finish(h, "done")
      <3>1. PICK r \in Hand :
                 /\ hand' = [hand EXCEPT ![h] = r] /\ r.at = hand[h].at /\ r.todo # <<>>
                 /\ r.call = hand[h].call /\ r.before = hand[h].before /\ r.bare = hand[h].bare
                 /\ r.made = hand[h].made /\ r.told = hand[h].told /\ r.replied = hand[h].replied
                 /\ r.year = hand[h].year /\ r.seen = hand[h].seen
        BY <2>1, <2>3, NextGiftRecord
      <3>2. QED
        BY <1>10, <2>1, <3>1 DEF SkipGift
    <2>4. QED
      BY <2>2, <2>3
  <1>11. QED
    BY <1>1, <1>2, <1>3, <1>4, <1>5, <1>6, <1>7, <1>8, <1>9, <1>10 DEF Aside

\* A handler that does not count and knows no more bare claims is as honest as before.
LEMMA QuietlyEarned ==
    ASSUME HandsFit, HandsFit', [Next]_vars, EarnedInv, NEW h \in Handlers,
           \E r \in Hand : /\ hand' = [hand EXCEPT ![h] = r] /\ r.bare \subseteq hand[h].bare
                           /\ r.at \notin {"countPulls", "claim"},
           \A p \in unmerged' : pullUser'[p] # NoUser, ClaimsAreEarned'
    PROVE  EarnedInv'
  <1>1. PICK r \in Hand : /\ hand' = [hand EXCEPT ![h] = r] /\ r.bare \subseteq hand[h].bare
                          /\ r.at \notin {"countPulls", "claim"}
    OBVIOUS
  <1>2. hand'[h] = r
    BY <1>1, Moved
  <1>3. ASSUME NEW id \in r.bare PROVE Earned(id[1][2], id[1][1])'
    <2>1. PICK u \in Users, g \in GitPOAPs : u = id[1][2] /\ g = id[1][1]
      BY DEF Hand, RowIds, Keys
    <2>2. Earned(u, g)
      BY <1>1, <2>1 DEF EarnedInv, HandEarned
    <2>3. QED
      BY <2>1, <2>2, EarnedStays DEF EarnedInv
  <1>4. HandEarned(h)'
    BY <1>1, <1>2, <1>3 DEF HandEarned
  <1>5. QED
    BY <1>1, <1>4, EarnedMoved

LEMMA EarnedStep ==
    ASSUME HandsFit, HandsFit', [Next]_vars, EarnedInv, NEW h \in Handlers, Start(h) \/ HandlerStep(h)
    PROVE  EarnedInv'
  <1>0. HandFits(h) /\ HandEarned(h) /\ hand[h] \in Hand
    BY HandFacts DEF EarnedInv
  <1>1. CASE UNCHANGED <<rows, history>> /\ UNCHANGED claims
             /\ \E r \in Hand : /\ hand' = [hand EXCEPT ![h] = r] /\ r.bare \subseteq hand[h].bare
                                /\ (r.at = "countPulls" =>
                                       /\ User(h)' = User(h)
                                       /\ r.count = Cardinality(MentionsIn(User(h), r.year))
                                       /\ \E first \in PRBased : Year[first] = r.year)
                                /\ (r.at = "claim" => User(h)' = User(h) /\ User(h) \in Users
                                                      /\ \A g \in r.due : Earned(User(h), g))
    <2>1. PICK r \in Hand : /\ hand' = [hand EXCEPT ![h] = r] /\ r.bare \subseteq hand[h].bare
                            /\ (r.at = "countPulls" =>
                                   /\ User(h)' = User(h)
                                   /\ r.count = Cardinality(MentionsIn(User(h), r.year))
                                   /\ \E first \in PRBased : Year[first] = r.year)
                            /\ (r.at = "claim" => User(h)' = User(h) /\ User(h) \in Users
                                                  /\ \A g \in r.due : Earned(User(h), g))
      BY <1>1
    <2>2. hand'[h] = r
      BY <2>1, Moved
    <2>3. ASSUME NEW u, NEW y PROVE MentionsIn(u, y)' = MentionsIn(u, y)
      BY <1>1 DEF MentionsIn, rows
    <2>4. ASSUME NEW u, NEW g PROVE Earned(u, g)' <=> Earned(u, g)
      BY <1>1, <2>3 DEF Earned, Uniform, Contributed, rows, history
    <2>5. r.at = "countPulls" =>
             /\ r.count <= Cardinality(MentionsIn(User(h), r.year)')
             /\ \E first \in PRBased : Year[first] = r.year
      BY <2>1, <2>3 DEF Hand
    <2>6. r.at = "claim" => \A g \in r.due : Earned(User(h), g)'
      BY <2>1, <2>4
    <2>7. \A id \in r.bare : Earned(id[1][2], id[1][1])'
      BY <1>0, <2>1, <2>4 DEF HandEarned
    <2>8. HandEarned(h)'
      <3>1. /\ hand'[h].at = "countPulls" =>
                 /\ hand'[h].count <= Cardinality(MentionsIn(User(h), hand[h].year)')
                 /\ \E first \in PRBased : Year[first] = hand'[h].year
            /\ hand'[h].at = "claim" => \A g \in hand'[h].due : Earned(User(h), g)'
            /\ \A id \in hand'[h].bare : Earned(id[1][2], id[1][1])'
        <4>1. r.at = "countPulls" => MentionsIn(User(h), hand[h].year)' = MentionsIn(User(h), r.year)'
          BY <2>1, <2>2 DEF MentionsIn
        <4>2. QED
          BY <2>2, <2>5, <2>6, <2>7, <4>1
      <3>2. QED
        BY <3>1 DEF HandEarned
    <2>9. ClaimsAreEarned'
      BY <1>1, SameClaimsEarned
    <2>10. QED
      BY <1>1, <2>1, <2>8, <2>9, EarnedMoved DEF EarnedInv, rows, history
  <1>2. CASE Aside(h)
    BY <1>1, <1>2, AsideRecord
  <1>3. CASE RecordPull(h)
    <2>1. \E r \in Hand : /\ hand' = [hand EXCEPT ![h] = r] /\ r.bare \subseteq hand[h].bare
                          /\ r.at \notin {"countPulls", "claim"}
      BY <1>3, RecordPullHand, FinishOrGoto DEF Steps
    <2>2. \A p \in unmerged' : pullUser'[p] # NoUser
      <3>1. ASSUME NEW p \in unmerged', pullUser'[p] = NoUser PROVE FALSE
        <4>1. p \in Pulls
          BY <3>1 DEF HandsFit, TypeOK
        <4>2. CASE p = Item(h)
          BY <1>3, <3>1, <4>2, RecordPullTables, ContributionsAssumption
        <4>3. CASE p # Item(h)
          BY <1>3, <3>1, <4>1, <4>3, RecordPullTables DEF EarnedInv
        <4>4. QED
          BY <4>2, <4>3
      <3>2. QED
        BY <3>1
    <2>3. ClaimsAreEarned'
      BY <1>3, SameClaimsEarned DEF RecordPull
    <2>4. QED
      BY <2>1, <2>2, <2>3, QuietlyEarned
  <1>4. CASE RecordMention(h)
    <2>1. \E r \in Hand : /\ hand' = [hand EXCEPT ![h] = r] /\ r.bare \subseteq hand[h].bare
                          /\ r.at \notin {"countPulls", "claim"}
      BY <1>4, FinishOrGoto DEF Steps, RecordMention
    <2>2. \A p \in unmerged' : pullUser'[p] # NoUser
      BY <1>4 DEF EarnedInv, RecordMention, history
    <2>3. ClaimsAreEarned'
      BY <1>4, SameClaimsEarned DEF RecordMention
    <2>4. QED
      BY <2>1, <2>2, <2>3, QuietlyEarned
  <1>5. CASE CountMentions(h)
    <2>1. PICK y \in YearsLeft(h), first \in hand[h].seen :
              /\ \A later \in YearsLeft(h) : y <= later
              /\ Year[first] = y
              /\ \/ /\ first \in PRBased
                    /\ \E r \in Hand : /\ hand' = [hand EXCEPT ![h] = r] /\ SameUser(r, hand[h])
                                       /\ r.at = "countPulls" /\ r.year = y /\ r.seen = hand[h].seen
                                       /\ r.count = Cardinality(MentionsIn(User(h), y))
                 \/ first \notin PRBased /\ Counted(h, y, Cardinality(MentionsIn(User(h), y)))
      BY <1>5, CountMentionsRecord
    <2>2. UNCHANGED <<rows, history>> /\ UNCHANGED claims /\ User(h) \in Users
      BY <1>5, AtWork DEF CountMentions, Recorded, Handled
    <2>3. CASE /\ first \in PRBased
               /\ \E r \in Hand : /\ hand' = [hand EXCEPT ![h] = r] /\ SameUser(r, hand[h])
                                  /\ r.at = "countPulls" /\ r.year = y /\ r.seen = hand[h].seen
                                  /\ r.count = Cardinality(MentionsIn(User(h), y))
      <3>1. PICK r \in Hand : /\ hand' = [hand EXCEPT ![h] = r] /\ SameUser(r, hand[h])
                              /\ r.at = "countPulls" /\ r.year = y /\ r.seen = hand[h].seen
                              /\ r.count = Cardinality(MentionsIn(User(h), y))
        BY <2>3
      <3>2. User(h)' = User(h)
        BY <3>1, Moved DEF User, SameUser
      <3>3. QED
        BY <1>1, <2>1, <2>2, <2>3, <3>1, <3>2 DEF SameUser
    <2>4. CASE Counted(h, y, Cardinality(MentionsIn(User(h), y)))
      <3>1. y \in Years
        BY <2>1, <1>0, YearsAreNumbers DEF Hand
      <3>2. PICK n : n = Cardinality(MentionsIn(User(h), y))
        OBVIOUS
      <3>3. PICK r \in Hand : /\ hand' = [hand EXCEPT ![h] = r] /\ SameUser(r, hand[h])
                              /\ r.at = IF r.due = {} THEN "count" ELSE "claim"
                              /\ r.year = y /\ r.seen = hand[h].seen /\ r.due = Due(h, y, n)
        BY <2>4, <3>1, <3>2, CountedRecord
      <3>4. User(h)' = User(h)
        BY <3>3, Moved DEF User, SameUser
      <3>5. \A g \in r.due : Earned(User(h), g)
        BY <2>2, <3>2, <3>3, DueByMentions
      <3>6. QED
        BY <1>1, <2>2, <3>3, <3>4, <3>5 DEF SameUser
    <2>5. QED
      BY <2>1, <2>3, <2>4
  <1>6. CASE CountPulls(h)
    <2>1. hand[h].at = "countPulls" /\ UNCHANGED <<rows, history>> /\ UNCHANGED claims /\ User(h) \in Users
          /\ Counted(h, hand[h].year, hand[h].count + Cardinality(PullsIn(User(h), hand[h].year)))
      BY <1>6, AtWork DEF CountPulls, Recorded, Handled
    <2>2. PICK y \in Years : y = hand[h].year
      BY <1>0, <2>1 DEF Hand, HandFits
    <2>n. PICK n : n = hand[h].count + Cardinality(PullsIn(User(h), hand[h].year))
      OBVIOUS
    <2>3. Counted(h, y, n)
      BY <2>1, <2>2, <2>n
    <2>4. PICK r \in Hand : /\ hand' = [hand EXCEPT ![h] = r] /\ SameUser(r, hand[h])
                            /\ r.at = IF r.due = {} THEN "count" ELSE "claim"
                            /\ r.year = y /\ r.seen = hand[h].seen /\ r.due = Due(h, y, n)
      BY <2>3, CountedRecord
    <2>5. User(h)' = User(h)
      BY <2>4, Moved DEF User, SameUser
    <2>6. \A g \in r.due : Earned(User(h), g)
      BY <2>1, <2>2, <2>n, <2>4, DueByPulls
    <2>7. QED
      BY <1>1, <2>1, <2>4, <2>5, <2>6 DEF SameUser
  <1>7. CASE MakeClaim(h)
    <2>1. PICK g \in GitPOAPs, k \in Keys, r \in Hand, new \in Claim, c \in Claim :
              /\ g \in hand[h].due /\ k = <<g, User(h)>> /\ Fresh(h, g, new)
              /\ c = IF claims[k] = NoClaim THEN new ELSE claims[k]
              /\ claims' = [claims EXCEPT ![k] = c]
              /\ hand' = [hand EXCEPT ![h] = r]
              /\ Made(h, g, k, c, r)
      BY <1>7, MakeClaimRecord
    <2>2. hand[h].at = "claim" /\ UNCHANGED <<rows, history>>
      BY <1>7 DEF MakeClaim
    <2>3. Earned(User(h), g) /\ User(h) \in Users
      BY <1>0, <2>1, <2>2, AtWork DEF HandEarned, Recorded, Handled
    <2>4. k[1] = g /\ k[2] = User(h)
      BY <2>1
    <2>5. ASSUME NEW q \in Keys, Named(claims'[q]) PROVE Named(claims[q]) \/ Earned(q[2], q[1])
      BY <2>1, <2>3, <2>4, <2>5 DEF HandsFit, TypeOK
    <2>6. ClaimsAreEarned'
      BY <2>5, SameClaimsEarned
    <2>7. hand'[h] = r /\ User(h)' = User(h)
      BY <2>1, Moved DEF User, Made
    <2>8. ASSUME NEW o \in r.due PROVE Earned(User(h), o)'
      <3>1. o \in GitPOAPs /\ Earned(User(h), o)
        BY <1>0, <2>1, <2>2 DEF HandEarned, Made, Hand
      <3>2. PICK u \in Users : u = User(h)
        BY <2>3
      <3>3. Earned(u, o)'
        BY <3>1, <3>2, EarnedStays DEF EarnedInv
      <3>4. QED
        BY <2>7, <3>2, <3>3
    <2>9. ASSUME NEW id \in r.bare PROVE Earned(id[1][2], id[1][1])'
      <3>1. PICK u \in Users, o \in GitPOAPs : u = id[1][2] /\ o = id[1][1]
        BY DEF Hand, RowIds, Keys
      <3>2. Earned(u, o)
        <4>1. CASE id \in hand[h].bare
          BY <1>0, <3>1, <4>1 DEF HandEarned
        <4>2. CASE id \notin hand[h].bare
          <5>1. id = <<k, c.late>>
            BY <2>1, <2>9, <4>2 DEF Made
          <5>2. QED
            BY <2>3, <2>4, <3>1, <5>1
        <4>3. QED
          BY <4>1, <4>2
      <3>3. QED
        BY <3>1, <3>2, EarnedStays DEF EarnedInv
    <2>10. r.at \in {"count", "claim"}
      BY <2>1 DEF Made
    <2>11. HandEarned(h)'
      BY <2>7, <2>8, <2>9, <2>10 DEF HandEarned
    <2>12. QED
      BY <2>1, <2>2, <2>6, <2>11, EarnedMoved DEF EarnedInv, rows, history
  <1>8. CASE SetEarned(h)
    <2>1. hand[h].at = "earn" /\ UNCHANGED <<rows, history>>
      BY <1>8 DEF SetEarned
    <2>2. \A p \in unmerged' : pullUser'[p] # NoUser
      BY <2>1 DEF EarnedInv, rows, history
    <2>3. CASE Finish(h, "failed") /\ UNCHANGED claims
      BY <2>2, <2>3, SameClaimsEarned, FinishOrGoto, QuietlyEarned
    <2>4. CASE ~ (Finish(h, "failed") /\ UNCHANGED claims)
      <3>1. PICK k \in Keys, c \in Claim, bare \in SUBSET RowIds :
                 /\ claims[k] # NoClaim
                 /\ c.pull = Item(h) /\ c.mention = claims[k].mention
                 /\ c.late = claims[k].late /\ c.status = claims[k].status
                 /\ claims' = [claims EXCEPT ![k] = c]
                 /\ <<k, c.late>> \in hand[h].bare
                 /\ bare \subseteq hand[h].bare
                 /\ \/ Finish(h, "done")
                    \/ \E r \in Hand : /\ hand' = [hand EXCEPT ![h] = r] /\ r.bare = bare
                                       /\ r.at = "earn" /\ r.call = hand[h].call /\ r.todo = hand[h].todo
                                       /\ r.before = hand[h].before /\ r.made = hand[h].made
                                       /\ r.told = hand[h].told /\ r.replied = hand[h].replied
        BY <1>8, <2>4, SetEarnedRecord
      <3>2. Earned(k[2], k[1])
        BY <1>0, <3>1 DEF HandEarned
      <3>3. ASSUME NEW q \in Keys, Named(claims'[q]) PROVE Named(claims[q]) \/ Earned(q[2], q[1])
        BY <3>1, <3>2, <3>3 DEF HandsFit, TypeOK
      <3>4. ClaimsAreEarned'
        BY <3>3, SameClaimsEarned
      <3>5. \E r \in Hand : /\ hand' = [hand EXCEPT ![h] = r] /\ r.bare \subseteq hand[h].bare
                            /\ r.at \notin {"countPulls", "claim"}
        BY <3>1, FinishOrGoto
      <3>6. QED
        BY <2>2, <3>4, <3>5, QuietlyEarned
    <2>5. QED
      BY <2>3, <2>4
  <1>9. CASE GiveClaim(h)
    <2>1. hand[h].at = "give" /\ hand[h].todo # <<>> /\ NextGift(h) /\ UNCHANGED <<rows, history>>
      BY <1>9, AtWork DEF GiveClaim
    <2>2. PICK k \in Keys, new \in Claim, c \in Claim :
              /\ k = <<Item(h), User(h)>>
              /\ new.pull = NoItem /\ new.mention = NoItem /\ (new.late <=> gitPOAPs[k[1]] = "closed")
              /\ c = IF claims[k] = NoClaim THEN new ELSE claims[k]
              /\ claims' = [claims EXCEPT ![k] = c]
      BY <1>9, GiveRecord
    <2>3. ASSUME NEW q \in Keys, Named(claims'[q]) PROVE Named(claims[q]) \/ Earned(q[2], q[1])
      BY <2>2, <2>3 DEF HandsFit, TypeOK, Named
    <2>4. ClaimsAreEarned'
      BY <2>3, SameClaimsEarned
    <2>5. \A p \in unmerged' : pullUser'[p] # NoUser
      BY <2>1 DEF EarnedInv, rows, history
    <2>6. \E r \in Hand : /\ hand' = [hand EXCEPT ![h] = r] /\ r.bare \subseteq hand[h].bare
                          /\ r.at \notin {"countPulls", "claim"}
      <3>1. CASE Finish(h, "done")
        BY <3>1, FinishOrGoto
      <3>2. CASE ~ Finish(h, "done")
        <4>1. PICK r \in Hand :
                   /\ hand' = [hand EXCEPT ![h] = r] /\ r.at = hand[h].at /\ r.todo # <<>>
                   /\ r.call = hand[h].call /\ r.before = hand[h].before /\ r.bare = hand[h].bare
                   /\ r.made = hand[h].made /\ r.told = hand[h].told /\ r.replied = hand[h].replied
                   /\ r.year = hand[h].year /\ r.seen = hand[h].seen
          BY <2>1, <3>2, NextGiftRecord
        <4>2. QED
          BY <2>1, <4>1
      <3>3. QED
        BY <3>1, <3>2
    <2>7. QED
      BY <2>4, <2>5, <2>6, QuietlyEarned
  <1>10. QED
    BY <1>2, <1>3, <1>4, <1>5, <1>6, <1>7, <1>8, <1>9 DEF HandlerStep, Aside


LEMMA EarnedNext == HandsFit /\ EarnedInv /\ [Next]_vars => EarnedInv'
  <1> SUFFICES ASSUME HandsFit, EarnedInv, [Next]_vars PROVE EarnedInv'
    OBVIOUS
  <1>0. HandsFit'
    BY NextFits
  <1>1. CASE \/ \E p \in Pulls : Merge(p)
             \/ \E g \in GitPOAPs : CreateGitPOAP(g) \/ Deprecate(g)
    <2>1. ClaimsAreEarned'
      BY <1>0, <1>1, OthersFacts, SameClaimsEarned
    <2>2. QED
      BY <1>0, <1>1, <2>1, OthersFacts, EarnedStill
  <1>2. ASSUME NEW g \in GitPOAPs, DeleteClaims(g) PROVE EarnedInv'
    <2>1. \A k \in Keys : Named(claims'[k]) => Named(claims[k])
      BY <1>2, DeleteFacts DEF Named
    <2>2. ClaimsAreEarned'
      BY <1>0, <2>1, SameClaimsEarned
    <2>3. QED
      BY <1>0, <1>2, <2>2, DeleteFacts, EarnedStill
  <1>3. ASSUME NEW k \in Keys, Mint(k) PROVE EarnedInv'
    <2>1. PICK c \in Claim : /\ claims' = [claims EXCEPT ![k] = c]
                             /\ c.pull = claims[k].pull /\ c.mention = claims[k].mention
                             /\ c.late = claims[k].late /\ claims[k] # NoClaim
      BY <1>3, MintFacts
    <2>2. \A q \in Keys : Named(claims'[q]) => Named(claims[q])
      BY <2>1 DEF Named, HandsFit, TypeOK
    <2>3. ClaimsAreEarned'
      BY <1>0, <2>2, SameClaimsEarned
    <2>4. QED
      BY <1>0, <1>3, <2>3, MintFacts, EarnedStill
  <1>4. ASSUME NEW h \in Handlers, Start(h) \/ HandlerStep(h) PROVE EarnedInv'
    BY <1>0, <1>4, EarnedStep
  <1>5. CASE UNCHANGED vars
    <2>1. ClaimsAreEarned'
      BY <1>0, <1>5, SameClaimsEarned DEF vars
    <2>2. QED
      BY <1>0, <1>5, <2>1, EarnedStill DEF vars
  <1>6. QED
    BY <1>1, <1>2, <1>3, <1>4, <1>5 DEF Next

LEMMA EarnedInit == Init => EarnedInv
  <1> SUFFICES ASSUME Init PROVE EarnedInv
    OBVIOUS
  <1>1. ASSUME NEW h \in Handlers PROVE HandEarned(h)
    <2>1. hand[h].at = "idle" /\ hand[h].bare = {}
      BY DEF Init, Idle
    <2>2. QED
      BY <2>1 DEF HandEarned
  <1>2. ClaimsAreEarned
    <2>1. \A g \in GitPOAPs, u \in Users : <<g, u>> \in Keys
      BY DEF Keys
    <2>2. QED
      BY <2>1 DEF Init, ClaimsAreEarned, Named
  <1>3. QED
    BY <1>1, <1>2 DEF EarnedInv, Init

\* A claim that names the PR, issue or mention it was earned by belongs to a user who has
\* contributed as much as its GitPOAP asks for: createClaimsForPR and its relatives count
\* before they make claims, rows only come, and the backload names its PR in claims that it
\* has counted for, whoever records, counts or deprecates in between.
THEOREM NamedClaimsAreEarned == Spec => []ClaimsAreEarned
  <1>1. Spec => []EarnedInv
    BY EarnedInit, EarnedNext, HandsAlwaysFit, PTL DEF Spec
  <1>2. EarnedInv => ClaimsAreEarned
    BY DEF EarnedInv
  <1>3. QED
    BY <1>1, <1>2, PTL


-----------------------------------------------------------------------------
(* QualifiedHaveClaims: the last handler to record sees all, and makes the *)
(* claim.                                                                  *)

Counting == pullMerged \ uncounted

\* Whoever waits now has waited before, if no row was added and no claim deleted.
LEMMA WaitedBefore ==
    ASSUME NEW u \in Users, NEW g \in GitPOAPs, Waits(u, g)', UNCHANGED <<rows, history>>,
           gitPOAPs'[g] = "live" => gitPOAPs[g] = "live",
           claims'[<<g, u>>] = NoClaim => claims[<<g, u>>] = NoClaim
    PROVE  Waits(u, g)
  <1>1. gitPOAPs[g] = "live" /\ Uniform(g) /\ claims[<<g, u>>] = NoClaim
    BY DEF Waits, Uniform
  <1>2. MentionsIn(u, Year[g])' = MentionsIn(u, Year[g])
    BY DEF MentionsIn, rows
  <1>3. Contributed(u, g, pullMerged \ uncounted)' = Contributed(u, g, pullMerged \ uncounted)
    BY <1>2 DEF Contributed, rows, history
  <1>4. QED
    BY <1>1, <1>3 DEF Waits

\* A handler that did nothing goes on serving, if the user was mentioned no more.
LEMMA GoesOnServing ==
    ASSUME NEW o \in Handlers, NEW u, NEW g, Serves(o, u, g), hand'[o] = hand[o],
           MentionsIn(u, Year[g])' = MentionsIn(u, Year[g])
    PROVE  Serves(o, u, g)'
  BY DEF Serves, User

LEMMA AsideServesNone ==
    ASSUME HandsFit, NEW h \in Handlers, Aside(h), NEW u, NEW g \in GitPOAPs
    PROVE  ~ Serves(h, u, g)
  <1>1. CASE EndUser(h)
    <2>1. hand[h].at = "count" /\ YearsLeft(h) = {}
      BY <1>1 DEF EndUser
    <2>2. SUFFICES ASSUME g \in hand[h].seen, hand[h].year < Year[g] PROVE FALSE
      BY <2>1 DEF Serves
    <2>3. hand[h].year \in Nat /\ Year[g] \in Nat
      BY YearType, ContributionsAssumption
    <2>4. Year[g] > hand[h].year
      BY <2>2, <2>3
    <2>5. Year[g] \in YearsLeft(h)
      BY <2>2, <2>4 DEF YearsLeft
    <2>6. QED
      BY <2>1, <2>5
  <1>2. CASE ~ EndUser(h)
    <2>1. hand[h].at \in {"idle", "read", "fetch", "retrieve", "give"}
      BY <1>2 DEF Aside, Start, ReadRepo, SkipUser, Fetch, FetchFails, Retrieve, Reply, ReadGitPOAP, SkipGift
    <2>2. QED
      BY <2>1 DEF Serves, Recorded, Handled
  <1>3. QED
    BY <1>1, <1>2

\* Where a step of h leaves rows alone, others serve on, and h has only to show it for its own.
LEMMA ServedByOthers ==
    ASSUME HandsFit, QualifiedAreServed, NEW h \in Handlers, NEW r \in Hand, hand' = [hand EXCEPT ![h] = r],
           NEW u \in Users, NEW g \in GitPOAPs \ Later, Waits(u, g),
           MentionsIn(u, Year[g])' = MentionsIn(u, Year[g]),
           Serves(h, u, g) => Serves(h, u, g)'
    PROVE  \E o \in Handlers : Serves(o, u, g)'
  <1>1. PICK o \in Handlers : Serves(o, u, g)
    BY DEF QualifiedAreServed
  <1>2. CASE o = h
    BY <1>1, <1>2
  <1>3. CASE o # h
    BY <1>1, <1>3, Moved, GoesOnServing
  <1>4. QED
    BY <1>2, <1>3

\* A recorded PR adds to the contributions of the handler's user only.
LEMMA PullAddsToUser ==
    ASSUME HandsFit, HandsFit', NEW h \in Handlers, RecordPull(h),
           NEW u \in Users, NEW g \in GitPOAPs \ Later, Waits(u, g)'
    PROVE  \/ Waits(u, g)
           \/ User(h) = u /\ g \in PRBased /\ MergeYear[Item(h)] = Year[g]
  <1> DEFINE S == CountedPulls(u, g, Counting)
             T == {p \in Counting' : pullUser'[p] = u /\ MergeYear[p] = Year[g]}
  <1>1. UNCHANGED <<merged, gitPOAPs, mentions, claims>>
    BY DEF RecordPull
  <1>2. MentionsIn(u, Year[g])' = MentionsIn(u, Year[g])
    BY <1>1 DEF MentionsIn
  <1>3. gitPOAPs[g] = "live" /\ Uniform(g) /\ claims[<<g, u>>] = NoClaim
    BY <1>1 DEF Waits, Uniform
  <1>4. Contributed(u, g, Counting)' = Cardinality(MentionsIn(u, Year[g])) + (IF g \in PRBased THEN Cardinality(T) ELSE 0)
    BY <1>2 DEF Contributed
  <1>5. Contributed(u, g, Counting)' >= Threshold[g]
    BY DEF Waits, Counting
  <1>6. Counting \in SUBSET Pulls
    BY DonePulls DEF Counting
  <1>7. /\ Cardinality(MentionsIn(u, Year[g])) \in Nat /\ IsFiniteSet(S) /\ Cardinality(S) \in Nat
        /\ Contributed(u, g, Counting) = Cardinality(MentionsIn(u, Year[g])) + (IF g \in PRBased THEN Cardinality(S) ELSE 0)
        /\ Threshold[g] \in Nat
    BY <1>6, ContributedValue
  <1>8. CASE g \notin PRBased
    <2>1. Contributed(u, g, Counting) >= Threshold[g]
      BY <1>4, <1>5, <1>7, <1>8
    <2>2. QED
      BY <1>3, <2>1 DEF Waits, Counting
  <1>9. CASE User(h) # u \/ MergeYear[Item(h)] # Year[g]
    <2>1. ASSUME NEW p \in T PROVE p \in S
      <3>1. p \in pullMerged' /\ p \notin uncounted' /\ pullUser'[p] = u /\ MergeYear[p] = Year[g]
        BY DEF Counting
      <3>2. p \in Pulls
        BY <3>1 DEF HandsFit, TypeOK
      <3>3. CASE p # Item(h)
        BY <3>1, <3>2, <3>3, RecordPullTables DEF CountedPulls, Counting
      <3>4. CASE p = Item(h)
        <4>1. User(h) # u
          BY <1>9, <3>1, <3>4
        <4>2. pullUser[p] = u /\ pullUser'[p] # User(h)
          BY <3>1, <3>4, <4>1, RecordPullTables
        <4>3. hand[h].merged
          BY <3>1, <3>4 DEF RecordPull
        <4>4. uncounted' = uncounted \cup ({p} \ pullMerged)
          BY <3>4, <4>2, <4>3 DEF RecordPull
        <4>5. p \in pullMerged /\ p \notin uncounted
          BY <3>1, <4>4
        <4>6. QED
          BY <3>1, <4>2, <4>5 DEF CountedPulls, Counting
      <3>5. QED
        BY <3>3, <3>4
    <2>2. T \subseteq S
      BY <2>1
    <2> HIDE DEF S, T
    <2>3. Cardinality(T) \in Nat /\ Cardinality(T) <= Cardinality(S)
      BY <1>7, <2>2, FS_Subset, FS_CardinalityType
    <2>4. Contributed(u, g, Counting) >= Threshold[g]
      BY <1>4, <1>5, <1>7, <2>3
    <2>5. QED
      BY <1>3, <2>4 DEF Waits, Counting
  <1>10. QED
    BY <1>8, <1>9

\* What is due of the year that is counted with all mentions, and with all PRs where they count.
LEMMA DueToWaiting ==
    ASSUME HandsFit, NEW h \in Handlers, NEW u \in Users, u = User(h), NEW g \in GitPOAPs, Waits(u, g),
           g \in hand[h].seen, NEW n \in Nat,
           n >= Cardinality(MentionsIn(u, Year[g]))
                + (IF g \in PRBased THEN Cardinality(CountedPulls(u, g, Counting)) ELSE 0)
    PROVE  g \in Due(h, Year[g], n)
  <1>1. Counting \in SUBSET Pulls
    BY DonePulls DEF Counting
  <1>2. Contributed(u, g, Counting) >= Threshold[g]
    BY DEF Waits, Counting
  <1>3. n >= Contributed(u, g, Counting) /\ Contributed(u, g, Counting) \in Nat /\ Threshold[g] \in Nat /\ Threshold[g] > 0
    BY <1>1, ContributedValue
  <1>4. n > 0 /\ n >= Threshold[g]
    BY <1>2, <1>3
  <1>5. QED
    BY <1>4 DEF Due


LEMMA ServedStep ==
    ASSUME HandsFit, HandsFit', QualifiedAreServed, NEW h \in Handlers, Start(h) \/ HandlerStep(h),
           NEW u \in Users, NEW g \in GitPOAPs \ Later, Waits(u, g)'
    PROVE  \E o \in Handlers : Serves(o, u, g)'
  <1>0. HandFits(h) /\ hand[h] \in Hand /\ Year[g] \in Nat /\ Year[g] > 0
    BY HandFacts, ContributionsAssumption
  <1>1. ASSUME UNCHANGED mentions PROVE MentionsIn(u, Year[g])' = MentionsIn(u, Year[g])
    BY <1>1 DEF MentionsIn
  <1>2. CASE Aside(h)
    <2>1. Waits(u, g)
      BY <1>2, AsideRecord, WaitedBefore
    <2>2. \E r \in Hand : hand' = [hand EXCEPT ![h] = r]
      BY <1>2, AsideRecord
    <2>3. UNCHANGED mentions
      BY <1>2, AsideRecord DEF rows
    <2>4. QED
      BY <1>1, <1>2, <2>1, <2>2, <2>3, ServedByOthers, AsideServesNone
  <1>3. CASE RecordPull(h)
    <2>1. hand[h].at = "record" /\ hand[h].todo # <<>> /\ hand[h].year = 0 /\ UNCHANGED <<gitPOAPs, mentions>>
      BY <1>3, AtWork DEF RecordPull
    <2>2. ~ Serves(h, u, g)
      BY <2>1 DEF Serves, Recorded, Handled
    <2>3. \E r \in Hand : hand' = [hand EXCEPT ![h] = r]
      BY <1>3, RecordPullHand, FinishOrGoto DEF Steps
    <2>4. CASE Waits(u, g)
      BY <1>1, <2>1, <2>2, <2>3, <2>4, ServedByOthers
    <2>5. CASE User(h) = u /\ g \in PRBased /\ MergeYear[Item(h)] = Year[g]
      <3>1. g \in hand[h].seen
        <4>1. gitPOAPs[g] = "live"
          BY <2>1 DEF Waits
        <4>2. QED
          BY <1>0, <2>1, <2>5, <4>1 DEF HandFits
      <3>2. PICK step \in {"mention", "count"} : Goto(h, step)
        BY <1>3, <2>5, <3>1, RecordPullHand
      <3>3. PICK r \in Hand : hand' = [hand EXCEPT ![h] = r] /\ r.at = step /\ Same(r, hand[h])
        BY <3>2, GotoRecord DEF Steps
      <3>4. hand'[h] = r /\ User(h)' = User(h)
        BY <3>3, Moved DEF User, Same
      <3>5. r.at \in Recorded /\ r.year = 0 /\ r.todo # <<>> /\ g \in r.seen
        BY <2>1, <3>1, <3>3 DEF Recorded, Handled, Same
      <3>6. Serves(h, u, g)'
        BY <1>0, <2>5, <3>4, <3>5 DEF Serves
      <3>7. QED
        BY <3>6
    <2>6. QED
      BY <1>3, <2>4, <2>5, PullAddsToUser
  <1>4. CASE RecordMention(h)
    <2>1. hand[h].at = "mention" /\ hand[h].todo # <<>> /\ hand[h].year = 0
          /\ Kind(h) \in {"mention", "issue"} /\ UNCHANGED <<gitPOAPs, pullUser, pullMerged, claims, history>>
          /\ Goto(h, "count") /\ mentions' = mentions \cup {<<User(h), Item(h)>>}
      BY <1>4, AtWork DEF RecordMention, Recorded
    <2>2. PICK r \in Hand : hand' = [hand EXCEPT ![h] = r] /\ r.at = "count" /\ Same(r, hand[h])
      BY <2>1, GotoRecord DEF Steps
    <2>3. hand'[h] = r /\ User(h)' = User(h)
      BY <2>2, Moved DEF User, Same
    <2>4. g \in hand[h].seen
      <3>1. gitPOAPs[g] = "live"
        BY <2>1 DEF Waits
      <3>2. QED
        BY <1>0, <2>1, <3>1 DEF HandFits, Recorded
    <2>5. CASE User(h) = u
      <3>1. r.at \in Recorded /\ r.year = 0 /\ r.todo # <<>> /\ g \in r.seen
        BY <2>1, <2>2, <2>4 DEF Recorded, Handled, Same
      <3>2. Serves(h, u, g)'
        BY <1>0, <2>3, <2>5, <3>1 DEF Serves
      <3>3. QED
        BY <3>2
    <2>6. CASE User(h) # u
      <3>1. MentionsIn(u, Year[g])' = MentionsIn(u, Year[g])
        BY <2>1, <2>6 DEF MentionsIn
      <3>2. Contributed(u, g, pullMerged \ uncounted)' = Contributed(u, g, pullMerged \ uncounted)
        BY <2>1, <3>1 DEF Contributed, history
      <3>3. Waits(u, g)
        BY <2>1, <3>2 DEF Waits, Uniform
      <3>4. ~ Serves(h, u, g)
        BY <2>6 DEF Serves
      <3>5. QED
        BY <2>2, <3>1, <3>3, <3>4, ServedByOthers
    <2>7. QED
      BY <2>5, <2>6
  <1>5. CASE CountMentions(h)
    <2>1. PICK y \in YearsLeft(h), first \in hand[h].seen :
              /\ \A later \in YearsLeft(h) : y <= later
              /\ Year[first] = y
              /\ \/ /\ first \in PRBased
                    /\ \E r \in Hand : /\ hand' = [hand EXCEPT ![h] = r] /\ SameUser(r, hand[h])
                                       /\ r.at = "countPulls" /\ r.year = y /\ r.seen = hand[h].seen
                                       /\ r.count = Cardinality(MentionsIn(User(h), y))
                 \/ first \notin PRBased /\ Counted(h, y, Cardinality(MentionsIn(User(h), y)))
      BY <1>5, CountMentionsRecord
    <2>2. hand[h].at = "count" /\ UNCHANGED <<gitPOAPs, rows, claims, history>>
      BY <1>5 DEF CountMentions
    <2>3. Waits(u, g) /\ MentionsIn(u, Year[g])' = MentionsIn(u, Year[g])
      BY <1>1, <2>2, WaitedBefore DEF rows
    <2>4. y \in Years /\ y \in Nat /\ first \in GitPOAPs
      BY <1>0, <2>1, YearsAreNumbers DEF Hand
    <2>5. hand[h].year \in Nat
      BY YearType
    <2>6. ASSUME Serves(h, u, g)
          PROVE  /\ hand[h].todo # <<>> /\ User(h) = u /\ g \in hand[h].seen /\ y <= Year[g]
      <3>1. hand[h].todo # <<>> /\ User(h) = u /\ g \in hand[h].seen /\ hand[h].year < Year[g]
        BY <2>2, <2>6 DEF Serves
      <3>2. Year[g] \in YearsLeft(h)
        BY <1>0, <2>5, <3>1 DEF YearsLeft
      <3>3. QED
        BY <2>1, <3>1, <3>2
    <2>7. CASE /\ first \in PRBased
               /\ \E r \in Hand : /\ hand' = [hand EXCEPT ![h] = r] /\ SameUser(r, hand[h])
                                  /\ r.at = "countPulls" /\ r.year = y /\ r.seen = hand[h].seen
                                  /\ r.count = Cardinality(MentionsIn(User(h), y))
      <3>1. PICK r \in Hand : /\ hand' = [hand EXCEPT ![h] = r] /\ SameUser(r, hand[h])
                              /\ r.at = "countPulls" /\ r.year = y /\ r.seen = hand[h].seen
                              /\ r.count = Cardinality(MentionsIn(User(h), y))
        BY <2>7
      <3>2. hand'[h] = r /\ User(h)' = User(h) /\ r.todo = hand[h].todo
        BY <3>1, Moved DEF User, SameUser
      <3>3. ASSUME Serves(h, u, g) PROVE Serves(h, u, g)'
        <4>1. hand[h].todo # <<>> /\ User(h) = u /\ g \in hand[h].seen /\ y <= Year[g]
          BY <2>6, <3>3
        <4>2. CASE y = Year[g]
          BY <2>3, <3>1, <3>2, <4>1, <4>2 DEF Serves
        <4>3. CASE y # Year[g]
          <5>1. y < Year[g]
            BY <1>0, <2>4, <4>1, <4>3
          <5>2. QED
            BY <3>1, <3>2, <4>1, <5>1 DEF Serves, Recorded, Handled
        <4>4. QED
          BY <4>2, <4>3
      <3>4. QED
        BY <2>3, <3>1, <3>3, ServedByOthers
    <2>8. CASE first \notin PRBased /\ Counted(h, y, Cardinality(MentionsIn(User(h), y)))
      <3>1. PICK n \in Nat : n = Cardinality(MentionsIn(User(h), y))
        BY MentionCounts
      <3>2. PICK r \in Hand : /\ hand' = [hand EXCEPT ![h] = r] /\ SameUser(r, hand[h])
                              /\ r.at = IF r.due = {} THEN "count" ELSE "claim"
                              /\ r.year = y /\ r.seen = hand[h].seen /\ r.due = Due(h, y, n)
        BY <2>4, <2>8, <3>1, CountedRecord
      <3>3. hand'[h] = r /\ User(h)' = User(h) /\ r.todo = hand[h].todo
        BY <3>2, Moved DEF User, SameUser
      <3>4. ASSUME Serves(h, u, g) PROVE Serves(h, u, g)'
        <4>1. hand[h].todo # <<>> /\ User(h) = u /\ g \in hand[h].seen /\ y <= Year[g]
          BY <2>6, <3>4
        <4>2. CASE y = Year[g]
          <5>1. g \notin PRBased
            BY <2>1, <2>3, <2>4, <2>8, <4>2 DEF Waits, Uniform
          <5>2. n >= Cardinality(MentionsIn(u, Year[g]))
                     + (IF g \in PRBased THEN Cardinality(CountedPulls(u, g, Counting)) ELSE 0)
            BY <3>1, <4>1, <4>2, <5>1
          <5>3. g \in Due(h, Year[g], n)
            BY <2>3, <4>1, <5>2, DueToWaiting
          <5>4. g \in r.due /\ r.at = "claim"
            BY <3>2, <4>2, <5>3
          <5>5. QED
            BY <3>2, <3>3, <4>1, <5>4 DEF Serves
        <4>3. CASE y # Year[g]
          <5>1. y < Year[g] /\ r.at \in {"count", "claim"}
            BY <1>0, <2>4, <3>2, <4>1, <4>3
          <5>2. QED
            BY <3>2, <3>3, <4>1, <5>1 DEF Serves, Recorded, Handled
        <4>4. QED
          BY <4>2, <4>3
      <3>5. QED
        BY <2>3, <3>2, <3>4, ServedByOthers
    <2>9. QED
      BY <2>1, <2>7, <2>8
  <1>6. CASE CountPulls(h)
    <2>1. hand[h].at = "countPulls" /\ UNCHANGED <<gitPOAPs, rows, claims, history>>
          /\ Counted(h, hand[h].year, hand[h].count + Cardinality(PullsIn(User(h), hand[h].year)))
      BY <1>6 DEF CountPulls
    <2>2. Waits(u, g) /\ MentionsIn(u, Year[g])' = MentionsIn(u, Year[g])
      BY <1>1, <2>1, WaitedBefore DEF rows
    <2>3. PICK y \in Years : y = hand[h].year
      BY <1>0, <2>1 DEF Hand, HandFits
    <2>n. PICK n : n = hand[h].count + Cardinality(PullsIn(User(h), hand[h].year))
      OBVIOUS
    <2>4. Counted(h, y, n)
      BY <2>1, <2>3, <2>n
    <2>5. PICK r \in Hand : /\ hand' = [hand EXCEPT ![h] = r] /\ SameUser(r, hand[h])
                            /\ r.at = IF r.due = {} THEN "count" ELSE "claim"
                            /\ r.year = y /\ r.seen = hand[h].seen /\ r.due = Due(h, y, n)
      BY <2>4, CountedRecord
    <2>6. hand'[h] = r /\ User(h)' = User(h) /\ r.todo = hand[h].todo
      BY <2>5, Moved DEF User, SameUser
    <2>7. ASSUME Serves(h, u, g) PROVE Serves(h, u, g)'
      <3>1. hand[h].todo # <<>> /\ User(h) = u /\ g \in hand[h].seen
        BY <2>7 DEF Serves
      <3>2. CASE hand[h].year = Year[g] /\ hand[h].count = Cardinality(MentionsIn(u, Year[g]))
        <4>1. Counting \in SUBSET Pulls
          BY DonePulls DEF Counting
        <4>2. Cardinality(CountedPulls(u, g, Counting)) \in Nat /\ hand[h].count \in Nat
              /\ IsFiniteSet(CountedPulls(u, g, pullMerged)) /\ Cardinality(CountedPulls(u, g, pullMerged)) \in Nat
          BY <1>0, <4>1, ContributedValue, DonePulls DEF Hand
        <4>3. PullsIn(User(h), hand[h].year) = CountedPulls(u, g, pullMerged)
          BY <3>1, <3>2 DEF PullsIn, CountedPulls
        <4>4. CountedPulls(u, g, Counting) \subseteq CountedPulls(u, g, pullMerged)
          BY DEF CountedPulls, Counting
        <4>5. Cardinality(CountedPulls(u, g, Counting)) <= Cardinality(CountedPulls(u, g, pullMerged))
          BY <4>2, <4>4, FS_Subset
        <4>6. n \in Nat /\ n >= Cardinality(MentionsIn(u, Year[g]))
                     + (IF g \in PRBased THEN Cardinality(CountedPulls(u, g, Counting)) ELSE 0)
          BY <2>3, <2>n, <3>2, <4>2, <4>3, <4>5
        <4>7. g \in Due(h, Year[g], n)
          BY <2>2, <3>1, <4>6, DueToWaiting
        <4>8. g \in r.due /\ r.at = "claim"
          BY <2>3, <2>5, <3>2, <4>7
        <4>9. QED
          BY <2>5, <2>6, <3>1, <4>8 DEF Serves
      <3>3. CASE hand[h].year < Year[g]
        <4>1. r.at \in {"count", "claim"} /\ r.year < Year[g]
          BY <2>3, <2>5, <3>3
        <4>2. QED
          BY <2>5, <2>6, <3>1, <4>1 DEF Serves, Recorded, Handled
      <3>4. QED
        BY <2>1, <2>7, <3>2, <3>3 DEF Serves
    <2>8. QED
      BY <2>2, <2>5, <2>7, ServedByOthers
  <1>7. CASE MakeClaim(h)
    <2>1. PICK o \in GitPOAPs, k \in Keys, r \in Hand, new \in Claim, c \in Claim :
              /\ o \in hand[h].due /\ k = <<o, User(h)>> /\ Fresh(h, o, new)
              /\ c = IF claims[k] = NoClaim THEN new ELSE claims[k]
              /\ claims' = [claims EXCEPT ![k] = c]
              /\ hand' = [hand EXCEPT ![h] = r]
              /\ Made(h, o, k, c, r)
      BY <1>7, MakeClaimRecord
    <2>2. hand[h].at = "claim" /\ UNCHANGED <<gitPOAPs, rows, history>>
      BY <1>7 DEF MakeClaim
    <2>3. claims'[k] # NoClaim /\ \A q \in Keys \ {k} : claims'[q] = claims[q]
      BY <2>1, ContributionsAssumption DEF HandsFit, TypeOK
    <2>4. claims'[<<g, u>>] = NoClaim /\ <<g, u>> \in Keys
      BY DEF Waits, Keys
    <2>5. <<g, u>> # k
      BY <2>3, <2>4
    <2>6. Waits(u, g) /\ MentionsIn(u, Year[g])' = MentionsIn(u, Year[g])
      BY <1>1, <2>2, <2>3, <2>4, <2>5, WaitedBefore DEF rows
    <2>7. hand'[h] = r /\ User(h)' = User(h) /\ r.todo = hand[h].todo /\ r.seen = hand[h].seen
          /\ r.year = hand[h].year
      BY <2>1, Moved DEF User, Made
    <2>8. ASSUME Serves(h, u, g) PROVE Serves(h, u, g)'
      <3>1. hand[h].todo # <<>> /\ User(h) = u /\ g \in hand[h].seen
        BY <2>8 DEF Serves
      <3>2. CASE g \in hand[h].due
        <4>1. g # o
          BY <2>1, <2>5, <3>1
        <4>2. g \in r.due /\ r.at = "claim"
          BY <2>1, <3>2, <4>1 DEF Made
        <4>3. QED
          BY <2>7, <3>1, <4>2 DEF Serves
      <3>3. CASE hand[h].year < Year[g]
        <4>1. r.at \in {"count", "claim"}
          BY <2>1 DEF Made
        <4>2. QED
          BY <2>7, <3>1, <3>3, <4>1 DEF Serves, Recorded, Handled
      <3>4. QED
        BY <2>2, <2>8, <3>2, <3>3 DEF Serves
    <2>9. QED
      BY <2>1, <2>6, <2>8, ServedByOthers
  <1>8. CASE SetEarned(h) \/ GiveClaim(h)
    <2>1. hand[h].at \in {"earn", "give"} /\ UNCHANGED <<gitPOAPs, rows, history>>
      BY <1>8 DEF SetEarned, GiveClaim
    <2>2. ~ Serves(h, u, g)
      BY <2>1 DEF Serves, Recorded, Handled
    <2>3. \A k \in Keys : claims[k] # NoClaim => claims'[k] # NoClaim
      <3>1. CASE GiveClaim(h)
        <4>1. PICK k \in Keys, new \in Claim, c \in Claim :
              /\ k = <<Item(h), User(h)>>
              /\ new.pull = NoItem /\ new.mention = NoItem /\ (new.late <=> gitPOAPs[k[1]] = "closed")
              /\ c = IF claims[k] = NoClaim THEN new ELSE claims[k]
              /\ claims' = [claims EXCEPT ![k] = c]
          BY <3>1, GiveRecord
        <4>2. QED
          BY <4>1, ContributionsAssumption DEF HandsFit, TypeOK
      <3>2. CASE SetEarned(h) /\ UNCHANGED claims
        BY <3>2
      <3>3. CASE SetEarned(h) /\ ~ UNCHANGED claims
        <4>1. PICK k \in Keys, c \in Claim, bare \in SUBSET RowIds :
                 /\ claims[k] # NoClaim
                 /\ c.pull = Item(h) /\ c.mention = claims[k].mention
                 /\ c.late = claims[k].late /\ c.status = claims[k].status
                 /\ claims' = [claims EXCEPT ![k] = c]
                 /\ <<k, c.late>> \in hand[h].bare
                 /\ bare \subseteq hand[h].bare
                 /\ \/ Finish(h, "done")
                    \/ \E r \in Hand : /\ hand' = [hand EXCEPT ![h] = r] /\ r.bare = bare
                                       /\ r.at = "earn" /\ r.call = hand[h].call /\ r.todo = hand[h].todo
                                       /\ r.before = hand[h].before /\ r.made = hand[h].made
                                       /\ r.told = hand[h].told /\ r.replied = hand[h].replied
          BY <3>3, SetEarnedRecord
        <4>2. QED
          BY <4>1, ContributionsAssumption DEF HandsFit, TypeOK
      <3>4. QED
        BY <1>8, <3>1, <3>2, <3>3
    <2>4. <<g, u>> \in Keys
      BY DEF Keys
    <2>5. Waits(u, g) /\ MentionsIn(u, Year[g])' = MentionsIn(u, Year[g])
      BY <1>1, <2>1, <2>3, <2>4, WaitedBefore DEF rows
    <2>6. \E r \in Hand : hand' = [hand EXCEPT ![h] = r]
      <3>1. CASE Finish(h, "done") \/ Finish(h, "failed")
        BY <3>1, FinishOrGoto
      <3>2. CASE GiveClaim(h) /\ ~ Finish(h, "done")
        <4>1. hand[h].todo # <<>> /\ NextGift(h)
          BY <3>2, AtWork DEF GiveClaim
        <4>2. QED
          BY <3>2, <4>1, NextGiftRecord
      <3>3. CASE SetEarned(h) /\ ~ Finish(h, "failed")
        BY <3>1, <3>3, SetEarnedRecord
      <3>4. QED
        BY <1>8, <3>1, <3>2, <3>3
    <2>7. QED
      BY <2>2, <2>5, <2>6, ServedByOthers
  <1>9. QED
    BY <1>2, <1>3, <1>4, <1>5, <1>6, <1>7, <1>8 DEF HandlerStep, Aside


LEMMA ServedNext == HandsFit /\ QualifiedAreServed /\ [Next]_vars => QualifiedAreServed'
  <1> SUFFICES ASSUME HandsFit, QualifiedAreServed, [Next]_vars,
                      NEW g \in GitPOAPs \ Later, NEW u \in Users, Waits(u, g)'
               PROVE  \E o \in Handlers : Serves(o, u, g)'
    BY DEF QualifiedAreServed
  <1>0. HandsFit' /\ <<g, u>> \in Keys
    BY NextFits DEF Keys
  <1>1. ASSUME UNCHANGED <<rows, hand, history>>, gitPOAPs'[g] = "live" => gitPOAPs[g] = "live",
               claims'[<<g, u>>] = NoClaim => claims[<<g, u>>] = NoClaim
        PROVE  \E o \in Handlers : Serves(o, u, g)'
    <2>1. Waits(u, g)
      BY <1>1, WaitedBefore
    <2>2. MentionsIn(u, Year[g])' = MentionsIn(u, Year[g])
      BY <1>1 DEF MentionsIn, rows
    <2>3. PICK o \in Handlers : Serves(o, u, g)
      BY <2>1 DEF QualifiedAreServed
    <2>4. Serves(o, u, g)'
      BY <1>1, <2>2, <2>3, GoesOnServing
    <2>5. QED
      BY <2>4
  <1>2. CASE \/ \E p \in Pulls : Merge(p)
             \/ \E o \in GitPOAPs : CreateGitPOAP(o) \/ Deprecate(o)
    BY <1>1, <1>2, OthersFacts
  <1>3. ASSUME NEW o \in GitPOAPs, DeleteClaims(o) PROVE \E q \in Handlers : Serves(q, u, g)'
    <2>1. gitPOAPs'[g] = "live"
      BY DEF Waits
    <2>2. g # o /\ gitPOAPs'[g] = gitPOAPs[g]
      BY <1>3, <2>1, DeleteFacts
    <2>3. claims'[<<g, u>>] = claims[<<g, u>>]
      <3>1. PICK k \in Keys : k = <<g, u>>
        BY <1>0
      <3>2. k[1] = g
        BY <3>1
      <3>3. QED
        BY <1>3, <2>2, <3>1, <3>2, DeleteFacts
    <2>4. QED
      BY <1>1, <1>3, <2>2, <2>3, DeleteFacts
  <1>4. ASSUME NEW k \in Keys, Mint(k) PROVE \E o \in Handlers : Serves(o, u, g)'
    <2>1. PICK c \in Claim : /\ claims' = [claims EXCEPT ![k] = c]
                             /\ c.pull = claims[k].pull /\ c.mention = claims[k].mention
                             /\ c.late = claims[k].late /\ claims[k] # NoClaim
      BY <1>4, MintFacts
    <2>2. claims'[<<g, u>>] = NoClaim => claims[<<g, u>>] = NoClaim
      BY <1>0, <2>1, ContributionsAssumption DEF HandsFit, TypeOK
    <2>3. UNCHANGED <<gitPOAPs, rows, hand, history>>
      BY <1>4 DEF Mint
    <2>4. QED
      BY <1>1, <2>2, <2>3
  <1>5. ASSUME NEW h \in Handlers, Start(h) \/ HandlerStep(h) PROVE \E o \in Handlers : Serves(o, u, g)'
    BY <1>0, <1>5, ServedStep
  <1>6. CASE UNCHANGED vars
    BY <1>1, <1>6 DEF vars
  <1>7. QED
    BY <1>2, <1>3, <1>4, <1>5, <1>6 DEF Next

LEMMA ServedInit == Init => QualifiedAreServed
  <1> SUFFICES ASSUME Init, NEW g \in GitPOAPs \ Later, NEW u \in Users PROVE ~ Waits(u, g)
    BY DEF QualifiedAreServed
  <1>1. HandsFit
    BY InitFits
  <1>2. MentionsIn(u, Year[g]) = {} /\ CountedPulls(u, g, Counting) = {}
    BY DEF Init, MentionsIn, CountedPulls, Counting
  <1>3. Counting \in SUBSET Pulls
    BY <1>1, DonePulls DEF Counting
  <1>4. Contributed(u, g, Counting) = 0 /\ Threshold[g] \in Nat /\ Threshold[g] > 0
    BY <1>1, <1>2, <1>3, ContributedValue, FS_EmptySet
  <1>5. QED
    BY <1>4 DEF Waits, Counting

LEMMA ServedClaims == HandsFit /\ QualifiedAreServed => QualifiedHaveClaims
  <1> SUFFICES ASSUME HandsFit, QualifiedAreServed, Quiet, NEW g \in GitPOAPs \ Later, NEW u \in Users,
                      gitPOAPs[g] = "live", Uniform(g), \A p \in uncounted : pullUser[p] # u,
                      Contributed(u, g, pullMerged) >= Threshold[g], claims[<<g, u>>] = NoClaim
               PROVE  FALSE
    BY DEF QualifiedHaveClaims
  <1>1. {p \in pullMerged : pullUser[p] = u /\ MergeYear[p] = Year[g]}
        = {p \in pullMerged \ uncounted : pullUser[p] = u /\ MergeYear[p] = Year[g]}
    OBVIOUS
  <1>2. Contributed(u, g, pullMerged \ uncounted) = Contributed(u, g, pullMerged)
    BY <1>1 DEF Contributed
  <1>3. PICK h \in Handlers : Serves(h, u, g)
    BY <1>2 DEF QualifiedAreServed, Waits
  <1>4. hand[h].at \in {"idle", "done", "failed"}
    BY DEF Quiet
  <1>5. QED
    BY <1>3, <1>4 DEF Serves, Recorded, Handled

\* However the handlers overlap, everybody who has contributed enough to a live GitPOAP has a
\* claim for it once the handlers are done: in createClaimsForPR and its relatives the
\* record of a contribution comes before the count, so of several handlers for one user the
\* last to record counts what all have recorded, and makes the claims.
THEOREM AllQualifiedHaveClaims == Spec => []QualifiedHaveClaims
  <1>1. Spec => []QualifiedAreServed
    BY ServedInit, ServedNext, HandsAlwaysFit, PTL DEF Spec
  <1>2. QED
    BY <1>1, ServedClaims, HandsAlwaysFit, PTL


-----------------------------------------------------------------------------
(* NewClaimsAreReported: a claim's row is never taken for another one.     *)

LEMMA RowFactsNext ==
    HandsFit' => (\A id \in RowIds : id \in Existing <=>
                     claims[id[1]] # NoClaim /\ id[2] = claims[id[1]].late)'
  <1>1. HandsFit => \A id \in RowIds : id \in Existing <=>
                       claims[id[1]] # NoClaim /\ id[2] = claims[id[1]].late
    BY RowFacts
  <1>2. QED
    BY <1>1, PTL

\* What becomes of a claim in a step: it is made, late or not; it is deleted as the GitPOAP
\* closes; it keeps its row and its mention; and only the backload changes its PR.
ClaimMoves(k) ==
    /\ claims[k] # NoClaim /\ claims'[k] # NoClaim =>
          /\ claims'[k].late = claims[k].late /\ claims'[k].mention = claims[k].mention
          /\ \/ claims'[k].pull = claims[k].pull
             \/ \E h \in Handlers : <<k, claims[k].late>> \in hand[h].bare
    /\ claims[k] = NoClaim /\ claims'[k] # NoClaim => (claims'[k].late <=> gitPOAPs[k[1]] = "closed")
    /\ claims[k] # NoClaim /\ claims'[k] = NoClaim => gitPOAPs[k[1]] # "closed" /\ gitPOAPs'[k[1]] = "closed"

LEMMA UpsertMoves ==
    ASSUME HandsFit, NEW k \in Keys, NEW new \in Claim, NEW c \in Claim,
           c = IF claims[k] = NoClaim THEN new ELSE claims[k],
           claims' = [claims EXCEPT ![k] = c], new.late <=> gitPOAPs[k[1]] = "closed"
    PROVE  \A q \in Keys : ClaimMoves(q)
  <1>1. claims'[k] = c /\ c # NoClaim /\ \A q \in Keys \ {k} : claims'[q] = claims[q]
    BY ContributionsAssumption DEF HandsFit, TypeOK
  <1>2. ASSUME NEW q \in Keys PROVE ClaimMoves(q)
    <2>1. CASE q # k
      BY <1>1, <2>1 DEF ClaimMoves
    <2>2. CASE q = k /\ claims[k] = NoClaim
      BY <1>1, <2>2 DEF ClaimMoves
    <2>3. CASE q = k /\ claims[k] # NoClaim
      BY <1>1, <2>3 DEF ClaimMoves
    <2>4. QED
      BY <2>1, <2>2, <2>3
  <1>3. QED
    BY <1>2

LEMMA ClaimsMove ==
    ASSUME HandsFit, [Next]_vars
    PROVE  /\ \A g \in GitPOAPs : gitPOAPs[g] = "closed" => gitPOAPs'[g] = "closed"
           /\ \A k \in Keys : ClaimMoves(k)
  <1>1. CASE UNCHANGED claims /\ UNCHANGED gitPOAPs
    BY <1>1 DEF ClaimMoves
  <1>2. CASE \/ \E p \in Pulls : Merge(p)
             \/ \E g \in GitPOAPs : CreateGitPOAP(g) \/ Deprecate(g)
    BY <1>2, OthersFacts DEF ClaimMoves
  <1>3. ASSUME NEW g \in GitPOAPs, DeleteClaims(g)
        PROVE  /\ \A o \in GitPOAPs : gitPOAPs[o] = "closed" => gitPOAPs'[o] = "closed"
               /\ \A k \in Keys : ClaimMoves(k)
    <2>1. gitPOAPs[g] = "deprecated"
      BY <1>3 DEF DeleteClaims
    <2>2. QED
      BY <1>3, <2>1, DeleteFacts DEF ClaimMoves
  <1>4. ASSUME NEW k \in Keys, Mint(k)
        PROVE  UNCHANGED gitPOAPs /\ \A q \in Keys : ClaimMoves(q)
    <2>1. PICK c \in Claim : /\ claims' = [claims EXCEPT ![k] = c]
                             /\ c.pull = claims[k].pull /\ c.mention = claims[k].mention
                             /\ c.late = claims[k].late /\ claims[k] # NoClaim
      BY <1>4, MintFacts
    <2>2. claims'[k] = c /\ c # NoClaim /\ \A q \in Keys \ {k} : claims'[q] = claims[q]
      BY <2>1, ContributionsAssumption DEF HandsFit, TypeOK
    <2>3. ASSUME NEW q \in Keys PROVE ClaimMoves(q)
      BY <2>1, <2>2 DEF ClaimMoves
    <2>4. QED
      BY <1>4, <2>3 DEF Mint
  <1>5. ASSUME NEW h \in Handlers, Start(h) \/ HandlerStep(h)
        PROVE  UNCHANGED gitPOAPs /\ \A k \in Keys : ClaimMoves(k)
    <2>1. UNCHANGED gitPOAPs
      BY <1>5 DEF HandlerStep, Start, ReadRepo, SkipUser, Fetch, FetchFails, RecordPull, RecordMention,
                  CountMentions, CountPulls, MakeClaim, EndUser, SetEarned, Retrieve, Reply, ReadGitPOAP,
                  GiveClaim, SkipGift
    <2>2. CASE UNCHANGED claims
      BY <2>1, <2>2 DEF ClaimMoves
    <2>3. CASE MakeClaim(h)
      <3>1. PICK g \in GitPOAPs, k \in Keys, r \in Hand, new \in Claim, c \in Claim :
              /\ g \in hand[h].due /\ k = <<g, User(h)>> /\ Fresh(h, g, new)
              /\ c = IF claims[k] = NoClaim THEN new ELSE claims[k]
              /\ claims' = [claims EXCEPT ![k] = c]
              /\ hand' = [hand EXCEPT ![h] = r]
              /\ Made(h, g, k, c, r)
        BY <2>3, MakeClaimRecord
      <3>2. new.late <=> gitPOAPs[k[1]] = "closed"
        BY <3>1 DEF Fresh
      <3>3. QED
        BY <2>1, <3>1, <3>2, UpsertMoves
    <2>4. CASE GiveClaim(h)
      <3>1. PICK k \in Keys, new \in Claim, c \in Claim :
              /\ k = <<Item(h), User(h)>>
              /\ new.pull = NoItem /\ new.mention = NoItem /\ (new.late <=> gitPOAPs[k[1]] = "closed")
              /\ c = IF claims[k] = NoClaim THEN new ELSE claims[k]
              /\ claims' = [claims EXCEPT ![k] = c]
        BY <2>4, GiveRecord
      <3>2. QED
        BY <2>1, <3>1, UpsertMoves
    <2>5. CASE SetEarned(h) /\ ~ UNCHANGED claims
      <3>1. PICK k \in Keys, c \in Claim, bare \in SUBSET RowIds :
                 /\ claims[k] # NoClaim
                 /\ c.pull = Item(h) /\ c.mention = claims[k].mention
                 /\ c.late = claims[k].late /\ c.status = claims[k].status
                 /\ claims' = [claims EXCEPT ![k] = c]
                 /\ <<k, c.late>> \in hand[h].bare
                 /\ bare \subseteq hand[h].bare
                 /\ \/ Finish(h, "done")
                    \/ \E r \in Hand : /\ hand' = [hand EXCEPT ![h] = r] /\ r.bare = bare
                                       /\ r.at = "earn" /\ r.call = hand[h].call /\ r.todo = hand[h].todo
                                       /\ r.before = hand[h].before /\ r.made = hand[h].made
                                       /\ r.told = hand[h].told /\ r.replied = hand[h].replied
        BY <2>5, SetEarnedRecord
      <3>2. claims'[k] = c /\ c # NoClaim /\ \A q \in Keys \ {k} : claims'[q] = claims[q]
        BY <3>1, ContributionsAssumption DEF HandsFit, TypeOK
      <3>3. ASSUME NEW q \in Keys PROVE ClaimMoves(q)
        BY <3>1, <3>2 DEF ClaimMoves
      <3>4. QED
        BY <2>1, <3>3
    <2>6. QED
      <3>1. \/ UNCHANGED claims \/ MakeClaim(h) \/ GiveClaim(h) \/ SetEarned(h)
        BY <1>5 DEF HandlerStep, Start, ReadRepo, SkipUser, Fetch, FetchFails, RecordPull, RecordMention,
                    CountMentions, CountPulls, EndUser, Retrieve, Reply, ReadGitPOAP, SkipGift
      <3>2. QED
        BY <2>2, <2>3, <2>4, <2>5, <3>1
  <1>6. CASE UNCHANGED vars
    BY <1>1, <1>6 DEF vars
  <1>7. QED
    BY <1>2, <1>3, <1>4, <1>5, <1>6 DEF Next

\* A row that is known remains so, and if it exists then it has existed before.
LEMMA KnownStays ==
    ASSUME HandsFit, HandsFit', [Next]_vars, RowsAreKnown, NEW id \in RowIds, RowKnown(id)
    PROVE  /\ RowKnown(id)'
           /\ id \in Existing' => /\ id \in Existing
                                  /\ claims'[id[1]].mention = claims[id[1]].mention
                                  /\ \/ claims'[id[1]].pull = claims[id[1]].pull
                                     \/ \E h \in Handlers : id \in hand[h].bare
  <1>1. PICK k \in Keys, b \in BOOLEAN : id = <<k, b>>
    BY DEF RowIds
  <1>2. id[1] = k /\ id[2] = b /\ k[1] \in GitPOAPs
    BY <1>1 DEF Keys
  <1>3. /\ id \in Existing <=> claims[k] # NoClaim /\ b = claims[k].late
        /\ id \in Existing' <=> claims'[k] # NoClaim /\ b = claims'[k].late
    BY <1>2, RowFacts, RowFactsNext
  <1>4. /\ gitPOAPs[k[1]] = "closed" => gitPOAPs'[k[1]] = "closed"
        /\ ClaimMoves(k)
    BY <1>2, ClaimsMove
  <1>5. CASE id \in Existing
    <2>1. claims[k] # NoClaim /\ b = claims[k].late
      BY <1>3, <1>5
    <2>2. CASE claims'[k] # NoClaim
      <3>1. claims'[k].late = claims[k].late /\ claims'[k].mention = claims[k].mention
            /\ (claims'[k].pull = claims[k].pull \/ \E h \in Handlers : <<k, claims[k].late>> \in hand[h].bare)
        BY <1>4, <2>1, <2>2 DEF ClaimMoves
      <3>2. id \in Existing'
        BY <1>3, <2>1, <2>2, <3>1
      <3>3. QED
        BY <1>1, <1>2, <1>5, <2>1, <3>1, <3>2 DEF RowKnown
    <2>3. CASE claims'[k] = NoClaim
      <3>1. gitPOAPs[k[1]] # "closed" /\ gitPOAPs'[k[1]] = "closed"
        BY <1>4, <2>1, <2>3 DEF ClaimMoves
      <3>2. ~ b
        BY <2>1, <3>1 DEF RowsAreKnown
      <3>3. QED
        BY <1>2, <1>3, <2>3, <3>1, <3>2 DEF RowKnown
    <2>4. QED
      BY <2>2, <2>3
  <1>6. CASE id \notin Existing
    <2>1. ~ b /\ gitPOAPs[k[1]] = "closed"
      BY <1>2, <1>6 DEF RowKnown
    <2>2. id \notin Existing'
      <3>1. SUFFICES ASSUME claims'[k] # NoClaim, b = claims'[k].late PROVE FALSE
        BY <1>3
      <3>2. CASE claims[k] = NoClaim
        BY <1>4, <2>1, <3>1, <3>2 DEF ClaimMoves
      <3>3. CASE claims[k] # NoClaim
        BY <1>3, <1>4, <1>6, <3>1, <3>3 DEF ClaimMoves
      <3>4. QED
        BY <3>2, <3>3
    <2>3. QED
      BY <1>2, <1>4, <2>1, <2>2 DEF RowKnown
  <1>7. QED
    BY <1>5, <1>6


\* A step's handler knows no new rows, but those that it found at its start and those it has asked for.
Learns(h, r) ==
    /\ \/ r.before \subseteq hand[h].before
       \/ r.made = {} /\ r.before \subseteq Existing
    /\ \A id \in r.bare : \/ id \in hand[h].bare
                          \/ id \in Existing' /\ claims'[id[1]].pull = NoItem
    /\ \/ r.made = {}
       \/ /\ r.call = hand[h].call
          /\ \A id \in r.made : \/ id \in hand[h].made
                                \/ /\ id \in Existing' /\ claims[id[1]] = NoClaim
                                   /\ Kind(h) = "merged" => claims'[id[1]].pull = Item(h)
                                   /\ Kind(h) \in {"mention", "issue"} => claims'[id[1]].mention = Item(h)

LEMMA ReportMoved ==
    ASSUME HandsFit, HandsFit', [Next]_vars, ReportInv,
           NEW h \in Handlers, NEW r \in Hand, hand' = [hand EXCEPT ![h] = r], Learns(h, r),
           MergeSeen(h)', IsTold(h)'
    PROVE  ReportInv'
  <1>1. hand'[h] = r /\ \A o \in Handlers \ {h} : hand'[o] = hand[o]
    BY Moved
  <1>2. ASSUME NEW o \in Handlers
        PROVE  /\ hand[o].before \subseteq RowIds /\ hand[o].made \subseteq RowIds /\ hand[o].bare \subseteq RowIds
               /\ hand'[o].before \subseteq RowIds /\ hand'[o].made \subseteq RowIds /\ hand'[o].bare \subseteq RowIds
    <2>1. hand[o] \in Hand /\ hand'[o] \in Hand
      BY HandFacts, Moved
    <2>2. QED
      BY <2>1 DEF Hand
  \* The rows that somebody knows are still known, and those that exist have existed before.
  <1>3. ASSUME NEW o \in Handlers, NEW id \in hand[o].before \cup hand[o].made \cup hand[o].bare
        PROVE  /\ id \in RowIds /\ RowKnown(id)'
               /\ id \in Existing' => /\ id \in Existing
                                      /\ claims'[id[1]].mention = claims[id[1]].mention
                                      /\ \/ claims'[id[1]].pull = claims[id[1]].pull
                                         \/ \E q \in Handlers : id \in hand[q].bare
    <2>1. id \in RowIds
      BY <1>2
    <2>2. RowsAreKnown /\ RowKnown(id)
      BY DEF ReportInv, RowsAreKnown
    <2>3. QED
      BY <2>1, <2>2, KnownStays
  <1>4. ASSUME NEW id \in Existing PROVE RowKnown(id)'
    <2>1. RowsAreKnown /\ RowKnown(id) /\ id \in RowIds
      BY RowFacts DEF ReportInv, RowKnown
    <2>2. QED
      BY <2>1, KnownStays
  <1>5. ASSUME NEW id \in Existing' PROVE RowKnown(id)'
    BY DEF RowKnown
  <1>6. RowsAreKnown'
    <2>1. ASSUME NEW k \in Keys, claims'[k] # NoClaim, claims'[k].late PROVE gitPOAPs'[k[1]] = "closed"
      <3>1. ClaimMoves(k) /\ k[1] \in GitPOAPs /\ (gitPOAPs[k[1]] = "closed" => gitPOAPs'[k[1]] = "closed")
        BY ClaimsMove DEF Keys
      <3>2. claims[k] # NoClaim /\ claims[k].late => gitPOAPs[k[1]] = "closed"
        BY DEF ReportInv, RowsAreKnown
      <3>3. QED
        BY <2>1, <3>1, <3>2 DEF ClaimMoves
    <2>2. ASSUME NEW o \in Handlers, NEW id \in hand'[o].before \cup hand'[o].made \cup hand'[o].bare
          PROVE  RowKnown(id)'
      <3>1. CASE o # h
        BY <1>1, <1>3, <2>2, <3>1
      <3>2. CASE o = h
        <4>1. \/ id \in hand[h].before \cup hand[h].made \cup hand[h].bare
              \/ id \in Existing
              \/ id \in Existing'
          BY <1>1, <2>2, <3>2 DEF Learns
        <4>2. QED
          BY <1>3, <1>4, <1>5, <4>1
      <3>3. QED
        BY <3>1, <3>2
    <2>3. QED
      BY <2>1, <2>2 DEF RowsAreKnown
  \* A new row is in nobody's hands.
  <1>7. ASSUME NEW id, id \in Existing', claims[id[1]] = NoClaim, NEW o \in Handlers
        PROVE  id \notin hand[o].before /\ id \notin hand[o].bare
    <2>1. SUFFICES ASSUME id \in hand[o].before \cup hand[o].made \cup hand[o].bare PROVE FALSE
      OBVIOUS
    <2>2. id \in Existing /\ id \in RowIds
      BY <1>3, <1>7, <2>1
    <2>3. QED
      BY <1>7, <2>2, RowFacts
  <1>8. ASSUME NEW o \in Handlers PROVE NamesItem(o)'
    <2>1. SUFFICES ASSUME NEW id \in hand'[o].made, id \in Existing'
                   PROVE  /\ Kind(o)' = "merged" => /\ claims'[id[1]].pull = Item(o)' /\ id \notin hand'[o].before
                                                    /\ \A q \in Handlers : id \notin hand'[q].bare
                          /\ Kind(o)' \in {"mention", "issue"} => claims'[id[1]].mention = Item(o)'
      BY DEF NamesItem
    <2>2. Kind(o)' = Kind(o) /\ Item(o)' = Item(o)
          /\ (id \in hand[o].before \/ id \notin hand'[o].before)
      BY <1>1, <2>1 DEF Kind, Item, Learns
    <2>3. CASE id \in hand[o].made
      <3>1. id \in Existing /\ claims'[id[1]].mention = claims[id[1]].mention
            /\ (claims'[id[1]].pull = claims[id[1]].pull \/ \E q \in Handlers : id \in hand[q].bare)
        BY <1>3, <2>1, <2>3
      <3>2. /\ Kind(o) = "merged" => /\ claims[id[1]].pull = Item(o) /\ id \notin hand[o].before
                                     /\ \A q \in Handlers : id \notin hand[q].bare
            /\ Kind(o) \in {"mention", "issue"} => claims[id[1]].mention = Item(o)
        BY <2>3, <3>1 DEF ReportInv, NamesItem
      <3>3. Kind(o) = "merged" => Item(o) # NoItem
        <4>1. Kind(o) = "merged" => hand[o].at # "idle"
          BY <2>3 DEF ReportInv, IsTold
        <4>2. QED
          BY <4>1, ItemFacts, ContributionsAssumption DEF Items
      <3>4. ASSUME Kind(o) = "merged", NEW q \in Handlers PROVE id \notin hand'[q].bare
        BY <1>1, <3>1, <3>2, <3>3, <3>4 DEF Learns
      <3>5. QED
        BY <2>2, <3>1, <3>2, <3>4
    <2>4. CASE id \notin hand[o].made
      <3>1. o = h
        BY <1>1, <2>1, <2>4
      <3>2. /\ claims[id[1]] = NoClaim
            /\ Kind(h) = "merged" => claims'[id[1]].pull = Item(h)
            /\ Kind(h) \in {"mention", "issue"} => claims'[id[1]].mention = Item(h)
        BY <1>1, <2>1, <2>4, <3>1 DEF Learns
      <3>3. id \notin hand'[o].before /\ \A q \in Handlers : id \notin hand[q].bare
        BY <1>7, <2>1, <2>2, <3>2
      <3>4. Kind(h) = "merged" => Item(h) # NoItem
        <4>1. r.made # {} /\ r.call = hand[h].call
          BY <1>1, <2>1, <2>4, <3>1 DEF Learns
        <4>2. r.at # "idle"
          BY <1>1, <4>1 DEF IsTold
        <4>3. HandFits(h)'
          BY DEF HandsFit
        <4>4. r.call \in Calls
          BY <1>1, <4>2, <4>3 DEF HandFits
        <4>5. QED
          BY <4>1, <4>4, CallFacts, ContributionsAssumption DEF Kind, Item, Items
      <3>5. ASSUME Kind(h) = "merged", NEW q \in Handlers PROVE id \notin hand'[q].bare
        BY <1>1, <3>2, <3>3, <3>4, <3>5 DEF Learns
      <3>6. QED
        BY <2>2, <3>1, <3>2, <3>3, <3>5
    <2>5. QED
      BY <2>3, <2>4
  <1>9. ASSUME NEW o \in Handlers PROVE MergeSeen(o)'
    <2>1. CASE o = h
      BY <2>1
    <2>2. CASE o # h
      <3>1. hand'[o] = hand[o] /\ merged \subseteq merged' /\ Done \subseteq Done'
        BY <1>1, <2>2, RowsGrow
      <3>2. MergeSeen(o)
        BY DEF ReportInv
      <3>3. QED
        BY <3>1, <3>2 DEF MergeSeen, Kind, Item, Done
    <2>3. QED
      BY <2>1, <2>2
  <1>10. ASSUME NEW o \in Handlers PROVE IsTold(o)'
    <2>1. CASE o = h
      BY <2>1
    <2>2. CASE o # h
      <3>1. hand'[o] = hand[o] /\ unmerged \subseteq unmerged'
        BY <1>1, <2>2, RowsGrow
      <3>2. hand[o].made \cap Existing' \subseteq hand[o].made \cap Existing
        BY <1>3
      <3>3. IsTold(o)
        BY DEF ReportInv
      <3>4. Kind(o)' = Kind(o) /\ Item(o)' = Item(o) /\ User(o)' = User(o)
        BY <3>1 DEF Kind, Item, User
      <3>5. QED
        BY <3>1, <3>2, <3>3, <3>4 DEF IsTold
    <2>3. QED
      BY <2>1, <2>2
  <1>11. QED
    BY <1>6, <1>8, <1>9, <1>10 DEF ReportInv


LEMMA ToldStays ==
    ASSUME HandsFit, HandsFit', [Next]_vars, ReportInv, NEW h \in Handlers, hand'[h] = hand[h]
    PROVE  MergeSeen(h)' /\ IsTold(h)'
  <1>1. merged \subseteq merged' /\ Done \subseteq Done' /\ unmerged \subseteq unmerged'
    BY RowsGrow
  <1>2. Kind(h)' = Kind(h) /\ Item(h)' = Item(h) /\ User(h)' = User(h)
    BY DEF Kind, Item, User
  <1>3. MergeSeen(h) /\ IsTold(h) /\ RowsAreKnown
    BY DEF ReportInv
  <1>4. ASSUME NEW id \in hand[h].made, id \in Existing' PROVE id \in Existing
    <2>1. id \in RowIds /\ RowKnown(id)
      BY <1>3, HandFacts DEF Hand, RowsAreKnown
    <2>2. QED
      BY <1>3, <1>4, <2>1, KnownStays
  <1>5. MergeSeen(h)'
    BY <1>1, <1>2, <1>3 DEF MergeSeen, Done
  <1>6. IsTold(h)'
    BY <1>1, <1>2, <1>3, <1>4 DEF IsTold
  <1>7. QED
    BY <1>5, <1>6

LEMMA ReportStill ==
    ASSUME HandsFit, HandsFit', [Next]_vars, ReportInv, UNCHANGED hand
    PROVE  ReportInv'
  <1>1. CASE Handlers = {}
    <2>1. ASSUME NEW k \in Keys, claims'[k] # NoClaim, claims'[k].late PROVE gitPOAPs'[k[1]] = "closed"
      <3>1. ClaimMoves(k) /\ k[1] \in GitPOAPs /\ (gitPOAPs[k[1]] = "closed" => gitPOAPs'[k[1]] = "closed")
        BY ClaimsMove DEF Keys
      <3>2. claims[k] # NoClaim /\ claims[k].late => gitPOAPs[k[1]] = "closed"
        BY DEF ReportInv, RowsAreKnown
      <3>3. QED
        BY <2>1, <3>1, <3>2 DEF ClaimMoves
    <2>2. QED
      BY <1>1, <2>1 DEF ReportInv, RowsAreKnown
  <1>2. ASSUME NEW h \in Handlers PROVE ReportInv'
    <2>1. PICK r \in Hand : r = hand[h]
      BY HandFacts
    <2>2. hand' = [hand EXCEPT ![h] = r]
      BY <2>1, HandFacts
    <2>3. Learns(h, r)
      BY <2>1 DEF Learns
    <2>4. MergeSeen(h)' /\ IsTold(h)'
      BY ToldStays
    <2>5. QED
      BY <2>2, <2>3, <2>4, ReportMoved
  <1>3. QED
    BY <1>1, <1>2

\* A step that makes nothing, of a call whose user will not be told, or told already.
Keeps(r, q) ==
    /\ r.call = q.call /\ r.made = q.made /\ r.before \subseteq q.before /\ r.bare \subseteq q.bare
    /\ r.at # "idle" /\ q.at # "idle"

LEMMA UntoldReport ==
    ASSUME HandsFit, HandsFit', [Next]_vars, ReportInv, NEW h \in Handlers, NEW r \in Hand,
           hand' = [hand EXCEPT ![h] = r], Keeps(r, hand[h]), Kind(h) \notin BotKinds
    PROVE  ReportInv'
  <1>1. hand'[h] = r /\ Kind(h)' = Kind(h)
    BY Moved DEF Kind, Keeps
  <1>2. Learns(h, r)
    BY DEF Learns, Keeps
  <1>3. MergeSeen(h)' /\ IsTold(h)'
    BY <1>1 DEF MergeSeen, IsTold, Keeps, BotKinds
  <1>4. QED
    BY <1>2, <1>3, ReportMoved

\* A handler that goes on with its user.
LEMMA OnwardReport ==
    ASSUME HandsFit, HandsFit', [Next]_vars, ReportInv, NEW h \in Handlers, NEW r \in Hand,
           hand' = [hand EXCEPT ![h] = r], Keeps(r, hand[h]), r.told = hand[h].told, r.todo = hand[h].todo,
           r.at \in {"read", "fetch", "record"} \cup Recorded,
           hand[h].at \in {"read", "fetch", "record"} \cup Recorded,
           hand[h].at \in Handled => r.at \in Handled,
           Kind(h) = "merged" /\ r.at = "record" => r.merged,
           Kind(h) = "merged" /\ r.at \in Handled => Item(h) \in Done'
    PROVE  ReportInv'
  <1>1. hand'[h] = r /\ Kind(h)' = Kind(h) /\ Item(h)' = Item(h) /\ User(h)' = User(h)
    BY Moved DEF Kind, Item, User, Keeps
  <1>2. Learns(h, r)
    BY DEF Learns, Keeps
  <1>3. MergeSeen(h) /\ IsTold(h) /\ merged \subseteq merged' /\ Done \subseteq Done'
    BY RowsGrow DEF ReportInv
  <1>4. MergeSeen(h)'
    BY <1>1, <1>3 DEF MergeSeen, Keeps, Done
  <1>5. IsTold(h)'
    BY <1>1, <1>3 DEF IsTold, Keeps, Recorded, Handled
  <1>6. QED
    BY <1>2, <1>4, <1>5, ReportMoved

\* A handler that has ended without a reply of its own, or replied.
LEMMA FinishReport ==
    ASSUME HandsFit, HandsFit', [Next]_vars, ReportInv, NEW h \in Handlers, hand[h].at # "idle",
           NEW step \in {"done", "failed"}, Finish(h, step), UNCHANGED claims,
           \/ step = "failed"
           \/ Kind(h) \notin BotKinds
           \/ hand[h].at = "retrieve" /\ hand[h].told = {}
    PROVE  ReportInv'
  <1>1. PICK r \in Hand : hand' = [hand EXCEPT ![h] = r] /\ Over(r, hand[h], step)
    BY FinishRecord
  <1>2. hand'[h] = r /\ Kind(h)' = Kind(h) /\ Item(h)' = Item(h)
    BY <1>1, Moved DEF Kind, Item, Over
  <1>3. Learns(h, r)
    BY <1>1 DEF Learns, Over
  <1>4. MergeSeen(h) /\ IsTold(h) /\ merged \subseteq merged' /\ Done \subseteq Done' /\ unmerged \subseteq unmerged'
    BY RowsGrow DEF ReportInv
  <1>5. MergeSeen(h)'
    BY <1>1, <1>2, <1>4 DEF MergeSeen, Done, Over, Handled
  <1>6. Existing' = Existing
    BY DEF Existing, RowId
  <1>7. IsTold(h)'
    <2>1. CASE Kind(h) \notin BotKinds \/ step = "failed"
      BY <1>1, <1>2, <2>1 DEF IsTold, Over, Recorded, Handled
    <2>2. CASE hand[h].at = "retrieve" /\ hand[h].told = {}
      BY <1>1, <1>2, <1>4, <1>6, <2>2 DEF IsTold, Over, Recorded, Handled
    <2>3. QED
      BY <2>1, <2>2
  <1>8. QED
    BY <1>1, <1>3, <1>5, <1>7, ReportMoved

\* A handler that turns to its next user has told of all that it made.
LEMMA NextUserReport ==
    ASSUME HandsFit, HandsFit', [Next]_vars, ReportInv, NEW h \in Handlers,
           hand[h].at \in {"read", "count"}, hand[h].todo # <<>>,
           NEW told \in SUBSET Users, NextUser(h, told), hand[h].told \subseteq told,
           hand[h].at = "count" => User(h) \in told, Kind(h) \in BotKinds
    PROVE  ReportInv'
  <1>1. PICK r \in Hand :
              /\ hand' = [hand EXCEPT ![h] = r]
              /\ r.at \in {"read", "retrieve"} /\ (r.at = "read" => r.todo # <<>>)
              /\ r.year = 0 /\ r.told = told
              /\ r.call = hand[h].call /\ r.before = hand[h].before /\ r.bare = hand[h].bare
              /\ r.made = hand[h].made /\ r.replied = hand[h].replied
    BY NextUserRecord
  <1>2. hand'[h] = r /\ Kind(h)' = Kind(h) /\ Item(h)' = Item(h)
    BY <1>1, Moved DEF Kind, Item
  <1>3. Learns(h, r)
    BY <1>1 DEF Learns
  <1>4. MergeSeen(h) /\ IsTold(h) /\ merged \subseteq merged' /\ Done \subseteq Done'
    BY RowsGrow DEF ReportInv
  <1>5. MergeSeen(h)'
    BY <1>1, <1>2, <1>4 DEF MergeSeen, Done, Handled
  <1>6. \A id \in hand[h].made : id[1][2] \in told
    BY <1>4 DEF IsTold, Recorded, Handled
  <1>7. IsTold(h)'
    BY <1>1, <1>2, <1>6 DEF IsTold, Recorded, Handled
  <1>8. QED
    BY <1>1, <1>3, <1>5, <1>7, ReportMoved


LEMMA UntoldFinish ==
    ASSUME HandsFit, HandsFit', [Next]_vars, ReportInv, NEW h \in Handlers, hand[h].at # "idle",
           NEW step \in {"done", "failed"}, Finish(h, step), Kind(h) \notin BotKinds
    PROVE  ReportInv'
  <1>1. PICK r \in Hand : hand' = [hand EXCEPT ![h] = r] /\ Over(r, hand[h], step)
    BY FinishRecord
  <1>2. Keeps(r, hand[h])
    BY <1>1 DEF Keeps, Over
  <1>3. QED
    BY <1>1, <1>2, UntoldReport

\* The claims that h's call has made for a user are among those looked up for the user's part of
\* the reply: they name the PR, or the mention.
LEMMA LookedUp ==
    ASSUME HandsFit, ReportInv, NEW h \in Handlers, hand[h].at = "retrieve",
           NEW u \in hand[h].told, Kind(h) = "merged" => Item(h) \notin unmerged,
           NEW id \in hand[h].made \cap Existing, id[1][2] = u
    PROVE  id \in (IF Kind(h) = "merged" THEN CreatedByPR(Item(h), hand[h].before)
                   ELSE CreatedByMention(u, Item(h)))
  <1>1. NamesItem(h) /\ MergeSeen(h) /\ Kind(h) \in {"merged", "mention", "issue"}
    BY HandFacts DEF ReportInv, HandFits, BotKinds
  <1>2. CASE Kind(h) = "merged"
    <2>1. Item(h) \in pullMerged /\ claims[id[1]].pull = Item(h) /\ id \notin hand[h].before
      BY <1>1, <1>2 DEF NamesItem, MergeSeen
    <2>2. QED
      BY <1>2, <2>1 DEF CreatedByPR
  <1>3. CASE Kind(h) # "merged"
    <2>1. claims[id[1]].mention = Item(h)
      BY <1>1, <1>3 DEF NamesItem
    <2>2. QED
      BY <1>3, <2>1 DEF CreatedByMention
  <1>4. QED
    BY <1>2, <1>3

LEMMA ReportStep ==
    ASSUME HandsFit, HandsFit', [Next]_vars, ReportInv, NEW h \in Handlers, Start(h) \/ HandlerStep(h)
    PROVE  ReportInv'
  <1>0. HandFits(h) /\ hand[h] \in Hand /\ MergeSeen(h) /\ IsTold(h) /\ NamesItem(h) /\ RowsAreKnown
    BY HandFacts DEF ReportInv
  <1>1. CASE Start(h)
    <2>1. PICK c \in Calls, r \in Hand :
              /\ hand' = [hand EXCEPT ![h] = r]
              /\ r.at = "read" /\ r.call = c /\ r.todo = c.users
              /\ r.before \subseteq Existing /\ r.seen = {} /\ r.year = 0 /\ r.due = {} /\ r.bare = {}
              /\ r.made = {} /\ r.told = {} /\ r.replied = {}
              /\ c.kind = "merged" => c.item \in merged
      BY <1>1, StartRecord
    <2>2. hand'[h] = r /\ merged' = merged
      BY <1>1, <2>1, Moved DEF Start
    <2>3. Learns(h, r)
      BY <2>1 DEF Learns
    <2>4. MergeSeen(h)' /\ IsTold(h)'
      BY <2>1, <2>2 DEF MergeSeen, IsTold, Kind, Item, Recorded, Handled
    <2>5. QED
      BY <2>1, <2>3, <2>4, ReportMoved
  <1>2. CASE ReadRepo(h)
    <2>1. PICK r \in Hand : /\ hand' = [hand EXCEPT ![h] = r] /\ SameUser(r, hand[h])
                            /\ r.at \in {"done", "fetch"}
                            /\ r.at = "done" => Kind(h) \in {"updater", "backload"}
                            /\ r.seen = Found(Kind(h)) /\ r.year = hand[h].year
      BY <1>2, ReadRepoRecord
    <2>2. hand[h].at = "read"
      BY <1>2 DEF ReadRepo
    <2>3. Keeps(r, hand[h])
      BY <2>1, <2>2 DEF Keeps, SameUser
    <2>4. CASE r.at = "done"
      BY <2>1, <2>3, <2>4, UntoldReport DEF BotKinds
    <2>5. CASE r.at = "fetch"
      BY <2>1, <2>2, <2>3, <2>5, OnwardReport DEF SameUser, Recorded, Handled
    <2>6. QED
      BY <2>1, <2>4, <2>5
  <1>3. CASE SkipUser(h)
    <2>1. hand[h].told \in SUBSET Users /\ hand[h].todo # <<>>
      BY <1>0, <1>3, AtWork DEF Hand, SkipUser
    <2>2. QED
      BY <1>3, <2>1, NextUserReport DEF SkipUser
  <1>4. CASE Fetch(h)
    <2>1. CASE Kind(h) = "backload" /\ Finish(h, "done")
      BY <1>4, <2>1, UntoldFinish DEF Fetch, BotKinds
    <2>2. CASE ~ (Kind(h) = "backload" /\ Finish(h, "done"))
      <3>1. PICK r \in Hand : /\ hand' = [hand EXCEPT ![h] = r] /\ SameUser(r, hand[h])
                              /\ r.at = IF Kind(h) = "issue" THEN "mention" ELSE "record"
                              /\ r.seen = hand[h].seen /\ r.year = hand[h].year
                              /\ r.merged <=> Item(h) \in merged
        BY <1>4, <2>2, FetchRecord
      <3>2. hand[h].at = "fetch"
        BY <1>4 DEF Fetch
      <3>3. Keeps(r, hand[h])
        BY <3>1, <3>2 DEF Keeps, SameUser
      <3>4. Kind(h) = "merged" => r.merged
        BY <1>0, <3>1, <3>2 DEF MergeSeen
      <3>5. r.at \in {"record", "mention"}
        BY <3>1
      <3>6. QED
        BY <3>1, <3>2, <3>3, <3>4, <3>5, OnwardReport DEF SameUser, Recorded, Handled
    <2>3. QED
      BY <2>1, <2>2
  <1>5. CASE FetchFails(h)
    BY <1>5, FinishReport DEF FetchFails
  <1>6. CASE RecordPull(h)
    <2>1. hand[h].at = "record" /\ UNCHANGED claims
      BY <1>6 DEF RecordPull
    <2>2. CASE Kind(h) = "updater" /\ Finish(h, "done")
      BY <2>1, <2>2, UntoldFinish DEF BotKinds
    <2>3. ASSUME NEW step \in {"mention", "count"}, Goto(h, step), step = "mention" => Kind(h) = "mention"
          PROVE  ReportInv'
      <3>1. PICK r \in Hand : hand' = [hand EXCEPT ![h] = r] /\ r.at = step /\ Same(r, hand[h])
        BY <2>3, GotoRecord DEF Steps
      <3>2. Keeps(r, hand[h])
        BY <2>1, <3>1 DEF Keeps, Same
      <3>3. Kind(h) = "merged" => Item(h) \in Done'
        BY <1>0, <1>6, <2>1 DEF MergeSeen, RecordPull, Done
      <3>4. QED
        BY <2>1, <3>1, <3>2, <3>3, OnwardReport DEF Same, Recorded, Handled
    <2>4. QED
      BY <1>6, <2>2, <2>3, RecordPullHand
  <1>7. CASE RecordMention(h)
    <2>1. hand[h].at = "mention" /\ Goto(h, "count") /\ Kind(h) \in {"mention", "issue"}
      BY <1>0, <1>7 DEF RecordMention, HandFits
    <2>2. PICK r \in Hand : hand' = [hand EXCEPT ![h] = r] /\ r.at = "count" /\ Same(r, hand[h])
      BY <2>1, GotoRecord DEF Steps
    <2>3. Keeps(r, hand[h])
      BY <2>1, <2>2 DEF Keeps, Same
    <2>4. QED
      BY <2>1, <2>2, <2>3, OnwardReport DEF Same, Recorded, Handled
  <1>8. CASE CountMentions(h) \/ CountPulls(h)
    <2>1. hand[h].at \in {"count", "countPulls"} /\ UNCHANGED <<rows, history>>
      BY <1>8 DEF CountMentions, CountPulls
    <2>2. \E r \in Hand : /\ hand' = [hand EXCEPT ![h] = r] /\ SameUser(r, hand[h]) /\ r.at \in Handled
      <3>1. ASSUME NEW y \in Years, NEW n, Counted(h, y, n)
            PROVE  \E r \in Hand : /\ hand' = [hand EXCEPT ![h] = r] /\ SameUser(r, hand[h]) /\ r.at \in Handled
        <4>1. PICK r \in Hand : /\ hand' = [hand EXCEPT ![h] = r] /\ SameUser(r, hand[h])
                                /\ r.at = IF r.due = {} THEN "count" ELSE "claim"
                                /\ r.year = y /\ r.seen = hand[h].seen /\ r.due = Due(h, y, n)
          BY <3>1, CountedRecord
        <4>2. QED
          BY <4>1 DEF Handled
      <3>2. CASE CountMentions(h)
        <4>1. PICK y \in YearsLeft(h), first \in hand[h].seen :
              /\ \A later \in YearsLeft(h) : y <= later
              /\ Year[first] = y
              /\ \/ /\ first \in PRBased
                    /\ \E r \in Hand : /\ hand' = [hand EXCEPT ![h] = r] /\ SameUser(r, hand[h])
                                       /\ r.at = "countPulls" /\ r.year = y /\ r.seen = hand[h].seen
                                       /\ r.count = Cardinality(MentionsIn(User(h), y))
                 \/ first \notin PRBased /\ Counted(h, y, Cardinality(MentionsIn(User(h), y)))
          BY <3>2, CountMentionsRecord
        <4>2. y \in Years
          BY <1>0, <4>1, YearsAreNumbers DEF Hand
        <4>3. CASE Counted(h, y, Cardinality(MentionsIn(User(h), y)))
          BY <3>1, <4>2, <4>3
        <4>4. QED
          BY <4>1, <4>3 DEF Handled
      <3>3. CASE CountPulls(h)
        <4>1. PICK y \in Years : \E n : Counted(h, y, n)
          BY <1>0, <3>3 DEF CountPulls, Hand, HandFits
        <4>2. QED
          BY <3>1, <4>1
      <3>4. QED
        BY <1>8, <3>2, <3>3
    <2>3. PICK r \in Hand : /\ hand' = [hand EXCEPT ![h] = r] /\ SameUser(r, hand[h]) /\ r.at \in Handled
      BY <2>2
    <2>4. Keeps(r, hand[h])
      BY <2>1, <2>3 DEF Keeps, SameUser, Handled
    <2>5. Kind(h) = "merged" => Item(h) \in Done'
      BY <1>0, <2>1 DEF MergeSeen, Done, rows, history, Handled
    <2>6. QED
      BY <2>1, <2>3, <2>4, <2>5, OnwardReport DEF SameUser, Recorded, Handled
  <1>9. CASE MakeClaim(h)
    <2>1. PICK g \in GitPOAPs, k \in Keys, r \in Hand, new \in Claim, c \in Claim :
              /\ g \in hand[h].due /\ k = <<g, User(h)>> /\ Fresh(h, g, new)
              /\ c = IF claims[k] = NoClaim THEN new ELSE claims[k]
              /\ claims' = [claims EXCEPT ![k] = c]
              /\ hand' = [hand EXCEPT ![h] = r]
              /\ Made(h, g, k, c, r)
      BY <1>9, MakeClaimRecord
    <2>2. hand[h].at = "claim" /\ UNCHANGED <<merged, rows, history>>
      BY <1>9 DEF MakeClaim
    <2>3. claims'[k] = c /\ c # NoClaim
      BY <2>1, ContributionsAssumption DEF HandsFit, TypeOK
    <2>4. PICK id \in RowIds : id = <<k, c.late>> /\ id \in Existing'
      <3>1. PICK id \in RowIds : id = <<k, c.late>>
        BY DEF Claim, RowIds
      <3>2. id[1] = k /\ id[2] = c.late
        BY <3>1
      <3>3. QED
        BY <2>3, <3>1, <3>2, RowFactsNext
    <2>5. id[1] = k /\ k[2] = User(h)
      BY <2>1, <2>4
    <2>6. hand'[h] = r /\ Kind(h)' = Kind(h) /\ Item(h)' = Item(h) /\ User(h)' = User(h)
      BY <2>1, Moved DEF Made, Kind, Item, User
    <2>7. Learns(h, r)
      <3>1. r.before = hand[h].before /\ r.call = hand[h].call
        BY <2>1 DEF Made
      <3>2. ASSUME NEW o \in r.bare, o \notin hand[h].bare
            PROVE  o \in Existing' /\ claims'[o[1]].pull = NoItem
        <4>1. o = id /\ c.pull = NoItem
          BY <2>1, <2>4, <3>2 DEF Made
        <4>2. QED
          BY <2>3, <2>4, <2>5, <4>1
      <3>3. ASSUME NEW o \in r.made, o \notin hand[h].made
            PROVE  /\ o \in Existing' /\ claims[o[1]] = NoClaim
                   /\ Kind(h) = "merged" => claims'[o[1]].pull = Item(h)
                   /\ Kind(h) \in {"mention", "issue"} => claims'[o[1]].mention = Item(h)
        <4>1. o = id /\ claims[k] = NoClaim /\ c = new
          BY <2>1, <2>4, <3>3 DEF Made
        <4>2. QED
          BY <2>1, <2>3, <2>4, <2>5, <4>1 DEF Fresh
      <3>4. QED
        BY <3>1, <3>2, <3>3 DEF Learns
    <2>8. r.at \in {"count", "claim"} /\ r.told = hand[h].told
      BY <2>1 DEF Made
    <2>9. MergeSeen(h)'
      BY <1>0, <2>2, <2>6, <2>8 DEF MergeSeen, rows, history, Handled
    <2>10. \A o \in r.made : o \in hand[h].made \/ o[1][2] = User(h)
      BY <2>1, <2>4, <2>5 DEF Made
    <2>11. IsTold(h)'
      BY <1>0, <2>2, <2>6, <2>8, <2>10 DEF IsTold, Recorded, Handled
    <2>12. QED
      BY <2>1, <2>7, <2>9, <2>11, ReportMoved
  <1>10. CASE EndUser(h)
    <2>1. hand[h].at = "count" /\ hand[h].todo # <<>> /\ hand[h].told \cup {User(h)} \in SUBSET Users
      BY <1>0, <1>10, AtWork DEF EndUser, Recorded, Handled, Hand
    <2>2. CASE Kind(h) \in {"updater", "backload"} /\ Finish(h, "done")
      BY <2>1, <2>2, UntoldFinish DEF BotKinds
    <2>3. CASE Kind(h) = "backload" /\ Goto(h, "earn")
      <3>1. PICK r \in Hand : hand' = [hand EXCEPT ![h] = r] /\ r.at = "earn" /\ Same(r, hand[h])
        BY <2>3, GotoRecord DEF Steps
      <3>2. Keeps(r, hand[h])
        BY <2>1, <3>1 DEF Keeps, Same
      <3>3. QED
        BY <2>3, <3>1, <3>2, UntoldReport DEF BotKinds
    <2>4. CASE Kind(h) \in BotKinds /\ NextUser(h, hand[h].told \cup {User(h)})
      BY <2>1, <2>4, NextUserReport
    <2>5. QED
      BY <1>10, <2>2, <2>3, <2>4, EndUserHand
  <1>11. CASE SetEarned(h)
    <2>1. hand[h].at = "earn" /\ Kind(h) \notin BotKinds
      BY <1>0, <1>11 DEF SetEarned, HandFits, BotKinds
    <2>2. CASE Finish(h, "failed") \/ Finish(h, "done")
      BY <2>1, <2>2, UntoldFinish
    <2>3. CASE ~ (Finish(h, "failed") \/ Finish(h, "done"))
      <3>1. PICK k \in Keys, c \in Claim, bare \in SUBSET RowIds :
                 /\ claims[k] # NoClaim
                 /\ c.pull = Item(h) /\ c.mention = claims[k].mention
                 /\ c.late = claims[k].late /\ c.status = claims[k].status
                 /\ claims' = [claims EXCEPT ![k] = c]
                 /\ <<k, c.late>> \in hand[h].bare
                 /\ bare \subseteq hand[h].bare
                 /\ \/ Finish(h, "done")
                    \/ \E r \in Hand : /\ hand' = [hand EXCEPT ![h] = r] /\ r.bare = bare
                                       /\ r.at = "earn" /\ r.call = hand[h].call /\ r.todo = hand[h].todo
                                       /\ r.before = hand[h].before /\ r.made = hand[h].made
                                       /\ r.told = hand[h].told /\ r.replied = hand[h].replied
        BY <1>11, <2>3, SetEarnedRecord
      <3>2. PICK r \in Hand : /\ hand' = [hand EXCEPT ![h] = r] /\ r.bare = bare
                              /\ r.at = "earn" /\ r.call = hand[h].call /\ r.todo = hand[h].todo
                              /\ r.before = hand[h].before /\ r.made = hand[h].made
                              /\ r.told = hand[h].told /\ r.replied = hand[h].replied
        BY <2>3, <3>1
      <3>3. Keeps(r, hand[h])
        BY <2>1, <3>1, <3>2 DEF Keeps
      <3>4. QED
        BY <2>1, <3>2, <3>3, UntoldReport
    <2>4. QED
      BY <2>2, <2>3
  <1>12. CASE Retrieve(h)
    <2>1. PICK u \in hand[h].told, r \in Hand :
              /\ hand' = [hand EXCEPT ![h] = r] /\ r.at = "retrieve" /\ r.told = hand[h].told \ {u}
              /\ r.replied = hand[h].replied \cup
                               (IF Kind(h) = "merged" THEN CreatedByPR(Item(h), hand[h].before)
                                ELSE CreatedByMention(u, Item(h)))
              /\ r.call = hand[h].call /\ r.todo = hand[h].todo
              /\ r.before = hand[h].before /\ r.bare = hand[h].bare /\ r.made = hand[h].made
      BY <1>12, RetrieveRecord
    <2>2. hand[h].at = "retrieve" /\ UNCHANGED <<claims, rows, history, merged>>
      BY <1>12 DEF Retrieve
    <2>3. hand'[h] = r /\ Kind(h)' = Kind(h) /\ Item(h)' = Item(h)
      BY <2>1, Moved DEF Kind, Item
    <2>4. Learns(h, r)
      BY <2>1 DEF Learns
    <2>5. MergeSeen(h)'
      BY <1>0, <2>1, <2>2, <2>3 DEF MergeSeen, rows, history, Handled
    <2>6. Existing' = Existing /\ unmerged' = unmerged
      BY <2>2 DEF Existing, RowId, history
    <2>7. ASSUME Kind(h) = "merged" => Item(h) \notin unmerged, Kind(h) \in BotKinds,
                 NEW id \in hand[h].made \cap Existing
          PROVE  id \in r.replied \/ id[1][2] \in r.told
      <3>1. id \in hand[h].replied \/ id[1][2] \in hand[h].told
        BY <1>0, <2>2, <2>7 DEF IsTold
      <3>2. CASE id[1][2] = u
        BY <2>1, <2>2, <2>7, <3>2, LookedUp
      <3>3. CASE id[1][2] # u
        BY <2>1, <3>1, <3>3
      <3>4. QED
        BY <3>2, <3>3
    <2>8. IsTold(h)'
      BY <2>1, <2>3, <2>6, <2>7 DEF IsTold, Recorded, Handled
    <2>9. QED
      BY <2>1, <2>4, <2>5, <2>8, ReportMoved
  <1>13. CASE Reply(h)
    BY <1>13, FinishReport DEF Reply
  <1>14. CASE ReadGitPOAP(h)
    <2>1. hand[h].at = "read" /\ Kind(h) \notin BotKinds
      BY <1>14 DEF ReadGitPOAP, BotKinds
    <2>2. CASE Finish(h, "failed")
      BY <2>1, <2>2, UntoldFinish
    <2>3. CASE Goto(h, "give")
      <3>1. PICK r \in Hand : hand' = [hand EXCEPT ![h] = r] /\ r.at = "give" /\ Same(r, hand[h])
        BY <2>3, GotoRecord DEF Steps
      <3>2. Keeps(r, hand[h])
        BY <2>1, <3>1 DEF Keeps, Same
      <3>3. QED
        BY <2>1, <3>1, <3>2, UntoldReport
    <2>4. QED
      BY <1>14, <2>2, <2>3 DEF ReadGitPOAP
  <1>15. CASE GiveClaim(h) \/ SkipGift(h)
    <2>1. hand[h].at = "give" /\ Kind(h) \notin BotKinds /\ hand[h].todo # <<>> /\ NextGift(h)
      BY <1>0, <1>15, AtWork DEF GiveClaim, SkipGift, HandFits, BotKinds
    <2>2. CASE Finish(h, "done")
      BY <2>1, <2>2, UntoldFinish
    <2>3. CASE ~ Finish(h, "done")
      <3>1. PICK r \in Hand :
                 /\ hand' = [hand EXCEPT ![h] = r] /\ r.at = hand[h].at /\ r.todo # <<>>
                 /\ r.call = hand[h].call /\ r.before = hand[h].before /\ r.bare = hand[h].bare
                 /\ r.made = hand[h].made /\ r.told = hand[h].told /\ r.replied = hand[h].replied
                 /\ r.year = hand[h].year /\ r.seen = hand[h].seen
        BY <2>1, <2>3, NextGiftRecord
      <3>2. Keeps(r, hand[h])
        BY <2>1, <3>1 DEF Keeps
      <3>3. QED
        BY <2>1, <3>1, <3>2, UntoldReport
    <2>4. QED
      BY <2>2, <2>3
  <1>16. QED
    BY <1>1, <1>2, <1>3, <1>4, <1>5, <1>6, <1>7, <1>8, <1>9, <1>10, <1>11, <1>12, <1>13, <1>14,
       <1>15 DEF HandlerStep

LEMMA ReportNext == HandsFit /\ ReportInv /\ [Next]_vars => ReportInv'
  <1> SUFFICES ASSUME HandsFit, ReportInv, [Next]_vars PROVE ReportInv'
    OBVIOUS
  <1>0. HandsFit'
    BY NextFits
  <1>1. CASE UNCHANGED hand
    BY <1>0, <1>1, ReportStill
  <1>2. ASSUME NEW h \in Handlers, Start(h) \/ HandlerStep(h) PROVE ReportInv'
    BY <1>0, <1>2, ReportStep
  <1>3. QED
    BY <1>1, <1>2 DEF Next, Merge, CreateGitPOAP, Deprecate, DeleteClaims, Mint, vars

LEMMA ReportInit == Init => ReportInv
  <1> SUFFICES ASSUME Init PROVE ReportInv
    OBVIOUS
  <1>1. RowsAreKnown
    BY DEF Init, RowsAreKnown, Idle
  <1>2. ASSUME NEW h \in Handlers PROVE NamesItem(h) /\ MergeSeen(h) /\ IsTold(h)
    <2>1. hand[h] = Idle /\ Kind(h) = "staff"
      BY DEF Init, Kind, Idle, NoCall
    <2>2. hand[h].at = "idle" /\ hand[h].made = {}
      BY <2>1 DEF Idle
    <2>3. QED
      BY <2>1, <2>2 DEF NamesItem, MergeSeen, IsTold, BotKinds
  <1>3. QED
    BY <1>1, <1>2 DEF ReportInv

\* The reply to POST /claims/gitpoap-bot/create holds all claims that the call has made, unless
\* they were deleted meanwhile or the PR's merge date was overwritten before the reply:
\* retrieveClaimsCreatedByPR and ...ByMention find a claim by the PR or mention it names,
\* which no upsert and no backload of another call changes.
THEOREM AllNewClaimsAreReported == Spec => []NewClaimsAreReported
  <1>1. Spec => []ReportInv
    BY ReportInit, ReportNext, HandsAlwaysFit, PTL DEF Spec
  <1>2. ReportInv => NewClaimsAreReported
    <2>1. SUFFICES ASSUME ReportInv, NEW h \in Handlers, hand[h].at = "done", Kind(h) \in BotKinds,
                          Kind(h) = "merged" => Item(h) \notin unmerged
                   PROVE  hand[h].made \cap Existing \subseteq hand[h].replied
      BY DEF NewClaimsAreReported, Kind, Item
    <2>2. IsTold(h)
      BY <2>1 DEF ReportInv
    <2>3. QED
      BY <2>1, <2>2 DEF IsTold
  <1>3. QED
    BY <1>1, <1>2, PTL
=============================================================================
