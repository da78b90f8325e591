------------------------ MODULE OngoingIssuanceProofs ------------------------
(* Proofs about OngoingIssuance, for any pull requests, scans and page size. *)
EXTENDS OngoingIssuance, FiniteSetTheorems, TLAPS

-----------------------------------------------------------------------------
(* The list and its pages.                                                 *)

\* GitHub lists PRs in a strict total order, whichever direction is asked for.
LEMMA ListIsOrdered ==
    ASSUME TypeOK, NEW s \in Scanners
    PROVE  /\ \A p \in PRs : ~Before(s, p, p)
           /\ \A p, q \in PRs : p = q \/ Before(s, p, q) \/ Before(s, q, p)
           /\ \A p, q, r \in PRs : Before(s, p, q) /\ Before(s, q, r) => Before(s, p, r)
  <1>1. /\ \A p \in PRs : ~Older(p, p)
        /\ \A p, q \in PRs : p = q \/ Older(p, q) \/ Older(q, p)
        /\ \A p, q, r \in PRs : Older(p, q) /\ Older(q, r) => Older(p, r)
    <2>1. \A p \in PRs : p \in Int /\ pulls[p].updated \in Int
      BY OngoingIssuanceAssumption DEF TypeOK, Times
    <2>2. QED
      BY <2>1 DEF Older
  <1>2. QED
    BY <1>1 DEF Before

\* How many PRs are ahead of one is a number.
LEMMA AheadIsNat ==
    ASSUME NEW s, NEW p
    PROVE  /\ IsFiniteSet({q \in Listed : Before(s, q, p)})
           /\ Ahead(s, p) \in Nat
  <1>1. IsFiniteSet(Listed) /\ {q \in Listed : Before(s, q, p)} \in SUBSET Listed
    BY OngoingIssuanceAssumption, FS_Subset DEF Listed
  <1>2. QED
    BY <1>1, FS_Subset, FS_CardinalityType DEF Ahead

\* The PRs on a page, and their number.
LEMMA PageIsFinite ==
    ASSUME NEW s PROVE IsFiniteSet(OnPage(s)) /\ Cardinality(OnPage(s)) \in Nat
  <1>1. IsFiniteSet(Listed) /\ OnPage(s) \in SUBSET Listed
    BY OngoingIssuanceAssumption, FS_Subset DEF Listed, OnPage
  <1>2. QED
    BY <1>1, FS_Subset, FS_CardinalityType

\* Pages follow each other without a gap.
LEMMA PageBounds ==
    ASSUME NEW page \in Nat \ {0}
    PROVE  /\ page * PageSize \in Nat /\ (page - 1) * PageSize \in Nat
           /\ page * PageSize = (page - 1) * PageSize + PageSize
           /\ (page + 1 - 1) * PageSize = page * PageSize
           /\ page = 1 => (page - 1) * PageSize = 0
  BY OngoingIssuanceAssumption

\* The number of PRs ahead tells the listed PRs apart and takes every value below theirs.
LEMMA PlacesAreTaken ==
    ASSUME TypeOK, NEW s \in Scanners, NEW p \in Listed, NEW n \in Nat, n =< Ahead(s, p)
    PROVE  /\ \A q, r \in Listed : Ahead(s, q) = Ahead(s, r) => q = r
           /\ \E q \in Listed : Ahead(s, q) = n
  <1> DEFINE size == Cardinality(Listed)
             Front(q) == {r \in Listed : Before(s, r, q)}
             place == [q \in Listed |-> Ahead(s, q)]
  <1>1. IsFiniteSet(Listed) /\ size \in Nat /\ Listed \subseteq PRs
    BY OngoingIssuanceAssumption, FS_Subset, FS_CardinalityType DEF Listed
  <1>2. \A q \in Listed : /\ Front(q) \in SUBSET Listed /\ IsFiniteSet(Front(q))
                          /\ Ahead(s, q) = Cardinality(Front(q)) /\ Ahead(s, q) \in Nat
    BY AheadIsNat DEF Ahead
  <1>3. \A q \in Listed : Ahead(s, q) \in 0 .. size - 1
    <2>1. TAKE q \in Listed
    <2>2. q \in Listed \ Front(q)
      BY <1>1, ListIsOrdered
    <2>3. Cardinality(Front(q)) =< size /\ (size = Cardinality(Front(q)) => Listed = Front(q))
      BY <1>1, <1>2, FS_Subset
    <2>4. QED
      BY <1>1, <1>2, <2>2, <2>3
  <1>4. ASSUME NEW q \in Listed, NEW r \in Listed, Before(s, q, r) PROVE Ahead(s, q) < Ahead(s, r)
    <2>1. Front(q) \in SUBSET Front(r)
      BY <1>1, <1>4, ListIsOrdered
    <2>2. q \in Front(r) \ Front(q)
      BY <1>1, <1>4, ListIsOrdered
    <2>3. Cardinality(Front(q)) =< Cardinality(Front(r))
          /\ (Cardinality(Front(r)) = Cardinality(Front(q)) => Front(r) = Front(q))
      BY <1>2, <2>1, FS_Subset
    <2>4. QED
      BY <1>2, <2>2, <2>3
  <1>5. \A q, r \in Listed : Ahead(s, q) = Ahead(s, r) => q = r
    <2>1. SUFFICES ASSUME NEW q \in Listed, NEW r \in Listed, q # r PROVE Ahead(s, q) # Ahead(s, r)
      OBVIOUS
    <2>2. Before(s, q, r) \/ Before(s, r, q)
      BY <1>1, <2>1, ListIsOrdered
    <2>3. Ahead(s, q) \in Nat /\ Ahead(s, r) \in Nat
      BY <1>2
    <2>4. QED
      BY <1>4, <2>2, <2>3
  <1> HIDE DEF size
  <1>6. place \in Injection(Listed, 0 .. size - 1)
    BY <1>3, <1>5 DEF Injection, IsInjective
  <1>7. IsFiniteSet(0 .. size - 1) /\ Cardinality(0 .. size - 1) = size
    <2>1. size \in Nat /\ 0 \in Int /\ size - 1 \in Int /\ (0 > size - 1 <=> size = 0)
      BY <1>1
    <2>2. Cardinality(0 .. size - 1) = IF 0 > size - 1 THEN 0 ELSE size - 1 - 0 + 1
      BY <2>1, FS_Interval
    <2>3. QED
      BY <2>1, <2>2, FS_Interval
  <1>8. place \in Surjection(Listed, 0 .. size - 1)
    BY <1>6, <1>7, FS_Injection DEF size
  <1>9. n \in 0 .. size - 1
    BY <1>1, <1>3
  <1>10. QED
    BY <1>5, <1>8, <1>9 DEF Surjection


\* A page before the page of a listed PR is full.
LEMMA PageFills ==
    ASSUME TypeOK, NEW s \in Scanners, NEW p \in Listed, scan[s].page * PageSize =< Ahead(s, p)
    PROVE  Cardinality(OnPage(s)) = PageSize
  <1>1. PICK page \in Nat \ {0} : page = scan[s].page
    BY DEF TypeOK, ScanType
  <1>2. PICK first \in Nat : first = (page - 1) * PageSize /\ page * PageSize = first + PageSize
    BY <1>1, PageBounds
  <1> DEFINE places == first .. first + PageSize - 1
             place == [q \in OnPage(s) |-> Ahead(s, q)]
  <1>3. \A q \in Listed : Ahead(s, q) \in Nat /\ (q \in OnPage(s) <=> Ahead(s, q) \in places)
    <2>1. TAKE q \in Listed
    <2>2. PICK n \in Nat : n = Ahead(s, q)
      BY AheadIsNat
    <2>3. q \in OnPage(s) <=> first =< n /\ n < first + PageSize
      BY <1>1, <1>2, <2>2 DEF OnPage
    <2>4. PageSize \in Nat
      BY OngoingIssuanceAssumption
    <2>5. QED
      BY <2>2, <2>3, <2>4
  <1>4. PageSize \in Nat \ {0} /\ OnPage(s) \subseteq Listed
    BY OngoingIssuanceAssumption DEF OnPage
  <1>5. ASSUME NEW n \in places PROVE \E q \in OnPage(s) : place[q] = n
    <2>1. n \in Nat /\ n =< Ahead(s, p)
      BY <1>1, <1>2, <1>3, <1>4
    <2>2. QED
      BY <1>3, <2>1, PlacesAreTaken
  <1>6. \A q, r \in OnPage(s) : place[q] = place[r] => q = r
    <2>1. 0 \in Nat /\ 0 =< Ahead(s, p)
      BY <1>3
    <2>2. QED
      BY <1>4, <2>1, PlacesAreTaken
  <1>7. place \in Bijection(OnPage(s), places)
    BY <1>3, <1>4, <1>5, <1>6 DEF Bijection, Injection, IsInjective, Surjection
  <1>8. Cardinality(places) = Cardinality(OnPage(s))
    BY <1>7, PageIsFinite, FS_Bijection DEF ExistsBijection
  <1> HIDE DEF places
  <1>9. Cardinality(places) = PageSize
    <2>1. first \in Int /\ first + PageSize - 1 \in Int /\ ~(first > first + PageSize - 1)
      BY <1>4
    <2>2. Cardinality(places) = (first + PageSize - 1) - first + 1
      BY <2>1, FS_Interval DEF places
    <2>3. QED
      BY <1>4, <2>2
  <1>10. QED
    BY <1>8, <1>9

ItemOf(p) == [pr |-> p, updated |-> pulls[p].updated, merged |-> pulls[p].state = "merged"]

\* GitHub answers with all PRs of the page, as they are now, in the order asked for.
LEMMA PageItems ==
    ASSUME TypeOK, NEW s \in Scanners, NEW items \in PullsOnPage(s)
    PROVE  /\ items \in Seq(Item) /\ Len(items) = Cardinality(OnPage(s))
           /\ \A i \in DOMAIN items : \E p \in OnPage(s) : items[i] = ItemOf(p)
           /\ \A p \in OnPage(s) : \E i \in DOMAIN items : items[i] = ItemOf(p)
           /\ \A i, j \in DOMAIN items : i < j => Before(s, items[i].pr, items[j].pr)
  <1>1. PICK n \in Nat : n = Cardinality(OnPage(s))
    BY PageIsFinite
  <1>2. PICK list \in [1 .. n -> OnPage(s)] :
            IsListing(s, OnPage(s), list) /\ items = [i \in DOMAIN list |-> ItemOf(list[i])]
    BY <1>1 DEF PullsOnPage, ItemOf
  <1>3. \A p \in OnPage(s) : p \in PRs /\ ItemOf(p) \in Item
    BY DEF OnPage, Listed, ItemOf, Item, TypeOK
  <1>4. items \in [1 .. n -> Item] /\ \A i \in 1 .. n : items[i] = ItemOf(list[i]) /\ items[i].pr = list[i]
    BY <1>2, <1>3 DEF ItemOf
  <1>5. items \in Seq(Item) /\ Len(items) = n /\ DOMAIN items = 1 .. n
    BY <1>4
  <1>6. QED
    BY <1>1, <1>2, <1>4, <1>5 DEF IsListing


-----------------------------------------------------------------------------
(* Types, and what a step does to the scan that takes it.                  *)

\* The scan of a step, by its fields: it keeps what it read at its start.
Scans(s, r) == r \in ScanType /\ scan' = [scan EXCEPT ![s] = r]
SameStart(s, r) == r.since = scan[s].since /\ r.due = scan[s].due

LEMMA ScanFacts ==
    ASSUME TypeOK
    PROVE  /\ \A s \in Scanners : scan[s] \in ScanType
           /\ \A s, o \in Scanners : \A r : Scans(s, r) => scan'[s] = r /\ (o # s => scan'[o] = scan[o])
           /\ Idle \in ScanType
  BY OngoingIssuanceAssumption DEF TypeOK, Scans, Idle, ScanType, Times

LEMMA StartScan ==
    ASSUME TypeOK, NEW s \in Scanners, Start(s)
    PROVE  \E r : /\ Scans(s, r) /\ r.at = "fetch" /\ r.page = 1 /\ r.todo = <<>> /\ ~r.full
                  /\ r.first = 0 /\ ~r.moved
                  /\ s \in Updaters => r.since = lastPRUpdatedAt /\ r.due = {}
                  /\ s \notin Updaters => r.since = 0 /\ r.due = Merged \ Skipped
  <1> DEFINE r == IF s \in Updaters THEN [Idle EXCEPT !.at = "fetch", !.since = lastPRUpdatedAt]
                                    ELSE [Idle EXCEPT !.at = "fetch", !.due = Merged \ Skipped]
  <1>1. scan' = [scan EXCEPT ![s] = r]
    BY DEF Start
  <1>2. r \in ScanType
    <2>1. Merged \ Skipped \in SUBSET PRs /\ lastPRUpdatedAt \in Times
      BY DEF Merged, TypeOK
    <2>2. QED
      BY <2>1, ScanFacts DEF Idle, ScanType
  <1>3. r.at = "fetch" /\ r.page = 1 /\ r.todo = <<>> /\ ~r.full /\ r.first = 0 /\ ~r.moved
        /\ (s \in Updaters => r.since = lastPRUpdatedAt /\ r.due = {})
        /\ (s \notin Updaters => r.since = 0 /\ r.due = Merged \ Skipped)
    BY DEF Idle
  <1> HIDE DEF r
  <1>4. QED
    BY <1>1, <1>2, <1>3 DEF Scans

LEMMA FetchScan ==
    ASSUME TypeOK, NEW s \in Scanners, Fetch(s)
    PROVE  \E r : /\ Scans(s, r) /\ SameStart(s, r) /\ r.at = "pull" /\ r.todo \in PullsOnPage(s)
                  /\ r.full = (Len(r.todo) = PageSize)
                  /\ r.page = scan[s].page /\ r.first = scan[s].first /\ r.moved = scan[s].moved
  <1>1. PICK items \in PullsOnPage(s) :
            scan' = [scan EXCEPT ![s].at = "pull", ![s].todo = items, ![s].full = Len(items) = PageSize]
    BY DEF Fetch
  <1> DEFINE r == [scan[s] EXCEPT !.at = "pull", !.todo = items, !.full = Len(items) = PageSize]
  <1>3. scan' = [scan EXCEPT ![s] = r]
    BY <1>1
  <1>4. r \in ScanType
    <2>1. (Len(items) = PageSize) \in BOOLEAN /\ items \in Seq(Item)
      BY PageItems
    <2>2. QED
      BY <2>1, ScanFacts DEF ScanType
  <1>5. SameStart(s, r) /\ r.at = "pull" /\ r.todo = items /\ r.full = (Len(items) = PageSize)
        /\ r.page = scan[s].page /\ r.first = scan[s].first /\ r.moved = scan[s].moved
    BY ScanFacts DEF ScanType, SameStart
  <1>6. QED
    BY <1>3, <1>4, <1>5 DEF Scans

LEMMA FetchFailsScan ==
    ASSUME TypeOK, NEW s \in Scanners, FetchFails(s)
    PROVE  \E r : /\ Scans(s, r) /\ SameStart(s, r) /\ r.at = "pull" /\ r.todo = scan[s].todo /\ ~r.full
                  /\ r.page = scan[s].page /\ r.first = scan[s].first
                  /\ s \in Backloaders => r.moved
  <1> DEFINE r == [scan[s] EXCEPT !.at = "pull", !.full = FALSE, !.moved = s \in Backloaders]
  <1>1. scan' = [scan EXCEPT ![s] = r]
    BY DEF FetchFails
  <1>2. r \in ScanType
    <2>1. PICK moved \in BOOLEAN : moved = (s \in Backloaders)
      <3>1. (s \in Backloaders) \in BOOLEAN
        OBVIOUS
      <3>2. QED
        BY <3>1, Zenon
    <2>2. [scan[s] EXCEPT !.at = "pull", !.full = FALSE, !.moved = moved] \in ScanType
      BY ScanFacts DEF ScanType
    <2>3. QED
      BY <2>1, <2>2
  <1>3. QED
    BY <1>1, <1>2, ScanFacts DEF Scans, ScanType, SameStart


LEMMA HandleScan ==
    ASSUME TypeOK, NEW s \in Scanners, Handle(s)
    PROVE  \E r : /\ Scans(s, r) /\ SameStart(s, r) /\ r.at = "pull" /\ r.page = scan[s].page
                  /\ r.full = scan[s].full /\ r.moved = scan[s].moved
                  /\ r.first = IF scan[s].first = 0 /\ s \in Updaters
                               THEN Head(scan[s].todo).updated ELSE scan[s].first
                  /\ r.todo = IF Finished(s, Head(scan[s].todo)) THEN <<>> ELSE Tail(scan[s].todo)
  <1>1. PICK q \in ScanType : q = scan[s]
    BY ScanFacts
  <1>2. q.todo \in Seq(Item) /\ q.todo # <<>>
    BY <1>1 DEF Handle, ScanType
  <1>3. PICK pull \in Item, rest \in Seq(Item) : pull = Head(q.todo) /\ rest = Tail(q.todo)
    <2>1. Head(q.todo) \in Item /\ Tail(q.todo) \in Seq(Item)
      BY <1>2
    <2>2. QED
      BY <2>1
  <1>4. PICK first \in Times : first = IF q.first = 0 /\ s \in Updaters THEN pull.updated ELSE q.first
    BY DEF Item, ScanType
  <1>5. PICK todo \in Seq(Item) : todo = IF Finished(s, pull) THEN <<>> ELSE rest
    <2>1. <<>> \in Seq(Item)
      OBVIOUS
    <2>2. QED
      BY <2>1
  <1> DEFINE r == [q EXCEPT !.first = first, !.todo = todo]
  <1>6. scan' = [scan EXCEPT ![s] = r]
    BY <1>1, <1>3, <1>4, <1>5 DEF Handle
  <1>7. r \in ScanType
    BY DEF ScanType
  <1>8. r.since = q.since /\ r.due = q.due /\ r.at = q.at /\ r.page = q.page /\ r.full = q.full
        /\ r.moved = q.moved /\ r.first = first /\ r.todo = todo
    BY DEF ScanType
  <1>9. q.at = "pull"
    BY <1>1 DEF Handle
  <1> HIDE DEF r
  <1>10. QED
    BY <1>1, <1>3, <1>4, <1>5, <1>6, <1>7, <1>8, <1>9 DEF Scans, SameStart

LEMMA NextPageScan ==
    ASSUME TypeOK, NEW s \in Scanners, NextPage(s)
    PROVE  \E r : /\ Scans(s, r) /\ SameStart(s, r) /\ r.at = "fetch" /\ r.page = scan[s].page + 1
                  /\ r.todo = scan[s].todo /\ r.full = scan[s].full
                  /\ r.first = scan[s].first /\ r.moved = scan[s].moved
  <1>1. PICK q \in ScanType : q = scan[s]
    BY ScanFacts
  <1>2. PICK page \in Nat \ {0} : page = q.page + 1
    BY DEF ScanType
  <1> DEFINE r == [q EXCEPT !.at = "fetch", !.page = page]
  <1>3. scan' = [scan EXCEPT ![s] = r]
    BY <1>1, <1>2 DEF NextPage
  <1>4. r \in ScanType
    BY DEF ScanType
  <1>5. QED
    BY <1>1, <1>2, <1>3, <1>4 DEF Scans, ScanType, SameStart

LEMMA ScanEndsScan ==
    ASSUME TypeOK, NEW s \in Scanners, ScanEnds(s)
    PROVE  \E r : /\ Scans(s, r)
                  /\ s \in Updaters => r = Idle
                  /\ s \notin Updaters =>
                        /\ SameStart(s, r) /\ r.at = "done" /\ r.page = 1 /\ r.todo = scan[s].todo
                        /\ r.full = scan[s].full /\ r.first = scan[s].first /\ r.moved = scan[s].moved
  <1>1. PICK q \in ScanType : q = scan[s]
    BY ScanFacts
  <1>2. PICK page \in Nat \ {0} : page = 1
    OBVIOUS
  <1> DEFINE done == [q EXCEPT !.at = "done", !.page = page]
  <1>3. done \in ScanType
    BY DEF ScanType
  <1>4. /\ SameStart(s, done) /\ done.at = "done" /\ done.page = 1 /\ done.todo = scan[s].todo
        /\ done.full = scan[s].full /\ done.first = scan[s].first /\ done.moved = scan[s].moved
    BY <1>1, <1>2 DEF ScanType, SameStart
  <1>5. scan' = [scan EXCEPT ![s] = IF s \in Updaters THEN Idle ELSE done]
    BY <1>1, <1>2 DEF ScanEnds
  <1> HIDE DEF done
  <1>6. QED
    BY <1>3, <1>4, <1>5, ScanFacts DEF Scans

LEMMA AbortScan ==
    ASSUME TypeOK, NEW s \in Scanners, Abort(s) PROVE Scans(s, Idle)
  BY ScanFacts DEF Abort, Scans

\* A change of the list is noted in backloads under way, and changes no scan otherwise.
LEMMA MovedScans ==
    ASSUME TypeOK, scan' = Moved
    PROVE  /\ scan' \in [Scanners -> ScanType]
           /\ \A s \in Scanners :
                 /\ scan'[s].at = scan[s].at /\ scan'[s].since = scan[s].since
                 /\ scan'[s].page = scan[s].page /\ scan'[s].todo = scan[s].todo
                 /\ scan'[s].full = scan[s].full /\ scan'[s].first = scan[s].first
                 /\ scan'[s].due = scan[s].due
                 /\ scan'[s].moved = (scan[s].moved \/ s \in Active \cap Backloaders)
  <1> DEFINE new(s) == [scan[s] EXCEPT !.moved = @ \/ s \in Active \cap Backloaders]
  <1>1. scan' = [s \in Scanners |-> new(s)]
    BY DEF Moved
  <1>2. ASSUME NEW s \in Scanners
        PROVE  /\ new(s) \in ScanType
               /\ new(s).at = scan[s].at /\ new(s).since = scan[s].since
               /\ new(s).page = scan[s].page /\ new(s).todo = scan[s].todo
               /\ new(s).full = scan[s].full /\ new(s).first = scan[s].first
               /\ new(s).due = scan[s].due
               /\ new(s).moved = (scan[s].moved \/ s \in Active \cap Backloaders)
    <2>1. PICK q \in ScanType : q = scan[s]
      BY ScanFacts
    <2>2. PICK moved \in BOOLEAN : moved = (q.moved \/ s \in Active \cap Backloaders)
      <3>1. (q.moved \/ s \in Active \cap Backloaders) \in BOOLEAN
        OBVIOUS
      <3>2. QED
        BY <3>1, Zenon
    <2>3. new(s) = [q EXCEPT !.moved = moved]
      BY <2>1, <2>2
    <2> HIDE DEF new
    <2>4. QED
      BY <2>1, <2>2, <2>3 DEF ScanType
  <1> HIDE DEF new
  <1>3. QED
    BY <1>1, <1>2


\* A step of a scan keeps the types, if it keeps those of what else it changes.
LEMMA ScanKeepsTypes ==
    ASSUME TypeOK, NEW s \in Scanners, NEW r, Scans(s, r), UNCHANGED <<now, pulls>>,
           lastPRUpdatedAt' \in Times, recorded' \subseteq PRs,
           failures' \in 0 .. FailLimit, disturbed' \in BOOLEAN
    PROVE  TypeOK'
  BY DEF TypeOK, Scans

LEMMA TypesKept == ASSUME TypeOK, [Next]_vars PROVE TypeOK'
  <1> USE OngoingIssuanceAssumption
  <1>1. CASE Tick
    BY <1>1 DEF Tick, TypeOK, Times
  <1>2. ASSUME NEW p \in PRs, Close(p) PROVE TypeOK'
    <2>1. PICK state \in {"closed", "merged"} : pulls' = [pulls EXCEPT ![p] = [state |-> state, updated |-> now]]
      BY <1>2 DEF Close
    <2>2. [state |-> state, updated |-> now] \in [state : PullStates, updated : Times]
      BY DEF TypeOK, PullStates
    <2>3. QED
      BY <1>2, <2>1, <2>2 DEF Close, TypeOK
  <1>3. ASSUME NEW p \in PRs, Edit(p) PROVE TypeOK'
    <2>1. pulls' = [pulls EXCEPT ![p].updated = now]
      BY <1>3 DEF Edit
    <2>2. pulls' \in [PRs -> [state : PullStates, updated : Times]]
      BY <2>1 DEF TypeOK
    <2>3. QED
      BY <1>3, <2>2, MovedScans DEF Edit, TypeOK
  <1>4. ASSUME NEW p \in PRs, Reopen(p) PROVE TypeOK'
    <2>1. pulls' \in [PRs -> [state : PullStates, updated : Times]]
      BY <1>4 DEF Reopen, TypeOK, PullStates
    <2>2. disturbed' \in BOOLEAN
      BY <1>4 DEF Reopen, TypeOK
    <2>3. QED
      BY <1>4, <2>1, <2>2, MovedScans DEF Reopen, TypeOK
  <1>5. ASSUME NEW s \in Scanners, Start(s) PROVE TypeOK'
    BY <1>5, StartScan, ScanKeepsTypes DEF Start, TypeOK
  <1>6. ASSUME NEW s \in Scanners, Fetch(s) PROVE TypeOK'
    BY <1>6, FetchScan, ScanKeepsTypes DEF Fetch, TypeOK
  <1>7. ASSUME NEW s \in Scanners, FetchFails(s) PROVE TypeOK'
    <2>1. failures' \in 0 .. FailLimit /\ disturbed' \in BOOLEAN
      BY <1>7 DEF FetchFails, TypeOK
    <2>2. QED
      BY <1>7, <2>1, FetchFailsScan, ScanKeepsTypes DEF FetchFails, TypeOK
  <1>8. ASSUME NEW s \in Scanners, Handle(s) PROVE TypeOK'
    <2>1. Head(scan[s].todo) \in Item
      <3>1. scan[s].todo \in Seq(Item) /\ scan[s].todo # <<>>
        BY <1>8, ScanFacts DEF Handle, ScanType
      <3>2. QED
        BY <3>1
    <2>2. recorded' \subseteq PRs
      BY <1>8, <2>1 DEF Handle, TypeOK, Item
    <2>3. QED
      BY <1>8, <2>2, HandleScan, ScanKeepsTypes DEF Handle, TypeOK
  <1>9. ASSUME NEW s \in Scanners, NextPage(s) PROVE TypeOK'
    BY <1>9, NextPageScan, ScanKeepsTypes DEF NextPage, TypeOK
  <1>10. ASSUME NEW s \in Scanners, ScanEnds(s) PROVE TypeOK'
    <2>1. lastPRUpdatedAt' \in Times
      BY <1>10, ScanFacts DEF ScanEnds, TypeOK, ScanType
    <2>2. QED
      BY <1>10, <2>1, ScanEndsScan, ScanKeepsTypes DEF ScanEnds, TypeOK
  <1>11. ASSUME NEW s \in Scanners, Abort(s) PROVE TypeOK'
    <2>1. failures' \in 0 .. FailLimit
      BY <1>11 DEF Abort, TypeOK
    <2>2. QED
      BY <1>11, <2>1, AbortScan, ScanKeepsTypes DEF Abort, TypeOK
  <1>12. CASE UNCHANGED vars
    BY <1>12 DEF vars, TypeOK
  <1>13. QED
    BY <1>1, <1>2, <1>3, <1>4, <1>5, <1>6, <1>7, <1>8, <1>9, <1>10, <1>11, <1>12 DEF Next, ScanStep

\* The repository, the list and the scans keep their types.
THEOREM ScanTypesHold == Spec => []TypeOK
  <1>1. Init => TypeOK
    <2>1. Idle \in ScanType
      BY OngoingIssuanceAssumption DEF Idle, ScanType, Times
    <2>2. 0 \in Times /\ 1 \in Times /\ 0 \in 0 .. FailLimit
      BY OngoingIssuanceAssumption DEF Times
    <2>3. [state |-> "open", updated |-> 0] \in [state : PullStates, updated : Times]
      BY <2>2 DEF PullStates
    <2>4. SUFFICES ASSUME Init PROVE TypeOK
      OBVIOUS
    <2>5. pulls \in [PRs -> [state : PullStates, updated : Times]] /\ scan \in [Scanners -> ScanType]
      BY <2>1, <2>3, <2>4 DEF Init
    <2>6. QED
      BY <2>2, <2>4, <2>5 DEF Init, TypeOK
  <1>2. TypeOK /\ [Next]_vars => TypeOK'
    BY TypesKept
  <1>3. QED
    BY <1>1, <1>2, PTL DEF Spec


-----------------------------------------------------------------------------
(* ScansFit.                                                               *)

\* A step of a scan keeps the invariant if the scan still fits.
LEMMA FitsKept ==
    ASSUME TypeOK, ScansFit, NEW s \in Scanners, NEW r, Scans(s, r), Fits(s, r),
           UNCHANGED <<now, pulls>>, lastPRUpdatedAt' =< now
    PROVE  ScansFit'
  <1>1. TimesFit'
    BY DEF ScansFit, TimesFit, Listed
  <1>2. ASSUME NEW o \in Scanners PROVE Fits(o, scan[o])'
    <2>1. CASE o = s
      BY <2>1, ScanFacts DEF Fits
    <2>2. CASE o # s
      BY <2>2, ScanFacts DEF ScansFit, Fits
    <2>3. QED
      BY <2>1, <2>2
  <1>3. QED
    BY <1>1, <1>2 DEF ScansFit

LEMMA IdleFits == ASSUME TypeOK, ScansFit, NEW s PROVE Fits(s, Idle)
  BY DEF Fits, Idle, ScansFit, TimesFit, TypeOK, Times

\* What is left of a page fits as the page did.
LEMMA RestFits ==
    ASSUME NEW todo \in Seq(Item), todo # <<>>
    PROVE  /\ DOMAIN Tail(todo) \subseteq Nat /\ DOMAIN todo \subseteq Nat /\ 1 \in DOMAIN todo
           /\ Head(todo) = todo[1]
           /\ \A i \in DOMAIN Tail(todo) : i + 1 \in DOMAIN todo /\ Tail(todo)[i] = todo[i + 1]
           /\ \A i \in DOMAIN todo : i = 1 \/ (i - 1 \in DOMAIN Tail(todo) /\ todo[i] = Tail(todo)[i - 1])
  <1>1. PICK n \in Nat : n = Len(todo)
    OBVIOUS
  <1>2. n > 0 /\ DOMAIN todo = 1 .. n /\ Len(Tail(todo)) = n - 1 /\ Tail(todo) \in Seq(Item)
    BY <1>1
  <1>3. DOMAIN Tail(todo) = 1 .. n - 1 /\ \A i \in 1 .. n - 1 : Tail(todo)[i] = todo[i + 1]
    BY <1>1, <1>2
  <1>4. QED
    BY <1>2, <1>3

\* A new page fits its scan.
LEMMA PageFits ==
    ASSUME TypeOK, ScansFit, NEW s \in Scanners, NEW items \in PullsOnPage(s)
    PROVE  /\ \A i \in DOMAIN items : items[i].updated \in 1 .. now
           /\ s \in Updaters => \A i, j \in DOMAIN items :
                                    i < j => items[j].updated =< items[i].updated
           /\ items = <<>> => Len(items) # PageSize
  <1>1. \A p \in OnPage(s) : p \in PRs /\ pulls[p].updated \in 1 .. now
    BY DEF OnPage, Listed, ScansFit, TimesFit, TypeOK, Times
  <1>2. \A i \in DOMAIN items : \E p \in OnPage(s) : items[i] = ItemOf(p)
    BY PageItems
  <1>3. \A i \in DOMAIN items : /\ items[i].updated \in 1 .. now /\ items[i].pr \in PRs
                                /\ items[i].updated = pulls[items[i].pr].updated
    BY <1>1, <1>2 DEF ItemOf
  <1>4. ASSUME NEW i \in DOMAIN items, NEW j \in DOMAIN items, i < j, s \in Updaters
        PROVE  items[j].updated =< items[i].updated
    <2>1. Older(items[j].pr, items[i].pr)
      BY <1>4, PageItems DEF Before
    <2>2. items[i].updated \in Int /\ items[j].updated \in Int
      BY <1>3 DEF TypeOK, Times
    <2>3. QED
      BY <1>3, <2>1, <2>2 DEF Older
  <1>5. items = <<>> => Len(items) # PageSize
    BY OngoingIssuanceAssumption
  <1>6. QED
    BY <1>3, <1>4, <1>5


\* When the list changes, its new times are of now, and scans keep what they hold.
LEMMA FitsMoved ==
    ASSUME TypeOK, ScansFit, UNCHANGED <<now, lastPRUpdatedAt>>,
           \A s \in Scanners : /\ scan'[s].at = scan[s].at /\ scan'[s].since = scan[s].since
                               /\ scan'[s].page = scan[s].page /\ scan'[s].todo = scan[s].todo
                               /\ scan'[s].full = scan[s].full /\ scan'[s].first = scan[s].first,
           \A p \in PRs : pulls'[p] = pulls[p] \/ pulls'[p].updated = now
    PROVE  ScansFit'
  <1>1. TimesFit'
    BY DEF ScansFit, TimesFit, Listed, TypeOK, Times
  <1>2. ASSUME NEW s \in Scanners PROVE Fits(s, scan[s])'
    BY DEF ScansFit, Fits
  <1>3. QED
    BY <1>1, <1>2 DEF ScansFit

LEMMA ScansFitKept == ASSUME TypeOK, ScansFit, [Next]_vars PROVE ScansFit'
  <1>1. CASE Tick
    <2>1. now' = now + 1 /\ now \in Nat /\ UNCHANGED <<pulls, lastPRUpdatedAt, scan>>
      BY <1>1 DEF Tick, TypeOK, Times
    <2>2. TimesFit'
      BY <2>1 DEF ScansFit, TimesFit, Listed, TypeOK, Times
    <2>3. ASSUME NEW s \in Scanners PROVE Fits(s, scan[s])'
      <3>1. PICK r \in ScanType : r = scan[s] /\ Fits(s, r)
        BY ScanFacts DEF ScansFit
      <3>2. r.since \in Nat /\ r.first \in Nat
            /\ \A i \in DOMAIN r.todo : r.todo[i].updated \in 1 .. now'
        BY <2>1, <3>1 DEF Fits, ScanType, Times
      <3>3. QED
        BY <2>1, <3>1, <3>2 DEF Fits
    <2>4. QED
      BY <2>2, <2>3 DEF ScansFit
  <1>2. ASSUME NEW p \in PRs, Close(p) PROVE ScansFit'
    BY <1>2, FitsMoved DEF Close, TypeOK
  <1>3. ASSUME NEW p \in PRs, Edit(p) PROVE ScansFit'
    BY <1>3, FitsMoved, MovedScans DEF Edit, TypeOK
  <1>4. ASSUME NEW p \in PRs, Reopen(p) PROVE ScansFit'
    BY <1>4, FitsMoved, MovedScans DEF Reopen, TypeOK
  <1>5. ASSUME NEW s \in Scanners, Start(s) PROVE ScansFit'
    <2>1. PICK r : /\ Scans(s, r) /\ r.at = "fetch" /\ r.page = 1 /\ r.todo = <<>> /\ ~r.full
                   /\ r.first = 0 /\ ~r.moved
                   /\ s \in Updaters => r.since = lastPRUpdatedAt /\ r.due = {}
                   /\ s \notin Updaters => r.since = 0 /\ r.due = Merged \ Skipped
      BY <1>5, StartScan
    <2>2. Fits(s, r)
      BY <2>1 DEF Fits, ScansFit, TimesFit, TypeOK, Times
    <2>3. QED
      BY <1>5, <2>1, <2>2, FitsKept DEF Start, ScansFit, TimesFit
  <1>6. ASSUME NEW s \in Scanners, Fetch(s) PROVE ScansFit'
    <2>1. PICK r : /\ Scans(s, r) /\ SameStart(s, r) /\ r.at = "pull" /\ r.todo \in PullsOnPage(s)
                   /\ r.full = (Len(r.todo) = PageSize)
                   /\ r.page = scan[s].page /\ r.first = scan[s].first /\ r.moved = scan[s].moved
      BY <1>6, FetchScan
    <2>2. Fits(s, scan[s]) /\ scan[s].at = "fetch"
      BY <1>6 DEF ScansFit, Fetch
    <2>3. Fits(s, r)
      BY <2>1, <2>2, PageFits DEF Fits, SameStart
    <2>4. QED
      BY <1>6, <2>1, <2>3, FitsKept DEF Fetch, ScansFit, TimesFit
  <1>7. ASSUME NEW s \in Scanners, FetchFails(s) PROVE ScansFit'
    <2>1. PICK r : /\ Scans(s, r) /\ SameStart(s, r) /\ r.at = "pull" /\ r.todo = scan[s].todo /\ ~r.full
                   /\ r.page = scan[s].page /\ r.first = scan[s].first
                   /\ s \in Backloaders => r.moved
      BY <1>7, FetchFailsScan
    <2>2. Fits(s, scan[s]) /\ scan[s].at = "fetch"
      BY <1>7 DEF ScansFit, FetchFails
    <2>3. Fits(s, r)
      BY <2>1, <2>2 DEF Fits, SameStart
    <2>4. QED
      BY <1>7, <2>1, <2>3, FitsKept DEF FetchFails, ScansFit, TimesFit
  <1>8. ASSUME NEW s \in Scanners, Handle(s) PROVE ScansFit'
    <2>1. PICK r : /\ Scans(s, r) /\ SameStart(s, r) /\ r.at = "pull" /\ r.page = scan[s].page
                   /\ r.full = scan[s].full /\ r.moved = scan[s].moved
                   /\ r.first = IF scan[s].first = 0 /\ s \in Updaters
                                THEN Head(scan[s].todo).updated ELSE scan[s].first
                   /\ r.todo = IF Finished(s, Head(scan[s].todo)) THEN <<>> ELSE Tail(scan[s].todo)
      BY <1>8, HandleScan
    <2>2. PICK todo \in Seq(Item) : todo = scan[s].todo /\ todo # <<>>
      BY <1>8, ScanFacts DEF Handle, ScanType
    <2>3. /\ Fits(s, scan[s]) /\ scan[s].at = "pull"
          /\ Head(todo) = todo[1] /\ 1 \in DOMAIN todo /\ Head(todo).updated \in 1 .. now
      BY <1>8, <2>2, RestFits DEF Handle, ScansFit, Fits
    <2>4. /\ r.since =< now /\ r.first =< now /\ (s \in Updaters => r.first # 0)
      <3>1. now \in Nat
        BY DEF TypeOK, Times
      <3>2. QED
        BY <2>1, <2>2, <2>3, <3>1 DEF Fits, SameStart
    <2>5. /\ \A i \in DOMAIN r.todo : r.todo[i].updated \in 1 .. now
          /\ s \in Updaters => \A i, j \in DOMAIN r.todo :
                                   i < j => r.todo[j].updated =< r.todo[i].updated
      <3>1. CASE Finished(s, Head(scan[s].todo))
        BY <2>1, <3>1
      <3>2. CASE ~Finished(s, Head(scan[s].todo))
        <4>1. r.todo = Tail(todo)
          BY <2>1, <2>2, <3>2
        <4>2. \A i \in DOMAIN r.todo : i \in Nat /\ i + 1 \in DOMAIN todo /\ r.todo[i] = todo[i + 1]
          BY <2>2, <4>1, RestFits
        <4>3. \A i \in DOMAIN todo : todo[i].updated \in 1 .. now
          BY <2>2, <2>3 DEF Fits
        <4>4. s \in Updaters => \A i, j \in DOMAIN todo : i < j => todo[j].updated =< todo[i].updated
          BY <2>2, <2>3 DEF Fits
        <4>5. \A i, j \in DOMAIN r.todo : i < j => i + 1 < j + 1
          BY <4>2
        <4>6. QED
          BY <4>2, <4>3, <4>4, <4>5
      <3>3. QED
        BY <3>1, <3>2
    <2>6. Fits(s, r)
      BY <2>1, <2>4, <2>5 DEF Fits
    <2>7. QED
      BY <1>8, <2>1, <2>6, FitsKept DEF Handle, ScansFit, TimesFit
  <1>9. ASSUME NEW s \in Scanners, NextPage(s) PROVE ScansFit'
    <2>1. PICK r : /\ Scans(s, r) /\ SameStart(s, r) /\ r.at = "fetch" /\ r.page = scan[s].page + 1
                   /\ r.todo = scan[s].todo /\ r.full = scan[s].full
                   /\ r.first = scan[s].first /\ r.moved = scan[s].moved
      BY <1>9, NextPageScan
    <2>2. Fits(s, scan[s]) /\ scan[s].at = "pull" /\ scan[s].todo = <<>> /\ scan[s].full
          /\ scan[s].page \in Nat \ {0}
      BY <1>9, ScanFacts DEF ScansFit, NextPage, ScanType
    <2>3. Fits(s, r)
      BY <2>1, <2>2 DEF Fits, SameStart
    <2>4. QED
      BY <1>9, <2>1, <2>3, FitsKept DEF NextPage, ScansFit, TimesFit
  <1>10. ASSUME NEW s \in Scanners, ScanEnds(s) PROVE ScansFit'
    <2>1. PICK r : /\ Scans(s, r)
                   /\ s \in Updaters => r = Idle
                   /\ s \notin Updaters =>
                        /\ SameStart(s, r) /\ r.at = "done" /\ r.page = 1 /\ r.todo = scan[s].todo
                        /\ r.full = scan[s].full /\ r.first = scan[s].first /\ r.moved = scan[s].moved
      BY <1>10, ScanEndsScan
    <2>2. Fits(s, scan[s]) /\ scan[s].todo = <<>>
      BY <1>10 DEF ScansFit, ScanEnds
    <2>3. Fits(s, r)
      <3>1. CASE s \in Updaters
        BY <2>1, <3>1, IdleFits
      <3>2. CASE s \notin Updaters
        BY <2>1, <2>2, <3>2 DEF Fits, SameStart
      <3>3. QED
        BY <3>1, <3>2
    <2>4. lastPRUpdatedAt' =< now
      BY <1>10, <2>2 DEF ScanEnds, Fits, ScansFit, TimesFit
    <2>5. QED
      BY <1>10, <2>1, <2>3, <2>4, FitsKept DEF ScanEnds
  <1>11. ASSUME NEW s \in Scanners, Abort(s) PROVE ScansFit'
    BY <1>11, AbortScan, IdleFits, FitsKept DEF Abort, ScansFit, TimesFit
  <1>12. CASE UNCHANGED vars
    BY <1>12 DEF vars, ScansFit, TimesFit, Fits, Listed
  <1>13. QED
    BY <1>1, <1>2, <1>3, <1>4, <1>5, <1>6, <1>7, <1>8, <1>9, <1>10, <1>11, <1>12 DEF Next, ScanStep

\* The times that scans hold are never ahead of the clock, and each scan is where
\* what it holds says.
THEOREM ScansAlwaysFit == Spec => []ScansFit
  <1>1. Init => ScansFit
    <2>1. SUFFICES ASSUME Init PROVE ScansFit
      OBVIOUS
    <2>2. TimesFit
      BY <2>1 DEF Init, TimesFit, Listed
    <2>3. ASSUME NEW s \in Scanners PROVE Fits(s, scan[s])
      BY <2>1 DEF Init, Fits, Idle
    <2>4. QED
      BY <2>2, <2>3 DEF ScansFit
  <1>2. TypeOK /\ ScansFit /\ [Next]_vars => ScansFit'
    BY ScansFitKept
  <1>3. QED
    BY <1>1, <1>2, ScanTypesHold, PTL DEF Spec


-----------------------------------------------------------------------------
(* What is still to come in a scan.                                        *)

\* Nothing leaves the front of a PR: it is not ahead of where it was.
LEMMA AheadGrows ==
    ASSUME NEW s, NEW p,
           \A q \in Listed : Before(s, q, p) => q \in Listed' /\ Before(s, q, p)'
    PROVE  Ahead(s, p) =< Ahead(s, p)'
  <1> DEFINE then == {q \in Listed' : Before(s, q, p)'}
  <1>1. IsFiniteSet(then)
    <2>1. Listed' \in SUBSET PRs /\ then \in SUBSET PRs
      BY DEF Listed
    <2>2. QED
      BY <2>1, OngoingIssuanceAssumption, FS_Subset
  <1>2. {q \in Listed : Before(s, q, p)} \in SUBSET then
    OBVIOUS
  <1>3. Cardinality({q \in Listed : Before(s, q, p)}) =< Cardinality(then)
    BY <1>1, <1>2, FS_Subset
  <1>4. QED
    BY <1>3 DEF Ahead

\* So what was to come still is, for a scan that goes on as it was.
LEMMA ComingStays ==
    ASSUME TypeOK, NEW s \in Scanners, NEW p, Coming(s, p), pulls'[p] = pulls[p],
           \/ UNCHANGED pulls
           \/ \A q \in Listed : Before(s, q, p) => q \in Listed' /\ Before(s, q, p)',
           scan'[s].at = scan[s].at, scan'[s].page = scan[s].page,
           scan'[s].todo = scan[s].todo, scan'[s].full = scan[s].full
    PROVE  Coming(s, p)'
  <1>1. Ahead(s, p) =< Ahead(s, p)'
    <2>1. CASE UNCHANGED pulls
      <3>1. Ahead(s, p)' = Ahead(s, p)
        BY <2>1 DEF Ahead, Listed, Before, Older
      <3>2. PICK n \in Nat : n = Ahead(s, p)
        BY AheadIsNat
      <3>3. QED
        BY <3>1, <3>2
    <2>2. QED
      BY <2>1, AheadGrows
  <1>2. PICK before \in Nat : before = Ahead(s, p)
    BY AheadIsNat
  <1>3. PICK after \in Nat : after = Ahead(s, p)'
    <2>1. IsFiniteSet({q \in Listed' : Before(s, q, p)'})
      <3>1. {q \in Listed' : Before(s, q, p)'} \in SUBSET PRs
        BY DEF Listed
      <3>2. QED
        BY <3>1, OngoingIssuanceAssumption, FS_Subset
    <2>2. QED
      BY <2>1, FS_CardinalityType DEF Ahead
  <1>4. PICK page \in Nat \ {0} : page = scan[s].page
    BY ScanFacts DEF ScanType
  <1>5. page * PageSize \in Nat /\ (page - 1) * PageSize \in Nat
    BY PageBounds
  <1>6. /\ (page - 1) * PageSize =< before => (page - 1) * PageSize =< after
        /\ page * PageSize =< before => page * PageSize =< after
    BY <1>1, <1>2, <1>3, <1>5
  <1>7. QED
    BY <1>2, <1>3, <1>4, <1>6 DEF Coming

\* What the next page does not bring is on a later one.
LEMMA ComingFetched ==
    ASSUME TypeOK, NEW s \in Scanners, NEW p \in Merged, NEW r, Scans(s, r), UNCHANGED pulls,
           (scan[s].page - 1) * PageSize =< Ahead(s, p), r.at = "pull", r.page = scan[s].page,
           r.todo \in PullsOnPage(s), r.full = (Len(r.todo) = PageSize)
    PROVE  Coming(s, p)'
  <1>1. scan'[s] = r /\ Ahead(s, p)' = Ahead(s, p)
    BY ScanFacts DEF Ahead, Listed, Before, Older
  <1>2. PICK n \in Nat : n = Ahead(s, p)
    BY AheadIsNat
  <1>3. PICK page \in Nat \ {0} : page = scan[s].page
    BY ScanFacts DEF ScanType
  <1>4. page * PageSize \in Nat
    BY PageBounds
  <1>5. p \in Listed /\ pulls[p].state = "merged"
    BY DEF Listed, Merged
  <1>6. CASE page * PageSize =< n
    <2>1. r.full
      BY <1>2, <1>3, <1>5, <1>6, PageFills, PageItems
    <2>2. QED
      BY <1>1, <1>2, <1>3, <1>6, <2>1 DEF Coming
  <1>7. CASE n < page * PageSize
    <2>1. p \in OnPage(s)
      BY <1>2, <1>3, <1>5, <1>7 DEF OnPage
    <2>2. PICK i \in DOMAIN r.todo : r.todo[i] = ItemOf(p)
      BY <2>1, PageItems
    <2>3. r.todo[i] = [pr |-> p, updated |-> pulls'[p].updated, merged |-> TRUE]
      BY <1>5, <2>2 DEF ItemOf
    <2>4. QED
      BY <1>1, <2>3 DEF Coming
  <1>8. QED
    BY <1>2, <1>4, <1>6, <1>7


\* What a scan has before it after a PR of its page: that PR is over, and the PRs that an
\* updater turns away from are older than the time it read.
LEMMA ComingHandled ==
    ASSUME TypeOK, ScansFit, NEW s \in Scanners, NEW p \in Relevant, Handle(s), Coming(s, p),
           s \in Updaters => HandledBefore(scan[s].since)
    PROVE  p \in recorded' \/ Coming(s, p)'
  <1>1. PICK r : /\ Scans(s, r) /\ SameStart(s, r) /\ r.at = "pull" /\ r.page = scan[s].page
                 /\ r.full = scan[s].full /\ r.moved = scan[s].moved
                 /\ r.first = IF scan[s].first = 0 /\ s \in Updaters
                              THEN Head(scan[s].todo).updated ELSE scan[s].first
                 /\ r.todo = IF Finished(s, Head(scan[s].todo)) THEN <<>> ELSE Tail(scan[s].todo)
    BY HandleScan
  <1>2. scan'[s] = r /\ scan[s].at = "pull" /\ UNCHANGED pulls /\ recorded \subseteq recorded'
    BY <1>1, ScanFacts DEF Handle
  <1>3. PICK todo \in Seq(Item) : todo = scan[s].todo /\ todo # <<>>
    BY ScanFacts DEF Handle, ScanType
  <1>4. CASE scan[s].full /\ scan[s].page * PageSize =< Ahead(s, p)
    <2>1. Ahead(s, p)' = Ahead(s, p)
      BY <1>2 DEF Ahead, Listed, Before, Older
    <2>2. QED
      BY <1>1, <1>2, <1>4, <2>1 DEF Coming
  <1>5. ASSUME NEW i \in DOMAIN todo, todo[i] = [pr |-> p, updated |-> pulls[p].updated, merged |-> TRUE]
        PROVE  p \in recorded' \/ Coming(s, p)'
    <2>1. Head(todo) = todo[1] /\ 1 \in DOMAIN todo /\ i \in Nat
          /\ (i = 1 \/ (i - 1 \in DOMAIN Tail(todo) /\ todo[i] = Tail(todo)[i - 1]))
      BY <1>3, RestFits
    <2>2. CASE Finished(s, Head(todo))
      <3>1. s \in Updaters /\ Head(todo).updated < scan[s].since
        BY <2>2 DEF Finished
      <3>2. \A j \in DOMAIN todo : j \in Nat \ {0} /\ todo[j] \in Item
        OBVIOUS
      <3>3. i = 1 \/ todo[i].updated =< todo[1].updated
        <4>1. \A j, k \in DOMAIN todo : j < k => todo[k].updated =< todo[j].updated
          BY <1>3, <3>1 DEF ScansFit, Fits
        <4>2. i = 1 \/ 1 < i
          BY <3>2
        <4>3. QED
          BY <2>1, <4>1, <4>2
      <3>4. todo[1].updated \in Int /\ todo[i].updated \in Int /\ scan[s].since \in Int
        BY <2>1, <3>2, ScanFacts DEF Item, Times, ScanType
      <3>5. pulls[p].updated < scan[s].since
        BY <1>5, <2>1, <3>1, <3>3, <3>4
      <3>6. QED
        BY <1>2, <3>1, <3>5 DEF HandledBefore
    <2>3. CASE ~Finished(s, Head(todo)) /\ i = 1
      <3>1. Counts(Head(todo))
        BY <1>5, <2>1, <2>3 DEF Counts, Relevant
      <3>2. QED
        BY <1>3, <1>5, <2>1, <2>3, <3>1 DEF Handle
    <2>4. CASE ~Finished(s, Head(todo)) /\ i # 1
      <3>1. r.todo = Tail(todo)
        BY <1>1, <1>3, <2>4
      <3>2. r.todo[i - 1] = [pr |-> p, updated |-> pulls'[p].updated, merged |-> TRUE]
            /\ i - 1 \in DOMAIN r.todo
        BY <1>2, <1>5, <2>1, <2>4, <3>1
      <3>3. QED
        BY <1>1, <1>2, <3>2 DEF Coming
    <2>5. QED
      BY <2>2, <2>3, <2>4
  <1>6. QED
    BY <1>2, <1>3, <1>4, <1>5 DEF Coming

\* After a full page the PRs of later pages are on the next one or later.
LEMMA ComingOnNextPage ==
    ASSUME TypeOK, NEW s \in Scanners, NEW p, NextPage(s), Coming(s, p)
    PROVE  Coming(s, p)'
  <1>1. PICK r : /\ Scans(s, r) /\ SameStart(s, r) /\ r.at = "fetch" /\ r.page = scan[s].page + 1
                 /\ r.todo = scan[s].todo /\ r.full = scan[s].full
                 /\ r.first = scan[s].first /\ r.moved = scan[s].moved
    BY NextPageScan
  <1>2. scan'[s] = r /\ Ahead(s, p)' = Ahead(s, p)
    BY <1>1, ScanFacts DEF NextPage, Ahead, Listed, Before, Older
  <1>3. PICK page \in Nat \ {0} : page = scan[s].page
    BY ScanFacts DEF ScanType
  <1>4. page * PageSize =< Ahead(s, p)
    BY <1>3 DEF NextPage, Coming
  <1>5. QED
    BY <1>1, <1>2, <1>3, <1>4, PageBounds DEF Coming

\* Nothing is to come when a scan ends.
LEMMA NothingIsComing ==
    ASSUME NEW s \in Scanners, NEW p, ScanEnds(s) PROVE ~Coming(s, p)
  BY DEF ScanEnds, Coming


-----------------------------------------------------------------------------
(* Backloads.                                                              *)

Goes(b) == /\ scan[b].due \subseteq Relevant
           /\ ~scan[b].moved => \A p \in scan[b].due : p \in recorded \/ Coming(b, p)

\* PRs that were merged stay so, with their time unless they are edited.
LEMMA MergedStay ==
    ASSUME TypeOK, NEW q \in PRs, Close(q) \/ Edit(q) \/ Reopen(q)
    PROVE  /\ Relevant \subseteq Relevant'
           /\ \A p \in PRs \ {q} : pulls'[p] = pulls[p]
           /\ pulls'[q].updated = now
           /\ q \in Relevant' \ Relevant => pulls[q].state = "open"
           /\ Close(q) \/ Reopen(q) => q \notin Relevant
           /\ Close(q) => q \notin Listed
  BY DEF TypeOK, Relevant, Merged, Close, Edit, Reopen, Listed

\* A backload is not affected by what others do without changing the list.
LEMMA GoesBesides ==
    ASSUME TypeOK, NEW b \in Backloaders, Goes(b), scan'[b] = scan[b], UNCHANGED pulls,
           recorded \subseteq recorded'
    PROVE  Goes(b)'
  <1>1. \A p \in scan[b].due : Coming(b, p) => Coming(b, p)'
    BY ComingStays DEF Goes, Scanners
  <1>2. QED
    BY <1>1 DEF Goes, Relevant, Merged

\* A change of the list spoils the backloads under way; a new PR goes to their end.
LEMMA GoesOnList ==
    ASSUME TypeOK, NEW b \in Backloaders, Goes(b), NEW q \in PRs, Close(q) \/ Edit(q) \/ Reopen(q)
    PROVE  Goes(b)'
  <1>1. CASE Close(q)
    <2>1. UNCHANGED scan /\ UNCHANGED recorded
      BY <1>1 DEF Close
    <2>2. ASSUME NEW p \in Relevant, Coming(b, p) PROVE Coming(b, p)'
      <3>1. p \in PRs /\ p # q /\ \A o \in Listed : o # q /\ o \in PRs
        BY <1>1, MergedStay DEF Relevant, Merged, Listed
      <3>2. pulls'[p] = pulls[p] /\ \A o \in Listed : pulls'[o] = pulls[o] /\ o \in Listed'
        BY <3>1, MergedStay DEF Listed
      <3>3. \A o \in Listed : Before(b, o, p) => o \in Listed' /\ Before(b, o, p)'
        BY <3>2 DEF Before, Older
      <3>4. QED
        BY <2>1, <2>2, <3>2, <3>3, ComingStays DEF Scanners
    <2>3. QED
      BY <2>1, <2>2, MergedStay DEF Goes
  <1>2. CASE Edit(q) \/ Reopen(q)
    <2>1. scan' = Moved /\ UNCHANGED recorded
      BY <1>2 DEF Edit, Reopen
    <2>2. scan'[b].due = scan[b].due
          /\ scan'[b].moved = (scan[b].moved \/ b \in Active \cap Backloaders)
      BY <2>1, MovedScans DEF Scanners
    <2>3. CASE b \in Active
      BY <2>2, <2>3, MergedStay DEF Goes
    <2>4. CASE b \notin Active
      <3>1. \A p : ~Coming(b, p)
        BY <2>4 DEF Coming, Active, Scanners
      <3>2. QED
        BY <2>1, <2>2, <2>4, <3>1, MergedStay DEF Goes
    <2>5. QED
      BY <2>3, <2>4
  <1>3. QED
    BY <1>1, <1>2

\* Each step of a backload handles PRs or leaves them to come, until it ends.
LEMMA GoesByItself ==
    ASSUME TypeOK, ScansFit, NEW b \in Backloaders, Goes(b), Start(b) \/ ScanStep(b) \/ FetchFails(b) \/ Abort(b)
    PROVE  Goes(b)'
  <1> b \in Scanners /\ b \notin Updaters
    BY OngoingIssuanceAssumption DEF Scanners
  <1>1. UNCHANGED pulls /\ recorded \subseteq recorded' /\ Relevant' = Relevant
    BY DEF Start, ScanStep, Fetch, Handle, NextPage, ScanEnds, FetchFails, Abort, Relevant, Merged
  <1>2. CASE Start(b)
    <2>1. PICK r : /\ Scans(b, r) /\ r.at = "fetch" /\ r.page = 1 /\ r.todo = <<>> /\ ~r.full
                   /\ r.first = 0 /\ ~r.moved
                   /\ b \in Updaters => r.since = lastPRUpdatedAt /\ r.due = {}
                   /\ b \notin Updaters => r.since = 0 /\ r.due = Merged \ Skipped
      BY <1>2, StartScan
    <2>2. scan'[b] = r /\ r.due = Relevant
      BY <2>1, ScanFacts DEF Relevant
    <2>3. ASSUME NEW p PROVE Coming(b, p)'
      <3>1. Ahead(b, p)' = Ahead(b, p)
        BY <1>1 DEF Ahead, Listed, Before, Older
      <3>2. PICK n \in Nat : n = Ahead(b, p)
        BY AheadIsNat
      <3>3. (1 - 1) * PageSize = 0
        BY OngoingIssuanceAssumption
      <3>4. QED
        BY <2>1, <2>2, <3>1, <3>2, <3>3 DEF Coming
    <2>4. QED
      BY <1>1, <2>2, <2>3 DEF Goes
  <1>3. CASE Fetch(b)
    <2>1. PICK r : /\ Scans(b, r) /\ SameStart(b, r) /\ r.at = "pull" /\ r.todo \in PullsOnPage(b)
                   /\ r.full = (Len(r.todo) = PageSize)
                   /\ r.page = scan[b].page /\ r.first = scan[b].first /\ r.moved = scan[b].moved
      BY <1>3, FetchScan
    <2>2. scan'[b] = r /\ scan[b].at = "fetch"
      BY <1>3, <2>1, ScanFacts DEF Fetch
    <2>3. ASSUME NEW p \in scan[b].due, Coming(b, p) PROVE Coming(b, p)'
      BY <1>1, <2>1, <2>2, <2>3, ComingFetched DEF Coming, Goes, Relevant
    <2>4. QED
      BY <1>1, <2>1, <2>2, <2>3 DEF Goes, SameStart
  <1>4. CASE Handle(b)
    <2>1. PICK r : /\ Scans(b, r) /\ SameStart(b, r) /\ r.at = "pull" /\ r.page = scan[b].page
                   /\ r.full = scan[b].full /\ r.moved = scan[b].moved
                   /\ r.first = IF scan[b].first = 0 /\ b \in Updaters
                                THEN Head(scan[b].todo).updated ELSE scan[b].first
                   /\ r.todo = IF Finished(b, Head(scan[b].todo)) THEN <<>> ELSE Tail(scan[b].todo)
      BY <1>4, HandleScan
    <2>2. scan'[b] = r
      BY <2>1, ScanFacts
    <2>3. \A p \in scan[b].due : Coming(b, p) => p \in recorded' \/ Coming(b, p)'
      BY <1>4, ComingHandled DEF Goes
    <2>4. QED
      BY <1>1, <2>1, <2>2, <2>3 DEF Goes, SameStart
  <1>5. CASE NextPage(b)
    <2>1. PICK r : /\ Scans(b, r) /\ SameStart(b, r) /\ r.at = "fetch" /\ r.page = scan[b].page + 1
                   /\ r.todo = scan[b].todo /\ r.full = scan[b].full
                   /\ r.first = scan[b].first /\ r.moved = scan[b].moved
      BY <1>5, NextPageScan
    <2>2. scan'[b] = r
      BY <2>1, ScanFacts
    <2>3. \A p : Coming(b, p) => Coming(b, p)'
      BY <1>5, ComingOnNextPage
    <2>4. QED
      BY <1>1, <2>1, <2>2, <2>3 DEF Goes, SameStart
  <1>6. CASE ScanEnds(b)
    <2>1. PICK r : /\ Scans(b, r)
                   /\ b \in Updaters => r = Idle
                   /\ b \notin Updaters =>
                        /\ SameStart(b, r) /\ r.at = "done" /\ r.page = 1 /\ r.todo = scan[b].todo
                        /\ r.full = scan[b].full /\ r.first = scan[b].first /\ r.moved = scan[b].moved
      BY <1>6, ScanEndsScan
    <2>2. scan'[b] = r /\ \A p : ~Coming(b, p)
      BY <1>6, <2>1, ScanFacts, NothingIsComing
    <2>3. QED
      BY <1>1, <2>1, <2>2 DEF Goes, SameStart
  <1>7. CASE FetchFails(b)
    <2>1. PICK r : /\ Scans(b, r) /\ SameStart(b, r) /\ r.at = "pull" /\ r.todo = scan[b].todo /\ ~r.full
                   /\ r.page = scan[b].page /\ r.first = scan[b].first
                   /\ b \in Backloaders => r.moved
      BY <1>7, FetchFailsScan
    <2>2. QED
      BY <1>1, <2>1, ScanFacts DEF Goes, SameStart
  <1>8. CASE Abort(b)
    BY <1>1, <1>8, AbortScan, ScanFacts DEF Goes, Idle
  <1>9. QED
    BY <1>2, <1>3, <1>4, <1>5, <1>6, <1>7, <1>8 DEF ScanStep

LEMMA BackloadersKept ==
    ASSUME TypeOK, ScansFit, BackloadersGoOn, [Next]_vars PROVE BackloadersGoOn'
  <1>1. SUFFICES ASSUME NEW b \in Backloaders, Goes(b) PROVE Goes(b)'
    BY DEF BackloadersGoOn, Goes
  <1>2. CASE Tick \/ UNCHANGED vars
    BY <1>1, <1>2, GoesBesides DEF Tick, vars
  <1>3. ASSUME NEW q \in PRs, Close(q) \/ Edit(q) \/ Reopen(q) PROVE Goes(b)'
    BY <1>1, <1>3, GoesOnList
  <1>4. ASSUME NEW s \in Scanners, Start(s) \/ ScanStep(s) \/ FetchFails(s) \/ Abort(s) PROVE Goes(b)'
    <2>1. CASE s = b
      BY <1>1, <1>4, <2>1, GoesByItself
    <2>2. CASE s # b
      <3>1. UNCHANGED pulls /\ recorded \subseteq recorded' /\ \E r : scan' = [scan EXCEPT ![s] = r]
        <4>1. UNCHANGED pulls /\ recorded \subseteq recorded'
          BY <1>4 DEF Start, ScanStep, Fetch, Handle, NextPage, ScanEnds, FetchFails, Abort
        <4>2. \E r : Scans(s, r)
          BY <1>4, StartScan, FetchScan, HandleScan, NextPageScan, ScanEndsScan, FetchFailsScan, AbortScan
             DEF ScanStep
        <4>3. QED
          BY <4>1, <4>2 DEF Scans
      <3>2. scan'[b] = scan[b]
        BY <2>2, <3>1 DEF TypeOK, Scanners
      <3>3. QED
        BY <1>1, <3>1, <3>2, GoesBesides
    <2>3. QED
      BY <2>1, <2>2
  <1>5. QED
    BY <1>2, <1>3, <1>4 DEF Next

\* A backload that ends has handled all PRs merged before it, for any list, page size
\* and number of other scans, unless a listed PR changed meanwhile or a page failed.
THEOREM BackloadsAreComplete == Spec => []BackloadIsComplete
  <1>1. Init => BackloadersGoOn
    BY DEF Init, BackloadersGoOn, Idle, Scanners
  <1>2. TypeOK /\ ScansFit /\ BackloadersGoOn /\ [Next]_vars => BackloadersGoOn'
    BY BackloadersKept
  <1>3. BackloadersGoOn => BackloadIsComplete
    BY DEF BackloadersGoOn, BackloadIsComplete, Coming
  <1>4. QED
    BY <1>1, <1>2, <1>3, ScanTypesHold, ScansAlwaysFit, PTL DEF Spec


-----------------------------------------------------------------------------
(* Updaters.                                                               *)

Serves(u) ==
    /\ HandledBefore(scan[u].since)
    /\ u \in Active => \A p \in Relevant : SavesAfter(u, p) => p \in recorded \/ Coming(u, p)

\* What was handled before a time still was, since whatever changes gets a later one.
LEMMA StillHandled ==
    ASSUME TypeOK, NEW time \in Int, time =< now, HandledBefore(time), recorded \subseteq recorded',
           \A p \in PRs : pulls'[p] = pulls[p] \/ pulls'[p].updated = now
    PROVE  HandledBefore(time)'
  BY DEF HandledBefore, Relevant, Merged, TypeOK, Times

\* The times an updater holds are numbers of the past.
LEMMA TimesOfScan ==
    ASSUME TypeOK, ScansFit, NEW u \in Scanners
    PROVE  /\ now \in Nat /\ lastPRUpdatedAt \in Nat /\ lastPRUpdatedAt =< now
           /\ scan[u].since \in Nat /\ scan[u].since =< now
           /\ scan[u].first \in Nat /\ scan[u].first =< now
           /\ scan[u].todo # <<>> => Head(scan[u].todo).updated \in 1 .. now
           /\ \A p \in PRs : pulls[p].updated \in Nat /\ pulls[p].updated =< now
  <1>1. PICK r \in ScanType : r = scan[u]
    BY ScanFacts
  <1>2. r.since \in Nat /\ r.first \in Nat /\ r.todo \in Seq(Item)
    BY DEF ScanType, Times
  <1>3. r.todo # <<>> => Head(r.todo) = r.todo[1] /\ 1 \in DOMAIN r.todo
    BY <1>2, RestFits
  <1>4. r.todo # <<>> => Head(r.todo).updated \in 1 .. now
    BY <1>1, <1>3 DEF ScansFit, Fits
  <1>5. r.since =< now /\ r.first =< now
    BY <1>1 DEF ScansFit, Fits
  <1>6. now \in Nat /\ lastPRUpdatedAt \in Nat /\ lastPRUpdatedAt =< now
        /\ \A p \in PRs : pulls[p].updated \in Nat /\ pulls[p].updated =< now
    BY DEF TypeOK, Times, ScansFit, TimesFit
  <1>7. QED
    BY <1>1, <1>2, <1>4, <1>5, <1>6

\* A PR that an updater owes is older than now, so that a changed PR is ahead of it.
LEMMA OwedAreOlder ==
    ASSUME TypeOK, ScansFit, NEW u \in Scanners, NEW p \in PRs, SavesAfter(u, p)
    PROVE  pulls[p].updated < now
  BY TimesOfScan DEF SavesAfter

\* An updater is not affected by what others do without changing the list.
LEMMA ServesBesides ==
    ASSUME TypeOK, ScansFit, NEW u \in Updaters, Serves(u), scan'[u] = scan[u], UNCHANGED pulls,
           recorded \subseteq recorded'
    PROVE  Serves(u)'
  <1>1. \A p \in Relevant : Coming(u, p) => Coming(u, p)'
    BY ComingStays DEF Scanners
  <1>2. HandledBefore(scan[u].since)'
    BY DEF Serves, HandledBefore, Relevant, Merged
  <1>3. QED
    BY <1>1, <1>2 DEF Serves, Relevant, Merged, Active, SavesAfter

\* Nor by PRs that are closed or edited: they go ahead of all that it owes.
LEMMA ServesOnList ==
    ASSUME TypeOK, ScansFit, NEW u \in Updaters, Serves(u), ~disturbed',
           NEW q \in PRs, Close(q) \/ Edit(q) \/ Reopen(q)
    PROVE  Serves(u)'
  <1> u \in Scanners
    BY DEF Scanners
  <1>1. UNCHANGED recorded /\ scan'[u].at = scan[u].at /\ scan'[u].since = scan[u].since
        /\ scan'[u].page = scan[u].page /\ scan'[u].todo = scan[u].todo
        /\ scan'[u].full = scan[u].full /\ scan'[u].first = scan[u].first
    <2>1. CASE Close(q)
      BY <2>1 DEF Close
    <2>2. CASE Edit(q) \/ Reopen(q)
      BY <2>2, MovedScans DEF Edit, Reopen
    <2>3. QED
      BY <2>1, <2>2
  <1>2. HandledBefore(scan[u].since)'
    <2>1. PICK time \in Nat : time = scan[u].since /\ time =< now
      BY TimesOfScan
    <2>2. HandledBefore(time)'
      BY <1>1, <2>1, MergedStay, StillHandled DEF Serves
    <2>3. QED
      BY <1>1, <2>1, <2>2 DEF HandledBefore
  <1>3. ASSUME NEW p \in Relevant', SavesAfter(u, p)', u \in Active
        PROVE  p \in recorded' \/ Coming(u, p)'
    <2>1. p \in PRs
      BY DEF Relevant, Merged
    <2>2. p # q
      <3>1. ~(now < scan[u].first) /\ (scan[u].todo # <<>> => ~(now < Head(scan[u].todo).updated))
        BY TimesOfScan
      <3>2. SUFFICES ASSUME p = q PROVE FALSE
        OBVIOUS
      <3>3. pulls'[p].updated = now
        BY <3>2, MergedStay
      <3>4. QED
        BY <1>1, <1>3, <3>1, <3>3 DEF SavesAfter
    <2>3. p \in Relevant /\ pulls'[p] = pulls[p]
      BY <2>1, <2>2, MergedStay DEF Relevant, Merged
    <2>4. SavesAfter(u, p)
      BY <1>1, <1>3, <2>3 DEF SavesAfter
    <2>5. CASE p \in recorded
      BY <1>1, <2>5
    <2>6. CASE Coming(u, p)
      <3>1. ~Reopen(q)
        BY <1>3 DEF Reopen
      <3>2. \A o \in Listed : o # q => pulls'[o] = pulls[o] /\ o \in Listed'
        BY MergedStay DEF Listed
      <3>3. Edit(q) => q \in Listed'
        BY DEF Edit, Listed, TypeOK
      <3>4. Older(p, q)'
        BY <2>1, <2>3, <2>4, OwedAreOlder, MergedStay DEF Older
      <3>5. \A o \in Listed : Before(u, o, p) => o \in Listed' /\ Before(u, o, p)'
        BY <2>3, <3>1, <3>2, <3>3, <3>4, MergedStay DEF Before, Older
      <3>6. QED
        BY <1>1, <2>3, <2>6, <3>5, ComingStays
    <2>7. QED
      BY <1>3, <2>3, <2>4, <2>5, <2>6 DEF Serves
  <1>4. u \in Active' => u \in Active
    BY <1>1 DEF Active
  <1>5. QED
    BY <1>2, <1>3, <1>4 DEF Serves


\* Each step of an updater handles what it owes or leaves it to come.
LEMMA ServesByItself ==
    ASSUME TypeOK, ScansFit, NEW u \in Updaters, Serves(u), HandledBefore(lastPRUpdatedAt), ~disturbed',
           Start(u) \/ ScanStep(u) \/ FetchFails(u) \/ Abort(u)
    PROVE  Serves(u)'
  <1> u \in Scanners /\ u \notin Backloaders
    BY OngoingIssuanceAssumption DEF Scanners
  <1>1. UNCHANGED pulls /\ recorded \subseteq recorded' /\ Relevant' = Relevant
    BY DEF Start, ScanStep, Fetch, Handle, NextPage, ScanEnds, FetchFails, Abort, Relevant, Merged
  <1>2. ASSUME NEW r, Scans(u, r), r.since = scan[u].since \/ r.since = lastPRUpdatedAt \/ r.since = 0
        PROVE  HandledBefore(scan[u].since)'
    <2>1. scan'[u] = r
      BY <1>2, ScanFacts
    <2>2. HandledBefore(0)
      BY TimesOfScan DEF HandledBefore, Relevant, Merged
    <2>3. QED
      BY <1>1, <1>2, <2>1, <2>2 DEF Serves, HandledBefore
  <1>3. CASE Start(u)
    <2>1. PICK r : /\ Scans(u, r) /\ r.at = "fetch" /\ r.page = 1 /\ r.todo = <<>> /\ ~r.full
                   /\ r.first = 0 /\ ~r.moved
                   /\ u \in Updaters => r.since = lastPRUpdatedAt /\ r.due = {}
                   /\ u \notin Updaters => r.since = 0 /\ r.due = Merged \ Skipped
      BY <1>3, StartScan
    <2>2. scan'[u] = r
      BY <2>1, ScanFacts
    <2>3. QED
      BY <1>2, <2>1, <2>2 DEF Serves, SavesAfter
  <1>4. CASE Fetch(u)
    <2>1. PICK r : /\ Scans(u, r) /\ SameStart(u, r) /\ r.at = "pull" /\ r.todo \in PullsOnPage(u)
                   /\ r.full = (Len(r.todo) = PageSize)
                   /\ r.page = scan[u].page /\ r.first = scan[u].first /\ r.moved = scan[u].moved
      BY <1>4, FetchScan
    <2>2. scan'[u] = r /\ scan[u].at = "fetch" /\ u \in Active
      BY <1>4, <2>1, ScanFacts DEF Fetch, Active
    <2>3. ASSUME NEW p \in Relevant, SavesAfter(u, p)' PROVE p \in recorded' \/ Coming(u, p)'
      <3>1. CASE scan[u].first = 0
        <4>1. (scan[u].page - 1) * PageSize = 0
          BY <2>2, <3>1, PageBounds, OngoingIssuanceAssumption DEF ScansFit, Fits
        <4>2. PICK n \in Nat : n = Ahead(u, p)
          BY AheadIsNat
        <4>3. QED
          BY <1>1, <2>1, <2>2, <4>1, <4>2, ComingFetched DEF Relevant
      <3>2. CASE scan[u].first # 0
        <4>1. SavesAfter(u, p)
          BY <1>1, <2>1, <2>2, <2>3, <3>2 DEF SavesAfter
        <4>2. p \in recorded \/ (scan[u].page - 1) * PageSize =< Ahead(u, p)
          BY <2>2, <4>1 DEF Serves, Coming
        <4>3. QED
          BY <1>1, <2>1, <2>2, <4>2, ComingFetched DEF Relevant
      <3>3. QED
        BY <3>1, <3>2
    <2>4. QED
      BY <1>1, <1>2, <2>1, <2>3 DEF Serves, SameStart
  <1>5. CASE FetchFails(u)
    <2>1. PICK r : /\ Scans(u, r) /\ SameStart(u, r) /\ r.at = "pull" /\ r.todo = scan[u].todo /\ ~r.full
                   /\ r.page = scan[u].page /\ r.first = scan[u].first
                   /\ u \in Backloaders => r.moved
      BY <1>5, FetchFailsScan
    <2>2. scan[u].at = "fetch" /\ scan'[u] = r
      BY <1>5, <2>1, ScanFacts DEF FetchFails
    <2>3. scan[u].first = 0 /\ scan[u].todo = <<>>
      <3>1. ~(scan[u].page > 1) /\ scan[u].page \in Nat \ {0}
        BY <1>5, ScanFacts DEF FetchFails, ScanType
      <3>2. QED
        BY <2>2, <3>1 DEF ScansFit, Fits
    <2>4. QED
      BY <1>2, <2>1, <2>2, <2>3 DEF Serves, SavesAfter, SameStart
  <1>6. CASE Handle(u)
    <2>1. PICK r : /\ Scans(u, r) /\ SameStart(u, r) /\ r.at = "pull" /\ r.page = scan[u].page
                   /\ r.full = scan[u].full /\ r.moved = scan[u].moved
                   /\ r.first = IF scan[u].first = 0 /\ u \in Updaters
                                THEN Head(scan[u].todo).updated ELSE scan[u].first
                   /\ r.todo = IF Finished(u, Head(scan[u].todo)) THEN <<>> ELSE Tail(scan[u].todo)
      BY <1>6, HandleScan
    <2>2. scan'[u] = r /\ scan[u].todo # <<>> /\ u \in Active
      BY <1>6, <2>1, ScanFacts DEF Handle, Active
    <2>3. r.first # 0
      BY <2>1, <2>2, TimesOfScan
    <2>4. ASSUME NEW p \in Relevant, SavesAfter(u, p)' PROVE p \in recorded' \/ Coming(u, p)'
      <3>1. SavesAfter(u, p)
        BY <1>1, <2>1, <2>2, <2>3, <2>4 DEF SavesAfter
      <3>2. QED
        BY <1>1, <1>6, <2>2, <3>1, ComingHandled DEF Serves
    <2>5. QED
      BY <1>1, <1>2, <2>1, <2>4 DEF Serves, SameStart
  <1>7. CASE NextPage(u)
    <2>1. PICK r : /\ Scans(u, r) /\ SameStart(u, r) /\ r.at = "fetch" /\ r.page = scan[u].page + 1
                   /\ r.todo = scan[u].todo /\ r.full = scan[u].full
                   /\ r.first = scan[u].first /\ r.moved = scan[u].moved
      BY <1>7, NextPageScan
    <2>2. scan'[u] = r /\ u \in Active
      BY <1>7, <2>1, ScanFacts DEF NextPage, Active
    <2>3. ASSUME NEW p \in Relevant, SavesAfter(u, p)' PROVE p \in recorded' \/ Coming(u, p)'
      <3>1. SavesAfter(u, p)
        BY <1>1, <2>1, <2>2, <2>3 DEF SavesAfter
      <3>2. QED
        BY <1>1, <1>7, <2>2, <3>1, ComingOnNextPage DEF Serves
    <2>4. QED
      BY <1>1, <1>2, <2>1, <2>3 DEF Serves, SameStart
  <1>8. ASSUME Scans(u, Idle) PROVE Serves(u)'
    <2>1. scan'[u] = Idle
      BY <1>8, ScanFacts
    <2>2. u \notin Active'
      BY <2>1 DEF Active, Idle
    <2>3. QED
      BY <1>2, <1>8, <2>2 DEF Serves, Idle
  <1>9. CASE ScanEnds(u) \/ Abort(u)
    BY <1>8, <1>9, ScanEndsScan, AbortScan
  <1>10. QED
    BY <1>3, <1>4, <1>5, <1>6, <1>7, <1>9 DEF ScanStep

\* The time that is saved is one before which all was handled.
LEMMA SavedIsHandled ==
    ASSUME TypeOK, ScansFit, UpdatersGoOn, ~disturbed', [Next]_vars
    PROVE  HandledBefore(lastPRUpdatedAt)'
  <1>1. ~disturbed
    BY DEF Next, vars, Tick, Close, Edit, Reopen, Start, ScanStep, Fetch, Handle, NextPage, ScanEnds,
           FetchFails, Abort
  <1>2. PICK time \in Nat : time = lastPRUpdatedAt /\ time =< now
    BY DEF TypeOK, Times, ScansFit, TimesFit
  <1>3. HandledBefore(time)
    BY <1>1, <1>2 DEF UpdatersGoOn
  <1>4. ASSUME UNCHANGED lastPRUpdatedAt PROVE HandledBefore(lastPRUpdatedAt)'
    <2>1. recorded \subseteq recorded'
      BY DEF Next, vars, Tick, Close, Edit, Reopen, Start, ScanStep, Fetch, Handle, NextPage, ScanEnds,
             FetchFails, Abort
    <2>2. \A p \in PRs : pulls'[p] = pulls[p] \/ pulls'[p].updated = now
      <3>1. CASE UNCHANGED pulls
        BY <3>1
      <3>2. CASE \E q \in PRs : Close(q) \/ Edit(q) \/ Reopen(q)
        BY <3>2, MergedStay
      <3>3. QED
        BY <3>1, <3>2 DEF Next, vars, Tick, Start, ScanStep, Fetch, Handle, NextPage, ScanEnds,
                          FetchFails, Abort
    <2>3. HandledBefore(time)'
      BY <1>2, <1>3, <2>1, <2>2, StillHandled
    <2>4. QED
      BY <1>2, <1>4, <2>3 DEF HandledBefore
  <1>5. ASSUME NEW u \in Updaters, ScanEnds(u), scan[u].first # 0 PROVE HandledBefore(lastPRUpdatedAt)'
    <2>1. lastPRUpdatedAt' = scan[u].first /\ UNCHANGED <<pulls, recorded>> /\ u \in Active
      BY <1>5 DEF ScanEnds, Active, Scanners
    <2>2. ASSUME NEW p \in Relevant, pulls[p].updated < scan[u].first PROVE p \in recorded
      <3>1. SavesAfter(u, p)
        BY <1>5, <2>2 DEF SavesAfter
      <3>2. ~Coming(u, p)
        BY <1>5, NothingIsComing DEF Scanners
      <3>3. QED
        BY <1>1, <2>1, <3>1, <3>2 DEF UpdatersGoOn
    <2>3. QED
      BY <2>1, <2>2 DEF HandledBefore, Relevant, Merged
  <1>6. CASE \E u \in Updaters : ScanEnds(u) /\ scan[u].first # 0
    BY <1>5, <1>6
  <1>7. CASE UNCHANGED lastPRUpdatedAt
    BY <1>4, <1>7
  <1>8. QED
    BY <1>6, <1>7 DEF Next, vars, Tick, Close, Edit, Reopen, Start, ScanStep, Fetch, Handle, NextPage,
                      ScanEnds, FetchFails, Abort

LEMMA UpdatersKept ==
    ASSUME TypeOK, ScansFit, UpdatersGoOn, [Next]_vars PROVE UpdatersGoOn'
  <1>1. SUFFICES ASSUME ~disturbed' PROVE HandledBefore(lastPRUpdatedAt)' /\ \A u \in Updaters : Serves(u)'
    BY DEF UpdatersGoOn, Serves
  <1>2. ~disturbed
    BY <1>1 DEF Next, vars, Tick, Close, Edit, Reopen, Start, ScanStep, Fetch, Handle, NextPage, ScanEnds,
                FetchFails, Abort
  <1>3. HandledBefore(lastPRUpdatedAt) /\ \A u \in Updaters : Serves(u)
    BY <1>2 DEF UpdatersGoOn, Serves
  <1>4. ASSUME NEW u \in Updaters PROVE Serves(u)'
    <2>1. CASE Tick \/ UNCHANGED vars
      BY <1>3, <2>1, ServesBesides DEF Tick, vars
    <2>2. ASSUME NEW q \in PRs, Close(q) \/ Edit(q) \/ Reopen(q) PROVE Serves(u)'
      BY <1>1, <1>3, <2>2, ServesOnList
    <2>3. ASSUME NEW s \in Scanners, Start(s) \/ ScanStep(s) \/ FetchFails(s) \/ Abort(s) PROVE Serves(u)'
      <3>1. CASE s = u
        BY <1>1, <1>3, <2>3, <3>1, ServesByItself
      <3>2. CASE s # u
        <4>1. UNCHANGED pulls /\ recorded \subseteq recorded'
          BY <2>3 DEF Start, ScanStep, Fetch, Handle, NextPage, ScanEnds, FetchFails, Abort
        <4>2. \E r : Scans(s, r)
          BY <2>3, StartScan, FetchScan, HandleScan, NextPageScan, ScanEndsScan, FetchFailsScan, AbortScan
             DEF ScanStep
        <4>3. scan'[u] = scan[u]
          BY <3>2, <4>2, ScanFacts DEF Scanners
        <4>4. QED
          BY <1>3, <4>1, <4>3, ServesBesides
      <3>3. QED
        BY <3>1, <3>2
    <2>4. QED
      BY <2>1, <2>2, <2>3 DEF Next
  <1>5. QED
    BY <1>1, <1>4, SavedIsHandled

\* A merged PR from before lastPRUpdatedAt was handled, for any number of updaters that
\* save their times in any order over any list that changes under them, as long as no
\* later page failed and no PR was reopened during a scan.
THEOREM OldAreAlwaysHandled == Spec => []OldAreHandled
  <1>1. Init => UpdatersGoOn
    <2>1. SUFFICES ASSUME Init PROVE UpdatersGoOn
      OBVIOUS
    <2>2. HandledBefore(0)
      BY <2>1 DEF Init, HandledBefore, Relevant, Merged
    <2>3. QED
      BY <2>1, <2>2 DEF Init, UpdatersGoOn, Active, Idle, Scanners
  <1>2. TypeOK /\ ScansFit /\ UpdatersGoOn /\ [Next]_vars => UpdatersGoOn'
    BY UpdatersKept
  <1>3. UpdatersGoOn => OldAreHandled
    BY DEF UpdatersGoOn, OldAreHandled, HandledBefore, Relevant
  <1>4. QED
    BY <1>1, <1>2, <1>3, ScanTypesHold, ScansAlwaysFit, PTL DEF Spec
=============================================================================
