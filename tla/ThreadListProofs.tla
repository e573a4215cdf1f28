--------------------------- MODULE ThreadListProofs ---------------------------
(***************************************************************************)
(* What an undisturbed walk through the list shows, for any number of      *)
(* threads, timestamps, filters, queries, limits and requests.  The        *)
(* invariant, ListInv, says that the cursor of a walk is the key of the    *)
(* last thread shown, and that the only request under way continues it.    *)
(***************************************************************************)
EXTENDS ThreadList, FiniteSetTheorems, SequenceTheorems, TLAPS

Sorted(s) == \A i, j \in DOMAIN s : i < j => <<s[i], s[j]>> \in Newer

\* A search between its statements: the text matches, all of them if there was
\* room, and what else was there has the tag.
TagsSound(r) ==
    r.pc = "tags" =>
        /\ r.found \in Seq(Created) /\ IsInjective(r.found) /\ r.there \subseteq Created
        /\ Len(r.found) < Clamp(r.limit) =>
              \A t \in r.there : t \in Range(r.found) \/ HasTag(t, r.route.words)

RequestsSound ==
    /\ pending = [k \in Requests |-> pending[k]]
    /\ \A k \in Requests : TagsSound(pending[k])

\* During a walk at most one request is under way, for its next page.
Alone ==
    /\ \A k \in Requests : pending[k] # NoRequest =>
          pending[k].pc = "list" /\ pending[k].route = route /\ pending[k].cursor = cursor
          /\ cursor # NoCursor
    /\ \A j, k \in Requests : pending[j] # NoRequest /\ pending[k] # NoRequest => j = k

CursorIsLast ==
    cursor # NoCursor =>
        /\ shown # << >>
        /\ cursor = [at |-> threads[shown[Len(shown)]].at, id |-> shown[Len(shown)]]

ListWalk ==
    /\ Sorted(shown) /\ CursorIsLast
    /\ owed \subseteq Wanted(route) /\ Wanted(route) \subseteq ever /\ Range(shown) \subseteq ever
    /\ \A t \in owed : t \in Range(shown) \/ (cursor # NoCursor /\ Reaches(cursor, t))

WalkSound ==
    walk => /\ Alone
            /\ Range(shown) \subseteq Created /\ IsInjective(shown)
            /\ route.kind = "list" => ListWalk
            /\ route.kind = "search" => owed \subseteq Range(shown)

ListInv == TypeOK /\ RequestsSound /\ WalkSound

-----------------------------------------------------------------------------
LEMMA NotARow == NoThread \notin Rows
<1>1. "none" \in DOMAIN NoThread
  BY DEF NoThread
<1>2. \A r \in Rows : DOMAIN r = {"at", "status", "content"}
  BY DEF Rows
<1> QED BY <1>1, <1>2

\* The rows of the threads that exist.
LEMMA RowTypes ==
  ASSUME TypeOK, NEW t \in Created
  PROVE  t \in Nat \ {0} /\ t \in Ids /\ threads[t] \in Rows /\ threads[t].at \in Nat
         /\ threads[t].at \in Instants
  BY IdsAssumption DEF TypeOK, Created, Rows

LEMMA LimitBounds == ASSUME NEW limit \in Int PROVE Clamp(limit) \in Nat /\ Clamp(limit) >= 1
  BY LimitsAssumption DEF Clamp

\* Newer orders the threads that exist, one after the other.
LEMMA NewerOrders ==
  ASSUME TypeOK
  PROVE  /\ \A t \in Created : <<t, t>> \notin Newer
         /\ \A t, u \in Created : t = u \/ <<t, u>> \in Newer \/ <<u, t>> \in Newer
         /\ \A t, u, v \in Created : <<t, u>> \in Newer /\ <<u, v>> \in Newer => <<t, v>> \in Newer
<1>1. \A t \in Created : t \in Nat /\ threads[t].at \in Nat
  BY RowTypes
<1>2. \A t, u \in Created : <<t, u>> \in Newer <=>
         threads[t].at > threads[u].at \/ (threads[t].at = threads[u].at /\ t > u)
  BY DEF Newer, Younger
<1> QED BY <1>1, <1>2

\* The cursor of a thread reaches the threads after it.
LEMMA CursorReaches ==
  ASSUME TypeOK, NEW t \in Created, NEW u \in Created
  PROVE  /\ [at |-> threads[t].at, id |-> t] # NoCursor
         /\ [at |-> threads[t].at, id |-> t] \in Cursors
         /\ Reaches([at |-> threads[t].at, id |-> t], u) <=> <<t, u>> \in Newer
<1>1. /\ t \in Nat \ {0} /\ u \in Nat \ {0} /\ threads[t].at \in Nat /\ threads[u].at \in Nat
      /\ t \in Ids /\ threads[t].at \in Instants
  BY RowTypes
<1> DEFINE c == [at |-> threads[t].at, id |-> t]
<1>2. c # NoCursor
  <2>1. c.id # NoCursor.id
    BY <1>1 DEF NoCursor
  <2> QED BY <2>1
<1>3. c \in Cursors
  BY <1>1 DEF Cursors
<1>4. Reaches(c, u) <=> threads[u].at < threads[t].at \/ (threads[u].at = threads[t].at /\ u < t)
  BY <1>2 DEF Reaches
<1>5. <<t, u>> \in Newer <=>
         threads[t].at > threads[u].at \/ (threads[t].at = threads[u].at /\ t > u)
  BY DEF Newer, Younger
<1> QED BY <1>1, <1>2, <1>3, <1>4, <1>5

-----------------------------------------------------------------------------
LEMMA LeastOfTwo ==
  ASSUME NEW m \in Nat, NEW n \in Nat
  PROVE  Min({m, n}) = IF m <= n THEN m ELSE n
<1> DEFINE l == IF m <= n THEN m ELSE n
<1>1. l \in {m, n} /\ \A y \in {m, n} : l <= y
  OBVIOUS
<1>2. ASSUME NEW x \in {m, n}, \A y \in {m, n} : x <= y PROVE x = l
  BY <1>2
<1> QED BY <1>1, <1>2 DEF Min

\* An answer of a query: rows, each once, and all of them if it is not full.
LEMMA AnswerRows ==
  ASSUME NEW S, IsFiniteSet(S), NEW n \in Nat, NEW before, NEW s \in Answers(S, n, before)
  PROVE  /\ s \in Seq(S) /\ Len(s) <= n /\ DOMAIN s = 1 .. Len(s) /\ IsInjective(s)
         /\ Len(s) < n => Range(s) = S
<1>1. Cardinality(S) \in Nat
  BY FS_CardinalityType
<1> DEFINE l == Min({n, Cardinality(S)})
<1>2. l \in Nat /\ l <= n /\ (l < n => l = Cardinality(S))
  BY <1>1, LeastOfTwo
<1>3. s \in [1 .. l -> S] /\ IsInjective(s)
  BY DEF Answers
<1> HIDE DEF l
<1>4. s \in Seq(S) /\ Len(s) = l /\ DOMAIN s = 1 .. l
  BY <1>2, <1>3
<1>5. ASSUME l < n PROVE Range(s) = S
  <2>1. Cardinality(1 .. l) = Cardinality(S) /\ IsFiniteSet(1 .. l)
    BY <1>2, <1>5, FS_Interval
  <2>2. s \in Injection(1 .. l, S)
    BY <1>3 DEF Injection, IsInjective
  <2>3. s \in Surjection(1 .. l, S)
    BY <2>1, <2>2, FS_Injection
  <2> QED BY <1>4, <2>3 DEF Range, Surjection
<1> QED BY <1>2, <1>3, <1>4, <1>5

LEMMA CreatedFinite == \A S \in SUBSET Created : IsFiniteSet(S)
  BY IdsAssumption, FS_Subset DEF Created

-----------------------------------------------------------------------------
\* ListThreads: a page is sorted, and what it leaves out of the rest is what
\* its cursor reaches.
LEMMA PageOfThreads ==
  ASSUME TypeOK, NEW f, NEW c, NEW limit \in Int, NEW answer \in ListThreads(f, c, limit)
  PROVE  /\ answer.threads \in Seq(Continued(f, c)) /\ Sorted(answer.threads)
         /\ answer.next \in Cursors
         /\ answer.next # NoCursor =>
               /\ answer.threads # << >>
               /\ answer.next = [at |-> threads[answer.threads[Len(answer.threads)]].at,
                                 id |-> answer.threads[Len(answer.threads)]]
         /\ \A t \in Continued(f, c) :
               t \in Range(answer.threads) \/ (answer.next # NoCursor /\ Reaches(answer.next, t))
<1> DEFINE n == Clamp(limit)
           S == Continued(f, c)
<1>1. n \in Nat /\ n >= 1
  BY LimitBounds
<1>2. S \subseteq Created /\ IsFiniteSet(S)
  BY CreatedFinite DEF Continued, Matching
<1>3. PICK rows \in Answers(S, n + 1, Newer) :
         answer = [threads |-> SubSeq(rows, 1, Min({n, Len(rows)})), next |-> NextCursor(rows, n)]
  BY DEF ListThreads
<1> HIDE DEF n, S
<1>4. /\ rows \in Seq(S) /\ Len(rows) <= n + 1 /\ DOMAIN rows = 1 .. Len(rows)
      /\ IsInjective(rows) /\ (Len(rows) < n + 1 => Range(rows) = S) /\ Len(rows) \in Nat
  BY <1>1, <1>2, <1>3, AnswerRows
<1>5. /\ \A i, j \in 1 .. Len(rows) : i < j => <<rows[j], rows[i]>> \notin Newer
      /\ \A t \in S \ Range(rows), i \in 1 .. Len(rows) : <<t, rows[i]>> \notin Newer
  BY <1>3, <1>4 DEF Answers
<1>6. \A i \in 1 .. Len(rows) : rows[i] \in S /\ rows[i] \in Created
  BY <1>2, <1>4
<1>7. \A i, j \in 1 .. Len(rows) : i < j => <<rows[i], rows[j]>> \in Newer
  <2>1. ASSUME NEW i \in 1 .. Len(rows), NEW j \in 1 .. Len(rows), i < j
        PROVE  <<rows[i], rows[j]>> \in Newer
    <3>1. rows[i] # rows[j]
      BY <1>4, <2>1 DEF IsInjective
    <3> QED BY <3>1, <2>1, <1>5, <1>6, NewerOrders
  <2> QED BY <2>1
<1>8. CASE Len(rows) <= n
  <2>1. Min({n, Len(rows)}) = Len(rows)
    BY <1>1, <1>4, <1>8, LeastOfTwo
  <2>2. SubSeq(rows, 1, Len(rows)) = rows
    BY <1>4
  <2>3. answer.threads = rows /\ answer.next = NoCursor
    BY <1>1, <1>3, <1>4, <1>8, <2>1, <2>2 DEF NextCursor
  <2>4. Sorted(rows)
    BY <1>4, <1>7 DEF Sorted
  <2>5. Range(rows) = S
    BY <1>1, <1>4, <1>8
  <2> QED BY <2>3, <2>4, <2>5, <1>4 DEF Cursors, S
<1>9. CASE Len(rows) > n
  <2>0. Min({n, Len(rows)}) = IF n <= Len(rows) THEN n ELSE Len(rows)
    BY <1>1, <1>4, LeastOfTwo
  <2>a. Len(rows) \in Nat /\ Len(rows) <= n + 1
    BY <1>4
  <2>b. Len(rows) = n + 1 /\ n <= Len(rows)
    BY <1>1, <1>9, <2>a
  <2>1. Len(rows) = n + 1 /\ Min({n, Len(rows)}) = n
    BY <2>0, <2>b
  <2> DEFINE p == SubSeq(rows, 1, n)
  <2>2. p \in Seq(S) /\ Len(p) = n /\ DOMAIN p = 1 .. n /\ \A i \in 1 .. n : p[i] = rows[i]
    BY <1>1, <1>4, <2>1
  <2>3. answer.threads = p /\ answer.next = [at |-> threads[rows[n]].at, id |-> rows[n]]
    BY <1>3, <1>9, <2>1 DEF NextCursor
  <2> HIDE DEF p
  <2>4. Sorted(p)
    BY <1>1, <1>7, <2>1, <2>2 DEF Sorted
  <2>5. p # << >> /\ p[Len(p)] = rows[n] /\ rows[n] \in Created /\ n \in 1 .. Len(rows)
    BY <1>1, <1>6, <2>1, <2>2
  <2>6. ASSUME NEW t \in S, t \notin Range(p)
        PROVE  Reaches(answer.next, t)
    <3>1. t \in Created
      BY <1>2
    <3>2. <<rows[n], t>> \in Newer
      <4>1. CASE t \in Range(rows)
        <5>1. PICK i \in 1 .. Len(rows) : t = rows[i]
          BY <4>1, <1>4 DEF Range
        <5>2. i = n + 1
          <6>1. i \notin 1 .. n
            BY <5>1, <2>2, <2>6 DEF Range
          <6> QED BY <6>1, <2>1, <1>1
        <5> QED BY <5>1, <5>2, <1>1, <1>7, <2>1
      <4>2. CASE t \notin Range(rows)
        <5>1. <<t, rows[n]>> \notin Newer /\ t # rows[n]
          BY <4>2, <1>4, <1>5, <2>5 DEF Range
        <5> QED BY <5>1, <3>1, <2>5, NewerOrders
      <4> QED BY <4>1, <4>2
    <3> QED BY <2>3, <2>5, <3>1, <3>2, CursorReaches
  <2>7. answer.next \in Cursors /\ answer.next # NoCursor
    BY <2>3, <2>5, CursorReaches
  <2> QED BY <2>2, <2>3, <2>4, <2>5, <2>6, <2>7 DEF S
<1> QED BY <1>1, <1>4, <1>8, <1>9

LEMMA SortedOnce ==
  ASSUME TypeOK, NEW s \in Seq(Created), Sorted(s)
  PROVE  IsInjective(s)
<1> SUFFICES ASSUME NEW i \in DOMAIN s, NEW j \in DOMAIN s, s[i] = s[j] PROVE i = j
  BY DEF IsInjective
<1>1. DOMAIN s = 1 .. Len(s) /\ Len(s) \in Nat
  OBVIOUS
<1>2. s[i] \in Created /\ <<s[i], s[i]>> \notin Newer
  BY <1>1, NewerOrders
<1>3. ~ (i < j) /\ ~ (j < i)
  BY <1>2 DEF Sorted
<1> QED BY <1>1, <1>3

\* A sequence continued by another.
LEMMA Appended ==
  ASSUME NEW S, NEW s \in Seq(S), NEW u \in Seq(S)
  PROVE  /\ s \o u \in Seq(S) /\ Range(s \o u) = Range(s) \cup Range(u)
         /\ Len(s \o u) = Len(s) + Len(u) /\ Len(s) \in Nat /\ Len(u) \in Nat
         /\ \A i \in 1 .. Len(s) : (s \o u)[i] = s[i]
         /\ \A i \in 1 .. Len(s) + Len(u) :
               \/ i \in 1 .. Len(s)
               \/ i - Len(s) \in 1 .. Len(u) /\ (s \o u)[i] = u[i - Len(s)]
         /\ DOMAIN s = 1 .. Len(s) /\ DOMAIN u = 1 .. Len(u)
<1> DEFINE x == s \o u
<1>1. /\ Len(s) \in Nat /\ Len(u) \in Nat /\ DOMAIN s = 1 .. Len(s) /\ DOMAIN u = 1 .. Len(u)
  OBVIOUS
<1>3. /\ x \in Seq(S) /\ Len(x) = Len(s) + Len(u) /\ DOMAIN x = 1 .. Len(x)
      /\ \A i \in 1 .. Len(s) + Len(u) : x[i] = IF i <= Len(s) THEN s[i] ELSE u[i - Len(s)]
  BY <1>1, ConcatProperties
<1> HIDE DEF x
<1>4. \A i \in 1 .. Len(s) : x[i] = s[i] /\ i \in 1 .. Len(s) + Len(u)
  BY <1>1, <1>3
<1>5. \A i \in 1 .. Len(u) : x[Len(s) + i] = u[i] /\ Len(s) + i \in 1 .. Len(s) + Len(u)
  BY <1>1, <1>3
<1>6. \A i \in 1 .. Len(s) + Len(u) :
         \/ i \in 1 .. Len(s)
         \/ i - Len(s) \in 1 .. Len(u) /\ x[i] = u[i - Len(s)]
  BY <1>1, <1>3
<1>8. Range(x) = Range(s) \cup Range(u)
  <2>1. /\ Range(x) = {x[i] : i \in 1 .. Len(s) + Len(u)}
        /\ Range(s) = {s[i] : i \in 1 .. Len(s)} /\ Range(u) = {u[i] : i \in 1 .. Len(u)}
    BY <1>1, <1>3 DEF Range
  <2>2. Range(s) \subseteq Range(x)
    BY <1>4, <2>1
  <2>3. Range(u) \subseteq Range(x)
    BY <1>5, <2>1
  <2>4. Range(x) \subseteq Range(s) \cup Range(u)
    BY <1>4, <1>6, <2>1
  <2> QED BY <2>2, <2>3, <2>4
<1> QED BY <1>1, <1>3, <1>4, <1>5, <1>6, <1>8 DEF x, Range

\* A page after what is shown: the order goes on.
LEMMA SortedGoesOn ==
  ASSUME TypeOK, NEW s \in Seq(Created), NEW u \in Seq(Created), Sorted(s), Sorted(u), s # << >>,
         \A t \in Range(u) : <<s[Len(s)], t>> \in Newer
  PROVE  Sorted(s \o u)
<1> DEFINE x == s \o u
<1>1. /\ Len(x) = Len(s) + Len(u) /\ Len(s) \in Nat /\ Len(u) \in Nat
      /\ \A i \in 1 .. Len(s) : x[i] = s[i]
      /\ \A i \in 1 .. Len(s) + Len(u) :
            \/ i \in 1 .. Len(s)
            \/ i - Len(s) \in 1 .. Len(u) /\ x[i] = u[i - Len(s)]
      /\ DOMAIN s = 1 .. Len(s) /\ DOMAIN u = 1 .. Len(u) /\ x \in Seq(Created)
  BY Appended
<1>2. DOMAIN x = 1 .. Len(s) + Len(u) /\ Len(s) \in 1 .. Len(s)
  BY <1>1
<1> HIDE DEF x
<1>3. ASSUME NEW i \in 1 .. Len(s) + Len(u), NEW j \in 1 .. Len(s) + Len(u), i < j
      PROVE  <<x[i], x[j]>> \in Newer
  <2>1. CASE j \in 1 .. Len(s)
    <3>1. i \in 1 .. Len(s)
      BY <1>3, <2>1, <1>1
    <3> QED BY <1>1, <1>3, <2>1, <3>1 DEF Sorted
  <2>2. CASE i \notin 1 .. Len(s)
    <3>1. /\ i - Len(s) \in 1 .. Len(u) /\ x[i] = u[i - Len(s)]
          /\ j - Len(s) \in 1 .. Len(u) /\ x[j] = u[j - Len(s)]
      BY <1>1, <1>3, <2>2
    <3>2. i - Len(s) < j - Len(s)
      BY <1>1, <1>3
    <3> QED BY <1>1, <3>1, <3>2 DEF Sorted
  <2>3. CASE i \in 1 .. Len(s) /\ j \notin 1 .. Len(s)
    <3>1. x[i] = s[i] /\ j - Len(s) \in 1 .. Len(u) /\ x[j] = u[j - Len(s)]
      BY <1>1, <2>3
    <3>2. x[j] \in Range(u) /\ x[j] \in Created /\ s[i] \in Created /\ s[Len(s)] \in Created
      <4>1. x[j] \in Range(u)
        BY <1>1, <3>1 DEF Range
      <4>2. x[j] \in Created
        BY <1>1, <3>1
      <4>3. s[i] \in Created /\ s[Len(s)] \in Created
        BY <1>1, <1>2, <2>3
      <4> QED BY <4>1, <4>2, <4>3
    <3>3. i = Len(s) \/ <<s[i], s[Len(s)]>> \in Newer
      <4>1. i = Len(s) \/ i < Len(s)
        <5>1. Len(s) \in Nat /\ i \in 1 .. Len(s)
          BY <1>1, <2>3
        <5> QED BY <5>1
      <4> QED BY <4>1, <1>1, <1>2, <2>3 DEF Sorted
    <3> QED BY <3>1, <3>2, <3>3, NewerOrders
  <2> QED BY <2>1, <2>2, <2>3
<1> QED BY <1>2, <1>3 DEF Sorted, x

\* Search, first statement.
LEMMA TextFound ==
  ASSUME TypeOK, NEW words, NEW limit \in Int, NEW s \in SearchText(words, limit)
  PROVE  /\ s \in Seq(Created) /\ IsInjective(s)
         /\ Len(s) < Clamp(limit) => Range(s) = TextMatches(words)
<1>1. Clamp(limit) \in Nat
  BY LimitBounds
<1>2. TextMatches(words) \subseteq Created /\ IsFiniteSet(TextMatches(words))
  BY CreatedFinite DEF TextMatches
<1>3. s \in Seq(TextMatches(words)) /\ IsInjective(s)
      /\ (Len(s) < Clamp(limit) => Range(s) = TextMatches(words))
  BY <1>1, <1>2, AnswerRows DEF SearchText
<1> QED BY <1>2, <1>3

\* Search, second statement: the tags fill what room the text left.
LEMMA TagsFill ==
  ASSUME TypeOK, NEW r, r.pc = "tags", TagsSound(r), r.limit \in Int,
         NEW s \in SearchTags(r.route.words, r.limit, r.found)
  PROVE  /\ s \in Seq(Created) /\ IsInjective(s)
         /\ Len(s) < Clamp(r.limit) => r.there \subseteq Range(s)
<1> DEFINE n == Clamp(r.limit)
           f == r.found
           S == {t \in Created \ Range(f) : HasTag(t, r.route.words)}
<1>1. n \in Nat
  BY LimitBounds
<1>2. /\ f \in Seq(Created) /\ IsInjective(f) /\ r.there \subseteq Created
      /\ Len(f) < n => \A t \in r.there : t \in Range(f) \/ HasTag(t, r.route.words)
  BY DEF TagsSound
<1>3. CASE ~ (Len(f) < n)
  <2>1. s = f
    BY <1>3 DEF SearchTags
  <2> QED BY <1>2, <1>3, <2>1
<1>4. CASE Len(f) < n
  <2>1. PICK u \in Answers(S, n - Len(f), Younger) : s = f \o u
    BY <1>4 DEF SearchTags
  <2>2. S \subseteq Created /\ IsFiniteSet(S) /\ Len(f) \in Nat /\ n - Len(f) \in Nat
    BY <1>1, <1>2, <1>4, CreatedFinite
  <2>3. S \cap Range(f) = {} /\ \A t \in r.there : t \in Range(f) \/ t \in S
    BY <1>2, <1>4
  <2> HIDE DEF S, n, f
  <2>4. u \in Seq(S) /\ IsInjective(u) /\ (Len(u) < n - Len(f) => Range(u) = S)
    BY <2>1, <2>2, AnswerRows
  <2>5. /\ s \in Seq(Created) /\ Range(s) = Range(f) \cup Range(u)
        /\ Len(s) = Len(f) + Len(u) /\ Len(f) \in Nat /\ Len(u) \in Nat
        /\ \A i \in 1 .. Len(f) : s[i] = f[i]
        /\ \A i \in 1 .. Len(f) + Len(u) :
              \/ i \in 1 .. Len(f)
              \/ i - Len(f) \in 1 .. Len(u) /\ s[i] = u[i - Len(f)]
        /\ DOMAIN f = 1 .. Len(f) /\ DOMAIN u = 1 .. Len(u)
    <3>1. f \in Seq(Created)
      BY <1>2 DEF f
    <3>2. u \in Seq(Created)
      BY <2>2, <2>4
    <3> QED BY <3>1, <3>2, <2>1, Appended
  <2>6. Range(u) \subseteq S
    BY <2>4, <2>5 DEF Range
  <2>7. DOMAIN s = 1 .. Len(f) + Len(u)
    BY <2>5
  <2>8. IsInjective(s)
    <3>1. ASSUME NEW i \in 1 .. Len(f) + Len(u), NEW j \in 1 .. Len(f) + Len(u), s[i] = s[j]
          PROVE  i = j
      <4>1. CASE i \in 1 .. Len(f) /\ j \in 1 .. Len(f)
        BY <1>2, <2>5, <3>1, <4>1 DEF IsInjective
      <4>2. CASE i \notin 1 .. Len(f) /\ j \notin 1 .. Len(f)
        <5>1. i - Len(f) = j - Len(f)
          BY <2>4, <2>5, <3>1, <4>2, SMTT(30) DEF IsInjective
        <5> QED BY <5>1, <2>5
      <4>3. ASSUME NEW x \in 1 .. Len(f), NEW y \in 1 .. Len(f) + Len(u), y \notin 1 .. Len(f)
            PROVE  s[x] # s[y]
        <5>1. s[x] \in Range(f)
          BY <2>5, <4>3 DEF Range
        <5>2. s[y] \in S
          <6>1. s[y] = u[y - Len(f)] /\ y - Len(f) \in DOMAIN u
            BY <2>5, <4>3
          <6> QED BY <6>1, <2>6 DEF Range
        <5> QED BY <5>1, <5>2, <2>3
      <4> QED BY <3>1, <4>1, <4>2, <4>3
    <3> QED BY <2>7, <3>1 DEF IsInjective
  <2>9. ASSUME Len(s) < n PROVE r.there \subseteq Range(s)
    <3>1. Len(u) < n - Len(f)
      BY <2>2, <2>5, <2>9, <1>1
    <3> QED BY <3>1, <2>3, <2>4, <2>5
  <2> QED BY <2>5, <2>8, <2>9 DEF n
<1> QED BY <1>3, <1>4

-----------------------------------------------------------------------------
\* The requests by their statements.
LEMMA RequestKinds ==
  ASSUME NEW r, IsRequest(r)
  PROVE  /\ r.pc = "list" => /\ r \in PageRequests /\ r.route \in Lists /\ r.limit \in Int
                             /\ r.cursor \in Cursors
         /\ r.pc = "text" => r \in SearchRequests /\ r.route \in Searches /\ r.limit \in Int
         /\ r.pc = "tags" => TagRequests(r) /\ r.limit \in Int
         /\ r.pc = "none" <=> r = NoRequest
         /\ r.pc \in {"none", "list", "text", "tags"}
<1>1. CASE r = NoRequest
  BY <1>1 DEF NoRequest
<1>2. CASE r \in PageRequests
  <2>1. r.pc = "list" /\ r.route \in Lists /\ r.limit \in Limits /\ r.cursor \in Cursors
    BY <1>2 DEF PageRequests
  <2>2. r # NoRequest
    BY <2>1 DEF NoRequest
  <2> QED BY <1>2, <2>1, <2>2, LimitTypes
<1>3. CASE r \in SearchRequests
  <2>1. r.pc = "text" /\ r.route \in Searches /\ r.limit \in Limits
    BY <1>3 DEF SearchRequests
  <2>2. r # NoRequest
    BY <2>1 DEF NoRequest
  <2> QED BY <1>3, <2>1, <2>2, LimitTypes
<1>4. CASE TagRequests(r)
  <2>1. r.pc = "tags" /\ r.limit \in Limits
    BY <1>4 DEF TagRequests
  <2>2. r # NoRequest
    BY <2>1 DEF NoRequest
  <2> QED BY <1>4, <2>1, <2>2, LimitTypes
<1> QED BY <1>1, <1>2, <1>3, <1>4 DEF IsRequest

LEMMA NoRequestSound == IsRequest(NoRequest) /\ TagsSound(NoRequest)
  BY DEF IsRequest, NoRequest, TagsSound

\* Operators of the table alone, in a step that leaves it.
LEMMA TableKept ==
  ASSUME UNCHANGED threads
  PROVE  /\ Created' = Created /\ Newer' = Newer
         /\ \A r : TagsSound(r) => TagsSound(r)'
<1>1. Created' = Created
  BY DEF Created
<1>2. Newer' = Newer
  BY <1>1 DEF Newer, Younger
<1>3. ASSUME NEW r, TagsSound(r) PROVE TagsSound(r)'
  BY <1>1, <1>3 DEF TagsSound, HasTag
<1> QED BY <1>1, <1>2, <1>3

\* A step of request k leaves the others' as they were.
LEMMA RequestSet ==
  ASSUME ListInv, UNCHANGED threads, NEW k \in Requests, NEW r, IsRequest(r), TagsSound(r),
         pending' = [pending EXCEPT ![k] = r]
  PROVE  /\ RequestsSound'
         /\ \A j \in Requests : pending'[j] = IF j = k THEN r ELSE pending[j]
         /\ \A j \in Requests : IsRequest(pending'[j])
<1>1. pending = [j \in Requests |-> pending[j]]
  BY DEF ListInv, RequestsSound
<1>2. \A j \in Requests : pending'[j] = IF j = k THEN r ELSE pending[j]
  BY <1>1
<1>3. pending' = [j \in Requests |-> pending'[j]]
  BY <1>1
<1>4. \A j \in Requests : TagsSound(pending'[j])
  BY <1>2 DEF ListInv, RequestsSound
<1>5. \A j \in Requests : TagsSound(pending[j])'
  BY <1>4, TableKept DEF TagsSound, HasTag
<1>6. \A j \in Requests : IsRequest(pending'[j])
  BY <1>2 DEF ListInv, TypeOK
<1> QED BY <1>2, <1>3, <1>5, <1>6 DEF RequestsSound

LEMMA NotWalking == ASSUME TypeOK', RequestsSound', ~walk' PROVE ListInv'
  BY DEF ListInv, WalkSound

LEMMA WantedExist == \A r : Wanted(r) \subseteq Created
  BY DEF Wanted, Matching, TextMatches

-----------------------------------------------------------------------------
\* A thread is created, resolved or reopened: the order, the texts and the
\* tags of the others stay, so the walk goes on.
LEMMA ChangeKeeps ==
  ASSUME ListInv, NEW ACTION step, Change(step),
         threads' \in [Ids -> Rows \cup {NoThread}], Created \subseteq Created',
         \A t \in Created : threads'[t].at = threads[t].at /\ threads'[t].content = threads[t].content
  PROVE  ListInv'
<1>1. /\ route' = route /\ shown' = shown /\ cursor' = cursor /\ pending' = pending /\ walk' = walk
      /\ owed' = (IF walk THEN owed \cap Wanted(route)' ELSE {})
      /\ ever' = (IF walk THEN ever \cup Wanted(route)' ELSE {})
  BY DEF Change, page
<1>2. TypeOK /\ RequestsSound /\ WalkSound
  BY DEF ListInv
<1>3. Wanted(route)' \subseteq Created'
  BY DEF Wanted, Matching, TextMatches
<1>4. TypeOK'
  <2>1. owed' \subseteq Created' /\ ever' \subseteq Created'
    BY <1>1, <1>2, <1>3 DEF TypeOK
  <2> QED BY <1>1, <1>2, <2>1 DEF TypeOK
<1>5. RequestsSound'
  <2>1. ASSUME NEW k \in Requests, pending[k].pc = "tags"
        PROVE  /\ pending[k].found \in Seq(Created') /\ IsInjective(pending[k].found)
               /\ pending[k].there \subseteq Created'
               /\ Len(pending[k].found) < Clamp(pending[k].limit) =>
                     \A t \in pending[k].there :
                        \/ t \in Range(pending[k].found)
                        \/ threads'[t].content.tags \cap pending[k].route.words # {}
    <3>1. /\ pending[k].found \in Seq(Created) /\ IsInjective(pending[k].found)
          /\ pending[k].there \subseteq Created
          /\ Len(pending[k].found) < Clamp(pending[k].limit) =>
                \A t \in pending[k].there :
                   \/ t \in Range(pending[k].found)
                   \/ threads[t].content.tags \cap pending[k].route.words # {}
      BY <1>2, <2>1 DEF RequestsSound, TagsSound, HasTag
    <3>2. pending[k].found \in Seq(Created')
      BY <3>1
    <3> QED BY <3>1, <3>2
  <2> QED BY <1>1, <1>2, <2>1 DEF RequestsSound, TagsSound, HasTag
<1>6. ASSUME walk' PROVE
         /\ Alone'
         /\ Range(shown') \subseteq Created' /\ IsInjective(shown')
         /\ route'.kind = "list" => ListWalk'
         /\ route'.kind = "search" => owed' \subseteq Range(shown')
  <2>1. walk /\ Alone /\ Range(shown) \subseteq Created /\ IsInjective(shown)
        /\ (route.kind = "list" => ListWalk) /\ (route.kind = "search" => owed \subseteq Range(shown))
    BY <1>1, <1>2, <1>6 DEF WalkSound
  <2>2. Alone'
    BY <1>1, <2>1 DEF Alone
  <2>3. owed' = owed \cap Wanted(route)' /\ ever' = ever \cup Wanted(route)'
    BY <1>1, <2>1
  <2>4. ASSUME route.kind = "list" PROVE ListWalk'
    <3>1. ListWalk
      BY <2>1, <2>4
    <3>2. \A t, u \in Created : <<t, u>> \in Newer => <<t, u>> \in Newer'
      BY DEF Newer, Younger
    <3>3. \A i \in DOMAIN shown : shown[i] \in Created
      BY <2>1 DEF Range
    <3>4. Sorted(shown)'
      BY <1>1, <3>1, <3>2, <3>3 DEF ListWalk, Sorted
    <3>5. CursorIsLast'
      <4>1. shown # << >> => Len(shown) \in DOMAIN shown
        BY <1>2 DEF TypeOK
      <4> QED BY <1>1, <3>1, <3>3, <4>1 DEF ListWalk, CursorIsLast
    <3>6. \A t \in owed : Reaches(cursor, t) => Reaches(cursor, t)'
      BY <1>1, <1>2 DEF Reaches, TypeOK
    <3> QED BY <1>1, <2>3, <3>1, <3>4, <3>5, <3>6 DEF ListWalk
  <2> QED BY <1>1, <2>1, <2>2, <2>3, <2>4
<1> QED BY <1>4, <1>5, <1>6 DEF ListInv, WalkSound

LEMMA CreateKeeps ==
  ASSUME ListInv, NEW t \in Ids, NEW at \in Instants, NEW content \in Contents, Create(t, at, content)
  PROVE  ListInv'
<1>1. /\ t \notin Created
      /\ threads' = [threads EXCEPT ![t] = [at |-> at, status |-> "open", content |-> content]]
  BY DEF Create, Change, CreateThread
<1>2. threads \in [Ids -> Rows \cup {NoThread}] /\ Created \subseteq Ids
  BY DEF ListInv, TypeOK, Created
<1>3. \A u \in Created : threads'[u] = threads[u]
  BY <1>1, <1>2
<1>4. threads' \in [Ids -> Rows \cup {NoThread}]
  BY <1>1, <1>2 DEF Rows
<1>5. Created \subseteq Created'
  BY <1>3, <1>2 DEF Created
<1> QED BY <1>3, <1>4, <1>5, ChangeKeeps DEF Create

LEMMA StatusKeeps ==
  ASSUME ListInv, NEW t \in Ids, Resolve(t) \/ Reopen(t)
  PROVE  ListInv'
<1>1. PICK status \in {"open", "resolved"} : Change(SetThreadStatus(t, status))
  BY DEF Resolve, Reopen
<1>2. t \in Created /\ threads' = [threads EXCEPT ![t].status = status]
  BY <1>1 DEF Change, SetThreadStatus
<1>3. TypeOK /\ threads \in [Ids -> Rows \cup {NoThread}] /\ Created \subseteq Ids
  BY DEF ListInv, TypeOK, Created
<1>4. \A u \in Created : threads[u] \in Rows
  BY <1>3, RowTypes
<1>5. /\ threads'[t] \in Rows /\ threads'[t].at = threads[t].at
      /\ threads'[t].content = threads[t].content
  BY <1>2, <1>3, <1>4 DEF Rows
<1>6. \A u \in Ids : u # t => threads'[u] = threads[u]
  BY <1>2, <1>3
<1>7. threads' \in [Ids -> Rows \cup {NoThread}]
  BY <1>2, <1>3, <1>5, <1>6
<1>8. Created \subseteq Created'
  BY <1>2, <1>3, <1>5, <1>6, NotARow DEF Created
<1>9. \A u \in Created : threads'[u].at = threads[u].at /\ threads'[u].content = threads[u].content
  BY <1>3, <1>5, <1>6
<1> QED BY <1>1, <1>7, <1>8, <1>9, ChangeKeeps

-----------------------------------------------------------------------------
\* A new route ends the walk.
LEMMA FirstIsRequest ==
  ASSUME NEW r \in Routes, NEW limit \in Limits
  PROVE  /\ IsRequest(First(r, limit)) /\ TagsSound(First(r, limit))
         /\ First(r, limit).route = r /\ First(r, limit) # NoRequest
<1>1. CASE r.kind = "list"
  <2>1. First(r, limit) = [pc |-> "list", route |-> r, cursor |-> NoCursor, limit |-> limit]
    BY <1>1 DEF First
  <2>2. r \in Lists /\ NoCursor \in Cursors
    BY <1>1 DEF Routes, Searches, Cursors
  <2>3. First(r, limit) # NoRequest
    BY <2>1 DEF NoRequest
  <2> QED BY <2>1, <2>2, <2>3 DEF IsRequest, PageRequests, TagsSound
<1>2. CASE r.kind # "list"
  <2>1. First(r, limit) = [pc |-> "text", route |-> r, limit |-> limit]
    BY <1>2 DEF First
  <2>2. r \in Searches
    BY <1>2 DEF Routes, Lists
  <2>3. First(r, limit) # NoRequest
    BY <2>1 DEF NoRequest
  <2> QED BY <2>1, <2>2, <2>3 DEF IsRequest, SearchRequests, TagsSound
<1> QED BY <1>1, <1>2

LEMMA NavigateKeeps ==
  ASSUME ListInv, NEW k \in Requests, NEW r \in Routes, NEW limit \in Limits,
         Navigate(k, r, limit) \/ OpenAgain(k, r, limit)
  PROVE  ListInv'
<1>1. /\ route' = r /\ threads' = threads /\ shown' = shown /\ cursor' = cursor
      /\ walk' = FALSE /\ owed' = {} /\ ever' = {}
      /\ pending' = [pending EXCEPT ![k] = First(r, limit)]
  BY DEF Navigate, OpenAgain, Send, NoWalk
<1>2. RequestsSound' /\ \A j \in Requests : IsRequest(pending'[j])
  BY <1>1, FirstIsRequest, RequestSet
<1>3. TypeOK'
  BY <1>1, <1>2 DEF ListInv, TypeOK
<1> QED BY <1>1, <1>2, <1>3, NotWalking

\* "Load more" continues the walk unless an answer is awaited.
LEMMA LoadMoreKeeps ==
  ASSUME ListInv, NEW k \in Requests, NEW limit \in Limits, LoadMore(k, limit)
  PROVE  ListInv'
<1> DEFINE r == [pc |-> "list", route |-> route, cursor |-> cursor, limit |-> limit]
<1>1. /\ route' = route /\ threads' = threads /\ shown' = shown /\ cursor' = cursor
      /\ route.kind = "list" /\ cursor # NoCursor
      /\ pending[k] = NoRequest /\ pending' = [pending EXCEPT ![k] = r]
      /\ IF Quiet THEN walk' = walk /\ owed' = owed /\ ever' = ever ELSE NoWalk
  BY DEF LoadMore, Send, past
<1>2. route \in Lists
  BY <1>1 DEF ListInv, TypeOK, Routes, Searches
<1>3. r # NoRequest
  <2>1. r.pc # NoRequest.pc
    BY DEF NoRequest
  <2> QED BY <2>1
<1>4. IsRequest(r) /\ TagsSound(r)
  BY <1>2 DEF ListInv, TypeOK, IsRequest, PageRequests, TagsSound
<1>5. /\ r.pc = "list" /\ r.route = route /\ r.cursor = cursor
  OBVIOUS
<1> HIDE DEF r
<1>6. /\ RequestsSound' /\ \A j \in Requests : IsRequest(pending'[j])
      /\ \A j \in Requests : pending'[j] = IF j = k THEN r ELSE pending[j]
  BY <1>1, <1>4, RequestSet
<1>7. Created' = Created /\ Newer' = Newer
  BY <1>1, TableKept
<1>8. CASE Quiet
  <2>1. TypeOK'
    BY <1>1, <1>6, <1>7, <1>8 DEF ListInv, TypeOK
  <2>2. ASSUME walk' PROVE WalkSound'
    <3>1. walk /\ WalkSound /\ walk' = walk /\ owed' = owed /\ ever' = ever
      BY <1>1, <1>8, <2>2 DEF ListInv
    <3>2. Alone'
      BY <1>1, <1>3, <1>5, <1>6, <1>8 DEF Alone, Quiet
    <3>3. ListWalk'
      <4>1. ListWalk
        BY <1>1, <3>1 DEF WalkSound
      <4>2. Sorted(shown)' /\ CursorIsLast'
        BY <1>1, <1>7, <4>1 DEF ListWalk, Sorted, CursorIsLast
      <4>3. Wanted(route)' = Wanted(route)
        BY <1>1, <1>7 DEF Wanted, Matching, TextMatches, HasTag, HasStatus
      <4> QED BY <1>1, <3>1, <4>1, <4>2, <4>3 DEF ListWalk, Reaches
    <3> QED BY <1>1, <1>7, <3>1, <3>2, <3>3 DEF WalkSound
  <2> QED BY <1>6, <2>1, <2>2 DEF ListInv, WalkSound
<1>9. CASE ~ Quiet
  <2>1. walk' = FALSE /\ owed' = {} /\ ever' = {}
    BY <1>1, <1>9 DEF NoWalk
  <2>2. TypeOK'
    BY <1>1, <1>6, <1>7, <2>1 DEF ListInv, TypeOK
  <2> QED BY <1>6, <2>1, <2>2, NotWalking
<1> QED BY <1>8, <1>9

LEMMA FailsKeeps ==
  ASSUME ListInv, NEW k \in Requests, RequestFails(k)
  PROVE  ListInv'
<1>1. /\ route' = route /\ threads' = threads /\ shown' = shown /\ cursor' = cursor
      /\ walk' = walk /\ owed' = owed /\ ever' = ever
      /\ pending' = [pending EXCEPT ![k] = NoRequest]
  BY DEF RequestFails, Done, past
<1>2. /\ RequestsSound' /\ \A j \in Requests : IsRequest(pending'[j])
      /\ \A j \in Requests : pending'[j] = IF j = k THEN NoRequest ELSE pending[j]
  BY <1>1, NoRequestSound, RequestSet
<1>3. Created' = Created /\ Newer' = Newer
  BY <1>1, TableKept
<1>4. TypeOK'
  BY <1>1, <1>2, <1>3 DEF ListInv, TypeOK
<1>5. ASSUME walk' PROVE WalkSound'
  <2>1. walk /\ WalkSound /\ Alone
    BY <1>1, <1>5 DEF ListInv, WalkSound
  <2>2. Alone'
    BY <1>1, <1>2, <2>1 DEF Alone
  <2>3. ASSUME route.kind = "list" PROVE ListWalk'
    <3>1. ListWalk
      BY <2>1, <2>3 DEF WalkSound
    <3>2. Sorted(shown)' /\ CursorIsLast'
      BY <1>1, <1>3, <3>1 DEF ListWalk, Sorted, CursorIsLast
    <3>3. Wanted(route)' = Wanted(route)
      BY <1>1, <1>3 DEF Wanted, Matching, TextMatches, HasTag, HasStatus
    <3> QED BY <1>1, <3>1, <3>2, <3>3 DEF ListWalk, Reaches
  <2> QED BY <1>1, <1>3, <2>1, <2>2, <2>3 DEF WalkSound
<1> QED BY <1>2, <1>4, <1>5 DEF ListInv, WalkSound

\* A page that is taken down has nothing to walk.
LEMMA ErrorKeeps ==
  ASSUME ListInv, NEW k \in Requests, ErrorAnswer(k)
  PROVE  ListInv'
<1>1. /\ route' = route /\ threads' = threads /\ shown' = << >> /\ cursor' = NoCursor
      /\ walk' = FALSE /\ owed' = {} /\ ever' = {}
      /\ pending' = [j \in Requests |-> NoRequest]
  BY DEF ErrorAnswer, NoWalk
<1>2. RequestsSound' /\ \A j \in Requests : IsRequest(pending'[j])
  BY <1>1, NoRequestSound DEF RequestsSound, TagsSound, NoRequest
<1>3. TypeOK'
  BY <1>1, <1>2 DEF ListInv, TypeOK, Cursors
<1> QED BY <1>1, <1>2, <1>3, NotWalking

-----------------------------------------------------------------------------
\* Operators of the page, in a step that leaves the table.
LEMMA PageKept ==
  ASSUME UNCHANGED threads, UNCHANGED route
  PROVE  /\ Wanted(route)' = Wanted(route) /\ Wanted(route) \subseteq Created
         /\ Sorted(shown') => Sorted(shown)'
         /\ \A t : cursor' # NoCursor /\ Reaches(cursor', t) => Reaches(cursor, t)'
<1>1. Created' = Created /\ Newer' = Newer
  BY TableKept
<1>2. Wanted(route)' = Wanted(route)
  BY <1>1 DEF Wanted, Matching, TextMatches, HasTag, HasStatus
<1>3. Sorted(shown') => Sorted(shown)'
  BY <1>1 DEF Sorted
<1>4. \A t : Reaches(cursor', t) => Reaches(cursor, t)'
  BY DEF Reaches
<1> QED BY <1>2, <1>3, <1>4, WantedExist

\* The first page of a list: nothing before it matters.
LEMMA FirstPageKeeps ==
  ASSUME ListInv, NEW k \in Requests, ListAnswer(k), pending[k].cursor = NoCursor
  PROVE  ListInv'
<1> DEFINE r == pending[k]
           f == r.route.filter
<1>1. TypeOK /\ IsRequest(r) /\ r.pc = "list"
  BY DEF ListInv, TypeOK, ListAnswer
<1>2. r.route \in Lists /\ r.limit \in Int /\ r.cursor = NoCursor
  BY <1>1, RequestKinds
<1>3. PICK answer \in ListThreads(f, r.cursor, r.limit) :
         shown' = answer.threads /\ StartsWalk(k, Wanted(route)) /\ cursor' = answer.next
  BY DEF ListAnswer
<1>4. /\ threads' = threads /\ route' = route /\ pending' = [pending EXCEPT ![k] = NoRequest]
  BY DEF ListAnswer, Done
<1>5. /\ RequestsSound' /\ \A j \in Requests : IsRequest(pending'[j])
      /\ \A j \in Requests : pending'[j] = IF j = k THEN NoRequest ELSE pending[j]
  BY <1>4, NoRequestSound, RequestSet
<1>6. Created' = Created /\ Newer' = Newer /\ Wanted(route)' = Wanted(route)
      /\ Wanted(route) \subseteq Created
  BY <1>4, TableKept, PageKept
<1>7. Continued(f, r.cursor) = Matching(f) /\ Matching(f) \subseteq Created /\ Created \subseteq Ids
  BY <1>2 DEF Continued, Reaches, Matching, Created
<1>8. /\ answer.threads \in Seq(Matching(f)) /\ Sorted(answer.threads)
      /\ answer.next \in Cursors
      /\ answer.next # NoCursor =>
            /\ answer.threads # << >>
            /\ answer.next = [at |-> threads[answer.threads[Len(answer.threads)]].at,
                              id |-> answer.threads[Len(answer.threads)]]
      /\ \A t \in Matching(f) :
            t \in Range(answer.threads) \/ (answer.next # NoCursor /\ Reaches(answer.next, t))
  <2> DEFINE S == Continued(f, r.cursor)
  <2>1. S = Matching(f)
    BY <1>7
  <2>2. /\ answer.threads \in Seq(S) /\ Sorted(answer.threads)
        /\ answer.next \in Cursors
        /\ answer.next # NoCursor =>
              /\ answer.threads # << >>
              /\ answer.next = [at |-> threads[answer.threads[Len(answer.threads)]].at,
                                id |-> answer.threads[Len(answer.threads)]]
        /\ \A t \in S :
              t \in Range(answer.threads) \/ (answer.next # NoCursor /\ Reaches(answer.next, t))
    <3> HIDE DEF f
    <3>1. r.limit \in Int
      BY <1>2
    <3> HIDE DEF r
    <3> QED BY <1>1, <3>1, PageOfThreads
  <2> HIDE DEF S
  <2> QED BY <2>1, <2>2
<1>9. shown' \in Seq(Matching(f)) /\ shown' \in Seq(Created) /\ shown' \in Seq(Ids)
  BY <1>3, <1>7, <1>8
<1>10. CASE walk' = TRUE /\ owed' = Wanted(route) /\ ever' = Wanted(route)
            /\ r.route = route /\ \A j \in Requests \ {k} : pending[j] = NoRequest
  <2>1. route.kind = "list" /\ Wanted(route) = Matching(f)
    BY <1>2, <1>10 DEF Lists, Wanted
  <2>2. TypeOK'
    BY <1>1, <1>3, <1>4, <1>5, <1>6, <1>8, <1>9, <1>10, <2>1 DEF TypeOK
  <2>3. Alone'
    BY <1>5, <1>10 DEF Alone
  <2>4. Range(shown') \subseteq Matching(f)
    BY <1>9 DEF Range
  <2>5. Sorted(shown') /\ IsInjective(shown')
    BY <1>1, <1>3, <1>8, <1>9, SortedOnce
  <2>6. Sorted(shown)' /\ CursorIsLast'
    BY <1>3, <1>4, <1>8, <2>5, PageKept DEF CursorIsLast
  <2>7. \A t \in owed' : t \in Range(shown') \/ (cursor' # NoCursor /\ Reaches(cursor, t)')
    BY <1>3, <1>4, <1>8, <1>10, <2>1, PageKept
  <2>8. ListWalk'
    BY <1>4, <1>6, <1>10, <2>1, <2>4, <2>6, <2>7 DEF ListWalk
  <2>9. WalkSound'
    BY <1>4, <1>6, <1>7, <2>1, <2>3, <2>4, <2>5, <2>8 DEF WalkSound
  <2> QED BY <1>5, <2>2, <2>9 DEF ListInv
<1>11. CASE walk' = FALSE /\ owed' = {} /\ ever' = {}
  <2>1. TypeOK'
    BY <1>1, <1>3, <1>4, <1>5, <1>8, <1>9, <1>11 DEF TypeOK
  <2> QED BY <1>5, <1>11, <2>1, NotWalking
<1> QED BY <1>3, <1>10, <1>11 DEF StartsWalk, NoWalk

\* A page that is appended: the walk's own, or one that belongs to no walk.
LEMMA NextPageKeeps ==
  ASSUME ListInv, NEW k \in Requests, ListAnswer(k), pending[k].cursor # NoCursor
  PROVE  ListInv'
<1> DEFINE r == pending[k]
           f == r.route.filter
           S == Continued(f, r.cursor)
<1>1. TypeOK /\ IsRequest(r) /\ r.pc = "list"
  BY DEF ListInv, TypeOK, ListAnswer
<1>2. r.route \in Lists /\ r.limit \in Int /\ r.cursor # NoCursor /\ r # NoRequest
  BY <1>1, RequestKinds DEF NoRequest
<1>3. PICK answer \in ListThreads(f, r.cursor, r.limit) :
         shown' = shown \o answer.threads /\ UNCHANGED past /\ cursor' = answer.next
  BY DEF ListAnswer
<1>4. /\ threads' = threads /\ route' = route /\ pending' = [pending EXCEPT ![k] = NoRequest]
      /\ walk' = walk /\ owed' = owed /\ ever' = ever
  BY <1>3 DEF ListAnswer, Done, past
<1>5. /\ RequestsSound' /\ \A j \in Requests : IsRequest(pending'[j])
      /\ \A j \in Requests : pending'[j] = IF j = k THEN NoRequest ELSE pending[j]
  BY <1>4, NoRequestSound, RequestSet
<1>6. Created' = Created /\ Newer' = Newer /\ Wanted(route)' = Wanted(route)
      /\ Wanted(route) \subseteq Created
  BY <1>4, TableKept, PageKept
<1>7. S = {t \in Matching(f) : Reaches(r.cursor, t)} /\ S \subseteq Created /\ Created \subseteq Ids
  BY DEF Continued, Matching, Created
<1>8. /\ answer.threads \in Seq(S) /\ Sorted(answer.threads)
      /\ answer.next \in Cursors
      /\ answer.next # NoCursor =>
            /\ answer.threads # << >>
            /\ answer.next = [at |-> threads[answer.threads[Len(answer.threads)]].at,
                              id |-> answer.threads[Len(answer.threads)]]
      /\ \A t \in S :
            t \in Range(answer.threads) \/ (answer.next # NoCursor /\ Reaches(answer.next, t))
  <2> HIDE DEF f
  <2>1. r.limit \in Int
    BY <1>2
  <2> HIDE DEF r
  <2> QED BY <1>1, <2>1, PageOfThreads
<1> DEFINE u == answer.threads
<1>9. u \in Seq(S) /\ u \in Seq(Created) /\ u \in Seq(Ids) /\ Range(u) \subseteq S
  BY <1>7, <1>8 DEF Range
<1>10. shown \in Seq(Ids) /\ shown' \in Seq(Ids)
  BY <1>1, <1>3, <1>9 DEF TypeOK
<1>11. WalkSound /\ (walk => Alone)
  BY DEF ListInv, WalkSound
<1>12. walk => r.route = route /\ r.cursor = cursor /\ route.kind = "list"
  BY <1>2, <1>11 DEF Alone, Lists
<1>13. TypeOK'
  BY <1>1, <1>3, <1>4, <1>5, <1>6, <1>8, <1>10, <1>12 DEF TypeOK
<1>14. ASSUME walk' PROVE WalkSound'
  <2>1. /\ Alone /\ ListWalk /\ Range(shown) \subseteq Created /\ IsInjective(shown)
        /\ r.route = route /\ r.cursor = cursor /\ route.kind = "list" /\ cursor # NoCursor
    BY <1>2, <1>4, <1>11, <1>12, <1>14 DEF WalkSound
  <2>2. Wanted(route) = Matching(f)
    BY <2>1 DEF Wanted
  <2>3. shown \in Seq(Created) /\ Sorted(shown) /\ shown # << >>
        /\ cursor = [at |-> threads[shown[Len(shown)]].at, id |-> shown[Len(shown)]]
    <3>1. DOMAIN shown = 1 .. Len(shown) /\ \A i \in 1 .. Len(shown) : shown[i] \in Created
      BY <1>10, <2>1 DEF Range
    <3>2. shown \in Seq(Created)
      BY <1>10, <3>1
    <3> QED BY <3>2, <2>1 DEF ListWalk, CursorIsLast
  <2> HIDE DEF u, S
  <2>4. \A t \in S : <<shown[Len(shown)], t>> \in Newer
    <3>1. shown[Len(shown)] \in Created
      BY <2>3
    <3> QED BY <3>1, <1>1, <1>7, <2>1, <2>3, CursorReaches
  <2>5. Sorted(shown \o u)
    <3>1. \A t \in Range(u) : <<shown[Len(shown)], t>> \in Newer
      BY <1>9, <2>4
    <3>2. u \in Seq(Created) /\ Sorted(u)
      BY <1>8, <1>9 DEF u
    <3>3. shown \in Seq(Created) /\ Sorted(shown) /\ shown # << >>
      BY <2>3
    <3> QED BY <1>1, <3>1, <3>2, <3>3, SortedGoesOn
  <2>6. /\ shown \o u \in Seq(Created) /\ Range(shown \o u) = Range(shown) \cup Range(u)
        /\ Len(shown \o u) = Len(shown) + Len(u) /\ Len(shown) \in Nat /\ Len(u) \in Nat
        /\ \A i \in 1 .. Len(shown) + Len(u) :
              \/ i \in 1 .. Len(shown)
              \/ i - Len(shown) \in 1 .. Len(u) /\ (shown \o u)[i] = u[i - Len(shown)]
    BY <1>9, <2>3, Appended
  <2>7. shown' = shown \o u
    BY <1>3 DEF u
  <2>8. Sorted(shown') /\ IsInjective(shown') /\ Range(shown') = Range(shown) \cup Range(u)
    BY <1>1, <2>5, <2>6, <2>7, SortedOnce
  <2>9. Alone'
    BY <1>2, <1>5, <2>1 DEF Alone
  <2>10. CursorIsLast'
    <3>1. ASSUME cursor' # NoCursor
          PROVE  /\ shown' # << >>
                 /\ cursor' = [at |-> threads[shown'[Len(shown')]].at, id |-> shown'[Len(shown')]]
      <4>1. u # << >> /\ cursor' = [at |-> threads[u[Len(u)]].at, id |-> u[Len(u)]]
        BY <1>3, <1>8, <3>1 DEF u
      <4>2. Len(u) >= 1
        BY <4>1, <1>9
      <4>3. Len(shown') = Len(shown) + Len(u) /\ shown'[Len(shown) + Len(u)] = u[Len(u)]
        BY <2>6, <2>7, <4>2
      <4> QED BY <4>1, <4>2, <4>3, <2>6
    <3> QED BY <1>4, <3>1 DEF CursorIsLast
  <2>11. Range(u) \subseteq ever /\ Range(u) \subseteq Created
    BY <1>6, <1>7, <1>9, <2>1, <2>2 DEF ListWalk
  <2>12. ASSUME NEW t \in owed, t \notin Range(shown), t \notin Range(u)
         PROVE  cursor' # NoCursor /\ Reaches(cursor, t)'
    <3>1. t \in S
      BY <1>7, <2>1, <2>2, <2>12 DEF ListWalk
    <3>2. answer.next # NoCursor /\ Reaches(answer.next, t)
      BY <1>8, <2>12, <3>1 DEF u
    <3> QED BY <1>3, <1>4, <3>2, PageKept
  <2>13. ListWalk'
    BY <1>4, <1>6, <2>1, <2>8, <2>10, <2>11, <2>12, PageKept DEF ListWalk
  <2> QED BY <1>4, <1>6, <2>1, <2>8, <2>9, <2>11, <2>13 DEF WalkSound
<1> QED BY <1>5, <1>13, <1>14 DEF ListInv, WalkSound

-----------------------------------------------------------------------------
\* The text matches of a search: no walk is under way.
LEMMA TextAnswerKeeps ==
  ASSUME ListInv, NEW k \in Requests, SearchTextAnswer(k)
  PROVE  ListInv'
<1> DEFINE r == pending[k]
<1>1. TypeOK /\ IsRequest(r) /\ r.pc = "text"
  BY DEF ListInv, TypeOK, SearchTextAnswer
<1>2. r.route \in Searches /\ r.limit \in Limits /\ r.limit \in Int /\ r # NoRequest
  <2>1. r \in SearchRequests
    BY <1>1, RequestKinds
  <2>2. r.route \in Searches /\ r.limit \in Limits
    BY <2>1 DEF SearchRequests
  <2>3. r # NoRequest
    BY <1>1 DEF NoRequest
  <2> QED BY <2>2, <2>3, LimitTypes
<1>3. PICK found \in SearchText(r.route.words, r.limit) :
         pending' = [pending EXCEPT ![k] =
            [pc |-> "tags", route |-> r.route, limit |-> r.limit, found |-> found,
             there |-> Wanted(r.route)]]
  BY DEF SearchTextAnswer
<1>4. /\ threads' = threads /\ route' = route /\ shown' = shown /\ cursor' = cursor
      /\ walk' = walk /\ owed' = owed /\ ever' = ever
  BY DEF SearchTextAnswer, past
<1> DEFINE q == [pc |-> "tags", route |-> r.route, limit |-> r.limit, found |-> found,
                 there |-> Wanted(r.route)]
<1>5. /\ q.pc = "tags" /\ q.route = r.route /\ q.limit = r.limit /\ q.found = found
      /\ q.there = Wanted(r.route)
  OBVIOUS
<1>6. pending' = [pending EXCEPT ![k] = q]
  BY <1>3
<1> HIDE DEF q
<1>7. /\ found \in Seq(Created) /\ IsInjective(found)
      /\ Len(found) < Clamp(r.limit) => Range(found) = TextMatches(r.route.words)
  <2> HIDE DEF r
  <2> QED BY <1>1, <1>2, TextFound
<1>8. Wanted(r.route) = TextMatches(r.route.words) \cup {t \in Created : HasTag(t, r.route.words)}
  BY <1>2 DEF Wanted, Searches
<1>9. Wanted(r.route) \subseteq Created /\ Created \subseteq Ids
  BY WantedExist DEF Created
<1>10. Range(found) \subseteq Created
  BY <1>7 DEF Range
<1>11. IsRequest(q)
  BY <1>2, <1>5, <1>9, <1>10 DEF IsRequest, TagRequests
<1>12. TagsSound(q)
  BY <1>5, <1>7, <1>8, <1>9 DEF TagsSound
<1>13. RequestsSound' /\ \A j \in Requests : IsRequest(pending'[j])
  BY <1>4, <1>6, <1>11, <1>12, RequestSet
<1>14. Created' = Created
  BY <1>4, TableKept
<1>15. TypeOK'
  BY <1>1, <1>4, <1>13, <1>14 DEF TypeOK
<1>16. ~ walk'
  BY <1>1, <1>2, <1>4 DEF ListInv, WalkSound, Alone
<1> QED BY <1>13, <1>15, <1>16, NotWalking

\* The page of a search: of what was there when it began, all are shown if its
\* limit left room.
LEMMA SearchAnswerKeeps ==
  ASSUME ListInv, NEW k \in Requests, SearchAnswer(k)
  PROVE  ListInv'
<1> DEFINE r == pending[k]
           there == IF Len(shown') < Clamp(r.limit) THEN r.there ELSE {}
<1>1. TypeOK /\ IsRequest(r) /\ r.pc = "tags" /\ TagsSound(r)
  BY DEF ListInv, TypeOK, SearchAnswer, RequestsSound
<1>2. r.route \in Searches /\ r.limit \in Int
  <2>1. TagRequests(r)
    BY <1>1, RequestKinds
  <2> QED BY <2>1, LimitTypes DEF TagRequests
<1>3. /\ shown' \in SearchTags(r.route.words, r.limit, r.found) /\ cursor' = NoCursor
      /\ threads' = threads /\ route' = route /\ pending' = [pending EXCEPT ![k] = NoRequest]
      /\ StartsWalk(k, there)
  BY DEF SearchAnswer, Done
<1>4. /\ RequestsSound' /\ \A j \in Requests : IsRequest(pending'[j])
      /\ \A j \in Requests : pending'[j] = IF j = k THEN NoRequest ELSE pending[j]
  BY <1>3, NoRequestSound, RequestSet
<1>5. Created' = Created /\ Wanted(route) \subseteq Created /\ Created \subseteq Ids
  BY <1>3, TableKept, WantedExist DEF Created
<1>6. /\ shown' \in Seq(Created) /\ IsInjective(shown')
      /\ Len(shown') < Clamp(r.limit) => r.there \subseteq Range(shown')
  <2> HIDE DEF r
  <2>1. ASSUME NEW s \in SearchTags(r.route.words, r.limit, r.found)
        PROVE  /\ s \in Seq(Created) /\ IsInjective(s)
               /\ Len(s) < Clamp(r.limit) => r.there \subseteq Range(s)
    BY <1>1, <1>2, TagsFill
  <2> QED BY <1>3, <2>1
<1>7. there \subseteq Range(shown') /\ there \subseteq Created
  BY <1>1, <1>6 DEF TagsSound
<1>8. shown' \in Seq(Ids) /\ Range(shown') \subseteq Created
  BY <1>5, <1>6 DEF Range
<1> HIDE DEF there
<1>9. NoCursor \in Cursors
  BY DEF Cursors
<1>10. CASE walk' = TRUE /\ owed' = there /\ ever' = Wanted(route)
            /\ r.route = route /\ \A j \in Requests \ {k} : pending[j] = NoRequest
  <2>1. route.kind = "search"
    BY <1>2, <1>10 DEF Searches
  <2>2. TypeOK'
    BY <1>1, <1>3, <1>4, <1>5, <1>7, <1>8, <1>9, <1>10 DEF TypeOK
  <2>3. Alone'
    BY <1>4, <1>10 DEF Alone
  <2>4. WalkSound'
    BY <1>3, <1>5, <1>6, <1>7, <1>8, <1>10, <2>1, <2>3 DEF WalkSound
  <2> QED BY <1>4, <2>2, <2>4 DEF ListInv
<1>11. CASE walk' = FALSE /\ owed' = {} /\ ever' = {}
  <2>1. TypeOK'
    BY <1>1, <1>3, <1>4, <1>8, <1>9, <1>11 DEF TypeOK
  <2> QED BY <1>4, <1>11, <2>1, NotWalking
<1> QED BY <1>3, <1>10, <1>11 DEF StartsWalk, NoWalk

-----------------------------------------------------------------------------
LEMMA InitListInv == Init => ListInv
<1> SUFFICES ASSUME Init PROVE ListInv
  OBVIOUS
<1>1. /\ threads = [t \in Ids |-> NoThread] /\ route \in Routes /\ shown = << >>
      /\ cursor = NoCursor /\ walk = FALSE /\ owed = {} /\ ever = {}
  BY DEF Init
<1>2. PICK k \in Requests, limit \in Limits :
         pending = [j \in Requests |-> IF j = k THEN First(route, limit) ELSE NoRequest]
  BY DEF Init
<1>3. \A j \in Requests : IsRequest(pending[j]) /\ TagsSound(pending[j])
  BY <1>1, <1>2, FirstIsRequest, NoRequestSound
<1>4. TypeOK
  BY <1>1, <1>3 DEF TypeOK, Cursors
<1>5. RequestsSound
  BY <1>2, <1>3 DEF RequestsSound
<1> QED BY <1>1, <1>4, <1>5 DEF ListInv, WalkSound

LEMMA NextListInv == ListInv /\ [Next]_vars => ListInv'
<1> SUFFICES ASSUME ListInv, [Next]_vars PROVE ListInv'
  OBVIOUS
<1>1. ASSUME NEW t \in Ids, NEW at \in Instants, NEW content \in Contents, Create(t, at, content)
      PROVE  ListInv'
  BY <1>1, CreateKeeps
<1>2. ASSUME NEW t \in Ids, Resolve(t) \/ Reopen(t) PROVE ListInv'
  BY <1>2, StatusKeeps
<1>3. ASSUME NEW k \in Requests, NEW limit \in Limits, LoadMore(k, limit) PROVE ListInv'
  BY <1>3, LoadMoreKeeps
<1>4. ASSUME NEW k \in Requests, NEW limit \in Limits, NEW r \in Routes,
             Navigate(k, r, limit) \/ OpenAgain(k, r, limit)
      PROVE  ListInv'
  BY <1>4, NavigateKeeps
<1>5. ASSUME NEW k \in Requests, ListAnswer(k) PROVE ListInv'
  BY <1>5, FirstPageKeeps, NextPageKeeps
<1>6. ASSUME NEW k \in Requests, SearchTextAnswer(k) PROVE ListInv'
  BY <1>6, TextAnswerKeeps
<1>7. ASSUME NEW k \in Requests, SearchAnswer(k) PROVE ListInv'
  BY <1>7, SearchAnswerKeeps
<1>8. ASSUME NEW k \in Requests, RequestFails(k) \/ ErrorAnswer(k) PROVE ListInv'
  BY <1>8, FailsKeeps, ErrorKeeps
<1>9. CASE UNCHANGED vars
  <2>1. /\ route' = route /\ threads' = threads /\ shown' = shown /\ cursor' = cursor
        /\ pending' = pending /\ walk' = walk /\ owed' = owed /\ ever' = ever
    BY <1>9 DEF vars, page, past
  <2>2. Created' = Created /\ Newer' = Newer /\ Wanted(route)' = Wanted(route)
    BY <2>1, TableKept, PageKept
  <2>3. TypeOK'
    BY <2>1, <2>2 DEF ListInv, TypeOK
  <2>4. RequestsSound'
    BY <2>1, <2>2 DEF ListInv, RequestsSound, TagsSound, HasTag
  <2>5. Alone => Alone'
    BY <2>1 DEF Alone
  <2>6. ListWalk => ListWalk'
    BY <2>1, <2>2 DEF ListWalk, Sorted, CursorIsLast, Reaches
  <2> QED BY <2>1, <2>2, <2>3, <2>4, <2>5, <2>6 DEF ListInv, WalkSound
<1> QED BY <1>1, <1>2, <1>3, <1>4, <1>5, <1>6, <1>7, <1>8, <1>9 DEF Next

LEMMA AlwaysListInv == Spec => []ListInv
  BY InitListInv, NextListInv, PTL DEF Spec

\* The table, the page's state and the requests under way keep their types, and
\* the page of a search that was read undisturbed has no cursor.
THEOREM PageTypeCorrect == Spec => []TypeOK
<1>1. ListInv => TypeOK
  BY DEF ListInv
<1> QED BY <1>1, AlwaysListInv, PTL

\* Pages appended one after the other repeat no thread and stay newest first,
\* whatever is created, resolved or reopened between them, also when threads
\* tie on created_at; nor does a search repeat one.
THEOREM NothingShownTwice == Spec => []ShownOnce
<1>1. ListInv => ShownOnce
  BY DEF ListInv, WalkSound, ListWalk, Sorted, ShownOnce, Listed
<1> QED BY <1>1, AlwaysListInv, PTL

\* No page border loses a thread: what matched the filter since the first page
\* is shown or ahead of the cursor, so the last page completes the list.
THEOREM NothingSkipped == Spec => []ListMissesNothing
<1>1. ListInv => ListMissesNothing
  BY DEF ListInv, WalkSound, ListWalk, ListMissesNothing, Listed
<1> QED BY <1>1, AlwaysListInv, PTL

\* A page shows only threads that matched its filter at some time since the
\* first page.
THEOREM OnlyMatchesShown == Spec => []ListShowsMatches
<1>1. ListInv => ListShowsMatches
  BY DEF ListInv, WalkSound, ListWalk, ListShowsMatches, Listed
<1> QED BY <1>1, AlwaysListInv, PTL

\* A search whose limit left room shows every thread that matched by text or by
\* tag when it began, although the two are queried one after the other.
THEOREM SearchComplete == Spec => []SearchMissesNothing
<1>1. ListInv => SearchMissesNothing
  BY DEF ListInv, WalkSound, SearchMissesNothing
<1> QED BY <1>1, AlwaysListInv, PTL
=============================================================================
