--------------------------- MODULE MentionsProofs ---------------------------
(***************************************************************************)
(* A post's mentions for any number of actors, names, handles and posts.   *)
(* MentionsInv says of every post under way that its report so far covers  *)
(* the handles it has passed, that its rows are whom those reached, and,   *)
(* as long as nobody has committed beside it, that the lookups behind it   *)
(* were empty.                                                             *)
(***************************************************************************)
EXTENDS Mentions, SequenceTheorems, FiniteSetTheorems, TLAPS

Records == [pc : Lookups \cup {"next", "posted"}, author : Agents,
            handles : Seq(Names), todo : Seq(Names),
            resolved : Seq(Names), unresolved : Seq(Names),
            rows : Seq(Agents), who : Seq(Agents), quiet : BOOLEAN]
Refusals == [pc : {"refused"}, author : Agents]

\* The rows are whom the resolved handles reached, each once, not the author.
Delivered(t) ==
    /\ IsInjective(t.rows)
    /\ t.author \notin ToSet(t.rows)
    /\ ToSet(t.rows) = ToSet(t.who) \ {t.author}
    /\ Len(t.who) = Len(t.resolved)

\* Every handle is resolved, unresolved or still to do.
Reported(t) ==
    /\ IsInjective(t.resolved) /\ IsInjective(t.unresolved)
    /\ ToSet(t.resolved) \cap ToSet(t.unresolved) = {}
    /\ ToSet(t.resolved) \cup ToSet(t.unresolved) \cup ToSet(t.todo) = ToSet(t.handles)

\* A lookup is for a handle that comes for the first time.
AtHandle(t) ==
    /\ t.pc \in Lookups => /\ t.todo # << >>
                           /\ Head(t.todo) \notin ToSet(t.resolved) \cup ToSet(t.unresolved)
    /\ t.pc = "posted" => t.todo = << >>

\* What an undisturbed post has found so far still holds of the tables.
StillTrue(t) ==
    /\ \A i \in DOMAIN t.resolved : Tier(t.resolved[i]) = {t.who[i]}
    /\ \A i \in DOMAIN t.unresolved : Cardinality(Tier(t.unresolved[i])) # 1
    /\ t.pc \in Lookups \ {"nick"} => {a \in Ids : nick[a] = Head(t.todo)} = {}
    /\ t.pc \in {"foldednick", "foldeddisplay"} => {a \in Ids : display[a] = Head(t.todo)} = {}
    /\ t.pc = "foldeddisplay" => Folds(nick, Head(t.todo)) = {}

Sound(t) == /\ t \in Records /\ Delivered(t) /\ Reported(t) /\ AtHandle(t)
            /\ t.quiet => StillTrue(t)

TablesOK ==
    /\ display \in [Ids -> Names \cup {None}]
    /\ nick \in [Ids -> Names \cup {None}]
    /\ \A a, b \in Ids : a # b =>
          /\ Created(a) => display[a] # display[b]
          /\ nick[a] # None => nick[a] # nick[b]
    /\ \A a \in Ids : Created(a) => a \in Agents

PostsOK == /\ DOMAIN tx = Posts
           /\ \A p \in Posts : \/ tx[p] = Idle
                               \/ tx[p] \in Refusals
                               \/ Sound(tx[p])

MentionsInv == TablesOK /\ PostsOK

-----------------------------------------------------------------------------
\* Sequences as sets of what they hold.
LEMMA AppendSet ==
  ASSUME NEW S, NEW s \in Seq(S), NEW x \in S
  PROVE  /\ Append(s, x) \in Seq(S)
         /\ ToSet(Append(s, x)) = ToSet(s) \cup {x}
         /\ x \notin ToSet(s) /\ IsInjective(s) => IsInjective(Append(s, x))
<1>1. /\ Append(s, x) \in Seq(S)
      /\ Len(Append(s, x)) = Len(s) + 1
      /\ \A i \in 1 .. Len(s) : Append(s, x)[i] = s[i]
      /\ Append(s, x)[Len(s) + 1] = x
  BY AppendProperties
<1>2. /\ DOMAIN s = 1 .. Len(s) /\ DOMAIN Append(s, x) = 1 .. Len(s) + 1 /\ Len(s) \in Nat
  BY <1>1, LenProperties
<1>3. 1 .. Len(s) + 1 = (1 .. Len(s)) \cup {Len(s) + 1}
  BY <1>2
<1>4. ToSet(Append(s, x)) = ToSet(s) \cup {x}
  BY <1>1, <1>2, <1>3 DEF ToSet
<1>5. ASSUME x \notin ToSet(s), IsInjective(s) PROVE IsInjective(Append(s, x))
  BY <1>1, <1>2, <1>3, <1>5 DEF ToSet, IsInjective
<1> QED BY <1>1, <1>4, <1>5

LEMMA HeadTailSet ==
  ASSUME NEW S, NEW s \in Seq(S), s # << >>
  PROVE  /\ Head(s) \in S /\ Tail(s) \in Seq(S)
         /\ ToSet(s) = {Head(s)} \cup ToSet(Tail(s))
<1>1. /\ Head(s) \in S /\ Tail(s) \in Seq(S)
      /\ Len(Tail(s)) = Len(s) - 1
      /\ \A i \in 1 .. Len(Tail(s)) : Tail(s)[i] = s[i + 1]
  BY HeadTailProperties
<1>2. /\ Len(s) \in Nat /\ Len(s) >= 1 /\ DOMAIN s = 1 .. Len(s)
  BY LenProperties, EmptySeq
<1>3. Head(s) = s[1]
  BY <1>2
<1>4. DOMAIN Tail(s) = 1 .. Len(s) - 1
  BY <1>1, LenProperties
<1>5. ASSUME NEW i \in 1 .. Len(s), i # 1 PROVE s[i] \in ToSet(Tail(s))
  <2>1. i - 1 \in 1 .. Len(Tail(s)) /\ Tail(s)[i - 1] = s[i]
    BY <1>1, <1>2, <1>5
  <2> QED BY <2>1, <1>1, <1>4 DEF ToSet
<1>6. ToSet(s) \subseteq {Head(s)} \cup ToSet(Tail(s))
  BY <1>2, <1>3, <1>5 DEF ToSet
<1>7. {Head(s)} \cup ToSet(Tail(s)) \subseteq ToSet(s)
  <2>1. ASSUME NEW i \in 1 .. Len(s) - 1 PROVE Tail(s)[i] = s[i + 1] /\ i + 1 \in DOMAIN s
    BY <1>1, <1>2, <2>1
  <2> QED BY <2>1, <1>2, <1>3, <1>4 DEF ToSet
<1> QED BY <1>1, <1>6, <1>7

LEMMA ConcatInjective ==
  ASSUME NEW S, NEW s \in Seq(S), NEW t \in Seq(S),
         IsInjective(s), IsInjective(t), ToSet(s) \cap ToSet(t) = {}
  PROVE  IsInjective(s \o t)
<1>1. /\ s \o t \in Seq(S) /\ Len(s \o t) = Len(s) + Len(t)
      /\ \A i \in 1 .. Len(s) + Len(t) :
            (s \o t)[i] = IF i <= Len(s) THEN s[i] ELSE t[i - Len(s)]
  BY ConcatProperties
<1>2. /\ Len(s) \in Nat /\ Len(t) \in Nat
      /\ DOMAIN s = 1 .. Len(s) /\ DOMAIN t = 1 .. Len(t)
      /\ DOMAIN (s \o t) = 1 .. Len(s) + Len(t)
  BY <1>1, LenProperties
<1>3. ASSUME NEW i \in 1 .. Len(s) + Len(t), NEW j \in 1 .. Len(s) + Len(t),
             (s \o t)[i] = (s \o t)[j]
      PROVE  i = j
  <2>1. CASE i <= Len(s) /\ j <= Len(s)
    BY <1>1, <1>2, <1>3, <2>1 DEF IsInjective
  <2>2. CASE i > Len(s) /\ j > Len(s)
    <3>1. i - Len(s) \in 1 .. Len(t) /\ j - Len(s) \in 1 .. Len(t)
      BY <1>2, <2>2
    <3>2. t[i - Len(s)] = t[j - Len(s)]
      BY <1>1, <1>2, <1>3, <2>2
    <3>3. i - Len(s) = j - Len(s)
      BY <1>2, <3>1, <3>2 DEF IsInjective
    <3> QED BY <1>2, <3>3
  <2>3. CASE i <= Len(s) /\ j > Len(s)
    <3>1. i \in DOMAIN s /\ j - Len(s) \in DOMAIN t /\ s[i] = t[j - Len(s)]
      BY <1>1, <1>2, <1>3, <2>3
    <3> QED BY <3>1 DEF ToSet
  <2>4. CASE i > Len(s) /\ j <= Len(s)
    <3>1. j \in DOMAIN s /\ i - Len(s) \in DOMAIN t /\ s[j] = t[i - Len(s)]
      BY <1>1, <1>2, <1>3, <2>4
    <3> QED BY <3>1 DEF ToSet
  <2> QED BY <1>2, <2>1, <2>2, <2>3, <2>4
<1> QED BY <1>2, <1>3 DEF IsInjective

-----------------------------------------------------------------------------
\* Whom a name reaches: the first set that is not empty.
LEMMA TierFirst ==
  ASSUME NEW n
  PROVE  LET A == {a \in Ids : nick[a] = n}
             B == {a \in Ids : display[a] = n}
             C == Folds(nick, n)
             D == Folds(display, n)
         IN  Tier(n) = IF A # {} THEN A ELSE IF B # {} THEN B ELSE IF C # {} THEN C ELSE D
<1> DEFINE A == {a \in Ids : nick[a] = n}
           B == {a \in Ids : display[a] = n}
           C == Folds(nick, n)
           D == Folds(display, n)
           tiers == <<A, B, C, D>>
           full  == {i \in 1 .. 4 : tiers[i] # {}}
<1>1. Tier(n) = IF full = {} THEN {} ELSE tiers[CHOOSE i \in full : \A j \in full : i <= j]
  BY DEF Tier
<1> HIDE DEF A, B, C, D
<1>2. /\ tiers[1] = A /\ tiers[2] = B /\ tiers[3] = C /\ tiers[4] = D
      /\ \A i \in 1 .. 4 : i \in {1, 2, 3, 4}
  OBVIOUS
<1>3. ASSUME NEW k \in full, \A j \in full : k <= j
      PROVE  (CHOOSE i \in full : \A j \in full : i <= j) = k
  BY <1>3
<1>4. CASE A # {}
  <2>1. 1 \in full /\ \A j \in full : 1 <= j
    BY <1>2, <1>4
  <2>2. Tier(n) = A
    BY <1>1, <1>2, <1>3, <2>1
  <2> QED BY <1>4, <2>2 DEF A, B, C, D
<1>5. CASE A = {} /\ B # {}
  <2>1. 2 \in full /\ 1 \notin full
    BY <1>2, <1>5
  <2>2. \A j \in full : 2 <= j
    BY <2>1
  <2>3. Tier(n) = B
    BY <1>1, <1>2, <1>3, <2>1, <2>2
  <2> QED BY <1>5, <2>3 DEF A, B, C, D
<1>6. CASE A = {} /\ B = {} /\ C # {}
  <2>1. 3 \in full /\ 1 \notin full /\ 2 \notin full
    BY <1>2, <1>6
  <2>2. \A j \in full : 3 <= j
    BY <2>1
  <2>3. Tier(n) = C
    BY <1>1, <1>2, <1>3, <2>1, <2>2
  <2> QED BY <1>6, <2>3 DEF A, B, C, D
<1>7. CASE A = {} /\ B = {} /\ C = {} /\ D # {}
  <2>1. 4 \in full /\ 1 \notin full /\ 2 \notin full /\ 3 \notin full
    BY <1>2, <1>7
  <2>2. \A j \in full : 4 <= j
    BY <2>1
  <2>3. Tier(n) = D
    BY <1>1, <1>2, <1>3, <2>1, <2>2
  <2> QED BY <1>7, <2>3 DEF A, B, C, D
<1>8. CASE A = {} /\ B = {} /\ C = {} /\ D = {}
  <2>1. full = {}
    BY <1>2, <1>8
  <2>2. Tier(n) = D
    BY <1>1, <1>8, <2>1
  <2> QED BY <1>8, <2>2 DEF A, B, C, D
<1> QED BY <1>4, <1>5, <1>6, <1>7, <1>8

\* Steps that leave the tables alone leave what was found true.
LEMMA SoundStays ==
  ASSUME UNCHANGED <<display, nick>>, NEW r
  PROVE  Sound(r)' <=> Sound(r)
<1>1. StillTrue(r)' <=> StillTrue(r)
  BY DEF StillTrue, Tier, Folds
<1> QED BY <1>1 DEF Sound

LEMMA PostStep ==
  ASSUME MentionsInv, UNCHANGED <<display, nick>>, NEW p \in Posts, NEW r,
         tx' = [tx EXCEPT ![p] = r], r = Idle \/ r \in Refusals \/ Sound(r)
  PROVE  MentionsInv'
<1>1. TablesOK'
  BY DEF MentionsInv, TablesOK, Created
<1>2. DOMAIN tx' = Posts /\ \A q \in Posts : tx'[q] = IF q = p THEN r ELSE tx[q]
  BY DEF MentionsInv, PostsOK
<1>3. ASSUME NEW q \in Posts
      PROVE  tx'[q] = Idle \/ tx'[q] \in Refusals \/ Sound(tx'[q])
  BY <1>2 DEF MentionsInv, PostsOK
<1>4. ASSUME NEW q \in Posts, Sound(tx'[q])
      PROVE  Sound(tx[q])'
  BY <1>4, SoundStays DEF Sound
<1> QED BY <1>1, <1>2, <1>3, <1>4 DEF MentionsInv, PostsOK

-----------------------------------------------------------------------------
\* A handle that reached somebody, and one that reached nobody, leave the post
\* sound with one handle less to do.
LEMMA MatchedSound ==
  ASSUME NEW t, Sound(t), t.pc \in Lookups, NEW a \in Agents,
         t.quiet => Tier(Head(t.todo)) = {a}
  PROVE  Sound(Matched(t, a))
<1> DEFINE r == Matched(t, a)
           n == Head(t.todo)
<1>t. t \in Records /\ Delivered(t) /\ Reported(t) /\ AtHandle(t)
  BY DEF Sound
<1>1. /\ n \in Names /\ Tail(t.todo) \in Seq(Names)
      /\ ToSet(t.todo) = {n} \cup ToSet(Tail(t.todo))
      /\ n \notin ToSet(t.resolved) /\ n \notin ToSet(t.unresolved)
  <2>1. t.todo \in Seq(Names) /\ t.todo # << >>
    BY <1>t DEF Records, AtHandle
  <2> QED BY <2>1, <1>t, HeadTailSet DEF AtHandle
<1>2. /\ Append(t.resolved, n) \in Seq(Names)
      /\ ToSet(Append(t.resolved, n)) = ToSet(t.resolved) \cup {n}
      /\ IsInjective(Append(t.resolved, n))
  <2>1. t.resolved \in Seq(Names) /\ IsInjective(t.resolved)
    BY <1>t DEF Records, Reported
  <2> QED BY <2>1, <1>1, AppendSet
<1>3. /\ Append(t.who, a) \in Seq(Agents)
      /\ ToSet(Append(t.who, a)) = ToSet(t.who) \cup {a}
  <2>1. t.who \in Seq(Agents)
    BY <1>t DEF Records
  <2> QED BY <2>1, AppendSet
<1>4. /\ Mentioned(t, a) \in Seq(Agents) /\ IsInjective(Mentioned(t, a))
      /\ ToSet(Mentioned(t, a)) = ToSet(t.rows) \cup ({a} \ {t.author})
  <2>1. t.rows \in Seq(Agents) /\ IsInjective(t.rows) /\ t.author \notin ToSet(t.rows)
    BY <1>t DEF Records, Delivered
  <2>2. CASE a = t.author \/ a \in ToSet(t.rows)
    BY <2>1, <2>2 DEF Mentioned
  <2>3. CASE a # t.author /\ a \notin ToSet(t.rows)
    <3>1. Mentioned(t, a) = Append(t.rows, a)
      BY <2>3 DEF Mentioned
    <3>2. /\ Append(t.rows, a) \in Seq(Agents) /\ IsInjective(Append(t.rows, a))
          /\ ToSet(Append(t.rows, a)) = ToSet(t.rows) \cup {a}
      BY <2>1, <2>3, AppendSet
    <3> QED BY <2>3, <3>1, <3>2
  <2> QED BY <2>2, <2>3
<1>5. /\ r.pc = "next" /\ r.author = t.author /\ r.handles = t.handles
      /\ r.todo = Tail(t.todo) /\ r.resolved = Append(t.resolved, n)
      /\ r.unresolved = t.unresolved /\ r.rows = Mentioned(t, a)
      /\ r.who = Append(t.who, a) /\ r.quiet = t.quiet
  BY <1>t DEF Matched, Records
<1>6. r \in Records
  BY <1>t, <1>1, <1>2, <1>3, <1>4 DEF Matched, Records
<1>7. Delivered(r)
  <2>1. Len(r.who) = Len(t.who) + 1 /\ Len(r.resolved) = Len(t.resolved) + 1
    BY <1>1, <1>5, <1>t, AppendProperties DEF Records
  <2> QED BY <2>1, <1>3, <1>4, <1>5, <1>t DEF Delivered
<1>8. Reported(r)
  BY <1>1, <1>2, <1>5, <1>t DEF Reported
<1>9. AtHandle(r)
  BY <1>5 DEF AtHandle, Lookups
<1>10. ASSUME r.quiet PROVE StillTrue(r)
  <2>1. StillTrue(t) /\ Tier(n) = {a}
    BY <1>5, <1>10 DEF Sound
  <2>2. /\ t.resolved \in Seq(Names) /\ t.who \in Seq(Agents)
        /\ Len(t.who) = Len(t.resolved)
    BY <1>t DEF Records, Delivered
  <2>3. /\ DOMAIN r.resolved = 1 .. Len(t.resolved) + 1
        /\ DOMAIN t.resolved = 1 .. Len(t.resolved) /\ Len(t.resolved) \in Nat
    BY <1>1, <1>2, <1>5, <2>2, AppendProperties, LenProperties
  <2>4. ASSUME NEW i \in DOMAIN r.resolved PROVE Tier(r.resolved[i]) = {r.who[i]}
    <3>1. CASE i = Len(t.resolved) + 1
      <4>1. r.resolved[i] = n /\ r.who[i] = a
        BY <1>1, <1>5, <2>2, <3>1, AppendProperties
      <4> QED BY <4>1, <2>1
    <3>2. CASE i # Len(t.resolved) + 1
      <4>1. i \in 1 .. Len(t.resolved)
        BY <2>3, <3>2
      <4>2. r.resolved[i] = t.resolved[i] /\ r.who[i] = t.who[i]
        BY <1>1, <1>5, <2>2, <4>1, AppendProperties
      <4> QED BY <4>1, <4>2, <2>1, <2>3 DEF StillTrue
    <3> QED BY <3>1, <3>2
  <2> QED BY <2>1, <2>4, <1>5 DEF StillTrue, Lookups
<1> QED BY <1>6, <1>7, <1>8, <1>9, <1>10 DEF Sound

LEMMA MissedSound ==
  ASSUME NEW t, Sound(t), t.pc \in Lookups,
         t.quiet => Cardinality(Tier(Head(t.todo))) # 1
  PROVE  Sound(Missed(t))
<1> DEFINE r == Missed(t)
           n == Head(t.todo)
<1>t. t \in Records /\ Delivered(t) /\ Reported(t) /\ AtHandle(t)
  BY DEF Sound
<1>1. /\ n \in Names /\ Tail(t.todo) \in Seq(Names)
      /\ ToSet(t.todo) = {n} \cup ToSet(Tail(t.todo))
      /\ n \notin ToSet(t.resolved) /\ n \notin ToSet(t.unresolved)
  <2>1. t.todo \in Seq(Names) /\ t.todo # << >>
    BY <1>t DEF Records, AtHandle
  <2> QED BY <2>1, <1>t, HeadTailSet DEF AtHandle
<1>2. t.unresolved \in Seq(Names) /\ IsInjective(t.unresolved)
  BY <1>t DEF Records, Reported
<1>3. /\ Append(t.unresolved, n) \in Seq(Names)
      /\ ToSet(Append(t.unresolved, n)) = ToSet(t.unresolved) \cup {n}
      /\ IsInjective(Append(t.unresolved, n))
  BY <1>1, <1>2, AppendSet
<1>5. /\ r.pc = "next" /\ r.author = t.author /\ r.handles = t.handles
      /\ r.todo = Tail(t.todo) /\ r.unresolved = Append(t.unresolved, n)
      /\ r.resolved = t.resolved /\ r.rows = t.rows
      /\ r.who = t.who /\ r.quiet = t.quiet
  BY <1>t DEF Missed, Records
<1>6. r \in Records
  BY <1>t, <1>1, <1>3 DEF Missed, Records
<1>7. Delivered(r) /\ AtHandle(r)
  BY <1>5, <1>t DEF Delivered, AtHandle, Lookups
<1>8. Reported(r)
  BY <1>1, <1>3, <1>5, <1>t DEF Reported
<1>9. ASSUME r.quiet PROVE StillTrue(r)
  <2>1. StillTrue(t) /\ Cardinality(Tier(n)) # 1
    BY <1>5, <1>9 DEF Sound
  <2>2. /\ DOMAIN r.unresolved = 1 .. Len(t.unresolved) + 1
        /\ DOMAIN t.unresolved = 1 .. Len(t.unresolved) /\ Len(t.unresolved) \in Nat
    BY <1>1, <1>2, <1>3, <1>5, AppendProperties, LenProperties
  <2>3. ASSUME NEW i \in DOMAIN r.unresolved PROVE Cardinality(Tier(r.unresolved[i])) # 1
    <3>1. CASE i = Len(t.unresolved) + 1
      <4>1. r.unresolved[i] = n
        BY <1>1, <1>2, <1>5, <3>1, AppendProperties
      <4> QED BY <4>1, <2>1
    <3>2. CASE i # Len(t.unresolved) + 1
      <4>1. i \in 1 .. Len(t.unresolved)
        BY <2>2, <3>2
      <4>2. r.unresolved[i] = t.unresolved[i]
        BY <1>1, <1>2, <1>5, <4>1, AppendProperties
      <4> QED BY <4>1, <4>2, <2>1, <2>2 DEF StillTrue
    <3> QED BY <3>1, <3>2
  <2> QED BY <2>1, <2>3, <1>5 DEF StillTrue, Lookups
<1> QED BY <1>6, <1>7, <1>8, <1>9 DEF Sound

-----------------------------------------------------------------------------
\* The lookups of one handle.
LEMMA AtLookup ==
  ASSUME MentionsInv, NEW p \in Posts, tx[p].pc \in Lookups
  PROVE  Sound(tx[p]) /\ tx[p] \in Records /\ Name(p) = Head(tx[p].todo) /\ Name(p) \in Names
<1>1. Sound(tx[p])
  BY DEF MentionsInv, PostsOK, Lookups, Idle, Refusals
<1>2. tx[p].todo \in Seq(Names) /\ tx[p].todo # << >>
  BY <1>1 DEF Sound, Records, AtHandle
<1> QED BY <1>1, <1>2, HeadTailProperties DEF Name, Sound

\* The next query, when this one found nobody.
LEMMA TryNextKeeps ==
  ASSUME MentionsInv, NEW p \in Posts, tx[p].pc \in Lookups, NEW pc \in Lookups,
         TryNext(p, pc), UNCHANGED <<display, nick>>,
         tx[p].quiet => StillTrue([tx[p] EXCEPT !.pc = pc])
  PROVE  MentionsInv'
<1> DEFINE r == [tx[p] EXCEPT !.pc = pc]
<1>1. Sound(tx[p]) /\ tx[p] \in Records
  BY AtLookup
<1>2. /\ r \in Records /\ r.pc = pc
      /\ r.author = tx[p].author /\ r.handles = tx[p].handles /\ r.todo = tx[p].todo
      /\ r.resolved = tx[p].resolved /\ r.unresolved = tx[p].unresolved
      /\ r.rows = tx[p].rows /\ r.who = tx[p].who /\ r.quiet = tx[p].quiet
  BY <1>1 DEF Records
<1>3. Delivered(r) /\ Reported(r) /\ AtHandle(r)
  BY <1>1, <1>2 DEF Sound, Delivered, Reported, AtHandle, Lookups
<1>4. Sound(r)
  BY <1>2, <1>3 DEF Sound
<1>5. tx' = [tx EXCEPT ![p] = r]
  BY DEF TryNext
<1> QED BY <1>4, <1>5, PostStep

LEMMA NoMatchKeeps ==
  ASSUME MentionsInv, NEW p \in Posts, tx[p].pc \in Lookups, NoMatch(p),
         UNCHANGED <<display, nick>>,
         tx[p].quiet => Cardinality(Tier(Name(p))) # 1
  PROVE  MentionsInv'
<1>1. Sound(tx[p]) /\ Name(p) = Head(tx[p].todo)
  BY AtLookup
<1>2. Sound(Missed(tx[p]))
  BY <1>1, MissedSound
<1>3. tx' = [tx EXCEPT ![p] = Missed(tx[p])]
  BY DEF NoMatch
<1> QED BY <1>2, <1>3, PostStep

LEMMA MatchKeeps ==
  ASSUME MentionsInv, NEW p \in Posts, tx[p].pc \in Lookups,
         NEW a \in Ids, Created(a), Match(p, a), UNCHANGED <<display, nick>>,
         tx[p].quiet => Tier(Name(p)) = {a}
  PROVE  MentionsInv'
<1>1. Sound(tx[p]) /\ Name(p) = Head(tx[p].todo) /\ a \in Agents
  BY AtLookup DEF MentionsInv, TablesOK
<1>2. Sound(Matched(tx[p], a))
  BY <1>1, MatchedSound
<1>3. tx' = [tx EXCEPT ![p] = Matched(tx[p], a)]
  BY DEF Match
<1> QED BY <1>2, <1>3, PostStep

LEMMA MatchProfileKeeps ==
  ASSUME MentionsInv, NEW p \in Posts, tx[p].pc \in Lookups,
         NEW a \in Ids, MatchProfile(p, a), UNCHANGED <<display, nick>>,
         tx[p].quiet => Tier(Name(p)) = {a}
  PROVE  MentionsInv'
<1>1. CASE Created(a)
  BY <1>1, MatchKeeps DEF MatchProfile
<1>2. CASE ~ Created(a)
  <2> DEFINE r == [pc |-> "refused", author |-> tx[p].author]
  <2>1. r \in Refusals
    BY AtLookup DEF Records, Refusals
  <2>2. tx' = [tx EXCEPT ![p] = r]
    BY <1>2 DEF MatchProfile
  <2> QED BY <2>1, <2>2, PostStep
<1> QED BY <1>1, <1>2

\* At most one id matches: the one there is, is the whole set.
LEMMA SingleFold ==
  ASSUME NEW column, NEW n, Folds(column, n) # {},
         ~ Cardinality(Folds(column, n)) > 1 \/ Cardinality(Folds(column, n)) = 1
  PROVE  \A a \in Folds(column, n) : Folds(column, n) = {a}
<1> DEFINE F == Folds(column, n)
<1>1. IsFiniteSet(F)
  <2>1. IsFiniteSet(Ids)
    BY IdsAssumption, FS_Union DEF Ids
  <2>2. F \in SUBSET Ids
    BY DEF Folds
  <2> QED BY <2>1, <2>2, FS_Subset
<1>2. Cardinality(F) \in Nat /\ (Cardinality(F) = 0 <=> F = {})
  BY <1>1, FS_CardinalityType, FS_EmptySet
<1>3. Cardinality(F) = 1
  BY <1>2
<1>4. \E x : F = {x}
  BY <1>1, <1>3, FS_Singleton
<1> QED BY <1>4

LEMMA LookupsKeep ==
  ASSUME MentionsInv, NEW p \in Posts,
         \/ ExactNickname(p) \/ ExactDisplayName(p)
         \/ FoldedNickname(p) \/ FoldedDisplayName(p)
  PROVE  MentionsInv'
<1> DEFINE n == Name(p)
           A == {a \in Ids : nick[a] = n}
           B == {a \in Ids : display[a] = n}
           C == Folds(nick, n)
           D == Folds(display, n)
<1>1. tx[p].pc \in Lookups /\ UNCHANGED <<display, nick>>
  BY DEF ExactNickname, ExactDisplayName, FoldedNickname, FoldedDisplayName, Lookups
<1>2. Sound(tx[p]) /\ tx[p] \in Records /\ n = Head(tx[p].todo) /\ n \in Names /\ n # None
  BY <1>1, AtLookup, NamesAssumption DEF None
<1>3. Tier(n) = IF A # {} THEN A ELSE IF B # {} THEN B ELSE IF C # {} THEN C ELSE D
  BY TierFirst
<1>4. tx[p].quiet => StillTrue(tx[p])
  BY <1>2 DEF Sound
<1>5. ASSUME NEW pc \in Lookups, tx[p].quiet,
             pc # "nick" => A = {},
             pc \in {"foldednick", "foldeddisplay"} => B = {},
             pc = "foldeddisplay" => C = {}
      PROVE  StillTrue([tx[p] EXCEPT !.pc = pc])
  <2> DEFINE r == [tx[p] EXCEPT !.pc = pc]
  <2>1. /\ r.pc = pc /\ r.todo = tx[p].todo /\ r.resolved = tx[p].resolved
        /\ r.unresolved = tx[p].unresolved /\ r.who = tx[p].who
    BY <1>2 DEF Records
  <2> HIDE DEF r
  <2>2. StillTrue(r)
    BY <2>1, <1>2, <1>4, <1>5 DEF StillTrue
  <2> QED BY <2>2 DEF r
<1>6. CASE ExactNickname(p)
  <2>1. CASE A = {}
    BY <1>1, <1>5, <1>6, <2>1, TryNextKeeps DEF ExactNickname, Lookups
  <2>2. CASE A # {}
    <3>1. PICK a \in A : MatchProfile(p, a)
      BY <1>6, <2>2 DEF ExactNickname
    <3>2. A = {a}
      BY <3>1, <1>2 DEF MentionsInv, TablesOK
    <3> QED BY <1>1, <1>3, <2>2, <3>1, <3>2, MatchProfileKeeps
  <2> QED BY <2>1, <2>2
<1>7. CASE ExactDisplayName(p)
  <2>0. tx[p].quiet => A = {}
    BY <1>2, <1>4, <1>7 DEF ExactDisplayName, StillTrue, Lookups
  <2>1. CASE B = {}
    BY <1>1, <1>5, <1>7, <2>0, <2>1, TryNextKeeps DEF ExactDisplayName, Lookups
  <2>2. CASE B # {}
    <3>1. PICK a \in B : Match(p, a)
      BY <1>7, <2>2 DEF ExactDisplayName
    <3>2. B = {a} /\ Created(a)
      BY <3>1, <1>2 DEF MentionsInv, TablesOK, Created
    <3> QED BY <1>1, <1>3, <2>0, <2>2, <3>1, <3>2, MatchKeeps
  <2> QED BY <2>1, <2>2
<1>8. CASE FoldedNickname(p)
  <2>0. tx[p].quiet => A = {} /\ B = {}
    BY <1>2, <1>4, <1>8 DEF FoldedNickname, StillTrue, Lookups
  <2>1. CASE C = {}
    <3>1. ~ Cardinality(C) > 1
      BY <2>1, FS_EmptySet
    <3>2. TryNext(p, "foldeddisplay")
      BY <1>8, <2>1, <3>1 DEF FoldedNickname
    <3> QED BY <1>1, <1>5, <2>0, <2>1, <3>2, TryNextKeeps DEF Lookups
  <2>2. CASE C # {} /\ Cardinality(C) > 1
    <3>1. NoMatch(p)
      BY <1>8, <2>2 DEF FoldedNickname
    <3>2. tx[p].quiet => Cardinality(Tier(n)) # 1
      BY <1>3, <2>0, <2>2
    <3> QED BY <1>1, <3>1, <3>2, NoMatchKeeps
  <2>3. CASE C # {} /\ ~ Cardinality(C) > 1
    <3>1. PICK a \in C : MatchProfile(p, a)
      BY <1>8, <2>3 DEF FoldedNickname
    <3>2. C = {a} /\ a \in Ids
      BY <2>3, <3>1, SingleFold DEF Folds
    <3>3. tx[p].quiet => Tier(n) = {a}
      BY <1>3, <2>0, <2>3, <3>2
    <3> QED BY <1>1, <3>1, <3>2, <3>3, MatchProfileKeeps
  <2> QED BY <2>1, <2>2, <2>3
<1>9. CASE FoldedDisplayName(p)
  <2>0. tx[p].quiet => A = {} /\ B = {} /\ C = {}
    BY <1>2, <1>4, <1>9 DEF FoldedDisplayName, StillTrue, Lookups
  <2>1. CASE Cardinality(D) # 1
    <3>1. NoMatch(p)
      BY <1>9, <2>1 DEF FoldedDisplayName
    <3>2. tx[p].quiet => Cardinality(Tier(n)) # 1
      BY <1>3, <2>0, <2>1
    <3> QED BY <1>1, <3>1, <3>2, NoMatchKeeps
  <2>2. CASE Cardinality(D) = 1
    <3>1. PICK a \in D : Match(p, a)
      BY <1>9, <2>2 DEF FoldedDisplayName
    <3>2. D = {a} /\ a \in Ids /\ Created(a)
      <4>1. D = {a}
        BY <2>2, <3>1, SingleFold
      <4> QED BY <3>1, <4>1 DEF Folds, Created
    <3>3. tx[p].quiet => Tier(n) = {a}
      BY <1>3, <2>0, <3>2
    <3> QED BY <1>1, <3>1, <3>2, <3>3, MatchKeeps
  <2> QED BY <2>1, <2>2
<1> QED BY <1>6, <1>7, <1>8, <1>9

-----------------------------------------------------------------------------
\* A new post has nothing behind it; a repeated handle is passed over.
LEMMA StartPostKeeps ==
  ASSUME MentionsInv, NEW p \in Posts, NEW a \in Agents,
         NEW hs \in BoundedSeq(Names, MaxHandles), StartPost(p, a, hs)
  PROVE  MentionsInv'
<1> DEFINE r == [pc |-> "next", author |-> a, handles |-> hs, todo |-> hs,
                 resolved |-> << >>, unresolved |-> << >>, rows |-> << >>,
                 who |-> << >>, quiet |-> TRUE]
<1>1. hs \in Seq(Names)
  BY MaxHandlesAssumption DEF BoundedSeq, SeqOf
<1>2. /\ << >> \in Seq(Names) /\ << >> \in Seq(Agents)
      /\ DOMAIN << >> = {} /\ Len(<< >>) = 0
  OBVIOUS
<1>3. ToSet(<< >>) = {} /\ IsInjective(<< >>)
  BY <1>2 DEF ToSet, IsInjective
<1>4. r \in Records
  BY <1>1, <1>2 DEF Records
<1>5. Delivered(r) /\ Reported(r) /\ AtHandle(r) /\ StillTrue(r)
  BY <1>2, <1>3 DEF Delivered, Reported, AtHandle, StillTrue, Lookups
<1>6. Sound(r)
  BY <1>4, <1>5 DEF Sound
<1> QED BY <1>6, PostStep DEF StartPost

LEMMA NextHandleKeeps ==
  ASSUME MentionsInv, NEW p \in Posts, NextHandle(p)
  PROVE  MentionsInv'
<1> DEFINE t == tx[p]
<1>1. Sound(t)
  BY DEF NextHandle, MentionsInv, PostsOK, Idle, Refusals
<1>t. /\ t \in Records /\ t.pc = "next" /\ t.todo \in Seq(Names)
      /\ Delivered(t) /\ Reported(t) /\ (t.quiet => StillTrue(t))
  BY <1>1 DEF Sound, Records, NextHandle
<1>2. CASE t.todo = << >>
  <2> DEFINE r == [t EXCEPT !.pc = "posted"]
  <2>1. /\ r \in Records /\ r.pc = "posted"
        /\ r.author = t.author /\ r.handles = t.handles /\ r.todo = t.todo
        /\ r.resolved = t.resolved /\ r.unresolved = t.unresolved
        /\ r.rows = t.rows /\ r.who = t.who /\ r.quiet = t.quiet
    BY <1>t DEF Records
  <2>2. Sound(r)
    BY <1>2, <1>t, <2>1 DEF Sound, Delivered, Reported, AtHandle, StillTrue, Lookups
  <2>3. tx' = [tx EXCEPT ![p] = r] /\ UNCHANGED <<display, nick>>
    BY <1>2 DEF NextHandle
  <2> QED BY <2>2, <2>3, PostStep
<1>3. CASE t.todo # << >> /\ Name(p) \in SeenNames(p)
  <2> DEFINE r == [t EXCEPT !.todo = Tail(@)]
  <2>1. /\ Tail(t.todo) \in Seq(Names)
        /\ ToSet(t.todo) = {Head(t.todo)} \cup ToSet(Tail(t.todo))
        /\ Head(t.todo) \in ToSet(t.resolved) \cup ToSet(t.unresolved)
    BY <1>t, <1>3, HeadTailSet DEF Name, SeenNames
  <2>2. /\ r \in Records /\ r.pc = "next"
        /\ r.author = t.author /\ r.handles = t.handles /\ r.todo = Tail(t.todo)
        /\ r.resolved = t.resolved /\ r.unresolved = t.unresolved
        /\ r.rows = t.rows /\ r.who = t.who /\ r.quiet = t.quiet
    BY <1>t, <2>1 DEF Records
  <2>3. Reported(r)
    BY <1>t, <2>1, <2>2 DEF Reported
  <2>4. Sound(r)
    BY <1>t, <2>2, <2>3 DEF Sound, Delivered, AtHandle, StillTrue, Lookups
  <2>5. tx' = [tx EXCEPT ![p] = r] /\ UNCHANGED <<display, nick>>
    BY <1>3 DEF NextHandle
  <2> QED BY <2>4, <2>5, PostStep
<1>4. CASE t.todo # << >> /\ Name(p) \notin SeenNames(p)
  <2> DEFINE r == [t EXCEPT !.pc = "nick"]
  <2>1. /\ r \in Records /\ r.pc = "nick"
        /\ r.author = t.author /\ r.handles = t.handles /\ r.todo = t.todo
        /\ r.resolved = t.resolved /\ r.unresolved = t.unresolved
        /\ r.rows = t.rows /\ r.who = t.who /\ r.quiet = t.quiet
    BY <1>t DEF Records, Lookups
  <2>2. AtHandle(r)
    BY <1>4, <2>1 DEF AtHandle, Name, SeenNames
  <2>3. Sound(r)
    BY <1>t, <2>1, <2>2 DEF Sound, Delivered, Reported, StillTrue, Lookups
  <2>4. tx' = [tx EXCEPT ![p] = r] /\ UNCHANGED <<display, nick>>
    BY <1>4 DEF NextHandle
  <2> QED BY <2>3, <2>4, PostStep
<1> QED BY <1>2, <1>3, <1>4

-----------------------------------------------------------------------------
\* A commit beside the posts disturbs them: what they found need not hold now.
LEMMA DisturbedSound ==
  ASSUME MentionsInv, tx' = Disturbed(tx)
  PROVE  PostsOK'
<1>1. DOMAIN tx' = Posts
  BY DEF Disturbed
<1>2. ASSUME NEW p \in Posts PROVE (tx[p] = Idle \/ tx[p] \in Refusals \/ Sound(tx[p]))'
  <2>1. CASE tx[p] = Idle \/ tx[p] \in Refusals
    BY <2>1 DEF Disturbed, Idle, Refusals, Lookups
  <2>2. CASE Sound(tx[p])
    <3> DEFINE t == tx[p]
               r == [t EXCEPT !.quiet = FALSE]
    <3>1. /\ t \in Records /\ Delivered(t) /\ Reported(t) /\ AtHandle(t)
          /\ tx'[p] = r
      BY <2>2 DEF Sound, Disturbed, Records
    <3>2. /\ r \in Records /\ r.pc = t.pc /\ r.author = t.author
          /\ r.handles = t.handles /\ r.todo = t.todo
          /\ r.resolved = t.resolved /\ r.unresolved = t.unresolved
          /\ r.rows = t.rows /\ r.who = t.who /\ ~ r.quiet
      BY <3>1 DEF Records
    <3> QED BY <3>1, <3>2 DEF Sound, Delivered, Reported, AtHandle
  <2> QED BY <2>1, <2>2 DEF MentionsInv, PostsOK
<1> QED BY <1>1, <1>2 DEF PostsOK

LEMMA TablesKeep ==
  ASSUME MentionsInv,
         \/ \E a \in Agents, n \in Names : CreateAgent(a, n)
         \/ \E a \in Ids, n \in Names : UpsertActorProfile(a, n)
  PROVE  MentionsInv'
<1>1. ASSUME NEW a \in Agents, NEW n \in Names, CreateAgent(a, n) PROVE MentionsInv'
  <2>1. \A b \in Ids : display'[b] = IF b = a THEN n ELSE display[b]
    BY <1>1 DEF CreateAgent, MentionsInv, TablesOK
  <2>2. TablesOK'
    BY <1>1, <2>1 DEF CreateAgent, MentionsInv, TablesOK, Created
  <2> QED BY <1>1, <2>2, DisturbedSound DEF CreateAgent, MentionsInv
<1>2. ASSUME NEW a \in Ids, NEW n \in Names, UpsertActorProfile(a, n) PROVE MentionsInv'
  <2>1. \A b \in Ids : nick'[b] = IF b = a THEN n ELSE nick[b]
    BY <1>2 DEF UpsertActorProfile, MentionsInv, TablesOK
  <2>2. TablesOK'
    BY <1>2, <2>1 DEF UpsertActorProfile, NicknameFree, MentionsInv, TablesOK, Created
  <2> QED BY <1>2, <2>2, DisturbedSound DEF UpsertActorProfile, MentionsInv
<1> QED BY <1>1, <1>2

LEMMA InitMentionsInv == Init => MentionsInv
  BY DEF Init, MentionsInv, TablesOK, PostsOK, Created, None, Idle

LEMMA NextMentionsInv == MentionsInv /\ [Next]_vars => MentionsInv'
<1> SUFFICES ASSUME MentionsInv, [Next]_vars PROVE MentionsInv'
  OBVIOUS
<1>1. CASE UNCHANGED vars
  <2>1. UNCHANGED <<display, nick, tx>>
    BY <1>1 DEF vars
  <2>2. TablesOK'
    BY <2>1 DEF MentionsInv, TablesOK, Created
  <2>3. ASSUME NEW p \in Posts, Sound(tx[p]) PROVE Sound(tx[p])'
    BY <2>1, <2>3, SoundStays DEF Sound
  <2>4. PostsOK'
    BY <2>1, <2>3 DEF MentionsInv, PostsOK
  <2> QED BY <2>2, <2>4 DEF MentionsInv
<1> QED BY <1>1, TablesKeep, StartPostKeeps, NextHandleKeeps, LookupsKeep DEF Next

LEMMA AlwaysMentionsInv == Spec => []MentionsInv
  BY InitMentionsInv, NextMentionsInv, PTL DEF Spec

\* A post that is neither idle nor refused is sound.
LEMMA UnderWay ==
  ASSUME MentionsInv, NEW p \in Posts, Posting(p) \/ tx[p].pc = "posted"
  PROVE  Sound(tx[p])
  BY DEF MentionsInv, PostsOK, Posting, Lookups, Idle, Refusals

-----------------------------------------------------------------------------
\* Both name columns stay unique, and posts keep their type.
THEOREM MentionsTypeCorrect == Spec => []TypeOK
<1>1. MentionsInv => TypeOK
  <2> SUFFICES ASSUME MentionsInv PROVE TypeOK
    OBVIOUS
  <2>1. ASSUME NEW p \in Posts PROVE Over(p) \/ Posting(p)
    BY DEF MentionsInv, PostsOK, Sound, Over, Posting, Lookups, Idle, Refusals, Records
  <2>2. ASSUME NEW p \in Posts, Posting(p)
        PROVE  /\ ToSet(tx[p].rows) \subseteq Agents
               /\ tx[p].author \in Agents
               /\ Len(tx[p].who) = Len(tx[p].resolved)
    <3>1. Sound(tx[p])
      BY <2>2, UnderWay
    <3>2. tx[p].rows \in Seq(Agents) /\ tx[p].author \in Agents
      BY <3>1 DEF Sound, Records
    <3>3. \A i \in DOMAIN tx[p].rows : tx[p].rows[i] \in Agents
      BY <3>2, ElementOfSeq, LenProperties
    <3> QED BY <3>1, <3>2, <3>3 DEF Sound, Delivered, ToSet
  <2> QED BY <2>1, <2>2 DEF MentionsInv, TablesOK, TypeOK
<1> QED BY <1>1, AlwaysMentionsInv, PTL

\* createMentions, "the actual notify-once guarantee": one row per actor per
\* post and none for the author, whatever changes hands between the lookups.
THEOREM NotifiesOnce == Spec => []NotifiedOnce
<1>1. MentionsInv => NotifiedOnce
  BY UnderWay DEF NotifiedOnce, Sound, Delivered
<1> QED BY <1>1, AlwaysMentionsInv, PTL

\* MentionReport: every handle of a stored post is reported once, and the
\* resolved ones are exactly the mentions delivered.
THEOREM ReportIsTrue == Spec => []ReportTellsDelivery
<1>1. MentionsInv => ReportTellsDelivery
  <2> SUFFICES ASSUME MentionsInv, NEW p \in Posts, tx[p].pc = "posted"
               PROVE  /\ IsInjective(tx[p].resolved \o tx[p].unresolved)
                      /\ SeenNames(p) = ToSet(tx[p].handles)
                      /\ ToSet(tx[p].rows) = ToSet(tx[p].who) \ {tx[p].author}
    BY DEF ReportTellsDelivery
  <2>1. Sound(tx[p])
    BY UnderWay
  <2>2. /\ tx[p].resolved \in Seq(Names) /\ tx[p].unresolved \in Seq(Names)
        /\ Reported(tx[p]) /\ Delivered(tx[p]) /\ tx[p].todo = << >>
    BY <2>1 DEF Sound, Records, AtHandle
  <2>3. IsInjective(tx[p].resolved \o tx[p].unresolved)
    BY <2>2, ConcatInjective DEF Reported
  <2>4. ToSet(tx[p].todo) = {}
    BY <2>2 DEF ToSet
  <2> QED BY <2>2, <2>3, <2>4 DEF Reported, Delivered, SeenNames
<1> QED BY <1>1, AlwaysMentionsInv, PTL

\* resolveMentionTarget: a post nobody's commit has come between resolves
\* every handle by the documented precedence, and an ambiguous one to nobody.
THEOREM PrecedenceHolds == Spec => []ResolvesAsDocumented
<1>1. MentionsInv => ResolvesAsDocumented
  BY UnderWay DEF ResolvesAsDocumented, Sound, StillTrue
<1> QED BY <1>1, AlwaysMentionsInv, PTL

\* thread_repo.go, UnresolvedMentions: a handle fails a post only if it folds
\* to the nickname of a profile whose actor does not exist.
THEOREM RefusalsAreForOrphans == Spec => RefusedOnlyForOrphans
<1>1. ASSUME MentionsInv, [Next]_vars, NEW p \in Posts,
             tx[p].pc # "refused", tx'[p].pc = "refused"
      PROVE  \E x \in Folds(nick, Name(p)) : ~ Created(x)
  <2>1. \/ \E q \in Posts, a \in Agents, hs \in BoundedSeq(Names, MaxHandles) :
              StartPost(q, a, hs)
        \/ \E q \in Posts :
              NextHandle(q) \/ ExactNickname(q) \/ ExactDisplayName(q)
              \/ FoldedNickname(q) \/ FoldedDisplayName(q)
        \/ tx' = Disturbed(tx) \/ UNCHANGED tx
    BY <1>1 DEF Next, vars, CreateAgent, UpsertActorProfile
  <2>2. DOMAIN tx = Posts
    BY <1>1 DEF MentionsInv, PostsOK
  <2>3. ASSUME NEW q \in Posts, NEW a, Match(q, a), tx[q].pc \in Lookups PROVE FALSE
    <3>1. tx[q] \in Records
      BY <1>1, <2>3, AtLookup
    <3>2. Matched(tx[q], a).pc = "next"
      BY <3>1 DEF Matched, Records
    <3> QED BY <1>1, <2>2, <2>3, <3>2 DEF Match
  <2>4. ASSUME NEW q \in Posts, NoMatch(q), tx[q].pc \in Lookups PROVE FALSE
    <3>1. tx[q] \in Records
      BY <1>1, <2>4, AtLookup
    <3>2. Missed(tx[q]).pc = "next"
      BY <3>1 DEF Missed, Records
    <3> QED BY <1>1, <2>2, <2>4, <3>2 DEF NoMatch
  <2>5. ASSUME NEW q \in Posts, NEW pc \in Lookups, TryNext(q, pc) PROVE FALSE
    BY <1>1, <2>2, <2>5 DEF TryNext, Lookups
  <2>6. ASSUME NEW q \in Posts, NEW a \in Folds(nick, Name(q)), tx[q].pc \in Lookups,
               MatchProfile(q, a)
        PROVE  \E x \in Folds(nick, Name(p)) : ~ Created(x)
    <3>1. ~ Created(a)
      BY <2>3, <2>6 DEF MatchProfile
    <3>2. q = p
      BY <1>1, <2>2, <2>6, <3>1 DEF MatchProfile
    <3> QED BY <2>6, <3>1, <3>2
  <2>7. ASSUME NEW q \in Posts, ExactNickname(q)
        PROVE  \E x \in Folds(nick, Name(p)) : ~ Created(x)
    <3>1. tx[q].pc \in Lookups
      BY <2>7 DEF ExactNickname, Lookups
    <3>2. PICK a \in Ids : nick[a] = Name(q) /\ MatchProfile(q, a)
      BY <2>5, <2>7 DEF ExactNickname, Lookups
    <3>3. a \in Folds(nick, Name(q))
      BY <1>1, <3>1, <3>2, AtLookup, NamesAssumption DEF Folds, None
    <3> QED BY <2>6, <3>1, <3>2, <3>3
  <2>8. ASSUME NEW q \in Posts, FoldedNickname(q)
        PROVE  \E x \in Folds(nick, Name(p)) : ~ Created(x)
    <3>1. tx[q].pc \in Lookups
      BY <2>8 DEF FoldedNickname, Lookups
    <3>2. PICK a \in Folds(nick, Name(q)) : MatchProfile(q, a)
      BY <2>4, <2>5, <2>8, <3>1 DEF FoldedNickname, Lookups
    <3> QED BY <2>6, <3>1, <3>2
  <2>9. ASSUME NEW q \in Posts, ExactDisplayName(q) \/ FoldedDisplayName(q) PROVE FALSE
    <3>1. tx[q].pc \in Lookups
      BY <2>9 DEF ExactDisplayName, FoldedDisplayName, Lookups
    <3> QED BY <2>3, <2>4, <2>5, <2>9, <3>1 DEF ExactDisplayName, FoldedDisplayName, Lookups
  <2>10. ASSUME NEW q \in Posts, NextHandle(q) PROVE FALSE
    BY <1>1, <2>2, <2>10 DEF NextHandle
  <2>11. ASSUME NEW q \in Posts, NEW a \in Agents,
                NEW hs \in BoundedSeq(Names, MaxHandles), StartPost(q, a, hs)
         PROVE  FALSE
    BY <1>1, <2>2, <2>11 DEF StartPost
  <2>12. ASSUME tx' = Disturbed(tx) PROVE FALSE
    BY <1>1, <2>12 DEF Disturbed, MentionsInv, PostsOK, Sound, Records, Idle, Refusals, Lookups
  <2> QED BY <1>1, <2>1, <2>7, <2>8, <2>9, <2>10, <2>11, <2>12
<1>2. MentionsInv /\ [Next]_vars =>
        [\A p \in Posts : tx[p].pc # "refused" /\ tx'[p].pc = "refused" =>
            \E x \in Folds(nick, Name(p)) : ~ Created(x)]_vars
  BY <1>1
<1> QED BY <1>2, AlwaysMentionsInv, PTL DEF Spec, RefusedOnlyForOrphans
=============================================================================
