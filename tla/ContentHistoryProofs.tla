-------------------------- MODULE ContentHistoryProofs -------------------------
(***************************************************************************)
(* Proofs about what the content-history composition reads and installs:   *)
(* the history query for every chain, limit and filter, the selection of a *)
(* configuration for every set of patterns, and the installation for every *)
(* plan.                                                                   *)
(***************************************************************************)
EXTENDS HistoryPaging, HistoryPatterns, Installation, NaturalLemmas

--------------------------------------------------------------------------------
(***************************************************************************)
(* The history query.                                                      *)
(***************************************************************************)
QueryTypeOK ==
    /\ chain \in Seq(Transition \cup {Lost})
    /\ phase \in {"idle", "walking", "answered"}
    /\ phase # "idle" => query \in Queries /\ query.since <= head
    /\ head \in Nat /\ head <= Len(chain)
    /\ current \in Nat /\ current <= head
    /\ walked \in 0 .. MaxWalk
    /\ page \in Seq(1 .. head)

\* What lies behind the walk, between the head and the transition it is at, is
\* on the page if it is wanted; and the walk has not gone beyond since.
WalkIsExact ==
    phase # "idle" =>
        /\ query.since <= current
        /\ \A k \in 1 .. Len(page) : Wanted(page[k]) /\ page[k] > current
        /\ \A k \in 1 .. Len(page) - 1 : page[k] > page[k + 1]
        /\ \A i \in 1 .. head : Wanted(i) /\ i > current => \E k \in 1 .. Len(page) : page[k] = i
        /\ Len(page) <= query.limit

EndsForAReason ==
    phase = "answered" /\ More /\ Len(page) < query.limit =>
        walked = MaxWalk \/ current = query.since \/ ~Held(current)

QueryIInv == QueryTypeOK /\ WalkIsExact /\ EndsForAReason

\* The parameters of a query, as far as the walk computes with them.
LEMMA QueryParameters ==
    ASSUME NEW q \in Queries
    PROVE  /\ q.limit \in Nat /\ q.since \in Nat
           /\ q.before \in Timestamps \cup {None}
           /\ Timestamps \subseteq Nat /\ MaxWalk \in Nat
<1>1. /\ Limits \subseteq Nat /\ Sinces \subseteq Nat /\ Timestamps \subseteq Nat
      /\ MaxWalk \in Nat
  BY QueryAssumption
<1>2. q.limit \in Limits /\ q.since \in Sinces /\ q.before \in Timestamps \cup {None}
  BY DEF Queries
<1> QED
  BY <1>1, <1>2

\* A walk begins at the head with an empty page, whatever is asked.
LEMMA AskKeepsIInv ==
    ASSUME QueryIInv, NEW q \in Queries, q.since <= Len(chain), Ask(q)
    PROVE  QueryIInv'
<1>1. /\ chain' = chain /\ query' = q /\ head' = Len(chain) /\ current' = Len(chain)
      /\ walked' = 0 /\ page' = <<>> /\ phase' \in {"walking", "answered"}
      /\ phase' = "answered" => Len(chain) = 0
  BY DEF Ask, QueryIInv, QueryTypeOK
<1>2. QueryTypeOK'
  BY <1>1, QueryAssumption DEF QueryIInv, QueryTypeOK
<1>3. q.limit \in Nat
  BY QueryParameters
<1>4. WalkIsExact'
  BY <1>1, <1>3 DEF WalkIsExact, QueryIInv, QueryTypeOK
<1>5. EndsForAReason'
  BY <1>1 DEF EndsForAReason, More
<1> QED
  BY <1>2, <1>4, <1>5 DEF QueryIInv

\* The recorder extends the chain beyond the head that the walk has read.
LEMMA RecordKeepsIInv ==
    ASSUME QueryIInv, NEW t \in Transition, Record(t)
    PROVE  QueryIInv'
<1>1. /\ chain' = Append(chain, t)
      /\ query' = query /\ head' = head /\ current' = current /\ walked' = walked
      /\ page' = page /\ phase' = phase
  BY DEF Record, walkVars
<1>2. chain' \in Seq(Transition \cup {Lost}) /\ Len(chain') = Len(chain) + 1
  BY <1>1 DEF QueryIInv, QueryTypeOK
<1>3. QueryTypeOK'
  BY <1>1, <1>2 DEF QueryIInv, QueryTypeOK
<1>4. \A i \in 1 .. head : chain'[i] = chain[i]
  BY <1>1 DEF QueryIInv, QueryTypeOK
<1>5. \A i : Wanted(i)' <=> Wanted(i)
  BY <1>1, <1>4 DEF Wanted, Held
<1>6. WalkIsExact'
  BY <1>1, <1>5 DEF WalkIsExact, QueryIInv
<1>7. EndsForAReason'
  <2>1. More => current \in 1 .. head
    BY DEF More, QueryIInv, QueryTypeOK
  <2>2. More => (Held(current)' <=> Held(current))
    BY <1>1, <1>4, <2>1 DEF Held
  <2> QED
    BY <1>1, <2>2 DEF EndsForAReason, QueryIInv, More
<1> QED
  BY <1>3, <1>6, <1>7 DEF QueryIInv

\* One turn of the handler's loop.
LEMMA WalkKeepsIInv == QueryIInv /\ Walk => QueryIInv'
<1> SUFFICES ASSUME QueryIInv, Walk PROVE QueryIInv'
  OBVIOUS
<1>1. /\ chain' = chain /\ query' = query /\ head' = head /\ phase = "walking"
      /\ query \in Queries
  BY DEF Walk, Finish, Break, StopAtSince, PassOver, Collect, Fetches, QueryIInv, QueryTypeOK
<1>2. \A i : (Wanted(i)' <=> Wanted(i)) /\ (Held(i)' <=> Held(i))
  BY <1>1 DEF Wanted, Held
<1>3. query.limit \in Nat /\ query.since \in Nat /\ MaxWalk \in Nat
  BY <1>1, QueryParameters
<1>4. CASE Finish
  <2>1. page' = page /\ current' = current /\ walked' = walked /\ phase' = "answered"
    BY <1>4 DEF Finish
  <2>2. QueryTypeOK'
    BY <1>1, <2>1 DEF QueryIInv, QueryTypeOK
  <2>3. WalkIsExact'
    BY <1>1, <1>2, <2>1 DEF QueryIInv, WalkIsExact
  <2>4. EndsForAReason'
    BY <1>1, <1>3, <1>4, <2>1, <2>2 DEF QueryTypeOK, EndsForAReason, Finish, Continues, More
  <2> QED
    BY <2>2, <2>3, <2>4 DEF QueryIInv
<1>7. CASE Break
  <2>1. /\ page' = page /\ current' = current /\ walked' = walked /\ phase' = "answered"
        /\ ~Held(current)
    BY <1>7 DEF Break
  <2>2. QueryTypeOK'
    BY <1>1, <2>1 DEF QueryIInv, QueryTypeOK
  <2>3. WalkIsExact'
    BY <1>1, <1>2, <2>1 DEF QueryIInv, WalkIsExact
  <2>4. EndsForAReason'
    BY <1>2, <2>1 DEF EndsForAReason
  <2> QED
    BY <2>2, <2>3, <2>4 DEF QueryIInv
<1>5. CASE StopAtSince
  <2>1. /\ page' = page /\ current' = current /\ walked' = walked + 1 /\ phase' = "answered"
        /\ walked < MaxWalk /\ current = query.since
    BY <1>5 DEF StopAtSince, Fetches, Continues, AtSince
  <2>2. QueryTypeOK'
    BY <1>1, <2>1, QueryAssumption DEF QueryIInv, QueryTypeOK
  <2>3. WalkIsExact'
    BY <1>1, <1>2, <2>1 DEF QueryIInv, WalkIsExact
  <2>4. EndsForAReason'
    BY <1>1, <2>1 DEF EndsForAReason
  <2> QED
    BY <2>2, <2>3, <2>4 DEF QueryIInv
<1>6. CASE PassOver \/ Collect
  <2>1. /\ current' = current - 1 /\ walked' = walked + 1 /\ phase' = phase
        /\ current \in 1 .. head /\ walked < MaxWalk /\ Len(page) < query.limit
        /\ Held(current)
    BY <1>6 DEF PassOver, Collect, Fetches, Continues, More, QueryIInv, QueryTypeOK
  <2>2. query.since <= current - 1
    BY <1>1, <1>3, <1>6, <2>1 DEF PassOver, Collect, AtSince, QueryIInv, QueryTypeOK, WalkIsExact
  <2>3. \/ page' = page /\ ~Wanted(current)
        \/ page' = Append(page, current) /\ Wanted(current)
    <3>1. FilteredOut(current) <=> ~Wanted(current)
      <4>1. query.before # None => query.before \in Nat
        BY <1>1, QueryParameters
      <4>2. chain[current] \in Transition
        BY <2>1 DEF QueryIInv, QueryTypeOK, Held
      <4>3. chain[current].timestamp \in Nat
        BY <1>1, <4>2, QueryParameters DEF Transition
      <4> QED
        BY <1>3, <2>1, <2>2, <4>1, <4>3 DEF FilteredOut, Wanted, QueryIInv, QueryTypeOK
    <3> QED
      BY <1>6, <3>1 DEF PassOver, Collect
  <2>4. /\ page \in Seq(1 .. head) /\ page' \in Seq(1 .. head) /\ Len(page') <= query.limit
        /\ Len(page') \in Nat /\ Len(page) \in Nat
    <3>1. page \in Seq(1 .. head)
      BY DEF QueryIInv, QueryTypeOK
    <3>2. CASE page' = page
      BY <1>3, <2>1, <3>1, <3>2
    <3>3. CASE page' = Append(page, current)
      BY <1>3, <2>1, <3>1, <3>3
    <3> QED
      BY <2>3, <3>2, <3>3
  <2>5. QueryTypeOK'
    BY <1>1, <2>1, <2>4, QueryAssumption DEF QueryIInv, QueryTypeOK
  <2>6. \A k \in 1 .. Len(page) : page'[k] = page[k] /\ k \in 1 .. Len(page')
    BY <2>3, <2>4
  <2>7. \A k \in 1 .. Len(page') : k \in 1 .. Len(page) \/ (page'[k] = current /\ Wanted(current))
    BY <2>3, <2>4
  <2>8. \A k \in 1 .. Len(page') : Wanted(page'[k]) /\ page'[k] > current - 1
    <3>1. \A k \in 1 .. Len(page) : Wanted(page[k]) /\ page[k] > current
      BY <1>1 DEF QueryIInv, WalkIsExact
    <3>2. \A k \in 1 .. Len(page) : page[k] \in 1 .. head
      BY DEF QueryIInv, QueryTypeOK
    <3> QED
      BY <2>1, <2>6, <2>7, <3>1, <3>2
  <2>9. \A k \in 1 .. Len(page') - 1 : page'[k] > page'[k + 1]
    <3>1. /\ \A k \in 1 .. Len(page) - 1 : page[k] > page[k + 1]
          /\ \A k \in 1 .. Len(page) : page[k] > current
      BY <1>1 DEF QueryIInv, WalkIsExact
    <3> QED
      BY <2>3, <2>4, <3>1
  <2>10. ASSUME NEW i \in 1 .. head, Wanted(i), i > current - 1
         PROVE  \E k \in 1 .. Len(page') : page'[k] = i
    <3>1. CASE i = current
      <4>1. page' = Append(page, current)
        BY <2>3, <2>10, <3>1
      <4> QED
        BY <2>4, <3>1, <4>1
    <3>2. CASE i > current
      <4>1. \E k \in 1 .. Len(page) : page[k] = i
        BY <1>1, <2>10, <3>2 DEF QueryIInv, WalkIsExact
      <4> QED
        BY <2>6, <4>1
    <3> QED
      BY <2>1, <2>10, <3>1, <3>2
  <2>11. WalkIsExact'
    BY <1>1, <1>2, <2>1, <2>2, <2>4, <2>8, <2>9, <2>10 DEF WalkIsExact
  <2>12. EndsForAReason'
    BY <1>1, <2>1 DEF EndsForAReason
  <2> QED
    BY <2>5, <2>11, <2>12 DEF QueryIInv
<1> QED
  BY <1>4, <1>5, <1>6, <1>7 DEF Walk

\* The client's next request is a query, and its since lies in the chain.
LEMMA NextPageAsks ==
    ASSUME QueryIInv, NextPage
    PROVE  \E q \in Queries : q.since <= Len(chain) /\ Ask(q)
<1>1. query \in Queries /\ query.since <= head /\ head <= Len(chain) /\ chain \in Seq(Transition \cup {Lost})
  BY DEF NextPage, QueryIInv, QueryTypeOK
<1> DEFINE before == IF page = <<>> THEN query.before ELSE chain[page[Len(page)]].timestamp
           q == [query EXCEPT !.before = before]
<1>2. before \in Timestamps \cup {None}
  <2>1. CASE page = <<>>
    BY <1>1, <2>1, QueryParameters
  <2>2. CASE page # <<>>
    <3>1. Len(page) \in 1 .. Len(page) /\ page[Len(page)] \in 1 .. head
      BY <2>2 DEF QueryIInv, QueryTypeOK
    <3>4. Wanted(page[Len(page)])
      BY <3>1 DEF NextPage, QueryIInv, WalkIsExact
    <3>2. page[Len(page)] \in 1 .. Len(chain)
      BY <1>1, <3>1 DEF QueryIInv, QueryTypeOK
    <3>3. chain[page[Len(page)]] \in Transition
      BY <1>1, <3>2, <3>4 DEF Wanted, Held
    <3> QED
      BY <2>2, <3>3 DEF Transition
  <2> QED
    BY <2>1, <2>2
<1>3. q \in Queries /\ q.since = query.since
  BY <1>1, <1>2 DEF Queries
<1>4. Ask(q)
  BY DEF NextPage
<1>5. query.since \in Nat /\ head \in Nat /\ Len(chain) \in Nat
  BY <1>1, QueryParameters DEF QueryIInv, QueryTypeOK
<1>6. q.since <= Len(chain)
  BY <1>1, <1>3, <1>5
<1> HIDE DEF q
<1> QED
  BY <1>3, <1>4, <1>6

\* Every step of client, recorder and handler.
LEMMA PagingStepKeepsIInv == QueryIInv /\ [PagingNext]_pagingVars => QueryIInv'
<1> SUFFICES ASSUME QueryIInv, [PagingNext]_pagingVars PROVE QueryIInv'
  OBVIOUS
<1>1. CASE Grow /\ UNCHANGED clientVars
  BY <1>1, RecordKeepsIInv, QueryAssumption DEF Grow
<1>2. CASE \E q \in Queries : q.since <= Len(chain) /\ (Other(q) \/ FirstPage(q))
  BY <1>2, AskKeepsIInv DEF Other, FirstPage
<1>3. CASE Served
  BY <1>3, WalkKeepsIInv DEF Served
<1>4. CASE NextPage
  BY <1>4, NextPageAsks, AskKeepsIInv
<1>5. CASE LastPage \/ UNCHANGED pagingVars
  <2>1. UNCHANGED queryVars
    BY <1>5 DEF LastPage, pagingVars
  <2>2. /\ chain' = chain /\ query' = query /\ head' = head /\ current' = current
        /\ walked' = walked /\ page' = page /\ phase' = phase
    BY <2>1 DEF queryVars, walkVars
  <2> QED
    BY <2>2 DEF QueryIInv, QueryTypeOK, WalkIsExact, EndsForAReason, Wanted, More, Held
<1> QED
  BY <1>1, <1>2, <1>3, <1>4, <1>5 DEF PagingNext, Client, Rest

\* No query.
LEMMA InitQueryIInv == PagingInit => QueryIInv
<1> SUFFICES ASSUME PagingInit PROVE QueryIInv
  OBVIOUS
<1>1. chain \in Seq(Transition \cup {Lost})
  <2>1. \A t \in Recordings : <<Lost, t>> \in Seq(Transition \cup {Lost})
    <3> SUFFICES ASSUME NEW t \in Recordings PROVE <<Lost, t>> \in Seq(Transition \cup {Lost})
      OBVIOUS
    <3>1. t \in Transition \cup {Lost} /\ Lost \in Transition \cup {Lost}
      BY QueryAssumption
    <3> QED
      BY <3>1
  <2>2. <<>> \in Seq(Transition \cup {Lost})
    OBVIOUS
  <2>3. chain \in {<<>>} \cup {<<Lost, t>> : t \in Recordings}
    BY DEF PagingInit, QueryInit
  <2>4. CASE chain = <<>>
    BY <2>2, <2>4, Zenon
  <2>5. CASE \E t \in Recordings : chain = <<Lost, t>>
    BY <2>1, <2>5, Zenon
  <2> QED
    BY <2>3, <2>4, <2>5
<1>2. /\ head = 0 /\ current = 0 /\ walked = 0 /\ page = <<>> /\ phase = "idle"
  BY DEF PagingInit, QueryInit
<1>3. Len(chain) \in Nat /\ 0 \in 0 .. MaxWalk
  BY <1>1, QueryAssumption
<1> QED
  BY <1>1, <1>2, <1>3 DEF QueryIInv, QueryTypeOK, WalkIsExact, EndsForAReason

\* An answered walk has a page that is exact.
LEMMA QueryIInvIsExact == QueryIInv => AnswerIsExact
<1> SUFFICES ASSUME QueryIInv, phase = "answered" PROVE AnswerIsExact
  BY DEF AnswerIsExact
<1>1. DOMAIN page = 1 .. Len(page)
  BY DEF QueryIInv, QueryTypeOK
<1>2. WalkIsExact /\ EndsForAReason /\ QueryTypeOK
  BY DEF QueryIInv
<1>3. \A i \in 1 .. head : Wanted(i) => (\E k \in DOMAIN page : page[k] = i) \/ (More /\ i <= current)
  <2> SUFFICES ASSUME NEW i \in 1 .. head, Wanted(i), ~(\E k \in 1 .. Len(page) : page[k] = i)
               PROVE  More /\ i <= current
    BY <1>1
  <2>1. head \in Nat /\ current \in Nat
    BY <1>2 DEF QueryTypeOK
  <2>2. ~(i > current)
    BY <1>2 DEF WalkIsExact
  <2> QED
    BY <2>1, <2>2 DEF More
<1> QED
  BY <1>1, <1>2, <1>3 DEF AnswerIsExact, WalkIsExact, EndsForAReason, QueryTypeOK

\* Every answer of query is exact, for chains, limits, cursors and filters of
\* any size, while the recorder extends the chain under the walk and a client
\* pages through it.
THEOREM AnswersAreExact == PagingSpec => []AnswerIsExact
<1>1. PagingSpec => []QueryIInv
  BY InitQueryIInv, PagingStepKeepsIInv, PTL DEF PagingSpec
<1> QED
  BY <1>1, QueryIInvIsExact, PTL

--------------------------------------------------------------------------------
(***************************************************************************)
(* The configuration lookup.                                               *)
(***************************************************************************)
\* A string as the function of its entries, nothing coming before any byte.
Places == Nat \ {0}
Entries(s) == [k \in Places |-> IF k <= Len(s) THEN s[k] + 1 ELSE 0]

\* f is less than g where they first differ.
Below(f, g) ==
    \E k \in Places : f[k] < g[k] /\ \A i \in 1 .. k - 1 : f[i] = g[i]

\* The entries of a string.
LEMMA EntriesAreTyped ==
    ASSUME NEW s \in Seq(Nat), NEW k \in Places
    PROVE  /\ Entries(s)[k] \in Nat
           /\ k <= Len(s) => Entries(s)[k] = s[k] + 1 /\ s[k] \in Nat
           /\ k > Len(s) => Entries(s)[k] = 0
           /\ Entries(s)[k] > 0 => k <= Len(s)
<1>1. Len(s) \in Nat /\ k \in Nat /\ k >= 1
  BY DEF Places
<1>2. CASE k <= Len(s)
  <2>1. s[k] \in Nat
    BY <1>1, <1>2
  <2> QED
    BY <1>1, <1>2, <2>1 DEF Entries
<1>3. CASE k > Len(s)
  BY <1>1, <1>3 DEF Entries
<1> QED
  BY <1>1, <1>2, <1>3

\* Two strings have the same entries.
LEMMA SameEntries ==
    ASSUME NEW s \in Seq(Nat), NEW t \in Seq(Nat), \A k \in Places : Entries(s)[k] = Entries(t)[k]
    PROVE  s = t
<1>1. Len(s) \in Nat /\ Len(t) \in Nat
  OBVIOUS
<1>2. ~(Len(s) < Len(t))
  <2> SUFFICES ASSUME Len(s) < Len(t) PROVE FALSE
    OBVIOUS
  <2>1. Len(t) \in Places
    BY <1>1 DEF Places
  <2>2. Entries(s)[Len(t)] = 0 /\ Entries(t)[Len(t)] = t[Len(t)] + 1 /\ t[Len(t)] \in Nat
    BY <1>1, <2>1, EntriesAreTyped
  <2> QED
    BY <2>1, <2>2
<1>3. ~(Len(t) < Len(s))
  <2> SUFFICES ASSUME Len(t) < Len(s) PROVE FALSE
    OBVIOUS
  <2>1. Len(s) \in Places
    BY <1>1 DEF Places
  <2>2. Entries(t)[Len(s)] = 0 /\ Entries(s)[Len(s)] = s[Len(s)] + 1 /\ s[Len(s)] \in Nat
    BY <1>1, <2>1, EntriesAreTyped
  <2> QED
    BY <2>1, <2>2
<1>4. ASSUME NEW i \in 1 .. Len(s) PROVE s[i] = t[i]
  <2>1. i \in Places /\ i <= Len(s) /\ i <= Len(t)
    BY <1>1, <1>2, <1>3 DEF Places
  <2>2. Entries(s)[i] = s[i] + 1 /\ Entries(t)[i] = t[i] + 1 /\ s[i] \in Nat /\ t[i] \in Nat
    BY <2>1, EntriesAreTyped
  <2> QED
    BY <2>1, <2>2
<1> QED
  BY <1>1, <1>2, <1>3, <1>4

\* The comparison of two strings, entry by entry.
LEMMA LexLessIsBelow ==
    ASSUME NEW p, NEW q, Spelling(p) \in Seq(Nat), Spelling(q) \in Seq(Nat)
    PROVE  LexLess(p, q) <=> Below(Entries(Spelling(p)), Entries(Spelling(q)))
<1> DEFINE s == Spelling(p)
           t == Spelling(q)
           Here(k) == /\ k <= Len(t)
                      /\ SubSeq(s, 1, k - 1) = SubSeq(t, 1, k - 1)
                      /\ k > Len(s) \/ s[k] < t[k]
           There(k) == /\ Entries(s)[k] < Entries(t)[k]
                       /\ \A i \in 1 .. k - 1 : Entries(s)[i] = Entries(t)[i]
<1>1. s \in Seq(Nat) /\ t \in Seq(Nat) /\ Len(s) \in Nat /\ Len(t) \in Nat
  OBVIOUS
<1>2. LexLess(p, q) <=> \E k \in 1 .. Len(s) + 1 : Here(k)
  BY DEF LexLess
<1>3. Below(Entries(s), Entries(t)) <=> \E k \in Places : There(k)
  BY DEF Below
<1> HIDE DEF s, t
<1>4. ASSUME NEW k \in 1 .. Len(s) + 1, k <= Len(t)
      PROVE  SubSeq(s, 1, k - 1) = SubSeq(t, 1, k - 1) <=> \A i \in 1 .. k - 1 : s[i] = t[i]
  <2>1. /\ SubSeq(s, 1, k - 1) = [i \in 1 .. k - 1 |-> s[i]]
        /\ SubSeq(t, 1, k - 1) = [i \in 1 .. k - 1 |-> t[i]]
    <3>1. 1 \in 1 .. Len(s) + 1 /\ k - 1 \in 0 .. Len(s) /\ k - 1 \in 0 .. Len(t) /\ 1 <= k
      BY <1>1, <1>4
    <3> QED
      BY <1>1, <3>1
  <2> QED
    BY <2>1
<1>5. ASSUME NEW k \in 1 .. Len(s) + 1, k <= Len(t), NEW i \in 1 .. k - 1
      PROVE  /\ i \in Places /\ Entries(s)[i] = s[i] + 1 /\ Entries(t)[i] = t[i] + 1
             /\ s[i] \in Nat /\ t[i] \in Nat
  <2>1. i \in Places /\ i <= Len(s) /\ i <= Len(t)
    BY <1>1, <1>5 DEF Places
  <2> QED
    BY <1>1, <2>1, EntriesAreTyped
<1>6. ASSUME NEW k \in 1 .. Len(s) + 1, Here(k) PROVE There(k) /\ k \in Places
  <2>1. k \in Places /\ k <= Len(t)
    BY <1>1, <1>6 DEF Places
  <2>2. Entries(t)[k] = t[k] + 1 /\ t[k] \in Nat
    BY <1>1, <2>1, EntriesAreTyped
  <2>3. Entries(s)[k] < Entries(t)[k]
    <3>1. CASE k > Len(s)
      <4>1. Entries(s)[k] = 0
        BY <1>1, <2>1, <3>1, EntriesAreTyped
      <4> QED
        BY <2>2, <4>1
    <3>2. CASE k <= Len(s)
      <4>1. Entries(s)[k] = s[k] + 1 /\ s[k] \in Nat
        BY <1>1, <2>1, <3>2, EntriesAreTyped
      <4>2. s[k] < t[k]
        BY <1>1, <1>6, <3>2
      <4> QED
        BY <2>2, <4>1, <4>2
    <3> QED
      BY <1>1, <3>1, <3>2
  <2>4. \A i \in 1 .. k - 1 : Entries(s)[i] = Entries(t)[i]
    BY <1>4, <1>5, <1>6, <2>1
  <2> QED
    BY <2>1, <2>3, <2>4
<1>7. ASSUME NEW k \in Places, There(k) PROVE k \in 1 .. Len(s) + 1 /\ Here(k)
  <2>1. k <= Len(t) /\ Entries(t)[k] = t[k] + 1 /\ t[k] \in Nat /\ k \in Nat /\ k >= 1
    <3>1. Entries(s)[k] \in Nat /\ Entries(t)[k] \in Nat
      BY <1>1, EntriesAreTyped
    <3>2. Entries(t)[k] > 0
      BY <1>7, <3>1
    <3> QED
      BY <1>1, <3>2, EntriesAreTyped DEF Places
  <2>2. k <= Len(s) + 1
    <3> SUFFICES ASSUME k > Len(s) + 1 PROVE FALSE
      BY <1>1, <2>1
    <3> DEFINE i == Len(s) + 1
    <3>1. i \in Places /\ i \in 1 .. k - 1 /\ i <= Len(t) /\ i > Len(s)
      BY <1>1, <2>1 DEF Places
    <3> HIDE DEF i
    <3>2. Entries(s)[i] = 0 /\ Entries(t)[i] = t[i] + 1 /\ t[i] \in Nat
      BY <1>1, <3>1, EntriesAreTyped
    <3> QED
      BY <1>7, <3>1, <3>2
  <2>3. k \in 1 .. Len(s) + 1
    BY <1>1, <2>1, <2>2
  <2>4. \A i \in 1 .. k - 1 : s[i] = t[i]
    <3> SUFFICES ASSUME NEW i \in 1 .. k - 1 PROVE s[i] = t[i]
      OBVIOUS
    <3>1. /\ Entries(s)[i] = s[i] + 1 /\ Entries(t)[i] = t[i] + 1
          /\ s[i] \in Nat /\ t[i] \in Nat
      BY <1>5, <2>1, <2>3
    <3>2. Entries(s)[i] = Entries(t)[i]
      BY <1>7
    <3> QED
      BY <3>1, <3>2
  <2>5. k > Len(s) \/ s[k] < t[k]
    <3> SUFFICES ASSUME k <= Len(s) PROVE s[k] < t[k]
      BY <1>1, <2>1
    <3>1. Entries(s)[k] = s[k] + 1 /\ s[k] \in Nat
      BY <1>1, EntriesAreTyped
    <3> QED
      BY <1>7, <2>1, <3>1
  <2> QED
    BY <1>4, <2>1, <2>3, <2>4, <2>5
<1> HIDE DEF Here, There
<1> QED
  BY <1>2, <1>3, <1>6, <1>7 DEF s, t

\* It is a strict total order.
LEMMA BelowIsAnOrder ==
    ASSUME NEW f, NEW g, NEW h,
           \A k \in Places : f[k] \in Nat /\ g[k] \in Nat /\ h[k] \in Nat
    PROVE  /\ Below(f, g) => ~Below(g, f) /\ f # g
           /\ Below(f, g) /\ Below(g, h) => Below(f, h)
           /\ (\E k \in Places : f[k] # g[k]) => Below(f, g) \/ Below(g, f)
<1>1. ASSUME Below(f, g) PROVE ~Below(g, f) /\ f # g
  <2>1. PICK k \in Places : f[k] < g[k] /\ \A i \in 1 .. k - 1 : f[i] = g[i]
    BY <1>1 DEF Below
  <2>2. ASSUME NEW m \in Places, g[m] < f[m], \A i \in 1 .. m - 1 : g[i] = f[i]
        PROVE  FALSE
    <3>1. f[k] \in Nat /\ g[k] \in Nat /\ f[m] \in Nat /\ g[m] \in Nat
      OBVIOUS
    <3>2. m = k \/ m \in 1 .. k - 1 \/ k \in 1 .. m - 1
      BY DEF Places
    <3> QED
      BY <2>1, <2>2, <3>1, <3>2
  <2>3. f[k] \in Nat /\ g[k] \in Nat
    OBVIOUS
  <2> QED
    BY <2>1, <2>2, <2>3 DEF Below
<1>2. ASSUME Below(f, g), Below(g, h) PROVE Below(f, h)
  <2>1. PICK k \in Places : f[k] < g[k] /\ \A i \in 1 .. k - 1 : f[i] = g[i]
    BY <1>2 DEF Below
  <2>2. PICK m \in Places : g[m] < h[m] /\ \A i \in 1 .. m - 1 : g[i] = h[i]
    BY <1>2 DEF Below
  <2>3. /\ f[k] \in Nat /\ g[k] \in Nat /\ h[k] \in Nat
        /\ f[m] \in Nat /\ g[m] \in Nat /\ h[m] \in Nat
        /\ k \in Nat /\ k >= 1 /\ m \in Nat /\ m >= 1
    BY DEF Places
  <2>4. CASE k < m
    <3>1. k \in 1 .. m - 1
      BY <2>3, <2>4
    <3>2. f[k] < h[k] /\ \A i \in 1 .. k - 1 : f[i] = h[i]
      BY <2>1, <2>2, <2>3, <3>1
    <3> QED
      BY <3>2 DEF Below
  <2>5. CASE m < k
    <3>1. m \in 1 .. k - 1
      BY <2>3, <2>5
    <3>2. f[m] < h[m] /\ \A i \in 1 .. m - 1 : f[i] = h[i]
      BY <2>1, <2>2, <2>3, <3>1
    <3> QED
      BY <3>2 DEF Below
  <2>6. CASE k = m
    <3>1. f[k] < h[k] /\ \A i \in 1 .. k - 1 : f[i] = h[i]
      BY <2>1, <2>2, <2>3, <2>6
    <3> QED
      BY <3>1 DEF Below
  <2> QED
    BY <2>3, <2>4, <2>5, <2>6
<1>3. ASSUME \E k \in Places : f[k] # g[k] PROVE Below(f, g) \/ Below(g, f)
  <2> DEFINE D == {i \in Places : f[i] # g[i]}
  <2>1. D # {} /\ D \in SUBSET Nat
    BY <1>3 DEF Places
  <2>2. PICK k \in D : \A i \in D : k <= i
    <3> HIDE DEF D
    <3> QED
      BY <2>1, LeastNatural
  <2>3. k \in Places /\ f[k] # g[k]
    OBVIOUS
  <2>4. f[k] < g[k] \/ g[k] < f[k]
    BY <2>3
  <2>5. \A i \in 1 .. k - 1 : f[i] = g[i]
    BY <2>2, <2>3 DEF Places
  <2> QED
    BY <2>3, <2>4, <2>5 DEF Below
<1> QED
  BY <1>1, <1>2, <1>3

\* What a canonical pattern is: segments, and the string they spell.
IsPattern(s) == s \in Seq(Nat) /\ \E r \in RawPatterns : s = CanonicalizePattern(r)

\* The comparison of patterns is a strict total order.
LEMMA LexLessIsAnOrder ==
    ASSUME NEW s, NEW t, NEW u, IsPattern(s), IsPattern(t), IsPattern(u)
    PROVE  /\ LexLess(s, t) => ~LexLess(t, s) /\ s # t
           /\ LexLess(s, t) /\ LexLess(t, u) => LexLess(s, u)
           /\ s # t => LexLess(s, t) \/ LexLess(t, s)
<1>1. /\ Spelling(s) \in Seq(Nat) /\ Spelling(t) \in Seq(Nat) /\ Spelling(u) \in Seq(Nat)
      /\ Spelling(s) = Spelling(t) => s = t
  BY SpellingAssumption DEF IsPattern
<1> DEFINE f == Entries(Spelling(s))
           g == Entries(Spelling(t))
           h == Entries(Spelling(u))
<1>2. \A k \in Places : f[k] \in Nat /\ g[k] \in Nat /\ h[k] \in Nat
  BY <1>1, EntriesAreTyped
<1>3. s # t => \E k \in Places : f[k] # g[k]
  BY <1>1, SameEntries
<1>4. /\ LexLess(s, t) <=> Below(f, g)
      /\ LexLess(t, s) <=> Below(g, f)
      /\ LexLess(t, u) <=> Below(g, h)
      /\ LexLess(s, u) <=> Below(f, h)
  BY <1>1, LexLessIsBelow
<1> HIDE DEF f, g, h
<1>5. /\ Below(f, g) => ~Below(g, f) /\ f # g
      /\ Below(f, g) /\ Below(g, h) => Below(f, h)
      /\ (\E k \in Places : f[k] # g[k]) => Below(f, g) \/ Below(g, f)
  BY <1>2, BelowIsAnOrder
<1>6. s = t => f = g
  BY DEF f, g
<1> QED
  BY <1>3, <1>4, <1>5, <1>6

\* A pattern has finitely many literal segments.
LEMMA LiteralsAreNatural ==
    ASSUME NEW s \in Seq(Nat)
    PROVE  Literals(s) \in Nat /\ Len(s) \in Nat
<1>1. DOMAIN s = 1 .. Len(s) /\ Len(s) \in Nat
  OBVIOUS
<1>2. IsFiniteSet(1 .. Len(s))
  BY <1>1, FS_Interval
<1>3. IsFiniteSet({i \in DOMAIN s : s[i] # Star})
  BY <1>1, <1>2, FS_Subset
<1> QED
  BY <1>1, <1>3, FS_CardinalityType DEF Literals

\* The three keys of compare_specificity order patterns totally, and it
\* computes that order.
LEMMA DominatesIsAnOrder ==
    ASSUME NEW s, NEW t, NEW u, IsPattern(s), IsPattern(t), IsPattern(u)
    PROVE  /\ ~Dominates(s, s)
           /\ Dominates(s, t) \/ Dominates(t, s) \/ s = t
           /\ Dominates(s, t) /\ Dominates(t, u) => Dominates(s, u)
           /\ CompareSpecificity(s, t) > 0 <=> Dominates(s, t)
<1>1. /\ Literals(s) \in Nat /\ Literals(t) \in Nat /\ Literals(u) \in Nat
      /\ Len(s) \in Nat /\ Len(t) \in Nat /\ Len(u) \in Nat
  BY LiteralsAreNatural DEF IsPattern
<1>2. /\ LexLess(s, t) => ~LexLess(t, s) /\ s # t
      /\ s # t => LexLess(s, t) \/ LexLess(t, s)
  BY LexLessIsAnOrder
<1>3. LexLess(s, t) /\ LexLess(t, u) => LexLess(s, u)
  BY LexLessIsAnOrder
<1>4. ~LexLess(s, s)
  BY LexLessIsAnOrder
<1>5. ~Dominates(s, s)
  BY <1>1, <1>4 DEF Dominates
<1>6. Dominates(s, t) \/ Dominates(t, s) \/ s = t
  BY <1>1, <1>2 DEF Dominates
<1>7. Dominates(s, t) /\ Dominates(t, u) => Dominates(s, u)
  BY <1>1, <1>3 DEF Dominates
<1>8. CompareSpecificity(s, t) > 0 <=> Dominates(s, t)
  BY <1>1, <1>2 DEF CompareSpecificity, Dominates, Depth
<1> QED
  BY <1>5, <1>6, <1>7, <1>8

\* The rows read so far hold no better match than the best one.
ScanIsSound ==
    /\ rows \in [Names -> Rows]
    /\ todo \subseteq Bound
    /\ best = Unbound \/ best \in Matching
    /\ \A n \in Matching \ todo :
          best # Unbound /\ (Pattern(n) = Pattern(best) \/ Dominates(Pattern(best), Pattern(n)))

\* The pattern of a row.
LEMMA RowsHavePatterns ==
    ASSUME rows \in [Names -> Rows], NEW n \in Names, rows[n] \notin {Unbound, Malformed}
    PROVE  IsPattern(Pattern(n))
<1>1. rows[n].pattern \in RawPatterns
  BY DEF Rows
<1>2. /\ rows[n].pattern.segs \in Seq(Nat)
      /\ Local \in Nat
  BY <1>1, PatternAssumption
<1>3. <<Local>> \o rows[n].pattern.segs \in Seq(Nat)
  BY <1>2
<1> QED
  BY <1>1, <1>2, <1>3 DEF IsPattern, Pattern, CanonicalizePattern

\* A row that is read is compared with the best one so far.
LEMMA ReadRowKeepsScan ==
    ASSUME ScanIsSound, NEW n \in Names, ReadRow(n)
    PROVE  ScanIsSound'
<1>1. rows' = rows /\ path' = path /\ todo' = todo \ {n} /\ n \in Bound
  BY DEF ReadRow, ScanIsSound
<1>2. /\ Bound' = Bound /\ Matching' = Matching
      /\ \A m : Pattern(m)' = Pattern(m)
  BY <1>1 DEF Bound, Matching, Pattern
<1>3. \A m \in Matching : m \in Names /\ rows[m] \notin {Unbound, Malformed} /\ m # Unbound
  BY PatternAssumption DEF Matching, Bound
<1>4. \A m \in Matching : IsPattern(Pattern(m))
  BY <1>3, RowsHavePatterns DEF ScanIsSound
<1>5. CASE best' = best /\ n \notin Matching
  BY <1>1, <1>2, <1>5 DEF ScanIsSound
<1>6. CASE best' = n /\ n \in Matching
           /\ (best = Unbound \/ CompareSpecificity(Pattern(n), Pattern(best)) > 0)
  <2>1. ASSUME NEW m \in Matching \ todo'
        PROVE  Pattern(m) = Pattern(n) \/ Dominates(Pattern(n), Pattern(m))
    <3>1. CASE m = n
      BY <3>1
    <3>2. CASE m # n
      <4>1. /\ best # Unbound /\ best \in Matching
            /\ Pattern(m) = Pattern(best) \/ Dominates(Pattern(best), Pattern(m))
        BY <1>1, <3>2 DEF ScanIsSound
      <4>2. Dominates(Pattern(n), Pattern(best))
        BY <1>4, <1>6, <4>1, DominatesIsAnOrder
      <4> QED
        BY <1>4, <1>6, <4>1, <4>2, DominatesIsAnOrder
    <3> QED
      BY <3>1, <3>2
  <2> QED
    BY <1>1, <1>2, <1>3, <1>6, <2>1 DEF ScanIsSound
<1>7. CASE best' = best /\ n \in Matching /\ best # Unbound
           /\ ~(CompareSpecificity(Pattern(n), Pattern(best)) > 0)
  <2>1. best \in Matching
    BY <1>7 DEF ScanIsSound
  <2>2. Pattern(n) = Pattern(best) \/ Dominates(Pattern(best), Pattern(n))
    BY <1>4, <1>7, <2>1, DominatesIsAnOrder
  <2> QED
    BY <1>1, <1>2, <1>7, <2>2 DEF ScanIsSound
<1>8. n \in Matching <=> rows[n] # Malformed /\ MatchesPattern(path, Pattern(n))
  BY <1>1 DEF Matching
<1> QED
  BY <1>5, <1>6, <1>7, <1>8 DEF ReadRow

\* Every step of a lookup.
LEMMA LookupStepKeepsScan == ScanIsSound /\ [LookupNext]_lookupVars => ScanIsSound'
<1> SUFFICES ASSUME ScanIsSound, [LookupNext]_lookupVars PROVE ScanIsSound'
  OBVIOUS
<1>1. CASE \E n \in Names : ReadRow(n)
  BY <1>1, ReadRowKeepsScan
<1>2. CASE \E p \in PathSet : NextLookup(p)
  <2>1. rows' = rows /\ todo' = Bound /\ best' = Unbound
    BY <1>2 DEF NextLookup
  <2>2. Bound' = Bound /\ Matching' \subseteq Bound
    BY <2>1 DEF Bound, Matching
  <2> QED
    BY <2>1, <2>2 DEF ScanIsSound
<1>3. CASE UNCHANGED lookupVars
  BY <1>3 DEF lookupVars, ScanIsSound, Bound, Matching, Pattern
<1> QED
  BY <1>1, <1>2, <1>3 DEF LookupNext

\* In whatever order the store lists the directory, and however many rows it
\* has, the scan selects the pattern that dominates all others that match.
THEOREM SelectionIsMostSpecific == LookupSpec => []SelectsMostSpecific
<1>1. LookupInit => ScanIsSound
  BY DEF LookupInit, ScanIsSound, Matching
<1>2. ScanIsSound => SelectsMostSpecific
  <2> SUFFICES ASSUME ScanIsSound, todo = {} PROVE SelectsMostSpecific
    BY DEF SelectsMostSpecific
  <2>1. Unbound \notin Matching
    BY PatternAssumption DEF Matching, Bound
  <2> QED
    BY <2>1 DEF ScanIsSound, SelectsMostSpecific
<1> QED
  BY <1>1, <1>2, LookupStepKeepsScan, PTL DEF LookupSpec

--------------------------------------------------------------------------------
(***************************************************************************)
(* Installation: an invariant of the steps that are left.  A step that     *)
(* makes an extension reachable comes after all that the extension needs,  *)
(* in what is done or in what is left, and a restart begins a new list.    *)
(***************************************************************************)
\* What must be in the tree of an extension before it can be reached.
Needs(e) ==
    {Step("bind", e, "manifest"), Step("bind", e, "interface"), Step("grant", e, ""), Step("sign", e, "")}
    \cup {Step("bind", "type", t) : t \in TypesOf[e]}

Holds(s, x) == \E i \in 1 .. Len(s) : s[i] = x
Reaches(x) == x.op \in {"handler", "consumer"}
OfPolicy(x) == x.op = "bind" /\ x.what = "policy"

\* Nothing is reached before what it needs, and a consumer that listens hears
\* nothing of its own installation, a policy apart.
Ordered(s) ==
    \A i \in 1 .. Len(s) : Reaches(s[i]) =>
        /\ \A x \in Needs(s[i].ext) : \E j \in 1 .. i - 1 : s[j] = x
        /\ s[i].op = "consumer" =>
              \A j \in i + 1 .. Len(s) : s[j].ext = s[i].ext => OfPolicy(s[j])

Steps == [op : {"bind", "grant", "sign", "handler", "consumer", "evaluator"},
          ext : Extensions \cup {"type"}, what : {"", "manifest", "interface", "policy"} \cup Types]

\* One list of steps after another.
LEMMA OrderedAfter ==
    ASSUME NEW X, NEW a \in Seq(X), NEW b \in Seq(X), Ordered(a), Ordered(b),
           \A i \in 1 .. Len(a), j \in 1 .. Len(b) :
               a[i].op = "consumer" /\ b[j].ext = a[i].ext => OfPolicy(b[j])
    PROVE  Ordered(a \o b)
<1> DEFINE r == a \o b
<1>1. /\ Len(a) \in Nat /\ Len(b) \in Nat /\ Len(r) = Len(a) + Len(b)
      /\ \A i \in 1 .. Len(a) : r[i] = a[i]
      /\ \A i \in 1 .. Len(b) : r[Len(a) + i] = b[i]
  OBVIOUS
<1> HIDE DEF r
<1>2. ASSUME NEW i \in 1 .. Len(r), Reaches(r[i])
      PROVE  /\ \A x \in Needs(r[i].ext) : \E j \in 1 .. i - 1 : r[j] = x
             /\ r[i].op = "consumer" =>
                   \A j \in i + 1 .. Len(r) : r[j].ext = r[i].ext => OfPolicy(r[j])
  <2>1. CASE i <= Len(a)
    <3>1. i \in 1 .. Len(a) /\ r[i] = a[i]
      BY <1>1, <2>1
    <3>2. ASSUME NEW x \in Needs(r[i].ext) PROVE \E j \in 1 .. i - 1 : r[j] = x
      <4>1. PICK j \in 1 .. i - 1 : a[j] = x
        BY <1>2, <3>1, <3>2 DEF Ordered
      <4>2. j \in 1 .. Len(a)
        BY <1>1, <3>1
      <4> QED
        BY <1>1, <4>1, <4>2
    <3>3. ASSUME r[i].op = "consumer", NEW j \in i + 1 .. Len(r), r[j].ext = r[i].ext PROVE OfPolicy(r[j])
      <4>1. CASE j <= Len(a)
        <5>1. j \in 1 .. Len(a) /\ j \in i + 1 .. Len(a) /\ r[j] = a[j]
          BY <1>1, <3>1, <4>1
        <5> QED
          BY <1>2, <3>1, <3>3, <5>1 DEF Ordered
      <4>2. CASE j > Len(a)
        <5>1. j - Len(a) \in 1 .. Len(b) /\ r[j] = b[j - Len(a)]
          <6>1. j - Len(a) \in 1 .. Len(b) /\ Len(a) + (j - Len(a)) = j
            BY <1>1, <3>1, <4>2
          <6> QED
            BY <1>1, <6>1
        <5> QED
          BY <3>1, <3>3, <5>1
      <4> QED
        BY <1>1, <3>1, <4>1, <4>2
    <3> QED
      BY <3>2, <3>3
  <2>2. CASE i > Len(a)
    <3> DEFINE k == i - Len(a)
    <3>1. k \in 1 .. Len(b) /\ Len(a) + k = i
      BY <1>1, <2>2
    <3>2. r[i] = b[k]
      BY <1>1, <3>1
    <3> HIDE DEF k
    <3>3. ASSUME NEW x \in Needs(r[i].ext) PROVE \E j \in 1 .. i - 1 : r[j] = x
      <4>1. PICK j \in 1 .. k - 1 : b[j] = x
        BY <1>2, <3>1, <3>2, <3>3 DEF Ordered
      <4>2. j \in 1 .. Len(b) /\ Len(a) + j \in 1 .. i - 1
        BY <1>1, <3>1
      <4> QED
        BY <1>1, <4>1, <4>2
    <3>4. ASSUME r[i].op = "consumer", NEW j \in i + 1 .. Len(r), r[j].ext = r[i].ext PROVE OfPolicy(r[j])
      <4>1. j - Len(a) \in k + 1 .. Len(b) /\ j - Len(a) \in 1 .. Len(b) /\ Len(a) + (j - Len(a)) = j
        BY <1>1, <3>1, <2>2
      <4>2. r[j] = b[j - Len(a)]
        BY <1>1, <4>1
      <4> QED
        BY <1>2, <3>1, <3>2, <3>4, <4>1, <4>2 DEF Ordered
    <3> QED
      BY <3>3, <3>4
  <2> QED
    BY <1>1, <2>1, <2>2
<1> QED
  BY <1>2 DEF Ordered, r

\* One more step, once what it needs is there.
LEMMA OrderedWith ==
    ASSUME NEW X, NEW a \in Seq(X), NEW f \in X, Ordered(a), \A i \in 1 .. Len(a) : a[i].op # "consumer",
           Reaches(f) => \A x \in Needs(f.ext) : Holds(a, x)
    PROVE  Ordered(Append(a, f))
<1> DEFINE r == Append(a, f)
<1>1. /\ Len(a) \in Nat /\ Len(r) = Len(a) + 1
      /\ \A i \in 1 .. Len(a) : r[i] = a[i]
      /\ r[Len(a) + 1] = f
  OBVIOUS
<1> HIDE DEF r
<1>2. ASSUME NEW i \in 1 .. Len(r), Reaches(r[i])
      PROVE  /\ \A x \in Needs(r[i].ext) : \E j \in 1 .. i - 1 : r[j] = x
             /\ r[i].op = "consumer" =>
                   \A j \in i + 1 .. Len(r) : r[j].ext = r[i].ext => OfPolicy(r[j])
  <2>1. CASE i \in 1 .. Len(a)
    <3>1. ASSUME NEW x \in Needs(r[i].ext) PROVE \E j \in 1 .. i - 1 : r[j] = x
      <4>1. PICK j \in 1 .. i - 1 : a[j] = x
        BY <1>1, <1>2, <2>1, <3>1 DEF Ordered
      <4>2. j \in 1 .. Len(a)
        BY <1>1, <2>1
      <4> QED
        BY <1>1, <4>1, <4>2
    <3> QED
      BY <1>1, <2>1, <3>1
  <2>2. CASE i = Len(a) + 1
    <3>1. \A x \in Needs(r[i].ext) : Holds(a, x)
      BY <1>1, <1>2, <2>2
    <3>2. ASSUME NEW x \in Needs(r[i].ext) PROVE \E j \in 1 .. i - 1 : r[j] = x
      <4>1. PICK j \in 1 .. Len(a) : a[j] = x
        BY <3>1, <3>2 DEF Holds
      <4>2. j \in 1 .. i - 1 /\ r[j] = x
        BY <1>1, <2>2, <4>1
      <4> QED
        BY <4>2
    <3>3. i + 1 .. Len(r) = {}
      BY <1>1, <2>2
    <3> QED
      BY <3>2, <3>3
  <2> QED
    BY <1>1, <2>1, <2>2
<1> QED
  BY <1>2 DEF Ordered, r

\* What comes after a list, or at its end.
LEMMA Joined ==
    ASSUME NEW X, NEW u \in Seq(X), NEW v \in Seq(X)
    PROVE  /\ u \o v \in Seq(X) /\ Len(u \o v) = Len(u) + Len(v)
           /\ \A i \in 1 .. Len(u) : (u \o v)[i] = u[i]
           /\ \A i \in 1 .. Len(v) : (u \o v)[Len(u) + i] = v[i]
  OBVIOUS

\* One more entry.
LEMMA Added ==
    ASSUME NEW X, NEW u \in Seq(X), NEW f \in X
    PROVE  /\ u \o <<f>> = Append(u, f) /\ Append(u, f) \in Seq(X)
           /\ Len(Append(u, f)) = Len(u) + 1 /\ Append(u, f)[Len(u) + 1] = f
           /\ \A i \in 1 .. Len(u) : Append(u, f)[i] = u[i]
           /\ \A i \in 1 .. Len(Append(u, f)) : i \in 1 .. Len(u) \/ i = Len(u) + 1
           /\ \A i \in 1 .. Len(u) : i \in 1 .. Len(Append(u, f))
  OBVIOUS

\* The type entities of an extension, each once.
LEMMA PublicationIsComplete ==
    ASSUME NEW e \in Extensions
    PROVE  /\ Publication(e) \in Seq(Steps)
           /\ \A i \in 1 .. Len(Publication(e)) :
                 \E t \in TypesOf[e] : Publication(e)[i] = Step("bind", "type", t)
           /\ \A t \in TypesOf[e] : Holds(Publication(e), Step("bind", "type", t))
<1> DEFINE T == TypesOf[e]
           n == Cardinality(T)
           f == SetToSeq(T)
           p == Publication(e)
<1>1. IsFiniteSet(T) /\ T \subseteq Types
  BY InstallationAssumption DEF Extensions, Types
<1>2. n \in Nat
  BY <1>1, FS_CardinalityType
<1>3. \E g \in [1 .. n -> T] : IsInjective(g)
  <2>1. ExistsBijection(1 .. n, T)
    BY <1>1, FS_NatBijection, FS_CountingElements, FS_CardinalityType
  <2>2. PICK g : g \in Bijection(1 .. n, T)
    BY <2>1 DEF ExistsBijection
  <2>3. g \in [1 .. n -> T] /\ \A a, b \in 1 .. n : g[a] = g[b] => a = b
    BY <2>2 DEF Bijection, Injection, IsInjective
  <2> HIDE DEF n, T
  <2> QED
    BY <2>3 DEF IsInjective
<1>4. f \in [1 .. n -> T] /\ IsInjective(f)
  <2> DEFINE P(g) == g \in [1 .. n -> T] /\ IsInjective(g)
  <2>1. f = CHOOSE g \in [1 .. n -> T] : IsInjective(g)
    BY DEF SetToSeq
  <2> HIDE DEF n, T, f
  <2> QED
    BY <1>3, <2>1
<1>5. \A t \in T : \E i \in 1 .. n : f[i] = t
  <2>1. f \in Injection(1 .. n, T)
    <3> HIDE DEF n, T, f
    <3>1. \A a, b \in 1 .. n : f[a] = f[b] => a = b
      BY <1>4 DEF IsInjective
    <3> QED
      BY <1>4, <3>1 DEF Injection, IsInjective
  <2>2. IsFiniteSet(1 .. n) /\ Cardinality(1 .. n) = n
    BY <1>2, FS_Interval
  <2>3. f \in Surjection(1 .. n, T)
    <3> HIDE DEF f, T
    <3> QED
      BY <1>1, <2>1, <2>2, FS_Injection DEF n
  <2> HIDE DEF n, T, f
  <2> QED
    BY <2>3 DEF Surjection
<1>6. p = [i \in 1 .. n |-> Step("bind", "type", f[i])]
  BY DEF Publication
<1> HIDE DEF n, f, p
<1>7. \A i \in 1 .. n : Step("bind", "type", f[i]) \in Steps
  <2> SUFFICES ASSUME NEW i \in 1 .. n PROVE Step("bind", "type", f[i]) \in Steps
    OBVIOUS
  <2>1. f[i] \in Types
    BY <1>1, <1>4
  <2> QED
    BY <2>1 DEF Step, Steps
<1>8. p \in Seq(Steps) /\ Len(p) = n /\ \A i \in 1 .. n : p[i] = Step("bind", "type", f[i])
  BY <1>2, <1>6, <1>7
<1> QED
  BY <1>4, <1>5, <1>8 DEF Holds, p

\* An extension's own installation.
LEMMA InstallIsOrdered ==
    ASSUME NEW e \in Extensions
    PROVE  /\ Install(e) \in Seq(Steps) /\ Ordered(Install(e))
           /\ \A i \in 1 .. Len(Install(e)) :
                 /\ Install(e)[i].ext \in {e, "type"}
                 /\ Install(e)[i].op = "consumer" => Install(e)[i].ext = e
<1> DEFINE w == Writes(e)
           p == Publication(e)
           a == w \o p
           b == Append(a, Step("handler", e, ""))
           c == b \o Faces(e)
           d == c \o Consumer(e)
           Mine(s) == \A i \in 1 .. Len(s) : s[i].ext \in {e, "type"} /\ (s[i].op = "consumer" => s[i].ext = e)
           Unheard(s) == \A i \in 1 .. Len(s) : s[i].op # "consumer"
           Whole(s) == \A x \in Needs(e) : Holds(s, x)
<1>1. \A op \in {"grant", "sign", "handler", "consumer", "evaluator"} : Step(op, e, "") \in Steps
  BY DEF Step, Steps
<1>2. w \in Seq(Steps) /\ Len(w) = 4 /\ w[1] = Step("bind", e, "manifest")
      /\ w[2] = Step("bind", e, "interface") /\ w[3] = Step("grant", e, "") /\ w[4] = Step("sign", e, "")
  <2>1. Step("bind", e, "manifest") \in Steps /\ Step("bind", e, "interface") \in Steps
    BY DEF Step, Steps
  <2>2. Step("grant", e, "") \in Steps /\ Step("sign", e, "") \in Steps
    BY <1>1
  <2> DEFINE f1 == Step("bind", e, "manifest")
             f2 == Step("bind", e, "interface")
             f3 == Step("grant", e, "")
             f4 == Step("sign", e, "")
  <2>3. w = <<f1, f2, f3, f4>>
    BY DEF Writes
  <2>4. f1 \in Steps /\ f2 \in Steps /\ f3 \in Steps /\ f4 \in Steps
    BY <2>1, <2>2
  <2> HIDE DEF w, f1, f2, f3, f4
  <2>5. w \in Seq(Steps) /\ Len(w) = 4 /\ w[1] = f1 /\ w[2] = f2 /\ w[3] = f3 /\ w[4] = f4
    BY <2>3, <2>4
  <2> QED
    BY <2>5 DEF f1, f2, f3, f4
<1>3. /\ p \in Seq(Steps)
      /\ \A i \in 1 .. Len(p) : \E t \in TypesOf[e] : p[i] = Step("bind", "type", t)
      /\ \A t \in TypesOf[e] : Holds(p, Step("bind", "type", t))
  BY PublicationIsComplete
<1> HIDE DEF w, p
<1>4. /\ a \in Seq(Steps) /\ Len(a) = 4 + Len(p) /\ Len(p) \in Nat
      /\ \A i \in 1 .. 4 : a[i] = w[i]
      /\ \A i \in 1 .. Len(p) : a[4 + i] = p[i]
  <2>1. w \in Seq(Steps) /\ p \in Seq(Steps)
    BY <1>2, <1>3
  <2>2. Len(p) \in Nat
    BY <2>1
  <2>3. /\ a \in Seq(Steps) /\ Len(a) = Len(w) + Len(p)
        /\ \A i \in 1 .. Len(w) : a[i] = w[i]
        /\ \A i \in 1 .. Len(p) : a[Len(w) + i] = p[i]
    BY <2>1, Joined
  <2> HIDE DEF a
  <2> QED
    BY <1>2, <2>2, <2>3
<1>n. Len(a) \in Nat /\ a \in Seq(Steps)
  BY <1>4
<1> HIDE DEF a
<1>5. \A i \in 1 .. Len(a) : a[i].op \in {"bind", "grant", "sign"} /\ a[i].ext \in {e, "type"}
  <2> SUFFICES ASSUME NEW i \in 1 .. Len(a)
               PROVE  a[i].op \in {"bind", "grant", "sign"} /\ a[i].ext \in {e, "type"}
    OBVIOUS
  <2>1. CASE i \in 1 .. 4
    <3>1. a[i] = w[i] /\ (i = 1 \/ i = 2 \/ i = 3 \/ i = 4)
      BY <1>4, <2>1
    <3>2. a[i] \in {w[1], w[2], w[3], w[4]}
      BY <3>1
    <3>3. a[i] \in {Step("bind", e, "manifest"), Step("bind", e, "interface"),
                     Step("grant", e, ""), Step("sign", e, "")}
      BY <1>2, <3>2
    <3>4. \A what : /\ Step("bind", e, what).op = "bind" /\ Step("bind", e, what).ext = e
                   /\ Step("grant", e, what).op = "grant" /\ Step("grant", e, what).ext = e
                   /\ Step("sign", e, what).op = "sign" /\ Step("sign", e, what).ext = e
      BY DEF Step
    <3> QED
      BY <3>3, <3>4
  <2>2. CASE i \notin 1 .. 4
    <3>1. i - 4 \in 1 .. Len(p) /\ 4 + (i - 4) = i
      <4> DEFINE k == Len(a)
                 l == Len(p)
      <4>1. k = 4 + l /\ l \in Nat /\ i \in 1 .. k
        BY <1>4
      <4> HIDE DEF k, l
      <4>2. i - 4 \in 1 .. l /\ 4 + (i - 4) = i
        BY <2>2, <4>1
      <4> QED
        BY <4>2 DEF l
    <3>2. a[i] = p[i - 4]
      BY <1>4, <3>1
    <3>3. PICK t : p[i - 4] = Step("bind", "type", t)
      BY <1>3, <3>1
    <3> QED
      BY <3>2, <3>3 DEF Step
  <2> QED
    BY <2>1, <2>2
<1>6. Whole(a)
  <2> SUFFICES ASSUME NEW x \in Needs(e) PROVE \E i \in 1 .. Len(a) : a[i] = x
    BY DEF Holds
  <2>1. CASE \E t \in TypesOf[e] : x = Step("bind", "type", t)
    <3>1. PICK i \in 1 .. Len(p) : p[i] = x
      BY <1>3, <2>1 DEF Holds
    <3>2. 4 + i \in 1 .. Len(a) /\ a[4 + i] = x
      BY <1>4, <3>1
    <3> QED
      BY <3>2
  <2>2. CASE \E i \in 1 .. 4 : x = w[i]
    <3>1. PICK i \in 1 .. 4 : x = w[i]
      BY <2>2
    <3>2. i \in 1 .. Len(a) /\ a[i] = x
      BY <1>4, <3>1
    <3> QED
      BY <3>2
  <2>3. (\E i \in 1 .. 4 : x = w[i]) \/ \E t \in TypesOf[e] : x = Step("bind", "type", t)
    <3>1. 1 \in 1 .. 4 /\ 2 \in 1 .. 4 /\ 3 \in 1 .. 4 /\ 4 \in 1 .. 4
      OBVIOUS
    <3> QED
      BY <1>2, <3>1 DEF Needs
  <2> QED
    BY <2>1, <2>2, <2>3
<1>7. Ordered(a) /\ Unheard(a) /\ Mine(a)
  BY <1>5 DEF Ordered, Reaches
<1>8. b \in Seq(Steps) /\ Ordered(b) /\ Unheard(b) /\ Mine(b) /\ Whole(b)
  <2> DEFINE f == Step("handler", e, "")
  <2>1. f.ext = e /\ f.op # "consumer"
    BY DEF Step
  <2>2. f \in Steps
    BY <1>1
  <2> HIDE DEF f
  <2>3. b = Append(a, f)
    BY DEF f
  <2> HIDE DEF b
  <2>4. b \in Seq(Steps) /\ Len(b) = Len(a) + 1 /\ b[Len(a) + 1] = f
        /\ (\A i \in 1 .. Len(a) : b[i] = a[i])
        /\ (\A i \in 1 .. Len(b) : i \in 1 .. Len(a) \/ i = Len(a) + 1)
        /\ (\A i \in 1 .. Len(a) : i \in 1 .. Len(b))
    BY <1>n, <2>2, <2>3, Added
  <2>5. Ordered(b)
    BY <1>n, <1>6, <1>7, <2>1, <2>2, <2>3, OrderedWith
  <2>6. Unheard(b) /\ Mine(b)
    BY <1>7, <2>1, <2>4
  <2>7. Whole(b)
    BY <1>6, <2>4 DEF Holds
  <2> QED
    BY <2>4, <2>5, <2>6, <2>7
<1> HIDE DEF b
<1>9. c \in Seq(Steps) /\ Ordered(c) /\ Unheard(c) /\ Mine(c) /\ Whole(c)
  <2>1. CASE e = "compute"
    <3> DEFINE f == Step("evaluator", e, "")
    <3>1. f \in Steps /\ f.ext = e /\ ~Reaches(f) /\ f.op # "consumer"
      BY <1>1 DEF Step, Reaches
    <3> HIDE DEF f
    <3>2. c = Append(b, f)
      <4>1. c = b \o <<f>>
        BY <2>1 DEF Faces, f
      <4> QED
        BY <1>8, <3>1, <4>1
    <3> HIDE DEF c
    <3>3. c \in Seq(Steps) /\ Len(c) = Len(b) + 1 /\ c[Len(b) + 1] = f /\ \A i \in 1 .. Len(b) : c[i] = b[i]
      BY <1>8, <3>1, <3>2, Added
    <3>4. Ordered(c)
      BY <1>8, <3>1, <3>2, OrderedWith
    <3>5. \A i \in 1 .. Len(c) : i \in 1 .. Len(b) \/ i = Len(b) + 1
      BY <1>8, <3>3
    <3>6. Unheard(c)
      BY <1>8, <3>1, <3>3, <3>5
    <3>7. Mine(c)
      BY <1>8, <3>1, <3>3, <3>5
    <3>8. Whole(c)
      <4>1. \A i \in 1 .. Len(b) : i \in 1 .. Len(c)
        BY <1>8, <3>3
      <4> QED
        BY <1>8, <3>3, <4>1 DEF Holds
    <3> QED
      BY <3>3, <3>4, <3>6, <3>7, <3>8
  <2>2. CASE e # "compute"
    <3>1. c = b
      BY <1>8, <2>2 DEF Faces
    <3> HIDE DEF c
    <3> QED
      BY <1>8, <3>1
  <2> QED
    BY <2>1, <2>2
<1> HIDE DEF c
<1>10. d \in Seq(Steps) /\ Ordered(d) /\ Mine(d)
  <2>1. CASE e \in Listeners
    <3> DEFINE f == Step("consumer", e, "")
    <3>1. f \in Steps /\ f.ext = e
      BY <1>1 DEF Step
    <3> HIDE DEF f
    <3>2. d = Append(c, f)
      <4>1. d = c \o <<f>>
        BY <2>1 DEF Consumer, f
      <4> QED
        BY <1>9, <3>1, <4>1
    <3> HIDE DEF d
    <3>3. d \in Seq(Steps) /\ Len(d) = Len(c) + 1 /\ d[Len(c) + 1] = f /\ \A i \in 1 .. Len(c) : d[i] = c[i]
      BY <1>9, <3>1, <3>2, Added
    <3>4. Ordered(d)
      BY <1>9, <3>1, <3>2, OrderedWith
    <3>5. \A i \in 1 .. Len(d) : i \in 1 .. Len(c) \/ i = Len(c) + 1
      BY <1>9, <3>3
    <3>7. Mine(d)
      BY <1>9, <3>1, <3>3, <3>5
    <3> QED
      BY <3>3, <3>4, <3>7
  <2>2. CASE e \notin Listeners
    <3>1. d = c
      BY <1>9, <2>2 DEF Consumer
    <3> HIDE DEF d
    <3> QED
      BY <1>9, <3>1
  <2> QED
    BY <2>1, <2>2
<1>11. Install(e) = d
  <2>1. Install(e) = (((w \o p) \o <<Step("handler", e, "")>>) \o Faces(e)) \o Consumer(e)
    BY DEF Install, Body, w, p
  <2>2. a \o <<Step("handler", e, "")>> = b
    <3> DEFINE f == Step("handler", e, "")
    <3>1. f \in Steps
      BY <1>1
    <3> HIDE DEF f
    <3>2. a \o <<f>> = Append(a, f)
      BY <1>n, <3>1, Added
    <3> QED
      BY <3>2 DEF b, f
  <2> QED
    BY <2>1, <2>2 DEF a, c
<1> HIDE DEF d
<1> QED
  BY <1>10, <1>11

\* A plan's steps, block by block.
LEMMA InstallStepwise ==
    ASSUME NEW plan \in Seq(Extensions)
    PROVE  LET upTo == InstallUpTo(plan)
           IN  upTo[0] = <<>> /\ \A i \in 1 .. Len(plan) : upTo[i] = upTo[i - 1] \o Install(plan[i])
<1> DEFINE m == Len(plan)
           Is(k) == k = [i \in 0 .. m |-> IF i = 0 THEN <<>> ELSE k[i - 1] \o Install(plan[i])]
           step == [i \in 1 .. m |-> [l \in Seq(Steps) |-> l \o Install(plan[i])]]
           upTo == InstallUpTo(plan)
<1>1. m \in Nat /\ \A i \in 1 .. m : plan[i] \in Extensions
  OBVIOUS
<1>2. \A i \in 1 .. m : Install(plan[i]) \in Seq(Steps)
  BY <1>1, InstallIsOrdered
<1>3. step \in [1 .. m -> [Seq(Steps) -> Seq(Steps)]]
  <2>1. \A i \in 1 .. m : \A l \in Seq(Steps) : l \o Install(plan[i]) \in Seq(Steps)
    BY <1>2, Joined
  <2> QED
    BY <2>1
<1>4. \A i \in 1 .. m, l \in Seq(Steps) : step[i][l] = l \o Install(plan[i])
  OBVIOUS
<1> HIDE DEF m, step
<1>5. <<>> \in Seq(Steps)
  OBVIOUS
<1>6. PICK g : Recurs(m, Seq(Steps), <<>>, step, g)
  BY <1>1, <1>3, <1>5, RecursionExists
<1>7. \A i \in 1 .. m : g[i] = g[i - 1] \o Install(plan[i])
  <2> SUFFICES ASSUME NEW i \in 1 .. m PROVE g[i] = g[i - 1] \o Install(plan[i])
    OBVIOUS
  <2>1. i - 1 \in 0 .. m
    BY <1>1
  <2>2. g[i] = step[i][g[i - 1]] /\ g[i - 1] \in Seq(Steps)
    BY <1>6, <2>1 DEF Recurs
  <2> QED
    BY <1>4, <2>2
<1>8. Is(g)
  <2>1. \A i \in 0 .. m : i = 0 \/ i \in 1 .. m
    BY <1>1
  <2>2. \A i \in 0 .. m : g[i] = IF i = 0 THEN <<>> ELSE g[i - 1] \o Install(plan[i])
    BY <1>6, <1>7, <2>1 DEF Recurs
  <2>3. g = [i \in 0 .. m |-> g[i]]
    BY <1>6 DEF Recurs
  <2> QED
    BY <2>2, <2>3
<1>9. upTo = CHOOSE k : Is(k)
  BY DEF InstallUpTo, m
<1>10. Is(upTo)
  <2> HIDE DEF Is, upTo
  <2> QED
    BY <1>8, <1>9
<1> HIDE DEF upTo
<1>11. upTo[0] = <<>>
  <2>1. 0 \in 0 .. m
    BY <1>1
  <2> QED
    BY <1>10, <2>1
<1>12. ASSUME NEW i \in 1 .. m PROVE upTo[i] = upTo[i - 1] \o Install(plan[i])
  <2>1. i \in 0 .. m /\ i # 0
    BY <1>1
  <2> QED
    BY <1>10, <2>1
<1> QED
  BY <1>11, <1>12 DEF upTo, m

\* A plan that names no extension twice installs each in order.
LEMMA ConfigureIsOrdered ==
    ASSUME NEW plan \in Plans
    PROVE  Configure(plan) \in Seq(Steps) /\ Ordered(Configure(plan))
<1>1. plan \in Seq(Extensions) /\ \A i, j \in 1 .. Len(plan) : plan[i] = plan[j] => i = j
  <2>1. PICK n \in 1 .. Cardinality(Extensions) : plan \in [1 .. n -> Extensions]
    BY InstallationAssumption DEF Extensions
  <2>2. n \in Nat
    <3>1. Cardinality(Extensions) \in Nat
      BY InstallationAssumption, FS_CardinalityType DEF Extensions
    <3> QED
      BY <3>1
  <2>3. plan \in Seq(Extensions)
    BY <2>1, <2>2
  <2>4. DOMAIN plan = 1 .. Len(plan)
    BY <2>3
  <2>5. \A i, j \in DOMAIN plan : plan[i] = plan[j] => i = j
    BY InstallationAssumption DEF IsInjective
  <2> QED
    BY <2>3, <2>4, <2>5
<1> DEFINE m == Len(plan)
           upTo == InstallUpTo(plan)
           Named(n) == {plan[k] : k \in 1 .. n}
           Good(n) == /\ upTo[n] \in Seq(Steps) /\ Ordered(upTo[n])
                      /\ \A i \in 1 .. Len(upTo[n]) :
                            /\ upTo[n][i].ext \in Named(n) \cup {"type"}
                            /\ upTo[n][i].op = "consumer" => upTo[n][i].ext \in Named(n)
           S == {n \in Nat : n <= m => Good(n)}
<1>2. m \in Nat /\ (\A i \in 1 .. m : plan[i] \in Extensions)
  BY <1>1
<1>3. upTo[0] = <<>> /\ \A i \in 1 .. m : upTo[i] = upTo[i - 1] \o Install(plan[i])
  BY <1>1, InstallStepwise
<1> HIDE DEF m, upTo
<1>4. 0 \in S
  <2>1. Len(upTo[0]) = 0 /\ upTo[0] \in Seq(Steps) /\ 1 .. Len(upTo[0]) = {}
    BY <1>3
  <2> QED
    BY <2>1 DEF Ordered
<1>5. \A n \in S : n + 1 \in S
  <2> SUFFICES ASSUME NEW n \in Nat, n <= m => Good(n), n + 1 <= m PROVE Good(n + 1)
    <3> HIDE DEF Good
    <3> QED
      OBVIOUS
  <2> DEFINE u == upTo[n]
             e == plan[n + 1]
             v == Install(e)
             r == upTo[n + 1]
  <2>1. n + 1 \in 1 .. m /\ n <= m /\ (n + 1) - 1 = n
    BY <1>2
  <2>2. r = u \o v
    BY <1>3, <2>1
  <2>3. e \in Extensions /\ e # "type" /\ e \notin Named(n) /\ "type" \notin Named(n)
    <3>1. e \in Extensions
      BY <1>2, <2>1
    <3>2. ASSUME NEW k \in 1 .. n PROVE plan[k] # e /\ plan[k] \in Extensions
      <4>1. k \in 1 .. m /\ k # n + 1
        BY <1>2, <2>1
      <4> QED
        BY <1>1, <1>2, <2>1, <4>1 DEF m
    <3> QED
      BY <3>1, <3>2, InstallationAssumption DEF Extensions
  <2>4. Named(n + 1) = Named(n) \cup {e}
    BY <2>1
  <2>5. /\ u \in Seq(Steps) /\ Ordered(u)
        /\ \A i \in 1 .. Len(u) : u[i].ext \in Named(n) \cup {"type"}
        /\ \A i \in 1 .. Len(u) : u[i].op = "consumer" => u[i].ext \in Named(n)
    BY <2>1
  <2>6. /\ v \in Seq(Steps) /\ Ordered(v)
        /\ \A i \in 1 .. Len(v) : v[i].ext \in {e, "type"}
        /\ \A i \in 1 .. Len(v) : v[i].op = "consumer" => v[i].ext = e
    BY <2>3, InstallIsOrdered
  <2> HIDE DEF u, e, v, Named, r
  <2>7. Ordered(r)
    <3>1. \A i \in 1 .. Len(u), j \in 1 .. Len(v) : u[i].op = "consumer" => v[j].ext # u[i].ext
      BY <2>3, <2>5, <2>6
    <3> QED
      BY <2>2, <2>5, <2>6, <3>1, OrderedAfter
  <2>8. /\ r \in Seq(Steps) /\ Len(r) = Len(u) + Len(v)
        /\ \A i \in 1 .. Len(u) : r[i] = u[i]
        /\ \A i \in 1 .. Len(v) : r[Len(u) + i] = v[i]
    BY <2>2, <2>5, <2>6, Joined
  <2>9. ASSUME NEW i \in 1 .. Len(r)
        PROVE  /\ r[i].ext \in Named(n + 1) \cup {"type"}
               /\ r[i].op = "consumer" => r[i].ext \in Named(n + 1)
    <3>1. CASE i \in 1 .. Len(u)
      BY <2>4, <2>5, <2>8, <3>1
    <3>2. CASE i \notin 1 .. Len(u)
      <4>1. Len(u) \in Nat /\ Len(v) \in Nat
        BY <2>5, <2>6
      <4>2. i - Len(u) \in 1 .. Len(v) /\ Len(u) + (i - Len(u)) = i
        BY <2>8, <3>2, <4>1
      <4>3. r[i] = v[i - Len(u)]
        BY <2>8, <4>2
      <4> QED
        BY <2>4, <2>6, <4>2, <4>3
    <3> QED
      BY <3>1, <3>2
  <2> QED
    BY <2>7, <2>8, <2>9 DEF r
<1>6. Good(m)
  <2> HIDE DEF Good
  <2>1. S \in SUBSET Nat
    OBVIOUS
  <2>2. S = Nat
    <3> HIDE DEF S
    <3> QED
      BY <1>4, <1>5, <2>1, NaturalInduction
  <2> QED
    BY <1>2, <2>2
<1> DEFINE l == upTo[m]
           f == Step("bind", "history", "policy")
<1>7. l \in Seq(Steps) /\ Ordered(l)
  BY <1>6
<1>8. Configure(plan) = l \o (IF Contains(plan, "history") THEN <<f>> ELSE <<>>)
  BY DEF Configure, upTo, m
<1> HIDE DEF l
<1>9. CASE Contains(plan, "history")
  <2>1. f \in Steps
    <3>1. "history" \in Extensions
      BY <1>2, <1>9 DEF Contains, m
    <3> QED
      BY <3>1 DEF Step, Steps
  <2>2. f.op = "bind" /\ f.what = "policy"
    BY DEF Step
  <2> HIDE DEF f
  <2>3. <<f>> \in Seq(Steps) /\ Len(<<f>>) = 1 /\ <<f>>[1] = f /\ \A j \in 1 .. 1 : j = 1
    BY <2>1
  <2>4. Ordered(<<f>>)
    BY <2>2, <2>3 DEF Ordered, Reaches
  <2>5. \A j \in 1 .. Len(<<f>>) : OfPolicy(<<f>>[j])
    BY <2>2, <2>3 DEF OfPolicy
  <2>6. l \o <<f>> \in Seq(Steps)
    BY <1>7, <2>3, Joined
  <2>7. Ordered(l \o <<f>>)
    BY <1>7, <2>3, <2>4, <2>5, OrderedAfter
  <2> QED
    BY <1>8, <1>9, <2>6, <2>7
<1>10. CASE ~Contains(plan, "history")
  <2>1. l \o <<>> = l
    BY <1>7
  <2> QED
    BY <1>7, <1>8, <1>10, <2>1
<1> QED
  BY <1>9, <1>10

\* What has been done, in this process where it has to be.
Done(x) ==
    /\ x.op = "bind" => <<x.ext, x.what>> \in written
    /\ x.op = "grant" => x.ext \in Extensions /\ granted[x.ext] = process
    /\ x.op = "sign" => <<x.ext, process>> \in signed

\* What is reached has all it needs, done or ahead of it in the list.
ComesAfterNeeds ==
    \A i \in 1 .. Len(steps) : Reaches(steps[i]) =>
        /\ \A x \in Needs(steps[i].ext) : Done(x) \/ \E j \in 1 .. i - 1 : steps[j] = x
        /\ steps[i].op = "consumer" =>
              \A j \in i + 1 .. Len(steps) : steps[j].ext = steps[i].ext => OfPolicy(steps[j])

ReachedHasNeeds == \A e \in handlers \cup consumers : \A x \in Needs(e) : Done(x)
HearsNothing ==
    \A e \in consumers : \A j \in 1 .. Len(steps) : steps[j].ext = e => OfPolicy(steps[j])

\* An evaluator that the peer does not take is none.
EvaluatorIsTaken ==
    /\ evaluator # Nobody => seam \in {"stores", "private"}
    /\ face \in {"installed", "unverifiable"} => evaluator = "compute"
    /\ face \in {"not-installable", "not-observed"} => seam \notin {"stores", "private"}
    /\ steps # <<>> => ran = "nothing"
    /\ face \in {"not-installable", "not-observed"} => ran \in {"nothing", "unsupported"}

HostIInv ==
    /\ order \in Plans /\ steps \in Seq(Steps)
    /\ DOMAIN granted = Extensions /\ consumers \subseteq Extensions
    /\ ComesAfterNeeds /\ ReachedHasNeeds /\ HearsNothing
    /\ EvaluatorIsTaken /\ AuditStartsEmpty

\* The facts about a list that the next step is taken from.
LEMMA FromHead ==
    ASSUME NEW X, NEW s \in Seq(X), s # <<>>
    PROVE  /\ Tail(s) \in Seq(X) /\ Head(s) = s[1] /\ 1 \in 1 .. Len(s) /\ 1 .. 1 - 1 = {}
           /\ \A i \in 1 .. Len(Tail(s)) : i + 1 \in 2 .. Len(s) /\ i + 1 \in 1 .. Len(s)
                                          /\ Tail(s)[i] = s[i + 1]
  OBVIOUS

\* A step that undoes nothing, and does what it is for, leaves every step that
\* reaches something behind what that needs.
LEMMA StepKeepsOrder ==
    ASSUME HostIInv, steps # <<>>, steps' = Tail(steps),
           \A x : Done(x) => Done(x)',
           \A x : x = Head(steps) /\ x.op \in {"bind", "grant", "sign"} => Done(x)'
    PROVE  steps' \in Seq(Steps) /\ ComesAfterNeeds'
<1>1. /\ steps' \in Seq(Steps) /\ Head(steps) = steps[1]
      /\ \A i \in 1 .. Len(steps') : i + 1 \in 2 .. Len(steps) /\ i + 1 \in 1 .. Len(steps)
                                    /\ steps'[i] = steps[i + 1]
  BY FromHead DEF HostIInv
<1>2. Len(steps) \in Nat /\ Len(steps') = Len(steps) - 1
  BY DEF HostIInv
<1>3. ASSUME NEW i \in 1 .. Len(steps'), Reaches(steps'[i])
      PROVE  /\ \A x \in Needs(steps'[i].ext) : Done(x)' \/ \E j \in 1 .. i - 1 : steps'[j] = x
             /\ steps'[i].op = "consumer" =>
                   \A j \in i + 1 .. Len(steps') : steps'[j].ext = steps'[i].ext => OfPolicy(steps'[j])
  <2>1. /\ \A x \in Needs(steps[i + 1].ext) : Done(x) \/ \E j \in 1 .. (i + 1) - 1 : steps[j] = x
        /\ steps[i + 1].op = "consumer" =>
              \A j \in (i + 1) + 1 .. Len(steps) : steps[j].ext = steps[i + 1].ext => OfPolicy(steps[j])
    BY <1>1, <1>3 DEF HostIInv, ComesAfterNeeds
  <2>2. ASSUME NEW x \in Needs(steps'[i].ext) PROVE Done(x)' \/ \E j \in 1 .. i - 1 : steps'[j] = x
    <3>1. CASE Done(x)
      BY <3>1
    <3>2. CASE \E j \in 1 .. (i + 1) - 1 : steps[j] = x
      <4>1. PICK j \in 1 .. i : steps[j] = x
        BY <1>2, <3>2
      <4>2. CASE j = 1
        <5>1. x.op \in {"bind", "grant", "sign"}
          <6>1. \A e, what : /\ Step("bind", e, what).op = "bind" /\ Step("grant", e, what).op = "grant"
                             /\ Step("sign", e, what).op = "sign"
            BY DEF Step
          <6>2. PICK e : x \in Needs(e)
            OBVIOUS
          <6> QED
            <7>1. \/ x \in {Step("bind", e, "manifest"), Step("bind", e, "interface"),
                            Step("grant", e, ""), Step("sign", e, "")}
                  \/ \E t \in TypesOf[e] : x = Step("bind", "type", t)
              BY <6>2 DEF Needs
            <7> QED
              BY <6>1, <7>1
        <5> QED
          BY <1>1, <4>1, <4>2, <5>1
      <4>3. CASE j # 1
        <5>1. j - 1 \in 1 .. i - 1 /\ j - 1 \in 1 .. Len(steps') /\ (j - 1) + 1 = j
          BY <1>2, <4>3
        <5> QED
          BY <1>1, <4>1, <5>1
      <4> QED
        BY <4>2, <4>3
    <3> QED
      BY <1>1, <2>1, <2>2, <3>1, <3>2
  <2>3. ASSUME steps'[i].op = "consumer", NEW j \in i + 1 .. Len(steps'), steps'[j].ext = steps'[i].ext
        PROVE  OfPolicy(steps'[j])
    <3>1. j \in 1 .. Len(steps') /\ j + 1 \in (i + 1) + 1 .. Len(steps)
      BY <1>2
    <3> QED
      BY <1>1, <2>1, <2>3, <3>1
  <2> QED
    BY <2>2, <2>3
<1> QED
  BY <1>1, <1>3 DEF ComesAfterNeeds, OfPolicy

\* What the step left to do first does not reach is reached as before.
LEMMA StepKeepsReached ==
    ASSUME HostIInv, steps # <<>>, steps' = Tail(steps), \A x : Done(x) => Done(x)',
           handlers' \cup consumers' \subseteq handlers \cup consumers \cup {Head(steps).ext},
           handlers' \cup consumers' \subseteq handlers \cup consumers \/ Reaches(Head(steps))
    PROVE  ReachedHasNeeds'
<1>1. Head(steps) = steps[1] /\ 1 \in 1 .. Len(steps) /\ 1 .. 1 - 1 = {}
  BY FromHead DEF HostIInv
<1>2. \A e \in handlers \cup consumers : \A x \in Needs(e) : Done(x)
  BY DEF HostIInv, ReachedHasNeeds
<1>3. Reaches(Head(steps)) => \A x \in Needs(Head(steps).ext) : Done(x)
  BY <1>1 DEF HostIInv, ComesAfterNeeds
<1> QED
  BY <1>2, <1>3 DEF ReachedHasNeeds

\* Nor does a consumer hear of more than it did.
LEMMA StepKeepsQuiet ==
    ASSUME HostIInv, steps # <<>>, steps' = Tail(steps),
           consumers' \subseteq consumers \cup {Head(steps).ext},
           consumers' \subseteq consumers \/ Head(steps).op = "consumer"
    PROVE  HearsNothing'
<1>1. /\ Head(steps) = steps[1] /\ 1 \in 1 .. Len(steps)
      /\ \A i \in 1 .. Len(steps') : i + 1 \in 2 .. Len(steps) /\ i + 1 \in 1 .. Len(steps)
                                    /\ steps'[i] = steps[i + 1]
  BY FromHead DEF HostIInv
<1>2. ASSUME NEW e \in consumers', NEW j \in 1 .. Len(steps'), steps'[j].ext = e
      PROVE  OfPolicy(steps'[j])
  <2>1. CASE e \in consumers
    BY <1>1, <1>2, <2>1 DEF HostIInv, HearsNothing
  <2>2. CASE e = Head(steps).ext /\ Head(steps).op = "consumer"
    <3>1. \A i \in 1 + 1 .. Len(steps) : steps[i].ext = e => OfPolicy(steps[i])
      BY <1>1, <2>2 DEF HostIInv, ComesAfterNeeds, Reaches
    <3>2. j + 1 \in 1 + 1 .. Len(steps)
      BY <1>1
    <3> QED
      BY <1>1, <1>2, <3>1, <3>2
  <2> QED
    BY <2>1, <2>2
<1> QED
  BY <1>2 DEF HearsNothing, OfPolicy

\* Of what a consumer hears, nothing is of its own installation.
LEMMA HeardIsForeign ==
    ASSUME HostIInv, NEW s, Recorded(s),
           "history" \in consumers /\ s # <<"history", "policy">> =>
               s[1] # "history" /\ s \notin {"type"} \X TypesOf["history"]
    PROVE  AuditStartsEmpty'
<1>1. \A q \in trail \ {<<"history", "policy">>} :
          q[1] # "history" /\ q \notin {"type"} \X TypesOf["history"]
  BY DEF HostIInv, AuditStartsEmpty
<1>2. trail' \subseteq trail \cup {s} /\ ("history" \notin consumers => trail' = trail)
  BY DEF Recorded
<1> QED
  BY <1>1, <1>2 DEF AuditStartsEmpty

\* The effects of each kind of step.
LEMMA BindKeepsHost ==
    ASSUME HostIInv, NEW s \in Slots, Bind(s)
    PROVE  HostIInv'
<1>1. /\ steps # <<>> /\ steps' = Tail(steps) /\ Head(steps).op = "bind"
      /\ s = <<Head(steps).ext, Head(steps).what>> /\ written' = written \cup {s}
      /\ IF s \in written THEN UNCHANGED trail ELSE Recorded(s)
      /\ UNCHANGED <<order, granted, signed, handlers, consumers, evaluator, seam, face, process, ran>>
  BY DEF Bind, Performing
<1>2. \A x : Done(x) => Done(x)'
  BY <1>1 DEF Done
<1>3. \A x : x = Head(steps) => Done(x)'
  BY <1>1 DEF Done
<1>4. steps' \in Seq(Steps) /\ ComesAfterNeeds'
  BY <1>1, <1>2, <1>3, StepKeepsOrder
<1>5. ReachedHasNeeds' /\ HearsNothing'
  BY <1>1, <1>2, StepKeepsReached, StepKeepsQuiet
<1>6. AuditStartsEmpty'
  <2>1. CASE s \in written
    BY <1>1, <2>1 DEF HostIInv, AuditStartsEmpty
  <2>2. CASE s \notin written
    <3>1. ASSUME "history" \in consumers, s # <<"history", "policy">>
          PROVE  s[1] # "history" /\ s \notin {"type"} \X TypesOf["history"]
      <4>1. Head(steps) = steps[1] /\ 1 \in 1 .. Len(steps)
        BY <1>1, FromHead DEF HostIInv
      <4>2. s[1] # "history"
        BY <1>1, <3>1, <4>1 DEF HostIInv, HearsNothing, OfPolicy
      <4>3. ASSUME NEW t \in TypesOf["history"] PROVE s # <<"type", t>>
        <5>1. Step("bind", "type", t) \in Needs("history")
          BY DEF Needs
        <5>2. Done(Step("bind", "type", t))
          BY <3>1, <5>1 DEF HostIInv, ReachedHasNeeds
        <5> QED
          BY <2>2, <5>2 DEF Done, Step
      <4> QED
        BY <4>2, <4>3
    <3> QED
      BY <1>1, <2>2, <3>1, HeardIsForeign
  <2> QED
    BY <2>1, <2>2
<1>7. EvaluatorIsTaken'
  BY <1>1 DEF HostIInv, EvaluatorIsTaken
<1> QED
  BY <1>1, <1>4, <1>5, <1>6, <1>7 DEF HostIInv

\* A grant and its signature.
LEMMA GrantKeepsHost ==
    ASSUME HostIInv, NEW e \in Extensions, Grant(e) \/ Sign(e)
    PROVE  HostIInv'
<1>1. /\ steps # <<>> /\ steps' = Tail(steps) /\ e = Head(steps).ext
      /\ Head(steps).op \in {"grant", "sign"} /\ DOMAIN granted' = Extensions
      /\ UNCHANGED <<order, written, handlers, consumers, evaluator, seam, face, process, ran>>
  BY DEF Grant, Sign, Performing, HostIInv
<1>2. \A x : Done(x) => Done(x)'
  <2>1. CASE Grant(e)
    <3>1. \A q \in Extensions : granted[q] = process => granted'[q] = process'
      BY <2>1 DEF Grant, HostIInv
    <3>2. written' = written /\ signed' = signed /\ process' = process
      BY <2>1 DEF Grant
    <3> QED
      BY <3>1, <3>2 DEF Done
  <2>2. CASE Sign(e)
    BY <2>2 DEF Sign, Done
  <2> QED
    BY <2>1, <2>2
<1>3. \A x : x = Head(steps) => Done(x)'
  BY <1>1 DEF Done, Grant, Sign, Performing, HostIInv
<1>4. steps' \in Seq(Steps) /\ ComesAfterNeeds'
  BY <1>1, <1>2, <1>3, StepKeepsOrder
<1>5. ReachedHasNeeds' /\ HearsNothing'
  BY <1>1, <1>2, StepKeepsReached, StepKeepsQuiet
<1>6. AuditStartsEmpty'
  <2>1. PICK s : Recorded(s) /\ s[1] = e
    BY DEF Grant, Sign
  <2>2. Head(steps) = steps[1] /\ 1 \in 1 .. Len(steps)
    BY <1>1, FromHead DEF HostIInv
  <2>3. "history" \in consumers => e # "history"
    BY <1>1, <2>2 DEF HostIInv, HearsNothing, OfPolicy
  <2>4. e # "type"
    BY InstallationAssumption DEF Extensions
  <2>5. s \notin {"type"} \X TypesOf["history"]
    BY <2>1, <2>4
  <2> QED
    BY <2>1, <2>3, <2>5, HeardIsForeign
<1>7. EvaluatorIsTaken'
  BY <1>1 DEF HostIInv, EvaluatorIsTaken
<1> QED
  BY <1>1, <1>4, <1>5, <1>6, <1>7 DEF HostIInv

\* A body or a consumer, of an extension that has all it needs.
LEMMA ReachKeepsHost ==
    ASSUME HostIInv, NEW e \in Extensions, SetBody(e) \/ Listen(e)
    PROVE  HostIInv'
<1>1. /\ steps # <<>> /\ steps' = Tail(steps) /\ e = Head(steps).ext
      /\ Head(steps).op \in {"handler", "consumer"}
      /\ handlers' \cup consumers' \subseteq handlers \cup consumers \cup {e}
      /\ consumers' \subseteq consumers \cup {e}
      /\ consumers' \subseteq consumers \/ Head(steps).op = "consumer"
      /\ UNCHANGED <<order, written, granted, signed, evaluator, seam, face, process, trail, ran>>
  BY DEF SetBody, Listen, Performing
<1>2. \A x : Done(x) => Done(x)'
  BY <1>1 DEF Done
<1>3. \A x : x = Head(steps) => x.op \notin {"bind", "grant", "sign"}
  BY <1>1
<1>4. steps' \in Seq(Steps) /\ ComesAfterNeeds'
  BY <1>1, <1>2, <1>3, StepKeepsOrder
<1>5. ReachedHasNeeds' /\ HearsNothing'
  BY <1>1, <1>2, StepKeepsReached, StepKeepsQuiet DEF Reaches
<1>6. AuditStartsEmpty' /\ EvaluatorIsTaken'
  BY <1>1 DEF HostIInv, AuditStartsEmpty, EvaluatorIsTaken
<1>7. consumers' \subseteq Extensions
  BY <1>1 DEF HostIInv
<1> QED
  BY <1>1, <1>4, <1>5, <1>6, <1>7 DEF HostIInv

\* The evaluator, as the peer takes it.
LEMMA EvaluatorKeepsHost ==
    ASSUME HostIInv, InstallEvaluator
    PROVE  HostIInv'
<1>1. /\ steps # <<>> /\ steps' = Tail(steps) /\ Head(steps).op = "evaluator"
      /\ UNCHANGED <<order, written, granted, signed, handlers, consumers, seam, process, trail, ran>>
  BY DEF InstallEvaluator, Performing
<1>2. \A x : Done(x) => Done(x)'
  BY <1>1 DEF Done
<1>3. \A x : x = Head(steps) => x.op \notin {"bind", "grant", "sign"}
  BY <1>1
<1>4. steps' \in Seq(Steps) /\ ComesAfterNeeds'
  BY <1>1, <1>2, <1>3, StepKeepsOrder
<1>5. ReachedHasNeeds' /\ HearsNothing'
  BY <1>1, <1>2, StepKeepsReached, StepKeepsQuiet
<1>6. EvaluatorIsTaken'
  <2>1. evaluator' = IF seam \in {"stores", "private"} THEN "compute" ELSE evaluator
    BY DEF InstallEvaluator
  <2>2. face' \in {"not-installable", "not-observed"} => seam \notin {"stores", "private"}
    BY <2>1 DEF InstallEvaluator
  <2>3. face' \in {"installed", "unverifiable"} => evaluator' = "compute"
    BY <2>1 DEF InstallEvaluator
  <2>4. evaluator' # Nobody => seam \in {"stores", "private"}
    BY <2>1 DEF HostIInv, EvaluatorIsTaken
  <2>5. ran' = "nothing" /\ seam' = seam
    BY <1>1 DEF HostIInv, EvaluatorIsTaken
  <2> QED
    BY <2>2, <2>3, <2>4, <2>5 DEF EvaluatorIsTaken
<1>7. AuditStartsEmpty'
  BY <1>1 DEF HostIInv, AuditStartsEmpty
<1> QED
  BY <1>1, <1>4, <1>5, <1>6, <1>7 DEF HostIInv

\* A host that starts.
LEMMA StartIsOrdered ==
    ASSUME order' \in Plans, steps' = Configure(order'), handlers' = {}, consumers' = {}
    PROVE  steps' \in Seq(Steps) /\ ComesAfterNeeds' /\ ReachedHasNeeds' /\ HearsNothing'
<1>1. steps' \in Seq(Steps) /\ Ordered(steps')
  BY ConfigureIsOrdered
<1>2. ComesAfterNeeds'
  BY <1>1 DEF Ordered, ComesAfterNeeds
<1> QED
  BY <1>1, <1>2 DEF ReachedHasNeeds, HearsNothing

\* Every step.
LEMMA HostStepKeepsIInv == HostIInv /\ [InstallationNext]_hostVars => HostIInv'
<1> SUFFICES ASSUME HostIInv, [InstallationNext]_hostVars PROVE HostIInv'
  OBVIOUS
<1>1. CASE UNCHANGED hostVars
  <2>1. \A x : Done(x)' <=> Done(x)
    BY <1>1 DEF hostVars, Done
  <2>2. ComesAfterNeeds' /\ ReachedHasNeeds' /\ HearsNothing'
    BY <1>1, <2>1 DEF HostIInv, hostVars, ComesAfterNeeds, ReachedHasNeeds, HearsNothing, OfPolicy
  <2>3. AuditStartsEmpty' /\ EvaluatorIsTaken'
    BY <1>1 DEF HostIInv, hostVars, AuditStartsEmpty, EvaluatorIsTaken
  <2> QED
    BY <1>1, <2>2, <2>3 DEF HostIInv, hostVars
<1>2. CASE \E s \in Slots : Bind(s)
  BY <1>2, BindKeepsHost
<1>3. CASE \E e \in Extensions : Grant(e) \/ Sign(e) \/ SetBody(e) \/ Listen(e)
  BY <1>3, GrantKeepsHost, ReachKeepsHost
<1>4. CASE InstallEvaluator
  BY <1>4, EvaluatorKeepsHost
<1>5. ASSUME NEW expression \in BOOLEAN, NEW grant \in BOOLEAN, NEW covered \in BOOLEAN,
             EvaluateExpression(expression, grant, covered)
      PROVE  HostIInv'
  <2>1. /\ steps = <<>>
        /\ UNCHANGED <<order, written, granted, signed, handlers, consumers, evaluator, seam, face,
                       process, steps, trail>>
    BY <1>5 DEF EvaluateExpression
  <2>2. \A x : Done(x)' <=> Done(x)
    BY <2>1 DEF Done
  <2>3. ComesAfterNeeds' /\ ReachedHasNeeds' /\ HearsNothing'
    BY <2>1, <2>2 DEF HostIInv, ComesAfterNeeds, ReachedHasNeeds, HearsNothing, OfPolicy
  <2>4. evaluator = Nobody => ran' = "unsupported"
    BY <1>5 DEF EvaluateExpression
  <2>5. EvaluatorIsTaken'
    BY <2>1, <2>4 DEF HostIInv, EvaluatorIsTaken
  <2>6. AuditStartsEmpty'
    BY <2>1 DEF HostIInv, AuditStartsEmpty
  <2> QED
    BY <2>1, <2>3, <2>5, <2>6 DEF HostIInv
<1>6. CASE StartAgain
  <2>1. /\ order' = order /\ granted' = granted /\ seam' = seam
        /\ steps' = Configure(order') /\ handlers' = {} /\ consumers' = {}
        /\ evaluator' = Nobody /\ face' = "unknown" /\ trail' = {} /\ ran' = "nothing"
    BY <1>6 DEF StartAgain
  <2>2. steps' \in Seq(Steps) /\ ComesAfterNeeds' /\ ReachedHasNeeds' /\ HearsNothing'
    BY <2>1, StartIsOrdered DEF HostIInv
  <2>3. AuditStartsEmpty' /\ EvaluatorIsTaken'
    BY <2>1 DEF AuditStartsEmpty, EvaluatorIsTaken
  <2> QED
    BY <2>1, <2>2, <2>3 DEF HostIInv
<1> QED
  BY <1>1, <1>2, <1>3, <1>4, <1>5, <1>6 DEF InstallationNext

\* The first start, over an empty tree or a restored one.
LEMMA HostStartsWell == InstallationInit => HostIInv
<1> SUFFICES ASSUME InstallationInit PROVE HostIInv
  OBVIOUS
<1>1. order \in Plans /\ steps = Configure(order) /\ handlers = {} /\ consumers = {} /\ trail = {}
      /\ DOMAIN granted = Extensions /\ evaluator = Nobody /\ face = "unknown" /\ ran = "nothing"
  BY DEF InstallationInit
<1>2. steps \in Seq(Steps) /\ Ordered(steps)
  BY <1>1, ConfigureIsOrdered
<1>3. ComesAfterNeeds
  BY <1>2 DEF Ordered, ComesAfterNeeds
<1>4. ReachedHasNeeds /\ HearsNothing /\ AuditStartsEmpty /\ EvaluatorIsTaken
  BY <1>1 DEF ReachedHasNeeds, HearsNothing, AuditStartsEmpty, EvaluatorIsTaken
<1> QED
  BY <1>1, <1>2, <1>3, <1>4 DEF HostIInv

\* What the invariant says of the handlers is what dispatch relies on.
LEMMA ReachedIsWhole == HostIInv => ReachableIsWhole
<1> SUFFICES ASSUME HostIInv PROVE ReachableIsWhole
  OBVIOUS
<1>1. ASSUME NEW e \in handlers
      PROVE  /\ <<e, "manifest">> \in written /\ <<e, "interface">> \in written
             /\ granted[e] = process /\ <<e, process>> \in signed
             /\ \A t \in TypesOf[e] : <<"type", t>> \in written
  <2>1. \A x \in Needs(e) : Done(x)
    BY DEF HostIInv, ReachedHasNeeds
  <2>2. /\ Done(Step("bind", e, "manifest")) /\ Done(Step("bind", e, "interface"))
        /\ Done(Step("grant", e, "")) /\ Done(Step("sign", e, ""))
    BY <2>1 DEF Needs
  <2>3. \A t \in TypesOf[e] : Done(Step("bind", "type", t))
    BY <2>1 DEF Needs
  <2> QED
    BY <2>2, <2>3 DEF Done, Step
<1>2. \A e \in handlers :
          {<<e, "manifest">>, <<e, "interface">>} \cup ({"type"} \X TypesOf[e]) \subseteq written
  <2> SUFFICES ASSUME NEW e \in handlers, NEW q \in {"type"} \X TypesOf[e] PROVE q \in written
    BY <1>1
  <2>1. PICK t \in TypesOf[e] : q = <<"type", t>>
    OBVIOUS
  <2> QED
    BY <1>1, <2>1
<1>3. /\ face \in {"installed", "unverifiable"} => evaluator = "compute"
      /\ face \in {"not-installable", "not-observed"} => ran \in {"nothing", "unsupported"}
  BY DEF HostIInv, EvaluatorIsTaken
<1> QED
  BY <1>1, <1>2, <1>3 DEF ReachableIsWhole

\* Whatever extensions a plan names, in whatever order, and whatever tree the
\* host finds, its own from an earlier start or none: nothing of the history
\* extension's own installation is recorded as if applications had written it.
THEOREM AuditStaysEmpty == InstallationSpec => []AuditStartsEmpty
<1>1. HostIInv => AuditStartsEmpty
  BY DEF HostIInv
<1> QED
  BY <1>1, HostStartsWell, HostStepKeepsIInv, PTL DEF InstallationSpec

\* And what dispatch can reach is completely installed by this very process,
\* with the evaluator that the installation reports.
THEOREM ReachableStaysWhole == InstallationSpec => []ReachableIsWhole
  BY HostStartsWell, HostStepKeepsIInv, ReachedIsWhole, PTL DEF InstallationSpec
================================================================================
