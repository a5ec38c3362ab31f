-------------------------- MODULE Assessment_proofs --------------------------
(***************************************************************************)
(* Proofs about Assessment, for any number of workers, documents, queries, *)
(* rows, retries and faults, and any similarities.                         *)
(*                                                                         *)
(* The evidence of a handler is the merge of the queries asked so far, up  *)
(* to some search over the rows that were indexed when it began and after  *)
(* it over those of now (Gathered); the seeder commits once, so that no    *)
(* third reading comes in.  A transaction that began later has read the    *)
(* extraction behind every assessment and every handler that began before  *)
(* it (SeenInv), which needs now() to be later than all before it.         *)
(* Whatever a handler asked for is in the cache, inserted by it, or still  *)
(* to do (EmbInv), so that its commit leaves nothing of it to be paid      *)
(* again.                                                                  *)
(***************************************************************************)
EXTENDS Assessment, FiniteSetTheorems, WellFoundedInduction, TLAPS

-----------------------------------------------------------------------------
(***************************************************************************)
(* now()                                                                   *)
(***************************************************************************)
Bounded(S) == \E n \in Nat : \A t \in S : t <= n

LEMMA MaxIsLargest ==
  ASSUME NEW S \in SUBSET Nat, S # {}, Bounded(S)
  PROVE  Max(S) \in S /\ \A t \in S : t <= Max(S)
<1> DEFINE U == {n \in Nat : \A t \in S : t <= n}
<1>1. U \subseteq Nat /\ U # {}
  BY DEF Bounded
<1>2. PICK m \in U : \A n \in U : ~(<<n, m>> \in OpToRel(<, Nat))
  BY <1>1, NatLessThanWellFounded, WFMin
<1>3. m \in Nat /\ \A t \in S : t <= m
  BY <1>1
<1>4. m \in S
  <2>1. SUFFICES ASSUME m \notin S PROVE FALSE
    OBVIOUS
  <2>2. \A t \in S : t < m
    BY <1>3, <2>1
  <2>3. m # 0
    <3>1. PICK t \in S : TRUE
      OBVIOUS
    <3>2. t \in Nat /\ t < m
      BY <2>2
    <3> QED BY <1>3, <3>2
  <2>4. m - 1 \in Nat /\ \A t \in S : t <= m - 1
    BY <1>3, <2>2, <2>3
  <2>5. m - 1 \in U
    BY <2>4
  <2>6. <<m - 1, m>> \in OpToRel(<, Nat)
    BY <1>3, <2>4 DEF OpToRel
  <2> QED BY <1>2, <2>5, <2>6
<1>5. \E x \in S : \A y \in S : x >= y
  BY <1>3, <1>4
<1>6. Max(S) \in S /\ \A y \in S : Max(S) >= y
  BY <1>5 DEF Max
<1> QED BY <1>6

LEMMA NowIsLast ==
  ASSUME Times \subseteq Nat, Bounded(Times)
  PROVE  Now \in Nat /\ \A t \in Times : t < Now
<1> DEFINE S == {0} \cup Times
<1>1. S \in SUBSET Nat /\ S # {}
  OBVIOUS
<1>2. Bounded(S)
  BY DEF Bounded
<1>3. Max(S) \in S /\ \A t \in S : t <= Max(S)
  BY <1>1, <1>2, MaxIsLargest
<1>4. PICK n : n = Max(S)
  OBVIOUS
<1>5. n \in Nat /\ \A t \in Times : t <= n
  BY <1>1, <1>3, <1>4
<1>6. Now = 1 + n
  BY <1>4 DEF Now
<1> QED BY <1>5, <1>6

-----------------------------------------------------------------------------
(***************************************************************************)
(* The handlers                                                            *)
(***************************************************************************)
Asked == {Queries[i] : i \in DOMAIN Queries}

Evidences == UNION {[S -> Asked] : S \in SUBSET Rows}

Handlers ==
  [stage : Stages, at : Nat, doc : Docs \cup {""}, saw : SUBSET Docs,
   asked : Nat, evidence : Evidences, rows : SUBSET Rows, cited : SUBSET Rows,
   filed : Nat]

Assessed == [doc : Docs, at : Nat, saw : SUBSET Docs, cited : SUBSET Rows]

LEMMA NoEvidence == << >> \in Evidences /\ Idle \in Handlers
<1>1. << >> \in Evidences
  <2>1. << >> \in [{} -> Asked]
    OBVIOUS
  <2>2. {} \in SUBSET Rows
    OBVIOUS
  <2> QED BY <2>1, <2>2, Zenon DEF Evidences
<1>2. "idle" \in Stages
  BY DEF Stages
<1>3. Idle \in Handlers
  BY <1>1, <1>2 DEF Idle, Handlers
<1> QED BY <1>1, <1>3

HandlerTypes ==
  /\ work \in [Processes -> Handlers]
  /\ indexed \subseteq Rows /\ extracted \subseteq Docs
  /\ assessments \subseteq Assessed
  /\ Bounded(Times)

\* One handler becomes y and the tables stay.
Turn(p, y) ==
  /\ work' = [work EXCEPT ![p] = y]
  /\ indexed' = indexed /\ extracted' = extracted /\ assessments' = assessments

LEMMA TimesAreNat == HandlerTypes => Times \subseteq Nat
BY DEF HandlerTypes, Times, Handlers, Assessed

LEMMA TurnKeepsTypes ==
  ASSUME HandlerTypes, NEW p \in Processes, NEW y \in Handlers, Turn(p, y),
         y.at \in Times \cup {0, Now}
  PROVE  HandlerTypes'
<1>1. work' \in [Processes -> Handlers]
  BY DEF HandlerTypes, Turn
<1>2. indexed' \subseteq Rows /\ extracted' \subseteq Docs /\ assessments' \subseteq Assessed
  BY DEF HandlerTypes, Turn
<1>3. Bounded(Times')
  <2>1. Times \subseteq Nat /\ Bounded(Times)
    BY TimesAreNat DEF HandlerTypes
  <2>2. Now \in Nat /\ \A t \in Times : t < Now
    BY <2>1, NowIsLast
  <2>3. Times' \subseteq Times \cup {0, Now}
    <3>1. \A q \in Processes : work'[q].at \in Times \cup {0, Now}
      BY DEF HandlerTypes, Turn, Times
    <3>2. \A a \in assessments' : a.at \in Times
      BY DEF Turn, Times
    <3> QED BY <3>1, <3>2 DEF Times
  <2>4. PICK n \in Nat : n = Now
    BY <2>2
  <2>5. \A t \in Times' : t \in Nat /\ t <= n
    BY <2>1, <2>2, <2>3, <2>4
  <2> QED BY <2>5 DEF Bounded
<1> QED BY <1>1, <1>2, <1>3 DEF HandlerTypes

-----------------------------------------------------------------------------
(***************************************************************************)
(* What a later transaction has seen                                       *)
(***************************************************************************)
Started ==
  assessments \cup {work[w] : w \in {v \in Workers : work[v].stage # "idle"}}

Informed ==
  assessments \cup
    {work[w] : w \in {v \in Workers : work[v].stage \notin {"idle", "begun"}}}

SeenInv ==
  /\ \A y \in Started : y.doc \in extracted
  /\ \A x \in Informed, y \in Started : y.at <= x.at => y.doc \in x.saw

\* A handler that goes on, with what it has read, or that ends.
LEMMA SeenTurn ==
  ASSUME SeenInv, HandlerTypes, NEW w \in Workers, NEW y \in Handlers, Turn(w, y),
         \/ y.stage = "idle"
         \/ /\ work[w].stage \notin {"idle", "begun"}
            /\ y.at = work[w].at /\ y.doc = work[w].doc /\ y.saw = work[w].saw
  PROVE  SeenInv'
<1>1. w \in Processes /\ Workers \subseteq Processes
  BY AssessmentAssumption
<1>2. work'[w] = y /\ \A v \in Workers \ {w} : work'[v] = work[v]
  BY <1>1 DEF HandlerTypes, Turn
<1>3. ASSUME NEW e \in Started'
      PROVE  \E o \in Started : o.at = e.at /\ o.doc = e.doc
  BY <1>2, <1>3 DEF Started, Turn
<1>4. ASSUME NEW e \in Informed'
      PROVE  \E o \in Informed : o.at = e.at /\ o.saw = e.saw
  BY <1>2, <1>4 DEF Informed, Turn
<1>5. \A e \in Started' : e.doc \in extracted'
  BY <1>3 DEF SeenInv, Turn
<1>6. \A x \in Informed', e \in Started' : e.at <= x.at => e.doc \in x.saw
  BY <1>3, <1>4 DEF SeenInv
<1> QED BY <1>5, <1>6 DEF SeenInv

\* A handler that begins is later than all that have read.
LEMMA SeenBegin ==
  ASSUME SeenInv, HandlerTypes, NEW w \in Workers, NEW y \in Handlers, Turn(w, y),
         y.stage = "begun", y.at = Now, y.doc \in extracted
  PROVE  SeenInv'
<1>1. w \in Processes /\ Workers \subseteq Processes
  BY AssessmentAssumption
<1>2. work'[w] = y /\ \A v \in Workers \ {w} : work'[v] = work[v]
  BY <1>1 DEF HandlerTypes, Turn
<1>3. Started' \subseteq Started \cup {y}
  BY <1>2 DEF Started, Turn
<1>4. Informed' \subseteq Informed
  BY <1>2 DEF Informed, Turn
<1>5. Now \in Nat /\ \A t \in Times : t \in Nat /\ t < Now
  BY TimesAreNat, NowIsLast DEF HandlerTypes
<1>6. \A x \in Informed : x.at \in Times
  BY <1>1 DEF Informed, Times
<1>7. \A x \in Informed : ~(y.at <= x.at)
  BY <1>5, <1>6
<1>8. \A e \in Started' : e.doc \in extracted'
  BY <1>3 DEF SeenInv, Turn
<1>9. \A x \in Informed', e \in Started' : e.at <= x.at => e.doc \in x.saw
  BY <1>3, <1>4, <1>7 DEF SeenInv
<1> QED BY <1>8, <1>9 DEF SeenInv

\* A handler that reads sees the documents of all that have begun.
LEMMA SeenRead ==
  ASSUME SeenInv, HandlerTypes, NEW w \in Workers, NEW y \in Handlers, Turn(w, y),
         work[w].stage = "begun", y.at = work[w].at, y.doc = work[w].doc,
         y.saw = extracted
  PROVE  SeenInv'
<1>1. w \in Processes /\ Workers \subseteq Processes
  BY AssessmentAssumption
<1>2. work'[w] = y /\ \A v \in Workers \ {w} : work'[v] = work[v]
  BY <1>1 DEF HandlerTypes, Turn
<1>3. ASSUME NEW e \in Started'
      PROVE  \E o \in Started : o.at = e.at /\ o.doc = e.doc
  BY <1>2, <1>3 DEF Started, Turn
<1>4. Informed' \subseteq Informed \cup {y}
  BY <1>2 DEF Informed, Turn
<1>5. \A e \in Started' : e.doc \in extracted'
  BY <1>3 DEF SeenInv, Turn
<1>6. \A e \in Started' : e.doc \in y.saw
  BY <1>5 DEF Turn
<1>7. \A x \in Informed', e \in Started' : e.at <= x.at => e.doc \in x.saw
  BY <1>3, <1>4, <1>6 DEF SeenInv
<1> QED BY <1>5, <1>7 DEF SeenInv

-----------------------------------------------------------------------------
(***************************************************************************)
(* The evidence                                                            *)
(***************************************************************************)
\* The evidence after the first n searches, when search i reads read[i].
Merge(evidence, n, read) ==
  /\ DOMAIN evidence = UNION {Search(Queries[i], read[i]) : i \in 1..n}
  /\ \A k \in DOMAIN evidence : \E i \in 1..n :
       evidence[k] = Queries[i] /\ k \in Search(Queries[i], read[i])
  /\ \A k \in DOMAIN evidence : \A i \in 1..n :
       k \in Search(Queries[i], read[i])
         => Similarity[Queries[i]][k] <= Similarity[evidence[k]][k]

Gathered(x) ==
  /\ DOMAIN x.evidence \subseteq indexed /\ x.cited \subseteq DOMAIN x.evidence
  /\ x.rows \subseteq indexed
  /\ x.stage \in {"idle", "begun", "embed"} => x.asked = 0 /\ DOMAIN x.evidence = {}
  /\ x.stage = "search" => x.asked < Len(Queries)
  /\ x.stage = "assess" => x.asked = Len(Queries)
  /\ x.stage \in {"search", "assess"} =>
       /\ x.rows = indexed \/ indexed = Rows
       /\ \E cut \in 0..x.asked : Merge(x.evidence, x.asked, Corpora(x.rows, cut))

EvidenceInv ==
  /\ \A w \in Workers : Gathered(work[w])
  /\ \A a \in assessments : a.cited \subseteq indexed
  /\ work[Seeder].stage # "idle" => indexed # Rows

LEMMA QueriesAre ==
  /\ Len(Queries) \in Nat \ {0} /\ DOMAIN Queries = 1..Len(Queries)
  /\ Asked = {Queries[i] : i \in 1..Len(Queries)}
<1>1. Queries \in Seq(Texts)
  BY AssessmentAssumption
<1>2. Len(Queries) \in Nat /\ DOMAIN Queries = 1..Len(Queries)
  BY <1>1
<1>3. Len(Queries) # 0
  BY <1>1 DEF Queries
<1> QED BY <1>2, <1>3 DEF Asked

LEMMA SearchFinds ==
  ASSUME NEW q, NEW rows
  PROVE  Search(q, rows) \subseteq rows
BY DEF Search, Nearest

LEMMA SimilarityIsNat ==
  ASSUME NEW q \in Asked, NEW k \in Rows
  PROVE  Similarity[q][k] \in Nat
BY RetrieverAssumption DEF Asked

\* One more search.
LEMMA MergeNext ==
  ASSUME NEW n \in Nat, n < Len(Queries), NEW evidence, NEW read,
         Merge(evidence, n, read), \A i \in 1..(n + 1) : read[i] \subseteq Rows,
         NEW new,
         new = Merged(Queries[n + 1], Search(Queries[n + 1], read[n + 1]), evidence)
  PROVE  Merge(new, n + 1, read)
<1> DEFINE q == Queries[n + 1]
<1> DEFINE found == Search(q, read[n + 1])
<1> DEFINE old(i) == Search(Queries[i], read[i])
<1>1. 1..(n + 1) = (1..n) \cup {n + 1}
  OBVIOUS
<1>2. \A i \in 1..(n + 1) : Queries[i] \in Asked
  BY QueriesAre
<1>3. DOMAIN new = DOMAIN evidence \cup found
  BY DEF Merged
<1>4. \A k \in DOMAIN new : new[k] =
        IF k \in DOMAIN evidence
           /\ (k \in found => Similarity[q][k] <= Similarity[evidence[k]][k])
        THEN evidence[k] ELSE q
  BY DEF Merged
<1>5. \A i \in 1..(n + 1) : old(i) \subseteq Rows
  BY SearchFinds
<1>6. \A i \in 1..(n + 1) : \A k \in Rows : Similarity[Queries[i]][k] \in Nat
  BY <1>2, SimilarityIsNat
<1>7. old(n + 1) = found /\ Queries[n + 1] = q
  OBVIOUS
<1>8. DOMAIN evidence = UNION {old(i) : i \in 1..n}
  BY DEF Merge
<1>9. ASSUME NEW k \in DOMAIN evidence
      PROVE  /\ \E i \in 1..n : evidence[k] = Queries[i] /\ k \in old(i)
             /\ \A i \in 1..n : k \in old(i) =>
                  Similarity[Queries[i]][k] <= Similarity[evidence[k]][k]
  BY <1>9 DEF Merge
<1> HIDE DEF q, found, old
<1>10. DOMAIN new = UNION {old(i) : i \in 1..(n + 1)}
  BY <1>1, <1>3, <1>7, <1>8
<1>11. ASSUME NEW k \in DOMAIN new
       PROVE  /\ \E i \in 1..(n + 1) : new[k] = Queries[i] /\ k \in old(i)
              /\ \A i \in 1..(n + 1) : k \in old(i) =>
                   Similarity[Queries[i]][k] <= Similarity[new[k]][k]
  <2>1. k \in Rows
    BY <1>5, <1>10, <1>11
  <2>2. \A i \in 1..(n + 1) : Similarity[Queries[i]][k] \in Nat
    BY <1>6, <2>1
  <2>3. CASE k \in DOMAIN evidence
               /\ (k \in found => Similarity[q][k] <= Similarity[evidence[k]][k])
    <3>1. new[k] = evidence[k]
      BY <1>4, <2>3
    <3>2. \E i \in 1..(n + 1) : evidence[k] = Queries[i] /\ k \in old(i)
      BY <1>1, <1>9, <2>3
    <3>3. \A i \in 1..n : k \in old(i) =>
            Similarity[Queries[i]][k] <= Similarity[evidence[k]][k]
      BY <1>9, <2>3
    <3> QED BY <1>1, <1>7, <2>3, <3>1, <3>2, <3>3
  <2>4. CASE ~(k \in DOMAIN evidence
               /\ (k \in found => Similarity[q][k] <= Similarity[evidence[k]][k]))
    <3>1. new[k] = q
      BY <1>4, <2>4
    <3>2. k \in old(n + 1)
      BY <1>3, <1>7, <1>11, <2>4
    <3>3. ASSUME NEW i \in 1..n, k \in old(i)
          PROVE  Similarity[Queries[i]][k] <= Similarity[q][k]
      <4>1. k \in DOMAIN evidence
        BY <1>8, <3>3
      <4>2. PICK j \in 1..n : evidence[k] = Queries[j]
        BY <1>9, <4>1
      <4>3. Similarity[Queries[i]][k] <= Similarity[Queries[j]][k]
        BY <1>9, <3>3, <4>1, <4>2
      <4>4. ~(Similarity[q][k] <= Similarity[Queries[j]][k])
        BY <2>4, <4>1, <4>2
      <4>5. /\ Similarity[Queries[i]][k] \in Nat /\ Similarity[Queries[j]][k] \in Nat
            /\ Similarity[q][k] \in Nat
        BY <1>1, <1>7, <2>2
      <4> QED BY <4>3, <4>4, <4>5
    <3>4. Similarity[q][k] <= Similarity[q][k]
      BY <1>1, <1>7, <2>2
    <3> QED BY <1>1, <1>7, <3>1, <3>2, <3>3, <3>4
  <2> QED BY <2>3, <2>4
<1> QED BY <1>10, <1>11 DEF Merge, old

\* Only what the first n searches read matters.
LEMMA MergeReads ==
  ASSUME NEW evidence, NEW n, NEW read, NEW other, Merge(evidence, n, read),
         \A i \in 1..n : other[i] = read[i]
  PROVE  Merge(evidence, n, other)
<1>1. \A i \in 1..n : Search(Queries[i], other[i]) = Search(Queries[i], read[i])
  OBVIOUS
<1> QED BY <1>1 DEF Merge

LEMMA MergeIsEvidence ==
  ASSUME NEW evidence, NEW read, Merge(evidence, Len(Queries), read)
  PROVE  IsEvidence(evidence, read)
BY QueriesAre DEF Merge, IsEvidence

LEMMA GatheredKeeps ==
  ASSUME NEW x, Gathered(x), indexed' = indexed
  PROVE  Gathered(x)'
<1>1. \A cut : Corpora(x.rows, cut)' = Corpora(x.rows, cut)
  BY DEF Corpora
<1>2. ASSUME NEW cut, Merge(x.evidence, x.asked, Corpora(x.rows, cut))
      PROVE  Merge(x.evidence, x.asked, Corpora(x.rows, cut))'
  BY <1>1, <1>2 DEF Merge
<1> QED BY <1>2 DEF Gathered

LEMMA EvidenceTurn ==
  ASSUME EvidenceInv, HandlerTypes, NEW p \in Processes, NEW y, Turn(p, y),
         p \in Workers => Gathered(y),
         p = Seeder => (y.stage # "idle" => indexed # Rows)
  PROVE  EvidenceInv'
<1>1. Workers \subseteq Processes /\ Seeder \in Processes
  BY AssessmentAssumption
<1>2. work'[p] = y /\ \A v \in Processes \ {p} : work'[v] = work[v]
  BY <1>1 DEF HandlerTypes, Turn
<1>3. indexed' = indexed /\ assessments' = assessments
  BY DEF Turn
<1>4. ASSUME NEW w \in Workers PROVE Gathered(work[w])'
  <2>1. PICK x : x = work'[w] /\ Gathered(x)
    BY <1>1, <1>2 DEF EvidenceInv
  <2>2. Gathered(x)'
    BY <1>3, <2>1, GatheredKeeps
  <2> QED BY <2>1, <2>2
<1>5. \A a \in assessments' : a.cited \subseteq indexed'
  BY <1>3 DEF EvidenceInv
<1>6. work'[Seeder].stage # "idle" => indexed' # Rows
  BY <1>1, <1>2, <1>3 DEF EvidenceInv
<1> QED BY <1>4, <1>5, <1>6 DEF EvidenceInv

-----------------------------------------------------------------------------
(***************************************************************************)
(* The steps                                                               *)
(***************************************************************************)
HandlerInv == HandlerTypes /\ SeenInv /\ EvidenceInv

LEMMA QuietStep ==
  ASSUME HandlerInv, work' = work, indexed' = indexed, assessments' = assessments,
         extracted \subseteq extracted', extracted' \subseteq Docs
  PROVE  HandlerInv'
<1>1. HandlerTypes'
  BY DEF HandlerInv, HandlerTypes, Times
<1>2. SeenInv'
  BY DEF HandlerInv, SeenInv, Started, Informed
<1>3. EvidenceInv'
  <2>1. \A w \in Workers : Gathered(work[w])'
    <3> SUFFICES ASSUME NEW w \in Workers PROVE Gathered(work[w])'
      OBVIOUS
    <3>1. PICK x : x = work'[w] /\ Gathered(x)
      BY DEF HandlerInv, EvidenceInv
    <3>2. Gathered(x)'
      BY <3>1, GatheredKeeps
    <3> QED BY <3>1, <3>2
  <2> QED BY <2>1 DEF HandlerInv, EvidenceInv
<1> QED BY <1>1, <1>2, <1>3 DEF HandlerInv

LEMMA BeginStep ==
  ASSUME HandlerInv, NEW w \in Workers, NEW d \in Docs, Begin(w, d)
  PROVE  HandlerInv'
<1>1. w \in Processes /\ w # Seeder
  BY AssessmentAssumption
<1>2. PICK x : x = work[w] /\ x \in Handlers
  BY <1>1 DEF HandlerInv, HandlerTypes
<1>3. PICK n \in Nat : n = Now
  BY TimesAreNat, NowIsLast DEF HandlerInv, HandlerTypes
<1>4. PICK y : y = [x EXCEPT !.stage = "begun", !.doc = d, !.at = n]
  OBVIOUS
<1>5. y \in Handlers
  <2>1. "begun" \in Stages
    BY DEF Stages
  <2> QED BY <1>2, <1>4, <2>1 DEF Handlers
<1>6. /\ y.stage = "begun" /\ y.doc = d /\ y.at = n /\ y.asked = x.asked
      /\ y.evidence = x.evidence /\ y.rows = x.rows /\ y.cited = x.cited
  BY <1>2, <1>4 DEF Handlers
<1>7. Turn(w, y)
  BY <1>2, <1>3, <1>4 DEF Begin, Turn, tables
<1>8. HandlerTypes'
  BY <1>1, <1>3, <1>5, <1>6, <1>7, TurnKeepsTypes DEF HandlerInv
<1>9. SeenInv'
  BY <1>3, <1>5, <1>6, <1>7, SeenBegin DEF HandlerInv, Begin
<1>10. Gathered(x) /\ x.stage = "idle"
  BY <1>2 DEF HandlerInv, EvidenceInv, Begin
<1>11. Gathered(y)
  BY <1>6, <1>10 DEF Gathered
<1>12. EvidenceInv'
  BY <1>1, <1>7, <1>11, EvidenceTurn DEF HandlerInv
<1> QED BY <1>8, <1>9, <1>12 DEF HandlerInv

LEMMA ReadStep ==
  ASSUME HandlerInv, NEW w \in Workers, Read(w)
  PROVE  HandlerInv'
<1>1. w \in Processes /\ w # Seeder
  BY AssessmentAssumption
<1>2. PICK x : x = work[w] /\ x \in Handlers
  BY <1>1 DEF HandlerInv, HandlerTypes
<1>3. PICK e : e = extracted /\ e \in SUBSET Docs
  BY DEF HandlerInv, HandlerTypes
<1>4. PICK y : y = [x EXCEPT !.stage = "embed", !.saw = e]
  OBVIOUS
<1>5. y \in Handlers
  <2>1. "embed" \in Stages
    BY DEF Stages
  <2> QED BY <1>2, <1>3, <1>4, <2>1 DEF Handlers
<1>6. /\ y.stage = "embed" /\ y.saw = e /\ y.doc = x.doc /\ y.at = x.at
      /\ y.asked = x.asked /\ y.evidence = x.evidence /\ y.rows = x.rows
      /\ y.cited = x.cited
  BY <1>2, <1>4 DEF Handlers
<1>7. Turn(w, y)
  BY <1>2, <1>3, <1>4 DEF Read, Turn, tables
<1>8. HandlerTypes'
  <2>1. y.at \in Times
    BY <1>1, <1>2, <1>6 DEF Times
  <2> QED BY <1>1, <1>5, <1>7, <2>1, TurnKeepsTypes DEF HandlerInv
<1>9. SeenInv'
  <2>1. work[w].stage = "begun"
    BY DEF Read
  <2> QED BY <1>2, <1>3, <1>5, <1>6, <1>7, <2>1, SeenRead DEF HandlerInv
<1>10. Gathered(x) /\ x.stage = "begun"
  BY <1>2 DEF HandlerInv, EvidenceInv, Read
<1>11. Gathered(y)
  BY <1>6, <1>10 DEF Gathered
<1>12. EvidenceInv'
  BY <1>1, <1>7, <1>11, EvidenceTurn DEF HandlerInv
<1> QED BY <1>8, <1>9, <1>12 DEF HandlerInv

\* A worker that has read goes on to y.
LEMMA OnStep ==
  ASSUME HandlerInv, NEW w \in Workers, NEW y \in Handlers, Turn(w, y),
         work[w].stage \notin {"idle", "begun"},
         y.at = work[w].at, y.doc = work[w].doc, y.saw = work[w].saw, Gathered(y)
  PROVE  HandlerInv'
<1>1. w \in Processes /\ w # Seeder
  BY AssessmentAssumption
<1>2. HandlerTypes'
  <2>1. y.at \in Times
    BY <1>1 DEF Times
  <2> QED BY <1>1, <2>1, TurnKeepsTypes DEF HandlerInv
<1>3. SeenInv'
  BY SeenTurn DEF HandlerInv
<1>4. EvidenceInv'
  BY <1>1, EvidenceTurn DEF HandlerInv
<1> QED BY <1>2, <1>3, <1>4 DEF HandlerInv

LEMMA BookStep ==
  ASSUME HandlerInv, NEW w \in Workers, BookEmbedding(w)
  PROVE  HandlerInv'
<1>1. w \in Processes
  BY AssessmentAssumption
<1>2. PICK x : x = work[w] /\ x \in Handlers
  BY <1>1 DEF HandlerInv, HandlerTypes
<1>3. PICK r : r = indexed /\ r \in SUBSET Rows
  BY DEF HandlerInv, HandlerTypes
<1>4. PICK y : y = [x EXCEPT !.stage = "search", !.rows = r]
  OBVIOUS
<1>5. y \in Handlers
  <2>1. "search" \in Stages
    BY DEF Stages
  <2> QED BY <1>2, <1>3, <1>4, <2>1 DEF Handlers
<1>6. /\ y.stage = "search" /\ y.rows = r /\ y.doc = x.doc /\ y.at = x.at
      /\ y.saw = x.saw /\ y.asked = x.asked /\ y.evidence = x.evidence
      /\ y.cited = x.cited
  BY <1>2, <1>4 DEF Handlers
<1>7. Turn(w, y)
  BY <1>2, <1>3, <1>4 DEF BookEmbedding, Turn, tables
<1>8. Gathered(x) /\ x.stage = "embed"
  BY <1>2 DEF HandlerInv, EvidenceInv, BookEmbedding
<1>9. 0 \in 0..y.asked /\ Merge(y.evidence, y.asked, Corpora(y.rows, 0))
  <2>1. DOMAIN y.evidence = {} /\ y.asked = 0
    BY <1>6, <1>8 DEF Gathered
  <2>2. 1..0 = {}
    OBVIOUS
  <2> QED BY <2>1, <2>2 DEF Merge
<1>10. Gathered(y)
  BY <1>3, <1>6, <1>8, <1>9, QueriesAre DEF Gathered
<1> QED BY <1>2, <1>5, <1>6, <1>7, <1>8, <1>10, OnStep

LEMMA MergedIsEvidence ==
  ASSUME NEW evidence \in Evidences, NEW q \in Asked, indexed \subseteq Rows
  PROVE  Merged(q, Search(q, indexed), evidence) \in Evidences
<1>1. PICK S \in SUBSET Rows : evidence \in [S -> Asked]
  BY DEF Evidences
<1>2. PICK f : f = Search(q, indexed) /\ f \in SUBSET Rows
  BY SearchFinds
<1>3. Merged(q, f, evidence) \in [S \cup f -> Asked]
  BY <1>1, <1>2 DEF Merged
<1>4. S \cup f \in SUBSET Rows
  BY <1>1, <1>2
<1> QED BY <1>2, <1>3, <1>4 DEF Evidences

LEMMA SearchStep ==
  ASSUME HandlerInv, NEW w \in Workers, SearchNext(w)
  PROVE  HandlerInv'
<1>1. w \in Processes
  BY AssessmentAssumption
<1>2. PICK x : x = work[w] /\ x \in Handlers
  BY <1>1 DEF HandlerInv, HandlerTypes
<1>3. Gathered(x) /\ x.stage = "search"
  BY <1>2 DEF HandlerInv, EvidenceInv, SearchNext
<1>4. x.asked \in Nat /\ x.asked < Len(Queries) /\ x.evidence \in Evidences
  BY <1>2, <1>3 DEF Gathered, Handlers
<1>5. PICK n \in Nat : n = x.asked + 1
  BY <1>4
<1>6. PICK q \in Asked : q = Queries[n]
  BY <1>4, <1>5, QueriesAre DEF Asked
<1>7. PICK e : e = Merged(q, Search(q, indexed), x.evidence)
  OBVIOUS
<1>8. e \in Evidences
  BY <1>4, <1>7, MergedIsEvidence DEF HandlerInv, HandlerTypes
<1>9. PICK s : s = IF n = Len(Queries) THEN "assess" ELSE "search"
  OBVIOUS
<1>10. PICK y : y = [x EXCEPT !.asked = n, !.evidence = e, !.stage = s]
  OBVIOUS
<1>11. y \in Handlers
  <2>1. s \in Stages
    BY <1>9 DEF Stages
  <2> QED BY <1>2, <1>8, <1>10, <2>1 DEF Handlers
<1>12. /\ y.stage = s /\ y.rows = x.rows /\ y.doc = x.doc /\ y.at = x.at
       /\ y.saw = x.saw /\ y.asked = n /\ y.evidence = e /\ y.cited = x.cited
  BY <1>2, <1>10 DEF Handlers
<1>13. Turn(w, y)
  BY <1>2, <1>3, <1>5, <1>6, <1>7, <1>9, <1>10 DEF SearchNext, Turn, tables
<1>14. DOMAIN e = DOMAIN x.evidence \cup Search(q, indexed)
  BY <1>7 DEF Merged
<1>15. \E cut \in 0..n : Merge(e, n, Corpora(x.rows, cut))
  <2>1. PICK cut \in 0..x.asked : Merge(x.evidence, x.asked, Corpora(x.rows, cut))
    BY <1>3 DEF Gathered
  <2>2. PICK read : read = Corpora(x.rows, cut)
    OBVIOUS
  <2>3. indexed \subseteq Rows /\ x.rows \subseteq indexed
    BY <1>3 DEF Gathered, HandlerInv, HandlerTypes
  <2>4. n \in 1..Len(Queries) /\ ~(n <= cut)
    BY <1>4, <1>5, QueriesAre
  <2>5. \A i \in 1..n : read[i] \subseteq Rows
    BY <2>2, <2>3, <2>4, QueriesAre DEF Corpora
  <2>6. read[n] = indexed
    BY <2>2, <2>4, QueriesAre DEF Corpora
  <2>7. e = Merged(Queries[x.asked + 1],
                   Search(Queries[x.asked + 1], read[x.asked + 1]), x.evidence)
    BY <1>5, <1>6, <1>7, <2>6
  <2>8. Merge(e, x.asked + 1, read)
    BY <1>4, <1>5, <2>1, <2>2, <2>5, <2>7, MergeNext
  <2>9. cut \in 0..n
    BY <1>4, <1>5
  <2> QED BY <1>5, <2>2, <2>8, <2>9
<1>16. Gathered(y)
  <2>1. DOMAIN y.evidence \subseteq indexed /\ y.cited \subseteq DOMAIN y.evidence
    BY <1>3, <1>12, <1>14, SearchFinds DEF Gathered
  <2>2. y.rows \subseteq indexed
    BY <1>3, <1>12 DEF Gathered
  <2>3. y.stage \notin {"idle", "begun", "embed"}
    BY <1>9, <1>12
  <2>4. y.stage = "search" => y.asked < Len(Queries)
    BY <1>4, <1>5, <1>9, <1>12, QueriesAre
  <2>5. y.stage = "assess" => y.asked = Len(Queries)
    BY <1>9, <1>12
  <2>6. /\ y.rows = indexed \/ indexed = Rows
        /\ \E cut \in 0..y.asked : Merge(y.evidence, y.asked, Corpora(y.rows, cut))
    BY <1>3, <1>12, <1>15 DEF Gathered
  <2> QED BY <2>1, <2>2, <2>3, <2>4, <2>5, <2>6 DEF Gathered
<1> QED BY <1>2, <1>3, <1>11, <1>12, <1>13, <1>16, OnStep

LEMMA AnswerStep ==
  ASSUME HandlerInv, NEW w \in Workers, NEW named, ModelAnswers(w, named)
  PROVE  HandlerInv'
<1>1. w \in Processes
  BY AssessmentAssumption
<1>2. PICK x : x = work[w] /\ x \in Handlers
  BY <1>1 DEF HandlerInv, HandlerTypes
<1>3. Gathered(x) /\ x.stage = "assess"
  BY <1>2 DEF HandlerInv, EvidenceInv, ModelAnswers
<1>4. PICK c : c = named \cap DOMAIN x.evidence
  OBVIOUS
<1>5. c \in SUBSET Rows
  BY <1>3, <1>4 DEF Gathered, HandlerInv, HandlerTypes
<1>6. PICK y : y = [x EXCEPT !.stage = "assessed", !.cited = c]
  OBVIOUS
<1>7. y \in Handlers
  <2>1. "assessed" \in Stages
    BY DEF Stages
  <2> QED BY <1>2, <1>5, <1>6, <2>1 DEF Handlers
<1>8. /\ y.stage = "assessed" /\ y.rows = x.rows /\ y.doc = x.doc /\ y.at = x.at
      /\ y.saw = x.saw /\ y.asked = x.asked /\ y.evidence = x.evidence
      /\ y.cited = c
  BY <1>2, <1>6 DEF Handlers
<1>9. Turn(w, y)
  BY <1>2, <1>4, <1>6 DEF ModelAnswers, Supplied, Turn, tables
<1>10. Gathered(y)
  BY <1>3, <1>4, <1>8 DEF Gathered
<1> QED BY <1>2, <1>3, <1>7, <1>8, <1>9, <1>10, OnStep

LEMMA FailStep ==
  ASSUME HandlerInv, NEW w \in Workers, ModelFails(w)
  PROVE  HandlerInv'
<1>1. w \in Processes
  BY AssessmentAssumption
<1>2. PICK x : x = work[w] /\ x \in Handlers
  BY <1>1 DEF HandlerInv, HandlerTypes
<1>3. Gathered(x) /\ x.stage = "assess"
  BY <1>2 DEF HandlerInv, EvidenceInv, ModelFails
<1>4. PICK y : y = [x EXCEPT !.stage = "failed"]
  OBVIOUS
<1>5. y \in Handlers
  <2>1. "failed" \in Stages
    BY DEF Stages
  <2> QED BY <1>2, <1>4, <2>1 DEF Handlers
<1>6. /\ y.stage = "failed" /\ y.rows = x.rows /\ y.doc = x.doc /\ y.at = x.at
      /\ y.saw = x.saw /\ y.asked = x.asked /\ y.evidence = x.evidence
      /\ y.cited = x.cited
  BY <1>2, <1>4 DEF Handlers
<1>7. Gathered(y)
  BY <1>3, <1>6 DEF Gathered
<1>8. UNCHANGED tables /\ (UNCHANGED work \/ Goto(w, "failed"))
  BY DEF ModelFails
<1>9. CASE UNCHANGED work
  BY <1>8, <1>9, QuietStep DEF tables, HandlerInv, HandlerTypes
<1>10. CASE Goto(w, "failed")
  <2>1. Turn(w, y)
    BY <1>2, <1>4, <1>8, <1>10 DEF Goto, Turn, tables
  <2> QED BY <1>2, <1>3, <1>5, <1>6, <1>7, <2>1, OnStep
<1> QED BY <1>8, <1>9, <1>10

LEMMA IdleIs ==
  /\ Idle \in Handlers /\ Idle.stage = "idle" /\ Idle.at = 0
  /\ Gathered(Idle)
<1>1. /\ Idle.stage = "idle" /\ Idle.at = 0 /\ Idle.asked = 0 /\ Idle.cited = {}
      /\ Idle.rows = {} /\ Idle.evidence = << >>
  BY DEF Idle
<1>2. DOMAIN Idle.evidence = {}
  BY <1>1
<1>3. Gathered(Idle)
  BY <1>1, <1>2 DEF Gathered
<1> QED BY <1>1, <1>3, NoEvidence

\* A transaction that leaves nothing behind.
LEMMA EndStep ==
  ASSUME HandlerInv, NEW p \in Processes, Turn(p, Idle)
  PROVE  HandlerInv'
<1>1. HandlerTypes'
  BY IdleIs, TurnKeepsTypes DEF HandlerInv
<1>2. SeenInv'
  <2>1. CASE p \in Workers
    BY <2>1, IdleIs, SeenTurn DEF HandlerInv
  <2>2. CASE p \notin Workers
    <3>1. \A w \in Workers : work'[w] = work[w]
      BY <2>2, AssessmentAssumption DEF HandlerInv, HandlerTypes, Turn
    <3>2. Started' = Started /\ Informed' = Informed
      BY <3>1 DEF Started, Informed, Turn
    <3> QED BY <3>2 DEF HandlerInv, SeenInv, Turn
  <2> QED BY <2>1, <2>2
<1>3. EvidenceInv'
  BY IdleIs, EvidenceTurn DEF HandlerInv
<1> QED BY <1>1, <1>2, <1>3 DEF HandlerInv

\* The assessment takes the place of the handler that made it.
LEMMA CommitStep ==
  ASSUME HandlerInv, NEW w \in Workers, Commit(w)
  PROVE  HandlerInv'
<1>1. w \in Processes /\ w # Seeder /\ Workers \subseteq Processes /\ Seeder \in Processes
  BY AssessmentAssumption
<1>2. PICK x : x = work[w] /\ x \in Handlers
  BY <1>1 DEF HandlerInv, HandlerTypes
<1>3. x.stage \in {"assessed", "failed"} /\ Gathered(x)
  BY <1>2 DEF HandlerInv, EvidenceInv, Commit
<1>4. CASE x.stage # "assessed"
  <2>1. Turn(w, Idle)
    BY <1>2, <1>4 DEF Commit, Turn
  <2> QED BY <1>1, <2>1, EndStep
<1>5. CASE x.stage = "assessed"
  <2>1. PICK a : a = [doc |-> x.doc, at |-> x.at, saw |-> x.saw, cited |-> x.cited]
    OBVIOUS
  <2>2. /\ assessments' = assessments \cup {a} /\ work' = [work EXCEPT ![w] = Idle]
        /\ indexed' = indexed /\ extracted' = extracted
    BY <1>2, <1>5, <2>1 DEF Commit, CreatedAt
  <2>3. work'[w] = Idle /\ \A p \in Processes \ {w} : work'[p] = work[p]
    BY <1>1, <2>2 DEF HandlerInv, HandlerTypes
  <2>4. x \in Started /\ x \in Informed
    BY <1>2, <1>5 DEF Started, Informed
  <2>5. x.doc \in Docs
    BY <2>4 DEF HandlerInv, SeenInv, HandlerTypes
  <2>6. /\ a.doc = x.doc /\ a.at = x.at /\ a.saw = x.saw /\ a.cited = x.cited
        /\ a \in Assessed
    <3>1. x.at \in Nat /\ x.saw \in SUBSET Docs /\ x.cited \in SUBSET Rows
      BY <1>2 DEF Handlers
    <3> QED BY <2>1, <2>5, <3>1 DEF Assessed
  <2>7. HandlerTypes'
    <3>1. work' \in [Processes -> Handlers]
      BY <2>2, IdleIs DEF HandlerInv, HandlerTypes
    <3>2. Times' \subseteq Times \cup {0}
      <4>1. \A p \in Processes : work'[p].at \in Times \cup {0}
        BY <2>3, IdleIs DEF Times
      <4>2. \A b \in assessments' : b.at \in Times
        BY <1>1, <1>2, <2>2, <2>6 DEF Times
      <4> QED BY <4>1, <4>2 DEF Times
    <3>3. Bounded(Times')
      BY <3>2 DEF Bounded, HandlerInv, HandlerTypes
    <3> QED BY <2>2, <2>6, <3>1, <3>3 DEF HandlerInv, HandlerTypes
  <2>8. SeenInv'
    <3>1. ASSUME NEW e \in Started'
          PROVE  \E o \in Started : o.at = e.at /\ o.doc = e.doc
      BY <1>1, <2>2, <2>3, <2>4, <2>6, <3>1, IdleIs DEF Started
    <3>2. ASSUME NEW e \in Informed'
          PROVE  \E o \in Informed : o.at = e.at /\ o.saw = e.saw
      BY <1>1, <2>2, <2>3, <2>4, <2>6, <3>2, IdleIs DEF Informed
    <3>3. \A e \in Started' : e.doc \in extracted'
      BY <2>2, <3>1 DEF HandlerInv, SeenInv
    <3>4. \A b \in Informed', e \in Started' : e.at <= b.at => e.doc \in b.saw
      BY <3>1, <3>2 DEF HandlerInv, SeenInv
    <3> QED BY <3>3, <3>4 DEF SeenInv
  <2>9. EvidenceInv'
    <3>1. ASSUME NEW v \in Workers PROVE Gathered(work[v])'
      <4>1. PICK z : z = work'[v] /\ Gathered(z)
        BY <1>1, <2>3, IdleIs DEF HandlerInv, EvidenceInv
      <4>2. Gathered(z)'
        BY <2>2, <4>1, GatheredKeeps
      <4> QED BY <4>1, <4>2
    <3>2. a.cited \subseteq indexed
      BY <1>3, <2>6 DEF Gathered
    <3>3. \A b \in assessments' : b.cited \subseteq indexed'
      BY <2>2, <3>2 DEF HandlerInv, EvidenceInv
    <3>4. work'[Seeder].stage # "idle" => indexed' # Rows
      BY <1>1, <2>2, <2>3 DEF HandlerInv, EvidenceInv
    <3> QED BY <3>1, <3>3, <3>4 DEF EvidenceInv
  <2> QED BY <2>7, <2>8, <2>9 DEF HandlerInv
<1> QED BY <1>3, <1>4, <1>5

\* The seeder goes on; no handler notices.
LEMMA SeederStep ==
  ASSUME HandlerInv, NEW y \in Handlers, Turn(Seeder, y), indexed # Rows,
         y.at = work[Seeder].at
  PROVE  HandlerInv'
<1>1. Seeder \in Processes /\ Seeder \notin Workers /\ Workers \subseteq Processes
  BY AssessmentAssumption
<1>2. HandlerTypes'
  <2>1. y.at \in Times
    BY <1>1 DEF Times
  <2> QED BY <1>1, <2>1, TurnKeepsTypes DEF HandlerInv
<1>3. SeenInv'
  <2>1. \A w \in Workers : work'[w] = work[w]
    BY <1>1 DEF HandlerInv, HandlerTypes, Turn
  <2>2. Started' = Started /\ Informed' = Informed
    BY <2>1 DEF Started, Informed, Turn
  <2> QED BY <2>2 DEF HandlerInv, SeenInv, Turn
<1>4. EvidenceInv'
  BY <1>1, EvidenceTurn DEF HandlerInv
<1> QED BY <1>2, <1>3, <1>4 DEF HandlerInv

LEMMA SeedingStep ==
  ASSUME HandlerInv, BeginSeed \/ SeedFile \/ IndexFile
  PROVE  HandlerInv'
<1>1. Seeder \in Processes
  BY AssessmentAssumption
<1>2. PICK x : x = work[Seeder] /\ x \in Handlers
  BY <1>1 DEF HandlerInv, HandlerTypes
<1>3. indexed # Rows
  BY DEF HandlerInv, EvidenceInv, BeginSeed, SeedFile, IndexFile
<1>4. ASSUME NEW s \in {"begun", "embed"}, Goto(Seeder, s), UNCHANGED tables
      PROVE  HandlerInv'
  <2>1. PICK y : y = [x EXCEPT !.stage = s]
    OBVIOUS
  <2>2. s \in Stages
    BY <1>4 DEF Stages
  <2>3. y \in Handlers
    BY <1>2, <2>1, <2>2 DEF Handlers
  <2>4. y.at = x.at
    BY <1>2, <2>1 DEF Handlers
  <2>5. Turn(Seeder, y)
    BY <1>2, <1>4, <2>1 DEF Goto, Turn, tables
  <2> QED BY <1>2, <1>3, <2>3, <2>4, <2>5, SeederStep
<1>5. CASE BeginSeed
  BY <1>4, <1>5 DEF BeginSeed
<1>6. CASE SeedFile
  BY <1>4, <1>6 DEF SeedFile
<1>7. CASE IndexFile
  <2>1. x.filed \in Nat
    BY <1>2 DEF Handlers
  <2>2. PICK n \in Nat : n = x.filed + 1
    BY <2>1
  <2>3. PICK y : y = [x EXCEPT !.stage = "begun", !.filed = n]
    OBVIOUS
  <2>4. "begun" \in Stages
    BY DEF Stages
  <2>5. y \in Handlers /\ y.at = x.at
    BY <1>2, <2>2, <2>3, <2>4 DEF Handlers
  <2>6. Turn(Seeder, y)
    BY <1>2, <1>7, <2>2, <2>3 DEF IndexFile, Turn, tables
  <2> QED BY <1>2, <1>3, <2>5, <2>6, SeederStep
<1> QED BY <1>5, <1>6, <1>7

\* Every row is indexed at once; a handler that has searched so far has
\* searched the rows it found when it began.
LEMMA CommitSeedStep ==
  ASSUME HandlerInv, CommitSeed
  PROVE  HandlerInv'
<1>1. Seeder \in Processes /\ Seeder \notin Workers /\ Workers \subseteq Processes
  BY AssessmentAssumption
<1>2. /\ work' = [work EXCEPT ![Seeder] = Idle] /\ indexed' = Rows
      /\ extracted' = extracted /\ assessments' = assessments
  BY DEF CommitSeed
<1>3. indexed # Rows /\ indexed \subseteq Rows
  BY DEF CommitSeed, HandlerInv, EvidenceInv, HandlerTypes
<1>4. work'[Seeder] = Idle /\ \A w \in Workers : work'[w] = work[w]
  BY <1>1, <1>2 DEF HandlerInv, HandlerTypes
<1>5. HandlerTypes'
  <2>1. work' \in [Processes -> Handlers]
    BY <1>2, IdleIs DEF HandlerInv, HandlerTypes
  <2>2. \A p \in Processes : work'[p].at \in Times \cup {0}
    BY <1>2, IdleIs DEF Times, HandlerInv, HandlerTypes
  <2>3. Times' \subseteq Times \cup {0}
    BY <1>2, <2>2 DEF Times
  <2>4. Bounded(Times')
    BY <2>3 DEF Bounded, HandlerInv, HandlerTypes
  <2> QED BY <1>2, <2>1, <2>4 DEF HandlerInv, HandlerTypes
<1>6. SeenInv'
  <2>1. Started' = Started /\ Informed' = Informed
    BY <1>2, <1>4 DEF Started, Informed
  <2> QED BY <1>2, <2>1 DEF HandlerInv, SeenInv
<1>7. EvidenceInv'
  <2>1. ASSUME NEW w \in Workers PROVE Gathered(work[w])'
    <3>1. PICK x : x = work'[w] /\ Gathered(x)
      BY <1>4 DEF HandlerInv, EvidenceInv
    <3>2. ASSUME x.stage \in {"search", "assess"}
          PROVE  \E cut \in 0..x.asked :
                   Merge(x.evidence, x.asked, Corpora(x.rows, cut))'
      <4>1. x.rows = indexed /\ x.asked \in Nat /\ x.asked <= Len(Queries)
        <5>1. x \in Handlers
          BY <1>1, <1>4, <3>1 DEF HandlerInv, HandlerTypes
        <5>2. x.asked \in Nat
          BY <5>1 DEF Handlers
        <5>3. x.rows = indexed
          BY <1>3, <3>1, <3>2 DEF Gathered
        <5>4. x.asked <= Len(Queries)
          BY <3>1, <3>2, <5>2, QueriesAre DEF Gathered
        <5> QED BY <5>2, <5>3, <5>4
      <4>2. PICK cut \in 0..x.asked : Merge(x.evidence, x.asked, Corpora(x.rows, cut))
        BY <3>1, <3>2 DEF Gathered
      <4>3. PICK before, after : /\ before = Corpora(x.rows, cut)
                                 /\ after = Corpora(x.rows, x.asked)'
        OBVIOUS
      <4>4. \A i \in 1..x.asked : after[i] = before[i]
        BY <4>1, <4>3, QueriesAre DEF Corpora
      <4>5. Merge(x.evidence, x.asked, after)
        BY <4>2, <4>3, <4>4, MergeReads
      <4>6. x.asked \in 0..x.asked
        BY <4>1
      <4> QED BY <4>3, <4>5, <4>6 DEF Merge
    <3>3. Gathered(x)'
      BY <1>2, <1>3, <3>1, <3>2 DEF Gathered
    <3> QED BY <3>1, <3>3
  <2>2. work'[Seeder].stage = "idle"
    BY <1>4, IdleIs
  <2> QED BY <1>2, <1>3, <2>1, <2>2 DEF HandlerInv, EvidenceInv
<1> QED BY <1>5, <1>6, <1>7 DEF HandlerInv

LEMMA NextHandler == HandlerInv /\ [Next]_vars => HandlerInv'
<1> SUFFICES ASSUME HandlerInv, [Next]_vars PROVE HandlerInv'
  OBVIOUS
<1>1. \A w \in Workers : w \in Processes
  BY AssessmentAssumption
<1>2. extracted \subseteq Docs
  BY DEF HandlerInv, HandlerTypes
<1>3. ASSUME NEW d \in Docs, Extract(d) PROVE HandlerInv'
  BY <1>2, <1>3, QuietStep DEF Extract
<1>4. ASSUME NEW w \in Workers, Work(w) PROVE HandlerInv'
  <2>1. ASSUME NEW d \in Docs, Begin(w, d) PROVE HandlerInv'
    BY <2>1, BeginStep
  <2>2. ASSUME NEW named, ModelAnswers(w, named) PROVE HandlerInv'
    BY <2>2, AnswerStep
  <2> QED BY <1>4, <2>1, <2>2, ReadStep, BookStep, SearchStep, CommitStep DEF Work
<1>5. ASSUME NEW w \in Workers, ModelFails(w) PROVE HandlerInv'
  BY <1>5, FailStep
<1>6. CASE Seed
  BY <1>6, SeedingStep, CommitSeedStep DEF Seed
<1>7. ASSUME NEW p \in Processes, Embed(p) PROVE HandlerInv'
  BY <1>2, <1>7, QuietStep DEF Embed, tables
<1>8. ASSUME NEW p \in Processes, Raise(p) PROVE HandlerInv'
  <2>1. Turn(p, Idle)
    BY <1>8 DEF Raise, Turn, tables
  <2> QED BY <1>8, <2>1, EndStep
<1>9. CASE UNCHANGED vars
  BY <1>2, <1>9, QuietStep DEF vars
<1> QED BY <1>3, <1>4, <1>5, <1>6, <1>7, <1>8, <1>9 DEF Next

LEMMA InitHandler == Init => HandlerInv
<1> SUFFICES ASSUME Init PROVE HandlerInv
  OBVIOUS
<1>1. Workers \subseteq Processes /\ Seeder \in Processes
  BY AssessmentAssumption
<1>2. /\ indexed = {} /\ extracted = {} /\ assessments = {}
      /\ work = [p \in Processes |-> Idle]
  BY DEF Init
<1>3. \A p \in Processes : work[p] = Idle
  BY <1>2
<1>4. HandlerTypes
  <2>1. work \in [Processes -> Handlers]
    BY <1>2, IdleIs
  <2>2. \A t \in Times : t = 0
    BY <1>2, <1>3, IdleIs DEF Times
  <2>3. Bounded(Times)
    BY <2>2 DEF Bounded
  <2> QED BY <1>2, <2>1, <2>3 DEF HandlerTypes
<1>5. SeenInv
  <2>1. Started = {} /\ Informed = {}
    BY <1>1, <1>2, <1>3, IdleIs DEF Started, Informed
  <2> QED BY <2>1 DEF SeenInv
<1>6. EvidenceInv
  BY <1>1, <1>2, <1>3, IdleIs DEF EvidenceInv
<1> QED BY <1>4, <1>5, <1>6 DEF HandlerInv

-----------------------------------------------------------------------------
(***************************************************************************)
(* The cache                                                               *)
(***************************************************************************)
LEMMA MinIsMember ==
  ASSUME NEW S \in SUBSET Nat, S # {}
  PROVE  Min(S) \in S
<1>1. PICK m \in S : \A n \in S : ~(<<n, m>> \in OpToRel(<, Nat))
  BY NatLessThanWellFounded, WFMin
<1>2. ASSUME NEW n \in S PROVE m <= n
  <2>1. SUFFICES ASSUME n < m PROVE FALSE
    OBVIOUS
  <2>2. <<n, m>> \in OpToRel(<, Nat)
    BY <2>1 DEF OpToRel
  <2> QED BY <1>1, <2>2
<1> QED BY <1>2 DEF Min

Whole(e) ==
  e \in Embedding /\ e.missing \subseteq DOMAIN e.list /\ e.fresh \subseteq DOMAIN e.list

\* What of its list is not in the cache the transaction has or has to do.
Accounted(e) ==
  \A i \in DOMAIN e.list :
    e.list[i] \in cache \cup e.own \/ i \in e.missing \cup e.fresh

Loaded(e) == e.list = Queries /\ Accounted(e)

\* A process in a stage may have its embedding in state e.
Fits(p, stage, e) ==
  /\ Whole(e)
  /\ stage # "embed" => e.missing = {} /\ e.fresh = {}
  /\ e.own \cap cache = {}
  /\ \A q \in Processes \ {p} : e.own \cap emb[q].own = {}
  /\ p \in Workers /\ stage \notin {"idle", "begun"} => Loaded(e)

EmbInv ==
  /\ cache \subseteq Texts
  /\ emb \in [Processes -> Embedding]
  /\ \A p \in Processes : Fits(p, work[p].stage, emb[p])
  /\ ledger # {} => Asked \subseteq cache

LEMMA NothingFits ==
  ASSUME NEW p, NEW stage \in {"idle", "begun"}
  PROVE  /\ Fits(p, stage, NoEmbedding) /\ NoEmbedding \in Embedding
         /\ NoEmbedding.own = {}
<1>1. << >> \in Seq(Texts) /\ 1 \in 1..MaxRetries
  BY EmbedderAssumption
<1>2. NoEmbedding \in Embedding
  BY <1>1 DEF NoEmbedding, Embedding
<1>3. /\ NoEmbedding.missing = {} /\ NoEmbedding.fresh = {}
      /\ NoEmbedding.own = {}
  BY DEF NoEmbedding
<1> QED BY <1>2, <1>3 DEF Fits, Whole

\* One process goes on, or its transaction ends without a commit.
LEMMA EmbTurn ==
  ASSUME EmbInv, HandlerTypes, NEW p \in Processes, NEW y, NEW e,
         work' = [work EXCEPT ![p] = y], emb' = [emb EXCEPT ![p] = e],
         cache' = cache, ledger' = ledger, Fits(p, y.stage, e)
  PROVE  EmbInv'
<1>1. work'[p] = y /\ \A q \in Processes \ {p} : work'[q] = work[q]
  BY DEF HandlerTypes
<1>2. emb'[p] = e /\ \A q \in Processes \ {p} : emb'[q] = emb[q]
  BY DEF EmbInv
<1>3. e \in Embedding
  BY DEF Fits, Whole
<1>4. emb' \in [Processes -> Embedding]
  BY <1>3 DEF EmbInv
<1>5. ASSUME NEW q \in Processes PROVE Fits(q, work[q].stage, emb[q])'
  <2>1. \A z : Loaded(z)' = Loaded(z)
    BY DEF Loaded, Accounted
  <2>2. CASE q = p
    <3>1. \A r \in Processes \ {p} : e.own \cap emb'[r].own = {}
      BY <1>2 DEF Fits
    <3> QED BY <1>1, <1>2, <2>1, <2>2, <3>1 DEF Fits
  <2>3. CASE q # p
    <3>1. Fits(q, work[q].stage, emb[q])
      BY DEF EmbInv
    <3>2. e.own \cap emb[q].own = {}
      BY <2>3 DEF Fits
    <3>3. \A r \in Processes \ {q} : emb[q].own \cap emb'[r].own = {}
      BY <1>2, <3>1, <3>2 DEF Fits
    <3> QED BY <1>1, <1>2, <2>1, <2>3, <3>1, <3>3 DEF Fits
  <2> QED BY <2>2, <2>3
<1> QED BY <1>4, <1>5 DEF EmbInv

\* A transaction ends with a commit.
LEMMA EmbCommit ==
  ASSUME EmbInv, HandlerTypes, NEW p \in Processes,
         work' = [work EXCEPT ![p] = Idle], EndEmbedding(p, TRUE),
         ledger' = ledger \/ (p \in Workers /\ work[p].stage \in {"assessed", "failed"})
  PROVE  EmbInv'
<1>1. work'[p] = Idle /\ \A q \in Processes \ {p} : work'[q] = work[q]
  BY DEF HandlerTypes
<1>2. emb' = [emb EXCEPT ![p] = NoEmbedding]
  BY DEF EndEmbedding
<1>3. emb'[p] = NoEmbedding /\ \A q \in Processes \ {p} : emb'[q] = emb[q]
  BY <1>2 DEF EmbInv
<1>4. Fits(p, "idle", NoEmbedding) /\ NoEmbedding \in Embedding
      /\ NoEmbedding.own = {}
  BY NothingFits
<1>5. PICK own : own = emb[p].own
  OBVIOUS
<1>6. cache' = cache \cup own
  BY <1>5 DEF EndEmbedding
<1>7. Fits(p, work[p].stage, emb[p]) /\ own \subseteq Texts
  BY <1>5 DEF EmbInv, Embedding
<1>8. cache' \subseteq Texts /\ emb' \in [Processes -> Embedding]
  BY <1>2, <1>4, <1>6, <1>7 DEF EmbInv
<1>9. ASSUME NEW q \in Processes PROVE Fits(q, work[q].stage, emb[q])'
  <2>1. CASE q = p
    BY <1>1, <1>3, <1>4, <2>1, IdleIs DEF Fits
  <2>2. CASE q # p
    <3>1. Fits(q, work[q].stage, emb[q])
      BY DEF EmbInv
    <3>2. emb[q].own \cap cache' = {}
      BY <1>5, <1>6, <2>2, <3>1 DEF Fits
    <3>3. \A r \in Processes \ {q} : emb[q].own \cap emb'[r].own = {}
      BY <1>3, <1>4, <3>1 DEF Fits
    <3>4. PICK z : z = emb[q]
      OBVIOUS
    <3>5. Loaded(z) => Loaded(z)'
      BY <1>6 DEF Loaded, Accounted
    <3> QED BY <1>1, <1>3, <2>2, <3>1, <3>2, <3>3, <3>4, <3>5 DEF Fits
  <2> QED BY <2>1, <2>2
<1>10. ledger' # {} => Asked \subseteq cache'
  <2>1. CASE ledger' = ledger
    BY <1>6, <2>1 DEF EmbInv
  <2>2. CASE p \in Workers /\ work[p].stage \in {"assessed", "failed"}
    <3>1. Loaded(emb[p]) /\ emb[p].missing = {} /\ emb[p].fresh = {}
      BY <1>7, <2>2 DEF Fits
    <3>2. \A i \in DOMAIN Queries : Queries[i] \in cache \cup own
      BY <1>5, <3>1 DEF Loaded, Accounted
    <3> QED BY <1>6, <3>2 DEF Asked
  <2> QED BY <2>1, <2>2
<1> QED BY <1>8, <1>9, <1>10 DEF EmbInv

-----------------------------------------------------------------------------
(***************************************************************************)
(* What a step does to the stage and the document of a process             *)
(***************************************************************************)
Moves(p, stage, doc) ==
  \E y : work' = [work EXCEPT ![p] = y] /\ y.stage = stage /\ y.doc = doc

GoesTo(p, stage) == Moves(p, stage, work[p].doc)

LEMMA HandlerMoves ==
  ASSUME HandlerTypes, NEW w \in Workers
  PROVE  /\ \A d \in Docs : Begin(w, d) => Moves(w, "begun", d)
         /\ Read(w) => GoesTo(w, "embed")
         /\ BookEmbedding(w) => GoesTo(w, "search")
         /\ SearchNext(w) => GoesTo(w, "search") \/ GoesTo(w, "assess")
         /\ \A named : ModelAnswers(w, named) => GoesTo(w, "assessed")
<1>1. w \in Processes
  BY AssessmentAssumption
<1>2. PICK x : x = work[w] /\ x \in Handlers
  BY <1>1 DEF HandlerTypes
<1>3. ASSUME NEW d \in Docs, Begin(w, d) PROVE Moves(w, "begun", d)
  <2>1. PICK n : n = Now
    OBVIOUS
  <2>2. PICK y : y = [x EXCEPT !.stage = "begun", !.doc = d, !.at = n]
    OBVIOUS
  <2>3. y.stage = "begun" /\ y.doc = d
    BY <1>2, <2>2 DEF Handlers
  <2>4. work' = [work EXCEPT ![w] = y]
    BY <1>2, <1>3, <2>1, <2>2 DEF Begin
  <2> QED BY <2>3, <2>4 DEF Moves
<1>4. ASSUME Read(w) PROVE GoesTo(w, "embed")
  <2>1. PICK y : y = [x EXCEPT !.stage = "embed", !.saw = extracted]
    OBVIOUS
  <2>2. y.stage = "embed" /\ y.doc = x.doc
    BY <1>2, <2>1 DEF Handlers
  <2>3. work' = [work EXCEPT ![w] = y]
    BY <1>2, <1>4, <2>1 DEF Read
  <2> QED BY <1>2, <2>2, <2>3 DEF GoesTo, Moves
<1>5. ASSUME BookEmbedding(w) PROVE GoesTo(w, "search")
  <2>1. PICK y : y = [x EXCEPT !.stage = "search", !.rows = indexed]
    OBVIOUS
  <2>2. y.stage = "search" /\ y.doc = x.doc
    BY <1>2, <2>1 DEF Handlers
  <2>3. work' = [work EXCEPT ![w] = y]
    BY <1>2, <1>5, <2>1 DEF BookEmbedding
  <2> QED BY <1>2, <2>2, <2>3 DEF GoesTo, Moves
<1>6. ASSUME SearchNext(w) PROVE GoesTo(w, "search") \/ GoesTo(w, "assess")
  <2>1. PICK e, n : /\ n = x.asked + 1
                    /\ e = Merged(Queries[n], Search(Queries[n], indexed), x.evidence)
    OBVIOUS
  <2>2. PICK s : s = IF n = Len(Queries) THEN "assess" ELSE "search"
    OBVIOUS
  <2>3. PICK y : y = [x EXCEPT !.asked = n, !.evidence = e, !.stage = s]
    OBVIOUS
  <2>4. y.stage = s /\ y.doc = x.doc
    BY <1>2, <2>3 DEF Handlers
  <2>5. x.stage = "search"
    BY <1>2, <1>6 DEF SearchNext
  <2>6. work' = [work EXCEPT ![w] = y]
    BY <1>2, <1>6, <2>1, <2>2, <2>3, <2>5 DEF SearchNext
  <2> QED BY <1>2, <2>2, <2>4, <2>6 DEF GoesTo, Moves
<1>7. ASSUME NEW named, ModelAnswers(w, named) PROVE GoesTo(w, "assessed")
  <2>1. PICK c : c = Supplied(w, named)
    OBVIOUS
  <2>2. PICK y : y = [x EXCEPT !.stage = "assessed", !.cited = c]
    OBVIOUS
  <2>3. y.stage = "assessed" /\ y.doc = x.doc
    BY <1>2, <2>2 DEF Handlers
  <2>4. work' = [work EXCEPT ![w] = y]
    BY <1>2, <1>7, <2>1, <2>2 DEF ModelAnswers
  <2> QED BY <1>2, <2>3, <2>4 DEF GoesTo, Moves
<1> QED BY <1>3, <1>4, <1>5, <1>6, <1>7

LEMMA GotoMoves ==
  ASSUME HandlerTypes, NEW p \in Processes, NEW s, Goto(p, s)
  PROVE  GoesTo(p, s)
<1>1. PICK x : x = work[p] /\ x \in Handlers
  BY DEF HandlerTypes
<1>2. PICK y : y = [x EXCEPT !.stage = s]
  OBVIOUS
<1>3. y.stage = s /\ y.doc = x.doc
  BY <1>1, <1>2 DEF Handlers
<1>4. work' = [work EXCEPT ![p] = y]
  BY <1>1, <1>2 DEF Goto
<1> QED BY <1>1, <1>3, <1>4 DEF GoesTo, Moves

LEMMA SeederMoves ==
  ASSUME HandlerTypes
  PROVE  /\ BeginSeed => GoesTo(Seeder, "begun")
         /\ SeedFile => GoesTo(Seeder, "embed")
         /\ IndexFile => GoesTo(Seeder, "begun")
<1>1. Seeder \in Processes
  BY AssessmentAssumption
<1>2. BeginSeed => GoesTo(Seeder, "begun")
  BY <1>1, GotoMoves DEF BeginSeed
<1>3. SeedFile => GoesTo(Seeder, "embed")
  BY <1>1, GotoMoves DEF SeedFile
<1>4. ASSUME IndexFile PROVE GoesTo(Seeder, "begun")
  <2>1. PICK x : x = work[Seeder] /\ x \in Handlers
    BY <1>1 DEF HandlerTypes
  <2>2. PICK n : n = x.filed + 1
    OBVIOUS
  <2>3. PICK y : y = [x EXCEPT !.stage = "begun", !.filed = n]
    OBVIOUS
  <2>4. y.stage = "begun" /\ y.doc = x.doc
    BY <2>1, <2>3 DEF Handlers
  <2>5. work' = [work EXCEPT ![Seeder] = y]
    BY <1>4, <2>1, <2>2, <2>3 DEF IndexFile
  <2> QED BY <2>1, <2>4, <2>5 DEF GoesTo, Moves
<1> QED BY <1>2, <1>3, <1>4

-----------------------------------------------------------------------------
(***************************************************************************)
(* The steps of the embeddings                                             *)
(***************************************************************************)
LEMMA EmbeddingOf ==
  ASSUME EmbInv, NEW p \in Processes
  PROVE  Fits(p, work[p].stage, emb[p]) /\ emb[p] \in Embedding
BY DEF EmbInv

\* Work goes on and the embedding stays.
LEMMA EmbStay ==
  ASSUME EmbInv, HandlerTypes, NEW p \in Processes, NEW s, GoesTo(p, s),
         UNCHANGED <<cache, emb, ledger>>, Fits(p, s, emb[p])
  PROVE  EmbInv'
<1>1. PICK y : work' = [work EXCEPT ![p] = y] /\ y.stage = s
  BY DEF GoesTo, Moves
<1>2. emb' = [emb EXCEPT ![p] = emb[p]]
  BY DEF EmbInv
<1> QED BY <1>1, <1>2, EmbTurn

LEMMA EmbSame ==
  ASSUME EmbInv, UNCHANGED <<cache, emb, ledger, work>>
  PROVE  EmbInv'
<1>1. \A z : Loaded(z)' = Loaded(z)
  BY DEF Loaded, Accounted
<1>2. ASSUME NEW p \in Processes PROVE Fits(p, work[p].stage, emb[p])'
  BY <1>1 DEF EmbInv, Fits
<1> QED BY <1>2 DEF EmbInv

\* The embedding goes on in the stage it is in.
LEMMA EmbGoesOn ==
  ASSUME EmbInv, HandlerTypes, NEW p \in Processes, NEW e,
         emb' = [emb EXCEPT ![p] = e], UNCHANGED <<cache, ledger, work>>,
         Fits(p, work[p].stage, e)
  PROVE  EmbInv'
<1>1. work' = [work EXCEPT ![p] = work[p]]
  BY DEF HandlerTypes
<1> QED BY <1>1, EmbTurn

LEMMA LoadStep ==
  ASSUME EmbInv, HandlerTypes, NEW p \in Processes, work[p].stage = "begun",
         GoesTo(p, "embed"), NEW texts \in Seq(Texts), NEW wanted,
         LoadCached(p, texts, wanted), UNCHANGED <<cache, ledger>>,
         p \in Workers => texts = Queries /\ wanted = Texts
  PROVE  EmbInv'
<1>1. PICK x : x = emb[p] /\ x \in Embedding /\ Fits(p, "begun", x)
  BY EmbeddingOf
<1>2. PICK m : m = {i \in DOMAIN texts :
                     texts[i] \in wanted \ (cache \cup emb[p].own)}
  OBVIOUS
<1>3. m \subseteq DOMAIN texts /\ m \in SUBSET Nat
  BY <1>2
<1>4. PICK e : e = [x EXCEPT !.attempt = 1, !.list = texts, !.missing = m]
  OBVIOUS
<1>5. emb' = [emb EXCEPT ![p] = e]
  BY <1>1, <1>2, <1>4 DEF LoadCached, Unique
<1>6. 1 \in 1..MaxRetries
  BY EmbedderAssumption
<1>7. /\ e \in Embedding
      /\ e.list = texts /\ e.missing = m /\ e.fresh = x.fresh /\ e.own = x.own
  BY <1>1, <1>3, <1>4, <1>6 DEF Embedding
<1>8. x.fresh = {} /\ x.own \cap cache = {}
      /\ \A q \in Processes \ {p} : x.own \cap emb[q].own = {}
  BY <1>1 DEF Fits
<1>9. Whole(e)
  BY <1>3, <1>7, <1>8 DEF Whole
<1>10. ASSUME p \in Workers PROVE Loaded(e)
  <2>1. \A i \in DOMAIN texts : texts[i] \in Texts
    OBVIOUS
  <2> QED BY <1>1, <1>2, <1>7, <1>10, <2>1 DEF Loaded, Accounted
<1>11. Fits(p, "embed", e)
  BY <1>7, <1>8, <1>9, <1>10 DEF Fits
<1>12. PICK y : work' = [work EXCEPT ![p] = y] /\ y.stage = "embed"
  BY DEF GoesTo, Moves
<1> QED BY <1>5, <1>11, <1>12, EmbTurn

LEMMA BatchStep ==
  ASSUME EmbInv, HandlerTypes, NEW p \in Processes, work[p].stage = "embed",
         EmbedBatch(p), UNCHANGED <<ledger, work>>
  PROVE  EmbInv'
<1>1. PICK x : x = emb[p] /\ x \in Embedding /\ Fits(p, "embed", x)
  BY EmbeddingOf
<1>2. PICK b : b = First(BatchSize, x.missing)
  OBVIOUS
<1>3. PICK m : m = x.missing \ b
  OBVIOUS
<1>4. PICK e : e = [x EXCEPT !.fresh = b, !.missing = m, !.attempt = 1]
  OBVIOUS
<1>5. emb' = [emb EXCEPT ![p] = e] /\ cache' = cache /\ x.fresh = {}
  BY <1>1, <1>2, <1>3, <1>4 DEF EmbedBatch
<1>6. b \subseteq x.missing /\ b \cup m = x.missing
  BY <1>2, <1>3 DEF First
<1>7. x.missing \in SUBSET Nat /\ 1 \in 1..MaxRetries
  BY <1>1, EmbedderAssumption DEF Embedding
<1>8. b \in SUBSET Nat /\ m \in SUBSET Nat
  BY <1>6, <1>7
<1>9. /\ e \in Embedding
      /\ e.list = x.list /\ e.missing = m /\ e.fresh = b /\ e.own = x.own
  BY <1>1, <1>4, <1>7, <1>8 DEF Embedding
<1>10. Whole(e)
  BY <1>1, <1>6, <1>9 DEF Whole, Fits
<1>11. Loaded(x) => Loaded(e)
  BY <1>5, <1>6, <1>9 DEF Loaded, Accounted
<1>12. Fits(p, "embed", e)
  BY <1>1, <1>9, <1>10, <1>11 DEF Fits
<1> QED BY <1>5, <1>12, EmbGoesOn

\* Only the count of attempts changes.
LEMMA RetryStep ==
  ASSUME EmbInv, HandlerTypes, NEW p \in Processes,
         emb[p].attempt < MaxRetries,
         emb' = [emb EXCEPT ![p].attempt = @ + 1], UNCHANGED <<cache, ledger, work>>
  PROVE  EmbInv'
<1>1. PICK x : x = emb[p] /\ x \in Embedding /\ Fits(p, work[p].stage, x)
  BY EmbeddingOf
<1>2. PICK n : n = x.attempt + 1
  OBVIOUS
<1>3. n \in 1..MaxRetries
  BY <1>1, <1>2, EmbedderAssumption DEF Embedding
<1>4. PICK e : e = [x EXCEPT !.attempt = n]
  OBVIOUS
<1>5. emb' = [emb EXCEPT ![p] = e]
  BY <1>1, <1>2, <1>4
<1>6. /\ e \in Embedding
      /\ e.list = x.list /\ e.missing = x.missing /\ e.fresh = x.fresh
      /\ e.own = x.own
  BY <1>1, <1>3, <1>4 DEF Embedding
<1>7. Whole(e) /\ (Loaded(x) => Loaded(e))
  BY <1>1, <1>6 DEF Whole, Fits, Loaded, Accounted
<1>8. Fits(p, work[p].stage, e)
  BY <1>1, <1>6, <1>7 DEF Fits
<1> QED BY <1>5, <1>8, EmbGoesOn

\* A key is inserted that nobody has in hand, or found in the cache.
LEMMA InsertStep ==
  ASSUME EmbInv, HandlerTypes, NEW p \in Processes, work[p].stage = "embed",
         InsertCached(p), UNCHANGED <<ledger, work>>
  PROVE  EmbInv'
<1>1. PICK x : x = emb[p] /\ x \in Embedding /\ Fits(p, "embed", x)
  BY EmbeddingOf
<1>2. PICK i, t : i = NextPlace(p) /\ t = NextText(p)
  OBVIOUS
<1>3. x.fresh # {} /\ ~InFlight(t)
  BY <1>1, <1>2 DEF InsertCached
<1>4. x.fresh \in SUBSET Nat /\ x.own \in SUBSET Texts /\ x.list \in Seq(Texts)
  BY <1>1 DEF Embedding
<1>5. i \in x.fresh
  BY <1>1, <1>2, <1>3, <1>4, MinIsMember DEF NextPlace
<1>6. i \in DOMAIN x.list /\ t = x.list[i]
  BY <1>1, <1>2, <1>5 DEF NextText, Fits, Whole
<1>7. t \in Texts
  BY <1>4, <1>6
<1>8. PICK f : f = x.fresh \ {i}
  OBVIOUS
<1>9. PICK o : o = x.own \cup ({t} \ cache)
  OBVIOUS
<1>10. PICK e : e = [x EXCEPT !.fresh = f, !.own = o]
  OBVIOUS
<1>11. emb' = [emb EXCEPT ![p] = e] /\ cache' = cache
  BY <1>1, <1>2, <1>8, <1>9, <1>10 DEF InsertCached
<1>12. f \in SUBSET Nat /\ o \in SUBSET Texts
  BY <1>4, <1>7, <1>8, <1>9
<1>13. /\ e \in Embedding
       /\ e.list = x.list /\ e.missing = x.missing /\ e.fresh = f /\ e.own = o
  BY <1>1, <1>10, <1>12 DEF Embedding
<1>14. Whole(e)
  BY <1>1, <1>8, <1>13 DEF Whole, Fits
<1>15. o \cap cache = {}
  BY <1>1, <1>9 DEF Fits
<1>16. \A q \in Processes \ {p} : o \cap emb[q].own = {}
  BY <1>1, <1>3, <1>9 DEF Fits, InFlight
<1>17. Loaded(x) => Loaded(e)
  BY <1>6, <1>8, <1>9, <1>13 DEF Loaded, Accounted
<1>18. Fits(p, "embed", e)
  BY <1>1, <1>13, <1>14, <1>15, <1>16, <1>17 DEF Fits
<1> QED BY <1>11, <1>18, EmbGoesOn

LEMMA NextEmb == EmbInv /\ HandlerTypes /\ [Next]_vars => EmbInv'
<1> SUFFICES ASSUME EmbInv, HandlerTypes, [Next]_vars PROVE EmbInv'
  OBVIOUS
<1>1. /\ \A w \in Workers : w \in Processes /\ w # Seeder
      /\ Seeder \in Processes /\ Seeder \notin Workers
  BY AssessmentAssumption
<1>2. \A p \in Processes : Fits(p, work[p].stage, emb[p])
  BY DEF EmbInv
<1>3. ASSUME NEW d \in Docs, Extract(d) PROVE EmbInv'
  BY <1>3, EmbSame DEF Extract, embedVars
<1>4. ASSUME NEW w \in Workers, Work(w) PROVE EmbInv'
  <2>1. ASSUME NEW d \in Docs, Begin(w, d) PROVE EmbInv'
    <3>1. PICK y : work' = [work EXCEPT ![w] = y] /\ y.stage = "begun"
      BY <2>1, HandlerMoves DEF Moves
    <3>2. Fits(w, "begun", emb[w])
      BY <1>1, <1>2, <2>1 DEF Fits, Begin
    <3>3. emb' = [emb EXCEPT ![w] = emb[w]]
      BY <2>1 DEF EmbInv, Begin, embedVars
    <3>4. cache' = cache /\ ledger' = ledger
      BY <2>1 DEF Begin, embedVars, tables
    <3>5. Fits(w, y.stage, emb[w])
      BY <3>1, <3>2
    <3> QED BY <1>1, <3>1, <3>3, <3>4, <3>5, EmbTurn
  <2>2. CASE Read(w)
    <3>1. Queries \in Seq(Texts)
      BY AssessmentAssumption
    <3>2. GoesTo(w, "embed")
      BY <2>2, HandlerMoves
    <3> QED BY <1>1, <2>2, <3>1, <3>2, LoadStep DEF Read, tables
  <2>3. CASE BookEmbedding(w)
    <3>1. Fits(w, "search", emb[w])
      BY <1>1, <1>2, <2>3 DEF Fits, BookEmbedding, Embedded
    <3> QED BY <1>1, <2>3, <3>1, EmbStay, HandlerMoves DEF BookEmbedding, tables
  <2>4. CASE SearchNext(w)
    <3>1. Fits(w, "search", emb[w]) /\ Fits(w, "assess", emb[w])
      BY <1>1, <1>2, <2>4 DEF Fits, SearchNext
    <3> QED BY <1>1, <2>4, <3>1, EmbStay, HandlerMoves DEF SearchNext, embedVars, tables
  <2>5. ASSUME NEW named, ModelAnswers(w, named) PROVE EmbInv'
    <3>1. Fits(w, "assessed", emb[w])
      BY <1>1, <1>2, <2>5 DEF Fits, ModelAnswers
    <3> QED BY <1>1, <2>5, <3>1, EmbStay, HandlerMoves DEF ModelAnswers, tables
  <2>6. CASE Commit(w)
    BY <1>1, <2>6, EmbCommit DEF Commit
  <2> QED BY <1>4, <2>1, <2>2, <2>3, <2>4, <2>5, <2>6 DEF Work
<1>5. ASSUME NEW w \in Workers, ModelFails(w) PROVE EmbInv'
  <2>1. CASE /\ emb[w].attempt < MaxRetries
             /\ emb' = [emb EXCEPT ![w].attempt = @ + 1]
             /\ UNCHANGED work
    BY <1>1, <1>5, <2>1, RetryStep DEF ModelFails, tables
  <2>2. CASE Goto(w, "failed") /\ UNCHANGED emb
    <3>1. Fits(w, "failed", emb[w])
      BY <1>1, <1>2, <1>5 DEF Fits, ModelFails
    <3> QED BY <1>1, <1>5, <2>2, <3>1, EmbStay, GotoMoves DEF ModelFails, tables
  <2> QED BY <1>5, <2>1, <2>2 DEF ModelFails
<1>6. CASE Seed
  <2>1. CASE BeginSeed
    <3>1. Fits(Seeder, "begun", emb[Seeder])
      BY <1>1, <1>2, <2>1 DEF Fits, BeginSeed
    <3> QED BY <1>1, <2>1, <3>1, EmbStay, SeederMoves DEF BeginSeed, embedVars, tables
  <2>2. CASE SeedFile
    <3>1. PICK n : n = work[Seeder].filed + 1
      OBVIOUS
    <3>2. work[Seeder].filed \in Nat
      BY <1>1 DEF HandlerTypes, Handlers
    <3>3. n \in 1..Len(Files)
      BY <2>2, <3>1, <3>2, AssessmentAssumption DEF SeedFile
    <3>4. Files[n] \in Seq(Rows)
      BY <3>3, AssessmentAssumption
    <3>5. Rows \subseteq Texts
      BY AssessmentAssumption
    <3>6. PICK file : file = Files[n] /\ file \in Seq(Texts)
      BY <3>4, <3>5
    <3>7. LoadCached(Seeder, file, Rows \ indexed) /\ work[Seeder].stage = "begun"
      BY <2>2, <3>1, <3>6 DEF SeedFile
    <3>8. GoesTo(Seeder, "embed") /\ UNCHANGED <<cache, ledger>>
      BY <2>2, SeederMoves DEF SeedFile, tables
    <3> QED BY <1>1, <3>6, <3>7, <3>8, LoadStep
  <2>3. CASE IndexFile
    <3>1. Fits(Seeder, "begun", emb[Seeder])
      BY <1>1, <1>2, <2>3 DEF Fits, IndexFile, Embedded
    <3> QED BY <1>1, <2>3, <3>1, EmbStay, SeederMoves DEF IndexFile, tables
  <2>4. CASE CommitSeed
    BY <1>1, <2>4, EmbCommit DEF CommitSeed
  <2> QED BY <1>6, <2>1, <2>2, <2>3, <2>4 DEF Seed
<1>7. ASSUME NEW p \in Processes, Embed(p) PROVE EmbInv'
  <2>1. work[p].stage = "embed" /\ UNCHANGED <<ledger, work>>
    BY <1>7 DEF Embed, tables
  <2> QED BY <1>7, <2>1, BatchStep, RetryStep, InsertStep DEF Embed, RetryBatch
<1>8. ASSUME NEW p \in Processes, Raise(p) PROVE EmbInv'
  <2>1. Fits(p, Idle.stage, NoEmbedding)
    BY NothingFits, IdleIs
  <2> QED BY <1>8, <2>1, EmbTurn DEF Raise, EndEmbedding, tables
<1>9. CASE UNCHANGED vars
  BY <1>9, EmbSame DEF vars, embedVars
<1> QED BY <1>3, <1>4, <1>5, <1>6, <1>7, <1>8, <1>9 DEF Next

LEMMA InitEmb == Init => EmbInv
<1> SUFFICES ASSUME Init PROVE EmbInv
  OBVIOUS
<1>1. /\ cache = {} /\ ledger = {} /\ emb = [p \in Processes |-> NoEmbedding]
      /\ \A p \in Processes : work[p].stage = "idle"
  BY IdleIs DEF Init, EmbedderInit
<1>2. \A p \in Processes : Fits(p, "idle", NoEmbedding)
  BY NothingFits
<1>3. NoEmbedding \in Embedding
  BY NothingFits
<1> QED BY <1>1, <1>2, <1>3 DEF EmbInv

\* What one committed assessment paid for is in the cache for good, whatever
\* was rolled back while it waited for the keys of others.
THEOREM CacheStays == Spec => []CacheKept
<1>1. Init => HandlerInv /\ EmbInv
  BY InitHandler, InitEmb
<1>2. HandlerInv /\ EmbInv /\ [Next]_vars => (HandlerInv /\ EmbInv)'
  BY NextHandler, NextEmb DEF HandlerInv
<1>3. EmbInv => CacheKept
  BY DEF EmbInv, CacheKept, Asked
<1> QED BY <1>1, <1>2, <1>3, PTL DEF Spec

-----------------------------------------------------------------------------
(***************************************************************************)
(* The money                                                               *)
(***************************************************************************)
Accounts == [charged : Nat, counted : Nat, booked : Nat]

Balanced(account) == account.charged = account.counted + account.booked

MoneyInv ==
  /\ money \in [Processes -> Accounts]
  /\ \A p \in Processes : Balanced(money[p])

LEMMA AnsweredSteps ==
  ASSUME NEW x \in Accounts, Balanced(x), NEW n \in Nat,
         NEW y, y = [x EXCEPT !.charged = x.charged + n, !.counted = x.counted + n]
  PROVE  y \in Accounts /\ Balanced(y)
<1>1. x.charged \in Nat /\ x.counted \in Nat /\ x.booked \in Nat
  BY DEF Accounts
<1> DEFINE c == x.charged + n
<1> DEFINE k == x.counted + n
<1>2. y \in Accounts
  <2>1. c \in Nat /\ k \in Nat
    BY <1>1
  <2>2. y = [x EXCEPT !.charged = c, !.counted = k]
    OBVIOUS
  <2> HIDE DEF c, k
  <2> QED BY <2>1, <2>2 DEF Accounts
<1>3. /\ y.charged = x.charged + n /\ y.counted = x.counted + n
      /\ y.booked = x.booked
  BY DEF Accounts
<1>4. x.charged = x.counted + x.booked
  BY DEF Balanced
<1>5. y.charged = y.counted + y.booked
  BY <1>1, <1>3, <1>4
<1> QED BY <1>2, <1>5 DEF Balanced

LEMMA BookedSteps ==
  ASSUME NEW x \in Accounts, Balanced(x),
         NEW y, y = [x EXCEPT !.booked = x.booked + x.counted, !.counted = 0]
  PROVE  y \in Accounts /\ Balanced(y)
<1>1. x.charged \in Nat /\ x.counted \in Nat /\ x.booked \in Nat
  BY DEF Accounts
<1> DEFINE c == 0
<1> DEFINE k == x.booked + x.counted
<1>2. y \in Accounts
  <2>1. c \in Nat /\ k \in Nat
    BY <1>1
  <2>2. y = [x EXCEPT !.booked = k, !.counted = c]
    OBVIOUS
  <2> HIDE DEF c, k
  <2> QED BY <2>1, <2>2 DEF Accounts
<1>3. /\ y.charged = x.charged /\ y.counted = 0
      /\ y.booked = x.booked + x.counted
  BY DEF Accounts
<1>4. x.charged = x.counted + x.booked
  BY DEF Balanced
<1>5. y.charged = y.counted + y.booked
  BY <1>1, <1>3, <1>4
<1> QED BY <1>2, <1>5 DEF Balanced

LEMMA MoneyStep ==
  ASSUME MoneyInv, NEW p \in Processes, NEW y \in Accounts, Balanced(y),
         money' = [money EXCEPT ![p] = y]
  PROVE  MoneyInv'
BY DEF MoneyInv

LEMMA AnsweredKeeps ==
  ASSUME MoneyInv, NEW p \in Processes, NEW n \in Nat, money' = Answered(p, n)
  PROVE  MoneyInv'
<1> DEFINE x == money[p]
<1>1. x \in Accounts /\ Balanced(x)
  BY DEF MoneyInv
<1>2. money' = [money EXCEPT ![p] =
        [x EXCEPT !.charged = x.charged + n, !.counted = x.counted + n]]
  BY DEF Answered, MoneyInv
<1> HIDE DEF x
<1>3. PICK y : y = [x EXCEPT !.charged = x.charged + n, !.counted = x.counted + n]
  OBVIOUS
<1>4. y \in Accounts /\ Balanced(y)
  BY <1>1, <1>3, AnsweredSteps
<1> QED BY <1>2, <1>3, <1>4, MoneyStep

LEMMA BookedKeeps ==
  ASSUME MoneyInv, NEW p \in Processes, money' = Booked(p)
  PROVE  MoneyInv'
<1> DEFINE x == money[p]
<1>1. x \in Accounts /\ Balanced(x)
  BY DEF MoneyInv
<1>2. money' = [money EXCEPT ![p] =
        [x EXCEPT !.booked = x.booked + x.counted, !.counted = 0]]
  BY DEF Booked, MoneyInv
<1> HIDE DEF x
<1>3. PICK y : y = [x EXCEPT !.booked = x.booked + x.counted, !.counted = 0]
  OBVIOUS
<1>4. y \in Accounts /\ Balanced(y)
  BY <1>1, <1>3, BookedSteps
<1> QED BY <1>2, <1>3, <1>4, MoneyStep

LEMMA EndKeeps ==
  ASSUME MoneyInv, NEW p \in Processes, NEW committed, EndEmbedding(p, committed)
  PROVE  MoneyInv'
<1>1. NothingSpent \in Accounts /\ Balanced(NothingSpent)
  BY DEF NothingSpent, Accounts, Balanced
<1> QED BY <1>1, MoneyStep DEF EndEmbedding

LEMMA NextMoney == MoneyInv /\ EmbInv /\ [Next]_vars => MoneyInv'
<1> SUFFICES ASSUME MoneyInv, EmbInv, [Next]_vars PROVE MoneyInv'
  OBVIOUS
<1>1. ASSUME UNCHANGED money PROVE MoneyInv'
  BY <1>1 DEF MoneyInv
<1>2. \A w \in Workers : w \in Processes
  BY AssessmentAssumption
<1>3. Seeder \in Processes
  BY AssessmentAssumption
<1>4. ASSUME NEW d \in Docs, Extract(d) PROVE MoneyInv'
  BY <1>1, <1>4 DEF Extract, embedVars
<1>5. ASSUME NEW w \in Workers, Work(w) PROVE MoneyInv'
  <2>1. CASE \E d \in Docs : Begin(w, d)
    BY <1>1, <2>1 DEF Begin, embedVars
  <2>2. CASE Read(w)
    BY <1>1, <2>2 DEF Read
  <2>3. CASE BookEmbedding(w)
    BY <1>2, <2>3, BookedKeeps DEF BookEmbedding
  <2>4. CASE SearchNext(w)
    BY <1>1, <2>4 DEF SearchNext, embedVars
  <2>5. CASE \E named \in SUBSET (Rows \cup {Forged}) : ModelAnswers(w, named)
    BY <1>2, <2>5, AnsweredKeeps DEF ModelAnswers, CountAnswer
  <2>6. CASE Commit(w)
    BY <1>2, <2>6, EndKeeps DEF Commit
  <2> QED BY <1>5, <2>1, <2>2, <2>3, <2>4, <2>5, <2>6 DEF Work
<1>6. ASSUME NEW w \in Workers, ModelFails(w) PROVE MoneyInv'
  <2>1. money' = Answered(w, 1) \/ money' = money
    BY <1>6 DEF ModelFails, CountAnswer
  <2> QED BY <1>1, <1>2, <2>1, AnsweredKeeps
<1>7. CASE Seed
  <2>1. CASE BeginSeed
    BY <1>1, <2>1 DEF BeginSeed, embedVars
  <2>2. CASE SeedFile
    BY <1>1, <2>2 DEF SeedFile
  <2>3. CASE IndexFile
    BY <1>3, <2>3, BookedKeeps DEF IndexFile
  <2>4. CASE CommitSeed
    BY <1>3, <2>4, EndKeeps DEF CommitSeed
  <2> QED BY <1>7, <2>1, <2>2, <2>3, <2>4 DEF Seed
<1>8. ASSUME NEW p \in Processes, Embed(p) PROVE MoneyInv'
  <2>1. CASE EmbedBatch(p)
    <3>1. emb[p] \in Embedding /\ emb[p].missing \subseteq DOMAIN emb[p].list
      BY DEF EmbInv, Fits, Whole
    <3>2. IsFiniteSet(DOMAIN emb[p].list)
      <4>1. DOMAIN emb[p].list = 1..Len(emb[p].list) /\ Len(emb[p].list) \in Nat
        BY <3>1 DEF Embedding
      <4> QED BY <4>1, FS_Interval
    <3>3. IsFiniteSet(First(BatchSize, emb[p].missing))
      BY <3>1, <3>2, FS_Subset DEF First
    <3>4. Cardinality(First(BatchSize, emb[p].missing)) \in Nat
      BY <3>3, FS_CardinalityType
    <3> QED BY <2>1, <3>4, AnsweredKeeps DEF EmbedBatch
  <2>2. CASE RetryBatch(p)
    BY <1>1, <2>2 DEF RetryBatch
  <2>3. CASE InsertCached(p)
    BY <1>1, <2>3 DEF InsertCached
  <2> QED BY <1>8, <2>1, <2>2, <2>3 DEF Embed
<1>9. ASSUME NEW p \in Processes, Raise(p) PROVE MoneyInv'
  BY <1>9, EndKeeps DEF Raise
<1>10. CASE UNCHANGED vars
  BY <1>1, <1>10 DEF vars, embedVars
<1> QED BY <1>4, <1>5, <1>6, <1>7, <1>8, <1>9, <1>10 DEF Next

LEMMA InitMoney == Init => MoneyInv
<1>1. NothingSpent \in Accounts /\ Balanced(NothingSpent)
  BY DEF NothingSpent, Accounts, Balanced
<1> QED BY <1>1 DEF Init, EmbedderInit, MoneyInv

\* A failed call is not a free call: through retries, invalid answers and
\* failures what was charged to an open transaction is counted or booked.
THEOREM SpendIsCounted == Spec => []SpendCounted
<1>1. MoneyInv => SpendCounted
  BY DEF MoneyInv, SpendCounted, Balanced
<1>2. Init => MoneyInv /\ HandlerInv /\ EmbInv
  BY InitMoney, InitHandler, InitEmb
<1>3. MoneyInv /\ HandlerInv /\ EmbInv /\ [Next]_vars => (MoneyInv /\ HandlerInv /\ EmbInv)'
  BY NextMoney, NextHandler, NextEmb DEF HandlerInv
<1> QED BY <1>1, <1>2, <1>3, PTL DEF Spec

-----------------------------------------------------------------------------
(***************************************************************************)
(* Who handles which document, and types                                   *)
(***************************************************************************)
OutcomesMatch ==
  /\ ledger \subseteq extracted /\ letters \subseteq ledger
  /\ {a.doc : a \in assessments} = ledger \ letters

\* A handler has a document that waits for its outcome, and nobody else has it.
DocumentHeld(w) ==
  /\ work[w].stage = "idle" => work[w].doc = ""
  /\ work[w].stage # "idle" => work[w].doc \in (extracted \ ledger) \ {""}
  /\ \A v \in Workers \ {w} : work[v].doc = work[w].doc => work[w].doc = ""

HandInv ==
  /\ OutcomesMatch
  /\ \A w \in Workers : DocumentHeld(w)
  /\ work[Seeder].doc = ""

\* A process goes on with the document it has.
LEMMA HandStays ==
  ASSUME HandInv, HandlerTypes, NEW p \in Processes, NEW s \in Stages \ {"idle"},
         GoesTo(p, s), p \in Workers => work[p].stage # "idle", UNCHANGED tables
  PROVE  HandInv'
<1>1. Workers \subseteq Processes /\ Seeder \in Processes /\ Seeder \notin Workers
  BY AssessmentAssumption
<1>2. PICK y : work' = [work EXCEPT ![p] = y] /\ y.stage = s /\ y.doc = work[p].doc
  BY DEF GoesTo, Moves
<1>3. /\ \A q \in Processes : work'[q].doc = work[q].doc
      /\ \A q \in Processes \ {p} : work'[q].stage = work[q].stage
      /\ work'[p].stage = s
  BY <1>2 DEF HandlerTypes
<1>4. OutcomesMatch'
  BY DEF HandInv, OutcomesMatch, tables
<1>5. \A w \in Workers : DocumentHeld(w)'
  BY <1>1, <1>3 DEF HandInv, DocumentHeld, tables
<1>6. work'[Seeder].doc = ""
  BY <1>1, <1>3 DEF HandInv
<1> QED BY <1>4, <1>5, <1>6 DEF HandInv

\* A process becomes idle; a document that is recorded was its own.
LEMMA HandEnds ==
  ASSUME HandInv, HandlerTypes, NEW p \in Processes, work' = [work EXCEPT ![p] = Idle],
         ledger \subseteq ledger', ledger' \subseteq ledger \cup {work[p].doc},
         extracted' = extracted, OutcomesMatch'
  PROVE  HandInv'
<1>1. Workers \subseteq Processes /\ Seeder \in Processes /\ Seeder \notin Workers
  BY AssessmentAssumption
<1>2. work'[p] = Idle /\ \A q \in Processes \ {p} : work'[q] = work[q]
  BY DEF HandlerTypes
<1>3. Idle.stage = "idle" /\ Idle.doc = ""
  BY DEF Idle
<1>4. ASSUME NEW w \in Workers PROVE DocumentHeld(w)'
  <2>1. CASE w = p
    BY <1>1, <1>2, <1>3, <2>1 DEF DocumentHeld
  <2>2. CASE w # p
    <3>1. DocumentHeld(w)
      BY DEF HandInv
    <3>2. work[w].stage # "idle" => work[w].doc # work[p].doc
      BY <1>1, <2>2, <3>1, AssessmentAssumption DEF HandInv, DocumentHeld
    <3>3. work[w].stage # "idle" => work[w].doc \notin ledger'
      BY <3>1, <3>2 DEF DocumentHeld
    <3>4. work'[w] = work[w]
      BY <1>1, <1>2, <2>2
    <3>5. \A v \in Workers \ {w} : work'[v].doc = work[w].doc => work[w].doc = ""
      BY <1>1, <1>2, <1>3, <3>1 DEF DocumentHeld
    <3>6. work[w].stage # "idle" => work[w].doc \in (extracted' \ ledger') \ {""}
      BY <3>1, <3>3 DEF DocumentHeld
    <3>7. work[w].stage = "idle" => work[w].doc = ""
      BY <3>1 DEF DocumentHeld
    <3> QED BY <3>4, <3>5, <3>6, <3>7, Zenon DEF DocumentHeld
  <2> QED BY <2>1, <2>2
<1>5. work'[Seeder].doc = ""
  BY <1>1, <1>2, <1>3 DEF HandInv
<1> QED BY <1>4, <1>5 DEF HandInv

LEMMA BeginHand ==
  ASSUME HandInv, HandlerTypes, NEW w \in Workers, NEW d \in Docs, Begin(w, d)
  PROVE  HandInv'
<1>1. Workers \subseteq Processes /\ Seeder \in Processes /\ Seeder \notin Workers
  BY AssessmentAssumption
<1>2. PICK y : work' = [work EXCEPT ![w] = y] /\ y.stage = "begun" /\ y.doc = d
  BY HandlerMoves DEF Moves
<1>3. work'[w] = y /\ \A q \in Processes \ {w} : work'[q] = work[q]
  BY <1>1, <1>2 DEF HandlerTypes
<1>4. /\ d \in extracted /\ d \notin ledger
      /\ \A v \in Workers : work[v].doc # d
      /\ work[w].stage = "idle" /\ UNCHANGED tables
  BY DEF Begin, Handled
<1>5. work[w].doc = ""
  BY <1>4 DEF HandInv, DocumentHeld
<1>6. d # ""
  BY <1>4, <1>5
<1>7. OutcomesMatch'
  BY <1>4 DEF HandInv, OutcomesMatch, tables
<1>8. ASSUME NEW v \in Workers PROVE DocumentHeld(v)'
  <2>1. CASE v = w
    <3>1. \A u \in Workers \ {w} : work'[u].doc # d
      BY <1>1, <1>3, <1>4
    <3>2. work'[w].stage = "begun" /\ work'[w].doc = d
      BY <1>2, <1>3
    <3>3. d \in (extracted' \ ledger') \ {""}
      BY <1>4, <1>6 DEF tables
    <3> QED BY <2>1, <3>1, <3>2, <3>3 DEF DocumentHeld
  <2>2. CASE v # w
    <3>1. DocumentHeld(v)
      BY DEF HandInv
    <3> QED BY <1>1, <1>2, <1>3, <1>4, <2>2, <3>1 DEF DocumentHeld, tables
  <2> QED BY <2>1, <2>2
<1>9. work'[Seeder].doc = ""
  BY <1>1, <1>3 DEF HandInv
<1> QED BY <1>7, <1>8, <1>9 DEF HandInv

\* The assessment or the letter is the outcome of the document handled.
LEMMA CommitHand ==
  ASSUME HandInv, HandlerTypes, NEW w \in Workers, Commit(w)
  PROVE  HandInv'
<1>1. w \in Processes
  BY AssessmentAssumption
<1>2. PICK d : d = work[w].doc
  OBVIOUS
<1>3. d \in extracted \ ledger
  BY <1>2 DEF HandInv, DocumentHeld, Commit
<1>4. ledger' = ledger \cup {d} /\ extracted' = extracted
      /\ work' = [work EXCEPT ![w] = Idle]
  BY <1>2 DEF Commit
<1>5. OutcomesMatch'
  <2>1. CASE work[w].stage = "assessed"
    <3>1. PICK a : /\ a.doc = d /\ assessments' = assessments \cup {a}
                   /\ letters' = letters
      BY <1>2, <2>1 DEF Commit
    <3>2. {b.doc : b \in assessments'} = {b.doc : b \in assessments} \cup {d}
      BY <3>1
    <3> QED BY <1>3, <1>4, <3>1, <3>2 DEF HandInv, OutcomesMatch
  <2>2. CASE work[w].stage # "assessed"
    BY <1>2, <1>3, <1>4, <2>2 DEF HandInv, OutcomesMatch, Commit
  <2> QED BY <2>1, <2>2
<1> QED BY <1>1, <1>2, <1>4, <1>5, HandEnds

LEMMA NextHand == HandInv /\ HandlerTypes /\ [Next]_vars => HandInv'
<1> SUFFICES ASSUME HandInv, HandlerTypes, [Next]_vars PROVE HandInv'
  OBVIOUS
<1>1. (\A w \in Workers : w \in Processes /\ w # Seeder) /\ Seeder \in Processes
  BY AssessmentAssumption
<1>2. ASSUME UNCHANGED <<ledger, letters, assessments, work>>,
             extracted \subseteq extracted' PROVE HandInv'
  BY <1>2 DEF HandInv, OutcomesMatch, DocumentHeld
<1>3. ASSUME NEW d \in Docs, Extract(d) PROVE HandInv'
  BY <1>2, <1>3 DEF Extract
<1>4. {"begun", "embed", "search", "assess", "assessed", "failed"} \subseteq Stages \ {"idle"}
  BY DEF Stages
<1>5. ASSUME NEW w \in Workers, Work(w) PROVE HandInv'
  <2>1. ASSUME NEW d \in Docs, Begin(w, d) PROVE HandInv'
    BY <2>1, BeginHand
  <2>2. CASE Read(w)
    BY <1>1, <1>4, <2>2, HandStays, HandlerMoves DEF Read
  <2>3. CASE BookEmbedding(w)
    BY <1>1, <1>4, <2>3, HandStays, HandlerMoves DEF BookEmbedding
  <2>4. CASE SearchNext(w)
    BY <1>1, <1>4, <2>4, HandStays, HandlerMoves DEF SearchNext
  <2>5. ASSUME NEW named, ModelAnswers(w, named) PROVE HandInv'
    BY <1>1, <1>4, <2>5, HandStays, HandlerMoves DEF ModelAnswers, tables
  <2>6. CASE Commit(w)
    BY <2>6, CommitHand
  <2> QED BY <1>5, <2>1, <2>2, <2>3, <2>4, <2>5, <2>6 DEF Work
<1>6. ASSUME NEW w \in Workers, ModelFails(w) PROVE HandInv'
  <2>1. UNCHANGED tables /\ (UNCHANGED work \/ Goto(w, "failed"))
    BY <1>6 DEF ModelFails
  <2>2. work[w].stage # "idle"
    BY <1>6 DEF ModelFails
  <2>3. CASE UNCHANGED work
    BY <1>2, <2>1, <2>3 DEF tables
  <2>4. CASE Goto(w, "failed")
    BY <1>1, <1>4, <2>1, <2>2, <2>4, HandStays, GotoMoves
  <2> QED BY <2>1, <2>3, <2>4
<1>7. CASE Seed
  <2>1. CASE BeginSeed \/ SeedFile \/ IndexFile
    <3>1. UNCHANGED tables
      BY <2>1 DEF BeginSeed, SeedFile, IndexFile
    <3> QED BY <1>1, <1>4, <2>1, <3>1, HandStays, SeederMoves
  <2>2. CASE CommitSeed
    <3>1. OutcomesMatch'
      BY <2>2 DEF HandInv, OutcomesMatch, CommitSeed
    <3> QED BY <1>1, <2>2, <3>1, HandEnds DEF CommitSeed
  <2> QED BY <1>7, <2>1, <2>2 DEF Seed
<1>8. ASSUME NEW p \in Processes, Embed(p) PROVE HandInv'
  BY <1>2, <1>8 DEF Embed, tables
<1>9. ASSUME NEW p \in Processes, Raise(p) PROVE HandInv'
  <2>1. OutcomesMatch' /\ UNCHANGED tables /\ work' = [work EXCEPT ![p] = Idle]
    BY <1>9 DEF Raise, HandInv, OutcomesMatch, tables
  <2> QED BY <2>1, HandEnds DEF tables
<1>10. CASE UNCHANGED vars
  BY <1>2, <1>10 DEF vars
<1> QED BY <1>3, <1>5, <1>6, <1>7, <1>8, <1>9, <1>10 DEF Next

\* The faults are counted up to their bound.
LEMMA NextFaults == faults \in 0..MaxFaults /\ [Next]_vars => faults' \in 0..MaxFaults
<1> SUFFICES ASSUME faults \in 0..MaxFaults, [Next]_vars PROVE faults' \in 0..MaxFaults
  OBVIOUS
<1>1. UNCHANGED faults \/ Fault
  BY DEF Next, vars, embedVars, Extract, Work, Begin, Read, BookEmbedding,
     SearchNext, ModelAnswers, Commit, ModelFails, Seed, BeginSeed, SeedFile,
     IndexFile, CommitSeed, Embed, EmbedBatch, RetryBatch, InsertCached, Raise
<1> QED BY <1>1, EmbedderAssumption DEF Fault

\* Types; a document has one handler at a time and one outcome, and a cache key
\* is in the hands of one transaction and not in the table.
THEOREM TypeCorrect == Spec => []TypeOK
<1> DEFINE Inv == faults \in 0..MaxFaults /\ MoneyInv /\ HandlerInv /\ EmbInv /\ HandInv
<1>1. Init => Inv
  <2> SUFFICES ASSUME Init PROVE Inv
    OBVIOUS
  <2>1. faults \in 0..MaxFaults
    BY EmbedderAssumption DEF Init, EmbedderInit
  <2>2. HandInv
    <3>1. (\A w \in Workers : w \in Processes) /\ Seeder \in Processes
      BY AssessmentAssumption
    <3>2. \A p \in Processes : work[p].stage = "idle" /\ work[p].doc = ""
      BY DEF Init, Idle
    <3> QED BY <3>1, <3>2 DEF Init, HandInv, OutcomesMatch, DocumentHeld
  <2> QED BY <2>1, <2>2, InitMoney, InitHandler, InitEmb
<1>2. Inv /\ [Next]_vars => Inv'
  <2> SUFFICES ASSUME Inv, [Next]_vars PROVE Inv'
    OBVIOUS
  <2>1. HandlerTypes
    BY DEF HandlerInv
  <2> QED BY <2>1, NextFaults, NextMoney, NextHandler, NextEmb, NextHand
<1>3. Inv => TypeOK
  <2> SUFFICES ASSUME Inv PROVE TypeOK
    OBVIOUS
  <2>1. money \in [Processes -> [{"charged", "counted", "booked"} -> Nat]]
    <3>1. Accounts \subseteq [{"charged", "counted", "booked"} -> Nat]
      BY DEF Accounts
    <3> QED BY <3>1 DEF MoneyInv
  <2>2. HandlerTypes
    BY DEF HandlerInv
  <2>3. \A p \in Processes : work[p].stage \in Stages
    BY <2>2 DEF HandlerTypes, Handlers
  <2>4. ASSUME NEW p \in Processes, NEW q \in Processes, p # q
        PROVE  /\ emb[p].own \cap emb[q].own = {}
               /\ work[p].doc = work[q].doc => work[p].doc = ""
    <3>1. emb[p].own \cap emb[q].own = {}
      BY <2>4 DEF EmbInv, Fits
    <3>2. work[p].doc = work[q].doc => work[p].doc = ""
      BY <2>4, AssessmentAssumption DEF HandInv, DocumentHeld
    <3> QED BY <3>1, <3>2
  <2>5. \A p \in Processes : emb[p].own \cap cache = {}
    BY DEF EmbInv, Fits
  <2>6. cache \subseteq Texts /\ emb \in [Processes -> Embedding]
    BY DEF EmbInv
  <2>7. /\ indexed \subseteq Rows /\ ledger \subseteq extracted
        /\ extracted \subseteq Docs /\ letters \subseteq ledger
        /\ {a.doc : a \in assessments} = ledger \ letters
    BY <2>2 DEF HandlerTypes, HandInv, OutcomesMatch
  <2> QED BY <2>1, <2>3, <2>4, <2>5, <2>6, <2>7 DEF TypeOK
<1> QED BY <1>1, <1>2, <1>3, PTL DEF Spec

-----------------------------------------------------------------------------
\* What the model is shown is every row the searches find with the query it
\* matches best, those before a commit of the seeder in the rows of before and
\* those after it in the rows of after, and what an assessment cites is indexed.
THEOREM EvidenceStaysSound == Spec => []EvidenceSound
<1>1. HandlerInv => EvidenceSound
  <2> SUFFICES ASSUME HandlerInv PROVE EvidenceSound
    OBVIOUS
  <2>1. ASSUME NEW w \in Workers, work[w].stage = "assess"
        PROVE  \E cut \in 0..Len(Queries) :
                 IsEvidence(work[w].evidence, Corpora(work[w].rows, cut))
    <3>1. PICK cut \in 0..Len(Queries) :
            Merge(work[w].evidence, Len(Queries), Corpora(work[w].rows, cut))
      BY <2>1 DEF HandlerInv, EvidenceInv, Gathered
    <3> QED BY <3>1, MergeIsEvidence
  <2>2. \A w \in Workers : work[w].cited \subseteq DOMAIN work[w].evidence
    BY DEF HandlerInv, EvidenceInv, Gathered
  <2>3. \A a \in assessments : a.cited \subseteq indexed
    BY DEF HandlerInv, EvidenceInv
  <2> QED BY <2>1, <2>2, <2>3 DEF EvidenceSound
<1> QED BY <1>1, InitHandler, NextHandler, PTL DEF Spec

\* The newest assessment of a claim has seen the documents of all the others,
\* in whatever order they were committed.
THEOREM LatestSawAll == Spec => []LatestSawAssessed
<1>1. HandlerInv => LatestSawAssessed
  BY DEF HandlerInv, SeenInv, Started, Informed, LatestSawAssessed, LatestForClaim
<1> QED BY <1>1, InitHandler, NextHandler, PTL DEF Spec
=============================================================================
