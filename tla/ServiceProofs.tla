--------------------------- MODULE ServiceProofs ---------------------------
(***************************************************************************)
(* Proofs about Scheduler and Service, for any repositories, installations *)
(* and listings, any page size and capacity, and any number of workers and *)
(* deliveries.                                                             *)
(***************************************************************************)
EXTENDS Service, SequenceTheorems, TLAPS

-----------------------------------------------------------------------------
(* The inductive invariant.                                                *)

\* How many entries of the listing the pages read so far account for.
Behind == (page - 1) * PageSize

\* A page that is still to be read has r.
ToCome(r) == \E k \in DOMAIN listing[Home[r]] : k > Behind /\ listing[Home[r]][k] = r

\* The cycle has offered r, will do so, or is excused from it.
Reached(r) ==
    \/ r \in offered
    \/ Home[r] \in excused
    \/ /\ pc \in {"repos", "offer"}
       /\ \/ Home[r] \in todo \ {install}
          \/ Home[r] = install /\ r \in ToSet(found)
    \/ pc = "repos" /\ Home[r] = install /\ ToCome(r)

\* An installation is listed while it is to be listed, and a steady repository
\* is one that GitHub lists.
Cycling ==
    /\ pc \in {"repos", "offer"} => install \in todo
    /\ \A r \in steady : Listed(r)

Reaching == pc # "installations" => \A r \in steady \ Skipped : Reached(r)

\* The order in which main shuts the program down.
Closing ==
    /\ main # "serving" => ~listening
    /\ stopped => main \in {"wait", "returned"}
    /\ main \in {"stop", "wait", "returned"} /\ ~gaveUp => Active = {}

IInv == TypeOK /\ Cycling /\ Reaching /\ Closing

-----------------------------------------------------------------------------
(* Sequences.                                                              *)

LEMMA Entries ==
  ASSUME NEW S, NEW s \in Seq(S)
  PROVE  /\ Len(s) \in Nat /\ DOMAIN s = 1..Len(s)
         /\ \A k \in 1..Len(s) : s[k] \in S
         /\ \A x : x \in ToSet(s) <=> \E k \in 1..Len(s) : s[k] = x
  BY LenProperties, ElementOfSeq DEF ToSet

LEMMA InsertKeeps ==
  ASSUME NEW S, NEW s \in Seq(S), NEW e \in S, NEW k \in 1..(Len(s) + 1)
  PROVE  /\ InsertAt(s, k, e) \in Seq(S)
         /\ \A j \in 1..Len(s) :
                \E m \in 1..Len(InsertAt(s, k, e)) :
                    m >= j /\ InsertAt(s, k, e)[m] = s[j]
  <1> DEFINE a == SubSeq(s, 1, k - 1)
             b == SubSeq(s, k, Len(s))
             ae == a \o <<e>>
  <1>1. Len(s) \in Nat /\ \A i \in 1..Len(s) : s[i] \in S
    BY Entries
  <1>2. /\ a \in Seq(S) /\ Len(a) = k - 1
        /\ \A i \in 1..(k - 1) : a[i] = s[i]
    <2>1. k - 1 \in Int /\ \A i \in 1..(k - 1) : s[i] \in S
      BY <1>1
    <2>2. /\ a \in Seq(S) /\ Len(a) = IF 1 <= k - 1 THEN (k - 1) - 1 + 1 ELSE 0
          /\ \A i \in 1..((k - 1) - 1 + 1) : a[i] = s[1 + i - 1]
      BY <2>1, SubSeqProperties
    <2> QED BY <2>2
  <1>3. /\ b \in Seq(S) /\ Len(b) = Len(s) - k + 1
        /\ \A i \in 1..(Len(s) - k + 1) : b[i] = s[k + i - 1]
    <2>1. k \in Int /\ Len(s) \in Int /\ \A i \in k..Len(s) : s[i] \in S
      BY <1>1
    <2>2. /\ b \in Seq(S) /\ Len(b) = IF k <= Len(s) THEN Len(s) - k + 1 ELSE 0
          /\ \A i \in 1..(Len(s) - k + 1) : b[i] = s[k + i - 1]
      BY <2>1, SubSeqProperties
    <2> QED BY <2>2, <1>1
  <1>4. <<e>> \in Seq(S) /\ Len(<<e>>) = 1
    OBVIOUS
  <1> HIDE DEF a, b
  <1>5. /\ ae \in Seq(S) /\ Len(ae) = k
        /\ \A i \in 1..(k - 1) : ae[i] = s[i]
    BY <1>2, <1>4, ConcatProperties
  <1> HIDE DEF ae
  <1>6. /\ ae \o b \in Seq(S) /\ Len(ae \o b) = Len(s) + 1
        /\ \A i \in 1..(Len(s) + 1) :
               (ae \o b)[i] = IF i <= k THEN ae[i] ELSE b[i - k]
    <2>1. /\ ae \o b \in Seq(S) /\ Len(ae \o b) = Len(ae) + Len(b)
          /\ \A i \in 1..(Len(ae) + Len(b)) :
                 (ae \o b)[i] = IF i <= Len(ae) THEN ae[i] ELSE b[i - Len(ae)]
      BY <1>3, <1>5, ConcatProperties
    <2>2. Len(ae) = k /\ Len(ae) + Len(b) = Len(s) + 1
      BY <1>1, <1>3, <1>5
    <2> QED BY <2>1, <2>2
  <1>7. ASSUME NEW j \in 1..Len(s)
        PROVE  \E m \in 1..(Len(s) + 1) : m >= j /\ (ae \o b)[m] = s[j]
    <2>1. CASE j < k
      BY <2>1, <1>1, <1>5, <1>6
    <2>2. CASE j >= k
      <3>1. (ae \o b)[j + 1] = b[j + 1 - k]
        BY <2>2, <1>1, <1>6
      <3>2. j + 1 - k \in 1..(Len(s) - k + 1)
        BY <2>2, <1>1
      <3>3. b[j + 1 - k] = s[k + (j + 1 - k) - 1] /\ k + (j + 1 - k) - 1 = j
        BY <3>2, <1>3
      <3>4. j + 1 \in 1..(Len(s) + 1) /\ j + 1 >= j
        BY <1>1, <1>7
      <3> QED BY <3>1, <3>3, <3>4
    <2>3. j < k \/ j >= k
      BY <1>1, <1>7
    <2> QED BY <2>1, <2>2, <2>3
  <1>8. InsertAt(s, k, e) = ae \o b
    BY DEF InsertAt, ae, a, b
  <1> QED BY <1>6, <1>7, <1>8

LEMMA RemoveKeeps ==
  ASSUME NEW S, NEW s \in Seq(S), NEW k \in 1..Len(s)
  PROVE  /\ RemoveAt(s, k) \in Seq(S)
         /\ \A j \in 1..Len(s) : j # k => s[j] \in ToSet(RemoveAt(s, k))
  <1> DEFINE a == SubSeq(s, 1, k - 1)
             b == SubSeq(s, k + 1, Len(s))
  <1>1. Len(s) \in Nat /\ \A i \in 1..Len(s) : s[i] \in S
    BY Entries
  <1>2. /\ a \in Seq(S) /\ Len(a) = k - 1
        /\ \A i \in 1..(k - 1) : a[i] = s[i]
    <2>1. k - 1 \in Int /\ \A i \in 1..(k - 1) : s[i] \in S
      BY <1>1
    <2>2. /\ a \in Seq(S) /\ Len(a) = IF 1 <= k - 1 THEN (k - 1) - 1 + 1 ELSE 0
          /\ \A i \in 1..((k - 1) - 1 + 1) : a[i] = s[1 + i - 1]
      BY <2>1, SubSeqProperties
    <2> QED BY <2>2
  <1>3. /\ b \in Seq(S) /\ Len(b) = Len(s) - k
        /\ \A i \in 1..(Len(s) - k) : b[i] = s[k + i]
    <2>1. k + 1 \in Int /\ Len(s) \in Int /\ \A i \in (k + 1)..Len(s) : s[i] \in S
      BY <1>1
    <2>2. /\ b \in Seq(S)
          /\ Len(b) = IF k + 1 <= Len(s) THEN Len(s) - (k + 1) + 1 ELSE 0
          /\ \A i \in 1..(Len(s) - (k + 1) + 1) : b[i] = s[(k + 1) + i - 1]
      BY <2>1, SubSeqProperties
    <2> QED BY <2>2, <1>1
  <1> HIDE DEF a, b
  <1>4. /\ a \o b \in Seq(S) /\ Len(a \o b) = Len(s) - 1
        /\ \A i \in 1..(Len(s) - 1) :
               (a \o b)[i] = IF i <= k - 1 THEN a[i] ELSE b[i - (k - 1)]
    BY <1>1, <1>2, <1>3, ConcatProperties
  <1>5. ASSUME NEW j \in 1..Len(s), j # k
        PROVE  \E m \in 1..(Len(s) - 1) : (a \o b)[m] = s[j]
    <2>1. CASE j < k
      <3>1. j \in 1..(Len(s) - 1) /\ j <= k - 1 /\ j \in 1..(k - 1)
        BY <2>1, <1>1, <1>5
      <3> QED BY <3>1, <1>2, <1>4
    <2>2. CASE j > k
      <3>1. (a \o b)[j - 1] = b[j - 1 - (k - 1)] /\ j - 1 - (k - 1) = j - k
        <4>1. /\ j - 1 \in 1..(Len(s) - 1) /\ ~(j - 1 <= k - 1)
              /\ j - 1 - (k - 1) = j - k
          BY <2>2, <1>1, <1>5
        <4> QED BY <4>1, <1>4
      <3>2. j - k \in 1..(Len(s) - k)
        BY <2>2, <1>1
      <3>3. b[j - k] = s[k + (j - k)] /\ k + (j - k) = j
        BY <3>2, <1>3
      <3>4. j - 1 \in 1..(Len(s) - 1)
        BY <2>2, <1>1
      <3> QED BY <3>1, <3>3, <3>4
    <2>3. j < k \/ j > k
      BY <1>1, <1>5
    <2> QED BY <2>1, <2>2, <2>3
  <1>6. RemoveAt(s, k) = a \o b
    BY DEF RemoveAt, a, b
  <1> QED BY <1>4, <1>5, <1>6, Entries

\* What a page adds to the sequence of what was found.
LEMMA PageFinds ==
  ASSUME NEW S, NEW s \in Seq(S), NEW f \in Seq(S), NEW a \in Nat, NEW b \in Nat,
         b <= Len(s)
  PROVE  LET g == f \o SubSeq(s, a + 1, b) IN
         /\ g \in Seq(S) /\ ToSet(f) \subseteq ToSet(g)
         /\ \A k \in 1..b : k > a => s[k] \in ToSet(g)
  <1> DEFINE p == SubSeq(s, a + 1, b)
             g == f \o p
  <1>1. /\ Len(s) \in Nat /\ \A i \in 1..Len(s) : s[i] \in S
        /\ Len(f) \in Nat /\ Len(f) \in Int
    BY Entries
  <1>2. /\ p \in Seq(S)
        /\ Len(p) = IF a + 1 <= b THEN b - (a + 1) + 1 ELSE 0
        /\ \A i \in 1..(b - (a + 1) + 1) : p[i] = s[(a + 1) + i - 1]
    <2>1. a + 1 \in Int /\ b \in Int /\ \A i \in (a + 1)..b : s[i] \in S
      BY <1>1
    <2> QED BY <2>1, SubSeqProperties
  <1> HIDE DEF p
  <1>3. /\ g \in Seq(S) /\ Len(g) = Len(f) + Len(p)
        /\ \A i \in 1..(Len(f) + Len(p)) :
               g[i] = IF i <= Len(f) THEN f[i] ELSE p[i - Len(f)]
    BY <1>2, ConcatProperties
  <1> HIDE DEF g
  <1>4. Len(p) \in Nat
    BY <1>2, Entries
  <1>5. ToSet(f) \subseteq ToSet(g)
    <2> SUFFICES ASSUME NEW x \in ToSet(f) PROVE x \in ToSet(g)
      OBVIOUS
    <2>1. PICK k \in 1..Len(f) : f[k] = x
      BY Entries
    <2>2. k \in 1..Len(g) /\ g[k] = x
      BY <2>1, <1>1, <1>3, <1>4
    <2> QED BY <2>2, <1>3, Entries
  <1>6. ASSUME NEW k \in 1..b, k > a
        PROVE  s[k] \in ToSet(g)
    <2>1. k - a \in 1..(b - (a + 1) + 1) /\ Len(p) = b - a /\ (a + 1) + (k - a) - 1 = k
      BY <1>6, <1>2
    <2>2. p[k - a] = s[k]
      BY <2>1, <1>2
    <2>3. Len(f) + (k - a) \in 1..(Len(f) + Len(p))
      BY <2>1, <1>1, <1>6
    <2>4. g[Len(f) + (k - a)] = p[k - a]
      <3>1. ~(Len(f) + (k - a) <= Len(f)) /\ Len(f) + (k - a) - Len(f) = k - a
        BY <1>6, <1>1
      <3> QED BY <3>1, <2>3, <1>3
    <2> QED BY <2>2, <2>3, <2>4, <1>3, Entries
  <1> QED BY <1>3, <1>5, <1>6 DEF g, p

LEMMA TailLoses ==
  ASSUME NEW S, NEW s \in Seq(S), s # <<>>
  PROVE  /\ Head(s) \in S /\ Tail(s) \in Seq(S) /\ Len(Tail(s)) = Len(s) - 1
         /\ \A x \in ToSet(s) : x = Head(s) \/ x \in ToSet(Tail(s))
  <1>1. /\ Head(s) \in S /\ Tail(s) \in Seq(S) /\ Len(Tail(s)) = Len(s) - 1
        /\ \A i \in 1..Len(Tail(s)) : Tail(s)[i] = s[i + 1]
    BY HeadTailProperties
  <1>2. ASSUME NEW x \in ToSet(s), x # Head(s)
        PROVE  x \in ToSet(Tail(s))
    <2>1. PICK k \in 1..Len(s) : s[k] = x
      BY Entries
    <2>2. k # 1 /\ Len(s) \in Nat
      BY <2>1, <1>2, Entries
    <2>3. k - 1 \in 1..Len(Tail(s)) /\ (k - 1) + 1 = k
      BY <2>2, <1>1
    <2>4. Tail(s)[k - 1] = x
      BY <2>1, <2>3, <1>1
    <2> QED BY <2>3, <2>4, <1>1, Entries
  <1> QED BY <1>1, <1>2

-----------------------------------------------------------------------------
(* The scheduler: what each of its steps, and GitHub's, keeps.             *)

SInv == SchedulerTypeOK /\ Cycling /\ Reaching

LEMMA BehindNat ==
  ASSUME page \in Nat \ {0}
  PROVE  Behind \in Nat
  <1>1. PageSize \in Nat /\ page - 1 \in Nat
    BY SizesAssumption
  <1>2. \A m, n \in Nat : m * n \in Nat
    OBVIOUS
  <1> QED BY <1>1, <1>2 DEF Behind

\* Which repositories are listed, and where, as numbers.
LEMMA ListedEntries ==
  ASSUME listing \in [Installs -> Seq(Repos)], NEW r \in Repos
  PROVE  /\ Home[r] \in Installs
         /\ Listed(r) <=> \E k \in 1..Len(listing[Home[r]]) : listing[Home[r]][k] = r
         /\ ToCome(r) <=> \E k \in 1..Len(listing[Home[r]]) :
                               k > Behind /\ listing[Home[r]][k] = r
  <1>1. Home[r] \in Installs /\ listing[Home[r]] \in Seq(Repos)
    BY WorldAssumption
  <1> QED BY <1>1, Entries DEF Listed, ToCome

\* A listing that only grows, each entry moving back or not at all.
LEMMA AddRepoKeeps ==
  ASSUME SInv, NEW r \in Repos, AddRepo(r)
  PROVE  SInv'
  <1> USE DEF SInv, SchedulerTypeOK
  <1> DEFINE i == Home[r]
             s == listing[i]
  <1>1. i \in Installs /\ s \in Seq(Repos)
    BY WorldAssumption
  <1>2. PICK k \in 1..(Len(s) + 1) :
            listing' = [listing EXCEPT ![i] = InsertAt(s, k, r)]
    BY DEF AddRepo
  <1>3. /\ InsertAt(s, k, r) \in Seq(Repos)
        /\ \A j \in 1..Len(s) :
               \E m \in 1..Len(InsertAt(s, k, r)) :
                   m >= j /\ InsertAt(s, k, r)[m] = s[j]
    <2>1. k \in 1..(Len(s) + 1)
      BY <1>2
    <2> HIDE DEF s
    <2>2. InsertAt(s, k, r) \in Seq(Repos)
      BY <1>1, <2>1, InsertKeeps
    <2>3. \A j \in 1..Len(s) :
               \E m \in 1..Len(InsertAt(s, k, r)) :
                   m >= j /\ InsertAt(s, k, r)[m] = s[j]
      BY <1>1, <2>1, InsertKeeps
    <2> QED BY <2>2, <2>3
  <1>4. /\ UNCHANGED <<buffer, stopped, ctxDone>>
        /\ UNCHANGED <<pc, todo, install, page, found, offered, steady, excused>>
    BY DEF AddRepo, queue, scheduler
  <1>5. listing' \in [Installs -> Seq(Repos)]
    BY <1>1, <1>2, <1>3
  <1>6. ASSUME NEW q \in Repos, NEW j \in 1..Len(listing[Home[q]])
        PROVE  \E m \in 1..Len(listing'[Home[q]]) :
                   m >= j /\ listing'[Home[q]][m] = listing[Home[q]][j]
    <2>1. Home[q] \in Installs /\ j \in Int
      BY WorldAssumption, Entries
    <2>2. CASE Home[q] = i
      <3>1. listing'[Home[q]] = InsertAt(s, k, r) /\ listing[Home[q]] = s
        BY <1>1, <1>2, <2>2
      <3> QED BY <3>1, <1>3
    <2>3. CASE Home[q] # i
      <3>1. listing'[Home[q]] = listing[Home[q]] /\ j >= j
        BY <1>2, <2>1, <2>3
      <3> QED BY <3>1
    <2> QED BY <2>2, <2>3
  <1>7. SchedulerTypeOK'
    BY <1>4, <1>5
  <1>8. \A q \in Repos : Listed(q) => Listed(q)'
    <2> SUFFICES ASSUME NEW q \in Repos, Listed(q) PROVE Listed(q)'
      OBVIOUS
    <2>1. PICK j \in 1..Len(listing[Home[q]]) : listing[Home[q]][j] = q
      BY ListedEntries
    <2>2. PICK m \in 1..Len(listing'[Home[q]]) : listing'[Home[q]][m] = listing[Home[q]][j]
      BY <1>6
    <2>3. listing'[Home[q]] \in Seq(Repos)
      BY <1>5, WorldAssumption
    <2> QED BY <2>1, <2>2, <2>3, Entries DEF Listed
  <1>9. Behind' = Behind /\ Behind \in Int
    BY <1>4, BehindNat DEF Behind
  <1>10. \A q \in Repos : ToCome(q) => ToCome(q)'
    <2> SUFFICES ASSUME NEW q \in Repos, ToCome(q) PROVE ToCome(q)'
      OBVIOUS
    <2>1. PICK j \in 1..Len(listing[Home[q]]) :
              j > Behind /\ listing[Home[q]][j] = q
      BY ListedEntries
    <2>2. PICK m \in 1..Len(listing'[Home[q]]) :
              m >= j /\ listing'[Home[q]][m] = listing[Home[q]][j]
      BY <1>6
    <2>3. Home[q] \in Installs /\ listing'[Home[q]] \in Seq(Repos)
      BY <1>5, WorldAssumption
    <2>4. m \in DOMAIN listing'[Home[q]] /\ m > Behind
      BY <2>1, <2>2, <2>3, <1>9, Entries
    <2> QED BY <2>1, <2>2, <2>4, <1>9 DEF ToCome
  <1>11. \A q \in Repos : Reached(q) => Reached(q)'
    BY <1>4, <1>10 DEF Reached
  <1>12. Cycling'
    BY <1>4, <1>8 DEF Cycling
  <1>13. Reaching'
    BY <1>4, <1>11 DEF Reaching
  <1> QED BY <1>7, <1>12, <1>13

LEMMA RemoveRepoKeeps ==
  ASSUME SInv, NEW i \in Installs, NEW k \in DOMAIN listing[i], RemoveRepo(i, k)
  PROVE  SInv'
  <1> USE DEF SInv, SchedulerTypeOK
  <1> DEFINE s == listing[i]
  <1>1. s \in Seq(Repos) /\ k \in 1..Len(s) /\ s[k] \in Repos
    BY Entries
  <1>2. /\ listing' = [listing EXCEPT ![i] = RemoveAt(s, k)]
        /\ steady' = steady \ {s[k]}
        /\ excused' = IF pc = "repos" /\ install = i THEN excused \cup {i} ELSE excused
        /\ UNCHANGED <<buffer, stopped, ctxDone, pc, todo, install, page, found, offered>>
    BY DEF RemoveRepo, queue, local
  <1>3. /\ RemoveAt(s, k) \in Seq(Repos)
        /\ \A j \in 1..Len(s) : j # k => s[j] \in ToSet(RemoveAt(s, k))
    BY <1>1, RemoveKeeps
  <1>4. listing' \in [Installs -> Seq(Repos)]
    BY <1>2, <1>3
  <1>5. SchedulerTypeOK'
    BY <1>2, <1>4
  <1>6. ASSUME NEW q \in steady'
        PROVE  Listed(q)'
    <2>1. q \in Repos /\ q # s[k] /\ Listed(q) /\ Home[q] \in Installs
      BY <1>2, <1>6, WorldAssumption DEF Cycling
    <2>2. PICK j \in 1..Len(listing[Home[q]]) : listing[Home[q]][j] = q
      BY <2>1, ListedEntries
    <2>3. CASE Home[q] = i
      <3>1. j # k /\ j \in 1..Len(s) /\ s[j] = q
        BY <2>1, <2>2, <2>3
      <3>2. q \in ToSet(RemoveAt(s, k)) /\ listing'[Home[q]] = RemoveAt(s, k)
        BY <3>1, <1>2, <1>3, <2>3
      <3> QED BY <3>2 DEF Listed
    <2>4. CASE Home[q] # i
      <3>1. listing'[Home[q]] = listing[Home[q]]
        BY <1>2, <2>1, <2>4
      <3> QED BY <3>1, <2>1 DEF Listed
    <2> QED BY <2>3, <2>4
  <1>7. ASSUME NEW q \in Repos, Reached(q)
        PROVE  Reached(q)'
    <2>1. q \in offered => Reached(q)'
      BY <1>2 DEF Reached
    <2>2. Home[q] \in excused => Reached(q)'
      BY <1>2 DEF Reached
    <2>3. /\ pc \in {"repos", "offer"}
          /\ \/ Home[q] \in todo \ {install}
             \/ Home[q] = install /\ q \in ToSet(found)
          => Reached(q)'
      BY <1>2 DEF Reached
    <2>4. ASSUME pc = "repos", Home[q] = install, ToCome(q)
          PROVE  Reached(q)'
      <3>1. CASE i = install
        BY <3>1, <2>4, <1>2 DEF Reached
      <3>2. CASE i # install
        <4>1. listing'[Home[q]] = listing[Home[q]]
          BY <3>2, <2>4, <1>2, WorldAssumption
        <4>2. ToCome(q)'
          BY <4>1, <2>4, <1>2 DEF ToCome, Behind
        <4> QED BY <4>2, <2>4, <1>2 DEF Reached
      <3> QED BY <3>1, <3>2
    <2> QED BY <1>7, <2>1, <2>2, <2>3, <2>4 DEF Reached
  <1>8. Cycling'
    BY <1>2, <1>6 DEF Cycling
  <1>9. Reaching'
    BY <1>2, <1>7 DEF Reaching
  <1> QED BY <1>5, <1>8, <1>9

\* On to the next installation, when everything steady was offered, is excused
\* or belongs to one of those that are left.
LEMMA NextInstallKeeps ==
  ASSUME SInv, NEW rest \in SUBSET Installs, NextInstall(rest),
         UNCHANGED <<buffer, stopped, ctxDone, listing, offered, steady>>,
         excused' \subseteq Installs,
         \A q \in steady \ Skipped :
             q \in offered \/ Home[q] \in excused' \/ Home[q] \in rest
  PROVE  SInv'
  <1> USE DEF SInv, SchedulerTypeOK
  <1>1. /\ todo' = rest /\ page' = 1 /\ found' = <<>>
        /\ \/ rest = {} /\ install' = None /\ pc' = "ticker"
           \/ rest # {} /\ install' \in rest /\ pc' = "repos"
    BY DEF NextInstall
  <1>2. SchedulerTypeOK'
    BY <1>1, EmptySeq DEF States
  <1>3. Cycling'
    BY <1>1 DEF Cycling, Listed
  <1>4. ASSUME NEW q \in steady \ Skipped, Home[q] \in rest
        PROVE  Reached(q)'
    <2>1. pc' = "repos" /\ install' \in rest
      BY <1>1, <1>4
    <2>2. CASE Home[q] = install'
      <3>1. Behind' = 0
        BY <1>1, SizesAssumption DEF Behind
      <3>2. PICK k \in 1..Len(listing[Home[q]]) : listing[Home[q]][k] = q
        BY ListedEntries DEF Cycling
      <3>3. listing[Home[q]] \in Seq(Repos)
        BY WorldAssumption
      <3>4. k \in DOMAIN listing[Home[q]] /\ k > 0
        BY <3>3, Entries
      <3>5. ToCome(q)'
        BY <3>1, <3>2, <3>4 DEF ToCome
      <3> QED BY <2>1, <2>2, <3>5 DEF Reached
    <2>3. CASE Home[q] # install'
      BY <2>1, <2>3, <1>1, <1>4 DEF Reached
    <2> QED BY <2>2, <2>3
  <1>5. Reaching'
    BY <1>1, <1>4 DEF Reaching, Reached
  <1> QED BY <1>2, <1>3, <1>5

LEMMA ListRepoKeeps ==
  ASSUME SInv, ListRepos
  PROVE  SInv'
  <1> USE DEF SInv, SchedulerTypeOK
  <1> DEFINE s == listing[install]
             last == IF MorePages THEN page * PageSize ELSE Len(s)
  <1>1. install \in todo /\ install \in Installs /\ s \in Seq(Repos)
    BY DEF ListRepos, Cycling
  <1>2. /\ pc = "repos" /\ found' = found \o SubSeq(s, Behind + 1, last)
        /\ IF MorePages THEN page' = page + 1 /\ pc' = pc
                        ELSE page' = page /\ pc' = "offer"
        /\ UNCHANGED <<buffer, stopped, ctxDone, listing, todo, install,
                       offered, steady, excused>>
    BY DEF ListRepos, queue, cycle, Behind
  <1>3. /\ Behind \in Nat /\ Len(s) \in Nat
        /\ page \in Nat \ {0} /\ page + 1 \in Nat \ {0}
    BY <1>1, BehindNat, Entries
  <1>4. last \in Nat /\ last <= Len(s)
    <2>1. page * PageSize \in Nat
      <3>1. PageSize \in Nat /\ page \in Nat /\ \A m, n \in Nat : m * n \in Nat
        BY SizesAssumption
      <3> QED BY <3>1
    <2> QED BY <2>1, <1>3 DEF MorePages
  <1>5. MorePages => Behind' = last
    <2>1. page + 1 - 1 = page
      BY <1>3
    <2> QED BY <2>1, <1>2 DEF Behind
  <1>6. /\ found' \in Seq(Repos) /\ ToSet(found) \subseteq ToSet(found')
        /\ \A k \in 1..last : k > Behind => s[k] \in ToSet(found')
    <2> HIDE DEF last
    <2>1. LET g == found \o SubSeq(s, Behind + 1, last) IN
          /\ g \in Seq(Repos) /\ ToSet(found) \subseteq ToSet(g)
          /\ \A k \in 1..last : k > Behind => s[k] \in ToSet(g)
      BY <1>1, <1>3, <1>4, PageFinds
    <2> QED BY <2>1, <1>2
  <1>7. SchedulerTypeOK'
    BY <1>2, <1>3, <1>6 DEF States
  <1>8. Cycling'
    BY <1>1, <1>2 DEF Cycling, Listed
  <1>9. ASSUME NEW q \in steady \ Skipped, Home[q] = install, ToCome(q)
        PROVE  Reached(q)'
    <2>1. PICK k \in 1..Len(s) : k > Behind /\ s[k] = q
      BY <1>9, ListedEntries
    <2>2. CASE k <= last
      <3>1. k \in 1..last
        BY <2>1, <2>2, <1>3, <1>4
      <3>2. q \in ToSet(found')
        BY <3>1, <2>1, <1>6
      <3> QED BY <3>2, <1>2, <1>9 DEF Reached
    <2>3. CASE k > last
      <3>1. MorePages
        BY <2>1, <2>3, <1>3
      <3>2. k > Behind' /\ k \in DOMAIN listing[Home[q]]
        BY <3>1, <2>3, <1>1, <1>5, <1>9, Entries
      <3>3. ToCome(q)'
        BY <3>2, <2>1, <1>2, <1>9 DEF ToCome
      <3> QED BY <3>1, <3>3, <1>2, <1>9 DEF Reached
    <2>4. k <= last \/ k > last
      BY <1>3, <1>4
    <2> QED BY <2>2, <2>3, <2>4
  <1>10. Reaching'
    <2> SUFFICES ASSUME NEW q \in steady \ Skipped PROVE Reached(q)'
      BY <1>2 DEF Reaching
    <2>1. Reached(q)
      BY <1>2 DEF Reaching
    <2>2. pc' \in {"repos", "offer"}
      BY <1>2
    <2> QED BY <2>1, <2>2, <1>2, <1>6, <1>9 DEF Reached
  <1> QED BY <1>7, <1>8, <1>10

LEMMA EnqueueTypes ==
  ASSUME buffer \in Seq(Repos), Len(buffer) <= Capacity, NEW r \in Repos, Enqueue(r)
  PROVE  /\ buffer' \in Seq(Repos) /\ Len(buffer') <= Capacity
         /\ stopped' = stopped
  <1>1. CASE Accepts
    <2>1. buffer' = Append(buffer, r) /\ stopped' = stopped
      BY <1>1 DEF Enqueue
    <2>2. Append(buffer, r) \in Seq(Repos) /\ Len(Append(buffer, r)) = Len(buffer) + 1
      BY AppendProperties
    <2>3. Len(buffer) \in Nat /\ Len(buffer) < Capacity
      BY <1>1, Entries DEF Accepts
    <2> QED BY <2>1, <2>2, <2>3, SizesAssumption
  <1>2. CASE ~Accepts
    BY <1>2 DEF Enqueue
  <1> QED BY <1>1, <1>2

LEMMA OfferKeeps ==
  ASSUME SInv, Offer
  PROVE  SInv'
  <1> USE DEF SInv, SchedulerTypeOK
  <1>1. /\ pc = "offer" /\ found # <<>> /\ found' = Tail(found)
        /\ UNCHANGED <<ctxDone, listing, pc, todo, install, page, steady, excused>>
    BY DEF Offer
  <1>2. /\ Head(found) \in Repos /\ found' \in Seq(Repos)
        /\ \A x \in ToSet(found) : x = Head(found) \/ x \in ToSet(found')
    BY <1>1, TailLoses
  <1>3. /\ buffer' \in Seq(Repos) /\ Len(buffer') <= Capacity
        /\ stopped' = stopped
    BY <1>2, EnqueueTypes DEF Offer, queue
  <1>4. /\ offered \subseteq offered' /\ offered' \subseteq Repos
        /\ Head(found) \in Skipped \/ Head(found) \in offered'
    BY <1>2 DEF Offer
  <1>5. SchedulerTypeOK'
    BY <1>1, <1>2, <1>3, <1>4
  <1>6. Cycling'
    BY <1>1 DEF Cycling, Listed
  <1>7. Reaching'
    <2> SUFFICES ASSUME NEW q \in steady \ Skipped PROVE Reached(q)'
      BY <1>1 DEF Reaching
    <2>1. Reached(q)
      BY <1>1 DEF Reaching
    <2> QED BY <2>1, <1>1, <1>2, <1>4 DEF Reached
  <1> QED BY <1>5, <1>6, <1>7

Scheduling == People \/ Failure \/ Progress \/ Tick \/ StopTicker

LEMMA SchedulingKeeps ==
  ASSUME SInv, Scheduling
  PROVE  SInv'
  <1> USE DEF SInv, SchedulerTypeOK
  <1>1. CASE People
    BY <1>1, AddRepoKeeps, RemoveRepoKeeps DEF People
  <1>2. CASE ListInstallations
    <2>1. /\ NextInstall(Installs)
          /\ UNCHANGED <<buffer, stopped, ctxDone, listing, offered, steady, excused>>
      BY <1>2 DEF ListInstallations, queue, cycle
    <2>2. \A q \in steady : Home[q] \in Installs
      BY WorldAssumption
    <2> QED BY <2>1, <2>2, NextInstallKeeps
  <1>3. CASE InstallationsFail
    <2>1. /\ NextInstall({}) /\ excused' = Installs
          /\ UNCHANGED <<buffer, stopped, ctxDone, listing, offered, steady>>
      BY <1>3 DEF InstallationsFail, queue
    <2>2. \A q \in steady : Home[q] \in Installs
      BY WorldAssumption
    <2> QED BY <2>1, <2>2, NextInstallKeeps
  <1>4. CASE ListRepos
    BY <1>4, ListRepoKeeps
  <1>5. CASE ReposFail
    <2>1. /\ pc = "repos" /\ NextInstall(todo \ {install})
          /\ excused' = excused \cup {install}
          /\ UNCHANGED <<buffer, stopped, ctxDone, listing, offered, steady>>
      BY <1>5 DEF ReposFail, queue
    <2>2. install \in Installs
      BY <2>1 DEF Cycling
    <2>3. \A q \in steady \ Skipped :
              q \in offered \/ Home[q] \in excused' \/ Home[q] \in todo \ {install}
      BY <2>1 DEF Reaching, Reached
    <2> QED BY <2>1, <2>2, <2>3, NextInstallKeeps
  <1>6. CASE Offer
    BY <1>6, OfferKeeps
  <1>7. CASE LoopEnds
    <2>1. /\ pc = "offer" /\ found = <<>> /\ NextInstall(todo \ {install})
          /\ UNCHANGED <<buffer, stopped, ctxDone, listing, offered, steady, excused>>
      BY <1>7 DEF LoopEnds, queue, cycle
    <2>2. ToSet(found) = {}
      BY <2>1 DEF ToSet
    <2>3. \A q \in steady \ Skipped :
              q \in offered \/ Home[q] \in excused' \/ Home[q] \in todo \ {install}
      BY <2>1, <2>2 DEF Reaching, Reached
    <2> QED BY <2>1, <2>3, NextInstallKeeps
  <1>8. CASE Tick
    BY <1>8 DEF Tick, queue, local, States, Cycling, Reaching, Listed
  <1>9. CASE StopTicker
    BY <1>9 DEF StopTicker, queue, local, cycle, States, Cycling, Reaching, Reached, Listed
  <1> QED BY <1>1, <1>2, <1>3, <1>4, <1>5, <1>6, <1>7, <1>8, <1>9
          DEF Scheduling, Failure, Progress

\* What the scheduler and GitHub keep, the rest of the program keeps too as
\* long as it leaves their variables alone.
LEMMA OthersKeep ==
  ASSUME SInv, UNCHANGED <<listing, pc, todo, install, page, found, offered, steady, excused>>,
         buffer' \in Seq(Repos), Len(buffer') <= Capacity,
         stopped' \in BOOLEAN, ctxDone' \in BOOLEAN
  PROVE  SInv'
  <1>1. SchedulerTypeOK'
    BY DEF SInv, SchedulerTypeOK
  <1>2. Cycling' /\ Reaching'
    BY DEF SInv, Cycling, Reaching, Reached, ToCome, Behind, Listed
  <1> QED BY <1>1, <1>2 DEF SInv

-----------------------------------------------------------------------------
(* The webhooks, the workers and main.                                     *)

LEMMA HooksKeep ==
  ASSUME IInv, NEW d \in Deliveries, Hooks(Arrive(d)) \/ Hooks(Handle(d))
  PROVE  IInv'
  <1> USE DEF IInv, TypeOK
  <1>1. /\ UNCHANGED <<ctxDone, listing, pc, todo, install, page, found, offered,
                       steady, excused, hand, alive, listening, main, gaveUp>>
        /\ Running /\ (Arrive(d) \/ Dispatch(d) \/ HookOffer(d) \/ Answer(d))
    BY DEF Hooks, Handle, scheduler, workers, server
  <1>2. /\ hook' \in [Deliveries -> HookStates]
        /\ \A e \in Deliveries : hook'[e] \in {"reading", "offering"} =>
               hook[e] \in {"reading", "offering"} \/ listening
    BY <1>1 DEF Arrive, Dispatch, HookOffer, Answer, HookStates
  <1>3. payload' \in [Deliveries -> Seq(Repos)]
    <2>1. Events \subseteq Seq(Repos)
      <3>1. \A s \in Repos \X Repos : s = <<s[1], s[2]>> /\ s[1] \in Repos /\ s[2] \in Repos
        OBVIOUS
      <3>2. \A a, b \in Repos : <<a, b>> \in Seq(Repos)
        OBVIOUS
      <3>3. \A a \in Repos : <<a>> \in Seq(Repos)
        OBVIOUS
      <3>4. \A s \in Repos \X Repos : s \in Seq(Repos)
        BY <3>1, <3>2
      <3> QED BY <3>3, <3>4, EmptySeq DEF Events
    <2>2. payload[d] # <<>> => Tail(payload[d]) \in Seq(Repos)
      BY TailLoses
    <2> QED BY <2>1, <2>2, <1>1 DEF Arrive, Dispatch, HookOffer, Answer
  <1>4. /\ buffer' \in Seq(Repos) /\ Len(buffer') <= Capacity
        /\ stopped' = stopped
    <2>1. payload[d] # <<>> => Head(payload[d]) \in Repos
      BY TailLoses
    <2> QED BY <2>1, <1>1, EnqueueTypes
            DEF Arrive, Dispatch, HookOffer, Answer, queue, SchedulerTypeOK
  <1>5. SInv'
    BY <1>1, <1>4, OthersKeep DEF SInv, SchedulerTypeOK
  <1>6. TypeOK'
    BY <1>1, <1>2, <1>3, <1>5 DEF SInv
  <1>7. Closing'
    BY <1>1, <1>2, <1>4 DEF Closing, Active, Running
  <1> QED BY <1>5, <1>6, <1>7 DEF SInv

LEMMA CheckKeeps ==
  ASSUME IInv, NEW w \in Workers, Check(w)
  PROVE  IInv'
  <1> USE DEF IInv, TypeOK
  <1>1. /\ UNCHANGED <<stopped, ctxDone, listing, pc, todo, install, page, found,
                       offered, steady, excused, hook, payload, listening, main, gaveUp>>
        /\ Receive(w) \/ ProcessJob(w) \/ RangeEnds(w)
    BY DEF Check, Worker, scheduler, webhooks, server, Receive, ProcessJob,
           RangeEnds, queue
  <1>2. buffer # <<>> => /\ Head(buffer) \in Repos /\ Tail(buffer) \in Seq(Repos)
                         /\ Len(Tail(buffer)) = Len(buffer) - 1
    BY TailLoses DEF SchedulerTypeOK
  <1>3. buffer' \in Seq(Repos) /\ Len(buffer') <= Capacity
    <2>1. CASE Receive(w)
      <3>1. buffer' = Tail(buffer) /\ buffer # <<>> /\ Len(buffer) \in Nat
        BY <2>1, Entries DEF Receive, SchedulerTypeOK
      <3> QED BY <3>1, <1>2, SizesAssumption DEF SchedulerTypeOK
    <2>2. CASE ProcessJob(w) \/ RangeEnds(w)
      BY <2>2 DEF ProcessJob, RangeEnds, queue, SchedulerTypeOK
    <2> QED BY <1>1, <2>1, <2>2
  <1>4. hand' \in [Workers -> Repos \cup {None}] /\ alive' \subseteq Workers
    BY <1>1, <1>2 DEF Receive, ProcessJob, RangeEnds
  <1>5. SInv'
    BY <1>1, <1>3, OthersKeep DEF SInv, SchedulerTypeOK
  <1>6. TypeOK' /\ Closing'
    BY <1>1, <1>4, <1>5 DEF SInv, Closing, Active
  <1> QED BY <1>5, <1>6 DEF SInv

LEMMA ServeKeeps ==
  ASSUME IInv, Serve(ServerFails) \/ Serve(Main)
  PROVE  IInv'
  <1> USE DEF IInv, TypeOK
  <1>1. /\ UNCHANGED <<buffer, listing, pc, todo, install, page, found, offered,
                       steady, excused, hand, alive, hook, payload>>
        /\ ServerFails \/ Leave \/ Shutdown \/ Stop \/ Return
    BY DEF Serve, Main, scheduler, workers, webhooks, ServerFails, Leave,
           Shutdown, Stop, Return, queue
  <1>2. /\ stopped' \in BOOLEAN /\ ctxDone' \in BOOLEAN /\ listening' \in BOOLEAN
        /\ gaveUp' \in BOOLEAN /\ main' \in MainStates
    BY <1>1 DEF ServerFails, Leave, Shutdown, Stop, Return, queue, MainStates,
                SchedulerTypeOK
  <1>3. SInv'
    BY <1>1, <1>2, OthersKeep DEF SInv, SchedulerTypeOK
  <1>4. TypeOK'
    BY <1>1, <1>2, <1>3 DEF SInv
  <1>5. Closing'
    <2>1. Active' = Active
      BY <1>1 DEF Active
    <2>2. CASE ServerFails
      BY <2>1, <2>2 DEF Closing, ServerFails, queue
    <2>3. CASE Leave
      BY <2>1, <2>3 DEF Closing, Leave, queue
    <2>4. CASE Shutdown
      BY <2>1, <2>4 DEF Closing, Shutdown, queue
    <2>5. CASE Stop
      BY <2>1, <2>5 DEF Closing, Stop
    <2>6. CASE Return
      BY <2>1, <2>6 DEF Closing, Return, queue
    <2> QED BY <1>1, <2>2, <2>3, <2>4, <2>5, <2>6
  <1> QED BY <1>3, <1>4, <1>5 DEF SInv

-----------------------------------------------------------------------------
(* The theorems.                                                           *)

\* The invariant holds in every behaviour.
THEOREM Inductive == Spec => []IInv
<1>1. ServiceInit => IInv
  <2> SUFFICES ASSUME ServiceInit PROVE IInv
    OBVIOUS
  <2> USE DEF ServiceInit, Init
  <2>1. SchedulerTypeOK
    <3>1. buffer \in Seq(Repos) /\ found \in Seq(Repos) /\ Len(buffer) = 0
      BY EmptySeq
    <3>2. listing \in [Installs -> Seq(Repos)] /\ steady \subseteq Repos
      BY WorldAssumption
    <3>3. Len(buffer) <= Capacity /\ page \in Nat \ {0}
      BY <3>1, SizesAssumption
    <3>4. stopped \in BOOLEAN /\ ctxDone \in BOOLEAN
      OBVIOUS
    <3>5. /\ pc \in States /\ todo \subseteq Installs /\ install \in Installs \cup {None}
          /\ offered \subseteq Repos /\ excused \subseteq Installs
      BY DEF States
    <3> QED BY <3>1, <3>2, <3>3, <3>4, <3>5 DEF SchedulerTypeOK
  <2>2. TypeOK
    BY <2>1, EmptySeq DEF TypeOK, HookStates, MainStates
  <2>3. Cycling /\ Reaching /\ Closing
    BY DEF Cycling, Reaching, Closing
  <2> QED BY <2>2, <2>3 DEF IInv
<1>2. IInv /\ [Next]_vars => IInv'
  <2> SUFFICES ASSUME IInv, [Next]_vars PROVE IInv'
    OBVIOUS
  <2>1. ASSUME Scheduling, UNCHANGED <<workers, webhooks, server>>
        PROVE  IInv'
    <3>1. SInv'
      BY <2>1, SchedulingKeeps DEF IInv, TypeOK, SInv
    <3>2. stopped' = stopped
      BY <2>1 DEF Scheduling, People, Failure, Progress, AddRepo, RemoveRepo,
                  ListInstallations, InstallationsFail, ListRepos, ReposFail,
                  Offer, Enqueue, LoopEnds, Tick, StopTicker, queue
    <3> QED BY <3>1, <3>2, <2>1
            DEF IInv, SInv, TypeOK, Closing, Active, workers, webhooks, server
  <2>2. CASE UNCHANGED vars
    BY <2>2 DEF vars, IInv, TypeOK, SchedulerTypeOK, Cycling, Reaching, Reached,
                ToCome, Behind, Listed, Closing, Active
  <2> QED BY <2>1, <2>2, HooksKeep, CheckKeeps, ServeKeeps
          DEF Next, Schedule, Scheduling
<1> QED BY <1>1, <1>2, PTL DEF Spec

\* The state of the program has its type; no more jobs wait than the queue has
\* room for.
THEOREM TypeCorrect == Spec => []TypeOK
<1>1. IInv => TypeOK
  BY DEF IInv
<1> QED BY <1>1, Inductive, PTL

\* A cycle offers every repository that was installed all along, but for
\* installations of which a listing failed or lost an entry (scheduler.go:67-120).
THEOREM CyclesReachAll == Spec => []CycleReachesAll
<1>1. IInv => CycleReachesAll
  BY DEF IInv, Reaching, Reached, CycleReachesAll
<1> QED BY <1>1, Inductive, PTL

\* Unless Shutdown gave up, no delivery is under way when the queue stops
\* (main.go:160-174).
THEOREM DeliveriesFirst == Spec => []DeliveriesBeforeStop
<1>1. IInv => DeliveriesBeforeStop
  BY DEF IInv, Closing, DeliveriesBeforeStop
<1> QED BY <1>1, Inductive, PTL

-----------------------------------------------------------------------------
(* The program uses the queue as a FifoQueue.                              *)

\* What the scheduler and the deliveries do to the queue.
LEMMA OfferFifo ==
  ASSUME NEW r \in Repos, Enqueue(r), UNCHANGED <<ctxDone, hand, alive>>
  PROVE  [Fifo!Next]_Fifo!vars
  <1>1. CASE Accepts
    BY <1>1 DEF Enqueue, Accepts, Fifo!Enter, Fifo!Next
  <1>2. CASE ~Accepts
    BY <1>2 DEF Enqueue, Fifo!vars
  <1> QED BY <1>1, <1>2

LEMMA SchedulingFifo ==
  ASSUME IInv, Scheduling, UNCHANGED workers
  PROVE  [Fifo!Next]_Fifo!vars
  <1>1. CASE Offer
    <2>1. CASE Head(found) \in Skipped
      BY <1>1, <2>1 DEF Offer, queue, workers, Fifo!vars
    <2>2. CASE Head(found) \notin Skipped
      <3>1. Head(found) \in Repos
        BY <1>1, TailLoses DEF Offer, IInv, TypeOK, SchedulerTypeOK
      <3> QED BY <1>1, <2>2, <3>1, OfferFifo DEF Offer, workers
    <2> QED BY <2>1, <2>2
  <1>2. CASE ~Offer
    BY <1>2 DEF Scheduling, People, Failure, Progress, AddRepo, RemoveRepo,
                ListInstallations, InstallationsFail, ListRepos, ReposFail,
                LoopEnds, Tick, StopTicker, queue, workers, Fifo!vars
  <1> QED BY <1>1, <1>2

LEMMA HooksFifo ==
  ASSUME IInv, NEW d \in Deliveries, Hooks(Arrive(d)) \/ Hooks(Handle(d))
  PROVE  [Fifo!Next]_Fifo!vars
  <1>1. /\ UNCHANGED <<ctxDone, hand, alive>>
        /\ Arrive(d) \/ Dispatch(d) \/ HookOffer(d) \/ Answer(d)
    BY DEF Hooks, Handle, workers
  <1>2. CASE HookOffer(d)
    <2>1. Head(payload[d]) \in Repos
      BY <1>2, TailLoses DEF HookOffer, IInv, TypeOK
    <2> QED BY <1>1, <1>2, <2>1, OfferFifo DEF HookOffer
  <1>3. CASE Arrive(d) \/ Dispatch(d) \/ Answer(d)
    BY <1>1, <1>3 DEF Arrive, Dispatch, Answer, queue, Fifo!vars
  <1> QED BY <1>1, <1>2, <1>3

LEMMA CheckFifo ==
  ASSUME IInv, NEW w \in Workers, Check(w)
  PROVE  [Fifo!Next]_Fifo!vars
  <1> USE DEF Fifo!Next
  <1>1. ctxDone' = ctxDone /\ w \in Workers
    BY DEF Check
  <1>2. CASE Receive(w)
    <2>1. CASE ctxDone
      BY <1>1, <1>2, <2>1 DEF Receive, Fifo!Leave
    <2>2. CASE ~ctxDone
      BY <1>1, <1>2, <2>2 DEF Receive, Fifo!Take
    <2> QED BY <2>1, <2>2
  <1>3. CASE ProcessJob(w)
    BY <1>1, <1>3 DEF ProcessJob, queue, Fifo!Finish
  <1>4. CASE RangeEnds(w)
    BY <1>1, <1>4 DEF RangeEnds, queue, Fifo!Leave
  <1> QED BY <1>2, <1>3, <1>4 DEF Check, Worker

LEMMA ServeFifo ==
  ASSUME Serve(ServerFails) \/ Serve(Main)
  PROVE  [Fifo!Next]_Fifo!vars
  <1> USE DEF Fifo!vars, Fifo!Next, Serve, workers, queue
  <1>1. CASE Serve(ServerFails) \/ Serve(Leave)
    BY <1>1 DEF ServerFails, Leave, Fifo!Cancel
  <1>2. CASE Serve(Stop)
    BY <1>2 DEF Stop, scheduler, Fifo!Shut
  <1>3. CASE Serve(Shutdown) \/ Serve(Return)
    BY <1>3 DEF Shutdown, Return
  <1> QED BY <1>1, <1>2, <1>3 DEF Main

\* Whatever the scheduler, the deliveries and main do, the queue takes jobs while
\* it is open and has room, hands them out oldest first, and loses a worker only
\* in a shutdown (scheduler.go:110, handler.go:131, main.go:107, 174).
THEOREM UsesFifo == Spec => FifoSpec
<1>1. ServiceInit => Fifo!Init
  BY DEF ServiceInit, Init, Fifo!Init
<1>2. ASSUME IInv, [Next]_vars
      PROVE  [Fifo!Next]_Fifo!vars
  <2>1. CASE UNCHANGED vars
    BY <2>1 DEF vars, Fifo!vars
  <2> QED BY <1>2, <2>1, SchedulingFifo, HooksFifo, CheckFifo, ServeFifo
          DEF Next, Schedule, Scheduling
<1> QED BY <1>1, <1>2, Inductive, PTL DEF Spec, FifoSpec, Fifo!Spec
=============================================================================
