-------------------------- MODULE WhitelistProofs --------------------------
(***************************************************************************)
(* The whitelist for any ids, keys, requests and failures: entries in      *)
(* force are admitted at every step, nothing else is, an old key goes      *)
(* before its successor comes, and between requests the memory is exact.   *)
(***************************************************************************)
EXTENDS WhitelistGate, FiniteSetTheorems, SequenceTheorems, WellFoundedInduction, TLAPS

-----------------------------------------------------------------------------
(* Folds.  What a fold over a sequence returns is had by induction over the  *)
(* sets of places it has still to visit; which place it picks does not       *)
(* matter here.                                                              *)

\* A set of numbers with 0 and the successor of each is all of them.
LEMMA AllNumbers ==
  ASSUME NEW Y, 0 \in Y, \A k \in Nat : k \in Y => k + 1 \in Y
  PROVE  Nat \subseteq Y
<1> SUFFICES ASSUME Nat \ Y # {} PROVE FALSE
  OBVIOUS
<1>1. PICK k \in Nat \ Y : \A j \in Nat \ Y : ~(<<j, k>> \in OpToRel(<, Nat))
  BY WFMin, NatLessThanWellFounded
<1>2. \A j \in Nat : j < k => <<j, k>> \in OpToRel(<, Nat)
  BY DEF OpToRel
<1>3. k # 0 /\ k - 1 \in Nat /\ k - 1 < k
  OBVIOUS
<1>4. k - 1 \in Y
  BY <1>1, <1>2, <1>3
<1> QED
  BY <1>3, <1>4

\* A greatest number of a finite, inhabited set.
LEMMA Greatest ==
  ASSUME NEW n \in Nat, NEW S \in SUBSET (1 .. n), S # {}
  PROVE  Max(S) \in S
<1> DEFINE gaps == {n - x : x \in S}
<1>1. gaps \subseteq Nat /\ gaps # {}
  <2>1. \A x \in S : x \in Nat /\ x <= n /\ n - x \in Nat
    OBVIOUS
  <2>2. PICK x : x \in S
    OBVIOUS
  <2> QED
    BY <2>1, <2>2
<1>2. PICK d \in gaps : \A e \in gaps : ~(<<e, d>> \in OpToRel(<, Nat))
  BY <1>1, WFMin, NatLessThanWellFounded
<1>3. \A e \in Nat : e < d => <<e, d>> \in OpToRel(<, Nat)
  BY <1>1 DEF OpToRel
<1>4. PICK x \in S : d = n - x
  OBVIOUS
<1>5. \A y \in S : x >= y
  <2> SUFFICES ASSUME NEW y \in S PROVE ~(n - y < n - x)
    OBVIOUS
  <2>1. n - y \in gaps
    OBVIOUS
  <2> QED
    BY <1>1, <1>2, <1>3, <1>4, <2>1
<1> QED
  BY <1>5 DEF Max

\* What holds of no place and is kept by each that is picked holds of all.
LEMMA AllPlaces ==
  ASSUME NEW D, IsFiniteSet(D), NEW Y, {} \in Y,
         \A s \in SUBSET D : s # {} => \E x \in s : s \ {x} \in Y => s \in Y
  PROVE  SUBSET D \subseteq Y
<1> DEFINE N == {k \in Nat : \A s \in SUBSET D : Cardinality(s) = k => s \in Y}
<1>1. \A s \in SUBSET D : IsFiniteSet(s) /\ Cardinality(s) \in Nat
  BY FS_Subset, FS_CardinalityType
<1>2. \A s \in SUBSET D : Cardinality(s) = 0 => s = {}
  BY <1>1, FS_EmptySet
<1>3. 0 \in N
  BY <1>2
<1>4. ASSUME NEW k \in Nat, k \in N PROVE k + 1 \in N
  <2> SUFFICES ASSUME NEW s \in SUBSET D, Cardinality(s) = k + 1 PROVE s \in Y
    OBVIOUS
  <2>1. s # {}
    <3>1. Cardinality({}) = 0
      BY FS_EmptySet
    <3> QED
      BY <3>1
  <2>2. PICK x \in s : s \ {x} \in Y => s \in Y
    BY <2>1
  <2>3. Cardinality(s \ {x}) = k
    <3>1. IsFiniteSet(s)
      BY <1>1
    <3>2. Cardinality(s \ {x}) = Cardinality(s) - 1
      BY <2>2, <3>1, FS_RemoveElement
    <3> QED
      BY <3>2
  <2>4. s \ {x} \in Y
    BY <1>4, <2>3
  <2> QED
    BY <2>2, <2>4
<1> HIDE DEF N
<1>5. Nat \subseteq N
  BY <1>3, <1>4, AllNumbers
<1> QED
  BY <1>1, <1>5 DEF N

\* A recursion over the places has a solution.
IsFold(g, D, A, base, pick, step) ==
  /\ g \in [SUBSET D -> A]
  /\ \A s \in SUBSET D :
       g[s] = IF s = {} THEN base ELSE step[<<g[s \ {pick[s]}], pick[s]>>]

LEMMA FoldExists ==
  ASSUME NEW D, IsFiniteSet(D), NEW A, NEW base \in A,
         NEW pick, \A s \in SUBSET D : s # {} => pick[s] \in s,
         NEW step \in [A \X D -> A]
  PROVE  \E g : IsFold(g, D, A, base, pick, step)
<1> DEFINE Good(g, k) ==
             \A s \in SUBSET D : Cardinality(s) <= k =>
               g[s] = IF s = {} THEN base ELSE step[<<g[s \ {pick[s]}], pick[s]>>]
           N == {k \in Nat : \E g \in [SUBSET D -> A] : Good(g, k)}
<1>1. \A s \in SUBSET D : IsFiniteSet(s) /\ Cardinality(s) \in Nat /\ Cardinality(s) <= Cardinality(D)
  BY FS_Subset, FS_CardinalityType
<1>2. \A s \in SUBSET D : Cardinality(s) <= 0 => s = {}
  BY <1>1, FS_EmptySet
<1>3. 0 \in N
  <2>1. Good([s \in SUBSET D |-> base], 0)
    BY <1>2
  <2> QED
    BY <2>1
<1>4. ASSUME NEW k \in Nat, k \in N PROVE k + 1 \in N
  <2>1. PICK g \in [SUBSET D -> A] : Good(g, k)
    BY <1>4
  <2> DEFINE h == [s \in SUBSET D |-> IF s = {} THEN base ELSE step[<<g[s \ {pick[s]}], pick[s]>>]]
  <2>2. ASSUME NEW s \in SUBSET D, s # {}
        PROVE  /\ pick[s] \in D /\ s \ {pick[s]} \in SUBSET D
               /\ Cardinality(s \ {pick[s]}) = Cardinality(s) - 1
               /\ step[<<g[s \ {pick[s]}], pick[s]>>] \in A
    <3>1. pick[s] \in s
      BY <2>2
    <3> QED
      BY <1>1, <3>1, FS_RemoveElement
  <2>3. h \in [SUBSET D -> A]
    BY <2>2
  <2>4. ASSUME NEW s \in SUBSET D, Cardinality(s) <= k PROVE h[s] = g[s]
    BY <2>1, <2>4
  <2>5. ASSUME NEW s \in SUBSET D, s # {}, Cardinality(s) <= k + 1
        PROVE  h[s \ {pick[s]}] = g[s \ {pick[s]}]
    <3>1. s \ {pick[s]} \in SUBSET D /\ Cardinality(s \ {pick[s]}) = Cardinality(s) - 1
      BY <2>2, <2>5
    <3>2. Cardinality(s) \in Nat /\ Cardinality(s) - 1 <= k
      BY <1>1, <2>5
    <3> HIDE DEF h
    <3> QED
      BY <2>4, <3>1, <3>2
  <2>6. Good(h, k + 1)
    BY <2>5
  <2> HIDE DEF h, Good
  <2> QED
    BY <2>3, <2>6
<1> HIDE DEF N
<1>5. Cardinality(D) \in N
  BY <1>1, <1>3, <1>4, AllNumbers
<1>6. PICK g \in [SUBSET D -> A] : Good(g, Cardinality(D))
  BY <1>5 DEF N
<1>7. \A s \in SUBSET D :
        g[s] = IF s = {} THEN base ELSE step[<<g[s \ {pick[s]}], pick[s]>>]
  BY <1>1, <1>6
<1> QED
  BY <1>6, <1>7 DEF IsFold

-----------------------------------------------------------------------------
(* The folds of the requests: Dedup, Changes and Replaced *)

\* No id twice.
Singles(s) == \A m, n \in DOMAIN s : s[m].id = s[n].id => m = n

Places(b) == [s \in SUBSET DOMAIN b |-> Max(s)]

LEMMA PlacesFacts ==
  ASSUME NEW b, NEW X, b \in Seq(X)
  PROVE  /\ IsFiniteSet(DOMAIN b) /\ \A n \in DOMAIN b : b[n] \in X
         /\ \A s \in SUBSET DOMAIN b : Places(b)[s] = Max(s)
         /\ \A s \in SUBSET DOMAIN b : s # {} => Max(s) \in s
<1>1. Len(b) \in Nat /\ DOMAIN b = 1 .. Len(b) /\ \A n \in DOMAIN b : b[n] \in X
  OBVIOUS
<1>2. IsFiniteSet(1 .. Len(b))
  <2>1. 1 \in Int /\ Len(b) \in Int
    BY <1>1
  <2> QED
    BY <2>1, FS_Interval
<1>3. \A s \in SUBSET DOMAIN b : s # {} => Max(s) \in s
  BY <1>1, Greatest
<1> QED
  BY <1>1, <1>2, <1>3 DEF Places

\* Dedup takes the items of the request, one per id.
DedupStep(seq, it) ==
  IF it.id \in ItemIds(seq)
  THEN [n \in DOMAIN seq |-> IF seq[n].id = it.id THEN it ELSE seq[n]]
  ELSE Append(seq, it)
DedupFold(b) ==
  CHOOSE g : g = [s \in SUBSET DOMAIN b |->
                    IF s = {} THEN <<>>
                    ELSE LET x == Max(s) IN DedupStep(g[s \ {x}], b[x])]

LEMMA DedupStepFacts ==
  ASSUME NEW seq \in Seq(Item), NEW it \in Item
  PROVE  /\ DedupStep(seq, it) \in Seq(Item)
         /\ Singles(seq) => Singles(DedupStep(seq, it))
         /\ \A n \in DOMAIN DedupStep(seq, it) :
              DedupStep(seq, it)[n] = it \/ \E m \in DOMAIN seq : DedupStep(seq, it)[n] = seq[m]
<1>1. CASE it.id \in ItemIds(seq)
  <2> DEFINE q == [n \in DOMAIN seq |-> IF seq[n].id = it.id THEN it ELSE seq[n]]
  <2>1. DedupStep(seq, it) = q
    BY <1>1 DEF DedupStep
  <2>2. q \in Seq(Item)
    <3>1. \A n \in 1 .. Len(seq) : (IF seq[n].id = it.id THEN it ELSE seq[n]) \in Item
      OBVIOUS
    <3>2. q = [n \in 1 .. Len(seq) |-> IF seq[n].id = it.id THEN it ELSE seq[n]]
      OBVIOUS
    <3> QED
      BY <3>1, <3>2
  <2>3. DOMAIN q = DOMAIN seq /\ \A n \in DOMAIN q : q[n].id = seq[n].id
    OBVIOUS
  <2>4. \A n \in DOMAIN q : q[n] = it \/ q[n] = seq[n]
    OBVIOUS
  <2> HIDE DEF q
  <2> QED
    BY <2>1, <2>2, <2>3, <2>4 DEF Singles
<1>2. CASE it.id \notin ItemIds(seq)
  <2>1. DedupStep(seq, it) = Append(seq, it)
    BY <1>2 DEF DedupStep
  <2> DEFINE q == Append(seq, it)
  <2>2. /\ q \in Seq(Item) /\ DOMAIN q = 1 .. Len(seq) + 1 /\ DOMAIN seq = 1 .. Len(seq)
        /\ q[Len(seq) + 1] = it /\ \A n \in 1 .. Len(seq) : q[n] = seq[n]
    OBVIOUS
  <2>3. \A n \in 1 .. Len(seq) : q[n].id # it.id
    BY <1>2, <2>2 DEF ItemIds
  <2> HIDE DEF q
  <2>4. \A n \in DOMAIN q : n = Len(seq) + 1 \/ n \in 1 .. Len(seq)
    BY <2>2
  <2>5. Singles(seq) => Singles(q)
    BY <2>2, <2>3, <2>4 DEF Singles
  <2> QED
    BY <2>1, <2>2, <2>4, <2>5 DEF q
<1> QED
  BY <1>1, <1>2

LEMMA DedupFoldFacts ==
  ASSUME NEW b \in Seq(Item)
  PROVE  DedupFold(b) = [s \in SUBSET DOMAIN b |->
                           IF s = {} THEN <<>>
                           ELSE LET x == Max(s) IN DedupStep(DedupFold(b)[s \ {x}], b[x])]
<1> DEFINE D == DOMAIN b
           step == [p \in Seq(Item) \X D |-> DedupStep(p[1], b[p[2]])]
           pick == Places(b)
<1>1. /\ IsFiniteSet(D) /\ \A n \in D : b[n] \in Item
      /\ \A s \in SUBSET D : pick[s] = Max(s) /\ (s # {} => pick[s] \in s)
  BY PlacesFacts
<1>2. \A seq \in Seq(Item), x \in D : step[<<seq, x>>] = DedupStep(seq, b[x])
  OBVIOUS
<1>3. step \in [Seq(Item) \X D -> Seq(Item)]
  BY <1>1, DedupStepFacts
<1>4. << >> \in Seq(Item)
  OBVIOUS
<1> HIDE DEF step, pick
<1>5. PICK g : IsFold(g, D, Seq(Item), <<>>, pick, step)
  <2> HIDE DEF D
  <2> QED
    BY <1>1, <1>3, <1>4, FoldExists
<1>6. ASSUME NEW s \in SUBSET D, s # {}
      PROVE  step[<<g[s \ {pick[s]}], pick[s]>>] = DedupStep(g[s \ {Max(s)}], b[Max(s)])
  <2>1. pick[s] = Max(s) /\ Max(s) \in D /\ s \ {Max(s)} \in SUBSET D
    BY <1>1, <1>6
  <2> QED
    BY <1>2, <1>5, <2>1 DEF IsFold
<1>7. g = [s \in SUBSET D |-> IF s = {} THEN <<>>
                              ELSE LET x == Max(s) IN DedupStep(g[s \ {x}], b[x])]
  <2> DEFINE h == [s \in SUBSET D |-> IF s = {} THEN <<>>
                                      ELSE LET x == Max(s) IN DedupStep(g[s \ {x}], b[x])]
  <2>1. DOMAIN g = SUBSET D /\ g = [s \in DOMAIN g |-> g[s]]
    BY <1>5 DEF IsFold
  <2>2. \A s \in SUBSET D : g[s] = h[s]
    BY <1>5, <1>6 DEF IsFold
  <2> QED
    BY <2>1, <2>2
<1> QED
  BY <1>7 DEF DedupFold

LEMMA DedupFacts ==
  ASSUME NEW b \in Seq(Item)
  PROVE  /\ Dedup(b) \in Seq(Item) /\ Singles(Dedup(b))
         /\ \A n \in DOMAIN Dedup(b) : \E m \in DOMAIN b : Dedup(b)[n] = b[m]
<1> DEFINE D == DOMAIN b
           g == DedupFold(b)
           Good(q) == /\ q \in Seq(Item) /\ Singles(q)
                      /\ \A n \in DOMAIN q : \E m \in D : q[n] = b[m]
           Y == {s \in SUBSET D : Good(g[s])}
<1>1. Dedup(b) = g[D]
  BY Zenon DEF Dedup, FoldLeft, MapThenFoldSet, DedupFold, DedupStep
<1>2. /\ IsFiniteSet(D) /\ \A n \in D : b[n] \in Item
      /\ \A s \in SUBSET D : s # {} => Max(s) \in s
  BY PlacesFacts
<1>3. \A s \in SUBSET D : g[s] = IF s = {} THEN <<>> ELSE DedupStep(g[s \ {Max(s)}], b[Max(s)])
  BY DedupFoldFacts
<1>4. {} \in Y
  <2>1. g[{}] = << >>
    BY <1>3
  <2>2. /\ << >> \in Seq(Item) /\ DOMAIN << >> = {} /\ Singles(<< >>)
    BY DEF Singles
  <2> HIDE DEF g
  <2> QED
    BY <2>1, <2>2
<1>5. ASSUME NEW s \in SUBSET D, s # {}
      PROVE  \E x \in s : s \ {x} \in Y => s \in Y
  <2>1. Max(s) \in s /\ g[s] = DedupStep(g[s \ {Max(s)}], b[Max(s)])
    BY <1>2, <1>3, <1>5
  <2>2. ASSUME s \ {Max(s)} \in Y PROVE s \in Y
    <3>1. Good(g[s \ {Max(s)}]) /\ b[Max(s)] \in Item /\ Max(s) \in D
      BY <1>2, <2>1, <2>2
    <3> DEFINE q == g[s \ {Max(s)}]
    <3> HIDE DEF q, g
    <3>2. /\ q \in Seq(Item) /\ Singles(q)
          /\ \A n \in DOMAIN q : \E m \in D : q[n] = b[m]
      BY <3>1 DEF q
    <3> DEFINE r == DedupStep(q, b[Max(s)])
    <3>3. /\ r \in Seq(Item) /\ Singles(r)
          /\ \A n \in DOMAIN r : r[n] = b[Max(s)] \/ \E m \in DOMAIN q : r[n] = q[m]
      BY <3>1, <3>2, DedupStepFacts
    <3> HIDE DEF r
    <3>4. Good(r)
      BY <3>1, <3>2, <3>3
    <3> QED
      BY <2>1, <3>4 DEF q, r
  <2> QED
    BY <2>1, <2>2
<1> HIDE DEF g, Good, Y
<1>6. SUBSET D \subseteq Y
  <2> HIDE DEF D
  <2> QED
    BY <1>2, <1>4, <1>5, AllPlaces
<1> QED
  BY <1>1, <1>6 DEF Y, Good

\* Changes takes the items that change something.
ChangesStep(seq, it) == IF wlEntries[it.id] = it.key THEN seq ELSE Append(seq, it)
ChangesFold(b) ==
  CHOOSE g : g = [s \in SUBSET DOMAIN b |->
                    IF s = {} THEN <<>>
                    ELSE LET x == Max(s) IN ChangesStep(g[s \ {x}], b[x])]

LEMMA AppendFacts ==
  ASSUME NEW X, NEW seq \in Seq(X), NEW x \in X
  PROVE  /\ Append(seq, x) \in Seq(X) /\ DOMAIN Append(seq, x) = 1 .. Len(seq) + 1
         /\ DOMAIN seq = 1 .. Len(seq) /\ Len(seq) \in Nat
         /\ \A n \in DOMAIN seq : Append(seq, x)[n] = seq[n]
         /\ Append(seq, x)[Len(seq) + 1] = x
         /\ \A n \in DOMAIN Append(seq, x) : n = Len(seq) + 1 \/ n \in DOMAIN seq
OBVIOUS

LEMMA ChangesStepFacts ==
  ASSUME NEW seq \in Seq(Item), NEW it \in Item
  PROVE  /\ ChangesStep(seq, it) \in Seq(Item)
         /\ \A n \in DOMAIN ChangesStep(seq, it) :
              \/ ChangesStep(seq, it)[n] = it /\ wlEntries[it.id] # it.key
              \/ \E m \in DOMAIN seq : ChangesStep(seq, it)[n] = seq[m]
         /\ Singles(seq) /\ it.id \notin ItemIds(seq) => Singles(ChangesStep(seq, it))
<1>1. CASE wlEntries[it.id] = it.key
  BY <1>1 DEF ChangesStep
<1>2. CASE wlEntries[it.id] # it.key
  <2> DEFINE q == Append(seq, it)
  <2>1. ChangesStep(seq, it) = q
    BY <1>2 DEF ChangesStep
  <2>2. /\ q \in Seq(Item) /\ DOMAIN q = 1 .. Len(seq) + 1 /\ q[Len(seq) + 1] = it
        /\ \A n \in DOMAIN seq : q[n] = seq[n]
        /\ \A n \in DOMAIN q : n = Len(seq) + 1 \/ n \in DOMAIN seq
    BY AppendFacts
  <2> HIDE DEF q
  <2>3. Singles(seq) /\ it.id \notin ItemIds(seq) => Singles(q)
    BY <2>2 DEF Singles, ItemIds
  <2> QED
    BY <1>2, <2>1, <2>2, <2>3
<1> QED
  BY <1>1, <1>2

LEMMA ChangesFoldFacts ==
  ASSUME NEW b \in Seq(Item)
  PROVE  ChangesFold(b) = [s \in SUBSET DOMAIN b |->
                           IF s = {} THEN <<>>
                           ELSE LET x == Max(s) IN ChangesStep(ChangesFold(b)[s \ {x}], b[x])]
<1> DEFINE D == DOMAIN b
           step == [p \in Seq(Item) \X D |-> ChangesStep(p[1], b[p[2]])]
           pick == Places(b)
<1>1. /\ IsFiniteSet(D) /\ \A n \in D : b[n] \in Item
      /\ \A s \in SUBSET D : pick[s] = Max(s) /\ (s # {} => pick[s] \in s)
  BY PlacesFacts
<1>2. \A seq \in Seq(Item), x \in D : step[<<seq, x>>] = ChangesStep(seq, b[x])
  OBVIOUS
<1>3. step \in [Seq(Item) \X D -> Seq(Item)]
  BY <1>1, ChangesStepFacts
<1>4. << >> \in Seq(Item)
  OBVIOUS
<1> HIDE DEF step, pick
<1>5. PICK g : IsFold(g, D, Seq(Item), <<>>, pick, step)
  <2> HIDE DEF D
  <2> QED
    BY <1>1, <1>3, <1>4, FoldExists
<1>6. ASSUME NEW s \in SUBSET D, s # {}
      PROVE  step[<<g[s \ {pick[s]}], pick[s]>>] = ChangesStep(g[s \ {Max(s)}], b[Max(s)])
  <2>1. pick[s] = Max(s) /\ Max(s) \in D /\ s \ {Max(s)} \in SUBSET D
    BY <1>1, <1>6
  <2> QED
    BY <1>2, <1>5, <2>1 DEF IsFold
<1>7. g = [s \in SUBSET D |-> IF s = {} THEN <<>>
                              ELSE LET x == Max(s) IN ChangesStep(g[s \ {x}], b[x])]
  <2> DEFINE h == [s \in SUBSET D |-> IF s = {} THEN <<>>
                                      ELSE LET x == Max(s) IN ChangesStep(g[s \ {x}], b[x])]
  <2>1. DOMAIN g = SUBSET D /\ g = [s \in DOMAIN g |-> g[s]]
    BY <1>5 DEF IsFold
  <2>2. \A s \in SUBSET D : g[s] = h[s]
    BY <1>5, <1>6 DEF IsFold
  <2> QED
    BY <2>1, <2>2
<1> QED
  BY <1>7 DEF ChangesFold


\* Replaced takes the entries that the items replace.
Old(it) == [id |-> it.id, key |-> wlEntries[it.id]]
ReplacedStep(seq, it) ==
  IF wlEntries[it.id] = None THEN seq
  ELSE Append(seq, [id |-> it.id, key |-> wlEntries[it.id]])
ReplacedFold(b) ==
  CHOOSE g : g = [s \in SUBSET DOMAIN b |->
                    IF s = {} THEN <<>>
                    ELSE LET x == Max(s) IN ReplacedStep(g[s \ {x}], b[x])]

LEMMA ReplacedStepFacts ==
  ASSUME wlEntries \in [Ids -> Keys \cup {None}], NEW seq \in Seq(Item), NEW it \in Item
  PROVE  /\ ReplacedStep(seq, it) \in Seq(Item)
         /\ wlEntries[it.id] = None => ReplacedStep(seq, it) = seq
         /\ wlEntries[it.id] # None =>
              ToSet(ReplacedStep(seq, it)) = ToSet(seq) \cup {Old(it)}
         /\ Singles(seq) /\ it.id \notin ItemIds(seq) => Singles(ReplacedStep(seq, it))
<1>1. CASE wlEntries[it.id] = None
  BY <1>1 DEF ReplacedStep
<1>2. CASE wlEntries[it.id] # None
  <2> DEFINE x == Old(it)
             q == Append(seq, x)
  <2>1. ReplacedStep(seq, it) = q
    BY <1>2 DEF ReplacedStep, Old
  <2>2. x \in Item /\ x.id = it.id
    BY <1>2 DEF Item, Old
  <2> HIDE DEF x
  <2>3. /\ q \in Seq(Item) /\ DOMAIN q = 1 .. Len(seq) + 1 /\ q[Len(seq) + 1] = x
        /\ DOMAIN seq = 1 .. Len(seq) /\ Len(seq) \in Nat
        /\ \A n \in DOMAIN seq : q[n] = seq[n]
        /\ \A n \in DOMAIN q : n = Len(seq) + 1 \/ n \in DOMAIN seq
    BY <2>2, AppendFacts
  <2> HIDE DEF q
  <2>4. Singles(seq) /\ it.id \notin ItemIds(seq) => Singles(q)
    BY <2>2, <2>3 DEF Singles, ItemIds
  <2>5. ToSet(q) = ToSet(seq) \cup {x}
    <3>1. Len(seq) + 1 \in DOMAIN q /\ DOMAIN seq \subseteq DOMAIN q
      BY <2>3
    <3> QED
      BY <2>3, <3>1 DEF ToSet
  <2> QED
    BY <1>2, <2>1, <2>3, <2>4, <2>5 DEF x
<1> QED
  BY <1>1, <1>2

LEMMA ReplacedFoldFacts ==
  ASSUME wlEntries \in [Ids -> Keys \cup {None}], NEW b \in Seq(Item)
  PROVE  ReplacedFold(b) = [s \in SUBSET DOMAIN b |->
                           IF s = {} THEN <<>>
                           ELSE LET x == Max(s) IN ReplacedStep(ReplacedFold(b)[s \ {x}], b[x])]
<1> DEFINE D == DOMAIN b
           step == [p \in Seq(Item) \X D |-> ReplacedStep(p[1], b[p[2]])]
           pick == Places(b)
<1>1. /\ IsFiniteSet(D) /\ \A n \in D : b[n] \in Item
      /\ \A s \in SUBSET D : pick[s] = Max(s) /\ (s # {} => pick[s] \in s)
  BY PlacesFacts
<1>2. \A seq \in Seq(Item), x \in D : step[<<seq, x>>] = ReplacedStep(seq, b[x])
  OBVIOUS
<1>3. step \in [Seq(Item) \X D -> Seq(Item)]
  BY <1>1, ReplacedStepFacts
<1>4. << >> \in Seq(Item)
  OBVIOUS
<1> HIDE DEF step, pick
<1>5. PICK g : IsFold(g, D, Seq(Item), <<>>, pick, step)
  <2> HIDE DEF D
  <2> QED
    BY <1>1, <1>3, <1>4, FoldExists
<1>6. ASSUME NEW s \in SUBSET D, s # {}
      PROVE  step[<<g[s \ {pick[s]}], pick[s]>>] = ReplacedStep(g[s \ {Max(s)}], b[Max(s)])
  <2>1. pick[s] = Max(s) /\ Max(s) \in D /\ s \ {Max(s)} \in SUBSET D
    BY <1>1, <1>6
  <2> QED
    BY <1>2, <1>5, <2>1 DEF IsFold
<1>7. g = [s \in SUBSET D |-> IF s = {} THEN <<>>
                              ELSE LET x == Max(s) IN ReplacedStep(g[s \ {x}], b[x])]
  <2> DEFINE h == [s \in SUBSET D |-> IF s = {} THEN <<>>
                                      ELSE LET x == Max(s) IN ReplacedStep(g[s \ {x}], b[x])]
  <2>1. DOMAIN g = SUBSET D /\ g = [s \in DOMAIN g |-> g[s]]
    BY <1>5 DEF IsFold
  <2>2. \A s \in SUBSET D : g[s] = h[s]
    BY <1>5, <1>6 DEF IsFold
  <2> QED
    BY <2>1, <2>2
<1> QED
  BY <1>7 DEF ReplacedFold

LEMMA ChangesFacts ==
  ASSUME NEW b \in Seq(Item)
  PROVE  /\ Changes(b) \in Seq(Item) /\ Singles(Changes(b))
         /\ \A n \in DOMAIN Changes(b) :
              /\ \E m \in DOMAIN Dedup(b) : Changes(b)[n] = Dedup(b)[m]
              /\ wlEntries[Changes(b)[n].id] # Changes(b)[n].key
<1> DEFINE d == Dedup(b)
           D == DOMAIN d
           g == ChangesFold(d)
           Good(s, q) == /\ q \in Seq(Item) /\ Singles(q)
                         /\ \A n \in DOMAIN q : /\ \E m \in s : q[n] = d[m]
                                                /\ wlEntries[q[n].id] # q[n].key
           Y == {s \in SUBSET D : Good(s, g[s])}
<1>0. d \in Seq(Item) /\ Singles(d)
  BY DedupFacts
<1>1. Changes(b) = g[D]
  BY Zenon DEF Changes, FoldLeft, MapThenFoldSet, ChangesFold, ChangesStep
<1> HIDE DEF d
<1>2. /\ IsFiniteSet(D) /\ \A n \in D : d[n] \in Item
      /\ \A s \in SUBSET D : s # {} => Max(s) \in s
  BY <1>0, PlacesFacts
<1>3. \A s \in SUBSET D : g[s] = IF s = {} THEN <<>> ELSE ChangesStep(g[s \ {Max(s)}], d[Max(s)])
  BY <1>0, ChangesFoldFacts
<1>4. {} \in Y
  <2>1. g[{}] = << >>
    BY <1>3
  <2>2. /\ << >> \in Seq(Item) /\ DOMAIN << >> = {} /\ Singles(<< >>)
    BY DEF Singles
  <2> HIDE DEF g
  <2> QED
    BY <2>1, <2>2
<1>5. ASSUME NEW s \in SUBSET D, s # {}
      PROVE  \E x \in s : s \ {x} \in Y => s \in Y
  <2>1. Max(s) \in s /\ g[s] = ChangesStep(g[s \ {Max(s)}], d[Max(s)])
    BY <1>2, <1>3, <1>5
  <2>2. ASSUME s \ {Max(s)} \in Y PROVE s \in Y
    <3> DEFINE q == g[s \ {Max(s)}]
               it == d[Max(s)]
               r == ChangesStep(q, it)
    <3>1. /\ q \in Seq(Item) /\ Singles(q) /\ it \in Item /\ Max(s) \in D
          /\ \A n \in DOMAIN q : /\ \E m \in s \ {Max(s)} : q[n] = d[m]
                                 /\ wlEntries[q[n].id] # q[n].key
      BY <1>2, <2>1, <2>2
    <3> HIDE DEF q, g
    <3>2. it.id \notin ItemIds(q)
      BY <1>0, <3>1 DEF ItemIds, Singles
    <3>3. /\ r \in Seq(Item) /\ Singles(r)
          /\ \A n \in DOMAIN r : \/ r[n] = it /\ wlEntries[it.id] # it.key
                                 \/ \E m \in DOMAIN q : r[n] = q[m]
      BY <3>1, <3>2, ChangesStepFacts
    <3> HIDE DEF r
    <3>4. Good(s, r)
      BY <2>1, <3>1, <3>3
    <3> QED
      BY <2>1, <3>4 DEF q, r
  <2> QED
    BY <2>1, <2>2
<1> HIDE DEF g, Good, Y
<1>6. SUBSET D \subseteq Y
  <2> HIDE DEF D
  <2> QED
    BY <1>2, <1>4, <1>5, AllPlaces
<1> QED
  BY <1>1, <1>6 DEF Y, Good, d

LEMMA ReplacedFacts ==
  ASSUME wlEntries \in [Ids -> Keys \cup {None}], NEW b \in Seq(Item), Singles(b)
  PROVE  /\ Replaced(b) \in Seq(Item) /\ Singles(Replaced(b))
         /\ ToSet(Replaced(b)) = {Old(b[n]) : n \in {m \in DOMAIN b : wlEntries[b[m].id] # None}}
<1> DEFINE D == DOMAIN b
           g == ReplacedFold(b)
           Was(s) == {Old(b[n]) : n \in {m \in s : wlEntries[b[m].id] # None}}
           Good(s, q) == q \in Seq(Item) /\ Singles(q) /\ ToSet(q) = Was(s)
           Y == {s \in SUBSET D : Good(s, g[s])}
<1>1. Replaced(b) = g[D]
  BY Zenon DEF Replaced, FoldLeft, MapThenFoldSet, ReplacedFold, ReplacedStep
<1>2. /\ IsFiniteSet(D) /\ \A n \in D : b[n] \in Item
      /\ \A s \in SUBSET D : s # {} => Max(s) \in s
  BY PlacesFacts
<1>3. \A s \in SUBSET D : g[s] = IF s = {} THEN <<>> ELSE ReplacedStep(g[s \ {Max(s)}], b[Max(s)])
  BY ReplacedFoldFacts
<1>4. {} \in Y
  <2>1. g[{}] = << >>
    BY <1>3
  <2>2. /\ << >> \in Seq(Item) /\ DOMAIN << >> = {} /\ Singles(<< >>)
        /\ ToSet(<< >>) = {} /\ Was({}) = {}
    BY DEF Singles, ToSet
  <2> HIDE DEF g, Was
  <2> QED
    BY <2>1, <2>2
<1>5. ASSUME NEW s \in SUBSET D, s # {}
      PROVE  \E x \in s : s \ {x} \in Y => s \in Y
  <2>1. Max(s) \in s /\ g[s] = ReplacedStep(g[s \ {Max(s)}], b[Max(s)])
    BY <1>2, <1>3, <1>5
  <2>2. ASSUME s \ {Max(s)} \in Y PROVE s \in Y
    <3> DEFINE q == g[s \ {Max(s)}]
               it == b[Max(s)]
               r == ReplacedStep(q, it)
    <3>1. /\ q \in Seq(Item) /\ Singles(q) /\ it \in Item /\ Max(s) \in D
          /\ ToSet(q) = Was(s \ {Max(s)})
      BY <1>2, <2>1, <2>2
    <3> HIDE DEF q, g
    <3>2. it.id \notin ItemIds(q)
      <4> SUFFICES ASSUME NEW n \in DOMAIN q, q[n].id = it.id PROVE FALSE
        BY DEF ItemIds
      <4>1. q[n] \in Was(s \ {Max(s)})
        BY <3>1 DEF ToSet
      <4>2. PICK m \in s \ {Max(s)} : q[n] = Old(b[m])
        BY <4>1
      <4> QED
        BY <1>2, <2>1, <4>2 DEF Singles, Old
    <3>3. /\ r \in Seq(Item) /\ Singles(r)
          /\ wlEntries[it.id] = None => r = q
          /\ wlEntries[it.id] # None => ToSet(r) = ToSet(q) \cup {Old(it)}
      BY <3>1, <3>2, ReplacedStepFacts
    <3>4. /\ wlEntries[it.id] = None => Was(s) = Was(s \ {Max(s)})
          /\ wlEntries[it.id] # None => Was(s) = Was(s \ {Max(s)}) \cup {Old(it)}
      BY <2>1
    <3> HIDE DEF r, Was
    <3>5. Good(s, r)
      BY <3>1, <3>3, <3>4
    <3> QED
      BY <2>1, <3>5 DEF q, r
  <2> QED
    BY <2>1, <2>2
<1> HIDE DEF g, Good, Y
<1>6. SUBSET D \subseteq Y
  <2> HIDE DEF D
  <2> QED
    BY <1>2, <1>4, <1>5, AllPlaces
<1> QED
  BY <1>1, <1>6 DEF Y, Good

-----------------------------------------------------------------------------
(* Tables and counts *)

Tables == [Ids -> Keys \cup {None}]

\* The ids of table t whose key is in K, the places of s whose key is in K, and the
\* table that the items of s make of w.
Holds(t, K) == {i \in Ids : t[i] \in K}
ItemsIn(s, K) == {n \in DOMAIN s : s[n].key \in K}
Over(w, s) ==
  [i \in Ids |-> IF i \in ItemIds(s) THEN (CHOOSE it \in ToSet(s) : it.id = i).key ELSE w[i]]

KeysOfCombo(c) == {k \in Keys : Combo[k] = c}
CountOf(t) == [c \in Combos |-> Cardinality(Holds(t, KeysOfCombo(c)))]
SizeOf(t) == Cardinality(Holds(t, Keys))

LEMMA ItemFacts ==
  ASSUME NEW s \in Seq(Item)
  PROVE  /\ \A n \in DOMAIN s : s[n] \in Item /\ s[n].id \in Ids /\ s[n].key \in Keys
         /\ ItemIds(s) \subseteq Ids /\ ItemKeys(s) \subseteq Keys
<1>1. \A n \in DOMAIN s : s[n] \in Item
  OBVIOUS
<1>2. \A x \in Item : x.id \in Ids /\ x.key \in Keys
  BY DEF Item
<1> QED
  BY <1>1, <1>2 DEF ItemIds, ItemKeys

LEMMA HoldsFinite ==
  ASSUME NEW t, NEW K
  PROVE  IsFiniteSet(Holds(t, K)) /\ Cardinality(Holds(t, K)) \in Nat
<1>1. Holds(t, K) \in SUBSET Ids /\ IsFiniteSet(Ids)
  BY WhitelistAssumption DEF Holds
<1> QED
  BY <1>1, FS_Subset, FS_CardinalityType

LEMMA SetFinite ==
  ASSUME NEW S \in SUBSET Ids PROVE IsFiniteSet(S) /\ Cardinality(S) \in Nat
<1>1. IsFiniteSet(Ids)
  BY WhitelistAssumption
<1> QED
  BY <1>1, FS_Subset, FS_CardinalityType

\* As many ids as places.
LEMMA IdsOfPlaces ==
  ASSUME NEW s \in Seq(Item), Singles(s), NEW N \in SUBSET DOMAIN s
  PROVE  Cardinality({s[n].id : n \in N}) = Cardinality(N) /\ Cardinality(N) \in Nat
<1> DEFINE I == {s[n].id : n \in N}
           f == [n \in N |-> s[n].id]
<1>1. IsFiniteSet(N)
  <2>1. IsFiniteSet(DOMAIN s)
    BY PlacesFacts
  <2> QED
    BY <2>1, FS_Subset
<1>2. f \in Bijection(N, I)
  BY DEF Bijection, Injection, Surjection, IsInjective, Singles
<1>3. ExistsBijection(N, I)
  BY <1>2 DEF ExistsBijection
<1> QED
  BY <1>1, <1>3, FS_Bijection, FS_CardinalityType

LEMMA NumberFacts ==
  ASSUME NEW s \in Seq(Item), Singles(s)
  PROVE  /\ \A c : Number(s, c) = Cardinality(ItemsIn(s, KeysOfCombo(c)))
         /\ Len(s) = Cardinality(ItemsIn(s, Keys))
         /\ \A K : /\ Cardinality(ItemsIn(s, K)) \in Nat
                   /\ Cardinality(ItemsIn(s, K)) = Cardinality({s[n].id : n \in ItemsIn(s, K)})
<1>1. \A c : {n \in DOMAIN s : Combo[s[n].key] = c} = ItemsIn(s, KeysOfCombo(c))
  BY ItemFacts DEF ItemsIn, KeysOfCombo
<1>2. Len(s) = Cardinality(ItemsIn(s, Keys))
  <2>1. ItemsIn(s, Keys) = 1 .. Len(s) /\ 1 \in Int /\ Len(s) \in Int /\ Len(s) \in Nat
    BY ItemFacts DEF ItemsIn
  <2>2. Cardinality(1 .. Len(s)) = IF 1 > Len(s) THEN 0 ELSE Len(s) - 1 + 1
    BY <2>1, FS_Interval
  <2> QED
    BY <2>1, <2>2
<1>3. \A K : ItemsIn(s, K) \in SUBSET DOMAIN s
  BY DEF ItemsIn
<1> QED
  BY <1>1, <1>2, <1>3, IdsOfPlaces DEF Number

LEMMA OverFacts ==
  ASSUME NEW w \in Tables, NEW s \in Seq(Item), Singles(s)
  PROVE  /\ Over(w, s) \in Tables
         /\ \A n \in DOMAIN s : Over(w, s)[s[n].id] = s[n].key
         /\ \A i \in Ids \ ItemIds(s) : Over(w, s)[i] = w[i]
<1>1. ASSUME NEW n \in DOMAIN s
      PROVE  (CHOOSE it \in ToSet(s) : it.id = s[n].id) = s[n]
  <2>1. s[n] \in ToSet(s) /\ \A it \in ToSet(s) : it.id = s[n].id => it = s[n]
    BY DEF ToSet, Singles
  <2> QED
    BY <2>1
<1>2. \A n \in DOMAIN s : s[n].id \in Ids /\ s[n].key \in Keys /\ s[n].id \in ItemIds(s)
  BY ItemFacts DEF ItemIds
<1>3. \A n \in DOMAIN s : Over(w, s)[s[n].id] = s[n].key
  BY <1>1, <1>2 DEF Over
<1>4. ASSUME NEW i \in ItemIds(s) PROVE (CHOOSE it \in ToSet(s) : it.id = i).key \in Keys
  <2>1. PICK n \in DOMAIN s : i = s[n].id
    BY DEF ItemIds
  <2> QED
    BY <1>1, <1>2, <2>1
<1>5. Over(w, s) \in Tables
  BY <1>4 DEF Over, Tables
<1> QED
  BY <1>3, <1>5 DEF Over

\* What the items change about a count.
LEMMA OverCount ==
  ASSUME NEW w \in Tables, NEW s \in Seq(Item), Singles(s), NEW K \in SUBSET Keys
  PROVE  Cardinality(Holds(Over(w, s), K))
           = Cardinality(Holds(w, K)) - Cardinality({i \in ItemIds(s) : w[i] \in K})
             + Cardinality(ItemsIn(s, K))
<1> DEFINE W == Holds(w, K)
           R == {i \in ItemIds(s) : w[i] \in K}
           P == {s[n].id : n \in ItemsIn(s, K)}
           F == Holds(Over(w, s), K)
<1>1. ItemIds(s) \subseteq Ids /\ \A n \in DOMAIN s : s[n].id \in ItemIds(s)
  BY ItemFacts DEF ItemIds
<1>2. /\ \A n \in DOMAIN s : Over(w, s)[s[n].id] = s[n].key
      /\ \A i \in Ids \ ItemIds(s) : Over(w, s)[i] = w[i]
  BY OverFacts
<1>3. F = (W \ R) \cup P
  <2>1. ASSUME NEW i \in ItemIds(s) PROVE i \in F <=> i \in P
    <3>1. PICK n \in DOMAIN s : i = s[n].id
      BY <2>1 DEF ItemIds
    <3>2. Over(w, s)[i] = s[n].key /\ i \in Ids
      BY <1>1, <1>2, <3>1
    <3>3. \A m \in DOMAIN s : s[m].id = i => m = n
      BY <3>1 DEF Singles
    <3> QED
      BY <3>1, <3>2, <3>3 DEF Holds, ItemsIn
  <2>2. P \subseteq ItemIds(s)
    BY <1>1 DEF ItemsIn
  <2>3. \A i \in ItemIds(s) : i \in W \ R <=> FALSE
    BY DEF Holds
  <2>4. \A i \in Ids \ ItemIds(s) : i \in F <=> i \in W \ R
    BY <1>2 DEF Holds
  <2>5. F \subseteq Ids /\ W \subseteq Ids
    BY DEF Holds
  <2> HIDE DEF F, W, R, P
  <2> QED
    BY <1>1, <2>1, <2>2, <2>3, <2>4, <2>5
<1>4. (W \ R) \cap P = {}
  BY <1>1 DEF Holds, ItemsIn
<1>5. R \subseteq W /\ W \cap R = R /\ R \subseteq Ids /\ W \subseteq Ids /\ P \subseteq Ids
  BY <1>1 DEF Holds, ItemsIn
<1>6. Cardinality(P) = Cardinality(ItemsIn(s, K)) /\ Cardinality(P) \in Nat
  BY NumberFacts
<1> HIDE DEF F, W, R, P
<1>7. /\ IsFiniteSet(W) /\ IsFiniteSet(R) /\ IsFiniteSet(P) /\ IsFiniteSet(W \ R)
      /\ Cardinality(W) \in Nat /\ Cardinality(R) \in Nat /\ Cardinality(W \ R) \in Nat
  BY <1>5, SetFinite
<1>8. Cardinality(W \ R) = Cardinality(W) - Cardinality(R)
  BY <1>5, <1>7, FS_Difference
<1>9. Cardinality(F) = Cardinality(W \ R) + Cardinality(P) - Cardinality({})
  BY <1>3, <1>4, <1>7, FS_Union
<1>10. Cardinality({}) = 0
  BY FS_EmptySet
<1>11. Cardinality(F) = Cardinality(W) - Cardinality(R) + Cardinality(ItemsIn(s, K))
  BY <1>6, <1>7, <1>8, <1>9, <1>10
<1> QED
  BY <1>11 DEF F, W, R

-----------------------------------------------------------------------------
(* The inductive invariant *)

Supporteds == {t \in Tables : \A i \in Ids : t[i] # None => Combo[t[i]] \in Combos}

\* The items of a request: each id once, each key for one id, only supported combos.
Requests ==
  {s \in Seq(Item) : /\ Singles(s)
                     /\ \A m, n \in DOMAIN s : s[m].key = s[n].key => s[m].id = s[n].id
                     /\ \A n \in DOMAIN s : Combo[s[n].key] \in Combos}

CombosOf(t) == {Combo[t[i]] : i \in Present(t)}
ConfType == [bitmap : SUBSET Combos, count : Int, sel : Slots]

TypeOK ==
  /\ wlEntries \in Supporteds /\ committed \in Supporteds
  /\ wlKeyIndex \in [Keys -> Ids \cup {None}]
  /\ activeWLSlot \in Slots /\ activeConfig \in Slots
  /\ wl \in [Slots -> SUBSET Keys] /\ conf \in [Slots -> ConfType]
  /\ prepared \in Requests /\ todo \in Seq(Item) /\ done \in Seq(Item) /\ ids \in Seq(Ids)
  /\ delta \in Int /\ undoing \in BOOLEAN /\ botched \in BOOLEAN
  /\ targets \in SUBSET Ids

\* The table a running add is to leave, and what an add replaces and keeps.
Final == Over(committed, prepared)
Olds  == {committed[i] : i \in ItemIds(prepared)} \ {None}
Kept  == KeysOf(committed) \ Olds
Map   == wl[activeWLSlot]

\* What the counts announce, and what the active config says: an add announces its
\* table before its entries are inserted, and an undone one takes it back.
Announced ==
  IF kind = "add" /\ (pc \in {"insert", "remove"} \/ (pc \in Publishing /\ ~undoing)) THEN Final
  ELSE IF kind = "sync" /\ pc \in Publishing THEN Over(EmptyTable, prepared)
  ELSE wlEntries
Published ==
  IF kind = "add" /\ (pc \in {"insert", "remove"} \/ undoing) THEN Final ELSE committed

\* Index and counts, at every step of every handler.
Memory ==
  /\ \A k \in Keys, i \in Ids : wlKeyIndex[k] = i <=> wlEntries[i] = k
  /\ wlComboRefCount = CountOf(Announced)

\* The change of the entry count that is, or has been, published.
DeltaOK ==
  /\ kind \in {"add", "del", "clear"} /\ pc \in Publishing \cup {"delete", "clearall"} =>
       SizeOf(Announced) = SizeOf(Published) + delta
  /\ kind = "add" /\ (pc \in {"insert", "remove"} \/ (pc = "reinsert" /\ undoing)) =>
       SizeOf(Final) = SizeOf(committed) + delta

\* The config in force says what is published; the other one is prepared step by step.
Confs ==
  /\ conf[activeConfig].sel =
       IF kind = "sync" /\ pc \in Publishing THEN Other(activeWLSlot) ELSE activeWLSlot
  /\ ~botched => /\ conf[activeConfig].bitmap = CombosOf(Published)
                 /\ conf[activeConfig].count = SizeOf(Published)
  /\ pc \in {"copysel", "writebits"} => conf[Target].count = conf[activeConfig].count
  /\ pc \in {"writesel", "flip"} =>
       /\ conf[Target].bitmap = CombosOf(Announced)
       /\ ~botched => conf[Target].count = SizeOf(Announced)
  /\ pc = "flip" => conf[Target].sel = activeWLSlot

NoneInv ==
  kind = "none" =>
    /\ pc = "idle" /\ prepared = <<>> /\ delta = 0 /\ ~undoing /\ targets = {}
    /\ wlEntries = committed
    /\ ~botched => Map = KeysOf(committed)

\* An add: what it replaces leaves the map, what it brings enters it, or all the way back.
AddInv ==
  kind = "add" =>
    /\ pc \in {"delold", "insert", "remove", "reinsert"} \cup Publishing
    /\ wlEntries = committed /\ targets = ItemIds(prepared)
    /\ ItemKeys(prepared) \cap KeysOf(committed) = {}
    /\ pc \in {"delold", "insert"} => ~undoing
    /\ pc = "remove" => undoing
    /\ pc = "delold" => /\ ItemKeys(done) \cup ItemKeys(todo) = Olds
                        /\ ~botched => Map = KeysOf(committed) \ ItemKeys(done)
    /\ pc \in Publishing /\ ~undoing /\ ~botched => Map = Kept
    /\ pc = "insert" => /\ ItemKeys(done) \cup ItemKeys(todo) = ItemKeys(prepared)
                        /\ ~botched => Map = Kept \cup ItemKeys(done)
    /\ pc = "remove" => /\ ItemKeys(todo) \subseteq ItemKeys(prepared)
                        /\ ~botched => Kept \subseteq Map /\ Map \subseteq Kept \cup ItemKeys(todo)
    /\ pc = "reinsert" =>
         /\ ItemKeys(todo) \subseteq Olds
         /\ ~botched => /\ KeysOf(committed) \ ItemKeys(todo) \subseteq Map
                        /\ Map \subseteq KeysOf(committed)
    /\ pc \in Publishing /\ undoing /\ ~botched => Map = KeysOf(committed)

\* A delete: what it has taken is in done, until that is put back.
DelInv ==
  kind = "del" =>
    /\ pc \in {"delete", "reinsert"} \cup Publishing
    /\ prepared = <<>> /\ ~undoing /\ ToSet(ids) \subseteq targets
    /\ pc # "reinsert" =>
         /\ Singles(done) /\ ItemIds(done) \subseteq targets
         /\ \A n \in DOMAIN done : /\ wlEntries[done[n].id] = None
                                   /\ committed[done[n].id] = done[n].key
         /\ \A i \in Ids \ ItemIds(done) : wlEntries[i] = committed[i]
         /\ ~botched => Map = KeysOf(wlEntries)
    /\ pc = "reinsert" =>
         /\ wlEntries = committed
         /\ ItemKeys(todo) \subseteq {committed[i] : i \in targets} \ {None}
         /\ ~botched => /\ KeysOf(committed) \ ItemKeys(todo) \subseteq Map
                        /\ Map \subseteq KeysOf(committed)

ClearInv ==
  kind = "clear" =>
    /\ pc \in {"clearall"} \cup Publishing
    /\ prepared = <<>> /\ ~undoing /\ targets = Ids
    /\ \A i \in Ids : wlEntries[i] \in {committed[i], None}
    /\ ~botched => Map = KeysOf(wlEntries)

\* A full sync: the map in force is left alone until the other is filled and published.
SyncInv ==
  kind = "sync" =>
    /\ pc \in {"clear", "fill", "cleanup"} \cup Publishing
    /\ wlEntries = committed /\ ~undoing
    /\ pc \in {"clear", "fill", "cleanup"} /\ ~botched => Map = KeysOf(committed)
    /\ pc = "fill" => /\ ItemKeys(done) \cup ItemKeys(todo) = ItemKeys(prepared)
                      /\ wl[Shadow] = ItemKeys(done)
    /\ pc \in Publishing => /\ Map = ItemKeys(prepared) /\ saved = CountOf(wlEntries)
                            /\ ~botched => wl[Shadow] = KeysOf(committed)
    /\ pc = "cleanup" => targets = {}
    /\ pc # "cleanup" => \A i \in Ids \ targets : committed[i] # None => committed[i] \in ItemKeys(prepared)

KindInv == /\ kind \in {"none", "add", "del", "clear", "sync"}
           /\ NoneInv /\ AddInv /\ DelInv /\ ClearInv /\ SyncInv

\* Only a handler leaves an entry half made: no id has two keys, and no key two ids.
Once == \A i, j \in Ids : committed[i] = committed[j] /\ committed[i] # None => i = j

IInv == TypeOK /\ Memory /\ DeltaOK /\ Confs /\ KindInv /\ Once

-----------------------------------------------------------------------------
(* What the requests make of a table, its counts and its index *)

LEMMA NoneFacts == None \notin Ids /\ None \notin Keys /\ None \notin Combos
BY WhitelistAssumption

LEMMA SlotFacts ==
  ASSUME NEW s \in Slots
  PROVE  Other(s) \in Slots /\ Other(s) # s /\ Other(Other(s)) = s
BY DEF Slots, Other

LEMMA KeysOfFacts ==
  ASSUME NEW t \in Tables
  PROVE  /\ \A i \in Ids : i \in Present(t) <=> t[i] # None
         /\ \A i \in Ids : t[i] # None => t[i] \in KeysOf(t) /\ t[i] \in Keys
         /\ \A k \in KeysOf(t) : \E i \in Ids : t[i] = k /\ t[i] # None
         /\ KeysOf(t) \subseteq Keys
<1>1. \A i \in Ids : i \in Present(t) <=> t[i] # None
  BY DEF Present
<1>2. \A i \in Ids : t[i] # None => t[i] \in KeysOf(t) /\ t[i] \in Keys
  BY <1>1 DEF KeysOf, Tables
<1>3. \A k \in KeysOf(t) : \E i \in Ids : t[i] = k /\ t[i] # None
  BY DEF KeysOf, Present
<1> QED
  BY <1>1, <1>2, <1>3

LEMMA RequestFacts ==
  ASSUME NEW s \in Requests
  PROVE  /\ s \in Seq(Item) /\ Singles(s)
         /\ \A n \in DOMAIN s : /\ s[n].id \in Ids /\ s[n].key \in Keys
                                /\ s[n].id \in ItemIds(s) /\ s[n].key \in ItemKeys(s)
                                /\ Combo[s[n].key] \in Combos
         /\ \A m, n \in DOMAIN s : s[m].key = s[n].key => s[m].id = s[n].id
         /\ \A i \in ItemIds(s) : \E n \in DOMAIN s : s[n].id = i
         /\ \A k \in ItemKeys(s) : \E n \in DOMAIN s : s[n].key = k
         /\ ItemIds(s) \subseteq Ids /\ ItemKeys(s) \subseteq Keys
<1>1. s \in Seq(Item) /\ Singles(s)
  BY DEF Requests
<1>2. /\ \A m, n \in DOMAIN s : s[m].key = s[n].key => s[m].id = s[n].id
      /\ \A n \in DOMAIN s : Combo[s[n].key] \in Combos
  BY DEF Requests
<1>3. /\ \A n \in DOMAIN s : s[n].id \in ItemIds(s) /\ s[n].key \in ItemKeys(s)
      /\ \A i \in ItemIds(s) : \E n \in DOMAIN s : s[n].id = i
      /\ \A k \in ItemKeys(s) : \E n \in DOMAIN s : s[n].key = k
  BY DEF ItemIds, ItemKeys
<1> QED
  BY <1>1, <1>2, <1>3, ItemFacts

\* No request at all is one.
LEMMA NoRequest ==
  /\ << >> \in Requests /\ << >> \in Seq(Item) /\ << >> \in Seq(Ids)
  /\ ItemIds(<< >>) = {} /\ ItemKeys(<< >>) = {} /\ DOMAIN << >> = {}
<1>1. << >> \in Seq(Item) /\ << >> \in Seq(Ids) /\ DOMAIN << >> = {}
  OBVIOUS
<1> QED
  BY <1>1 DEF Requests, Singles, ItemIds, ItemKeys

LEMMA EmptyFacts ==
  /\ EmptyTable \in Supporteds /\ Present(EmptyTable) = {} /\ KeysOf(EmptyTable) = {}
  /\ CombosOf(EmptyTable) = {} /\ CountOf(EmptyTable) = NoCounts /\ SizeOf(EmptyTable) = 0
<1>1. /\ EmptyTable \in Supporteds /\ Present(EmptyTable) = {} /\ KeysOf(EmptyTable) = {}
      /\ CombosOf(EmptyTable) = {}
  BY DEF EmptyTable, Supporteds, Tables, Present, KeysOf, CombosOf
<1>2. \A K \in SUBSET Keys : Holds(EmptyTable, K) = {}
  BY NoneFacts DEF EmptyTable, Holds
<1>3. \A c : KeysOfCombo(c) \in SUBSET Keys
  BY DEF KeysOfCombo
<1>4. Cardinality({}) = 0
  BY FS_EmptySet
<1> QED
  BY <1>1, <1>2, <1>3, <1>4 DEF CountOf, SizeOf, NoCounts

\* The combos that are counted are those of the entries.
LEMMA CombosAreCounted ==
  ASSUME NEW t \in Supporteds
  PROVE  /\ {c \in Combos : CountOf(t)[c] > 0} = CombosOf(t) /\ CombosOf(t) \subseteq Combos
         /\ CountOf(t) \in [Combos -> Nat] /\ SizeOf(t) \in Nat
         /\ \A i \in Ids : t[i] # None => Combo[t[i]] \in CombosOf(t)
<1>1. t \in Tables /\ \A i \in Ids : t[i] # None => Combo[t[i]] \in Combos
  BY DEF Supporteds
<1>2. \A c : /\ IsFiniteSet(Holds(t, KeysOfCombo(c)))
             /\ Cardinality(Holds(t, KeysOfCombo(c))) \in Nat
  BY HoldsFinite
<1>3. \A c : Cardinality(Holds(t, KeysOfCombo(c))) > 0 <=> Holds(t, KeysOfCombo(c)) # {}
  BY <1>2, FS_EmptySet
<1>4. \A c \in Combos : Holds(t, KeysOfCombo(c)) # {} <=> c \in CombosOf(t)
  <2> SUFFICES ASSUME NEW c \in Combos PROVE Holds(t, KeysOfCombo(c)) # {} <=> c \in CombosOf(t)
    OBVIOUS
  <2>1. \A i \in Ids : i \in Holds(t, KeysOfCombo(c)) <=> t[i] # None /\ Combo[t[i]] = c
    BY <1>1, NoneFacts DEF Holds, KeysOfCombo, Tables
  <2>2. Holds(t, KeysOfCombo(c)) \subseteq Ids
    BY DEF Holds
  <2> QED
    BY <2>1, <2>2 DEF CombosOf, Present
<1>5. CombosOf(t) \subseteq Combos /\ \A i \in Ids : t[i] # None => Combo[t[i]] \in CombosOf(t)
  BY <1>1 DEF CombosOf, Present
<1>6. \A c \in Combos : CountOf(t)[c] = Cardinality(Holds(t, KeysOfCombo(c)))
  BY DEF CountOf
<1>7. CountOf(t) \in [Combos -> Nat] /\ SizeOf(t) \in Nat
  BY <1>2, HoldsFinite DEF CountOf, SizeOf
<1> QED
  BY <1>3, <1>4, <1>5, <1>6, <1>7

LEMMA OverSupported ==
  ASSUME NEW w \in Supporteds, NEW s \in Requests PROVE Over(w, s) \in Supporteds
<1>1. w \in Tables /\ s \in Seq(Item) /\ Singles(s)
  BY RequestFacts DEF Supporteds
<1>2. /\ Over(w, s) \in Tables
      /\ \A n \in DOMAIN s : Over(w, s)[s[n].id] = s[n].key
      /\ \A i \in Ids \ ItemIds(s) : Over(w, s)[i] = w[i]
  BY <1>1, OverFacts
<1>3. ASSUME NEW i \in Ids, Over(w, s)[i] # None PROVE Combo[Over(w, s)[i]] \in Combos
  <2>1. CASE i \in ItemIds(s)
    BY <1>2, <2>1, RequestFacts
  <2>2. CASE i \notin ItemIds(s)
    BY <1>2, <1>3, <2>2 DEF Supporteds
  <2> QED
    BY <2>1, <2>2
<1> QED
  BY <1>2, <1>3 DEF Supporteds

\* The keys after an add that brings fresh ones; and after a sync.
LEMMA OverKeys ==
  ASSUME NEW w \in Tables, NEW s \in Seq(Item), Singles(s)
  PROVE  KeysOf(Over(w, s)) = {w[i] : i \in Present(w) \ ItemIds(s)} \cup ItemKeys(s)
<1>1. /\ Over(w, s) \in Tables
      /\ \A n \in DOMAIN s : Over(w, s)[s[n].id] = s[n].key
      /\ \A i \in Ids \ ItemIds(s) : Over(w, s)[i] = w[i]
  BY OverFacts
<1>2. \A n \in DOMAIN s : s[n].id \in Ids /\ s[n].key \in Keys /\ s[n].key # None
  BY ItemFacts, NoneFacts
<1>3. ASSUME NEW k \in KeysOf(Over(w, s))
      PROVE  k \in {w[i] : i \in Present(w) \ ItemIds(s)} \cup ItemKeys(s)
  <2>1. PICK i \in Ids : Over(w, s)[i] = k /\ k # None
    BY <1>1, KeysOfFacts
  <2>2. CASE i \in ItemIds(s)
    BY <1>1, <2>1, <2>2 DEF ItemIds, ItemKeys
  <2>3. CASE i \notin ItemIds(s)
    BY <1>1, <2>1, <2>3 DEF Present
  <2> QED
    BY <2>2, <2>3
<1>4. \A i \in Present(w) \ ItemIds(s) : w[i] \in KeysOf(Over(w, s))
  BY <1>1, KeysOfFacts DEF Present
<1>5. \A n \in DOMAIN s : s[n].key \in KeysOf(Over(w, s))
  <2> SUFFICES ASSUME NEW n \in DOMAIN s PROVE s[n].key \in KeysOf(Over(w, s))
    OBVIOUS
  <2>1. Over(w, s)[s[n].id] = s[n].key /\ s[n].id \in Ids /\ s[n].key # None
    BY <1>1, <1>2
  <2> QED
    BY <1>1, <2>1, KeysOfFacts
<1> QED
  BY <1>3, <1>4, <1>5 DEF ItemKeys

\* What an add replaces, in numbers.
LEMMA ReplacedCount ==
  ASSUME wlEntries \in Supporteds, NEW s \in Requests
  PROVE  /\ Replaced(s) \in Seq(Item)
         /\ ItemKeys(Replaced(s)) = {wlEntries[i] : i \in ItemIds(s)} \ {None}
         /\ \A c : Number(Replaced(s), c) = Cardinality({i \in ItemIds(s) : wlEntries[i] \in KeysOfCombo(c)})
         /\ Len(Replaced(s)) = Cardinality({i \in ItemIds(s) : wlEntries[i] \in Keys})
<1> DEFINE R == Replaced(s)
<1>1. wlEntries \in [Ids -> Keys \cup {None}]
  BY DEF Supporteds, Tables
<1>2. s \in Seq(Item) /\ Singles(s)
  BY RequestFacts
<1>3. /\ R \in Seq(Item) /\ Singles(R)
      /\ ToSet(R) = {Old(s[n]) : n \in {m \in DOMAIN s : wlEntries[s[m].id] # None}}
  BY <1>1, <1>2, ReplacedFacts
<1> HIDE DEF R
<1>4. \A n \in DOMAIN R : \E m \in DOMAIN s : /\ wlEntries[s[m].id] # None /\ R[n].id = s[m].id
                                             /\ R[n].key = wlEntries[s[m].id]
  <2> SUFFICES ASSUME NEW n \in DOMAIN R
               PROVE  \E m \in DOMAIN s : /\ wlEntries[s[m].id] # None /\ R[n].id = s[m].id
                                          /\ R[n].key = wlEntries[s[m].id]
    OBVIOUS
  <2>1. R[n] \in ToSet(R)
    BY DEF ToSet
  <2>2. PICK m \in DOMAIN s : wlEntries[s[m].id] # None /\ R[n] = Old(s[m])
    BY <1>3, <2>1
  <2> QED
    BY <2>2 DEF Old
<1>5. \A m \in DOMAIN s : wlEntries[s[m].id] # None =>
        \E n \in DOMAIN R : R[n].id = s[m].id /\ R[n].key = wlEntries[s[m].id]
  <2> SUFFICES ASSUME NEW m \in DOMAIN s, wlEntries[s[m].id] # None
               PROVE  \E n \in DOMAIN R : R[n].id = s[m].id /\ R[n].key = wlEntries[s[m].id]
    OBVIOUS
  <2>1. Old(s[m]) \in ToSet(R)
    BY <1>3
  <2>2. PICK n \in DOMAIN R : R[n] = Old(s[m])
    BY <2>1 DEF ToSet
  <2> QED
    BY <2>2 DEF Old
<1>6. ASSUME NEW K \in SUBSET Keys
      PROVE  Cardinality(ItemsIn(R, K)) = Cardinality({i \in ItemIds(s) : wlEntries[i] \in K})
  <2>1. {R[n].id : n \in ItemsIn(R, K)} = {i \in ItemIds(s) : wlEntries[i] \in K}
    <3>1. ASSUME NEW n \in ItemsIn(R, K)
          PROVE  R[n].id \in ItemIds(s) /\ wlEntries[R[n].id] \in K
      BY <1>4, <3>1 DEF ItemsIn, ItemIds
    <3>2. ASSUME NEW i \in ItemIds(s), wlEntries[i] \in K
          PROVE  \E n \in ItemsIn(R, K) : R[n].id = i
      <4>1. PICK m \in DOMAIN s : s[m].id = i
        BY DEF ItemIds
      <4>2. wlEntries[i] # None
        BY <3>2, NoneFacts
      <4>3. PICK n \in DOMAIN R : R[n].id = i /\ R[n].key = wlEntries[i]
        BY <1>5, <4>1, <4>2
      <4> QED
        BY <3>2, <4>3 DEF ItemsIn
    <3> QED
      BY <3>1, <3>2
  <2>2. Cardinality(ItemsIn(R, K)) = Cardinality({R[n].id : n \in ItemsIn(R, K)})
    BY <1>3, NumberFacts
  <2> QED
    BY <2>1, <2>2
<1>7. ItemKeys(R) = {wlEntries[i] : i \in ItemIds(s)} \ {None}
  <2>1. ItemKeys(R) \subseteq {wlEntries[i] : i \in ItemIds(s)} \ {None}
    BY <1>4 DEF ItemKeys, ItemIds
  <2>2. \A m \in DOMAIN s : wlEntries[s[m].id] # None => wlEntries[s[m].id] \in ItemKeys(R)
    BY <1>5 DEF ItemKeys
  <2>3. {wlEntries[i] : i \in ItemIds(s)} \ {None} \subseteq ItemKeys(R)
    BY <2>2 DEF ItemIds
  <2> QED
    BY <2>1, <2>3
<1>8. \A c : KeysOfCombo(c) \in SUBSET Keys
  BY DEF KeysOfCombo
<1>9. /\ \A c : Number(R, c) = Cardinality({i \in ItemIds(s) : wlEntries[i] \in KeysOfCombo(c)})
      /\ Len(R) = Cardinality({i \in ItemIds(s) : wlEntries[i] \in Keys})
  BY <1>3, <1>6, <1>8, NumberFacts
<1> QED
  BY <1>3, <1>7, <1>9 DEF R

\* So an add counts what its table holds, and an undo counts back.
LEMMA AddCounts ==
  ASSUME wlEntries \in Supporteds, NEW s \in Requests
  PROVE  LET v == Over(wlEntries, s) IN
         /\ CountOf(v) = [c \in Combos |-> CountOf(wlEntries)[c] - Number(Replaced(s), c) + Number(s, c)]
         /\ CountOf(wlEntries) = [c \in Combos |-> CountOf(v)[c] - Number(s, c) + Number(Replaced(s), c)]
         /\ SizeOf(v) = SizeOf(wlEntries) + (Len(s) - Len(Replaced(s)))
<1> DEFINE v == Over(wlEntries, s)
           R(K) == Cardinality({i \in ItemIds(s) : wlEntries[i] \in K})
<1>1. /\ wlEntries \in Tables /\ s \in Seq(Item) /\ Singles(s) /\ ItemIds(s) \subseteq Ids
  BY RequestFacts DEF Supporteds
<1>2. \A K \in SUBSET Keys :
        /\ Cardinality(Holds(v, K)) = Cardinality(Holds(wlEntries, K)) - R(K) + Cardinality(ItemsIn(s, K))
        /\ Cardinality(Holds(wlEntries, K)) \in Nat /\ R(K) \in Nat /\ Cardinality(ItemsIn(s, K)) \in Nat
  <2> SUFFICES ASSUME NEW K \in SUBSET Keys
               PROVE  /\ Cardinality(Holds(v, K)) = Cardinality(Holds(wlEntries, K)) - R(K) + Cardinality(ItemsIn(s, K))
                      /\ Cardinality(Holds(wlEntries, K)) \in Nat /\ R(K) \in Nat
                      /\ Cardinality(ItemsIn(s, K)) \in Nat
    OBVIOUS
  <2>1. {i \in ItemIds(s) : wlEntries[i] \in K} \in SUBSET Ids
    BY <1>1
  <2>2. R(K) \in Nat
    BY <2>1, SetFinite
  <2> QED
    BY <1>1, <2>2, OverCount, HoldsFinite, NumberFacts
<1>3. \A c : KeysOfCombo(c) \in SUBSET Keys
  BY DEF KeysOfCombo
<1>4. /\ \A c : Number(Replaced(s), c) = R(KeysOfCombo(c))
      /\ Len(Replaced(s)) = R(Keys)
  BY ReplacedCount
<1>5. /\ \A c : Number(s, c) = Cardinality(ItemsIn(s, KeysOfCombo(c)))
      /\ Len(s) = Cardinality(ItemsIn(s, Keys))
  BY <1>1, NumberFacts
<1> HIDE DEF v, R
<1>6. \A c \in Combos :
        /\ CountOf(v)[c] = CountOf(wlEntries)[c] - Number(Replaced(s), c) + Number(s, c)
        /\ CountOf(wlEntries)[c] = CountOf(v)[c] - Number(s, c) + Number(Replaced(s), c)
  BY <1>2, <1>3, <1>4, <1>5 DEF CountOf
<1>7. CountOf(v) = [c \in Combos |-> CountOf(v)[c]] /\ CountOf(wlEntries) = [c \in Combos |-> CountOf(wlEntries)[c]]
  BY DEF CountOf
<1>8. CountOf(v) = [c \in Combos |-> CountOf(wlEntries)[c] - Number(Replaced(s), c) + Number(s, c)]
  BY <1>6, <1>7
<1>9. CountOf(wlEntries) = [c \in Combos |-> CountOf(v)[c] - Number(s, c) + Number(Replaced(s), c)]
  BY <1>6, <1>7
<1>10. SizeOf(v) = SizeOf(wlEntries) + (Len(s) - Len(Replaced(s)))
  BY <1>2, <1>4, <1>5 DEF SizeOf
<1> QED
  BY <1>8, <1>9, <1>10 DEF v

\* Items whose ids the table does not hold add their number.
LEMMA FreshCounts ==
  ASSUME NEW w \in Tables, NEW s \in Seq(Item), Singles(s), \A n \in DOMAIN s : w[s[n].id] = None
  PROVE  /\ CountOf(Over(w, s)) = [c \in Combos |-> CountOf(w)[c] + Number(s, c)]
         /\ SizeOf(Over(w, s)) = SizeOf(w) + Len(s)
<1>1. \A K \in SUBSET Keys : {i \in ItemIds(s) : w[i] \in K} = {}
  BY NoneFacts DEF ItemIds
<1>2. \A K \in SUBSET Keys :
        /\ Cardinality(Holds(Over(w, s), K)) = Cardinality(Holds(w, K)) + Cardinality(ItemsIn(s, K))
        /\ Cardinality(Holds(w, K)) \in Nat /\ Cardinality(ItemsIn(s, K)) \in Nat
  <2> SUFFICES ASSUME NEW K \in SUBSET Keys
               PROVE  /\ Cardinality(Holds(Over(w, s), K)) = Cardinality(Holds(w, K)) + Cardinality(ItemsIn(s, K))
                      /\ Cardinality(Holds(w, K)) \in Nat /\ Cardinality(ItemsIn(s, K)) \in Nat
    OBVIOUS
  <2>1. Cardinality(Holds(Over(w, s), K))
          = Cardinality(Holds(w, K)) - Cardinality({i \in ItemIds(s) : w[i] \in K}) + Cardinality(ItemsIn(s, K))
    BY OverCount
  <2>2. Cardinality({i \in ItemIds(s) : w[i] \in K}) = 0
    BY <1>1, FS_EmptySet
  <2>3. Cardinality(Holds(w, K)) \in Nat /\ Cardinality(ItemsIn(s, K)) \in Nat
    BY HoldsFinite, NumberFacts
  <2> QED
    BY <2>1, <2>2, <2>3
<1>3. \A c : KeysOfCombo(c) \in SUBSET Keys
  BY DEF KeysOfCombo
<1>4. /\ \A c : Number(s, c) = Cardinality(ItemsIn(s, KeysOfCombo(c)))
      /\ Len(s) = Cardinality(ItemsIn(s, Keys))
  BY NumberFacts
<1>5. \A c \in Combos : CountOf(Over(w, s))[c] = CountOf(w)[c] + Number(s, c)
  BY <1>2, <1>3, <1>4 DEF CountOf
<1>6. CountOf(Over(w, s)) = [c \in Combos |-> CountOf(Over(w, s))[c]]
  BY DEF CountOf
<1>7. SizeOf(Over(w, s)) = SizeOf(w) + Len(s)
  BY <1>2, <1>4 DEF SizeOf
<1> QED
  BY <1>5, <1>6, <1>7

\* The index stays the inverse of the table.
IndexOver(x, s, D) ==
  [k \in Keys |-> IF k \in ItemKeys(s) THEN (CHOOSE it \in ToSet(s) : it.key = k).id
                  ELSE IF k \in D THEN None ELSE x[k]]

LEMMA IndexOverFacts ==
  ASSUME NEW w \in Tables, NEW x \in [Keys -> Ids \cup {None}],
         \A k \in Keys, i \in Ids : x[k] = i <=> w[i] = k,
         NEW s \in Requests, \A n \in DOMAIN s : x[s[n].key] \in {None, s[n].id},
         NEW D, D = {w[i] : i \in ItemIds(s)} \ {None},
         NEW y, y = IndexOver(x, s, D)
  PROVE  /\ y \in [Keys -> Ids \cup {None}]
         /\ \A k \in Keys, i \in Ids : y[k] = i <=> Over(w, s)[i] = k
<1> USE DEF IndexOver
<1> DEFINE v == Over(w, s)
<1>1. /\ s \in Seq(Item) /\ Singles(s)
      /\ \A n \in DOMAIN s : s[n].id \in Ids /\ s[n].key \in Keys
                             /\ s[n].id \in ItemIds(s) /\ s[n].key \in ItemKeys(s)
      /\ \A m, n \in DOMAIN s : s[m].key = s[n].key => s[m].id = s[n].id
      /\ \A i \in ItemIds(s) : \E n \in DOMAIN s : s[n].id = i
      /\ \A k \in ItemKeys(s) : \E n \in DOMAIN s : s[n].key = k
  BY RequestFacts
<1>2. /\ v \in Tables /\ \A n \in DOMAIN s : v[s[n].id] = s[n].key
      /\ \A i \in Ids \ ItemIds(s) : v[i] = w[i]
  BY <1>1, OverFacts
<1> HIDE DEF v
<1>3. ASSUME NEW n \in DOMAIN s PROVE y[s[n].key] = s[n].id
  <2> DEFINE it == CHOOSE it \in ToSet(s) : it.key = s[n].key
  <2>1. s[n] \in ToSet(s)
    BY DEF ToSet
  <2>2. it \in ToSet(s) /\ it.key = s[n].key
    BY <2>1
  <2>3. PICK m \in DOMAIN s : it = s[m]
    BY <2>2 DEF ToSet
  <2>4. it.id = s[n].id
    BY <1>1, <2>2, <2>3
  <2> QED
    BY <1>1, <2>4
<1>4. \A k \in Keys \ ItemKeys(s) : y[k] = IF k \in D THEN None ELSE x[k]
  OBVIOUS
<1>5. y \in [Keys -> Ids \cup {None}]
  <2>1. \A k \in ItemKeys(s) : k \in Keys => y[k] \in Ids
    BY <1>1, <1>3
  <2>2. \A k \in Keys : y[k] \in Ids \cup {None}
    BY <1>4, <2>1
  <2> QED
    BY <2>2
<1>6. ASSUME NEW k \in Keys, NEW i \in Ids PROVE y[k] = i <=> v[i] = k
  <2>1. CASE k \in ItemKeys(s)
    <3>1. PICK n \in DOMAIN s : s[n].key = k
      BY <1>1, <2>1
    <3>2. y[k] = s[n].id /\ v[s[n].id] = k
      BY <1>2, <1>3, <3>1
    <3>3. v[i] = k => i = s[n].id
      <4>1. CASE i \in ItemIds(s)
        <5>1. PICK m \in DOMAIN s : s[m].id = i
          BY <1>1, <4>1
        <5> QED
          BY <1>1, <1>2, <3>1, <5>1
      <4>2. CASE i \notin ItemIds(s)
        <5>1. v[i] = w[i] /\ (v[i] = k => x[k] = i)
          BY <1>2, <4>2
        <5>2. x[k] \in {None, s[n].id} /\ i # None
          BY <3>1, NoneFacts
        <5> QED
          BY <5>1, <5>2
      <4> QED
        BY <4>1, <4>2
    <3> QED
      BY <3>2, <3>3
  <2>2. CASE k \notin ItemKeys(s)
    <3>1. CASE i \in ItemIds(s)
      <4>1. PICK n \in DOMAIN s : s[n].id = i
        BY <1>1, <3>1
      <4>2. v[i] = s[n].key /\ s[n].key # k
        BY <1>1, <1>2, <2>2, <4>1
      <4>3. y[k] # i
        <5>1. CASE k \in D
          BY <1>4, <2>2, <5>1, NoneFacts
        <5>2. CASE k \notin D
          <6>1. y[k] = x[k] /\ (x[k] = i => w[i] = k)
            BY <1>4, <2>2, <5>2
          <6>2. w[i] = k => k \in D
            BY <3>1, NoneFacts
          <6> QED
            BY <5>2, <6>1, <6>2
        <5> QED
          BY <5>1, <5>2
      <4> QED
        BY <4>2, <4>3
    <3>2. CASE i \notin ItemIds(s)
      <4>1. v[i] = w[i]
        BY <1>2, <3>2
      <4>2. CASE k \in D
        <5>1. PICK j \in ItemIds(s) : w[j] = k
          BY <4>2
        <5>2. j \in Ids /\ x[k] = j
          BY <1>1, <5>1
        <5> QED
          BY <1>4, <2>2, <3>2, <4>1, <4>2, <5>2, NoneFacts
      <4>3. CASE k \notin D
        BY <1>4, <2>2, <4>1, <4>3
      <4> QED
        BY <4>2, <4>3
    <3> QED
      BY <3>1, <3>2
  <2> QED
    BY <2>1, <2>2
<1> QED
  BY <1>5, <1>6 DEF v

\* A full sync: the table of its items.
LEMMA SyncFacts ==
  ASSUME prepared \in Requests
  PROVE  LET v == Over(EmptyTable, prepared) IN
         /\ v \in Supporteds /\ SyncEntries = v /\ KeysOf(v) = ItemKeys(prepared)
         /\ CountOf(v) = [c \in Combos |-> Number(prepared, c)]
         /\ SizeOf(v) = Len(prepared)
         /\ SyncIndex \in [Keys -> Ids \cup {None}]
         /\ \A k \in Keys, i \in Ids : SyncIndex[k] = i <=> v[i] = k
<1> DEFINE v == Over(EmptyTable, prepared)
<1>0. EmptyTable \in Tables /\ EmptyTable \in Supporteds /\ prepared \in Seq(Item) /\ Singles(prepared)
  BY EmptyFacts, RequestFacts DEF Supporteds
<1>1. v \in Supporteds
  BY <1>0, OverSupported
<1>2. SyncEntries = v
  BY RequestFacts DEF SyncEntries, Over, EmptyTable
<1>3. KeysOf(v) = ItemKeys(prepared)
  BY <1>0, OverKeys, EmptyFacts
<1>4. \A n \in DOMAIN prepared : EmptyTable[prepared[n].id] = None
  BY RequestFacts DEF EmptyTable
<1>5. /\ CountOf(v) = [c \in Combos |-> NoCounts[c] + Number(prepared, c)]
      /\ SizeOf(v) = 0 + Len(prepared)
  BY <1>0, <1>4, FreshCounts, EmptyFacts
<1>6. \A c : Number(prepared, c) \in Nat
  BY <1>0, NumberFacts
<1>7. CountOf(v) = [c \in Combos |-> Number(prepared, c)]
  <2>1. \A c \in Combos : NoCounts[c] + Number(prepared, c) = Number(prepared, c)
    BY <1>6 DEF NoCounts
  <2> QED
    BY <1>5, <2>1
<1>8. SizeOf(v) = Len(prepared)
  BY <1>0, <1>5
<1>9. /\ SyncIndex \in [Keys -> Ids \cup {None}]
      /\ \A k \in Keys, i \in Ids : SyncIndex[k] = i <=> v[i] = k
  <2>1. EmptyIndex \in [Keys -> Ids \cup {None}]
    BY DEF EmptyIndex
  <2>2. \A k \in Keys, i \in Ids : EmptyIndex[k] = i <=> EmptyTable[i] = k
    BY NoneFacts DEF EmptyIndex, EmptyTable
  <2>3. \A n \in DOMAIN prepared : EmptyIndex[prepared[n].key] \in {None, prepared[n].id}
    BY RequestFacts DEF EmptyIndex
  <2>0. PICK D, y : D = {} /\ y = SyncIndex
    OBVIOUS
  <2>4. D = {EmptyTable[i] : i \in ItemIds(prepared)} \ {None}
    BY <2>0, RequestFacts DEF EmptyTable
  <2>5. y = IndexOver(EmptyIndex, prepared, D)
    BY <2>0 DEF SyncIndex, EmptyIndex, IndexOver
  <2>6. /\ y \in [Keys -> Ids \cup {None}]
        /\ \A k \in Keys, i \in Ids : y[k] = i <=> Over(EmptyTable, prepared)[i] = k
    BY <1>0, <2>1, <2>2, <2>3, <2>4, <2>5, IndexOverFacts
  <2> QED
    BY <2>0, <2>6
<1> QED
  BY <1>1, <1>2, <1>3, <1>7, <1>8, <1>9

\* One entry less.
LEMMA ForgetFacts ==
  ASSUME NEW w \in Supporteds, NEW i \in Ids, w[i] # None,
         \A j, k \in Ids : w[j] = w[k] /\ w[j] # None => j = k
  PROVE  LET v == [w EXCEPT ![i] = None] IN
         /\ v \in Supporteds /\ KeysOf(v) = KeysOf(w) \ {w[i]}
         /\ CountOf(v) = [CountOf(w) EXCEPT ![Combo[w[i]]] = @ - 1]
         /\ SizeOf(v) = SizeOf(w) - 1
<1> DEFINE v == [w EXCEPT ![i] = None]
<1>1. w \in Tables /\ w[i] \in Keys /\ Combo[w[i]] \in Combos
  BY DEF Supporteds, Tables
<1>2. v \in Tables /\ v[i] = None /\ \A j \in Ids \ {i} : v[j] = w[j]
  BY <1>1 DEF Tables
<1>3. v \in Supporteds
  BY <1>2 DEF Supporteds
<1>4. \A K \in SUBSET Keys : Holds(v, K) = Holds(w, K) \ {i}
  BY <1>2, NoneFacts DEF Holds
<1>5. KeysOf(v) = KeysOf(w) \ {w[i]}
  <2> HIDE DEF v
  <2>1. \A k \in KeysOf(v) : k \in KeysOf(w) /\ k # w[i]
    <3> SUFFICES ASSUME NEW k \in KeysOf(v) PROVE k \in KeysOf(w) /\ k # w[i]
      OBVIOUS
    <3>1. PICK j \in Ids : v[j] = k /\ k # None
      BY <1>2, KeysOfFacts
    <3>2. j # i /\ w[j] = k
      BY <1>2, <3>1
    <3> QED
      BY <1>1, <3>1, <3>2, KeysOfFacts
  <2>2. \A k \in KeysOf(w) : k # w[i] => k \in KeysOf(v)
    <3> SUFFICES ASSUME NEW k \in KeysOf(w), k # w[i] PROVE k \in KeysOf(v)
      OBVIOUS
    <3>1. PICK j \in Ids : w[j] = k /\ k # None
      BY <1>1, KeysOfFacts
    <3>2. v[j] = k
      BY <1>2, <3>1
    <3> QED
      BY <1>2, <3>1, <3>2, KeysOfFacts
  <2> QED
    BY <2>1, <2>2
<1> HIDE DEF v
<1>6. \A K \in SUBSET Keys : Cardinality(Holds(v, K)) =
        IF w[i] \in K THEN Cardinality(Holds(w, K)) - 1 ELSE Cardinality(Holds(w, K))
  <2> SUFFICES ASSUME NEW K \in SUBSET Keys
               PROVE  Cardinality(Holds(v, K)) =
                        IF w[i] \in K THEN Cardinality(Holds(w, K)) - 1 ELSE Cardinality(Holds(w, K))
    OBVIOUS
  <2>1. IsFiniteSet(Holds(w, K)) /\ (i \in Holds(w, K) <=> w[i] \in K)
    BY HoldsFinite DEF Holds
  <2>2. Cardinality(Holds(w, K) \ {i}) =
          IF i \in Holds(w, K) THEN Cardinality(Holds(w, K)) - 1 ELSE Cardinality(Holds(w, K))
    BY <2>1, FS_RemoveElement
  <2> QED
    BY <1>4, <2>1, <2>2
<1>7. \A c : KeysOfCombo(c) \in SUBSET Keys /\ (w[i] \in KeysOfCombo(c) <=> Combo[w[i]] = c)
  BY <1>1 DEF KeysOfCombo
<1>8. \A c \in Combos : CountOf(v)[c] = IF c = Combo[w[i]] THEN CountOf(w)[c] - 1 ELSE CountOf(w)[c]
  BY <1>6, <1>7 DEF CountOf
<1>9. CountOf(v) = [CountOf(w) EXCEPT ![Combo[w[i]]] = CountOf(w)[Combo[w[i]]] - 1]
  <2>1. DOMAIN CountOf(v) = Combos /\ DOMAIN CountOf(w) = Combos
        /\ CountOf(v) = [c \in Combos |-> CountOf(v)[c]]
    BY DEF CountOf
  <2> QED
    BY <1>8, <2>1
<1>10. SizeOf(v) = SizeOf(w) - 1
  BY <1>1, <1>6 DEF SizeOf
<1> QED
  BY <1>3, <1>5, <1>9, <1>10 DEF v

-----------------------------------------------------------------------------
(* How steps are put together *)

LEMMA TypeFacts ==
  ASSUME TypeOK
  PROVE  /\ wlEntries \in Tables /\ committed \in Tables
         /\ Shadow \in Slots /\ Shadow # activeWLSlot /\ Other(Shadow) = activeWLSlot
         /\ Target \in Slots /\ Target # activeConfig /\ Other(Target) = activeConfig
         /\ Map \subseteq Keys /\ wl[Shadow] \subseteq Keys
         /\ Final \in Supporteds
BY SlotFacts, OverSupported DEF TypeOK, Supporteds, Shadow, Target, Map, Final

\* The handler of another kind has nothing to say.
LEMMA KindFrame ==
  /\ kind' = "add" /\ AddInv' => KindInv'
  /\ kind' = "del" /\ DelInv' => KindInv'
  /\ kind' = "clear" /\ ClearInv' => KindInv'
  /\ kind' = "sync" /\ SyncInv' => KindInv'
BY DEF KindInv, NoneInv, AddInv, DelInv, ClearInv, SyncInv

\* One owner per key.
LEMMA OnceFacts ==
  ASSUME NEW t \in Tables, NEW x, \A k \in Keys, i \in Ids : x[k] = i <=> t[i] = k
  PROVE  \A i, j \in Ids : t[i] = t[j] /\ t[i] # None => i = j
BY DEF Tables

\* A handler that returns with table, index, counts, maps and config in step.
LEMMA ReturnInv ==
  ASSUME NEW t \in Supporteds, Return(t), wlEntries' = t,
         wlKeyIndex' \in [Keys -> Ids \cup {None}],
         \A k \in Keys, i \in Ids : wlKeyIndex'[k] = i <=> t[i] = k,
         wlComboRefCount' = CountOf(t),
         activeWLSlot' \in Slots, activeConfig' \in Slots,
         wl' \in [Slots -> SUBSET Keys], conf' \in [Slots -> ConfType], botched' \in BOOLEAN,
         conf'[activeConfig'].sel = activeWLSlot',
         ~botched' => /\ wl'[activeWLSlot'] = KeysOf(t)
                      /\ conf'[activeConfig'].bitmap = CombosOf(t)
                      /\ conf'[activeConfig'].count = SizeOf(t)
  PROVE  IInv'
<1>1. /\ pc' = "idle" /\ kind' = "none" /\ prepared' = <<>> /\ todo' = <<>> /\ done' = <<>>
      /\ ids' = <<>> /\ delta' = 0 /\ undoing' = FALSE /\ committed' = t /\ targets' = {}
  BY DEF Return
<1>2. TypeOK'
  <2>1. prepared' \in Requests /\ todo' \in Seq(Item) /\ done' \in Seq(Item) /\ ids' \in Seq(Ids)
    BY <1>1, NoRequest
  <2>2. wlEntries' \in Supporteds /\ committed' \in Supporteds
    BY <1>1
  <2>3. delta' \in Int /\ targets' \in SUBSET Ids
    BY <1>1
  <2>4. undoing' \in BOOLEAN
    BY <1>1, Zenon
  <2> QED
    BY <2>1, <2>2, <2>3, <2>4 DEF TypeOK
<1>3. Announced' = t /\ Published' = t
  BY <1>1 DEF Announced, Published
<1>4. Memory'
  BY <1>3 DEF Memory
<1>5. DeltaOK' /\ Confs'
  BY <1>1, <1>3 DEF DeltaOK, Confs, Publishing
<1>6. KindInv'
  BY <1>1 DEF KindInv, NoneInv, AddInv, DelInv, ClearInv, SyncInv, Map
<1>7. Once'
  <2>1. t \in Tables
    BY DEF Supporteds
  <2>2. \A i, j \in Ids : t[i] = t[j] /\ t[i] # None => i = j
    BY <2>1, OnceFacts
  <2> QED
    BY <1>1, <2>2 DEF Once
<1> QED
  BY <1>2, <1>4, <1>5, <1>6, <1>7 DEF IInv

LEMMA InitInv == Init => IInv
<1> SUFFICES ASSUME Init PROVE IInv
  OBVIOUS
<1> USE DEF Init
<1>1. TypeOK
  <2>1. prepared \in Requests /\ todo \in Seq(Item) /\ done \in Seq(Item) /\ ids \in Seq(Ids)
    BY NoRequest
  <2>2. wlEntries \in Supporteds /\ committed \in Supporteds
    BY EmptyFacts
  <2>3. undoing \in BOOLEAN /\ botched \in BOOLEAN
    BY Zenon
  <2>7. delta \in Int /\ targets \in SUBSET Ids
    OBVIOUS
  <2>4. wlKeyIndex \in [Keys -> Ids \cup {None}] /\ wl \in [Slots -> SUBSET Keys]
    BY DEF EmptyIndex
  <2>5. activeWLSlot \in Slots /\ activeConfig \in Slots
    BY DEF Slots
  <2>6. conf \in [Slots -> ConfType]
    <3>1. [bitmap |-> {}, count |-> 0, sel |-> 0] \in ConfType
      BY DEF ConfType, Slots
    <3> QED
      BY <3>1
  <2> QED
    BY <2>1, <2>2, <2>3, <2>4, <2>5, <2>6, <2>7 DEF TypeOK
<1>2. Announced = EmptyTable /\ Published = EmptyTable
  BY DEF Announced, Published
<1>3. Memory
  BY <1>2, EmptyFacts, NoneFacts DEF Memory, EmptyIndex, EmptyTable
<1>4. DeltaOK /\ Confs
  BY <1>2, EmptyFacts DEF DeltaOK, Confs, Publishing, Slots
<1>5. KindInv
  BY EmptyFacts DEF KindInv, NoneInv, AddInv, DelInv, ClearInv, SyncInv, Map, Slots
<1>6. Once
  BY DEF Once, EmptyTable
<1> QED
  BY <1>1, <1>3, <1>4, <1>5, <1>6 DEF IInv

-----------------------------------------------------------------------------
(* Publishing *)

\* A step within a publish changes the config that is not in force, and nothing else.
LEMMA PubKeeps ==
  ASSUME IInv, pc \in Publishing, pc' \in Publishing,
         UNCHANGED <<wl, table, activeWLSlot, local, ghost>>
  PROVE  /\ Memory' /\ DeltaOK' /\ KindInv' /\ Once'
         /\ Announced' = Announced /\ Published' = Published
<1>1. UNCHANGED <<wl, wlEntries, wlKeyIndex, wlComboRefCount, activeWLSlot, kind, prepared, todo,
                  done, ids, delta, undoing, saved, committed, targets, botched>>
  BY DEF table, local, ghost
<1>2. /\ pc \notin {"idle", "delold", "insert", "remove", "reinsert", "delete", "clearall",
                    "clear", "fill", "cleanup"}
      /\ pc' \notin {"idle", "delold", "insert", "remove", "reinsert", "delete", "clearall",
                     "clear", "fill", "cleanup"}
  BY DEF Publishing
<1>3. /\ Final' = Final /\ Olds' = Olds /\ Kept' = Kept /\ Map' = Map /\ Shadow' = Shadow
  BY <1>1 DEF Final, Olds, Kept, Map, Shadow
<1>4. Announced' = Announced /\ Published' = Published
  BY <1>1, <1>2, <1>3 DEF Announced, Published
<1>5. Memory' /\ Once'
  BY <1>1, <1>4 DEF IInv, Memory, Once
<1>6. DeltaOK'
  BY <1>1, <1>2, <1>3, <1>4 DEF IInv, DeltaOK
<1>7. NoneInv' /\ AddInv'
  BY <1>1, <1>2, <1>3 DEF IInv, KindInv, NoneInv, AddInv
<1>8. DelInv' /\ ClearInv'
  BY <1>1, <1>2, <1>3 DEF IInv, KindInv, DelInv, ClearInv
<1>9. SyncInv'
  BY <1>1, <1>2, <1>3 DEF IInv, KindInv, SyncInv
<1> QED
  BY <1>1, <1>4, <1>5, <1>6, <1>7, <1>8, <1>9 DEF IInv, KindInv

\* The handlers that publish.
LEMMA PubKinds ==
  ASSUME IInv, pc \in Publishing
  PROVE  /\ kind \in {"add", "del", "clear", "sync"}
         /\ undoing => kind = "add"
BY DEF IInv, KindInv, NoneInv, DelInv, ClearInv, SyncInv, Publishing

LEMMA PubTypes ==
  ASSUME IInv, pc \in Publishing, pc' \in Publishing, activeConfig' = activeConfig,
         UNCHANGED <<wl, table, activeWLSlot, local, ghost>>,
         conf' \in [Slots -> ConfType]
  PROVE  TypeOK' /\ Target' = Target
<1>1. TypeOK /\ Target' = Target
  BY DEF IInv, Target
<1>2. TypeOK'
  BY <1>1 DEF TypeOK, table, local, ghost
<1> QED
  BY <1>1, <1>2

\* A write of some fields leaves the others, and the other config.
WithBits(f, s, b)  == [f EXCEPT ![s].bitmap = b]
WithCount(f, s, n) == [f EXCEPT ![s].count = n]
WithSel(f, s, l)   == [f EXCEPT ![s].sel = l]

LEMMA WriteBits ==
  ASSUME NEW f \in [Slots -> ConfType], NEW s \in Slots, NEW b \in SUBSET Combos
  PROVE  LET g == WithBits(f, s, b) IN
         /\ g \in [Slots -> ConfType] /\ \A o \in Slots \ {s} : g[o] = f[o]
         /\ g[s].bitmap = b /\ g[s].count = f[s].count /\ g[s].sel = f[s].sel
BY DEF WithBits, ConfType

LEMMA WriteCount ==
  ASSUME NEW f \in [Slots -> ConfType], NEW s \in Slots, NEW n \in Int
  PROVE  LET g == WithCount(f, s, n) IN
         /\ g \in [Slots -> ConfType] /\ \A o \in Slots \ {s} : g[o] = f[o]
         /\ g[s].bitmap = f[s].bitmap /\ g[s].count = n /\ g[s].sel = f[s].sel
BY DEF WithCount, ConfType

LEMMA WriteSel ==
  ASSUME NEW f \in [Slots -> ConfType], NEW s \in Slots, NEW l \in Slots
  PROVE  LET g == WithSel(f, s, l) IN
         /\ g \in [Slots -> ConfType] /\ \A o \in Slots \ {s} : g[o] = f[o]
         /\ g[s].bitmap = f[s].bitmap /\ g[s].count = f[s].count /\ g[s].sel = l
BY DEF WithSel, ConfType

LEMMA WriteBoth ==
  ASSUME NEW f \in [Slots -> ConfType], NEW s \in Slots, NEW b \in SUBSET Combos, NEW n \in Int
  PROVE  LET g == WithCount(WithBits(f, s, b), s, n) IN
         /\ g \in [Slots -> ConfType] /\ \A o \in Slots \ {s} : g[o] = f[o]
         /\ g[s].bitmap = b /\ g[s].count = n /\ g[s].sel = f[s].sel
<1>1. PICK h : h = WithBits(f, s, b)
  OBVIOUS
<1>2. /\ h \in [Slots -> ConfType] /\ \A o \in Slots \ {s} : h[o] = f[o]
      /\ h[s].bitmap = b /\ h[s].sel = f[s].sel
  BY <1>1, WriteBits
<1> QED
  BY <1>1, <1>2, WriteCount

LEMMA PubStepInv ==
  ASSUME IInv, PubCopyBits \/ PubCopySel \/ PubWriteBits \/ PubWriteSel PROVE IInv'
<1> DEFINE old == conf[Target]
           act == conf[activeConfig]
           new == conf'[Target]
<1>0. TypeOK /\ Confs /\ Target \in Slots /\ Target # activeConfig /\ old \in ConfType /\ act \in ConfType
  BY TypeFacts DEF IInv, TypeOK
<1>1. pc \in Publishing /\ pc' \in Publishing /\ activeConfig' = activeConfig
      /\ UNCHANGED <<wl, table, activeWLSlot, local, ghost>>
  BY DEF PubCopyBits, PubCopySel, PubWriteBits, PubWriteSel, PubStep, Publishing
<1>2. /\ Memory' /\ DeltaOK' /\ KindInv' /\ Once'
      /\ Announced' = Announced /\ Published' = Published
      /\ UNCHANGED <<kind, botched, activeWLSlot, delta, prepared, wlComboRefCount>>
  BY <1>1, PubKeeps DEF local, ghost, table
<1>3. kind \in {"add", "del", "clear", "sync"}
  BY <1>1, PubKinds
<1>4. CASE PubCopyBits
  <2>1. conf' = WithCount(WithBits(conf, Target, act.bitmap), Target, act.count)
    BY <1>4 DEF PubCopyBits, WithCount, WithBits
  <2>2. /\ act.bitmap \in SUBSET Combos /\ act.count \in Int
        /\ conf \in [Slots -> ConfType] /\ activeConfig \in Slots
    BY <1>0 DEF ConfType, TypeOK
  <2>3. /\ conf' \in [Slots -> ConfType] /\ conf'[activeConfig] = act
        /\ conf'[Target].count = act.count
    BY <1>0, <2>1, <2>2, WriteBoth
  <2>4. TypeOK' /\ Target' = Target
    BY <1>1, <2>3, PubTypes
  <2>5. pc' = "copysel"
    BY <1>4 DEF PubCopyBits, PubStep
  <2>6. Confs'
    BY <1>0, <1>1, <1>2, <2>3, <2>4, <2>5 DEF Confs
  <2> QED
    BY <1>2, <2>4, <2>6 DEF IInv
<1>5. CASE PubCopySel
  <2>1. conf' = WithSel(conf, Target, act.sel) /\ pc = "copysel" /\ pc' = "writebits"
    BY <1>5 DEF PubCopySel, PubStep, WithSel
  <2>2. act.sel \in Slots /\ conf \in [Slots -> ConfType] /\ activeConfig \in Slots
    BY <1>0 DEF ConfType, TypeOK
  <2>3. /\ conf' \in [Slots -> ConfType] /\ conf'[activeConfig] = act
        /\ conf'[Target].count = old.count
    BY <1>0, <2>1, <2>2, WriteSel
  <2>4. TypeOK' /\ Target' = Target
    BY <1>1, <2>3, PubTypes
  <2>5. Confs'
    BY <1>0, <1>1, <1>2, <2>1, <2>3, <2>4 DEF Confs
  <2> QED
    BY <1>2, <2>4, <2>5 DEF IInv
<1>6. CASE PubWriteBits
  <2> DEFINE count == old.count + delta
             bits == {c \in Combos : wlComboRefCount[c] > 0}
             n == IF kind = "sync" THEN Len(prepared) ELSE IF count < 0 THEN 0 ELSE count
  <2>1. /\ delta \in Int /\ old.count \in Int /\ Len(prepared) \in Int
    <3>1. prepared \in Seq(Item)
      BY <1>0 DEF TypeOK, Requests
    <3> QED
      BY <1>0, <3>1 DEF TypeOK, ConfType
  <2>2. /\ conf' \in [Slots -> ConfType] /\ conf'[activeConfig] = act
        /\ conf'[Target].bitmap = bits /\ conf'[Target].count = n
        /\ pc' = "writesel" /\ pc = "writebits"
    <3>1. n \in Int /\ bits \in SUBSET Combos
      BY <2>1
    <3>2. conf' = WithCount(WithBits(conf, Target, bits), Target, n)
      BY <1>6 DEF PubWriteBits, WithCount, WithBits
    <3>3. conf \in [Slots -> ConfType] /\ activeConfig \in Slots
      BY <1>0 DEF TypeOK
    <3> HIDE DEF bits, n
    <3>4. /\ conf' \in [Slots -> ConfType] /\ conf'[activeConfig] = act
          /\ conf'[Target].bitmap = bits /\ conf'[Target].count = n
      BY <1>0, <3>1, <3>2, <3>3, WriteBoth
    <3> QED
      BY <1>6, <3>4 DEF PubWriteBits, PubStep
  <2>3. TypeOK' /\ Target' = Target
    BY <1>1, <2>2, PubTypes
  <2>4. bits = CombosOf(Announced)
    <3>1. wlComboRefCount = CountOf(Announced)
      BY DEF IInv, Memory
    <3>2. Announced \in Supporteds
      BY <1>0, TypeFacts, EmptyFacts, OverSupported DEF Announced, TypeOK
    <3> QED
      BY <3>1, <3>2, CombosAreCounted
  <2>5. ~botched => n = SizeOf(Announced)
    <3> SUFFICES ASSUME ~botched PROVE n = SizeOf(Announced)
      OBVIOUS
    <3>1. CASE kind = "sync"
      <4>1. Announced = Over(EmptyTable, prepared)
        BY <1>1, <3>1 DEF Announced
      <4> QED
        BY <1>0, <3>1, <4>1, SyncFacts DEF TypeOK
    <3>2. CASE kind # "sync"
      <4>1. SizeOf(Announced) = SizeOf(Published) + delta
        BY <1>1, <1>3, <3>2 DEF IInv, DeltaOK
      <4>2. old.count = act.count /\ act.count = SizeOf(Published)
        BY <1>0, <2>2 DEF Confs
      <4>3. Announced \in Supporteds
        BY <1>0, TypeFacts, EmptyFacts, OverSupported DEF Announced, TypeOK
      <4>4. SizeOf(Announced) \in Nat
        BY <4>3, CombosAreCounted
      <4> QED
        BY <3>2, <4>1, <4>2, <4>4
    <3> QED
      BY <3>1, <3>2
  <2> HIDE DEF bits, n
  <2>6. Confs'
    BY <1>0, <1>1, <1>2, <2>2, <2>3, <2>4, <2>5 DEF Confs
  <2> QED
    BY <1>2, <2>3, <2>6 DEF IInv
<1>7. CASE PubWriteSel
  <2>1. conf' = WithSel(conf, Target, activeWLSlot) /\ pc = "writesel" /\ pc' = "flip"
    BY <1>7 DEF PubWriteSel, PubStep, WithSel
  <2>2. activeWLSlot \in Slots /\ conf \in [Slots -> ConfType] /\ activeConfig \in Slots
    BY <1>0 DEF TypeOK
  <2>3. /\ conf' \in [Slots -> ConfType] /\ conf'[activeConfig] = act
        /\ conf'[Target].bitmap = old.bitmap /\ conf'[Target].count = old.count
        /\ conf'[Target].sel = activeWLSlot
    BY <1>0, <2>1, <2>2, WriteSel
  <2>4. TypeOK' /\ Target' = Target
    BY <1>1, <2>3, PubTypes
  <2>5. Confs'
    BY <1>0, <1>1, <1>2, <2>1, <2>3, <2>4 DEF Confs
  <2> QED
    BY <1>2, <2>4, <2>5 DEF IInv
<1> QED
  BY <1>4, <1>5, <1>6, <1>7

\* What a successful publish puts in force is what the counts announce.
LEMMA FlipFacts ==
  ASSUME IInv, PubFlip
  PROVE  /\ pc = "flip" /\ activeConfig' \in Slots /\ conf' = conf /\ conf \in [Slots -> ConfType]
         /\ UNCHANGED <<wl, wlComboRefCount, activeWLSlot, botched>>
         /\ conf'[activeConfig'].sel = activeWLSlot
         /\ ~botched => /\ conf'[activeConfig'].bitmap = CombosOf(Announced)
                        /\ conf'[activeConfig'].count = SizeOf(Announced)
         /\ wlComboRefCount = CountOf(Announced)
<1>1. /\ pc = "flip" /\ activeConfig' = Target /\ conf' = conf
      /\ UNCHANGED <<wl, wlComboRefCount, activeWLSlot, botched>>
  BY DEF PubFlip
<1>2. Target \in Slots /\ conf \in [Slots -> ConfType]
  BY TypeFacts DEF IInv, TypeOK
<1>3. wlComboRefCount = CountOf(Announced)
  BY DEF IInv, Memory
<1>4. /\ conf[Target].sel = activeWLSlot
      /\ conf[Target].bitmap = CombosOf(Announced)
      /\ ~botched => conf[Target].count = SizeOf(Announced)
  BY <1>1 DEF IInv, Confs
<1> QED
  BY <1>1, <1>2, <1>3, <1>4

LEMMA FlipAddInv == ASSUME IInv, FlipAdd PROVE IInv'
<1>0. TypeOK /\ Memory /\ DeltaOK /\ Confs /\ AddInv /\ Once
  BY DEF IInv, KindInv
<1>1. /\ PubFlip /\ kind = "add" /\ ~undoing /\ pc' = "insert" /\ todo' = prepared /\ done' = <<>>
      /\ UNCHANGED <<wlEntries, wlKeyIndex, kind, prepared, ids, delta, undoing, saved,
                     committed, targets>>
  BY DEF FlipAdd, Phase
<1>2. /\ pc = "flip" /\ activeConfig' \in Slots /\ conf' = conf /\ conf \in [Slots -> ConfType]
      /\ UNCHANGED <<wl, wlComboRefCount, activeWLSlot, botched>>
      /\ conf'[activeConfig'].sel = activeWLSlot
      /\ ~botched => /\ conf'[activeConfig'].bitmap = CombosOf(Announced)
                     /\ conf'[activeConfig'].count = SizeOf(Announced)
      /\ wlComboRefCount = CountOf(Announced)
  BY <1>1, FlipFacts
<1>3. Final' = Final /\ Olds' = Olds /\ Kept' = Kept /\ Map' = Map
  BY <1>1, <1>2 DEF Final, Olds, Kept, Map
<1>4. Announced = Final /\ Announced' = Final /\ Published = committed /\ Published' = Final
  BY <1>1, <1>2, <1>3 DEF Announced, Published, Publishing
<1>5. TypeOK'
  <2>1. prepared \in Seq(Item) /\ << >> \in Seq(Item)
    BY <1>0, RequestFacts DEF TypeOK
  <2> QED
    BY <1>0, <1>1, <1>2, <2>1 DEF TypeOK
<1>6. Memory' /\ Once'
  BY <1>0, <1>1, <1>2, <1>4 DEF Memory, Once
<1>7. DeltaOK'
  BY <1>0, <1>1, <1>2, <1>3, <1>4 DEF DeltaOK, Publishing
<1>8. Confs'
  BY <1>1, <1>2, <1>4 DEF Confs, Publishing
<1>9. AddInv'
  <2>1. pc \in Publishing /\ pc \notin {"delold", "insert", "remove", "reinsert"}
    BY <1>2 DEF Publishing
  <2>2. /\ wlEntries = committed /\ targets = ItemIds(prepared)
        /\ ItemKeys(prepared) \cap KeysOf(committed) = {}
        /\ ~botched => Map = Kept
    BY <1>0, <1>1, <2>1 DEF AddInv
  <2>3. ItemKeys(done') = {}
    BY <1>1, NoRequest
  <2> QED
    BY <1>1, <1>2, <1>3, <2>2, <2>3 DEF AddInv, Publishing
<1> QED
  BY <1>1, <1>5, <1>6, <1>7, <1>8, <1>9, KindFrame DEF IInv

LEMMA FlipUndoInv == ASSUME IInv, FlipUndo PROVE IInv'
<1>0. TypeOK /\ Memory /\ AddInv
  BY DEF IInv, KindInv
<1>1. PubFlip /\ undoing /\ Return(committed) /\ UNCHANGED <<wlEntries, wlKeyIndex>>
  BY DEF FlipUndo
<1>2. pc = "flip" /\ pc \in Publishing
  BY <1>1, FlipFacts DEF Publishing
<1>3. kind = "add"
  BY <1>1, <1>2, PubKinds
<1>4. wlEntries = committed /\ (~botched => Map = KeysOf(committed))
  BY <1>0, <1>1, <1>2, <1>3 DEF AddInv
<1>5. Announced = wlEntries
  BY <1>1, <1>2, <1>3 DEF Announced, Publishing
<1> QED
  BY <1>0, <1>1, <1>4, <1>5, FlipFacts, ReturnInv DEF TypeOK, Memory, Map

LEMMA FlipDeleteInv == ASSUME IInv, FlipDelete PROVE IInv'
<1>0. TypeOK /\ Memory /\ DelInv /\ ClearInv
  BY DEF IInv, KindInv
<1>1. PubFlip /\ kind \in {"del", "clear"} /\ Return(wlEntries) /\ UNCHANGED <<wlEntries, wlKeyIndex>>
  BY DEF FlipDelete
<1>2. pc = "flip"
  BY <1>1, FlipFacts
<1>4. ~botched => Map = KeysOf(wlEntries)
  BY <1>0, <1>1, <1>2 DEF DelInv, ClearInv
<1>5. Announced = wlEntries
  BY <1>1, <1>2 DEF Announced, Publishing
<1> QED
  BY <1>0, <1>1, <1>4, <1>5, FlipFacts, ReturnInv DEF TypeOK, Memory, Map

LEMMA FlipSyncInv == ASSUME IInv, FlipSync PROVE IInv'
<1>0. TypeOK /\ Memory /\ SyncInv
  BY DEF IInv, KindInv
<1>1. /\ PubFlip /\ kind = "sync" /\ pc' = "cleanup"
      /\ wlEntries' = SyncEntries /\ wlKeyIndex' = SyncIndex
      /\ committed' = SyncEntries /\ targets' = {}
      /\ UNCHANGED <<kind, prepared, todo, done, ids, delta, undoing, saved>>
  BY DEF FlipSync, local
<1>2. /\ pc = "flip" /\ activeConfig' \in Slots /\ conf' = conf /\ conf \in [Slots -> ConfType]
      /\ UNCHANGED <<wl, wlComboRefCount, activeWLSlot, botched>>
      /\ conf'[activeConfig'].sel = activeWLSlot
      /\ ~botched => /\ conf'[activeConfig'].bitmap = CombosOf(Announced)
                     /\ conf'[activeConfig'].count = SizeOf(Announced)
      /\ wlComboRefCount = CountOf(Announced)
  BY <1>1, FlipFacts
<1>3. PICK v : v = Over(EmptyTable, prepared)
  OBVIOUS
<1>4. /\ v \in Supporteds /\ SyncEntries = v /\ KeysOf(v) = ItemKeys(prepared)
      /\ SyncIndex \in [Keys -> Ids \cup {None}]
      /\ \A k \in Keys, i \in Ids : SyncIndex[k] = i <=> v[i] = k
  BY <1>0, <1>3, SyncFacts DEF TypeOK
<1>5. Announced = v /\ Announced' = v /\ Published' = v
  BY <1>1, <1>2, <1>3, <1>4 DEF Announced, Published, Publishing
<1>6. TypeOK'
  BY <1>0, <1>1, <1>2, <1>4 DEF TypeOK
<1>7. Memory'
  BY <1>1, <1>2, <1>4, <1>5 DEF Memory
<1>8. Once'
  <2>1. v \in Tables
    BY <1>4 DEF Supporteds
  <2>2. \A i, j \in Ids : v[i] = v[j] /\ v[i] # None => i = j
    BY <1>4, <2>1, OnceFacts
  <2> QED
    BY <1>1, <1>4, <2>2 DEF Once
<1>9. DeltaOK' /\ Confs'
  BY <1>1, <1>2, <1>5 DEF DeltaOK, Confs, Publishing
<1>10. SyncInv'
  <2>1. pc \in Publishing
    BY <1>2 DEF Publishing
  <2>2. Map = ItemKeys(prepared) /\ ~undoing
    BY <1>0, <1>1, <2>1 DEF SyncInv
  <2>3. Map' = Map
    BY <1>2 DEF Map
  <2> QED
    BY <1>1, <1>4, <2>2, <2>3 DEF SyncInv, Publishing
<1> QED
  BY <1>1, <1>6, <1>7, <1>8, <1>9, <1>10, KindFrame DEF IInv

LEMMA PubFailsAddInv == ASSUME IInv, PubFailsAdd PROVE IInv'
<1>0. TypeOK /\ Memory /\ Confs /\ AddInv /\ Once
  BY DEF IInv, KindInv
<1>1. /\ pc \in Publishing /\ kind = "add" /\ ~undoing /\ wlComboRefCount' = Uncounted
      /\ pc' = "reinsert" /\ todo' = Replaced(prepared) /\ done' = <<>>
      /\ UNCHANGED <<wl, conf, activeConfig, wlEntries, wlKeyIndex, activeWLSlot, kind, prepared,
                     ids, delta, undoing, saved, committed, targets, botched>>
  BY DEF PubFailsAdd, PubFails, Phase, maps, ghost
<1>2. pc \notin {"delold", "insert", "remove", "reinsert"}
  BY <1>1 DEF Publishing
<1>3. Final' = Final /\ Olds' = Olds /\ Kept' = Kept /\ Map' = Map
  BY <1>1 DEF Final, Olds, Kept, Map
<1>4. /\ wlEntries = committed /\ targets = ItemIds(prepared)
      /\ ItemKeys(prepared) \cap KeysOf(committed) = {}
      /\ ~botched => Map = Kept
  BY <1>0, <1>1 DEF AddInv
<1>5. Announced = Final /\ Announced' = wlEntries /\ Published = committed /\ Published' = committed
  BY <1>1, <1>2, <1>3 DEF Announced, Published, Publishing
<1>6. Uncounted = CountOf(wlEntries)
  <2>1. PICK v : v = Over(wlEntries, prepared)
    OBVIOUS
  <2>2. wlComboRefCount = CountOf(v)
    BY <1>0, <1>4, <1>5, <2>1 DEF Memory, Final
  <2>3. CountOf(wlEntries) = [c \in Combos |-> CountOf(v)[c] - Number(prepared, c)
                                                 + Number(Replaced(prepared), c)]
    BY <1>0, <2>1, AddCounts DEF TypeOK
  <2> QED
    BY <2>2, <2>3 DEF Uncounted
<1>7. Replaced(prepared) \in Seq(Item) /\ ItemKeys(Replaced(prepared)) = Olds
  BY <1>0, <1>4, ReplacedCount DEF TypeOK, Olds
<1>8. TypeOK'
  <2>1. << >> \in Seq(Item)
    BY NoRequest
  <2> QED
    BY <1>0, <1>1, <1>7, <2>1 DEF TypeOK
<1>9. Memory' /\ Once'
  BY <1>0, <1>1, <1>5, <1>6 DEF Memory, Once
<1>10. DeltaOK' /\ Confs'
  BY <1>0, <1>1, <1>5 DEF DeltaOK, Confs, Publishing
<1>11. AddInv'
  BY <1>1, <1>3, <1>4, <1>7 DEF AddInv, Publishing, Kept
<1> QED
  BY <1>1, <1>8, <1>9, <1>10, <1>11, KindFrame DEF IInv

LEMMA PubFailsUndoInv == ASSUME IInv, PubFailsUndo PROVE IInv'
<1>0. TypeOK /\ Memory /\ Confs /\ AddInv
  BY DEF IInv, KindInv
<1>1. /\ pc \in Publishing /\ undoing /\ Return(committed) /\ botched' = TRUE
      /\ UNCHANGED <<wl, conf, activeConfig, wlEntries, wlKeyIndex, wlComboRefCount, activeWLSlot>>
  BY DEF PubFailsUndo, PubFails, maps, table
<1>2. kind = "add"
  BY <1>1, PubKinds
<1>3. wlEntries = committed
  BY <1>0, <1>2 DEF AddInv
<1>4. Announced = wlEntries
  BY <1>1, <1>2 DEF Announced, Publishing
<1>5. conf[activeConfig].sel = activeWLSlot
  BY <1>0, <1>2 DEF Confs
<1> QED
  BY <1>0, <1>1, <1>3, <1>4, <1>5, ReturnInv DEF TypeOK, Memory

LEMMA PubFailsClearInv == ASSUME IInv, PubFailsClear PROVE IInv'
<1>0. TypeOK /\ Memory /\ Confs
  BY DEF IInv
<1>1. /\ pc \in Publishing /\ kind = "clear" /\ Return(wlEntries) /\ botched' = TRUE
      /\ UNCHANGED <<wl, conf, activeConfig, wlEntries, wlKeyIndex, wlComboRefCount, activeWLSlot>>
  BY DEF PubFailsClear, PubFails, maps, table
<1>2. Announced = wlEntries
  BY <1>1 DEF Announced
<1>3. conf[activeConfig].sel = activeWLSlot
  BY <1>0, <1>1 DEF Confs
<1> QED
  BY <1>0, <1>1, <1>2, <1>3, ReturnInv DEF TypeOK, Memory

LEMMA PubFailsSyncInv == ASSUME IInv, PubFailsSync PROVE IInv'
<1>0. TypeOK /\ Memory /\ Confs /\ SyncInv
  BY DEF IInv, KindInv
<1>1. /\ pc \in Publishing /\ kind = "sync" /\ Return(committed) /\ activeWLSlot' = Shadow
      /\ wlComboRefCount' = saved
      /\ UNCHANGED <<wl, conf, activeConfig, wlEntries, wlKeyIndex, botched>>
  BY DEF PubFailsSync, PubFails, maps
<1>2. /\ wlEntries = committed /\ saved = CountOf(wlEntries)
      /\ ~botched => wl[Shadow] = KeysOf(committed)
  BY <1>0, <1>1 DEF SyncInv
<1>3. Published = committed
  BY <1>1 DEF Published
<1>4. conf[activeConfig].sel = Shadow
  BY <1>0, <1>1 DEF Confs, Shadow
<1>5. Shadow \in Slots
  BY <1>0, TypeFacts
<1>6. ~botched => /\ conf[activeConfig].bitmap = CombosOf(committed)
                  /\ conf[activeConfig].count = SizeOf(committed)
  BY <1>0, <1>3 DEF Confs
<1> QED
  BY <1>0, <1>1, <1>2, <1>4, <1>5, <1>6, ReturnInv DEF TypeOK, Memory

\* What a delete has taken can be put back: it is a request of its own.
LEMMA TakenFacts ==
  ASSUME IInv, kind = "del", pc # "reinsert"
  PROVE  /\ done \in Requests
         /\ \A n \in DOMAIN done : /\ wlEntries[done[n].id] = None
                                   /\ committed[done[n].id] = done[n].key
                                   /\ wlKeyIndex[done[n].key] \in {None, done[n].id}
         /\ Over(wlEntries, done) = committed
<1>0. TypeOK /\ Memory /\ DelInv /\ Once /\ done \in Seq(Item)
  BY DEF IInv, KindInv, TypeOK
<1>1. /\ Singles(done)
      /\ \A n \in DOMAIN done : /\ wlEntries[done[n].id] = None
                                /\ committed[done[n].id] = done[n].key
      /\ \A i \in Ids \ ItemIds(done) : wlEntries[i] = committed[i]
  BY <1>0 DEF DelInv
<1>2. \A n \in DOMAIN done : done[n].id \in Ids /\ done[n].key \in Keys /\ done[n].key # None
                             /\ done[n].id \in ItemIds(done)
  BY <1>0, ItemFacts, NoneFacts DEF ItemIds
<1>3. \A m, n \in DOMAIN done : done[m].key = done[n].key => done[m].id = done[n].id
  BY <1>0, <1>1, <1>2 DEF Once
<1>4. \A n \in DOMAIN done : Combo[done[n].key] \in Combos
  <2> SUFFICES ASSUME NEW n \in DOMAIN done PROVE Combo[done[n].key] \in Combos
    OBVIOUS
  <2>1. committed[done[n].id] = done[n].key /\ done[n].id \in Ids /\ done[n].key # None
    BY <1>1, <1>2
  <2>2. committed \in Supporteds
    BY <1>0 DEF TypeOK
  <2> QED
    BY <2>1, <2>2 DEF Supporteds
<1>5. done \in Requests
  BY <1>0, <1>1, <1>3, <1>4 DEF Requests
<1>6. ASSUME NEW n \in DOMAIN done PROVE wlKeyIndex[done[n].key] \in {None, done[n].id}
  <2>1. wlKeyIndex[done[n].key] \in Ids \cup {None}
    BY <1>0, <1>2 DEF TypeOK
  <2>2. ASSUME NEW i \in Ids, wlKeyIndex[done[n].key] = i PROVE i = done[n].id
    <3>1. wlEntries[i] = done[n].key
      BY <1>0, <1>2, <2>2 DEF Memory
    <3>2. i \notin ItemIds(done)
      BY <1>1, <1>2, <3>1 DEF ItemIds
    <3>3. committed[i] = committed[done[n].id] /\ committed[i] # None
      BY <1>1, <1>2, <3>1, <3>2
    <3> QED
      BY <1>0, <1>2, <3>3 DEF Once
  <2> QED
    BY <2>1, <2>2
<1>7. Over(wlEntries, done) = committed
  <2>1. wlEntries \in Tables /\ committed \in Tables
    BY <1>0, TypeFacts
  <2>2. PICK v : v = Over(wlEntries, done)
    OBVIOUS
  <2>3. /\ v \in Tables /\ \A n \in DOMAIN done : v[done[n].id] = done[n].key
        /\ \A i \in Ids \ ItemIds(done) : v[i] = wlEntries[i]
    BY <1>0, <1>1, <2>1, <2>2, OverFacts
  <2>4. \A i \in Ids : v[i] = committed[i]
    <3> SUFFICES ASSUME NEW i \in Ids PROVE v[i] = committed[i]
      OBVIOUS
    <3>1. CASE i \in ItemIds(done)
      BY <1>1, <2>3, <3>1 DEF ItemIds
    <3>2. CASE i \notin ItemIds(done)
      BY <1>1, <2>3, <3>2
    <3> QED
      BY <3>1, <3>2
  <2>5. v = committed
    BY <2>1, <2>3, <2>4 DEF Tables
  <2> QED
    BY <2>2, <2>5
<1> QED
  BY <1>1, <1>5, <1>6, <1>7

LEMMA PubFailsDeleteInv == ASSUME IInv, PubFailsDelete PROVE IInv'
<1>0. TypeOK /\ Memory /\ Confs /\ DelInv /\ Once
  BY DEF IInv, KindInv
<1>1. /\ pc \in Publishing /\ kind = "del" /\ pc' = "reinsert" /\ todo' = done /\ done' = <<>>
      /\ wlComboRefCount' = [c \in Combos |-> wlComboRefCount[c] + Number(done, c)]
      /\ UNCHANGED <<wl, conf, activeConfig, activeWLSlot, kind, prepared, ids, delta, undoing,
                     saved, committed, targets, botched>>
  BY DEF PubFailsDelete, PubFails, Phase, maps, ghost
<1>2. pc # "reinsert"
  BY <1>1 DEF Publishing
<1>3. /\ done \in Requests
      /\ \A n \in DOMAIN done : /\ wlEntries[done[n].id] = None
                                /\ committed[done[n].id] = done[n].key
                                /\ wlKeyIndex[done[n].key] \in {None, done[n].id}
      /\ Over(wlEntries, done) = committed
  BY <1>1, <1>2, TakenFacts
<1>4. wlEntries' = committed
  BY <1>3 DEF PubFailsDelete, Over
<1>5. Announced = wlEntries /\ Announced' = wlEntries' /\ Published = committed /\ Published' = committed
  BY <1>1 DEF Announced, Published
<1>6. wlComboRefCount' = CountOf(committed)
  <2>1. wlEntries \in Tables /\ done \in Seq(Item) /\ Singles(done)
    BY <1>0, <1>3, TypeFacts, RequestFacts
  <2>2. CountOf(Over(wlEntries, done)) = [c \in Combos |-> CountOf(wlEntries)[c] + Number(done, c)]
    BY <1>3, <2>1, FreshCounts
  <2>3. wlComboRefCount = CountOf(wlEntries)
    BY <1>0, <1>5 DEF Memory
  <2> QED
    BY <1>1, <1>3, <2>2, <2>3
<1>7. /\ wlKeyIndex' \in [Keys -> Ids \cup {None}]
      /\ \A k \in Keys, i \in Ids : wlKeyIndex'[k] = i <=> committed[i] = k
  <2>1. /\ wlEntries \in Tables /\ wlKeyIndex \in [Keys -> Ids \cup {None}]
        /\ \A k \in Keys, i \in Ids : wlKeyIndex[k] = i <=> wlEntries[i] = k
    BY <1>0, TypeFacts DEF TypeOK, Memory
  <2>2. PICK D, y : D = {} /\ y = wlKeyIndex'
    OBVIOUS
  <2>3. D = {wlEntries[i] : i \in ItemIds(done)} \ {None}
    BY <1>3, <2>2, RequestFacts
  <2>4. y = IndexOver(wlKeyIndex, done, D)
    BY <2>2 DEF PubFailsDelete, IndexOver
  <2>5. /\ y \in [Keys -> Ids \cup {None}]
        /\ \A k \in Keys, i \in Ids : y[k] = i <=> Over(wlEntries, done)[i] = k
    BY <1>3, <2>1, <2>3, <2>4, IndexOverFacts
  <2> QED
    BY <1>3, <2>2, <2>5
<1>8. TypeOK'
  BY <1>0, <1>1, <1>4, <1>7, NoRequest DEF TypeOK
<1>9. Memory' /\ Once'
  BY <1>0, <1>1, <1>4, <1>5, <1>6, <1>7 DEF Memory, Once
<1>10. DeltaOK' /\ Confs'
  BY <1>0, <1>1, <1>5 DEF DeltaOK, Confs, Publishing
<1>11. DelInv'
  <2>1. /\ prepared = <<>> /\ ~undoing /\ ToSet(ids) \subseteq targets
        /\ ItemIds(done) \subseteq targets
        /\ \A i \in Ids \ ItemIds(done) : wlEntries[i] = committed[i]
        /\ ~botched => Map = KeysOf(wlEntries)
    BY <1>0, <1>1, <1>2 DEF DelInv
  <2>2. ItemKeys(done) \subseteq {committed[i] : i \in targets} \ {None}
    <3> SUFFICES ASSUME NEW n \in DOMAIN done
                 PROVE  done[n].key \in {committed[i] : i \in targets} \ {None}
      BY DEF ItemKeys
    <3>1. committed[done[n].id] = done[n].key /\ done[n].id \in targets /\ done[n].key # None
      BY <1>3, <2>1, RequestFacts, NoneFacts
    <3> QED
      BY <3>1
  <2>3. wlEntries \in Tables /\ committed \in Tables
    BY <1>0, TypeFacts
  <2>4. KeysOf(committed) \ ItemKeys(done) \subseteq KeysOf(wlEntries)
    <3> SUFFICES ASSUME NEW k \in KeysOf(committed), k \notin ItemKeys(done) PROVE k \in KeysOf(wlEntries)
      OBVIOUS
    <3>1. PICK i \in Ids : committed[i] = k /\ k # None
      BY <2>3, KeysOfFacts
    <3>2. i \notin ItemIds(done)
      BY <1>3, <3>1 DEF ItemIds, ItemKeys
    <3>3. wlEntries[i] = k
      BY <2>1, <3>1, <3>2
    <3> QED
      BY <2>3, <3>1, <3>3, KeysOfFacts
  <2>5. KeysOf(wlEntries) \subseteq KeysOf(committed)
    <3> SUFFICES ASSUME NEW k \in KeysOf(wlEntries) PROVE k \in KeysOf(committed)
      OBVIOUS
    <3>1. PICK i \in Ids : wlEntries[i] = k /\ k # None
      BY <2>3, KeysOfFacts
    <3>2. i \notin ItemIds(done)
      BY <1>3, <3>1 DEF ItemIds
    <3>3. committed[i] = k
      BY <2>1, <3>1, <3>2
    <3> QED
      BY <2>3, <3>1, <3>3, KeysOfFacts
  <2>6. Map' = Map
    BY <1>1 DEF Map
  <2> QED
    BY <1>1, <1>4, <2>1, <2>2, <2>4, <2>5, <2>6 DEF DelInv, Publishing
<1> QED
  BY <1>1, <1>8, <1>9, <1>10, <1>11, KindFrame DEF IInv

-----------------------------------------------------------------------------
(* What an add does to the map in force *)

\* A request starts between requests.
LEMMA BeginFacts ==
  ASSUME IInv, NEW k, NEW t \in SUBSET Ids, Begin(k, t)
  PROVE  /\ pc = "idle" /\ kind = "none" /\ wlEntries = committed /\ delta = 0 /\ ~undoing
         /\ ~botched => Map = KeysOf(committed)
         /\ kind' = k /\ targets' = t /\ targets' \in SUBSET Ids
         /\ UNCHANGED <<wl, conf, activeConfig, wlEntries, wlKeyIndex, wlComboRefCount,
                        activeWLSlot, delta, undoing, saved, committed, botched>>
         /\ Announced = committed /\ Published = committed
<1>1. /\ pc = "idle" /\ kind' = k /\ targets' = t
      /\ UNCHANGED <<wl, conf, activeConfig, wlEntries, wlKeyIndex, wlComboRefCount,
                     activeWLSlot, delta, undoing, saved, committed, botched>>
  BY DEF Begin, maps, table
<1>2. kind = "none"
  BY <1>1 DEF IInv, KindInv, AddInv, DelInv, ClearInv, SyncInv, Publishing
<1>3. /\ wlEntries = committed /\ delta = 0 /\ ~undoing
      /\ ~botched => Map = KeysOf(committed)
  BY <1>2 DEF IInv, KindInv, NoneInv
<1>4. Announced = committed /\ Published = committed
  BY <1>2, <1>3 DEF Announced, Published
<1> QED
  BY <1>1, <1>2, <1>3, <1>4

\* One item of a phase.
LEMMA StepFacts ==
  ASSUME TypeOK, todo # <<>>, Step
  PROVE  /\ todo' \in Seq(Item) /\ done' \in Seq(Item) /\ Head(todo).key \in Keys
         /\ ItemKeys(done') = ItemKeys(done) \cup {Head(todo).key}
         /\ ItemKeys(todo) = ItemKeys(todo') \cup {Head(todo).key}
<1>1. todo \in Seq(Item) /\ done \in Seq(Item) /\ todo' = Tail(todo) /\ done' = Append(done, Head(todo))
  BY DEF TypeOK, Step
<1>2. Head(todo) = todo[1] /\ 1 \in DOMAIN todo /\ Head(todo) \in Item
  BY <1>1
<1>3. Head(todo).key \in Keys
  BY <1>2 DEF Item
<1>4. /\ todo' \in Seq(Item) /\ Len(todo') = Len(todo) - 1
      /\ \A n \in 1 .. Len(todo) - 1 : todo'[n] = todo[n + 1]
  BY <1>1
<1>5. /\ done' \in Seq(Item) /\ Len(done') = Len(done) + 1
      /\ \A n \in 1 .. Len(done) : done'[n] = done[n]
      /\ done'[Len(done) + 1] = Head(todo)
  BY <1>1, <1>2
<1>6. ItemKeys(done') = ItemKeys(done) \cup {Head(todo).key}
  <2>1. ASSUME NEW n \in DOMAIN done' PROVE done'[n].key \in ItemKeys(done) \cup {Head(todo).key}
    <3>1. n \in 1 .. Len(done) \/ n = Len(done) + 1
      BY <1>1, <1>5
    <3>2. CASE n \in 1 .. Len(done)
      BY <1>1, <1>5, <3>2 DEF ItemKeys
    <3> QED
      BY <1>5, <3>1, <3>2
  <2>2. ASSUME NEW n \in DOMAIN done PROVE done[n].key \in ItemKeys(done')
    <3>1. n \in DOMAIN done' /\ done'[n] = done[n]
      BY <1>1, <1>5
    <3> QED
      BY <3>1 DEF ItemKeys
  <2>3. Head(todo).key \in ItemKeys(done')
    <3>1. Len(done) + 1 \in DOMAIN done'
      BY <1>1, <1>5
    <3> QED
      BY <1>5, <3>1 DEF ItemKeys
  <2> QED
    BY <2>1, <2>2, <2>3 DEF ItemKeys
<1>7. ItemKeys(todo) = ItemKeys(todo') \cup {Head(todo).key}
  <2>1. ASSUME NEW n \in DOMAIN todo PROVE todo[n].key \in ItemKeys(todo') \cup {Head(todo).key}
    <3>1. CASE n = 1
      BY <1>2, <3>1
    <3>2. CASE n # 1
      <4>1. n - 1 \in DOMAIN todo' /\ todo'[n - 1] = todo[n]
        BY <1>1, <1>4, <3>2
      <4> QED
        BY <4>1 DEF ItemKeys
    <3> QED
      BY <3>1, <3>2
  <2>2. ASSUME NEW n \in DOMAIN todo' PROVE todo'[n].key \in ItemKeys(todo)
    <3>1. n + 1 \in DOMAIN todo /\ todo'[n] = todo[n + 1]
      BY <1>1, <1>4
    <3> QED
      BY <3>1 DEF ItemKeys
  <2>3. Head(todo).key \in ItemKeys(todo)
    BY <1>2 DEF ItemKeys
  <2> QED
    BY <2>1, <2>2, <2>3 DEF ItemKeys
<1> QED
  BY <1>3, <1>4, <1>5, <1>6, <1>7

\* One key in the map in force.
LEMMA MapFacts ==
  ASSUME TypeOK, NEW k \in Keys, activeWLSlot' = activeWLSlot
  PROVE  /\ Removed(k)  => wl' \in [Slots -> SUBSET Keys] /\ Map' = Map \ {k}
         /\ Inserted(k) => wl' \in [Slots -> SUBSET Keys] /\ Map' = Map \cup {k}
BY DEF TypeOK, Removed, Inserted, Map

\* An add changes neither table nor index before it commits.
LEMMA AddFacts ==
  ASSUME IInv, kind = "add"
  PROVE  /\ wlEntries = committed /\ Final = Over(wlEntries, prepared)
         /\ Olds \subseteq KeysOf(committed) /\ Kept \subseteq KeysOf(committed)
         /\ Kept \cap ItemKeys(prepared) = {}
         /\ KeysOf(committed) \ Olds = Kept
         /\ KeysOf(Final) = Kept \cup ItemKeys(prepared)
         /\ Replaced(prepared) \in Seq(Item) /\ ItemKeys(Replaced(prepared)) = Olds
         /\ CountOf(Final) = [c \in Combos |-> CountOf(wlEntries)[c] - Number(Replaced(prepared), c)
                                                 + Number(prepared, c)]
         /\ CountOf(wlEntries) = [c \in Combos |-> CountOf(Final)[c] - Number(prepared, c)
                                                     + Number(Replaced(prepared), c)]
         /\ SizeOf(Final) = SizeOf(committed) + (Len(prepared) - Len(Replaced(prepared)))
         /\ SizeOf(Final) \in Nat /\ SizeOf(committed) \in Nat
<1>0. /\ TypeOK /\ Once /\ prepared \in Requests /\ committed \in Tables /\ wlEntries \in Supporteds
      /\ wlEntries = committed /\ ItemKeys(prepared) \cap KeysOf(committed) = {}
  BY TypeFacts DEF IInv, KindInv, AddInv, TypeOK
<1>1. Final = Over(wlEntries, prepared)
  BY <1>0 DEF Final
<1>2. \A i \in ItemIds(prepared) : i \in Ids
  BY <1>0, RequestFacts
<1>3. Olds \subseteq KeysOf(committed)
  BY <1>0, <1>2, KeysOfFacts DEF Olds
<1>4. Kept = {committed[i] : i \in Present(committed) \ ItemIds(prepared)}
  <2>1. ASSUME NEW k \in Kept PROVE k \in {committed[i] : i \in Present(committed) \ ItemIds(prepared)}
    <3>1. PICK i \in Ids : committed[i] = k /\ k # None
      BY <1>0, <2>1, KeysOfFacts DEF Kept
    <3>2. i \notin ItemIds(prepared)
      BY <2>1, <3>1 DEF Kept, Olds
    <3> QED
      BY <3>1, <3>2 DEF Present
  <2>2. ASSUME NEW i \in Present(committed) \ ItemIds(prepared) PROVE committed[i] \in Kept
    <3>1. i \in Ids /\ committed[i] # None /\ committed[i] \in KeysOf(committed)
      BY <1>0, KeysOfFacts DEF Present
    <3>2. committed[i] \notin Olds
      BY <1>0, <1>2, <3>1 DEF Olds, Once
    <3> QED
      BY <3>1, <3>2 DEF Kept
  <2> QED
    BY <2>1, <2>2
<1>5. KeysOf(Final) = Kept \cup ItemKeys(prepared)
  BY <1>0, <1>4, OverKeys, RequestFacts DEF Final
<1>6. Replaced(prepared) \in Seq(Item) /\ ItemKeys(Replaced(prepared)) = Olds
  BY <1>0, ReplacedCount DEF Olds
<1>7. /\ CountOf(Final) = [c \in Combos |-> CountOf(wlEntries)[c] - Number(Replaced(prepared), c)
                                              + Number(prepared, c)]
      /\ CountOf(wlEntries) = [c \in Combos |-> CountOf(Final)[c] - Number(prepared, c)
                                                  + Number(Replaced(prepared), c)]
      /\ SizeOf(Final) = SizeOf(committed) + (Len(prepared) - Len(Replaced(prepared)))
  <2>1. PICK v : v = Final
    OBVIOUS
  <2>2. v = Over(wlEntries, prepared)
    BY <1>1, <2>1
  <2>3. /\ CountOf(v) = [c \in Combos |-> CountOf(wlEntries)[c] - Number(Replaced(prepared), c)
                                            + Number(prepared, c)]
        /\ CountOf(wlEntries) = [c \in Combos |-> CountOf(v)[c] - Number(prepared, c)
                                                    + Number(Replaced(prepared), c)]
        /\ SizeOf(v) = SizeOf(wlEntries) + (Len(prepared) - Len(Replaced(prepared)))
    BY <1>0, <2>2, AddCounts
  <2> QED
    BY <1>0, <2>1, <2>3
<1>8. SizeOf(Final) \in Nat /\ SizeOf(committed) \in Nat
  <2>1. Final \in Supporteds /\ committed \in Supporteds
    BY <1>0, TypeFacts
  <2> QED
    BY <2>1, CombosAreCounted
<1>9. Kept \subseteq KeysOf(committed) /\ KeysOf(committed) \ Olds = Kept
  BY DEF Kept
<1> QED
  BY <1>0, <1>1, <1>3, <1>5, <1>6, <1>7, <1>8, <1>9

LEMMA BeginAddInv == ASSUME IInv, NEW b \in AddBatches, BeginAdd(b) PROVE IInv'
<1>0. TypeOK /\ Memory /\ Confs /\ Once
  BY DEF IInv
<1>1. /\ Supported(b) /\ ~Conflicts(Dedup(b)) /\ Begin("add", ItemIds(Changes(b)))
      /\ prepared' = Changes(b) /\ pc' = "delold" /\ todo' = Replaced(Changes(b)) /\ done' = <<>>
      /\ ids' = ids
  BY DEF BeginAdd, Phase
<1>2. PICK s : s = Changes(b)
  OBVIOUS
<1>3. b \in Seq(Item)
  BY WhitelistAssumption
<1>4. /\ s \in Seq(Item) /\ Singles(s)
      /\ \A n \in DOMAIN s : \E m \in DOMAIN Dedup(b) : s[n] = Dedup(b)[m]
      /\ \A n \in DOMAIN s : wlEntries[s[n].id] # s[n].key
  BY <1>2, <1>3, ChangesFacts
<1>5. s \in Requests
  <2>1. \A m, n \in DOMAIN s : s[m].key = s[n].key => s[m].id = s[n].id
    <3> SUFFICES ASSUME NEW m \in DOMAIN s, NEW n \in DOMAIN s, s[m].key = s[n].key
                 PROVE  s[m].id = s[n].id
      OBVIOUS
    <3>1. PICK x \in DOMAIN Dedup(b), y \in DOMAIN Dedup(b) : s[m] = Dedup(b)[x] /\ s[n] = Dedup(b)[y]
      BY <1>4
    <3>2. x = y
      BY <1>1, <3>1 DEF Conflicts, DistinctKeys
    <3> QED
      BY <3>1, <3>2
  <2>2. \A n \in DOMAIN s : Combo[s[n].key] \in Combos
    <3> SUFFICES ASSUME NEW n \in DOMAIN s PROVE Combo[s[n].key] \in Combos
      OBVIOUS
    <3>1. PICK x \in DOMAIN Dedup(b) : s[n] = Dedup(b)[x]
      BY <1>4
    <3>2. PICK y \in DOMAIN b : s[n] = b[y]
      BY <1>3, <3>1, DedupFacts
    <3>3. Combo[s[n].key] # None /\ s[n].key \in Keys
      BY <1>1, <1>4, <3>2, ItemFacts DEF Supported
    <3> QED
      BY <3>3, WhitelistAssumption
  <2> QED
    BY <1>4, <2>1, <2>2 DEF Requests
<1>6. /\ pc = "idle" /\ kind = "none" /\ wlEntries = committed /\ delta = 0 /\ ~undoing
      /\ ~botched => Map = KeysOf(committed)
      /\ kind' = "add" /\ targets' = ItemIds(s) /\ targets' \in SUBSET Ids
      /\ UNCHANGED <<wl, conf, activeConfig, wlEntries, wlKeyIndex, wlComboRefCount,
                     activeWLSlot, delta, undoing, saved, committed, botched>>
      /\ Announced = committed /\ Published = committed
  <2>1. ItemIds(s) \in SUBSET Ids
    BY <1>5, RequestFacts
  <2> QED
    BY <1>1, <1>2, <2>1, BeginFacts
<1>7. ItemKeys(s) \cap KeysOf(committed) = {}
  <2> SUFFICES ASSUME NEW n \in DOMAIN s, s[n].key \in KeysOf(committed) PROVE FALSE
    BY DEF ItemKeys
  <2>1. PICK i \in Ids : committed[i] = s[n].key /\ s[n].key # None
    BY <1>0, TypeFacts, KeysOfFacts
  <2>2. s[n].key \in Keys /\ s[n].id \in Ids
    BY <1>5, RequestFacts
  <2>3. wlKeyIndex[s[n].key] = i
    BY <1>0, <1>6, <2>1, <2>2 DEF Memory
  <2>4. PICK x \in DOMAIN Dedup(b) : s[n] = Dedup(b)[x]
    BY <1>4
  <2>5. wlKeyIndex[s[n].key] \in {None, s[n].id}
    BY <1>1, <2>4 DEF Conflicts
  <2>6. i = s[n].id
    BY <2>3, <2>5, NoneFacts
  <2> QED
    BY <1>4, <1>6, <2>1, <2>6
<1>8. /\ Replaced(s) \in Seq(Item)
      /\ ItemKeys(Replaced(s)) = {committed[i] : i \in ItemIds(s)} \ {None}
  BY <1>0, <1>5, <1>6, ReplacedCount DEF TypeOK
<1>9. Announced' = committed /\ Published' = committed
  BY <1>1, <1>6 DEF Announced, Published, Publishing
<1>10. TypeOK'
  <2>1. prepared' \in Requests /\ todo' \in Seq(Item) /\ done' \in Seq(Item)
    BY <1>1, <1>2, <1>5, <1>8, NoRequest
  <2> QED
    BY <1>0, <1>1, <1>6, <2>1 DEF TypeOK
<1>11. Memory' /\ Once'
  BY <1>0, <1>6, <1>9 DEF Memory, Once
<1>12. DeltaOK' /\ Confs'
  BY <1>0, <1>1, <1>6, <1>9 DEF DeltaOK, Confs, Publishing
<1>13. AddInv'
  <2>1. Map' = Map /\ Olds' = {committed[i] : i \in ItemIds(s)} \ {None}
    BY <1>1, <1>2, <1>6 DEF Map, Olds
  <2>2. ItemKeys(done') = {} /\ ItemKeys(todo') = Olds'
    BY <1>1, <1>2, <1>8, <2>1, NoRequest
  <2> QED
    BY <1>1, <1>2, <1>6, <1>7, <2>1, <2>2 DEF AddInv, Publishing
<1> QED
  BY <1>6, <1>10, <1>11, <1>12, <1>13, KindFrame DEF IInv

\* What a step of a handler that publishes nothing, and changes neither table nor
\* counts, leaves as it was.
LEMMA QuietFrame ==
  ASSUME IInv,
         UNCHANGED <<conf, activeConfig, wlEntries, wlKeyIndex, wlComboRefCount, activeWLSlot,
                     committed>>,
         TypeOK', Announced' = Announced, Published' = Published, kind' = kind,
         pc' \notin Publishing, kind = "sync" => pc \notin Publishing,
         botched => botched', DeltaOK', KindInv'
  PROVE  IInv'
<1>1. Memory' /\ Once'
  BY DEF IInv, Memory, Once
<1>2. Confs'
  BY DEF IInv, Confs, Publishing
<1> QED
  BY <1>1, <1>2 DEF IInv

LEMMA DeleteOldInv == ASSUME IInv, DeleteOld PROVE IInv'
<1>0. TypeOK /\ AddInv
  BY DEF IInv, KindInv
<1>1. /\ pc = "delold" /\ pc' = pc /\ todo # <<>> /\ Removed(Head(todo).key) /\ Step
      /\ UNCHANGED <<conf, activeConfig, wlEntries, wlKeyIndex, wlComboRefCount, activeWLSlot, kind,
                     prepared, ids, delta, undoing, saved, committed, targets, botched>>
  BY DEF DeleteOld, table, ghost
<1>2. kind = "add"
  BY <1>1 DEF IInv, KindInv, NoneInv, DelInv, ClearInv, SyncInv, Publishing
<1>3. /\ todo' \in Seq(Item) /\ done' \in Seq(Item) /\ Head(todo).key \in Keys
      /\ ItemKeys(done') = ItemKeys(done) \cup {Head(todo).key}
      /\ ItemKeys(todo) = ItemKeys(todo') \cup {Head(todo).key}
  BY <1>0, <1>1, StepFacts
<1>4. wl' \in [Slots -> SUBSET Keys] /\ Map' = Map \ {Head(todo).key}
  BY <1>0, <1>1, <1>3, MapFacts
<1>5. Final' = Final /\ Olds' = Olds
  BY <1>1 DEF Final, Olds
<1>6. Announced' = Announced /\ Published' = Published
  BY <1>1, <1>2, <1>5 DEF Announced, Published
<1>7. TypeOK'
  BY <1>0, <1>1, <1>3, <1>4 DEF TypeOK
<1>8. DeltaOK'
  BY <1>1, <1>2 DEF DeltaOK, Publishing
<1>9. AddInv'
  BY <1>0, <1>1, <1>2, <1>3, <1>4, <1>5 DEF AddInv, Publishing
<1> QED
  BY <1>1, <1>2, <1>6, <1>7, <1>8, <1>9, KindFrame, QuietFrame DEF Publishing

LEMMA DeleteOldFailsInv == ASSUME IInv, DeleteOldFails PROVE IInv'
<1>0. TypeOK /\ AddInv
  BY DEF IInv, KindInv
<1>1. /\ pc = "delold" /\ pc' = "reinsert" /\ todo' = done /\ done' = <<>>
      /\ UNCHANGED <<wl, conf, activeConfig, wlEntries, wlKeyIndex, wlComboRefCount, activeWLSlot,
                     kind, prepared, ids, delta, undoing, saved, committed, targets, botched>>
  BY DEF DeleteOldFails, Phase, table, maps, ghost
<1>2. kind = "add"
  BY <1>1 DEF IInv, KindInv, NoneInv, DelInv, ClearInv, SyncInv, Publishing
<1>3. Final' = Final /\ Olds' = Olds /\ Map' = Map
  BY <1>1 DEF Final, Olds, Map
<1>4. /\ ~undoing /\ ItemKeys(done) \cup ItemKeys(todo) = Olds
      /\ ~botched => Map = KeysOf(committed) \ ItemKeys(done)
  BY <1>0, <1>1, <1>2 DEF AddInv
<1>5. Announced' = Announced /\ Published' = Published
  BY <1>1, <1>2, <1>4 DEF Announced, Published, Publishing
<1>6. TypeOK'
  BY <1>0, <1>1, NoRequest DEF TypeOK
<1>7. DeltaOK'
  BY <1>1, <1>2, <1>4 DEF DeltaOK, Publishing
<1>8. AddInv'
  BY <1>0, <1>1, <1>2, <1>3, <1>4 DEF AddInv, Publishing
<1> QED
  BY <1>1, <1>2, <1>5, <1>6, <1>7, <1>8, KindFrame, QuietFrame DEF Publishing

LEMMA CountAddInv == ASSUME IInv, CountAdd PROVE IInv'
<1>0. TypeOK /\ Memory /\ Confs /\ Once /\ AddInv
  BY DEF IInv, KindInv
<1>1. /\ pc = "delold" /\ todo = <<>> /\ pc' = "copybits"
      /\ wlComboRefCount' =
           [c \in Combos |-> wlComboRefCount[c] - Number(Replaced(prepared), c) + Number(prepared, c)]
      /\ delta' = Len(prepared) - Len(Replaced(prepared))
      /\ UNCHANGED <<wl, conf, activeConfig, wlEntries, wlKeyIndex, activeWLSlot, kind, prepared,
                     todo, done, ids, undoing, saved, committed, targets, botched>>
  BY DEF CountAdd, maps, ghost
<1>2. kind = "add"
  BY <1>1 DEF IInv, KindInv, NoneInv, DelInv, ClearInv, SyncInv, Publishing
<1>3. Final' = Final /\ Olds' = Olds /\ Kept' = Kept /\ Map' = Map
  BY <1>1 DEF Final, Olds, Kept, Map
<1>4. /\ wlEntries = committed /\ KeysOf(committed) \ Olds = Kept
      /\ Replaced(prepared) \in Seq(Item) /\ prepared \in Seq(Item)
      /\ CountOf(Final) = [c \in Combos |-> CountOf(wlEntries)[c] - Number(Replaced(prepared), c)
                                              + Number(prepared, c)]
      /\ SizeOf(Final) = SizeOf(committed) + (Len(prepared) - Len(Replaced(prepared)))
  BY <1>0, <1>2, AddFacts, RequestFacts DEF TypeOK
<1>5. /\ ~undoing /\ ItemKeys(done) \cup ItemKeys(todo) = Olds
      /\ ~botched => Map = KeysOf(committed) \ ItemKeys(done)
  BY <1>0, <1>1, <1>2 DEF AddInv
<1>6. /\ Announced = wlEntries /\ Announced' = Final /\ Published = committed /\ Published' = committed
  BY <1>1, <1>2, <1>3, <1>5 DEF Announced, Published, Publishing
<1>7. TypeOK'
  <2>1. delta' \in Int
    BY <1>1, <1>4
  <2> QED
    BY <1>0, <1>1, <2>1 DEF TypeOK
<1>8. Memory' /\ Once'
  BY <1>0, <1>1, <1>4, <1>6 DEF Memory, Once
<1>9. DeltaOK'
  BY <1>1, <1>2, <1>4, <1>6 DEF DeltaOK, Publishing
<1>10. Confs'
  BY <1>0, <1>1, <1>2, <1>6 DEF Confs, Publishing
<1>11. AddInv'
  <2>1. ItemKeys(done) = Olds
    BY <1>1, <1>5, NoRequest
  <2> QED
    BY <1>0, <1>1, <1>2, <1>3, <1>4, <1>5, <2>1 DEF AddInv, Publishing
<1> QED
  BY <1>1, <1>2, <1>7, <1>8, <1>9, <1>10, <1>11, KindFrame DEF IInv

LEMMA InsertItemInv == ASSUME IInv, InsertItem PROVE IInv'
<1>0. TypeOK /\ AddInv
  BY DEF IInv, KindInv
<1>1. /\ pc = "insert" /\ pc' = pc /\ todo # <<>> /\ Inserted(Head(todo).key) /\ Step
      /\ UNCHANGED <<conf, activeConfig, wlEntries, wlKeyIndex, wlComboRefCount, activeWLSlot, kind,
                     prepared, ids, delta, undoing, saved, committed, targets, botched>>
  BY DEF InsertItem, table, ghost
<1>2. kind = "add"
  BY <1>1 DEF IInv, KindInv, NoneInv, DelInv, ClearInv, SyncInv, Publishing
<1>3. /\ todo' \in Seq(Item) /\ done' \in Seq(Item) /\ Head(todo).key \in Keys
      /\ ItemKeys(done') = ItemKeys(done) \cup {Head(todo).key}
      /\ ItemKeys(todo) = ItemKeys(todo') \cup {Head(todo).key}
  BY <1>0, <1>1, StepFacts
<1>4. wl' \in [Slots -> SUBSET Keys] /\ Map' = Map \cup {Head(todo).key}
  BY <1>0, <1>1, <1>3, MapFacts
<1>5. Final' = Final /\ Olds' = Olds /\ Kept' = Kept
  BY <1>1 DEF Final, Olds, Kept
<1>6. Announced' = Announced /\ Published' = Published
  BY <1>1, <1>2, <1>5 DEF Announced, Published
<1>7. TypeOK'
  BY <1>0, <1>1, <1>3, <1>4 DEF TypeOK
<1>8. DeltaOK'
  BY <1>1, <1>2, <1>5 DEF IInv, DeltaOK, Publishing
<1>9. AddInv'
  BY <1>0, <1>1, <1>2, <1>3, <1>4, <1>5 DEF AddInv, Publishing
<1> QED
  BY <1>1, <1>2, <1>6, <1>7, <1>8, <1>9, KindFrame, QuietFrame DEF Publishing

LEMMA InsertFailsInv == ASSUME IInv, InsertFails PROVE IInv'
<1>0. TypeOK /\ AddInv
  BY DEF IInv, KindInv
<1>1. /\ pc = "insert" /\ pc' = "remove" /\ todo' = done /\ done' = <<>> /\ undoing' = TRUE
      /\ UNCHANGED <<wl, conf, activeConfig, wlEntries, wlKeyIndex, wlComboRefCount, activeWLSlot,
                     kind, prepared, ids, delta, saved, committed, targets, botched>>
  BY DEF InsertFails, Phase, table, maps, ghost
<1>2. kind = "add"
  BY <1>1 DEF IInv, KindInv, NoneInv, DelInv, ClearInv, SyncInv, Publishing
<1>3. Final' = Final /\ Olds' = Olds /\ Kept' = Kept /\ Map' = Map
  BY <1>1 DEF Final, Olds, Kept, Map
<1>4. Announced' = Announced /\ Published' = Published
  BY <1>1, <1>2, <1>3 DEF Announced, Published, Publishing
<1>5. undoing' \in BOOLEAN
  BY <1>1, Zenon
<1>6. TypeOK'
  BY <1>0, <1>1, <1>5, NoRequest DEF TypeOK
<1>7. DeltaOK'
  BY <1>1, <1>2, <1>3 DEF IInv, DeltaOK, Publishing
<1>8. AddInv'
  BY <1>0, <1>1, <1>2, <1>3 DEF AddInv, Publishing
<1> QED
  BY <1>1, <1>2, <1>4, <1>6, <1>7, <1>8, KindFrame, QuietFrame DEF Publishing

LEMMA CommitAddInv == ASSUME IInv, CommitAdd PROVE IInv'
<1>0. TypeOK /\ Memory /\ Confs /\ AddInv
  BY DEF IInv, KindInv
<1> DEFINE t == [i \in Ids |-> IF i \in ItemIds(prepared)
                               THEN (CHOOSE it \in ToSet(prepared) : it.id = i).key
                               ELSE wlEntries[i]]
<1>1. /\ pc = "insert" /\ todo = <<>> /\ wlEntries' = t /\ Return(t)
      /\ UNCHANGED <<wl, conf, activeConfig, wlComboRefCount, activeWLSlot, botched>>
  BY DEF CommitAdd, maps
<1>2. t = Over(wlEntries, prepared)
  BY DEF Over
<1> HIDE DEF t
<1>3. kind = "add"
  BY <1>1 DEF IInv, KindInv, NoneInv, DelInv, ClearInv, SyncInv, Publishing
<1>4. /\ wlEntries = committed /\ Final = Over(wlEntries, prepared)
      /\ KeysOf(Final) = Kept \cup ItemKeys(prepared)
      /\ ItemKeys(Replaced(prepared)) = Olds
  BY <1>3, AddFacts
<1>5. t = Final /\ t \in Supporteds
  BY <1>0, <1>2, <1>4, TypeFacts
<1>6. /\ wlKeyIndex' \in [Keys -> Ids \cup {None}]
      /\ \A k \in Keys, i \in Ids : wlKeyIndex'[k] = i <=> t[i] = k
  <2>1. /\ wlEntries \in Tables /\ wlKeyIndex \in [Keys -> Ids \cup {None}] /\ prepared \in Requests
        /\ \A k \in Keys, i \in Ids : wlKeyIndex[k] = i <=> wlEntries[i] = k
    BY <1>0, TypeFacts DEF TypeOK, Memory
  <2>2. PICK D, y : D = ItemKeys(Replaced(prepared)) /\ y = wlKeyIndex'
    OBVIOUS
  <2>3. D = {wlEntries[i] : i \in ItemIds(prepared)} \ {None}
    BY <1>4, <2>2 DEF Olds
  <2>4. y = IndexOver(wlKeyIndex, prepared, D)
    BY <2>2 DEF CommitAdd, IndexOver
  <2>5. \A n \in DOMAIN prepared : wlKeyIndex[prepared[n].key] \in {None, prepared[n].id}
    <3> SUFFICES ASSUME NEW n \in DOMAIN prepared, wlKeyIndex[prepared[n].key] \in Ids
                 PROVE  FALSE
      BY <2>1, RequestFacts
    <3>1. prepared[n].key \in Keys /\ prepared[n].key \in ItemKeys(prepared)
      BY <2>1, RequestFacts
    <3>2. PICK i \in Ids : wlKeyIndex[prepared[n].key] = i
      OBVIOUS
    <3>3. wlEntries[i] = prepared[n].key
      BY <2>1, <3>1, <3>2
    <3>4. prepared[n].key \in KeysOf(committed)
      BY <1>4, <2>1, <3>1, <3>3, KeysOfFacts, NoneFacts
    <3> QED
      BY <1>0, <1>3, <3>1, <3>4 DEF AddInv
  <2>6. /\ y \in [Keys -> Ids \cup {None}]
        /\ \A k \in Keys, i \in Ids : y[k] = i <=> Over(wlEntries, prepared)[i] = k
    BY <2>1, <2>3, <2>4, <2>5, IndexOverFacts
  <2> QED
    BY <1>2, <2>2, <2>6
<1>7. ~botched => Map = KeysOf(t)
  <2>1. /\ ItemKeys(done) \cup ItemKeys(todo) = ItemKeys(prepared)
        /\ ~botched => Map = Kept \cup ItemKeys(done)
    BY <1>0, <1>1, <1>3 DEF AddInv
  <2>2. ItemKeys(done) = ItemKeys(prepared)
    BY <1>1, <2>1, NoRequest
  <2> QED
    BY <1>4, <1>5, <2>1, <2>2
<1>8. Announced = t /\ Published = t
  BY <1>1, <1>3, <1>5 DEF Announced, Published
<1>9. wlComboRefCount = CountOf(t)
  BY <1>0, <1>8 DEF Memory
<1>10. /\ conf[activeConfig].sel = activeWLSlot
       /\ ~botched => /\ conf[activeConfig].bitmap = CombosOf(t)
                      /\ conf[activeConfig].count = SizeOf(t)
  BY <1>0, <1>3, <1>8 DEF Confs
<1> QED
  BY <1>0, <1>1, <1>5, <1>6, <1>7, <1>9, <1>10, ReturnInv DEF TypeOK, Map

LEMMA RemoveItemInv == ASSUME IInv, RemoveItem PROVE IInv'
<1>0. TypeOK /\ AddInv
  BY DEF IInv, KindInv
<1>1. /\ pc = "remove" /\ pc' = pc /\ todo # <<>> /\ Step
      /\ \/ Removed(Head(todo).key) /\ botched' = botched
         \/ botched' = TRUE /\ wl' = wl
      /\ UNCHANGED <<conf, activeConfig, wlEntries, wlKeyIndex, wlComboRefCount, activeWLSlot, kind,
                     prepared, ids, delta, undoing, saved, committed, targets>>
  BY DEF RemoveItem, table
<1>2. kind = "add"
  BY <1>1 DEF IInv, KindInv, NoneInv, DelInv, ClearInv, SyncInv, Publishing
<1>3. /\ todo' \in Seq(Item) /\ done' \in Seq(Item) /\ Head(todo).key \in Keys
      /\ ItemKeys(todo) = ItemKeys(todo') \cup {Head(todo).key}
  BY <1>0, <1>1, StepFacts
<1>4. /\ wl' \in [Slots -> SUBSET Keys] /\ botched' \in BOOLEAN /\ (botched => botched')
      /\ ~botched' => ~botched /\ Map' = Map \ {Head(todo).key}
  <2>1. CASE Removed(Head(todo).key) /\ botched' = botched
    BY <1>0, <1>1, <1>3, <2>1, MapFacts DEF TypeOK
  <2>2. CASE botched' = TRUE /\ wl' = wl
    BY <1>0, <2>2 DEF TypeOK
  <2> QED
    BY <1>1, <2>1, <2>2
<1>5. Final' = Final /\ Olds' = Olds /\ Kept' = Kept
  BY <1>1 DEF Final, Olds, Kept
<1>6. Announced' = Announced /\ Published' = Published
  BY <1>1, <1>2, <1>5 DEF Announced, Published
<1>7. TypeOK'
  BY <1>0, <1>1, <1>3, <1>4 DEF TypeOK
<1>8. DeltaOK'
  BY <1>1, <1>2, <1>5 DEF IInv, DeltaOK, Publishing
<1>9. AddInv'
  <2>1. Kept \cap ItemKeys(prepared) = {}
    BY <1>2, AddFacts
  <2> QED
    BY <1>0, <1>1, <1>2, <1>3, <1>4, <1>5, <2>1 DEF AddInv, Publishing
<1> QED
  BY <1>1, <1>2, <1>4, <1>6, <1>7, <1>8, <1>9, KindFrame, QuietFrame DEF Publishing

LEMMA FinishRemoveInv == ASSUME IInv, FinishRemove PROVE IInv'
<1>0. TypeOK /\ Memory /\ DeltaOK /\ Confs /\ AddInv /\ Once
  BY DEF IInv, KindInv
<1>1. /\ pc = "remove" /\ todo = <<>> /\ wlComboRefCount' = Uncounted
      /\ pc' = "reinsert" /\ todo' = Replaced(prepared) /\ done' = <<>>
      /\ UNCHANGED <<wl, conf, activeConfig, wlEntries, wlKeyIndex, activeWLSlot, kind, prepared,
                     ids, delta, undoing, saved, committed, targets, botched>>
  BY DEF FinishRemove, Phase, maps, ghost
<1>2. kind = "add"
  BY <1>1 DEF IInv, KindInv, NoneInv, DelInv, ClearInv, SyncInv, Publishing
<1>3. Final' = Final /\ Olds' = Olds /\ Kept' = Kept /\ Map' = Map
  BY <1>1 DEF Final, Olds, Kept, Map
<1>4. /\ wlEntries = committed /\ KeysOf(committed) \ Olds = Kept /\ Kept \subseteq KeysOf(committed)
      /\ Replaced(prepared) \in Seq(Item) /\ ItemKeys(Replaced(prepared)) = Olds
      /\ CountOf(wlEntries) = [c \in Combos |-> CountOf(Final)[c] - Number(prepared, c)
                                                  + Number(Replaced(prepared), c)]
  BY <1>2, AddFacts
<1>5. undoing
  BY <1>0, <1>1, <1>2 DEF AddInv
<1>6. Announced = Final /\ Announced' = wlEntries /\ Published = Final /\ Published' = Final
  BY <1>1, <1>2, <1>3, <1>5 DEF Announced, Published, Publishing
<1>7. TypeOK'
  BY <1>0, <1>1, <1>4, NoRequest DEF TypeOK
<1>8. Uncounted = CountOf(wlEntries)
  BY <1>0, <1>4, <1>6 DEF Memory, Uncounted
<1>9. Memory' /\ Once'
  BY <1>0, <1>1, <1>6, <1>8 DEF Memory, Once
<1>10. DeltaOK' /\ Confs'
  BY <1>0, <1>1, <1>2, <1>3, <1>5, <1>6 DEF DeltaOK, Confs, Publishing
<1>11. AddInv'
  <2>1. ~botched => Kept \subseteq Map /\ Map \subseteq Kept
    BY <1>0, <1>1, <1>2, NoRequest DEF AddInv
  <2> QED
    BY <1>0, <1>1, <1>2, <1>3, <1>4, <1>5, <2>1 DEF AddInv, Publishing
<1> QED
  BY <1>1, <1>2, <1>7, <1>9, <1>10, <1>11, KindFrame DEF IInv

-----------------------------------------------------------------------------
(* The end of an undo *)

LEMMA ReinsertItemInv == ASSUME IInv, ReinsertItem PROVE IInv'
<1>0. TypeOK /\ AddInv /\ DelInv
  BY DEF IInv, KindInv
<1>1. /\ pc = "reinsert" /\ pc' = pc /\ todo # <<>> /\ Step
      /\ \/ Inserted(Head(todo).key) /\ botched' = botched
         \/ botched' = TRUE /\ wl' = wl
      /\ UNCHANGED <<conf, activeConfig, wlEntries, wlKeyIndex, wlComboRefCount, activeWLSlot, kind,
                     prepared, ids, delta, undoing, saved, committed, targets>>
  BY DEF ReinsertItem, table
<1>2. kind \in {"add", "del"}
  BY <1>1 DEF IInv, KindInv, NoneInv, ClearInv, SyncInv, Publishing
<1>3. /\ todo' \in Seq(Item) /\ done' \in Seq(Item) /\ Head(todo).key \in Keys
      /\ ItemKeys(todo) = ItemKeys(todo') \cup {Head(todo).key}
  BY <1>0, <1>1, StepFacts
<1>4. /\ wl' \in [Slots -> SUBSET Keys] /\ botched' \in BOOLEAN /\ (botched => botched')
      /\ ~botched' => ~botched /\ Map' = Map \cup {Head(todo).key}
  <2>1. CASE Inserted(Head(todo).key) /\ botched' = botched
    BY <1>0, <1>1, <1>3, <2>1, MapFacts DEF TypeOK
  <2>2. CASE botched' = TRUE /\ wl' = wl
    BY <1>0, <2>2 DEF TypeOK
  <2> QED
    BY <1>1, <2>1, <2>2
<1>5. Final' = Final /\ Olds' = Olds
  BY <1>1 DEF Final, Olds
<1>6. Announced' = Announced /\ Published' = Published
  BY <1>1, <1>2, <1>5 DEF Announced, Published, Publishing
<1>7. TypeOK'
  BY <1>0, <1>1, <1>3, <1>4 DEF TypeOK
<1>8. DeltaOK'
  BY <1>1, <1>2, <1>5 DEF IInv, DeltaOK, Publishing
<1>9. CASE kind = "add"
  <2>1. Olds \subseteq KeysOf(committed)
    BY <1>9, AddFacts
  <2>2. AddInv'
    BY <1>0, <1>1, <1>9, <1>3, <1>4, <1>5, <2>1 DEF AddInv, Publishing
  <2> QED
    BY <1>1, <1>9, <1>4, <1>6, <1>7, <1>8, <2>2, KindFrame, QuietFrame DEF Publishing
<1>10. CASE kind = "del"
  <2>1. {committed[i] : i \in targets} \ {None} \subseteq KeysOf(committed)
    <3>1. committed \in Tables /\ targets \subseteq Ids
      BY <1>0, TypeFacts DEF TypeOK
    <3> QED
      BY <3>1, KeysOfFacts
  <2>2. DelInv'
    <3>1. /\ prepared = <<>> /\ ~undoing /\ ToSet(ids) \subseteq targets
          /\ wlEntries = committed /\ ItemKeys(todo) \subseteq {committed[i] : i \in targets} \ {None}
          /\ ~botched => /\ KeysOf(committed) \ ItemKeys(todo) \subseteq Map
                         /\ Map \subseteq KeysOf(committed)
      BY <1>0, <1>1, <1>10 DEF DelInv
    <3>2. /\ ItemKeys(todo') \subseteq {committed[i] : i \in targets} \ {None}
          /\ Head(todo).key \in KeysOf(committed)
      BY <1>3, <2>1, <3>1
    <3>3. ~botched' => /\ KeysOf(committed) \ ItemKeys(todo') \subseteq Map'
                       /\ Map' \subseteq KeysOf(committed)
      BY <1>3, <1>4, <3>1, <3>2
    <3> QED
      BY <1>1, <1>10, <3>1, <3>2, <3>3 DEF DelInv
  <2> QED
    BY <1>1, <1>10, <1>4, <1>6, <1>7, <1>8, <2>2, KindFrame, QuietFrame DEF Publishing
<1> QED
  BY <1>2, <1>9, <1>10

\* All is back: the map in force holds the entries in force.
LEMMA ReinsertedFacts ==
  ASSUME IInv, pc = "reinsert", todo = <<>>
  PROVE  /\ kind \in {"add", "del"} /\ wlEntries = committed /\ Announced = wlEntries
         /\ undoing => kind = "add"
         /\ ~botched => Map = KeysOf(committed)
         /\ conf[activeConfig].sel = activeWLSlot
<1>0. TypeOK /\ AddInv /\ DelInv /\ Confs
  BY DEF IInv, KindInv
<1>1. kind \in {"add", "del"}
  BY DEF IInv, KindInv, NoneInv, ClearInv, SyncInv, Publishing
<1>2. wlEntries = committed /\ (undoing => kind = "add")
  BY <1>0, <1>1 DEF AddInv, DelInv
<1>3. ~botched => /\ KeysOf(committed) \ ItemKeys(todo) \subseteq Map
                  /\ Map \subseteq KeysOf(committed)
  BY <1>0, <1>1 DEF AddInv, DelInv
<1>4. ~botched => Map = KeysOf(committed)
  BY <1>3, NoRequest
<1>5. Announced = wlEntries
  BY <1>1 DEF Announced, Publishing
<1>6. conf[activeConfig].sel = activeWLSlot
  BY <1>0, <1>1 DEF Confs
<1> QED
  BY <1>1, <1>2, <1>4, <1>5, <1>6

LEMMA FinishReinsertInv == ASSUME IInv, FinishReinsert PROVE IInv'
<1>0. TypeOK /\ Memory /\ Confs
  BY DEF IInv
<1>1. /\ pc = "reinsert" /\ todo = <<>> /\ ~undoing /\ Return(committed)
      /\ UNCHANGED <<wl, conf, activeConfig, wlEntries, wlKeyIndex, wlComboRefCount, activeWLSlot,
                     botched>>
  BY DEF FinishReinsert, maps, table
<1>2. /\ kind \in {"add", "del"} /\ wlEntries = committed /\ Announced = wlEntries
      /\ ~botched => Map = KeysOf(committed)
      /\ conf[activeConfig].sel = activeWLSlot
  BY <1>1, ReinsertedFacts
<1>3. Published = committed
  BY <1>1 DEF Published
<1>4. ~botched => /\ conf[activeConfig].bitmap = CombosOf(committed)
                  /\ conf[activeConfig].count = SizeOf(committed)
  BY <1>0, <1>3 DEF Confs
<1> QED
  BY <1>0, <1>1, <1>2, <1>4, ReturnInv DEF TypeOK, Memory, Map

LEMMA RepublishInv == ASSUME IInv, Republish PROVE IInv'
<1>0. TypeOK /\ Memory /\ DeltaOK /\ Confs /\ AddInv /\ Once
  BY DEF IInv, KindInv
<1>1. /\ pc = "reinsert" /\ todo = <<>> /\ undoing /\ pc' = "copybits" /\ delta' = -delta
      /\ UNCHANGED <<wl, conf, activeConfig, wlEntries, wlKeyIndex, wlComboRefCount, activeWLSlot,
                     kind, prepared, todo, done, ids, undoing, saved, committed, targets, botched>>
  BY DEF Republish, maps, table, ghost
<1>2. /\ kind = "add" /\ wlEntries = committed /\ Announced = wlEntries
      /\ ~botched => Map = KeysOf(committed)
      /\ conf[activeConfig].sel = activeWLSlot
  BY <1>1, ReinsertedFacts
<1>3. Final' = Final /\ Olds' = Olds /\ Kept' = Kept /\ Map' = Map
  BY <1>1 DEF Final, Olds, Kept, Map
<1>4. Published = Final /\ Published' = Final /\ Announced' = committed
  BY <1>1, <1>2, <1>3 DEF Published, Announced, Publishing
<1>5. TypeOK'
  <2>1. delta' \in Int
    BY <1>0, <1>1 DEF TypeOK
  <2> QED
    BY <1>0, <1>1, <2>1 DEF TypeOK
<1>6. Memory' /\ Once'
  BY <1>0, <1>1, <1>2, <1>4 DEF Memory, Once
<1>7. DeltaOK'
  <2>1. SizeOf(Final) = SizeOf(committed) + delta
    BY <1>0, <1>1, <1>2 DEF DeltaOK
  <2>2. SizeOf(Final) \in Nat /\ SizeOf(committed) \in Nat /\ delta \in Int
    BY <1>0, <1>2, AddFacts DEF TypeOK
  <2>3. SizeOf(committed) = SizeOf(Final) + delta'
    BY <1>1, <2>1, <2>2
  <2> QED
    BY <1>1, <1>2, <1>4, <2>3 DEF DeltaOK, Publishing
<1>8. Confs'
  BY <1>0, <1>1, <1>2, <1>4 DEF Confs, Publishing
<1>9. AddInv'
  BY <1>0, <1>1, <1>2, <1>3 DEF AddInv, Publishing
<1> QED
  BY <1>1, <1>2, <1>5, <1>6, <1>7, <1>8, <1>9, KindFrame DEF IInv

-----------------------------------------------------------------------------
(* Deletes and the clearing of everything *)

LEMMA HeadFacts ==
  ASSUME NEW s \in Seq(Ids), s # <<>>
  PROVE  /\ Head(s) \in Ids /\ Head(s) \in ToSet(s)
         /\ Tail(s) \in Seq(Ids) /\ ToSet(Tail(s)) \subseteq ToSet(s)
<1>1. Head(s) = s[1] /\ 1 \in DOMAIN s /\ Head(s) \in Ids /\ Tail(s) \in Seq(Ids)
  OBVIOUS
<1>2. \A n \in DOMAIN Tail(s) : n + 1 \in DOMAIN s /\ Tail(s)[n] = s[n + 1]
  OBVIOUS
<1> QED
  BY <1>1, <1>2 DEF ToSet

\* An entry that is forgotten leaves the map, the table, the index and its count.
LEMMA ForgetInv ==
  ASSUME TypeOK, Memory, Announced = wlEntries, NEW i \in Ids, wlEntries[i] # None, Forget(i),
         activeWLSlot' = activeWLSlot
  PROVE  /\ wlEntries' \in Supporteds /\ wlKeyIndex' \in [Keys -> Ids \cup {None}]
         /\ \A k \in Keys, j \in Ids : wlKeyIndex'[k] = j <=> wlEntries'[j] = k
         /\ wlComboRefCount' = CountOf(wlEntries') /\ SizeOf(wlEntries') = SizeOf(wlEntries) - 1
         /\ wl' \in [Slots -> SUBSET Keys] /\ Map' = Map \ {wlEntries[i]}
         /\ KeysOf(wlEntries') = KeysOf(wlEntries) \ {wlEntries[i]}
         /\ wlEntries'[i] = None /\ \A j \in Ids \ {i} : wlEntries'[j] = wlEntries[j]
<1>1. /\ wlEntries \in Supporteds /\ wlEntries \in Tables /\ wlKeyIndex \in [Keys -> Ids \cup {None}]
      /\ \A k \in Keys, j \in Ids : wlKeyIndex[k] = j <=> wlEntries[j] = k
      /\ wlComboRefCount = CountOf(wlEntries)
  BY TypeFacts DEF TypeOK, Memory
<1>2. wlEntries[i] \in Keys
  BY <1>1, KeysOfFacts
<1>3. \A j, k \in Ids : wlEntries[j] = wlEntries[k] /\ wlEntries[j] # None => j = k
  BY <1>1, OnceFacts
<1>4. /\ Removed(wlEntries[i])
      /\ wlComboRefCount' = [wlComboRefCount EXCEPT ![Combo[wlEntries[i]]] = @ - 1]
      /\ wlKeyIndex' = [wlKeyIndex EXCEPT ![wlEntries[i]] = None]
      /\ wlEntries' = [wlEntries EXCEPT ![i] = None]
  BY DEF Forget
<1>5. PICK v : v = [wlEntries EXCEPT ![i] = None]
  OBVIOUS
<1>6. /\ v \in Supporteds /\ KeysOf(v) = KeysOf(wlEntries) \ {wlEntries[i]}
      /\ CountOf(v) = [CountOf(wlEntries) EXCEPT ![Combo[wlEntries[i]]] = @ - 1]
      /\ SizeOf(v) = SizeOf(wlEntries) - 1
  BY <1>1, <1>3, <1>5, ForgetFacts
<1>7. v[i] = None /\ \A j \in Ids \ {i} : v[j] = wlEntries[j]
  BY <1>1, <1>5 DEF Tables
<1>8. wlEntries' = v
  BY <1>4, <1>5
<1>9. wlComboRefCount' = CountOf(v)
  BY <1>1, <1>4, <1>6
<1>10. wlKeyIndex' \in [Keys -> Ids \cup {None}]
  BY <1>1, <1>4
<1>11. ASSUME NEW k \in Keys, NEW j \in Ids PROVE wlKeyIndex'[k] = j <=> v[j] = k
  <2>1. CASE k = wlEntries[i]
    <3>1. wlKeyIndex'[k] = None
      BY <1>1, <1>2, <1>4, <2>1
    <3>2. v[j] # k
      BY <1>2, <1>3, <1>7, <2>1, NoneFacts
    <3> QED
      BY <3>1, <3>2, NoneFacts
  <2>2. CASE k # wlEntries[i]
    <3>1. wlKeyIndex'[k] = wlKeyIndex[k]
      BY <1>1, <1>4, <2>2
    <3>2. v[j] = k <=> wlEntries[j] = k
      BY <1>7, <2>2, NoneFacts
    <3> QED
      BY <1>1, <3>1, <3>2
  <2> QED
    BY <2>1, <2>2
<1>12. wl' \in [Slots -> SUBSET Keys] /\ Map' = Map \ {wlEntries[i]}
  BY <1>2, <1>4, MapFacts
<1> QED
  BY <1>6, <1>7, <1>8, <1>9, <1>10, <1>11, <1>12

LEMMA BeginDeleteInv == ASSUME IInv, NEW b \in DelBatches, BeginDelete(b) PROVE IInv'
<1>0. TypeOK /\ Memory /\ Confs /\ Once
  BY DEF IInv
<1>1. /\ Begin("del", ToSet(b)) /\ ids' = b /\ pc' = "delete" /\ todo' = <<>> /\ done' = <<>>
      /\ prepared' = prepared
  BY DEF BeginDelete, Phase
<1>2. b \in Seq(Ids) /\ ToSet(b) \in SUBSET Ids
  BY WhitelistAssumption DEF ToSet
<1>3. /\ pc = "idle" /\ kind = "none" /\ wlEntries = committed /\ delta = 0 /\ ~undoing
      /\ ~botched => Map = KeysOf(committed)
      /\ kind' = "del" /\ targets' = ToSet(b) /\ targets' \in SUBSET Ids
      /\ UNCHANGED <<wl, conf, activeConfig, wlEntries, wlKeyIndex, wlComboRefCount,
                     activeWLSlot, delta, undoing, saved, committed, botched>>
      /\ Announced = committed /\ Published = committed
  BY <1>1, <1>2, BeginFacts
<1>4. prepared = <<>>
  BY <1>3 DEF IInv, KindInv, NoneInv
<1>5. Announced' = committed /\ Published' = committed
  BY <1>1, <1>3 DEF Announced, Published
<1>6. TypeOK'
  BY <1>0, <1>1, <1>2, <1>3, NoRequest DEF TypeOK
<1>7. Memory' /\ Once'
  BY <1>0, <1>3, <1>5 DEF Memory, Once
<1>8. DeltaOK'
  <2>1. SizeOf(committed) = SizeOf(committed) + delta'
    <3>1. committed \in Supporteds
      BY <1>0 DEF TypeOK
    <3>2. SizeOf(committed) \in Nat
      BY <3>1, CombosAreCounted
    <3> QED
      BY <1>3, <3>2
  <2> QED
    BY <1>1, <1>3, <1>5, <2>1 DEF DeltaOK
<1>9. Confs'
  BY <1>0, <1>1, <1>3, <1>5 DEF Confs, Publishing
<1>10. DelInv'
  <2>1. /\ ItemIds(done') = {} /\ DOMAIN done' = {} /\ Map' = Map /\ Singles(done')
    BY <1>1, <1>3, NoRequest DEF Map, Singles
  <2> QED
    BY <1>1, <1>3, <1>4, <2>1 DEF DelInv, Publishing
<1> QED
  BY <1>3, <1>6, <1>7, <1>8, <1>9, <1>10, KindFrame DEF IInv

LEMMA DeleteItemInv == ASSUME IInv, DeleteItem PROVE IInv'
<1>0. TypeOK /\ Memory /\ DeltaOK /\ Confs /\ DelInv /\ Once
  BY DEF IInv, KindInv
<1>1. PICK i, it : i = Head(ids) /\ it = [id |-> i, key |-> wlEntries[i]]
  OBVIOUS
<1>2. /\ pc = "delete" /\ pc' = pc /\ ids # <<>> /\ wlEntries[i] # None /\ Forget(i)
      /\ ids' = Tail(ids) /\ done' = Append(done, it) /\ delta' = delta - 1
      /\ UNCHANGED <<conf, activeConfig, activeWLSlot, kind, prepared, todo, undoing, saved,
                     committed, targets, botched>>
  BY <1>1 DEF DeleteItem, Deletable, ghost
<1>3. kind = "del"
  BY <1>2 DEF IInv, KindInv, NoneInv, AddInv, ClearInv, SyncInv, Publishing
<1>4. /\ i \in Ids /\ i \in ToSet(ids) /\ ids' \in Seq(Ids) /\ ToSet(ids') \subseteq ToSet(ids)
  BY <1>0, <1>1, <1>2, HeadFacts DEF TypeOK
<1>5. Announced = wlEntries /\ Announced' = wlEntries' /\ Published = committed /\ Published' = committed
  BY <1>2, <1>3 DEF Announced, Published
<1>6. /\ wlEntries' \in Supporteds /\ wlKeyIndex' \in [Keys -> Ids \cup {None}]
      /\ \A k \in Keys, j \in Ids : wlKeyIndex'[k] = j <=> wlEntries'[j] = k
      /\ wlComboRefCount' = CountOf(wlEntries') /\ SizeOf(wlEntries') = SizeOf(wlEntries) - 1
      /\ wl' \in [Slots -> SUBSET Keys] /\ Map' = Map \ {wlEntries[i]}
      /\ KeysOf(wlEntries') = KeysOf(wlEntries) \ {wlEntries[i]}
      /\ wlEntries'[i] = None /\ \A j \in Ids \ {i} : wlEntries'[j] = wlEntries[j]
  BY <1>0, <1>2, <1>4, <1>5, ForgetInv
<1>7. wlEntries \in Tables /\ wlEntries[i] \in Keys /\ it \in Item /\ it.id = i /\ it.key = wlEntries[i]
  <2>1. wlEntries \in Tables
    BY <1>0, TypeFacts
  <2>2. wlEntries[i] \in Keys
    BY <1>2, <1>4, <2>1, KeysOfFacts
  <2> QED
    BY <1>1, <1>4, <2>1, <2>2 DEF Item
<1>8. done \in Seq(Item)
  BY <1>0 DEF TypeOK
<1>9. /\ done' \in Seq(Item) /\ DOMAIN done = 1 .. Len(done) /\ Len(done) \in Nat
      /\ DOMAIN done' = 1 .. Len(done) + 1
      /\ \A n \in DOMAIN done : done'[n] = done[n]
      /\ done'[Len(done) + 1] = it
      /\ \A n \in DOMAIN done' : n = Len(done) + 1 \/ n \in DOMAIN done
  BY <1>2, <1>7, <1>8, AppendFacts
<1>10. TypeOK'
  <2>1. delta' \in Int
    BY <1>0, <1>2 DEF TypeOK
  <2> QED
    BY <1>0, <1>2, <1>4, <1>6, <1>9, <2>1 DEF TypeOK
<1>11. Memory' /\ Once'
  BY <1>0, <1>2, <1>5, <1>6 DEF Memory, Once
<1>12. DeltaOK'
  <2>1. SizeOf(wlEntries) = SizeOf(committed) + delta
    BY <1>0, <1>2, <1>3, <1>5 DEF DeltaOK
  <2>2. SizeOf(wlEntries) \in Nat /\ SizeOf(committed) \in Nat /\ delta \in Int
    BY <1>0, CombosAreCounted DEF TypeOK
  <2>3. SizeOf(wlEntries') = SizeOf(committed) + delta'
    BY <1>2, <1>6, <2>1, <2>2
  <2> QED
    BY <1>2, <1>3, <1>5, <2>3 DEF DeltaOK
<1>13. Confs'
  BY <1>0, <1>2, <1>3, <1>5 DEF Confs, Publishing
<1>14. DelInv'
  <2>1. /\ prepared = <<>> /\ ~undoing /\ ToSet(ids) \subseteq targets
        /\ Singles(done) /\ ItemIds(done) \subseteq targets
        /\ \A n \in DOMAIN done : /\ wlEntries[done[n].id] = None
                                  /\ committed[done[n].id] = done[n].key
        /\ \A j \in Ids \ ItemIds(done) : wlEntries[j] = committed[j]
        /\ ~botched => Map = KeysOf(wlEntries)
    BY <1>0, <1>2, <1>3 DEF DelInv
  <2>2. \A n \in DOMAIN done : done[n].id # i /\ done[n].id \in Ids
    BY <1>2, <1>8, <2>1, ItemFacts
  <2>3. i \notin ItemIds(done) /\ committed[i] = wlEntries[i]
    BY <1>4, <2>1, <2>2 DEF ItemIds
  <2>4. \A n \in DOMAIN done' : \/ n \in DOMAIN done /\ done'[n] = done[n]
                                \/ n = Len(done) + 1 /\ done'[n] = it
    BY <1>9
  <2>5. Singles(done')
    BY <1>7, <2>1, <2>2, <2>4 DEF Singles
  <2>6. ItemIds(done') = ItemIds(done) \cup {i}
    <3>1. \A n \in DOMAIN done : n \in DOMAIN done' /\ done'[n].id = done[n].id
      BY <1>9
    <3>2. Len(done) + 1 \in DOMAIN done' /\ done'[Len(done) + 1].id = i
      BY <1>7, <1>9
    <3>3. \A n \in DOMAIN done' : done'[n].id \in ItemIds(done) \cup {i}
      BY <1>7, <2>4 DEF ItemIds
    <3> QED
      BY <3>1, <3>2, <3>3 DEF ItemIds
  <2>7. \A n \in DOMAIN done' : /\ wlEntries'[done'[n].id] = None
                                /\ committed[done'[n].id] = done'[n].key
    <3> SUFFICES ASSUME NEW n \in DOMAIN done'
                 PROVE  wlEntries'[done'[n].id] = None /\ committed[done'[n].id] = done'[n].key
      OBVIOUS
    <3>1. CASE n \in DOMAIN done /\ done'[n] = done[n]
      BY <1>6, <2>1, <2>2, <3>1
    <3>2. CASE done'[n] = it
      BY <1>6, <1>7, <2>3, <3>2
    <3> QED
      BY <2>4, <3>1, <3>2
  <2>8. \A j \in Ids \ ItemIds(done') : wlEntries'[j] = committed[j]
    BY <1>6, <2>1, <2>6
  <2>9. ItemIds(done') \subseteq targets /\ ToSet(ids') \subseteq targets
    BY <1>4, <2>1, <2>6
  <2>10. ~botched => Map' = KeysOf(wlEntries')
    BY <1>6, <2>1
  <2> QED
    BY <1>2, <1>3, <2>1, <2>5, <2>7, <2>8, <2>9, <2>10 DEF DelInv
<1> QED
  BY <1>2, <1>3, <1>10, <1>11, <1>12, <1>13, <1>14, KindFrame DEF IInv

LEMMA SkipItemInv == ASSUME IInv, SkipItem PROVE IInv'
<1>0. TypeOK /\ DelInv
  BY DEF IInv, KindInv
<1>1. /\ pc = "delete" /\ pc' = pc /\ ids # <<>> /\ ids' = Tail(ids)
      /\ UNCHANGED <<wl, conf, activeConfig, wlEntries, wlKeyIndex, wlComboRefCount, activeWLSlot,
                     kind, prepared, todo, done, delta, undoing, saved, committed, targets, botched>>
  BY DEF SkipItem, table, maps, ghost
<1>2. kind = "del"
  BY <1>1 DEF IInv, KindInv, NoneInv, AddInv, ClearInv, SyncInv, Publishing
<1>3. ids' \in Seq(Ids) /\ ToSet(ids') \subseteq ToSet(ids)
  BY <1>0, <1>1, HeadFacts DEF TypeOK
<1>4. Announced = wlEntries /\ Announced' = wlEntries /\ Published' = Published /\ Map' = Map
  BY <1>1, <1>2 DEF Announced, Published, Map
<1>5. TypeOK'
  BY <1>0, <1>1, <1>3 DEF TypeOK
<1>6. DeltaOK'
  BY <1>1, <1>2, <1>4 DEF IInv, DeltaOK
<1>7. DelInv'
  BY <1>0, <1>1, <1>2, <1>3, <1>4 DEF DelInv
<1> QED
  BY <1>1, <1>2, <1>4, <1>5, <1>6, <1>7, KindFrame, QuietFrame DEF Publishing

LEMMA FinishDeleteInv == ASSUME IInv, FinishDelete PROVE IInv'
<1>0. TypeOK /\ Memory /\ DeltaOK /\ Confs /\ DelInv /\ Once
  BY DEF IInv, KindInv
<1>1. /\ pc = "delete"
      /\ UNCHANGED <<wl, conf, activeConfig, wlEntries, wlKeyIndex, wlComboRefCount, activeWLSlot>>
  BY DEF FinishDelete, table, maps
<1>2. kind = "del"
  BY <1>1 DEF IInv, KindInv, NoneInv, AddInv, ClearInv, SyncInv, Publishing
<1>3. Announced = wlEntries /\ Published = committed
  BY <1>1, <1>2 DEF Announced, Published
<1>4. CASE pc' = "copybits" /\ UNCHANGED <<local, ghost>>
  <2>1. UNCHANGED <<kind, prepared, todo, done, ids, delta, undoing, saved, committed, targets, botched>>
    BY <1>4 DEF local, ghost
  <2>2. Announced' = wlEntries /\ Published' = committed /\ Map' = Map
    BY <1>1, <1>2, <2>1 DEF Announced, Published, Map
  <2>3. TypeOK'
    BY <1>0, <1>1, <2>1 DEF TypeOK
  <2>4. Memory' /\ Once'
    BY <1>0, <1>1, <1>3, <2>1, <2>2 DEF Memory, Once
  <2>5. DeltaOK'
    BY <1>0, <1>1, <1>2, <1>3, <2>1, <2>2 DEF DeltaOK
  <2>6. Confs'
    BY <1>0, <1>1, <1>2, <1>3, <1>4, <2>1, <2>2 DEF Confs, Publishing
  <2>7. DelInv'
    BY <1>0, <1>1, <1>2, <1>4, <2>1, <2>2 DEF DelInv, Publishing
  <2> QED
    BY <1>2, <2>1, <2>3, <2>4, <2>5, <2>6, <2>7, KindFrame DEF IInv
<1>5. CASE done = <<>> /\ Return(committed) /\ botched' = botched
  <2>1. /\ \A i \in Ids : wlEntries[i] = committed[i]
        /\ ~botched => Map = KeysOf(wlEntries)
    BY <1>0, <1>1, <1>2, <1>5, NoRequest DEF DelInv
  <2>2. wlEntries = committed
    BY <1>0, <2>1, TypeFacts DEF Tables
  <2>3. /\ conf[activeConfig].sel = activeWLSlot
        /\ ~botched => /\ conf[activeConfig].bitmap = CombosOf(committed)
                       /\ conf[activeConfig].count = SizeOf(committed)
    BY <1>0, <1>2, <1>3 DEF Confs
  <2> QED
    BY <1>0, <1>1, <1>3, <1>5, <2>1, <2>2, <2>3, ReturnInv DEF TypeOK, Memory, Map
<1> QED
  BY <1>4, <1>5 DEF FinishDelete

LEMMA BeginClearInv == ASSUME IInv, BeginClear PROVE IInv'
<1>0. TypeOK /\ Memory /\ Confs /\ Once
  BY DEF IInv
<1>1. /\ Begin("clear", Ids) /\ pc' = "clearall" /\ todo' = <<>> /\ done' = <<>>
      /\ prepared' = prepared /\ ids' = ids
  BY DEF BeginClear, Phase
<1>3. /\ pc = "idle" /\ kind = "none" /\ wlEntries = committed /\ delta = 0 /\ ~undoing
      /\ ~botched => Map = KeysOf(committed)
      /\ kind' = "clear" /\ targets' = Ids /\ targets' \in SUBSET Ids
      /\ UNCHANGED <<wl, conf, activeConfig, wlEntries, wlKeyIndex, wlComboRefCount,
                     activeWLSlot, delta, undoing, saved, committed, botched>>
      /\ Announced = committed /\ Published = committed
  BY <1>1, BeginFacts
<1>4. prepared = <<>>
  BY <1>3 DEF IInv, KindInv, NoneInv
<1>5. Announced' = committed /\ Published' = committed
  BY <1>1, <1>3 DEF Announced, Published
<1>6. TypeOK'
  BY <1>0, <1>1, <1>3, NoRequest DEF TypeOK
<1>7. Memory' /\ Once'
  BY <1>0, <1>3, <1>5 DEF Memory, Once
<1>8. DeltaOK'
  <2>1. SizeOf(committed) = SizeOf(committed) + delta'
    <3>1. committed \in Supporteds
      BY <1>0 DEF TypeOK
    <3>2. SizeOf(committed) \in Nat
      BY <3>1, CombosAreCounted
    <3> QED
      BY <1>3, <3>2
  <2> QED
    BY <1>1, <1>3, <1>5, <2>1 DEF DeltaOK
<1>9. Confs'
  BY <1>0, <1>1, <1>3, <1>5 DEF Confs, Publishing
<1>10. ClearInv'
  <2>1. Map' = Map
    BY <1>3 DEF Map
  <2> QED
    BY <1>1, <1>3, <1>4, <2>1 DEF ClearInv
<1> QED
  BY <1>3, <1>6, <1>7, <1>8, <1>9, <1>10, KindFrame DEF IInv

LEMMA ClearItemInv == ASSUME IInv, NEW i \in Ids, ClearItem(i) PROVE IInv'
<1>0. TypeOK /\ Memory /\ DeltaOK /\ Confs /\ ClearInv /\ Once
  BY DEF IInv, KindInv
<1>2. /\ pc = "clearall" /\ pc' = pc /\ wlEntries[i] # None /\ Forget(i) /\ delta' = delta - 1
      /\ UNCHANGED <<conf, activeConfig, activeWLSlot, kind, prepared, todo, done, ids, undoing,
                     saved, committed, targets, botched>>
  BY DEF ClearItem, Deletable, ghost
<1>3. kind = "clear"
  BY <1>2 DEF IInv, KindInv, NoneInv, AddInv, DelInv, SyncInv, Publishing
<1>5. Announced = wlEntries /\ Announced' = wlEntries' /\ Published = committed /\ Published' = committed
  BY <1>2, <1>3 DEF Announced, Published
<1>6. /\ wlEntries' \in Supporteds /\ wlKeyIndex' \in [Keys -> Ids \cup {None}]
      /\ \A k \in Keys, j \in Ids : wlKeyIndex'[k] = j <=> wlEntries'[j] = k
      /\ wlComboRefCount' = CountOf(wlEntries') /\ SizeOf(wlEntries') = SizeOf(wlEntries) - 1
      /\ wl' \in [Slots -> SUBSET Keys] /\ Map' = Map \ {wlEntries[i]}
      /\ KeysOf(wlEntries') = KeysOf(wlEntries) \ {wlEntries[i]}
      /\ wlEntries'[i] = None /\ \A j \in Ids \ {i} : wlEntries'[j] = wlEntries[j]
  BY <1>0, <1>2, <1>5, ForgetInv
<1>10. TypeOK'
  <2>1. delta' \in Int
    BY <1>0, <1>2 DEF TypeOK
  <2> QED
    BY <1>0, <1>2, <1>6, <2>1 DEF TypeOK
<1>11. Memory' /\ Once'
  BY <1>0, <1>2, <1>5, <1>6 DEF Memory, Once
<1>12. DeltaOK'
  <2>1. SizeOf(wlEntries) = SizeOf(committed) + delta
    BY <1>0, <1>2, <1>3, <1>5 DEF DeltaOK
  <2>2. SizeOf(wlEntries) \in Nat /\ SizeOf(committed) \in Nat /\ delta \in Int
    BY <1>0, CombosAreCounted DEF TypeOK
  <2>3. SizeOf(wlEntries') = SizeOf(committed) + delta'
    BY <1>2, <1>6, <2>1, <2>2
  <2> QED
    BY <1>2, <1>3, <1>5, <2>3 DEF DeltaOK
<1>13. Confs'
  BY <1>0, <1>2, <1>3, <1>5 DEF Confs, Publishing
<1>14. ClearInv'
  BY <1>0, <1>2, <1>3, <1>6 DEF ClearInv
<1> QED
  BY <1>2, <1>3, <1>10, <1>11, <1>12, <1>13, <1>14, KindFrame DEF IInv

\* A clear that has removed nothing has left every entry.
LEMMA NothingCleared ==
  ASSUME IInv, kind = "clear", pc = "clearall", delta = 0 PROVE wlEntries = committed
<1>0. TypeOK /\ DeltaOK /\ ClearInv /\ wlEntries \in Tables /\ committed \in Tables
  BY TypeFacts DEF IInv, KindInv
<1>1. Announced = wlEntries /\ Published = committed
  BY DEF Announced, Published
<1>2. SizeOf(wlEntries) = SizeOf(committed) + delta
  BY <1>0, <1>1 DEF DeltaOK
<1>3. SizeOf(wlEntries) = SizeOf(committed)
  BY <1>0, <1>2, CombosAreCounted DEF TypeOK
<1>4. \A i \in Ids : wlEntries[i] \in {committed[i], None}
  BY <1>0 DEF ClearInv
<1>5. Holds(wlEntries, Keys) \subseteq Holds(committed, Keys)
  BY <1>4, NoneFacts DEF Holds
<1>6. Holds(wlEntries, Keys) = Holds(committed, Keys)
  BY <1>3, <1>5, HoldsFinite, FS_Subset DEF SizeOf
<1>7. \A i \in Ids : wlEntries[i] = committed[i]
  <2> SUFFICES ASSUME NEW i \in Ids, wlEntries[i] # committed[i] PROVE FALSE
    OBVIOUS
  <2>1. committed[i] \in Keys /\ wlEntries[i] = None
    BY <1>0, <1>4 DEF Tables
  <2>2. i \in Holds(wlEntries, Keys)
    BY <1>6, <2>1 DEF Holds
  <2> QED
    BY <2>1, <2>2, NoneFacts DEF Holds
<1> QED
  BY <1>0, <1>7 DEF Tables

\* The end of a clear: what was removed is published.
LEMMA PublishClearedInv ==
  ASSUME IInv, pc = "clearall", kind = "clear", PublishCleared,
         UNCHANGED <<wl, conf, activeConfig, wlEntries, wlKeyIndex, wlComboRefCount, activeWLSlot>>
  PROVE  IInv'
<1>0. TypeOK /\ Memory /\ DeltaOK /\ Confs /\ ClearInv /\ Once
  BY DEF IInv, KindInv
<1>3. Announced = wlEntries /\ Published = committed
  BY DEF Announced, Published
<1>4. CASE pc' = "copybits" /\ UNCHANGED <<local, ghost>>
  <2>1. UNCHANGED <<kind, prepared, todo, done, ids, delta, undoing, saved, committed, targets, botched>>
    BY <1>4 DEF local, ghost
  <2>2. Announced' = wlEntries /\ Published' = committed /\ Map' = Map
    BY <2>1 DEF Announced, Published, Map
  <2>3. TypeOK'
    BY <1>0, <2>1 DEF TypeOK
  <2>4. Memory' /\ Once'
    BY <1>0, <1>3, <2>1, <2>2 DEF Memory, Once
  <2>5. DeltaOK'
    BY <1>0, <1>3, <2>1, <2>2 DEF DeltaOK
  <2>6. Confs'
    BY <1>0, <1>3, <1>4, <2>1, <2>2 DEF Confs, Publishing
  <2>7. ClearInv'
    BY <1>0, <1>4, <2>1, <2>2 DEF ClearInv, Publishing
  <2> QED
    BY <2>1, <2>3, <2>4, <2>5, <2>6, <2>7, KindFrame DEF IInv
<1>5. CASE delta = 0 /\ Return(committed) /\ botched' = botched
  <2>1. wlEntries = committed
    BY <1>5, NothingCleared
  <2>2. ~botched => Map = KeysOf(wlEntries)
    BY <1>0 DEF ClearInv
  <2>3. /\ conf[activeConfig].sel = activeWLSlot
        /\ ~botched => /\ conf[activeConfig].bitmap = CombosOf(committed)
                       /\ conf[activeConfig].count = SizeOf(committed)
    BY <1>0, <1>3 DEF Confs
  <2> QED
    BY <1>0, <1>3, <1>5, <2>1, <2>2, <2>3, ReturnInv DEF TypeOK, Memory, Map
<1> QED
  BY <1>4, <1>5 DEF PublishCleared

LEMMA ClearEndsInv ==
  ASSUME IInv, FinishClear \/ \E i \in Ids : ClearFails(i) PROVE IInv'
<1>1. pc = "clearall" /\ PublishCleared
  BY DEF FinishClear, ClearFails
<1>2. kind = "clear"
  BY <1>1 DEF IInv, KindInv, NoneInv, AddInv, DelInv, SyncInv, Publishing
<1>3. CASE \E i \in Ids : ClearFails(i)
  <2>1. UNCHANGED <<wl, conf, activeConfig, wlEntries, wlKeyIndex, wlComboRefCount, activeWLSlot>>
    BY <1>3 DEF ClearFails, maps, table
  <2> QED
    BY <1>1, <1>2, <2>1, PublishClearedInv
<1>4. CASE FinishClear
  <2>1. /\ UNCHANGED <<wl, conf, activeConfig, wlEntries, wlKeyIndex, activeWLSlot>>
        /\ wlEntries = EmptyTable /\ wlComboRefCount' = NoCounts
    BY <1>4 DEF FinishClear, maps
  <2>2. Announced = wlEntries
    BY <1>2 DEF Announced
  <2>3. wlComboRefCount = CountOf(EmptyTable)
    BY <2>1, <2>2 DEF IInv, Memory
  <2>4. wlComboRefCount' = wlComboRefCount
    BY <2>1, <2>3, EmptyFacts
  <2> QED
    BY <1>1, <1>2, <2>1, <2>4, PublishClearedInv
<1> QED
  BY <1>3, <1>4

-----------------------------------------------------------------------------
(* The full sync *)

LEMMA BeginSyncInv == ASSUME IInv, NEW b \in SyncBatches, BeginSync(b) PROVE IInv'
<1>0. TypeOK /\ Memory /\ Confs /\ Once
  BY DEF IInv
<1>1. PICK t : t = Dropped(b) \cup {i \in ItemIds(b) : wlEntries[i] = None}
  OBVIOUS
<1>2. /\ Supported(b) /\ DistinctKeys(b) /\ Dedup(b) = b /\ Begin("sync", t)
      /\ prepared' = b /\ pc' = "clear" /\ todo' = <<>> /\ done' = <<>> /\ ids' = ids
  BY <1>1 DEF BeginSync, Phase
<1>3. b \in Seq(Item) /\ Singles(b)
  <2>1. b \in Seq(Item)
    BY WhitelistAssumption
  <2> QED
    BY <1>2, <2>1, DedupFacts
<1>4. b \in Requests
  <2>1. \A n \in DOMAIN b : b[n].key \in Keys /\ Combo[b[n].key] # None
    BY <1>2, <1>3, ItemFacts DEF Supported
  <2>2. \A n \in DOMAIN b : Combo[b[n].key] \in Combos
    BY <2>1, WhitelistAssumption
  <2>3. \A m, n \in DOMAIN b : b[m].key = b[n].key => b[m].id = b[n].id
    BY <1>2 DEF DistinctKeys
  <2> QED
    BY <1>3, <2>2, <2>3 DEF Requests
<1>5. t \in SUBSET Ids
  BY <1>1, <1>4, RequestFacts DEF Dropped, Present
<1>6. /\ pc = "idle" /\ kind = "none" /\ wlEntries = committed /\ delta = 0 /\ ~undoing
      /\ ~botched => Map = KeysOf(committed)
      /\ kind' = "sync" /\ targets' = t /\ targets' \in SUBSET Ids
      /\ UNCHANGED <<wl, conf, activeConfig, wlEntries, wlKeyIndex, wlComboRefCount,
                     activeWLSlot, delta, undoing, saved, committed, botched>>
      /\ Announced = committed /\ Published = committed
  BY <1>2, <1>5, BeginFacts
<1>7. Announced' = committed /\ Published' = committed
  BY <1>2, <1>6 DEF Announced, Published, Publishing
<1>8. TypeOK'
  BY <1>0, <1>2, <1>4, <1>6, NoRequest DEF TypeOK
<1>9. Memory' /\ Once'
  BY <1>0, <1>6, <1>7 DEF Memory, Once
<1>10. DeltaOK' /\ Confs'
  BY <1>0, <1>2, <1>6, <1>7 DEF DeltaOK, Confs, Publishing
<1>11. SyncInv'
  <2>1. Map' = Map
    BY <1>6 DEF Map
  <2>2. ASSUME NEW i \in Ids \ t, committed[i] # None PROVE committed[i] \in ItemKeys(b)
    <3>1. [id |-> i, key |-> wlEntries[i]] \in ToSet(b)
      BY <1>1, <1>6, <2>2 DEF Dropped, Present
    <3>2. PICK n \in DOMAIN b : b[n] = [id |-> i, key |-> wlEntries[i]]
      BY <3>1 DEF ToSet
    <3>3. b[n].key = committed[i]
      BY <1>6, <3>2
    <3> QED
      BY <3>3 DEF ItemKeys
  <2> QED
    BY <1>2, <1>6, <2>1, <2>2 DEF SyncInv, Publishing
<1> QED
  BY <1>6, <1>8, <1>9, <1>10, <1>11, KindFrame DEF IInv

\* A sync that stops before or after its publish returns with the map in force as it is.
LEMMA SyncReturns ==
  ASSUME IInv, kind = "sync", pc \in {"clear", "fill", "cleanup"}, Return(committed),
         wl' \in [Slots -> SUBSET Keys], wl'[activeWLSlot] = wl[activeWLSlot],
         UNCHANGED <<conf, activeConfig, wlEntries, wlKeyIndex, wlComboRefCount, activeWLSlot, botched>>
  PROVE  IInv'
<1>0. TypeOK /\ Memory /\ Confs /\ SyncInv
  BY DEF IInv, KindInv
<1>1. Announced = wlEntries /\ Published = committed
  BY DEF Announced, Published, Publishing
<1>2. wlEntries = committed /\ (~botched => Map = KeysOf(committed))
  BY <1>0 DEF SyncInv
<1>3. /\ conf[activeConfig].sel = activeWLSlot
      /\ ~botched => /\ conf[activeConfig].bitmap = CombosOf(committed)
                     /\ conf[activeConfig].count = SizeOf(committed)
  BY <1>0, <1>1 DEF Confs, Publishing
<1> QED
  BY <1>0, <1>1, <1>2, <1>3, ReturnInv DEF TypeOK, Memory, Map

\* The map that is not in force.
LEMMA ShadowFacts ==
  ASSUME TypeOK, NEW S \in SUBSET Keys, wl' = [wl EXCEPT ![Shadow] = S]
  PROVE  /\ wl' \in [Slots -> SUBSET Keys] /\ wl'[activeWLSlot] = wl[activeWLSlot]
         /\ wl'[Shadow] = S
BY TypeFacts DEF TypeOK

LEMMA NotClearedFacts ==
  ASSUME TypeOK, NotCleared(Shadow)
  PROVE  wl' \in [Slots -> SUBSET Keys] /\ wl'[activeWLSlot] = wl[activeWLSlot]
<1>1. PICK left \in SUBSET wl[Shadow] \ {{}} : wl' = [wl EXCEPT ![Shadow] = left]
  BY DEF NotCleared
<1>2. left \in SUBSET Keys
  BY TypeFacts
<1> QED
  BY <1>1, <1>2, ShadowFacts

LEMMA SyncClearInv == ASSUME IInv, SyncClear PROVE IInv'
<1>0. TypeOK /\ SyncInv
  BY DEF IInv, KindInv
<1>1. /\ pc = "clear" /\ pc' = "fill" /\ todo' = prepared /\ done' = <<>>
      /\ wl' = [wl EXCEPT ![Shadow] = {}]
      /\ UNCHANGED <<conf, activeConfig, wlEntries, wlKeyIndex, wlComboRefCount, activeWLSlot,
                     kind, prepared, ids, delta, undoing, saved, committed, targets, botched>>
  BY DEF SyncClear, Cleared, Phase, table, ghost
<1>2. kind = "sync"
  BY <1>1 DEF IInv, KindInv, NoneInv, AddInv, DelInv, ClearInv, Publishing
<1>3. /\ wl' \in [Slots -> SUBSET Keys] /\ wl'[activeWLSlot] = wl[activeWLSlot]
      /\ wl'[Shadow] = {}
  BY <1>0, <1>1, ShadowFacts
<1>4. Announced' = Announced /\ Published' = Published
  BY <1>1, <1>2 DEF Announced, Published, Publishing
<1>5. TypeOK'
  <2>1. prepared \in Seq(Item)
    BY <1>0, RequestFacts DEF TypeOK
  <2> QED
    BY <1>0, <1>1, <1>3, <2>1, NoRequest DEF TypeOK
<1>6. DeltaOK'
  BY <1>1, <1>2 DEF DeltaOK
<1>7. SyncInv'
  <2>1. Map' = Map /\ Shadow' = Shadow /\ ItemKeys(done') = {}
    BY <1>1, <1>3, NoRequest DEF Map, Shadow
  <2> QED
    BY <1>0, <1>1, <1>2, <1>3, <2>1 DEF SyncInv, Publishing
<1> QED
  BY <1>1, <1>2, <1>4, <1>5, <1>6, <1>7, KindFrame, QuietFrame DEF Publishing

LEMMA SyncClearFailsInv == ASSUME IInv, SyncClearFails PROVE IInv'
<1>0. TypeOK
  BY DEF IInv
<1>1. /\ pc = "clear" /\ NotCleared(Shadow) /\ Return(committed)
      /\ UNCHANGED <<conf, activeConfig, wlEntries, wlKeyIndex, wlComboRefCount, activeWLSlot, botched>>
  BY DEF SyncClearFails, table
<1>2. kind = "sync"
  BY <1>1 DEF IInv, KindInv, NoneInv, AddInv, DelInv, ClearInv, Publishing
<1> QED
  BY <1>0, <1>1, <1>2, NotClearedFacts, SyncReturns

LEMMA SyncFillInv == ASSUME IInv, SyncFill PROVE IInv'
<1>0. TypeOK /\ SyncInv
  BY DEF IInv, KindInv
<1>1. /\ pc = "fill" /\ pc' = pc /\ todo # <<>> /\ Step
      /\ wl' = [wl EXCEPT ![Shadow] = @ \cup {Head(todo).key}]
      /\ UNCHANGED <<conf, activeConfig, wlEntries, wlKeyIndex, wlComboRefCount, activeWLSlot,
                     kind, prepared, ids, delta, undoing, saved, committed, targets, botched>>
  BY DEF SyncFill, table, ghost
<1>2. kind = "sync"
  BY <1>1 DEF IInv, KindInv, NoneInv, AddInv, DelInv, ClearInv, Publishing
<1>3. /\ todo' \in Seq(Item) /\ done' \in Seq(Item) /\ Head(todo).key \in Keys
      /\ ItemKeys(done') = ItemKeys(done) \cup {Head(todo).key}
      /\ ItemKeys(todo) = ItemKeys(todo') \cup {Head(todo).key}
  BY <1>0, <1>1, StepFacts
<1>4. /\ wl' \in [Slots -> SUBSET Keys] /\ wl'[activeWLSlot] = wl[activeWLSlot]
      /\ wl'[Shadow] = wl[Shadow] \cup {Head(todo).key}
  <2>1. wl[Shadow] \cup {Head(todo).key} \in SUBSET Keys
    BY <1>0, <1>3, TypeFacts
  <2> QED
    BY <1>0, <1>1, <2>1, ShadowFacts
<1>5. Announced' = Announced /\ Published' = Published
  BY <1>1, <1>2 DEF Announced, Published, Publishing
<1>6. TypeOK'
  BY <1>0, <1>1, <1>3, <1>4 DEF TypeOK
<1>7. DeltaOK'
  BY <1>1, <1>2 DEF DeltaOK
<1>8. SyncInv'
  <2>1. Map' = Map /\ Shadow' = Shadow
    BY <1>1, <1>4 DEF Map, Shadow
  <2>2. ItemKeys(done) \cup ItemKeys(todo) = ItemKeys(prepared) /\ wl[Shadow] = ItemKeys(done)
    BY <1>0, <1>1, <1>2 DEF SyncInv
  <2>3. ItemKeys(done') \cup ItemKeys(todo') = ItemKeys(prepared) /\ wl'[Shadow] = ItemKeys(done')
    BY <1>3, <1>4, <2>2
  <2> QED
    BY <1>0, <1>1, <1>2, <2>1, <2>3 DEF SyncInv, Publishing
<1> QED
  BY <1>1, <1>2, <1>5, <1>6, <1>7, <1>8, KindFrame, QuietFrame DEF Publishing

LEMMA SyncFillFailsInv == ASSUME IInv, SyncFillFails PROVE IInv'
<1>1. /\ pc = "fill" /\ Return(committed)
      /\ UNCHANGED <<wl, conf, activeConfig, wlEntries, wlKeyIndex, wlComboRefCount, activeWLSlot, botched>>
  BY DEF SyncFillFails, table, maps
<1>2. kind = "sync"
  BY <1>1 DEF IInv, KindInv, NoneInv, AddInv, DelInv, ClearInv, Publishing
<1>3. wl' \in [Slots -> SUBSET Keys]
  BY <1>1 DEF IInv, TypeOK
<1> QED
  BY <1>1, <1>2, <1>3, SyncReturns

LEMMA SyncSelectInv == ASSUME IInv, SyncSelect PROVE IInv'
<1>0. TypeOK /\ Memory /\ Confs /\ SyncInv /\ Once
  BY DEF IInv, KindInv
<1>1. /\ pc = "fill" /\ todo = <<>> /\ pc' = "copybits" /\ activeWLSlot' = Shadow
      /\ saved' = wlComboRefCount /\ wlComboRefCount' = [c \in Combos |-> Number(prepared, c)]
      /\ UNCHANGED <<wl, conf, activeConfig, wlEntries, wlKeyIndex, kind, prepared, todo, done, ids,
                     delta, undoing, committed, targets, botched>>
  BY DEF SyncSelect, maps, ghost
<1>2. kind = "sync"
  BY <1>1 DEF IInv, KindInv, NoneInv, AddInv, DelInv, ClearInv, Publishing
<1>3. /\ wlEntries = committed /\ ~undoing
      /\ ~botched => Map = KeysOf(committed)
      /\ ItemKeys(done) \cup ItemKeys(todo) = ItemKeys(prepared) /\ wl[Shadow] = ItemKeys(done)
      /\ \A i \in Ids \ targets : committed[i] # None => committed[i] \in ItemKeys(prepared)
  BY <1>0, <1>1, <1>2 DEF SyncInv
<1>4. wl[Shadow] = ItemKeys(prepared)
  BY <1>1, <1>3, NoRequest
<1>5. Shadow \in Slots /\ Other(Shadow) = activeWLSlot
  BY <1>0, TypeFacts
<1>6. PICK v : v = Over(EmptyTable, prepared)
  OBVIOUS
<1>7. CountOf(v) = [c \in Combos |-> Number(prepared, c)]
  BY <1>0, <1>6, SyncFacts DEF TypeOK
<1>8. /\ Announced = wlEntries /\ Announced' = v /\ Published = committed /\ Published' = committed
  BY <1>1, <1>2, <1>6 DEF Announced, Published, Publishing
<1>9. TypeOK'
  BY <1>0, <1>1, <1>5 DEF TypeOK
<1>10. Memory' /\ Once'
  BY <1>0, <1>1, <1>7, <1>8 DEF Memory, Once
<1>11. DeltaOK'
  BY <1>1, <1>2 DEF DeltaOK
<1>12. Confs'
  <2>1. conf[activeConfig].sel = activeWLSlot
    BY <1>0, <1>1 DEF Confs, Publishing
  <2> QED
    BY <1>0, <1>1, <1>2, <1>5, <1>8, <2>1 DEF Confs, Publishing
<1>13. SyncInv'
  <2>1. Map' = wl[Shadow] /\ wl'[Shadow'] = Map
    BY <1>1, <1>5 DEF Map, Shadow
  <2>2. saved' = CountOf(wlEntries)
    BY <1>0, <1>1, <1>8 DEF Memory
  <2> QED
    BY <1>1, <1>2, <1>3, <1>4, <2>1, <2>2 DEF SyncInv, Publishing
<1> QED
  BY <1>1, <1>2, <1>9, <1>10, <1>11, <1>12, <1>13, KindFrame DEF IInv

LEMMA SyncCleanupInv == ASSUME IInv, SyncCleanup PROVE IInv'
<1>0. TypeOK
  BY DEF IInv
<1>1. /\ pc = "cleanup" /\ Return(committed)
      /\ wl' = [wl EXCEPT ![Shadow] = {}] \/ NotCleared(Shadow)
      /\ UNCHANGED <<conf, activeConfig, wlEntries, wlKeyIndex, wlComboRefCount, activeWLSlot, botched>>
  BY DEF SyncCleanup, Cleared, table
<1>2. kind = "sync"
  BY <1>1 DEF IInv, KindInv, NoneInv, AddInv, DelInv, ClearInv, Publishing
<1>3. wl' \in [Slots -> SUBSET Keys] /\ wl'[activeWLSlot] = wl[activeWLSlot]
  <2>1. CASE wl' = [wl EXCEPT ![Shadow] = {}]
    <3>1. PICK S \in SUBSET Keys : S = {}
      OBVIOUS
    <3>2. wl' = [wl EXCEPT ![Shadow] = S]
      BY <2>1, <3>1
    <3> QED
      BY <1>0, <3>2, ShadowFacts
  <2>2. CASE NotCleared(Shadow)
    BY <1>0, <2>2, NotClearedFacts
  <2> QED
    BY <1>1, <2>1, <2>2
<1> QED
  BY <1>1, <1>2, <1>3, SyncReturns

-----------------------------------------------------------------------------
(* The invariant, and what follows from it *)

\* Every step of every handler keeps the invariant.
LEMMA StepInv == ASSUME IInv, [Next]_vars PROVE IInv'
<1>1. CASE Add
  BY <1>1, BeginAddInv, DeleteOldInv, DeleteOldFailsInv, CountAddInv, InsertItemInv, InsertFailsInv,
     CommitAddInv, RemoveItemInv, FinishRemoveInv DEF Add
<1>2. CASE Undo
  BY <1>2, ReinsertItemInv, FinishReinsertInv, RepublishInv DEF Undo
<1>3. CASE Delete
  BY <1>3, BeginDeleteInv, DeleteItemInv, SkipItemInv, FinishDeleteInv DEF Delete
<1>4. CASE Clear
  BY <1>4, BeginClearInv, ClearItemInv, ClearEndsInv DEF Clear
<1>5. CASE Sync
  BY <1>5, BeginSyncInv, SyncClearInv, SyncClearFailsInv, SyncFillInv, SyncFillFailsInv, SyncSelectInv,
     SyncCleanupInv DEF Sync
<1>6. CASE Publish
  BY <1>6, PubStepInv, FlipAddInv, FlipUndoInv, FlipDeleteInv, FlipSyncInv, PubFailsAddInv,
     PubFailsUndoInv, PubFailsDeleteInv, PubFailsClearInv, PubFailsSyncInv DEF Publish
<1>7. CASE UNCHANGED vars
  <2>1. UNCHANGED <<wlEntries, wlKeyIndex, wlComboRefCount, activeWLSlot, wl, conf, activeConfig, pc,
                    kind, prepared, todo, done, ids, delta, undoing, saved, committed, targets, botched>>
    BY <1>7 DEF vars, maps, table, local, ghost
  <2>2. Final' = Final /\ Olds' = Olds /\ Kept' = Kept /\ Map' = Map /\ Shadow' = Shadow /\ Target' = Target
    BY <2>1 DEF Final, Olds, Kept, Map, Shadow, Target
  <2>3. Announced' = Announced /\ Published' = Published
    BY <2>1, <2>2 DEF Announced, Published
  <2>4. TypeOK' /\ Memory' /\ Once'
    BY <2>1, <2>3 DEF IInv, TypeOK, Memory, Once
  <2>5. DeltaOK' /\ Confs'
    BY <2>1, <2>2, <2>3 DEF IInv, DeltaOK, Confs
  <2>6. NoneInv' /\ AddInv'
    BY <2>1, <2>2 DEF IInv, KindInv, NoneInv, AddInv
  <2>7. DelInv' /\ ClearInv' /\ SyncInv'
    BY <2>1, <2>2 DEF IInv, KindInv, DelInv, ClearInv, SyncInv
  <2> QED
    BY <2>1, <2>4, <2>5, <2>6, <2>7 DEF IInv, KindInv
<1> QED
  BY <1>1, <1>2, <1>3, <1>4, <1>5, <1>6, <1>7 DEF Next

\* At every step of every handler the table, its index and the counts agree, the config in
\* force says which entries are published, and the map says how far the handler has come.
THEOREM WhitelistInvariance == Spec => []IInv
<1>1. Init => IInv
  BY InitInv
<1>2. IInv /\ [Next]_vars => IInv'
  BY StepInv
<1> QED
  BY <1>1, <1>2, PTL DEF Spec

\* The map that the config in force selects.
InForce == wl[conf[activeConfig].sel]

\* The entries that the running request leaves alone are in the map in force and in the
\* active one, and their combos are announced; nothing else is in either map but what is in
\* force or asked for.
LEMMA ForceFacts ==
  ASSUME IInv, ~botched
  PROVE  /\ InForce \subseteq Fair /\ Map \subseteq Fair
         /\ Safe \subseteq InForce /\ Safe \subseteq Map
         /\ \A k \in Safe : Combo[k] \in CombosOf(Published) /\ Combo[k] \in CombosOf(Announced)
         /\ conf[activeConfig].bitmap = CombosOf(Published)
         /\ kind = "none" => InForce = KeysOf(committed) /\ Published = committed
         /\ kind = "add" => /\ InForce = Map
                            /\ Map \subseteq KeysOf(committed) \/ Map \subseteq Kept \cup ItemKeys(prepared)
<1>0. /\ TypeOK /\ Confs /\ Once /\ wlEntries \in Tables /\ committed \in Tables
      /\ committed \in Supporteds /\ Shadow = Other(activeWLSlot)
  BY TypeFacts DEF IInv, TypeOK, Shadow
<1>1. conf[activeConfig].bitmap = CombosOf(Published)
  BY <1>0 DEF Confs
<1>2. InForce = IF kind = "sync" /\ pc \in Publishing THEN wl[Shadow] ELSE Map
  BY <1>0 DEF Confs, InForce, Map
<1>3. \A k \in Safe : \E i \in Ids \ targets : committed[i] = k /\ k # None /\ k \in KeysOf(committed)
  <2> SUFFICES ASSUME NEW k \in Safe
               PROVE  \E i \in Ids \ targets : committed[i] = k /\ k # None /\ k \in KeysOf(committed)
    OBVIOUS
  <2>1. PICK i \in Present(committed) \ targets : k = committed[i]
    BY DEF Safe
  <2>2. i \in Ids /\ committed[i] # None
    BY <2>1 DEF Present
  <2>3. committed[i] \in KeysOf(committed)
    BY <1>0, <2>2, KeysOfFacts
  <2> QED
    BY <2>1, <2>2, <2>3
<1>4. \A i \in Ids : committed[i] # None => Combo[committed[i]] \in CombosOf(committed)
  BY <1>0, CombosAreCounted
<1>5. CASE kind = "none"
  <2>1. Map = KeysOf(committed) /\ prepared = <<>> /\ wlEntries = committed
    BY <1>5 DEF IInv, KindInv, NoneInv
  <2>2. Published = committed /\ Announced = committed
    BY <1>5, <2>1 DEF Published, Announced
  <2> QED
    BY <1>1, <1>2, <1>3, <1>4, <1>5, <2>1, <2>2 DEF Fair
<1>6. CASE kind = "add"
  <2>1. AddInv /\ wlEntries = committed /\ targets = ItemIds(prepared)
    BY <1>6 DEF IInv, KindInv, AddInv
  <2>2. Kept \subseteq KeysOf(committed) /\ KeysOf(committed) \ Olds = Kept
    BY <1>6, AddFacts
  <2>3. Safe \subseteq Kept
    <3> SUFFICES ASSUME NEW k \in Safe PROVE k \in Kept
      OBVIOUS
    <3>1. PICK i \in Ids \ targets : committed[i] = k /\ k # None /\ k \in KeysOf(committed)
      BY <1>3
    <3>2. k \notin Olds
      <4> SUFFICES ASSUME NEW j \in ItemIds(prepared), committed[j] = k PROVE FALSE
        BY DEF Olds
      <4>1. j \in Ids
        BY <1>0, RequestFacts DEF TypeOK
      <4>2. i = j
        BY <1>0, <3>1, <4>1 DEF Once
      <4> QED
        BY <2>1, <3>1, <4>2
    <3> QED
      BY <3>1, <3>2 DEF Kept
  <2>4. pc \in {"delold", "insert", "remove", "reinsert"} \cup Publishing
    BY <1>6, <2>1 DEF AddInv
  <2>5. /\ Kept \subseteq Map
        /\ Map \subseteq KeysOf(committed) \/ Map \subseteq Kept \cup ItemKeys(prepared)
    <3>1. CASE pc = "delold"
      BY <1>6, <2>1, <2>2, <3>1 DEF AddInv
    <3>2. CASE pc = "insert"
      BY <1>6, <2>1, <2>2, <3>2 DEF AddInv
    <3>3. CASE pc = "remove"
      BY <1>6, <2>1, <2>2, <3>3 DEF AddInv
    <3>4. CASE pc = "reinsert"
      BY <1>6, <2>1, <2>2, <3>4 DEF AddInv
    <3>5. CASE pc \in Publishing
      BY <1>6, <2>1, <2>2, <3>5 DEF AddInv
    <3> QED
      BY <2>4, <3>1, <3>2, <3>3, <3>4, <3>5
  <2>6. \A k \in Safe : Combo[k] \in CombosOf(committed) /\ Combo[k] \in CombosOf(Final)
    <3> SUFFICES ASSUME NEW k \in Safe
                 PROVE  Combo[k] \in CombosOf(committed) /\ Combo[k] \in CombosOf(Final)
      OBVIOUS
    <3>1. PICK i \in Ids \ targets : committed[i] = k /\ k # None
      BY <1>3
    <3>2. Final[i] = k
      BY <1>0, <2>1, <3>1, OverFacts, RequestFacts DEF TypeOK, Final
    <3>3. Final \in Supporteds
      BY <1>0, TypeFacts
    <3> QED
      BY <1>4, <3>1, <3>2, <3>3, CombosAreCounted
  <2>7. Published \in {committed, Final} /\ Announced \in {committed, Final}
    BY <1>6, <2>1 DEF Published, Announced
  <2> QED
    BY <1>1, <1>2, <1>6, <2>2, <2>3, <2>5, <2>6, <2>7 DEF Fair
<1>7. CASE kind = "del"
  <2>1. DelInv /\ prepared = <<>>
    BY <1>7 DEF IInv, KindInv, DelInv
  <2>2. Published = committed /\ Announced = wlEntries
    BY <1>7 DEF Published, Announced
  <2>3. Map \subseteq KeysOf(committed)
    <3>1. CASE pc = "reinsert"
      BY <1>7, <2>1, <3>1 DEF DelInv
    <3>2. CASE pc # "reinsert"
      <4>1. /\ \A n \in DOMAIN done : wlEntries[done[n].id] = None
            /\ \A i \in Ids \ ItemIds(done) : wlEntries[i] = committed[i]
            /\ Map = KeysOf(wlEntries)
        BY <1>7, <2>1, <3>2 DEF DelInv
      <4>2. \A i \in ItemIds(done) : wlEntries[i] = None
        BY <4>1 DEF ItemIds
      <4>3. \A i \in Ids : wlEntries[i] \in {committed[i], None}
        BY <4>1, <4>2
      <4> QED
        BY <1>0, <4>1, <4>3, KeysOfFacts
    <3> QED
      BY <3>1, <3>2
  <2>4. ASSUME NEW k \in Safe PROVE k \in Map /\ Combo[k] \in CombosOf(wlEntries)
    <3>1. PICK i \in Ids \ targets : committed[i] = k /\ k # None /\ k \in KeysOf(committed)
      BY <1>3, <2>4
    <3>2. wlEntries[i] = k
      BY <1>7, <2>1, <3>1 DEF DelInv
    <3>3. wlEntries \in Supporteds
      BY <1>0 DEF TypeOK
    <3>4. Combo[k] \in CombosOf(wlEntries)
      BY <3>1, <3>2, <3>3, CombosAreCounted
    <3>5. CASE pc = "reinsert"
      <4>1. ItemKeys(todo) \subseteq {committed[j] : j \in targets} \ {None}
            /\ KeysOf(committed) \ ItemKeys(todo) \subseteq Map
        BY <1>7, <2>1, <3>5 DEF DelInv
      <4>2. k \notin {committed[j] : j \in targets}
        <5>1. \A j \in targets : j \in Ids /\ j # i
          BY <1>0, <3>1 DEF TypeOK
        <5> QED
          BY <1>0, <3>1, <5>1 DEF Once
      <4> QED
        BY <3>1, <3>4, <4>1, <4>2
    <3>6. CASE pc # "reinsert"
      <4>1. Map = KeysOf(wlEntries)
        BY <1>7, <2>1, <3>6 DEF DelInv
      <4> QED
        BY <1>0, <3>1, <3>2, <3>4, <4>1, KeysOfFacts
    <3> QED
      BY <3>5, <3>6
  <2>5. \A k \in Safe : Combo[k] \in CombosOf(committed)
    BY <1>3, <1>4
  <2> QED
    BY <1>1, <1>2, <1>7, <2>2, <2>3, <2>4, <2>5 DEF Fair
<1>8. CASE kind = "clear"
  <2>1. /\ targets = Ids /\ Map = KeysOf(wlEntries)
        /\ \A i \in Ids : wlEntries[i] \in {committed[i], None}
    BY <1>8 DEF IInv, KindInv, ClearInv
  <2>2. Map \subseteq KeysOf(committed)
    BY <1>0, <2>1, KeysOfFacts
  <2>3. Safe = {}
    BY <1>3, <2>1
  <2> QED
    BY <1>1, <1>2, <1>8, <2>2, <2>3 DEF Fair
<1>9. CASE kind = "sync"
  <2>1. SyncInv /\ wlEntries = committed /\ pc \in {"clear", "fill", "cleanup"} \cup Publishing
    BY <1>9 DEF IInv, KindInv, SyncInv
  <2>2. Published = committed
    BY <1>9 DEF Published
  <2>3. Safe \subseteq KeysOf(committed) /\ \A k \in Safe : Combo[k] \in CombosOf(committed)
    BY <1>3, <1>4
  <2>4. CASE pc \in Publishing
    <3>1. /\ Map = ItemKeys(prepared) /\ wl[Shadow] = KeysOf(committed)
          /\ pc # "cleanup"
          /\ \A i \in Ids \ targets : committed[i] # None => committed[i] \in ItemKeys(prepared)
      BY <1>9, <2>1, <2>4 DEF SyncInv, Publishing
    <3>2. Safe \subseteq ItemKeys(prepared)
      BY <1>3, <3>1
    <3>3. PICK v : v = Over(EmptyTable, prepared)
      OBVIOUS
    <3>4. v \in Supporteds /\ KeysOf(v) = ItemKeys(prepared) /\ Announced = v
      BY <1>0, <1>9, <2>4, <3>3, SyncFacts DEF Announced, TypeOK
    <3>5. \A k \in Safe : Combo[k] \in CombosOf(v)
      <4> SUFFICES ASSUME NEW k \in Safe PROVE Combo[k] \in CombosOf(v)
        OBVIOUS
      <4>1. v \in Tables /\ k \in KeysOf(v)
        BY <3>2, <3>4 DEF Supporteds
      <4>2. PICK i \in Ids : v[i] = k /\ v[i] # None
        BY <4>1, KeysOfFacts
      <4> QED
        BY <3>4, <4>2, CombosAreCounted
    <3> QED
      BY <1>1, <1>2, <1>9, <2>2, <2>3, <2>4, <3>1, <3>2, <3>4, <3>5 DEF Fair
  <2>5. CASE pc \in {"clear", "fill", "cleanup"}
    <3>1. Map = KeysOf(committed) /\ pc \notin Publishing
      BY <1>9, <2>1, <2>5 DEF SyncInv, Publishing
    <3>2. Announced = committed
      BY <1>9, <2>1, <3>1 DEF Announced
    <3> QED
      BY <1>1, <1>2, <1>9, <2>2, <2>3, <3>1, <3>2 DEF Fair
  <2> QED
    BY <2>1, <2>4, <2>5
<1>10. kind \in {"none", "add", "del", "clear", "sync"}
  BY DEF IInv, KindInv
<1> QED
  BY <1>5, <1>6, <1>7, <1>8, <1>9, <1>10

\* What a packet that reads everything at once finds.
LEMMA AdmittedFacts ==
  ASSUME IInv, ~botched
  PROVE  /\ Admitted \subseteq InForce /\ Safe \subseteq Admitted
         /\ kind = "none" => Admitted = KeysOf(committed)
<1>1. Admitted = {k \in InForce : Combo[k] \in CombosOf(Published)}
  BY ForceFacts DEF Admitted, InForce
<1>2. Safe \subseteq Admitted
  BY <1>1, ForceFacts
<1>3. ASSUME kind = "none" PROVE Admitted = KeysOf(committed)
  <2>1. InForce = KeysOf(committed) /\ Published = committed
    BY <1>3, ForceFacts
  <2>2. committed \in Supporteds /\ committed \in Tables
    BY TypeFacts DEF IInv, TypeOK
  <2>3. \A k \in KeysOf(committed) : Combo[k] \in CombosOf(committed)
    BY <2>2, KeysOfFacts, CombosAreCounted
  <2> QED
    BY <1>1, <2>1, <2>3
<1> QED
  BY <1>1, <1>2, <1>3

\* Every entry in force that the running request does not name is admitted at every step of
\* every handler, for any entries, requests and failures short of a failed undo.
THEOREM EntriesStayAdmitted == Spec => []EntriesAdmitted
<1>1. IInv => EntriesAdmitted
  BY AdmittedFacts DEF EntriesAdmitted, Safe
<1> QED
  BY <1>1, WhitelistInvariance, PTL

\* Nothing is admitted but what is in force or asked for, and between requests exactly what
\* is in force: no deleted, replaced or refused entry exempts a packet.
THEOREM OnlyEntriesAdmitted == Spec => []NothingElseAdmitted
<1>1. IInv => NothingElseAdmitted
  <2> SUFFICES ASSUME IInv, ~botched
               PROVE  /\ Admitted \subseteq KeysOf(committed) \cup ItemKeys(prepared)
                      /\ pc = "idle" => Admitted = KeysOf(committed)
    BY DEF NothingElseAdmitted
  <2>1. Admitted \subseteq KeysOf(committed) \cup ItemKeys(prepared)
    BY AdmittedFacts, ForceFacts DEF Fair
  <2>2. pc = "idle" => kind = "none"
    BY DEF IInv, KindInv, AddInv, DelInv, ClearInv, SyncInv, Publishing
  <2> QED
    BY <2>1, <2>2, AdmittedFacts
<1> QED
  BY <1>1, WhitelistInvariance, PTL

\* Security-first replacement: an id never admits its old and its new key at once, in the
\* whole of an add, its failures and its undo.
THEOREM OldAlwaysGoesFirst == Spec => []OldGoesFirst
<1>1. IInv => OldGoesFirst
  <2> SUFFICES ASSUME IInv, kind = "add", ~botched, NEW n \in DOMAIN prepared,
                      {committed[prepared[n].id], prepared[n].key} \subseteq Admitted
               PROVE  FALSE
    BY DEF OldGoesFirst
  <2>1. /\ Admitted \subseteq Map
        /\ Map \subseteq KeysOf(committed) \/ Map \subseteq Kept \cup ItemKeys(prepared)
    BY AdmittedFacts, ForceFacts
  <2>2. TypeOK /\ AddInv /\ committed \in Tables /\ Map \subseteq Keys
    BY TypeFacts DEF IInv, KindInv
  <2>3. /\ prepared[n].id \in Ids /\ prepared[n].id \in ItemIds(prepared)
        /\ prepared[n].key \in ItemKeys(prepared)
    BY <2>2, RequestFacts DEF TypeOK
  <2>4. committed[prepared[n].id] # None
    BY <2>1, <2>2, NoneFacts
  <2>5. committed[prepared[n].id] \in KeysOf(committed) /\ committed[prepared[n].id] \in Olds
    BY <2>2, <2>3, <2>4, KeysOfFacts DEF Olds
  <2>6. ItemKeys(prepared) \cap KeysOf(committed) = {}
    BY <2>2 DEF AddInv
  <2> QED
    BY <2>1, <2>3, <2>5, <2>6 DEF Kept
<1> QED
  BY <1>1, WhitelistInvariance, PTL

\* Between requests, whatever has failed, table, index and counts agree, and short of a failed
\* undo the published count is the number of entries: every second publish cancels the first.
THEOREM MemoryAlwaysExact == Spec => []MemoryExact
<1>1. IInv => MemoryExact
  <2> SUFFICES ASSUME IInv, pc = "idle"
               PROVE  /\ wlEntries = committed
                      /\ \A k \in Keys, i \in Ids : wlKeyIndex[k] = i <=> wlEntries[i] = k
                      /\ \A c \in Combos :
                           wlComboRefCount[c] = Cardinality({i \in Present(wlEntries) : Combo[wlEntries[i]] = c})
                      /\ ~botched => conf[activeConfig].count = Cardinality(Present(wlEntries))
    BY DEF MemoryExact
  <2>1. kind = "none"
    BY DEF IInv, KindInv, AddInv, DelInv, ClearInv, SyncInv, Publishing
  <2>2. wlEntries = committed /\ wlEntries \in Tables
    BY <2>1, TypeFacts DEF IInv, KindInv, NoneInv
  <2>3. Announced = wlEntries /\ Published = wlEntries
    BY <2>1, <2>2 DEF Announced, Published
  <2>4. /\ \A k \in Keys, i \in Ids : wlKeyIndex[k] = i <=> wlEntries[i] = k
        /\ wlComboRefCount = CountOf(wlEntries)
    BY <2>3 DEF IInv, Memory
  <2>5. \A c : Holds(wlEntries, KeysOfCombo(c)) = {i \in Present(wlEntries) : Combo[wlEntries[i]] = c}
    BY <2>2, NoneFacts DEF Holds, KeysOfCombo, Present, Tables
  <2>6. Holds(wlEntries, Keys) = Present(wlEntries)
    BY <2>2, NoneFacts DEF Holds, Present, Tables
  <2>7. ~botched => conf[activeConfig].count = SizeOf(wlEntries)
    BY <2>3 DEF IInv, Confs
  <2>8. \A c \in Combos :
          wlComboRefCount[c] = Cardinality({i \in Present(wlEntries) : Combo[wlEntries[i]] = c})
    BY <2>4, <2>5 DEF CountOf
  <2> QED
    BY <2>2, <2>4, <2>6, <2>7, <2>8 DEF SizeOf
<1> QED
  BY <1>1, WhitelistInvariance, PTL

-----------------------------------------------------------------------------
(* A packet in the gate *)

PktType ==
  [at : {"none", "slot", "bitmap", "sel", "lookup", "admitted", "missed"},
   slot : Slots, bitmap : SUBSET Combos, sel : Slots, hit : Keys \cup {None},
   keys : SUBSET Keys, kept : SUBSET Keys, seen : SUBSET Keys, cleared : BOOLEAN]

\* What packet p may be told by map s, and by the bitmap b.
Shows(p, s) == wl[s] \subseteq p.seen /\ (~p.cleared => p.kept \subseteq wl[s])
Tells(p, b) == ~p.cleared => \A k \in p.kept : Combo[k] \in b

\* The map a packet is about to look up, by the config it holds or by the selector it has
\* read, holds what was left alone since it came and only what was in force or asked for.
PktOK(p) ==
  p.at # "none" =>
    /\ Fair \subseteq p.seen /\ p.kept \subseteq Safe \cap p.keys
    /\ p.at \in {"bitmap", "sel"} => Shows(p, conf[p.slot].sel)
    /\ p.at = "bitmap" => Tells(p, conf[p.slot].bitmap)
    /\ p.at \in {"sel", "lookup"} => Tells(p, p.bitmap)
    /\ p.at = "lookup" => Shows(p, p.sel)
    /\ p.at = "missed" => p.kept = {} \/ p.cleared
    /\ p.at = "admitted" => p.hit \in p.seen

GateInv == IInv /\ pkt \in PktType /\ (~botched => PktOK(pkt))

\* What a step of the agent does to the maps: it adds only what is in force or asked for, and
\* short of emptying a map it takes away nothing that is left alone.
WlStep ==
  /\ \A s \in Slots : wl'[s] \subseteq wl[s] \cup Fair'
  /\ pc \notin {"clear", "cleanup"} => \A s \in Slots : wl[s] \cap Safe \subseteq wl'[s]

PubWrites == PubCopyBits \/ PubCopySel \/ PubWriteBits \/ PubWriteSel

\* An entry left alone has its key for itself.
LEMMA SafeFacts ==
  ASSUME IInv
  PROVE  /\ Safe \subseteq KeysOf(committed) /\ Safe \subseteq Fair /\ Fair \subseteq Keys
         /\ \A i \in targets : committed[i] \notin Safe
<1>0. TypeOK /\ committed \in Tables /\ Once
  BY TypeFacts DEF IInv
<1>1. ASSUME NEW k \in Safe
      PROVE  k \in KeysOf(committed) /\ \E i \in Ids \ targets : committed[i] = k /\ k # None
  <2>1. PICK i \in Present(committed) \ targets : k = committed[i]
    BY DEF Safe
  <2>2. i \in Ids /\ committed[i] # None
    BY <2>1 DEF Present
  <2> QED
    BY <1>0, <2>1, <2>2, KeysOfFacts
<1>2. Fair \subseteq Keys
  <2>1. KeysOf(committed) \subseteq Keys
    BY <1>0, KeysOfFacts
  <2>2. ItemKeys(prepared) \subseteq Keys
    BY <1>0, RequestFacts DEF TypeOK
  <2> QED
    BY <2>1, <2>2 DEF Fair
<1>3. ASSUME NEW i \in targets, committed[i] \in Safe PROVE FALSE
  <2>1. PICK j \in Ids \ targets : committed[j] = committed[i] /\ committed[i] # None
    BY <1>1, <1>3
  <2>2. i \in Ids
    BY <1>0 DEF TypeOK
  <2> QED
    BY <1>0, <2>1, <2>2 DEF Once
<1> QED
  BY <1>1, <1>2, <1>3 DEF Fair

LEMMA QuietMaps == ASSUME wl' = wl PROVE WlStep
BY DEF WlStep

LEMMA TakeFacts ==
  ASSUME TypeOK, NEW k, Removed(k), k \notin Safe
  PROVE  WlStep
BY DEF TypeOK, Removed, WlStep

LEMMA PutFacts ==
  ASSUME TypeOK, NEW k, Inserted(k), k \in Fair'
  PROVE  WlStep
BY DEF TypeOK, Inserted, WlStep

LEMMA ShadowStep ==
  ASSUME TypeOK, NEW S, wl' = [wl EXCEPT ![Shadow] = S], S \subseteq wl[Shadow] \cup Fair',
         pc \in {"clear", "cleanup"} \/ wl[Shadow] \subseteq S
  PROVE  WlStep
BY DEF TypeOK, WlStep

\* What a request asks for.
LEMMA AskedFacts ==
  ASSUME TypeOK, NEW k \in ItemKeys(prepared), prepared' = prepared
  PROVE  k \in Fair'
BY DEF Fair

LEMMA AddMaps ==
  ASSUME IInv, Add
  PROVE  WlStep /\ conf' = conf /\ (botched => botched')
<1>0. TypeOK
  BY DEF IInv
<1>1. CASE \E b \in AddBatches : BeginAdd(b)
  <2>1. wl' = wl /\ conf' = conf /\ botched' = botched
    BY <1>1 DEF BeginAdd, Begin, maps
  <2> QED
    BY <2>1, QuietMaps
<1>2. CASE DeleteOld
  <2>1. /\ pc = "delold" /\ todo # <<>> /\ Removed(Head(todo).key) /\ Step
        /\ conf' = conf /\ botched' = botched
    BY <1>2 DEF DeleteOld, ghost
  <2>2. kind = "add"
    BY <2>1 DEF IInv, KindInv, NoneInv, DelInv, ClearInv, SyncInv, Publishing
  <2>3. Head(todo).key \in Olds /\ targets = ItemIds(prepared)
    BY <1>0, <2>1, <2>2, StepFacts DEF IInv, KindInv, AddInv
  <2>4. Head(todo).key \notin Safe
    BY <2>3, SafeFacts DEF Olds
  <2> QED
    BY <1>0, <2>1, <2>4, TakeFacts
<1>3. CASE DeleteOldFails
  <2>1. wl' = wl /\ conf' = conf /\ botched' = botched
    BY <1>3 DEF DeleteOldFails, maps, ghost
  <2> QED
    BY <2>1, QuietMaps
<1>4. CASE CountAdd
  <2>1. wl' = wl /\ conf' = conf /\ botched' = botched
    BY <1>4 DEF CountAdd, maps, ghost
  <2> QED
    BY <2>1, QuietMaps
<1>5. CASE InsertItem
  <2>1. /\ pc = "insert" /\ todo # <<>> /\ Inserted(Head(todo).key) /\ Step
        /\ conf' = conf /\ botched' = botched /\ prepared' = prepared
    BY <1>5 DEF InsertItem, ghost
  <2>2. kind = "add"
    BY <2>1 DEF IInv, KindInv, NoneInv, DelInv, ClearInv, SyncInv, Publishing
  <2>3. Head(todo).key \in ItemKeys(prepared)
    BY <1>0, <2>1, <2>2, StepFacts DEF IInv, KindInv, AddInv
  <2>4. Head(todo).key \in Fair'
    BY <1>0, <2>1, <2>3, AskedFacts
  <2> QED
    BY <1>0, <2>1, <2>4, PutFacts
<1>6. CASE InsertFails
  <2>1. wl' = wl /\ conf' = conf /\ botched' = botched
    BY <1>6 DEF InsertFails, maps, ghost
  <2> QED
    BY <2>1, QuietMaps
<1>7. CASE CommitAdd
  <2>1. wl' = wl /\ conf' = conf /\ botched' = botched
    BY <1>7 DEF CommitAdd, maps
  <2> QED
    BY <2>1, QuietMaps
<1>8. CASE RemoveItem
  <2>1. /\ pc = "remove" /\ todo # <<>> /\ Step /\ conf' = conf
        /\ \/ Removed(Head(todo).key) /\ botched' = botched
           \/ botched' = TRUE /\ wl' = wl
    BY <1>8 DEF RemoveItem
  <2>2. kind = "add"
    BY <2>1 DEF IInv, KindInv, NoneInv, DelInv, ClearInv, SyncInv, Publishing
  <2>3. Head(todo).key \in ItemKeys(prepared) /\ ItemKeys(prepared) \cap KeysOf(committed) = {}
    BY <1>0, <2>1, <2>2, StepFacts DEF IInv, KindInv, AddInv
  <2>4. Head(todo).key \notin Safe
    BY <2>3, SafeFacts
  <2> QED
    BY <1>0, <2>1, <2>4, TakeFacts, QuietMaps
<1>9. CASE FinishRemove
  <2>1. wl' = wl /\ conf' = conf /\ botched' = botched
    BY <1>9 DEF FinishRemove, maps, ghost
  <2> QED
    BY <2>1, QuietMaps
<1> QED
  BY <1>1, <1>2, <1>3, <1>4, <1>5, <1>6, <1>7, <1>8, <1>9 DEF Add

LEMMA UndoMaps ==
  ASSUME IInv, Undo
  PROVE  WlStep /\ conf' = conf /\ (botched => botched')
<1>0. TypeOK
  BY DEF IInv
<1>1. CASE ReinsertItem
  <2>1. /\ pc = "reinsert" /\ todo # <<>> /\ Step /\ conf' = conf /\ committed' = committed
        /\ \/ Inserted(Head(todo).key) /\ botched' = botched
           \/ botched' = TRUE /\ wl' = wl
    BY <1>1 DEF ReinsertItem
  <2>2. Head(todo).key \in ItemKeys(todo)
    BY <1>0, <2>1, StepFacts
  <2>3. Head(todo).key \in KeysOf(committed)
    <3>1. kind \in {"add", "del"}
      BY <2>1 DEF IInv, KindInv, NoneInv, ClearInv, SyncInv, Publishing
    <3>2. CASE kind = "add"
      <4>1. ItemKeys(todo) \subseteq Olds
        BY <2>1, <3>2 DEF IInv, KindInv, AddInv
      <4> QED
        BY <2>2, <3>2, <4>1, AddFacts
    <3>3. CASE kind = "del"
      <4>1. ItemKeys(todo) \subseteq {committed[i] : i \in targets} \ {None}
        BY <2>1, <3>3 DEF IInv, KindInv, DelInv
      <4>2. committed \in Tables /\ targets \subseteq Ids
        BY <1>0, TypeFacts DEF TypeOK
      <4> QED
        BY <2>2, <4>1, <4>2, KeysOfFacts
    <3> QED
      BY <3>1, <3>2, <3>3
  <2>4. Head(todo).key \in Fair'
    BY <2>1, <2>3 DEF Fair, KeysOf, Present
  <2> QED
    BY <1>0, <2>1, <2>4, PutFacts, QuietMaps
<1>2. CASE FinishReinsert
  <2>1. wl' = wl /\ conf' = conf /\ botched' = botched
    BY <1>2 DEF FinishReinsert, maps
  <2> QED
    BY <2>1, QuietMaps
<1>3. CASE Republish
  <2>1. wl' = wl /\ conf' = conf /\ botched' = botched
    BY <1>3 DEF Republish, maps, ghost
  <2> QED
    BY <2>1, QuietMaps
<1> QED
  BY <1>1, <1>2, <1>3 DEF Undo

\* A forgotten entry was asked for by name.
LEMMA ForgetMaps ==
  ASSUME IInv, NEW i \in targets, Forget(i), wlEntries[i] \in {committed[i], None}
  PROVE  WlStep
<1>1. TypeOK /\ Removed(wlEntries[i])
  BY DEF IInv, Forget
<1>2. wlEntries[i] \notin Safe
  <2>1. Safe \subseteq Keys
    BY SafeFacts
  <2> QED
    BY <2>1, SafeFacts, NoneFacts
<1> QED
  BY <1>1, <1>2, TakeFacts

LEMMA DeleteMaps ==
  ASSUME IInv, Delete
  PROVE  WlStep /\ conf' = conf /\ (botched => botched')
<1>0. TypeOK
  BY DEF IInv
<1>1. CASE \E b \in DelBatches : BeginDelete(b)
  <2>1. wl' = wl /\ conf' = conf /\ botched' = botched
    BY <1>1 DEF BeginDelete, Begin, maps
  <2> QED
    BY <2>1, QuietMaps
<1>2. CASE DeleteItem
  <2>1. PICK i : i = Head(ids)
    OBVIOUS
  <2>2. /\ pc = "delete" /\ ids # <<>> /\ wlEntries[i] # None /\ Forget(i)
        /\ conf' = conf /\ botched' = botched
    BY <1>2, <2>1 DEF DeleteItem, Deletable, ghost
  <2>3. kind = "del"
    BY <2>2 DEF IInv, KindInv, NoneInv, AddInv, ClearInv, SyncInv, Publishing
  <2>4. i \in Ids /\ i \in ToSet(ids)
    BY <1>0, <2>1, <2>2, HeadFacts DEF TypeOK
  <2>5. /\ ToSet(ids) \subseteq targets
        /\ \A n \in DOMAIN done : wlEntries[done[n].id] = None
        /\ \A j \in Ids \ ItemIds(done) : wlEntries[j] = committed[j]
    BY <2>2, <2>3 DEF IInv, KindInv, DelInv
  <2>6. i \notin ItemIds(done)
    BY <2>2, <2>5 DEF ItemIds
  <2> QED
    BY <2>2, <2>4, <2>5, <2>6, ForgetMaps
<1>3. CASE SkipItem
  <2>1. wl' = wl /\ conf' = conf /\ botched' = botched
    BY <1>3 DEF SkipItem, maps, ghost
  <2> QED
    BY <2>1, QuietMaps
<1>4. CASE FinishDelete
  <2>1. wl' = wl /\ conf' = conf /\ botched' = botched
    BY <1>4 DEF FinishDelete, maps, ghost
  <2> QED
    BY <2>1, QuietMaps
<1> QED
  BY <1>1, <1>2, <1>3, <1>4 DEF Delete

LEMMA ClearMaps ==
  ASSUME IInv, Clear
  PROVE  WlStep /\ conf' = conf /\ (botched => botched')
<1>1. CASE BeginClear
  <2>1. wl' = wl /\ conf' = conf /\ botched' = botched
    BY <1>1 DEF BeginClear, Begin, maps
  <2> QED
    BY <2>1, QuietMaps
<1>2. CASE FinishClear
  <2>1. wl' = wl /\ conf' = conf /\ botched' = botched
    BY <1>2 DEF FinishClear, PublishCleared, maps, ghost
  <2> QED
    BY <2>1, QuietMaps
<1>3. ASSUME NEW i \in Ids, ClearItem(i) PROVE WlStep /\ conf' = conf /\ (botched => botched')
  <2>1. pc = "clearall" /\ Forget(i) /\ conf' = conf /\ botched' = botched
    BY <1>3 DEF ClearItem, ghost
  <2>2. kind = "clear"
    BY <2>1 DEF IInv, KindInv, NoneInv, AddInv, DelInv, SyncInv, Publishing
  <2>3. i \in targets /\ wlEntries[i] \in {committed[i], None}
    BY <2>2 DEF IInv, KindInv, ClearInv
  <2> QED
    BY <2>1, <2>3, ForgetMaps
<1>4. ASSUME NEW i \in Ids, ClearFails(i) PROVE WlStep /\ conf' = conf /\ (botched => botched')
  <2>1. wl' = wl /\ conf' = conf /\ botched' = botched
    BY <1>4 DEF ClearFails, PublishCleared, maps, ghost
  <2> QED
    BY <2>1, QuietMaps
<1> QED
  BY <1>1, <1>2, <1>3, <1>4 DEF Clear

LEMMA NotClearedStep ==
  ASSUME TypeOK, NotCleared(Shadow), pc \in {"clear", "cleanup"}
  PROVE  WlStep
<1>1. PICK left \in SUBSET wl[Shadow] \ {{}} : wl' = [wl EXCEPT ![Shadow] = left]
  BY DEF NotCleared
<1> QED
  BY <1>1, ShadowStep

LEMMA SyncMaps ==
  ASSUME IInv, Sync
  PROVE  WlStep /\ conf' = conf /\ (botched => botched')
<1>0. TypeOK
  BY DEF IInv
<1>1. CASE \E b \in SyncBatches : BeginSync(b)
  <2>1. wl' = wl /\ conf' = conf /\ botched' = botched
    BY <1>1 DEF BeginSync, Begin, maps
  <2> QED
    BY <2>1, QuietMaps
<1>2. CASE SyncClear
  <2>1. PICK S : S = {}
    OBVIOUS
  <2>2. /\ pc = "clear" /\ wl' = [wl EXCEPT ![Shadow] = S] /\ conf' = conf /\ botched' = botched
    BY <1>2, <2>1 DEF SyncClear, Cleared, ghost
  <2> QED
    BY <1>0, <2>1, <2>2, ShadowStep
<1>3. CASE SyncClearFails
  <2>1. pc = "clear" /\ NotCleared(Shadow) /\ conf' = conf /\ botched' = botched
    BY <1>3 DEF SyncClearFails
  <2> QED
    BY <1>0, <2>1, NotClearedStep
<1>4. CASE SyncFill
  <2>1. /\ pc = "fill" /\ todo # <<>> /\ Step
        /\ wl' = [wl EXCEPT ![Shadow] = @ \cup {Head(todo).key}]
        /\ conf' = conf /\ botched' = botched /\ prepared' = prepared
    BY <1>4 DEF SyncFill, ghost
  <2>2. kind = "sync"
    BY <2>1 DEF IInv, KindInv, NoneInv, AddInv, DelInv, ClearInv, Publishing
  <2>3. Head(todo).key \in ItemKeys(prepared)
    BY <1>0, <2>1, <2>2, StepFacts DEF IInv, KindInv, SyncInv
  <2>4. Head(todo).key \in Fair'
    BY <1>0, <2>1, <2>3, AskedFacts
  <2>5. PICK S : S = wl[Shadow] \cup {Head(todo).key}
    OBVIOUS
  <2>6. wl' = [wl EXCEPT ![Shadow] = S]
    BY <1>0, <2>1, <2>5, TypeFacts DEF TypeOK
  <2> QED
    BY <1>0, <2>1, <2>4, <2>5, <2>6, ShadowStep
<1>5. CASE SyncFillFails
  <2>1. wl' = wl /\ conf' = conf /\ botched' = botched
    BY <1>5 DEF SyncFillFails, maps
  <2> QED
    BY <2>1, QuietMaps
<1>6. CASE SyncSelect
  <2>1. wl' = wl /\ conf' = conf /\ botched' = botched
    BY <1>6 DEF SyncSelect, maps, ghost
  <2> QED
    BY <2>1, QuietMaps
<1>7. CASE SyncCleanup
  <2>1. /\ pc = "cleanup" /\ conf' = conf /\ botched' = botched
        /\ wl' = [wl EXCEPT ![Shadow] = {}] \/ NotCleared(Shadow)
    BY <1>7 DEF SyncCleanup, Cleared
  <2>2. CASE wl' = [wl EXCEPT ![Shadow] = {}]
    <3>1. PICK S : S = {}
      OBVIOUS
    <3>2. wl' = [wl EXCEPT ![Shadow] = S]
      BY <2>2, <3>1
    <3> QED
      BY <1>0, <2>1, <3>1, <3>2, ShadowStep
  <2>3. CASE NotCleared(Shadow)
    BY <1>0, <2>1, <2>3, NotClearedStep
  <2> QED
    BY <2>1, <2>2, <2>3
<1> QED
  BY <1>1, <1>2, <1>3, <1>4, <1>5, <1>6, <1>7 DEF Sync

\* A publish touches no map; it writes a config, or leaves both alone.
LEMMA PublishMaps ==
  ASSUME IInv, Publish
  PROVE  /\ WlStep /\ (botched => botched')
         /\ conf' = conf \/ PubWrites
<1>1. CASE PubWrites
  <2>1. wl' = wl /\ botched' = botched
    BY <1>1 DEF PubWrites, PubCopyBits, PubCopySel, PubWriteBits, PubWriteSel, PubStep, ghost
  <2> QED
    BY <1>1, <2>1, QuietMaps
<1>2. CASE FlipAdd \/ FlipUndo \/ FlipDelete \/ FlipSync
  <2>1. PubFlip
    BY <1>2 DEF FlipAdd, FlipUndo, FlipDelete, FlipSync
  <2>2. wl' = wl /\ conf' = conf /\ botched' = botched
    BY <2>1 DEF PubFlip
  <2> QED
    BY <2>2, QuietMaps
<1>3. CASE PubFailsAdd \/ PubFailsUndo \/ PubFailsDelete \/ PubFailsClear \/ PubFailsSync
  <2>1. PubFails
    BY <1>3 DEF PubFailsAdd, PubFailsUndo, PubFailsDelete, PubFailsClear, PubFailsSync
  <2>2. wl' = wl /\ conf' = conf
    BY <2>1 DEF PubFails, maps
  <2>3. botched => botched'
    BY <1>3 DEF PubFailsAdd, PubFailsUndo, PubFailsDelete, PubFailsClear, PubFailsSync, ghost
  <2> QED
    BY <2>2, <2>3, QuietMaps
<1> QED
  BY <1>1, <1>2, <1>3 DEF Publish, PubWrites

LEMMA StepMaps ==
  ASSUME IInv, Next
  PROVE  /\ WlStep /\ (botched => botched')
         /\ conf' = conf \/ PubWrites
BY AddMaps, UndoMaps, DeleteMaps, ClearMaps, SyncMaps, PublishMaps DEF Next

\* A config that is written gets what the active one has, or what memory says.
LEMMA ConfWrites ==
  ASSUME IInv, IInv', PubWrites, NEW s \in Slots
  PROVE  /\ conf'[s].sel \in {conf[s].sel, conf[activeConfig].sel, activeWLSlot}
         /\ conf'[s].bitmap \in {conf[s].bitmap, conf[activeConfig].bitmap, CombosOf(Announced)}
<1> DEFINE act == conf[activeConfig]
<1>0. /\ TypeOK /\ Target \in Slots /\ act \in ConfType /\ (s = Target \/ s \in Slots \ {Target})
      /\ conf \in [Slots -> ConfType] /\ activeWLSlot \in Slots
  BY TypeFacts DEF IInv, TypeOK
<1>1. act.bitmap \in SUBSET Combos /\ act.count \in Int /\ act.sel \in Slots
  BY <1>0 DEF ConfType
<1>2. CASE PubCopyBits
  <2>1. conf' = WithCount(WithBits(conf, Target, act.bitmap), Target, act.count)
    BY <1>2 DEF PubCopyBits, WithCount, WithBits
  <2> QED
    BY <1>0, <1>1, <2>1, WriteBoth
<1>3. CASE PubCopySel
  <2>1. conf' = WithSel(conf, Target, act.sel)
    BY <1>3 DEF PubCopySel, WithSel
  <2>2. /\ \A o \in Slots \ {Target} : conf'[o] = conf[o]
        /\ conf'[Target].bitmap = conf[Target].bitmap /\ conf'[Target].sel = act.sel
    BY <1>0, <1>1, <2>1, WriteSel
  <2> QED
    BY <1>0, <2>2
<1>4. CASE PubWriteBits
  <2> DEFINE bits == {c \in Combos : wlComboRefCount[c] > 0}
  <2>1. bits = CombosOf(Announced)
    <3>1. wlComboRefCount = CountOf(Announced)
      BY DEF IInv, Memory
    <3>2. Announced \in Supporteds
      BY <1>0, TypeFacts, EmptyFacts, OverSupported DEF Announced, TypeOK
    <3> QED
      BY <3>1, <3>2, CombosAreCounted
  <2>2. bits \in SUBSET Combos
    OBVIOUS
  <2> HIDE DEF bits
  <2>3. PICK n : conf' = WithCount(WithBits(conf, Target, bits), Target, n)
    BY <1>4 DEF PubWriteBits, WithCount, WithBits, bits
  <2>4. PICK h : h = WithBits(conf, Target, bits)
    OBVIOUS
  <2>5. /\ h \in [Slots -> ConfType] /\ \A o \in Slots \ {Target} : h[o] = conf[o]
        /\ h[Target].bitmap = bits /\ h[Target].sel = conf[Target].sel
    BY <1>0, <2>2, <2>4, WriteBits
  <2>6. /\ \A o \in Slots \ {Target} : conf'[o] = h[o]
        /\ conf'[Target].bitmap = h[Target].bitmap /\ conf'[Target].sel = h[Target].sel
    BY <1>0, <2>3, <2>4, <2>5 DEF WithCount, ConfType
  <2> QED
    BY <1>0, <2>1, <2>5, <2>6
<1>5. CASE PubWriteSel
  <2>1. conf' = WithSel(conf, Target, activeWLSlot)
    BY <1>5 DEF PubWriteSel, WithSel
  <2>2. /\ \A o \in Slots \ {Target} : conf'[o] = conf[o]
        /\ conf'[Target].bitmap = conf[Target].bitmap /\ conf'[Target].sel = activeWLSlot
    BY <1>0, <2>1, WriteSel
  <2> QED
    BY <1>0, <2>2
<1> QED
  BY <1>2, <1>3, <1>4, <1>5 DEF PubWrites

\* The map and the bitmap in force, and those memory would publish, tell a packet the truth.
LEMMA ForceShows ==
  ASSUME IInv, ~botched, NEW p, Fair \subseteq p.seen, p.kept \subseteq Safe
  PROVE  /\ Shows(p, conf[activeConfig].sel) /\ Shows(p, activeWLSlot)
         /\ Tells(p, conf[activeConfig].bitmap) /\ Tells(p, CombosOf(Announced))
<1>1. Shows(p, conf[activeConfig].sel) /\ Shows(p, activeWLSlot)
  BY ForceFacts DEF Shows, InForce, Map
<1>2. Tells(p, conf[activeConfig].bitmap) /\ Tells(p, CombosOf(Announced))
  BY ForceFacts DEF Tells
<1> QED
  BY <1>1, <1>2

\* What a step of the agent leaves of what a packet knows.
LEMMA ObserveFields ==
  ASSUME pkt \in PktType,
         pkt' = [pkt EXCEPT !.kept = @ \cap Safe', !.seen = @ \cup Fair',
                            !.cleared = @ \/ pc \in {"clear", "cleanup"}]
  PROVE  /\ pkt'.at = pkt.at /\ pkt'.slot = pkt.slot /\ pkt'.bitmap = pkt.bitmap /\ pkt'.sel = pkt.sel
         /\ pkt'.hit = pkt.hit /\ pkt'.keys = pkt.keys
         /\ pkt'.kept = pkt.kept \cap Safe' /\ pkt'.seen = pkt.seen \cup Fair'
         /\ pkt'.cleared <=> pkt.cleared \/ pc \in {"clear", "cleanup"}
         /\ Fair' \subseteq Keys => pkt' \in PktType
<1>1. PICK kept, seen : kept = pkt.kept \cap Safe' /\ seen = pkt.seen \cup Fair'
  OBVIOUS
<1>2. ASSUME NEW cleared \in BOOLEAN, pkt' = [pkt EXCEPT !.kept = kept, !.seen = seen, !.cleared = cleared]
      PROVE  /\ pkt'.at = pkt.at /\ pkt'.slot = pkt.slot /\ pkt'.bitmap = pkt.bitmap /\ pkt'.sel = pkt.sel
             /\ pkt'.hit = pkt.hit /\ pkt'.keys = pkt.keys
             /\ pkt'.kept = kept /\ pkt'.seen = seen /\ pkt'.cleared = cleared
             /\ kept \subseteq Keys /\ seen \subseteq Keys => pkt' \in PktType
  BY <1>2 DEF PktType
<1>3. pkt.kept \subseteq Keys /\ pkt.seen \subseteq Keys /\ pkt.cleared \in BOOLEAN
  BY DEF PktType
<1>4. CASE pc \in {"clear", "cleanup"}
  <2>1. pkt' = [pkt EXCEPT !.kept = kept, !.seen = seen, !.cleared = TRUE]
    BY <1>1, <1>4
  <2> QED
    BY <1>1, <1>2, <1>3, <1>4, <2>1
<1>5. CASE pc \notin {"clear", "cleanup"}
  <2>1. (pkt.cleared \/ pc \in {"clear", "cleanup"}) = pkt.cleared
    BY <1>3, <1>5
  <2>2. pkt' = [pkt EXCEPT !.kept = kept, !.seen = seen, !.cleared = pkt.cleared]
    BY <1>1, <2>1
  <2> QED
    BY <1>1, <1>2, <1>3, <1>5, <2>2
<1> QED
  BY <1>4, <1>5

LEMMA NobodyFacts == NoPacket \in PktType /\ NoPacket.at = "none"
BY NoneFacts DEF NoPacket, PktType, Slots

LEMMA FairTyped == ASSUME IInv' PROVE Fair' \subseteq Keys
<1>1. committed' \in Tables /\ prepared' \in Requests
  BY DEF IInv, TypeOK, Supporteds
<1>2. KeysOf(committed') \subseteq Keys /\ ItemKeys(prepared') \subseteq Keys
  BY <1>1, KeysOfFacts, RequestFacts
<1> QED
  BY <1>2 DEF Fair

\* A step of the agent.
LEMMA ObserveInv ==
  ASSUME GateInv, IInv', Next, Observe
  PROVE  pkt' \in PktType /\ (~botched' => PktOK(pkt)')
<1>0. IInv /\ pkt \in PktType /\ (~botched => PktOK(pkt)) /\ TypeOK
  BY DEF GateInv, IInv
<1>1. CASE pkt' = NoPacket
  BY <1>1, NobodyFacts DEF PktOK
<1>2. CASE pkt' # NoPacket
  <2>1. /\ pkt.at # "none"
        /\ pkt' = [pkt EXCEPT !.kept = @ \cap Safe', !.seen = @ \cup Fair',
                              !.cleared = @ \/ pc \in {"clear", "cleanup"}]
    BY <1>2 DEF Observe
  <2>2. /\ pkt'.at = pkt.at /\ pkt'.slot = pkt.slot /\ pkt'.bitmap = pkt.bitmap /\ pkt'.sel = pkt.sel
        /\ pkt'.hit = pkt.hit /\ pkt'.keys = pkt.keys
        /\ pkt'.kept = pkt.kept \cap Safe' /\ pkt'.seen = pkt.seen \cup Fair'
        /\ pkt'.cleared <=> pkt.cleared \/ pc \in {"clear", "cleanup"}
        /\ pkt' \in PktType
    BY <1>0, <2>1, ObserveFields, FairTyped
  <2>3. ASSUME ~botched' PROVE PktOK(pkt)'
    <3>1. WlStep /\ ~botched /\ (conf' = conf \/ PubWrites)
      BY <1>0, <2>3, StepMaps
    <3>2. /\ Fair \subseteq pkt.seen /\ pkt.kept \subseteq Safe /\ pkt.kept \subseteq pkt.keys
          /\ pkt.at \in {"bitmap", "sel"} => Shows(pkt, conf[pkt.slot].sel)
          /\ pkt.at = "bitmap" => Tells(pkt, conf[pkt.slot].bitmap)
          /\ pkt.at \in {"sel", "lookup"} => Tells(pkt, pkt.bitmap)
          /\ pkt.at = "lookup" => Shows(pkt, pkt.sel)
          /\ pkt.at = "missed" => pkt.kept = {} \/ pkt.cleared
          /\ pkt.at = "admitted" => pkt.hit \in pkt.seen
      BY <1>0, <2>1, <3>1 DEF PktOK
    <3>3. pkt.slot \in Slots /\ pkt.sel \in Slots /\ conf[pkt.slot].sel \in Slots
      BY <1>0 DEF PktType, TypeOK, ConfType
    <3>4. ASSUME NEW s \in Slots, Shows(pkt, s)
          PROVE  wl'[s] \subseteq pkt'.seen /\ (~pkt'.cleared => pkt'.kept \subseteq wl'[s])
      BY <2>2, <3>1, <3>2, <3>4 DEF Shows, WlStep
    <3>5. ASSUME NEW b, Tells(pkt, b)
          PROVE  ~pkt'.cleared => \A k \in pkt'.kept : Combo[k] \in b
      BY <2>2, <3>5 DEF Tells
    <3>6. /\ Shows(pkt, conf[activeConfig].sel) /\ Shows(pkt, activeWLSlot)
          /\ Tells(pkt, conf[activeConfig].bitmap) /\ Tells(pkt, CombosOf(Announced))
      BY <1>0, <3>1, <3>2, ForceShows
    <3>7. \/ conf'[pkt.slot] = conf[pkt.slot]
          \/ /\ conf'[pkt.slot].sel \in {conf[pkt.slot].sel, conf[activeConfig].sel, activeWLSlot}
             /\ conf'[pkt.slot].bitmap \in {conf[pkt.slot].bitmap, conf[activeConfig].bitmap, CombosOf(Announced)}
      BY <1>0, <3>1, <3>3, ConfWrites
    <3>8. ASSUME pkt.at \in {"bitmap", "sel"} PROVE Shows(pkt, conf[pkt.slot].sel)'
      <4>1. PICK s : s = conf'[pkt.slot].sel
        OBVIOUS
      <4>2. s \in Slots /\ Shows(pkt, s)
        <5>1. activeWLSlot \in Slots /\ conf[activeConfig].sel \in Slots
          BY <1>0 DEF TypeOK, ConfType
        <5> QED
          BY <3>2, <3>3, <3>6, <3>7, <3>8, <4>1, <5>1
      <4>3. wl'[s] \subseteq pkt'.seen /\ (~pkt'.cleared => pkt'.kept \subseteq wl'[s])
        BY <3>4, <4>2
      <4> QED
        BY <2>2, <4>1, <4>3 DEF Shows
    <3>9. ASSUME pkt.at = "bitmap" PROVE Tells(pkt, conf[pkt.slot].bitmap)'
      <4>1. PICK b : b = conf'[pkt.slot].bitmap
        OBVIOUS
      <4>2. Tells(pkt, b)
        BY <3>2, <3>6, <3>7, <3>9, <4>1
      <4>3. ~pkt'.cleared => \A k \in pkt'.kept : Combo[k] \in b
        BY <3>5, <4>2
      <4> QED
        BY <2>2, <4>1, <4>3 DEF Tells
    <3>10. pkt.at \in {"sel", "lookup"} => Tells(pkt, pkt.bitmap)'
      BY <2>2, <3>2, <3>5 DEF Tells
    <3>11. pkt.at = "lookup" => Shows(pkt, pkt.sel)'
      BY <2>2, <3>2, <3>3, <3>4 DEF Shows
    <3>12. Fair' \subseteq pkt'.seen /\ pkt'.kept \subseteq Safe' \cap pkt'.keys
      BY <2>2, <3>2
    <3>13. pkt.at = "missed" => pkt'.kept = {} \/ pkt'.cleared
      BY <2>2, <3>2
    <3>14. pkt.at = "admitted" => pkt'.hit \in pkt'.seen
      BY <2>2, <3>2
    <3> QED
      BY <2>2, <3>8, <3>9, <3>10, <3>11, <3>12, <3>13, <3>14 DEF PktOK
  <2> QED
    BY <2>2, <2>3
<1> QED
  BY <1>1, <1>2

\* A step of the packet changes nothing that the agent does.
LEMMA QuietPacket ==
  ASSUME UNCHANGED vars
  PROVE  /\ UNCHANGED <<wl, conf, activeConfig, committed, prepared, targets, botched>>
         /\ Safe' = Safe /\ Fair' = Fair
<1>1. UNCHANGED <<wl, conf, activeConfig, committed, prepared, targets, botched>>
  BY DEF vars, maps, local, ghost
<1> QED
  BY <1>1 DEF Safe, Fair

LEMMA ArriveInv ==
  ASSUME IInv, NEW ks \in Packets, Arrive(ks), UNCHANGED vars
  PROVE  pkt' \in PktType /\ PktOK(pkt)'
<1>1. Safe' = Safe /\ Fair' = Fair
  BY QuietPacket
<1>2. PICK kept, seen : kept = ks \cap Safe /\ seen = Fair
  OBVIOUS
<1>3. kept \subseteq Keys /\ seen \subseteq Keys /\ ks \subseteq Keys
  BY <1>2, PacketsAssumption, SafeFacts
<1>4. pkt' = [NoPacket EXCEPT !.at = "slot", !.keys = ks, !.kept = kept, !.seen = seen]
  BY <1>2 DEF Arrive
<1>5. /\ pkt' \in PktType /\ pkt'.at = "slot" /\ pkt'.keys = ks /\ pkt'.kept = kept /\ pkt'.seen = seen
  BY <1>3, <1>4, NobodyFacts DEF PktType
<1> QED
  BY <1>1, <1>2, <1>5 DEF PktOK

\* The fields a read leaves alone.
SameReport(p, q) ==
  q.keys = p.keys /\ q.kept = p.kept /\ q.seen = p.seen /\ q.cleared = p.cleared

LEMMA ReadSlotInv ==
  ASSUME IInv, pkt \in PktType, ~botched => PktOK(pkt), ReadSlot, UNCHANGED vars
  PROVE  pkt' \in PktType /\ (~botched => PktOK(pkt)')
<1>0. activeConfig \in Slots /\ conf' = conf /\ wl' = wl /\ Safe' = Safe /\ Fair' = Fair
  BY QuietPacket DEF IInv, TypeOK
<1>1. /\ pkt' \in PktType /\ pkt'.at = "bitmap" /\ pkt'.slot = activeConfig /\ SameReport(pkt, pkt')
  BY <1>0 DEF ReadSlot, PktType, SameReport
<1>2. ASSUME ~botched PROVE PktOK(pkt)'
  <2>1. Fair \subseteq pkt.seen /\ pkt.kept \subseteq Safe \cap pkt.keys
    BY <1>2 DEF PktOK, ReadSlot
  <2>2. Shows(pkt, conf[activeConfig].sel) /\ Tells(pkt, conf[activeConfig].bitmap)
    BY <1>2, <2>1, ForceShows
  <2>3. Shows(pkt, conf[pkt.slot].sel)' /\ Tells(pkt, conf[pkt.slot].bitmap)'
    BY <1>0, <1>1, <2>2 DEF Shows, Tells, SameReport
  <2> QED
    BY <1>0, <1>1, <2>1, <2>3 DEF PktOK, SameReport
<1> QED
  BY <1>1, <1>2

LEMMA ReadBitmapInv ==
  ASSUME IInv, pkt \in PktType, ~botched => PktOK(pkt), ReadBitmap, UNCHANGED vars
  PROVE  pkt' \in PktType /\ (~botched => PktOK(pkt)')
<1>0. /\ conf' = conf /\ wl' = wl /\ Safe' = Safe /\ Fair' = Fair
      /\ pkt.slot \in Slots /\ conf[pkt.slot].bitmap \in SUBSET Combos
  BY QuietPacket DEF IInv, TypeOK, PktType, ConfType
<1>1. PICK bits, at : /\ bits = conf[pkt.slot].bitmap
                      /\ at = IF bits = {} THEN "missed" ELSE "sel"
  OBVIOUS
<1>2. pkt.at = "bitmap" /\ pkt' = [pkt EXCEPT !.bitmap = bits, !.at = at]
  BY <1>1 DEF ReadBitmap
<1>3. /\ pkt' \in PktType /\ pkt'.at = at /\ pkt'.slot = pkt.slot /\ pkt'.bitmap = bits
      /\ SameReport(pkt, pkt')
  BY <1>0, <1>1, <1>2 DEF PktType, SameReport
<1>4. ASSUME ~botched PROVE PktOK(pkt)'
  <2>1. /\ Fair \subseteq pkt.seen /\ pkt.kept \subseteq Safe \cap pkt.keys
        /\ Shows(pkt, conf[pkt.slot].sel) /\ Tells(pkt, bits)
    BY <1>1, <1>2, <1>4 DEF PktOK
  <2>2. Shows(pkt, conf[pkt.slot].sel)' /\ Tells(pkt, pkt.bitmap)'
    BY <1>0, <1>3, <2>1 DEF Shows, Tells, SameReport
  <2>3. at = "missed" => pkt.kept = {} \/ pkt.cleared
    BY <1>1, <2>1 DEF Tells
  <2>4. at \in {"missed", "sel"}
    BY <1>1
  <2> QED
    BY <1>0, <1>3, <2>1, <2>2, <2>3, <2>4 DEF PktOK, SameReport
<1> QED
  BY <1>3, <1>4

LEMMA ReadSelInv ==
  ASSUME IInv, pkt \in PktType, ~botched => PktOK(pkt), ReadSel, UNCHANGED vars
  PROVE  pkt' \in PktType /\ (~botched => PktOK(pkt)')
<1>0. /\ conf' = conf /\ wl' = wl /\ Safe' = Safe /\ Fair' = Fair
      /\ pkt.slot \in Slots /\ conf[pkt.slot].sel \in Slots
  BY QuietPacket DEF IInv, TypeOK, PktType, ConfType
<1>1. PICK l : l = conf[pkt.slot].sel
  OBVIOUS
<1>2. pkt.at = "sel" /\ pkt' = [pkt EXCEPT !.sel = l, !.slot = 0, !.at = "lookup"]
  BY <1>1 DEF ReadSel
<1>3. /\ pkt' \in PktType /\ pkt'.at = "lookup" /\ pkt'.sel = l /\ pkt'.bitmap = pkt.bitmap
      /\ SameReport(pkt, pkt')
  BY <1>0, <1>1, <1>2 DEF PktType, SameReport, Slots
<1>4. ASSUME ~botched PROVE PktOK(pkt)'
  <2>1. /\ Fair \subseteq pkt.seen /\ pkt.kept \subseteq Safe \cap pkt.keys
        /\ Shows(pkt, l) /\ Tells(pkt, pkt.bitmap)
    BY <1>1, <1>2, <1>4 DEF PktOK
  <2>2. Shows(pkt, pkt.sel)' /\ Tells(pkt, pkt.bitmap)'
    BY <1>0, <1>3, <2>1 DEF Shows, Tells, SameReport
  <2> QED
    BY <1>0, <1>3, <2>1, <2>2 DEF PktOK, SameReport
<1> QED
  BY <1>3, <1>4

LEMMA LookupInv ==
  ASSUME IInv, pkt \in PktType, ~botched => PktOK(pkt), Lookup, UNCHANGED vars
  PROVE  pkt' \in PktType /\ (~botched => PktOK(pkt)')
<1>0. conf' = conf /\ wl' = wl /\ Safe' = Safe /\ Fair' = Fair
  BY QuietPacket
<1>1. PICK c, hits : /\ c = Min(pkt.bitmap)
                     /\ hits = {k \in pkt.keys \cap wl[pkt.sel] : Combo[k] = c}
  OBVIOUS
<1>2. /\ pkt.at = "lookup"
      /\ pkt' = IF hits # {}
                THEN [pkt EXCEPT !.at = "admitted", !.bitmap = {}, !.hit = CHOOSE k \in hits : TRUE]
                ELSE [pkt EXCEPT !.bitmap = @ \ {c},
                                 !.at = IF pkt.bitmap = {c} THEN "missed" ELSE "lookup"]
  BY <1>1 DEF Lookup
<1>3. ASSUME ~botched
      PROVE  /\ Fair \subseteq pkt.seen /\ pkt.kept \subseteq Safe /\ pkt.kept \subseteq pkt.keys
             /\ wl[pkt.sel] \subseteq pkt.seen /\ (~pkt.cleared => pkt.kept \subseteq wl[pkt.sel])
             /\ ~pkt.cleared => \A k \in pkt.kept : Combo[k] \in pkt.bitmap
  BY <1>2, <1>3 DEF PktOK, Shows, Tells
<1>4. CASE hits # {}
  <2>1. PICK k : k = CHOOSE h \in hits : TRUE
    OBVIOUS
  <2>2. k \in pkt.keys /\ k \in wl[pkt.sel]
    BY <1>1, <1>4, <2>1
  <2>3. pkt' = [pkt EXCEPT !.at = "admitted", !.bitmap = {}, !.hit = k]
    BY <1>2, <1>4, <2>1
  <2>4. pkt' \in PktType /\ pkt'.at = "admitted" /\ pkt'.hit = k /\ SameReport(pkt, pkt')
    BY <2>2, <2>3 DEF PktType, SameReport
  <2> QED
    BY <1>0, <1>3, <2>2, <2>4 DEF PktOK, SameReport
<1>5. CASE hits = {}
  <2>1. PICK rest, at : /\ rest = pkt.bitmap \ {c}
                        /\ at = IF pkt.bitmap = {c} THEN "missed" ELSE "lookup"
    OBVIOUS
  <2>2. pkt' = [pkt EXCEPT !.bitmap = rest, !.at = at]
    BY <1>2, <1>5, <2>1
  <2>3. at \in {"missed", "lookup"} /\ rest \subseteq pkt.bitmap
    BY <2>1
  <2>4. /\ pkt' \in PktType /\ pkt'.at = at /\ pkt'.bitmap = rest /\ pkt'.sel = pkt.sel
        /\ SameReport(pkt, pkt')
    BY <2>2, <2>3 DEF PktType, SameReport
  <2>5. ASSUME ~botched PROVE PktOK(pkt)'
    <3>1. ~pkt.cleared => \A k \in pkt.kept : Combo[k] \in rest
      BY <1>1, <1>3, <1>5, <2>1, <2>5
    <3>2. at = "missed" => pkt.kept = {} \/ pkt.cleared
      BY <2>1, <3>1
    <3>3. Shows(pkt, pkt.sel)' /\ Tells(pkt, pkt.bitmap)'
      BY <1>0, <1>3, <2>4, <2>5, <3>1 DEF Shows, Tells, SameReport
    <3> QED
      BY <1>0, <1>3, <2>3, <2>4, <2>5, <3>2, <3>3 DEF PktOK, SameReport
  <2> QED
    BY <2>4, <2>5
<1> QED
  BY <1>4, <1>5

LEMMA GateInitInv == GInit => GateInv
BY InitInv, NobodyFacts DEF GInit, GateInv, PktOK

LEMMA GateStepInv == ASSUME GateInv, [GNext]_gvars PROVE GateInv'
<1>0. IInv /\ pkt \in PktType /\ (~botched => PktOK(pkt))
  BY DEF GateInv
<1>1. CASE Next /\ Observe
  <2>1. IInv'
    BY <1>0, <1>1, StepInv
  <2> QED
    BY <1>1, <2>1, ObserveInv DEF GateInv
<1>2. CASE UNCHANGED vars /\ (Packet \/ UNCHANGED pkt)
  <2>1. IInv' /\ botched' = botched
    BY <1>0, <1>2, StepInv, QuietPacket
  <2>2. pkt' \in PktType /\ (~botched => PktOK(pkt)')
    <3>1. CASE \E ks \in Packets : Arrive(ks)
      BY <1>0, <1>2, <3>1, ArriveInv
    <3>2. CASE ReadSlot \/ ReadBitmap \/ ReadSel \/ Lookup
      BY <1>0, <1>2, <3>2, ReadSlotInv, ReadBitmapInv, ReadSelInv, LookupInv
    <3>3. CASE Leave
      BY <3>3, NobodyFacts DEF Leave, PktOK
    <3>4. CASE UNCHANGED pkt
      <4>1. conf' = conf /\ wl' = wl /\ Safe' = Safe /\ Fair' = Fair
        BY <1>2, QuietPacket
      <4> QED
        BY <1>0, <3>4, <4>1 DEF PktOK, Shows, Tells
    <3> QED
      BY <1>2, <3>1, <3>2, <3>3, <3>4 DEF Packet
  <2> QED
    BY <2>1, <2>2 DEF GateInv
<1> QED
  BY <1>1, <1>2 DEF GNext, gvars, Packet

\* While the agent changes the maps under it, a packet in the gate knows no lie: the map it is
\* about to look up holds every entry left alone since it came, and nothing that was not asked
\* for; so does the bitmap.
THEOREM GateInvariance == GSpec => []GateInv
<1>1. GInit => GateInv
  BY GateInitInv
<1>2. GateInv /\ [GNext]_gvars => GateInv'
  BY GateStepInv
<1> QED
  BY <1>1, <1>2, PTL DEF GSpec

\* A packet that hits an entry left alone all the while is admitted, whatever mixture of
\* configs, selectors and maps it has read, unless a map was emptied meanwhile.
THEOREM KeptAlwaysAdmitted == GSpec => []KeptAdmitted
<1>1. GateInv => KeptAdmitted
  BY DEF GateInv, PktOK, KeptAdmitted
<1> QED
  BY <1>1, GateInvariance, PTL

\* A packet is admitted only for an entry in force, or asked for, while it was in the gate.
THEOREM AlwaysForCause == GSpec => []AdmittedForCause
<1>1. GateInv => AdmittedForCause
  BY DEF GateInv, PktOK, AdmittedForCause
<1> QED
  BY <1>1, GateInvariance, PTL

\* The agent's properties hold just as well with packets in the gate.
THEOREM AgentInGate ==
  GSpec => [](EntriesAdmitted /\ NothingElseAdmitted /\ OldGoesFirst /\ MemoryExact)
<1>1. GSpec => Spec
  <2>1. GInit => Init
    BY DEF GInit
  <2>2. [GNext]_gvars => [Next]_vars
    BY DEF GNext, gvars, Packet
  <2> QED
    BY <2>1, <2>2, PTL DEF GSpec, Spec
<1> QED
  BY <1>1, EntriesStayAdmitted, OnlyEntriesAdmitted, OldAlwaysGoesFirst, MemoryAlwaysExact, PTL
=============================================================================
