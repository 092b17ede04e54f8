---------------------------- MODULE DerivedProofs ----------------------------
(***************************************************************************)
(* What is derived from the catalog, for every cast, every table of every  *)
(* campaign, every threshold and every number of lines: the voices of a    *)
(* family, the generic profiles of sparse ones, the exported mod and what  *)
(* its installer makes of it, the scenes before a line, the audit of       *)
(* directions, and the jobs that lines are packed into.                    *)
(*                                                                         *)
(* Two of these are systems with steps. The export's invariant, ExportInv, *)
(* says of a draft what must hold when it takes the destination's place    *)
(* (Sound, Whole), and of attribution what the installer relies on when it *)
(* decides again whose voice a line has (Published): a split family has no *)
(* voice of its own id, and a variant's dialogues are those only its       *)
(* gender speaks, or, for the neutral one, what no variant claims. The     *)
(* audit's invariant, AuditInv, follows every pair of a direction from the *)
(* batch that asks about it into the report. The rest are facts about a    *)
(* state. What is chosen first or counted is a matter of finite strict     *)
(* orders, whose elements the number of those before them enumerates       *)
(* (RankNumbers). What is folded over a set or a sequence is taken one     *)
(* element at a time: TakingAway and CountingUp are the induction that     *)
(* this needs, and FoldExists says that the function a fold is defined by  *)
(* is there.                                                               *)
(***************************************************************************)
EXTENDS ModExport, DialogueContext, DirectionAudit, SynthesisPacking, SequenceTheorems, FiniteSetTheorems, TLAPS

-----------------------------------------------------------------------------
(* Orders                                                                  *)

(* A strict total order of a set.                                          *)
Ordering(S, R) ==
  /\ \A x \in S : <<x, x>> \notin R
  /\ \A x, y, z \in S : <<x, y>> \in R /\ <<y, z>> \in R => <<x, z>> \in R
  /\ \A x, y \in S : x # y => <<x, y>> \in R \/ <<y, x>> \in R

Below(S, R, x) == {y \in S : <<y, x>> \in R}

Rank(S, R) == [x \in S |-> Cardinality(Below(S, R, x))]

(* The elements of a finite ordered set are numbered by those before them. *)
LEMMA RankNumbers ==
  ASSUME NEW S, IsFiniteSet(S), NEW R, Ordering(S, R)
  PROVE  /\ Cardinality(S) \in Nat
         /\ Rank(S, R) \in Bijection(S, 0..(Cardinality(S) - 1))
<1> DEFINE n == Cardinality(S)
           rank == Rank(S, R)
<1>1. n \in Nat
  BY FS_CardinalityType
<1>2. \A x \in S : Below(S, R, x) \in SUBSET S
  BY DEF Below
<1>3. \A x \in S : IsFiniteSet(Below(S, R, x)) /\ Cardinality(Below(S, R, x)) \in Nat
  BY <1>2, FS_Subset, FS_CardinalityType
<1>4. ASSUME NEW x \in S
      PROVE  rank[x] \in 0..(n - 1)
  <2>1. x \notin Below(S, R, x)
    BY DEF Below, Ordering
  <2>2. Cardinality(Below(S, R, x)) <= n /\ Cardinality(Below(S, R, x)) # n
    BY <1>2, <2>1, FS_Subset
  <2> QED
    BY <1>1, <1>3, <2>2 DEF Rank
<1>5. ASSUME NEW x \in S, NEW y \in S, <<x, y>> \in R
      PROVE  rank[x] < rank[y]
  <2>1. Below(S, R, x) \in SUBSET Below(S, R, y)
    BY <1>5 DEF Below, Ordering
  <2>2. x \in Below(S, R, y) /\ x \notin Below(S, R, x)
    BY <1>5 DEF Below, Ordering
  <2>3. /\ Cardinality(Below(S, R, x)) <= Cardinality(Below(S, R, y))
        /\ Cardinality(Below(S, R, x)) # Cardinality(Below(S, R, y))
    BY <1>3, <2>1, <2>2, FS_Subset
  <2> QED
    BY <1>3, <2>3 DEF Rank
<1>6. rank \in [S -> 0..(n - 1)]
  BY <1>4 DEF Rank
<1>7. ASSUME NEW x \in S, NEW y \in S, rank[x] = rank[y]
      PROVE  x = y
  <2>1. rank[x] \in Nat /\ rank[y] \in Nat
    BY <1>1, <1>4
  <2>2. ~(rank[x] < rank[y]) /\ ~(rank[y] < rank[x])
    <3> HIDE DEF rank
    <3> QED
      BY <1>7, <2>1
  <2> QED
    BY <1>5, <2>2 DEF Ordering
<1>8. rank \in Injection(S, 0..(n - 1))
  <2> HIDE DEF rank, n
  <2> QED
    BY <1>6, <1>7 DEF Injection, IsInjective
<1>9. IsFiniteSet(0..(n - 1)) /\ Cardinality(0..(n - 1)) = n
  BY <1>1, FS_Interval
<1>10. rank \in Surjection(S, 0..(n - 1))
  BY <1>8, <1>9, FS_Injection
<1> QED
  BY <1>1, <1>8, <1>10 DEF Bijection

(* Of which there is a first one.                                          *)
LEMMA FirstOfOrder ==
  ASSUME NEW S, IsFiniteSet(S), S # {}, NEW R, Ordering(S, R)
  PROVE  \E x \in S : \A y \in S \ {x} : <<x, y>> \in R
<1> DEFINE n == Cardinality(S)
           rank == Rank(S, R)
<1>1. n \in Nat /\ n # 0
  BY RankNumbers, FS_EmptySet
<1>2. rank \in Surjection(S, 0..(n - 1))
  BY RankNumbers DEF Bijection
<1>3. PICK x \in S : rank[x] = 0
  <2> HIDE DEF rank, n
  <2>1. 0 \in 0..(n - 1)
    BY <1>1
  <2> QED
    BY <1>2, <2>1 DEF Surjection
<1>4. Below(S, R, x) = {}
  <2>1. Below(S, R, x) \in SUBSET S
    BY DEF Below
  <2> QED
    BY <1>3, <2>1, FS_Subset, FS_EmptySet DEF Rank
<1> QED
  BY <1>4 DEF Below, Ordering

(* And as many as one likes.                                               *)
LEMMA FirstFew ==
  ASSUME NEW S, IsFiniteSet(S), NEW R, Ordering(S, R), NEW k \in Nat
  PROVE  LET few == {x \in S : Rank(S, R)[x] < k}
         IN Cardinality(few) = IF k <= Cardinality(S) THEN k ELSE Cardinality(S)
<1> DEFINE n == Cardinality(S)
           few == {x \in S : Rank(S, R)[x] < k}
<1>1. n \in Nat /\ Rank(S, R) \in Bijection(S, 0..(n - 1))
  BY RankNumbers
<1>2. PICK rank : rank = Rank(S, R)
  OBVIOUS
<1>3. /\ rank \in [S -> 0..(n - 1)]
      /\ \A x, y \in S : rank[x] = rank[y] => x = y
      /\ \A i \in 0..(n - 1) : \E x \in S : rank[x] = i
  <2> HIDE DEF n
  <2> QED
    BY <1>1, <1>2 DEF Bijection, Injection, Surjection, IsInjective
<1>4. IsFiniteSet(few)
  BY FS_Subset
<1>5. CASE k <= n
  <2> DEFINE number == [x \in few |-> rank[x]]
  <2> HIDE DEF n
  <2>1. number \in [few -> 0..(k - 1)]
    BY <1>1, <1>2, <1>3
  <2>2. \A x, y \in few : number[x] = number[y] => x = y
    BY <1>3
  <2>3. \A i \in 0..(k - 1) : \E x \in few : number[x] = i
    <3> SUFFICES ASSUME NEW i \in 0..(k - 1)
                 PROVE  \E x \in few : number[x] = i
      OBVIOUS
    <3>1. i \in 0..(n - 1)
      BY <1>1, <1>5
    <3>2. PICK x \in S : rank[x] = i
      BY <1>3, <3>1
    <3>3. x \in few
      BY <1>2, <3>2
    <3> QED
      BY <3>2, <3>3
  <2>4. number \in Bijection(few, 0..(k - 1))
    <3> HIDE DEF number, few
    <3> QED
      BY <2>1, <2>2, <2>3 DEF Bijection, Injection, Surjection, IsInjective
  <2>5. Cardinality(0..(k - 1)) = Cardinality(few)
    BY <1>4, <2>4, FS_Bijection DEF ExistsBijection
  <2> QED
    BY <1>5, <2>5, FS_Interval DEF n
<1>6. CASE ~(k <= n)
  <2>1. few = S
    <3> HIDE DEF n
    <3> QED
      BY <1>1, <1>2, <1>3, <1>6
  <2> QED
    BY <1>6, <2>1
<1> QED
  BY <1>5, <1>6

-----------------------------------------------------------------------------
(* Folds                                                                   *)

(* Counting up: what is never left on the way is true at the end.          *)
LEMMA CountingUp ==
  ASSUME NEW n \in Nat, NEW G, 0 \in G, \A k \in 0..(n - 1) : k \in G => k + 1 \in G
  PROVE  \A k \in 0..n : k \in G
<1> DEFINE bad == (0..n) \ G
           R == {p \in bad \X bad : p[1] < p[2]}
<1> SUFFICES ASSUME bad # {} PROVE FALSE
  OBVIOUS
<1>1. IsFiniteSet(bad)
  <2>1. IsFiniteSet(0..n)
    BY FS_Interval
  <2> QED
    BY <2>1, FS_Subset
<1>2. \A x, y \in bad : <<x, y>> \in R <=> x < y
  OBVIOUS
<1>3. \A x \in bad : x \in Nat /\ x <= n
  OBVIOUS
<1> HIDE DEF R
<1>4. Ordering(bad, R)
  BY <1>2, <1>3 DEF Ordering
<1>5. PICK k \in bad : \A j \in bad \ {k} : <<k, j>> \in R
  BY <1>1, <1>4, FirstOfOrder
<1>6. k # 0 /\ k - 1 \in 0..(n - 1)
  BY <1>3, <1>5
<1>7. k - 1 \in G
  <2> SUFFICES ASSUME k - 1 \notin G PROVE FALSE
    OBVIOUS
  <2>1. k - 1 \in bad \ {k}
    BY <1>3, <1>6
  <2>2. k < k - 1
    BY <1>2, <1>5, <2>1
  <2> QED
    BY <1>3, <2>2
<1> QED
  BY <1>5, <1>6, <1>7

(* Taking elements of a finite set away one at a time, in any order.       *)
LEMMA TakingAway ==
  ASSUME NEW S, IsFiniteSet(S), NEW G, {} \in G,
         \A s \in SUBSET S : s # {} => \E x \in s : s \ {x} \in G => s \in G
  PROVE  \A s \in SUBSET S : s \in G
<1> DEFINE n == Cardinality(S)
           small == {k \in 0..n : \A s \in SUBSET S : Cardinality(s) <= k => s \in G}
<1>1. /\ n \in Nat
      /\ \A s \in SUBSET S : IsFiniteSet(s) /\ Cardinality(s) \in Nat /\ Cardinality(s) <= n
  BY FS_Subset, FS_CardinalityType
<1>2. \A s \in SUBSET S : Cardinality(s) <= 0 => s = {}
  BY <1>1, FS_EmptySet
<1>3. 0 \in small
  <2>1. \A s \in SUBSET S : Cardinality(s) <= 0 => s \in G
    BY <1>2
  <2> QED
    BY <1>1, <2>1
<1>4. ASSUME NEW k \in 0..(n - 1), k \in small
      PROVE  k + 1 \in small
  <2>1. ASSUME NEW s \in SUBSET S, Cardinality(s) <= k + 1, s # {}
        PROVE  s \in G
    <3>1. PICK x \in s : s \ {x} \in G => s \in G
      BY <2>1
    <3>2. Cardinality(s \ {x}) = Cardinality(s) - 1
      BY <1>1, <3>1, FS_RemoveElement
    <3>3. s \ {x} \in SUBSET S /\ Cardinality(s \ {x}) <= k
      BY <1>1, <1>4, <2>1, <3>2
    <3> QED
      BY <1>4, <3>1, <3>3
  <2>2. k + 1 \in 0..n
    BY <1>1
  <2> QED
    BY <2>1, <2>2
<1> HIDE DEF small
<1>5. n \in small
  BY <1>1, <1>3, <1>4, CountingUp
<1> QED
  BY <1>1, <1>5 DEF small

(* A function of the subsets of S that takes their last elements away.     *)
Recurs(g, S, A, base, last, step) ==
  /\ g \in [SUBSET S -> A]
  /\ \A s \in SUBSET S : g[s] = IF s = {} THEN base ELSE step[<<last[s], g[s \ {last[s]}]>>]

(* There is one.                                                           *)
LEMMA FoldExists ==
  ASSUME NEW S, IsFiniteSet(S), NEW A, NEW base \in A,
         NEW last, \A s \in SUBSET S : s # {} => last[s] \in s,
         NEW step, \A x \in S, a \in A : step[<<x, a>>] \in A
  PROVE  \E g : Recurs(g, S, A, base, last, step)
<1> DEFINE n == Cardinality(S)
           D(k) == {s \in SUBSET S : Cardinality(s) <= k}
           Value(g, s) == IF s = {} THEN base ELSE step[<<last[s], g[s \ {last[s]}]>>]
           Solves(g, k) == g \in [D(k) -> A] /\ \A s \in D(k) : g[s] = Value(g, s)
           solved == {k \in 0..n : \E g : Solves(g, k)}
<1>1. /\ n \in Nat
      /\ \A s \in SUBSET S : IsFiniteSet(s) /\ Cardinality(s) \in Nat /\ Cardinality(s) <= n
  BY FS_Subset, FS_CardinalityType
<1>2. \A s \in SUBSET S : s # {} => Cardinality(s \ {last[s]}) = Cardinality(s) - 1
  BY <1>1, FS_RemoveElement
<1>3. 0 \in solved
  <2> DEFINE g == [s \in D(0) |-> base]
  <2>1. \A s \in D(0) : s = {}
    BY <1>1, FS_EmptySet
  <2>2. Solves(g, 0)
    BY <2>1
  <2>3. \E f : Solves(f, 0)
    BY <2>2
  <2>4. 0 \in 0..n
    BY <1>1
  <2> HIDE DEF Solves
  <2> QED
    BY <2>3, <2>4
<1>4. ASSUME NEW k \in 0..(n - 1), k \in solved
      PROVE  k + 1 \in solved
  <2>1. PICK g : Solves(g, k)
    BY <1>4
  <2> DEFINE h == [s \in D(k + 1) |-> Value(g, s)]
  <2>2. ASSUME NEW s \in D(k + 1), s # {}
        PROVE  s \ {last[s]} \in D(k)
    BY <1>1, <1>2, <2>2
  <2>3. D(k) \subseteq D(k + 1)
    BY <1>1
  <2>4. \A s \in D(k + 1) : Value(g, s) \in A
    BY <2>1, <2>2
  <2>5. \A s \in D(k) : h[s] = g[s]
    BY <2>1, <2>3
  <2>6. \A s \in D(k + 1) : Value(h, s) = Value(g, s)
    <3> SUFFICES ASSUME NEW s \in D(k + 1) PROVE Value(h, s) = Value(g, s)
      OBVIOUS
    <3> HIDE DEF h, D
    <3>1. s # {} => h[s \ {last[s]}] = g[s \ {last[s]}]
      BY <2>2, <2>5
    <3> QED
      BY <3>1
  <2>7. Solves(h, k + 1)
    BY <2>4, <2>6
  <2>8. k + 1 \in 0..n
    BY <1>1
  <2> QED
    BY <2>7, <2>8
<1> HIDE DEF solved
<1>5. n \in solved
  BY <1>1, <1>3, <1>4, CountingUp
<1>6. D(n) = SUBSET S
  BY <1>1
<1> QED
  BY <1>5, <1>6 DEF solved, Recurs

-----------------------------------------------------------------------------
(* Families                                                                *)

(* Finitely many things are seen through a function.                       *)
LEMMA FiniteImage ==
  ASSUME NEW S, IsFiniteSet(S), NEW T, NEW f \in Surjection(S, T)
  PROVE  IsFiniteSet(T) /\ Cardinality(T) <= Cardinality(S)
BY FS_Surjection

(* Two elements make two, and one is all.                                  *)
LEMMA AtLeastTwo ==
  ASSUME NEW S, IsFiniteSet(S)
  PROVE  /\ (\E x, y \in S : x # y) => Cardinality(S) >= 2
         /\ Cardinality(S) >= 2 => \E x, y \in S : x # y
<1>1. /\ Cardinality(S) \in Nat
      /\ Cardinality(S) = 0 <=> S = {}
      /\ Cardinality(S) = 1 <=> \E x : S = {x}
  BY FS_CardinalityType, FS_EmptySet, FS_Singleton
<1>2. ASSUME NEW x \in S, NEW y \in S, x # y
      PROVE  Cardinality(S) >= 2
  <2>1. S # {} /\ ~\E z : S = {z}
    BY <1>2
  <2> QED
    BY <1>1, <2>1
<1>3. ASSUME Cardinality(S) >= 2
      PROVE  \E x, y \in S : x # y
  <2>1. S # {} /\ ~\E z : S = {z}
    BY <1>1, <1>3
  <2> QED
    BY <2>1
<1> QED
  BY <1>2, <1>3

(* The voices of a family are those built for it.                          *)
LEMMA VoicesAreBuilt ==
  ASSUME voices = BuiltVoices, NEW f \in Families
  PROVE  VoicesOf(f) = VoiceFamily(f)
<1>1. ASSUME NEW g \in Families, NEW v \in VoiceFamily(g)
      PROVE  v.id[1] = g
  BY DEF VoiceFamily, Variants, WholeFamily
<1>2. \A v : v \in BuiltVoices <=> \E g \in Families : v \in VoiceFamily(g)
  BY DEF BuiltVoices
<1> QED
  BY <1>1, <1>2 DEF VoicesOf

(* What its members speak has text, hence lines.                           *)
LEMMA SpeakersResolve ==
  ASSUME NEW f \in Families
  PROVE  /\ \A d : d \in FamilyDialogues(f) <=> \E i \in Members(f) : d \in Spoken(characters[i])
         /\ FamilyDialogues(f) \subseteq VoiceDialogues(f)
         /\ \A i \in Members(f) : Spoken(characters[i]) \subseteq Resolved(characters[i])
         /\ \A i \in Members(f) : Resolved(characters[i]) \subseteq Dialogues
<1>1. \A d : d \in FamilyDialogues(f) <=> \E i \in Members(f) : d \in Spoken(characters[i])
  BY DEF FamilyDialogues
<1>2. \A i \in Members(f) : Spoken(characters[i]) \subseteq Resolved(characters[i])
  BY DEF Spoken
<1>3. \A i \in Members(f) : Resolved(characters[i]) \subseteq Dialogues
  BY DEF Resolved
<1>4. ASSUME NEW d \in FamilyDialogues(f)
      PROVE  d \in VoiceDialogues(f)
  <2>1. PICK i \in Members(f) : d \in Spoken(characters[i])
    BY <1>1
  <2>2. d \in Resolved(characters[i]) /\ d \in Dialogues /\ NpcTexts[d] # {}
    BY <1>2, <1>3, <2>1 DEF Spoken, HasText
  <2>3. d \in SpokenDialogues
    BY <2>2, FamiliesAssumption
  <2>4. d \in UNION {Resolved(characters[j]) : j \in Members(f)}
    BY <2>2
  <2> QED
    BY <2>3, <2>4 DEF VoiceDialogues
<1> QED
  BY <1>1, <1>2, <1>3, <1>4

(* A split family has its dialogues parted among the genders.              *)
LEMMA DialoguesAreParted ==
  ASSUME NEW f \in Families
  PROVE  /\ \A g \in Genders : VariantDialogues(f, g) \subseteq FamilyDialogues(f)
         /\ \A d \in FamilyDialogues(f) : \E g \in Genders : d \in VariantDialogues(f, g)
         /\ \A g, h \in Genders : g # h => VariantDialogues(f, g) \cap VariantDialogues(f, h) = {}
         /\ \A g \in ExclusiveGenders(f) : g \in Genders /\ VariantDialogues(f, g) # {}
<1>1. \A g \in Genders : OnlySpokenBy(f, g) = {d \in FamilyDialogues(f) : OwnerGenders(f, d) = {g}}
  BY DEF OnlySpokenBy
<1>2. \A g, h \in Genders : g # h => OnlySpokenBy(f, g) \cap OnlySpokenBy(f, h) = {}
  BY <1>1
<1>3. \A g \in ExclusiveGenders(f) : g \in Genders /\ OnlySpokenBy(f, g) # {}
  BY DEF ExclusiveGenders
<1>4. /\ MixedDialogues(f) \subseteq FamilyDialogues(f)
      /\ \A d \in FamilyDialogues(f) :
           d \in MixedDialogues(f) <=> ~\E g \in ExclusiveGenders(f) : d \in OnlySpokenBy(f, g)
  BY DEF MixedDialogues
<1>5. \A g, d : d \in VariantDialogues(f, g) <=>
                  \/ g \in ExclusiveGenders(f) /\ d \in OnlySpokenBy(f, g)
                  \/ g = Neutral /\ d \in MixedDialogues(f)
  BY DEF VariantDialogues
<1>6. \A g \in Genders : VariantDialogues(f, g) \subseteq FamilyDialogues(f)
  BY <1>1, <1>4, <1>5
<1>7. \A d \in FamilyDialogues(f) : \E g \in Genders : d \in VariantDialogues(f, g)
  BY <1>3, <1>4, <1>5, FamiliesAssumption
<1>8. ASSUME NEW g \in Genders, NEW h \in Genders, g # h
      PROVE  VariantDialogues(f, g) \cap VariantDialogues(f, h) = {}
  <2> SUFFICES ASSUME NEW d, d \in VariantDialogues(f, g), d \in VariantDialogues(f, h)
               PROVE  FALSE
    OBVIOUS
  <2>1. d \in FamilyDialogues(f)
    BY <1>6
  <2> QED
    BY <1>2, <1>4, <1>5, <1>8, <2>1
<1>9. \A g \in ExclusiveGenders(f) : g \in Genders /\ VariantDialogues(f, g) # {}
  BY <1>3, <1>5
<1> QED
  BY <1>6, <1>7, <1>8, <1>9

(* The variants of a family are one for each gender with dialogues.        *)
Variant(f, g) ==
  [id |-> <<f, g>>, gender |-> g, members |-> MembersSpeaking(f, VariantDialogues(f, g)),
   dialogues |-> VariantDialogues(f, g)]

(* Finitely many, and each told by its gender.                             *)
LEMMA VariantsByGender ==
  ASSUME NEW f \in Families
  PROVE  /\ IsFiniteSet(Variants(f))
         /\ \A v : v \in Variants(f) <=>
                     \E g \in Genders : VariantDialogues(f, g) # {} /\ v = Variant(f, g)
<1> DEFINE spoken == {g \in Genders : VariantDialogues(f, g) # {}}
           number == [g \in spoken |-> Variant(f, g)]
<1>1. IsFiniteSet(spoken)
  BY FS_Subset, FamiliesAssumption
<1>2. Variants(f) = {Variant(f, g) : g \in spoken}
  BY DEF Variants, Variant
<1>3. number \in Surjection(spoken, Variants(f))
  <2> HIDE DEF spoken
  <2> QED
    BY <1>2 DEF Surjection
<1>4. IsFiniteSet(Variants(f))
  BY <1>1, <1>3, FiniteImage
<1> QED
  BY <1>2, <1>4

(* A family publishes nothing, or one voice with its own id, or two or     *)
(* more variants, and none without members or dialogues.                   *)
LEMMA ShapeOfFamilies ==
  ASSUME voices = BuiltVoices
  PROVE  FamilyShape
<1> SUFFICES ASSUME NEW f \in Families
             PROVE  LET V == VoicesOf(f) IN
                    /\ \A v \in V : v.members # {} /\ v.dialogues # {}
                    /\ \/ V = {}
                       \/ \E v \in V : V = {v} /\ v.id = <<f, None>>
                       \/ /\ Cardinality(V) >= 2
                          /\ \A v \in V : v.id = <<f, v.gender>> /\ v.gender \in Genders
  BY DEF FamilyShape
<1>1. PICK V : V = VoicesOf(f)
  OBVIOUS
<1>2. CASE VoiceDialogues(f) = {}
  BY <1>1, <1>2, VoicesAreBuilt DEF VoiceFamily
<1>3. CASE VoiceDialogues(f) # {} /\ IsSplit(f)
  <2>1. V = Variants(f)
    BY <1>1, <1>3, VoicesAreBuilt DEF VoiceFamily
  <2>2. ASSUME NEW g \in Genders, VariantDialogues(f, g) # {}
        PROVE  MembersSpeaking(f, VariantDialogues(f, g)) # {}
    <3>1. PICK d : d \in VariantDialogues(f, g) /\ d \in FamilyDialogues(f)
      BY <2>2, DialoguesAreParted
    <3>2. PICK i \in Members(f) : d \in Resolved(characters[i])
      BY <3>1, SpeakersResolve
    <3> QED
      BY <3>1, <3>2 DEF MembersSpeaking
  <2>3. \A v \in V : /\ v.members # {} /\ v.dialogues # {}
                     /\ v.id = <<f, v.gender>> /\ v.gender \in Genders
    BY <2>1, <2>2, VariantsByGender DEF Variant
  <2>4. \E g, h \in ExclusiveGenders(f) : g # h
    <3>1. ExclusiveGenders(f) \in SUBSET Genders
      BY DEF ExclusiveGenders
    <3>2. IsFiniteSet(ExclusiveGenders(f))
      BY <3>1, FS_Subset, FamiliesAssumption
    <3> QED
      BY <1>3, <3>2, AtLeastTwo DEF IsSplit
  <2>5. PICK g, h \in Genders :
          g # h /\ VariantDialogues(f, g) # {} /\ VariantDialogues(f, h) # {}
    BY <2>4, DialoguesAreParted
  <2>6. Variant(f, g) \in V /\ Variant(f, h) \in V
    BY <2>1, <2>5, VariantsByGender
  <2>7. Variant(f, g) # Variant(f, h)
    BY <2>5 DEF Variant
  <2>8. Cardinality(V) >= 2
    BY <2>1, <2>6, <2>7, VariantsByGender, AtLeastTwo
  <2> QED
    BY <1>1, <2>3, <2>8
<1>4. CASE VoiceDialogues(f) # {} /\ ~IsSplit(f)
  <2>1. V = {WholeFamily(f)}
    BY <1>1, <1>4, VoicesAreBuilt DEF VoiceFamily
  <2>2. Members(f) # {}
    BY <1>4 DEF VoiceDialogues
  <2>3. /\ WholeFamily(f).id = <<f, None>> /\ WholeFamily(f).members = Members(f)
        /\ WholeFamily(f).dialogues = VoiceDialogues(f)
    BY DEF WholeFamily
  <2> QED
    BY <1>1, <1>4, <2>1, <2>2, <2>3
<1> QED
  BY <1>2, <1>3, <1>4

(* A dialogue with text has one voice in each family that speaks it, and   *)
(* each of its speakers there is a member.                                 *)
LEMMA SpeakersHaveOneVoice ==
  ASSUME voices = BuiltVoices
  PROVE  OneVoicePerSpeaker
<1> SUFFICES ASSUME NEW f \in Families, NEW d \in FamilyDialogues(f)
             PROVE  \E v \in VoicesOf(f) :
                      /\ d \in v.dialogues
                      /\ {i \in Members(f) : d \in Spoken(characters[i])} \subseteq v.members
                      /\ \A w \in VoicesOf(f) \ {v} : d \notin w.dialogues
  BY DEF OneVoicePerSpeaker
<1>1. d \in VoiceDialogues(f) /\ \A i \in Members(f) : Spoken(characters[i]) \subseteq Resolved(characters[i])
  BY SpeakersResolve
<1>2. CASE IsSplit(f)
  <2>1. VoicesOf(f) = Variants(f)
    BY <1>1, <1>2, VoicesAreBuilt DEF VoiceFamily
  <2>2. PICK g \in Genders : d \in VariantDialogues(f, g)
    BY DialoguesAreParted
  <2>3. PICK v : v = Variant(f, g)
    OBVIOUS
  <2>4. v \in VoicesOf(f)
    BY <2>1, <2>2, <2>3, VariantsByGender
  <2>5. v.dialogues = VariantDialogues(f, g) /\ v.members = MembersSpeaking(f, VariantDialogues(f, g))
    BY <2>3 DEF Variant
  <2>6. {i \in Members(f) : d \in Spoken(characters[i])} \subseteq v.members
    BY <1>1, <2>2, <2>5 DEF MembersSpeaking
  <2>7. ASSUME NEW w \in VoicesOf(f) \ {v}
        PROVE  d \notin w.dialogues
    <3>1. PICK h \in Genders : w = Variant(f, h)
      BY <2>1, VariantsByGender
    <3>2. h # g /\ w.dialogues = VariantDialogues(f, h)
      BY <2>3, <3>1 DEF Variant
    <3> QED
      BY <2>2, <3>2, DialoguesAreParted
  <2> QED
    BY <2>2, <2>4, <2>5, <2>6, <2>7
<1>3. CASE ~IsSplit(f)
  <2>1. VoicesOf(f) = {WholeFamily(f)}
    BY <1>1, <1>3, VoicesAreBuilt DEF VoiceFamily
  <2>2. WholeFamily(f).members = Members(f) /\ WholeFamily(f).dialogues = VoiceDialogues(f)
    BY DEF WholeFamily
  <2> QED
    BY <1>1, <2>1, <2>2
<1> QED
  BY <1>2, <1>3

-----------------------------------------------------------------------------
(* Workloads                                                               *)

(* Of some lines one comes last.                                           *)
LEMMA LatestIsOne ==
  ASSUME NEW lines \in SUBSET Lines, lines # {}
  PROVE  Latest(lines) \in lines
<1>1. IsFiniteSet(lines)
  BY FS_Subset, WorkloadsAssumption
<1>2. \A l \in lines : l \in Nat
  BY WorkloadsAssumption
<1>3. \A l : RoundOf(l) \in Nat
  <2>1. \A l : {m \in Lines : m < l /\ LineOf[m].dialogue = LineOf[l].dialogue} \in SUBSET Lines
    OBVIOUS
  <2> QED
    BY <2>1, FS_Subset, FS_CardinalityType, WorkloadsAssumption DEF RoundOf
<1> DEFINE R == {p \in lines \X lines : Sooner(p[2], p[1])}
<1>4. \A l, m \in lines : <<l, m>> \in R <=> Sooner(m, l)
  OBVIOUS
<1> HIDE DEF R
<1>5. Ordering(lines, R)
  <2>1. \A l \in lines : ~Sooner(l, l)
    BY <1>2, <1>3 DEF Sooner
  <2>2. \A k, l, m \in lines : Sooner(k, l) /\ Sooner(l, m) => Sooner(k, m)
    BY <1>2, <1>3 DEF Sooner
  <2>3. \A l, m \in lines : l # m => Sooner(l, m) \/ Sooner(m, l)
    BY <1>2, <1>3 DEF Sooner
  <2> QED
    BY <1>4, <2>1, <2>2, <2>3 DEF Ordering
<1>6. \E l \in lines : \A m \in lines \ {l} : Sooner(m, l)
  <2>1. \E l \in lines : \A m \in lines \ {l} : <<l, m>> \in R
    BY <1>1, <1>5, FirstOfOrder
  <2> QED
    BY <1>4, <2>1
<1> QED
  BY <1>6 DEF Latest

(* What one more line makes of those selected.                             *)
Taken(l, selected, limit) ==
  IF Len(selected) = limit \/ Seen(selected, l) THEN selected ELSE Append(selected, l)

(* chosen[lines] is what is selected of the first lines.                   *)
Selects(chosen, all, limit) ==
  \A lines \in SUBSET all :
    /\ chosen[lines] \in Seq(Lines)
    /\ chosen[lines] = IF lines = {} THEN <<>>
                         ELSE Taken(Latest(lines), chosen[lines \ {Latest(lines)}], limit)

(* The fold is that.                                                       *)
LEMMA RoundRobinSelects ==
  ASSUME NEW voice, NEW limit
  PROVE  \E chosen : /\ Selects(chosen, VoiceLines(voice), limit)
                     /\ RoundRobin(voice, limit) = chosen[VoiceLines(voice)]
<1> DEFINE all == VoiceLines(voice)
           Step(chosen, lines) ==
             IF lines = {} THEN <<>>
               ELSE Taken(Latest(lines), chosen[lines \ {Latest(lines)}], limit)
           Folds(chosen) == chosen = [lines \in SUBSET all |-> Step(chosen, lines)]
           fold == CHOOSE chosen : Folds(chosen)
<1>1. all \in SUBSET Lines /\ IsFiniteSet(all)
  <2>1. all \in SUBSET Lines
    BY DEF VoiceLines
  <2> QED
    BY <2>1, FS_Subset, WorkloadsAssumption
<1>2. \A lines \in SUBSET all : lines # {} => Latest(lines) \in lines
  BY <1>1, LatestIsOne
<1>3. \A l \in Lines, selected \in Seq(Lines) : Taken(l, selected, limit) \in Seq(Lines)
  BY DEF Taken
<1>4. RoundRobin(voice, limit) = fold[all]
  BY DEF RoundRobin, MapThenFoldSet, Taken
<1>5. \E chosen : Folds(chosen)
  <2> DEFINE last == [lines \in SUBSET all |-> Latest(lines)]
             step == [p \in all \X Seq(Lines) |-> Taken(p[1], p[2], limit)]
  <2>1. \A lines \in SUBSET all : lines # {} => last[lines] \in lines
    BY <1>2
  <2>2. \A l \in all, selected \in Seq(Lines) : step[<<l, selected>>] \in Seq(Lines)
    BY <1>1, <1>3
  <2>3. <<>> \in Seq(Lines)
    OBVIOUS
  <2> HIDE DEF last, step, all
  <2>4. PICK chosen : Recurs(chosen, all, Seq(Lines), <<>>, last, step)
    BY <1>1, <2>1, <2>2, <2>3, FoldExists
  <2>5. \A lines \in SUBSET all : chosen[lines] = Step(chosen, lines)
    <3> SUFFICES ASSUME NEW lines \in SUBSET all, lines # {}
                 PROVE  chosen[lines] = Taken(Latest(lines), chosen[lines \ {Latest(lines)}], limit)
      BY <2>4 DEF Recurs
    <3>1. last[lines] = Latest(lines) /\ Latest(lines) \in all
      BY <1>2 DEF last
    <3>2. chosen[lines \ {Latest(lines)}] \in Seq(Lines)
      BY <2>4 DEF Recurs
    <3>3. step[<<Latest(lines), chosen[lines \ {Latest(lines)}]>>]
            = Taken(Latest(lines), chosen[lines \ {Latest(lines)}], limit)
      BY <3>1, <3>2 DEF step
    <3> QED
      BY <2>4, <3>1, <3>3 DEF Recurs
  <2> QED
    BY <2>4, <2>5 DEF Recurs
<1>6. Folds(fold)
  BY <1>5
<1>7. \A lines \in SUBSET all : fold[lines] = Step(fold, lines)
  BY <1>6
<1> HIDE DEF fold
<1>8. \A lines \in SUBSET all : fold[lines] \in Seq(Lines)
  <2> DEFINE good == {lines \in SUBSET all : fold[lines] \in Seq(Lines)}
  <2>1. {} \in good
    <3>1. fold[{}] = <<>>
      BY <1>7
    <3>2. <<>> \in Seq(Lines)
      OBVIOUS
    <3>3. fold[{}] \in Seq(Lines)
      BY <3>1, <3>2, Zenon
    <3> QED
      BY <3>3
  <2>2. ASSUME NEW lines \in SUBSET all, lines # {}
        PROVE  Latest(lines) \in lines /\ (lines \ {Latest(lines)} \in good => lines \in good)
    <3>1. Latest(lines) \in lines /\ Latest(lines) \in Lines
      BY <1>1, <1>2, <2>2
    <3> QED
      BY <1>3, <1>7, <2>2, <3>1
  <2> HIDE DEF good
  <2>3. \A lines \in SUBSET all : lines \in good
    BY <1>1, <2>1, <2>2, TakingAway
  <2> QED
    BY <2>3 DEF good
<1> QED
  BY <1>4, <1>7, <1>8 DEF Selects

(* What a sequence of lines holds with one more of them.                   *)
LEMMA OneMoreLine ==
  ASSUME NEW selected \in Seq(Lines), NEW l \in Lines
  PROVE  /\ Append(selected, l) \in Seq(Lines)
         /\ Len(Append(selected, l)) = Len(selected) + 1
         /\ DOMAIN Append(selected, l) = 1..(Len(selected) + 1)
         /\ DOMAIN selected = 1..Len(selected) /\ Len(selected) \in Nat
         /\ \A i \in 1..Len(selected) : Append(selected, l)[i] = selected[i]
         /\ Append(selected, l)[Len(selected) + 1] = l
         /\ Range(Append(selected, l)) = Range(selected) \cup {l}
<1>1. /\ Append(selected, l) \in Seq(Lines)
      /\ Len(Append(selected, l)) = Len(selected) + 1
      /\ \A i \in 1..Len(selected) : Append(selected, l)[i] = selected[i]
      /\ Append(selected, l)[Len(selected) + 1] = l
  BY AppendProperties
<1>2. DOMAIN selected = 1..Len(selected) /\ Len(selected) \in Nat
  OBVIOUS
<1>3. DOMAIN Append(selected, l) = 1..(Len(selected) + 1)
  BY <1>1, <1>2
<1> DEFINE more == Append(selected, l)
           n == Len(selected)
<1> HIDE DEF more, n
<1>4. \A m : (\E i \in 1..(n + 1) : m = more[i]) <=> (\E i \in 1..n : m = selected[i]) \/ m = l
  <2>1. n \in Nat /\ \A i \in 1..n : more[i] = selected[i]
    BY <1>1, <1>2 DEF more, n
  <2>2. more[n + 1] = l
    BY <1>1 DEF more, n
  <2>3. \A i \in 1..(n + 1) : i \in 1..n \/ i = n + 1
    BY <2>1
  <2>4. n + 1 \in 1..(n + 1) /\ 1..n \subseteq 1..(n + 1)
    BY <2>1
  <2> QED
    BY <2>1, <2>2, <2>3, <2>4
<1>5. Range(more) = Range(selected) \cup {l}
  BY <1>2, <1>3, <1>4 DEF Range, more, n
<1> QED
  BY <1>1, <1>2, <1>3, <1>5 DEF more

(* Every text once.                                                        *)
Heard(selected, lines) ==
  /\ Range(selected) \subseteq lines
  /\ \A l \in lines : \E m \in Range(selected) : LineOf[m].text = LineOf[l].text
  /\ \A i, j \in DOMAIN selected : LineOf[selected[i]].text = LineOf[selected[j]].text => i = j

(* Without a limit, every text of the first lines is heard once.           *)
LEMMA AllTextsAreHeard ==
  ASSUME NEW voice
  PROVE  Heard(RoundRobin(voice, None), VoiceLines(voice))
<1> DEFINE all == VoiceLines(voice)
<1>1. all \in SUBSET Lines /\ IsFiniteSet(all)
  <2>1. all \in SUBSET Lines
    BY DEF VoiceLines
  <2> QED
    BY <2>1, FS_Subset, WorkloadsAssumption
<1>2. PICK chosen : Selects(chosen, all, None) /\ RoundRobin(voice, None) = chosen[all]
  BY RoundRobinSelects
<1> HIDE DEF all
<1> DEFINE good == {lines \in SUBSET all : Heard(chosen[lines], lines)}
<1>3. {} \in good
  <2>1. chosen[{}] = <<>>
    BY <1>2 DEF Selects
  <2>2. DOMAIN <<>> = {} /\ Range(<<>>) = {}
    BY DEF Range
  <2>3. Heard(<<>>, {})
    BY <2>2 DEF Heard
  <2>4. Heard(chosen[{}], {})
    BY <2>1, <2>3, Zenon
  <2> QED
    BY <2>4
<1>4. ASSUME NEW lines \in SUBSET all, lines # {}
      PROVE  \E l \in lines : lines \ {l} \in good => lines \in good
  <2> DEFINE l == Latest(lines)
             before == chosen[lines \ {l}]
  <2>1. l \in lines /\ l \in Lines
    BY <1>1, <1>4, LatestIsOne
  <2>2. before \in Seq(Lines)
    BY <1>2 DEF Selects
  <2>3. chosen[lines] = IF Len(before) = None \/ Seen(before, l) THEN before ELSE Append(before, l)
    BY <1>2, <1>4 DEF Selects, Taken
  <2>4. Len(before) # None
    BY <2>2, FamiliesAssumption
  <2> HIDE DEF l, before
  <2>5. ASSUME Heard(before, lines \ {l})
        PROVE  Heard(chosen[lines], lines)
    <3>1. CASE Seen(before, l)
      BY <2>1, <2>3, <2>5, <3>1 DEF Heard, Seen
    <3>2. CASE ~Seen(before, l)
      <4> DEFINE more == Append(before, l)
      <4>1. chosen[lines] = more
        BY <2>3, <2>4, <3>2
      <4>2. /\ DOMAIN more = 1..(Len(before) + 1) /\ DOMAIN before = 1..Len(before) /\ Len(before) \in Nat
            /\ \A i \in 1..Len(before) : more[i] = before[i]
            /\ more[Len(before) + 1] = l
            /\ Range(more) = Range(before) \cup {l}
        BY <2>1, <2>2, OneMoreLine
      <4>3. \A i \in 1..Len(before) : LineOf[before[i]].text # LineOf[l].text
        BY <3>2, <4>2 DEF Seen, Range
      <4> HIDE DEF more
      <4>4. Range(more) \subseteq lines
        BY <2>1, <2>5, <4>2 DEF Heard
      <4>5. \A m \in lines : \E k \in Range(more) : LineOf[k].text = LineOf[m].text
        BY <2>5, <4>2 DEF Heard
      <4>6. \A i, j \in DOMAIN more : LineOf[more[i]].text = LineOf[more[j]].text => i = j
        <5> SUFFICES ASSUME NEW i \in DOMAIN more, NEW j \in DOMAIN more,
                            LineOf[more[i]].text = LineOf[more[j]].text
                     PROVE  i = j
          OBVIOUS
        <5>1. CASE i \in 1..Len(before) /\ j \in 1..Len(before)
          BY <2>5, <4>2, <5>1 DEF Heard
        <5>2. CASE i = Len(before) + 1 \/ j = Len(before) + 1
          BY <4>2, <4>3, <5>2
        <5> QED
          BY <4>2, <5>1, <5>2
      <4> QED
        BY <4>1, <4>4, <4>5, <4>6 DEF Heard
    <3> QED
      BY <3>1, <3>2
  <2>6. lines \ {l} \in good => lines \in good
    BY <2>5 DEF before
  <2> QED
    BY <2>1, <2>6
<1> HIDE DEF good
<1>5. \A lines \in SUBSET all : lines \in good
  BY <1>1, <1>3, <1>4, TakingAway
<1> QED
  BY <1>2, <1>5 DEF good, all

(* The first few of a sequence of lines.                                   *)
Beginning(part, whole, limit) ==
  /\ part \in Seq(Lines) /\ whole \in Seq(Lines)
  /\ Len(part) = IF Len(whole) <= limit THEN Len(whole) ELSE limit
  /\ \A i \in 1..Len(part) : part[i] = whole[i]

(* Taking one line more keeps it so.                                       *)
LEMMA TakenWithinLimit ==
  ASSUME NEW limit \in Nat \ {0}, NEW part, NEW whole, Beginning(part, whole, limit), NEW l \in Lines
  PROVE  Beginning(Taken(l, part, limit), Taken(l, whole, None), limit)
<1>1. /\ part \in Seq(Lines) /\ whole \in Seq(Lines) /\ Len(part) \in Nat /\ Len(whole) \in Nat
      /\ Len(whole) # None
  BY FamiliesAssumption DEF Beginning
<1>2. Taken(l, whole, None) = IF Seen(whole, l) THEN whole ELSE Append(whole, l)
  BY <1>1 DEF Taken
<1>3. /\ DOMAIN part = 1..Len(part) /\ DOMAIN whole = 1..Len(whole)
      /\ Append(whole, l) \in Seq(Lines) /\ Len(Append(whole, l)) = Len(whole) + 1
      /\ \A i \in 1..Len(whole) : Append(whole, l)[i] = whole[i]
  BY <1>1, OneMoreLine
<1>4. CASE Len(part) = limit
  <2>1. Taken(l, part, limit) = part
    BY <1>4 DEF Taken
  <2>2. Len(whole) >= limit /\ \A i \in 1..Len(part) : i \in 1..Len(whole)
    BY <1>1, <1>4 DEF Beginning
  <2>3. CASE Seen(whole, l)
    BY <1>2, <2>1, <2>3
  <2>4. CASE ~Seen(whole, l)
    <3>1. Taken(l, whole, None) = Append(whole, l)
      BY <1>2, <2>4
    <3>2. \A i \in 1..Len(part) : part[i] = Append(whole, l)[i]
      BY <1>3, <2>2 DEF Beginning
    <3>3. Beginning(part, Append(whole, l), limit)
      BY <1>1, <1>3, <1>4, <2>2, <3>2 DEF Beginning
    <3> QED
      BY <2>1, <3>1, <3>3
  <2> QED
    BY <2>3, <2>4
<1>5. CASE Len(part) # limit
  <2>1. Len(whole) = Len(part) /\ Len(whole) < limit
    BY <1>1, <1>5 DEF Beginning
  <2>2. part = whole
    BY <1>1, <2>1, SeqEqual DEF Beginning
  <2>3. Taken(l, part, limit) = Taken(l, whole, None)
    BY <1>2, <1>5, <2>2 DEF Taken
  <2> DEFINE more == Taken(l, whole, None)
  <2>4. more \in Seq(Lines) /\ Len(more) <= limit
    BY <1>1, <1>2, <1>3, <2>1
  <2> HIDE DEF more
  <2>5. Beginning(more, more, limit)
    BY <2>4 DEF Beginning
  <2> QED
    BY <2>3, <2>5 DEF more
<1> QED
  BY <1>4, <1>5

(* A limit takes the first of the lines that are taken without one.        *)
LEMMA LimitsTakeTheFirst ==
  ASSUME NEW voice, NEW limit \in Nat \ {0}
  PROVE  Beginning(RoundRobin(voice, limit), RoundRobin(voice, None), limit)
<1> DEFINE all == VoiceLines(voice)
<1>1. all \in SUBSET Lines /\ IsFiniteSet(all)
  <2>1. all \in SUBSET Lines
    BY DEF VoiceLines
  <2> QED
    BY <2>1, FS_Subset, WorkloadsAssumption
<1>2. PICK part : Selects(part, all, limit) /\ RoundRobin(voice, limit) = part[all]
  BY RoundRobinSelects
<1>3. PICK whole : Selects(whole, all, None) /\ RoundRobin(voice, None) = whole[all]
  BY RoundRobinSelects
<1> HIDE DEF all
<1> DEFINE good == {lines \in SUBSET all : Beginning(part[lines], whole[lines], limit)}
<1>4. {} \in good
  <2>1. part[{}] = <<>> /\ whole[{}] = <<>>
    BY <1>2, <1>3 DEF Selects
  <2>2. <<>> \in Seq(Lines) /\ Len(<<>>) = 0
    OBVIOUS
  <2>3. Beginning(<<>>, <<>>, limit)
    BY <2>2 DEF Beginning
  <2>4. Beginning(part[{}], whole[{}], limit)
    BY <2>1, <2>3, Zenon
  <2> QED
    BY <2>4
<1>5. ASSUME NEW lines \in SUBSET all, lines # {}
      PROVE  \E l \in lines : lines \ {l} \in good => lines \in good
  <2> DEFINE l == Latest(lines)
  <2>1. l \in lines /\ l \in Lines
    BY <1>1, <1>5, LatestIsOne
  <2>2. /\ part[lines] = Taken(l, part[lines \ {l}], limit)
        /\ whole[lines] = Taken(l, whole[lines \ {l}], None)
    BY <1>2, <1>3, <1>5 DEF Selects
  <2> HIDE DEF l
  <2>3. Beginning(part[lines \ {l}], whole[lines \ {l}], limit) => Beginning(part[lines], whole[lines], limit)
    BY <2>1, <2>2, TakenWithinLimit
  <2>4. lines \ {l} \in good => lines \in good
    BY <2>3
  <2> QED
    BY <2>1, <2>4
<1> HIDE DEF good
<1>6. \A lines \in SUBSET all : lines \in good
  BY <1>1, <1>4, <1>5, TakingAway
<1> QED
  BY <1>2, <1>3, <1>6 DEF good

-----------------------------------------------------------------------------
(* Scenes                                                                  *)

Catalogued == /\ npcNodes \in SUBSET Node
              /\ transitions \in SUBSET Transition /\ IsFiniteSet(transitions)

(* The transitions to a node have an order, hence a nearest one.           *)
LEMMA NearestIsFirst ==
  ASSUME Catalogued, NEW node \in Node, NEW ts \in SUBSET Incoming(node), ts # {}
  PROVE  Nearest(ts) \in ts /\ \A u \in ts \ {Nearest(ts)} : Before(Nearest(ts), u)
<1> DEFINE R == {p \in ts \X ts : Before(p[1], p[2])}
<1>1. \A t \in ts : t \in Transition /\ t.to = node
  BY DEF Incoming, Catalogued
<1>2. ASSUME NEW t \in ts
      PROVE  t.from.scene \in Nat /\ t.from.state \in Nat /\ t.index \in Nat
  <2>1. t.from \in Node /\ t.index \in 0..MaxTransitionIndex
    BY <1>1 DEF Transition
  <2>2. t.from.scene \in Scenes /\ t.from.state \in 0..MaxStateIndex
    BY <2>1 DEF Node
  <2>3. Scenes \subseteq Nat /\ 0..MaxStateIndex \subseteq Nat /\ 0..MaxTransitionIndex \subseteq Nat
    BY ContextAssumption
  <2> QED
    BY <2>1, <2>2, <2>3
<1>3. node.scene \in Nat
  BY ContextAssumption DEF Node
<1>4. ASSUME NEW t \in ts
      PROVE  /\ ForeignRank(t) \in Nat
             /\ ForeignRank(t) = IF t.from.scene = node.scene THEN 0 ELSE t.from.scene + 1
  BY <1>1, <1>2 DEF ForeignRank
<1>5. \A t, u \in ts : <<t, u>> \in R <=> Before(t, u)
  OBVIOUS
<1>6. ASSUME NEW t \in ts
      PROVE  ~Before(t, t)
  <2>1. /\ ForeignRank(t) \in Nat /\ t.from.state \in Nat /\ t.index \in Nat
    BY <1>2, <1>4
  <2> QED
    BY <2>1 DEF Before
<1>7. ASSUME NEW t \in ts, NEW u \in ts, NEW w \in ts, Before(t, u), Before(u, w)
      PROVE  Before(t, w)
  <2>1. /\ ForeignRank(t) \in Nat /\ t.from.state \in Nat /\ t.index \in Nat
        /\ ForeignRank(u) \in Nat /\ u.from.state \in Nat /\ u.index \in Nat
        /\ ForeignRank(w) \in Nat /\ w.from.state \in Nat /\ w.index \in Nat
    BY <1>2, <1>4
  <2>2. /\ t.from = u.from => ForeignRank(t) = ForeignRank(u)
        /\ u.from = w.from => ForeignRank(u) = ForeignRank(w)
    BY <1>4
  <2> QED
    BY <1>7, <2>1, <2>2 DEF Before
<1>8. ASSUME NEW t \in ts, NEW u \in ts, t # u
      PROVE  Before(t, u) \/ Before(u, t)
  <2>1. /\ ForeignRank(t) \in Nat /\ t.from.state \in Nat /\ t.index \in Nat
        /\ ForeignRank(u) \in Nat /\ u.from.state \in Nat /\ u.index \in Nat
    BY <1>2, <1>4
  <2>2. CASE ForeignRank(t) # ForeignRank(u)
    BY <2>1, <2>2 DEF Before
  <2>3. CASE ForeignRank(t) = ForeignRank(u) /\ t.from.state # u.from.state
    BY <2>1, <2>3 DEF Before
  <2>4. CASE ForeignRank(t) = ForeignRank(u) /\ t.from.state = u.from.state
    <3>1. t.from.scene = u.from.scene
      <4>1. /\ ForeignRank(t) = IF t.from.scene = node.scene THEN 0 ELSE t.from.scene + 1
            /\ ForeignRank(u) = IF u.from.scene = node.scene THEN 0 ELSE u.from.scene + 1
            /\ t.from.scene \in Nat /\ u.from.scene \in Nat
        BY <1>2, <1>4
      <4>2. PICK x, y, n : x = t.from.scene /\ y = u.from.scene /\ n = node.scene
        OBVIOUS
      <4>3. /\ x \in Nat /\ y \in Nat /\ n \in Nat
            /\ (IF x = n THEN 0 ELSE x + 1) = (IF y = n THEN 0 ELSE y + 1)
        BY <1>3, <2>4, <4>1, <4>2
      <4>4. x = y
        BY <4>3
      <4> QED
        BY <4>2, <4>4
    <3>2. t.from \in Node /\ u.from \in Node
      BY <1>1 DEF Transition
    <3>3. t.from = u.from
      BY <2>4, <3>1, <3>2 DEF Node
    <3>4. t.index # u.index
      BY <1>1, <1>8, <3>3 DEF Transition
    <3> QED
      BY <2>1, <3>3, <3>4 DEF Before
  <2> QED
    BY <2>2, <2>3, <2>4
<1>9. Ordering(ts, R)
  <2> HIDE DEF R
  <2> QED
    BY <1>5, <1>6, <1>7, <1>8 DEF Ordering
<1>10. IsFiniteSet(ts)
  <2>1. ts \in SUBSET transitions
    BY DEF Incoming
  <2> QED
    BY <2>1, FS_Subset DEF Catalogued
<1>11. \E t \in ts : \A u \in ts \ {t} : <<t, u>> \in R
  <2> HIDE DEF R
  <2> QED
    BY <1>9, <1>10, FirstOfOrder
<1>12. \E t \in ts : \A u \in ts \ {t} : Before(t, u)
  BY <1>5, <1>11
<1> QED
  BY <1>12 DEF Nearest

(* What one turn back is.                                                  *)
Leads(turn, node) ==
  \/ [from |-> turn.node, index |-> turn.response, to |-> node] \in transitions
  \/ turn.response = NoTurn /\ turn.node.scene = node.scene

(* One turn back is along a transition, or within the scene, if there is   *)
(* any way back at all.                                                    *)
LEMMA OneTurnBack ==
  ASSUME Catalogued, NEW node \in Node, NEW visited, NEW turn, turn = Previous(node, visited)
  PROVE  /\ turn # NoTurn => turn.node \in npcNodes \ visited /\ Leads(turn, node)
         /\ Usable(node, visited) # {} =>
              /\ turn # NoTurn /\ turn.node \in {t.from : t \in Usable(node, visited)}
              /\ (\E t \in Usable(node, visited) : t.from.scene = node.scene)
                 => turn.node.scene = node.scene
<1>1. CASE Usable(node, visited) # {}
  <2>1. PICK t : t = Nearest(Usable(node, visited))
    OBVIOUS
  <2>2. /\ Usable(node, visited) \in SUBSET Incoming(node)
        /\ \A u \in Usable(node, visited) :
             u \in transitions /\ u \in Transition /\ u.to = node /\ u.from \in npcNodes \ visited
    BY DEF Usable, Incoming, Catalogued
  <2>3. /\ t \in Usable(node, visited)
        /\ \A u \in Usable(node, visited) \ {t} : Before(t, u)
    BY <1>1, <2>1, <2>2, NearestIsFirst
  <2>4. turn = [node |-> t.from, response |-> t.index]
    BY <1>1, <2>1 DEF Previous
  <2>5. turn \in Turn
    BY <2>2, <2>3, <2>4 DEF Turn, Transition
  <2>6. turn # NoTurn
    BY <2>5, ContextAssumption
  <2>7. Leads(turn, node)
    <3>1. t = [from |-> t.from, index |-> t.index, to |-> node]
      BY <2>2, <2>3 DEF Transition
    <3> QED
      BY <2>2, <2>3, <2>4, <3>1 DEF Leads
  <2>8. ASSUME NEW u \in Usable(node, visited), u.from.scene = node.scene
        PROVE  t.from.scene = node.scene
    <3>1. t \in Transition /\ t.to = node /\ t.from.scene \in Nat
      BY <2>2, <2>3, ContextAssumption DEF Transition, Node
    <3>2. CASE u = t
      BY <2>8, <3>2
    <3>3. CASE u # t
      <4>1. Before(t, u) /\ ForeignRank(u) = 0 /\ (t.from = u.from => t.from.scene = node.scene)
        BY <2>2, <2>3, <2>8, <3>3 DEF ForeignRank
      <4>2. ForeignRank(t) = 0
        BY <2>2, <2>8, <3>1, <4>1 DEF Before, ForeignRank
      <4> QED
        BY <3>1, <4>2 DEF ForeignRank
    <3> QED
      BY <3>2, <3>3
  <2> QED
    BY <2>2, <2>3, <2>4, <2>6, <2>7, <2>8
<1>2. CASE Usable(node, visited) = {} /\ Preceding(node, visited) # {}
  <2>1. PICK n : n = CHOOSE m \in Preceding(node, visited) : TRUE
    OBVIOUS
  <2>2. n \in Preceding(node, visited)
    BY <1>2, <2>1
  <2>3. turn = [node |-> n, response |-> NoTurn]
    BY <1>2, <2>1 DEF Previous
  <2> QED
    BY <1>2, <2>2, <2>3 DEF Preceding, Leads
<1>3. CASE Usable(node, visited) = {} /\ Preceding(node, visited) = {}
  BY <1>3 DEF Previous
<1> QED
  BY <1>1, <1>2, <1>3

(* For whatever transitions a game has, the turns before a line are a path *)
(* to it through different states, and start with a transition of the game *)
(* if it has one (dialogue_history).                                       *)
THEOREM HistoriesArePaths ==
  ASSUME npcNodes \in SUBSET Node, transitions \in SUBSET Transition, IsFiniteSet(transitions)
  PROVE  HistoryIsPath
<1>1. Catalogued
  BY DEF Catalogued
<1> SUFFICES ASSUME NEW line \in npcNodes
             PROVE  LET turns == History(line)
                        at(i) == IF i = 0 THEN line ELSE turns[i].node
                        known == {t.from : t \in Incoming(line)} \cap (npcNodes \ {line})
                    IN /\ \A i \in DOMAIN turns :
                            /\ at(i) \in npcNodes
                            /\ \A j \in 0..(i - 1) : at(j) # at(i)
                            /\ \/ [from |-> at(i), index |-> turns[i].response, to |-> at(i - 1)]
                                    \in transitions
                               \/ turns[i].response = NoTurn /\ at(i).scene = at(i - 1).scene
                       /\ known # {} =>
                            /\ turns # <<>> /\ Head(turns).node \in known
                            /\ (\E n \in known : n.scene = line.scene)
                               => Head(turns).node.scene = line.scene
  BY DEF HistoryIsPath
<1> DEFINE turns == History(line)
           at(i) == IF i = 0 THEN line ELSE turns[i].node
           known == {t.from : t \in Incoming(line)} \cap (npcNodes \ {line})
<1>2. line \in Node
  BY <1>1 DEF Catalogued
<1>3. PICK a : a = Previous(line, {line})
  OBVIOUS
<1>4. Visited(line, <<>>) = {line}
  BY DEF Visited
<1>5. known = {t.from : t \in Usable(line, {line})}
  BY DEF Usable
<1>6. /\ a # NoTurn => a.node \in npcNodes \ {line} /\ Leads(a, line)
      /\ known # {} => /\ a # NoTurn /\ a.node \in known
                       /\ (\E n \in known : n.scene = line.scene) => a.node.scene = line.scene
  <2>1. /\ a # NoTurn => a.node \in npcNodes \ {line} /\ Leads(a, line)
        /\ Usable(line, {line}) # {} =>
              /\ a # NoTurn /\ a.node \in {t.from : t \in Usable(line, {line})}
              /\ (\E t \in Usable(line, {line}) : t.from.scene = line.scene)
                 => a.node.scene = line.scene
    BY <1>1, <1>2, <1>3, OneTurnBack
  <2> QED
    BY <1>5, <2>1
<1>7. CASE a = NoTurn
  <2>1. Extended(line, <<>>) = <<>>
    BY <1>3, <1>4, <1>7 DEF Extended
  <2>2. turns = <<>>
    BY <2>1 DEF History
  <2> QED
    BY <1>6, <1>7, <2>2
<1>8. CASE a # NoTurn
  <2>1. Extended(line, <<>>) = <<a>>
    BY <1>3, <1>4, <1>8 DEF Extended
  <2>2. PICK b : b = Previous(a.node, {line, a.node})
    OBVIOUS
  <2>3. Visited(line, <<a>>) = {line, a.node}
    BY DEF Visited
  <2>4. Last(<<a>>) = a
    BY DEF Last
  <2>5. turns = IF b = NoTurn THEN <<a>> ELSE Append(<<a>>, b)
    <3>1. turns = Extended(line, <<a>>)
      BY <2>1 DEF History
    <3>2. <<a>> # <<>>
      OBVIOUS
    <3>3. Extended(line, <<a>>) = IF b = NoTurn THEN <<a>> ELSE Append(<<a>>, b)
      BY <2>2, <2>3, <2>4, <3>2 DEF Extended
    <3> QED
      BY <3>1, <3>2, <3>3
  <2>6. a.node \in Node
    BY <1>1, <1>6, <1>8 DEF Catalogued
  <2>7. b # NoTurn => b.node \in npcNodes \ {line, a.node} /\ Leads(b, a.node)
    BY <1>1, <2>2, <2>6, OneTurnBack
  <2>8. CASE b = NoTurn
    <3>1. turns = <<a>>
      BY <2>5, <2>8
    <3> HIDE DEF turns, known
    <3>2. /\ at(1) \in npcNodes /\ at(0) # at(1)
          /\ \/ [from |-> at(1), index |-> turns[1].response, to |-> at(0)] \in transitions
             \/ turns[1].response = NoTurn /\ at(1).scene = at(0).scene
      BY <1>6, <1>8, <3>1 DEF Leads
    <3>3. DOMAIN turns = {1} /\ turns # <<>> /\ Head(turns) = a
      BY <3>1
    <3> HIDE DEF at
    <3>4. \A i \in DOMAIN turns : i = 1 /\ i - 1 = 0 /\ \A j \in 0..(i - 1) : j = 0
      BY <3>3
    <3>5. \A i \in DOMAIN turns :
            /\ at(i) \in npcNodes
            /\ \A j \in 0..(i - 1) : at(j) # at(i)
            /\ \/ [from |-> at(i), index |-> turns[i].response, to |-> at(i - 1)] \in transitions
               \/ turns[i].response = NoTurn /\ at(i).scene = at(i - 1).scene
      BY <3>2, <3>4
    <3> QED
      BY <1>6, <3>3, <3>5 DEF turns, at, known
  <2>9. CASE b # NoTurn
    <3>1. /\ DOMAIN turns = {1, 2} /\ turns[1] = a /\ turns[2] = b
          /\ turns # <<>> /\ Head(turns) = a
      <4>1. turns = Append(<<a>>, b)
        BY <2>5, <2>9
      <4> HIDE DEF turns
      <4>2. <<a>> \in Seq({a, b}) /\ Len(<<a>>) = 1 /\ <<a>>[1] = a /\ a \in {a, b} /\ b \in {a, b}
        OBVIOUS
      <4>3. /\ turns \in Seq({a, b}) /\ turns # <<>> /\ Len(turns) = Len(<<a>>) + 1
            /\ \A i \in 1..Len(<<a>>) : turns[i] = <<a>>[i]
            /\ turns[Len(<<a>>) + 1] = b
        BY <4>1, <4>2, AppendProperties
      <4> QED
        BY <4>2, <4>3
    <3> HIDE DEF turns, known
    <3>2. /\ at(1) \in npcNodes /\ at(0) # at(1)
          /\ \/ [from |-> at(1), index |-> turns[1].response, to |-> at(0)] \in transitions
             \/ turns[1].response = NoTurn /\ at(1).scene = at(0).scene
      BY <1>6, <1>8, <3>1 DEF Leads
    <3>3. /\ at(2) \in npcNodes /\ at(0) # at(2) /\ at(1) # at(2)
          /\ \/ [from |-> at(2), index |-> turns[2].response, to |-> at(1)] \in transitions
             \/ turns[2].response = NoTurn /\ at(2).scene = at(1).scene
      BY <2>7, <2>9, <3>1 DEF Leads
    <3> HIDE DEF at
    <3>4. ASSUME NEW i \in DOMAIN turns
          PROVE  /\ at(i) \in npcNodes
                 /\ \A j \in 0..(i - 1) : at(j) # at(i)
                 /\ \/ [from |-> at(i), index |-> turns[i].response, to |-> at(i - 1)] \in transitions
                    \/ turns[i].response = NoTurn /\ at(i).scene = at(i - 1).scene
      <4>1. CASE i = 1
        <5>1. i - 1 = 0 /\ \A j \in 0..(i - 1) : j = 0
          BY <4>1
        <5> QED
          BY <3>2, <4>1, <5>1
      <4>2. CASE i = 2
        <5>1. i - 1 = 1 /\ \A j \in 0..(i - 1) : j \in {0, 1}
          BY <4>2
        <5> QED
          BY <3>3, <4>2, <5>1
      <4> QED
        BY <3>1, <4>1, <4>2
    <3> QED
      BY <1>6, <3>1, <3>4 DEF turns, at, known
  <2> QED
    BY <2>8, <2>9
<1> QED
  BY <1>7, <1>8

-----------------------------------------------------------------------------
(* Audits                                                                  *)

(* A number is its quotient, times the divisor, and its remainder.         *)
LEMMA Division == \A o, r \in Int : r > 0 => o = (o \div r) * r + (o % r)
  OBVIOUS

(* What comes before the end is in a batch before the number of batches.   *)
LEMMA BatchesSuffice ==
  ASSUME NEW n \in Nat, NEW p \in 0..(n - 1), NEW k \in Nat \ {0}
  PROVE  /\ p \div k \in 0..(n - 1)
         /\ (p \div k) + 1 <= (n + k - 1) \div k
<1>1. PICK q, e : q = p \div k /\ e = p % k
  OBVIOUS
<1>2. PICK m, d : m = (n + k - 1) \div k /\ d = (n + k - 1) % k
  OBVIOUS
<1>3. /\ q \in Nat /\ e \in Nat /\ e < k
      /\ m \in Nat /\ d \in Nat /\ d < k
  BY <1>1, <1>2
<1>4. p = q * k + e /\ n + k - 1 = m * k + d
  <2>1. p \in Int /\ n + k - 1 \in Int /\ k \in Int /\ k > 0
    OBVIOUS
  <2> QED
    BY <1>1, <1>2, <2>1, Division
<1>5. q <= q * k
  BY <1>3
<1>6. ASSUME m <= q
      PROVE  FALSE
  <2>1. PICK c \in Nat : q = m + c
    <3>1. q - m \in Nat /\ q = m + (q - m)
      BY <1>3, <1>6
    <3> QED
      BY <3>1
  <2>2. q * k = m * k + c * k /\ c * k \in Nat /\ m * k \in Nat
    BY <1>3, <2>1
  <2>3. PICK x \in Nat, y \in Nat : x = m * k /\ y = c * k
    BY <2>2
  <2>4. p = x + y + e /\ n + k - 1 = x + d
    BY <1>4, <2>2, <2>3
  <2> QED
    BY <1>3, <2>4
<1>7. q <= p
  <2>1. PICK x \in Nat : x = q * k
    BY <1>3
  <2> QED
    BY <1>3, <1>4, <1>5, <2>1
<1> QED
  BY <1>1, <1>2, <1>3, <1>6, <1>7

(* Each suspicious pair is in one batch.                                   *)
LEMMA PairsInBatches ==
  ASSUME NEW id \in Pairs
  PROVE  \E b \in (1..BatchCount) \cap (1..Cardinality(DirectionIds)) :
           \A a \in Nat : id \in BatchPairs(a) <=> a = b
<1> DEFINE before == {other \in Pairs : other < id}
           n == Cardinality(Pairs)
           p == Cardinality(before)
           k == AuditBatchSize
           b == (p \div k) + 1
<1>1. Pairs \in SUBSET DirectionIds /\ id \in Nat
  BY AuditAssumption DEF Pairs
<1>2. IsFiniteSet(DirectionIds) /\ k \in Nat \ {0}
  BY AuditAssumption
<1>3. /\ IsFiniteSet(Pairs) /\ n \in Nat /\ Cardinality(DirectionIds) \in Nat
      /\ n <= Cardinality(DirectionIds)
  BY <1>1, <1>2, FS_Subset, FS_CardinalityType
<1>4. before \in SUBSET Pairs /\ id \notin before
  BY <1>1
<1>5. p \in Nat /\ p <= n /\ p # n
  BY <1>3, <1>4, FS_Subset, FS_CardinalityType
<1>6. p \in 0..(n - 1)
  <2> HIDE DEF n, p
  <2> QED
    BY <1>3, <1>5
<1>7. p \div k \in 0..(n - 1) /\ b <= (n + k - 1) \div k
  <2> HIDE DEF n, p, k
  <2> QED
    BY <1>2, <1>3, <1>6, BatchesSuffice
<1>8. BatchCount = (n + k - 1) \div k
  BY DEF BatchCount
<1>9. Position(id) = p
  BY DEF Position
<1>10. \A a \in Nat : id \in BatchPairs(a) <=> p \div k = a - 1
  BY <1>9 DEF BatchPairs
<1> HIDE DEF n, p, k
<1>11. b \in Nat /\ b >= 1 /\ b <= Cardinality(DirectionIds)
  BY <1>3, <1>7
<1>12. (n + k - 1) \div k \in Nat
  BY <1>2, <1>3
<1>13. b \in (1..BatchCount) \cap (1..Cardinality(DirectionIds))
  BY <1>3, <1>7, <1>8, <1>11, <1>12
<1>14. \A a \in Nat : id \in BatchPairs(a) <=> a = b
  BY <1>7, <1>10, <1>11
<1> QED
  BY <1>13, <1>14

(* The inductive invariant: what is reported was found when all batches    *)
(* had been answered.                                                      *)
AuditInv ==
  /\ DOMAIN directions \subseteq DirectionIds
  /\ DOMAIN answers = 1..Cardinality(DirectionIds)
  /\ report # Unasked =>
       /\ auditPc = "reported"
       /\ \A b \in 1..BatchCount : answers[b] # Unasked
       /\ report = {id \in Mismatches : Candidate(id)}

(* Whatever order the batches are answered in.                             *)
LEMMA AuditSteps == AuditInv /\ [AuditNext]_auditVars => AuditInv'
<1> SUFFICES ASSUME AuditInv, [AuditNext]_auditVars PROVE AuditInv'
  OBVIOUS
<1> USE DEF AuditInv
<1>1. CASE StartAudit
  BY <1>1 DEF StartAudit
<1>2. ASSUME NEW b \in DOMAIN answers, AskModel(b)
      PROVE  AuditInv'
  BY <1>2 DEF AskModel
<1>3. ASSUME NEW b \in DOMAIN answers, NEW named, ModelAnswers(b, named)
      PROVE  AuditInv'
  BY <1>3 DEF ModelAnswers
<1>4. ASSUME NEW b \in DOMAIN answers, ModelFails(b)
      PROVE  AuditInv'
  BY <1>4 DEF ModelFails
<1>5. CASE WriteReport
  <2>1. UNCHANGED <<directions, answers>>
    BY <1>5 DEF WriteReport
  <2>2. /\ Mismatches' = Mismatches /\ BatchCount' = BatchCount
        /\ \A id : Candidate(id)' <=> Candidate(id)
    BY <2>1 DEF Mismatches, BatchCount, BatchPairs, Confirmed, Pairs, Position, Candidate
  <2> QED
    BY <1>5, <2>1, <2>2 DEF WriteReport
<1>6. CASE UNCHANGED auditVars
  <2>1. UNCHANGED <<directions, auditPc, answers, report>>
    BY <1>6 DEF auditVars
  <2>2. /\ Mismatches' = Mismatches /\ BatchCount' = BatchCount
        /\ \A id : Candidate(id)' <=> Candidate(id)
    BY <2>1 DEF Mismatches, BatchCount, BatchPairs, Confirmed, Pairs, Position, Candidate
  <2> QED
    BY <2>1, <2>2
<1> QED
  BY <1>1, <1>2, <1>3, <1>4, <1>5, <1>6 DEF AuditNext

(* The inductive invariant of an audit.                                    *)
THEOREM Audits == AuditSpec => []AuditInv
<1>1. AuditInit => AuditInv
  BY DEF AuditInit, AuditRest, AuditInv
<1> QED
  BY <1>1, AuditSteps, PTL DEF AuditSpec

(* The report has what the answer to its own batch confirmed, and the      *)
(* corrupted pairs, and nothing else (find_mismatches, audit_directions).  *)
THEOREM ReportsAreJudged == AuditSpec => []ReportIsJudged
<1>1. AuditInv => ReportIsJudged
  <2> SUFFICES ASSUME AuditInv, report # Unasked, NEW id \in DirectionIds
               PROVE  LET asked == {b \in DOMAIN answers : answers[b] # Unasked /\ id \in BatchPairs(b)}
                      IN /\ Candidate(id) => Cardinality(asked) = 1
                         /\ id \in report <=>
                              Candidate(id) /\ (\/ directions[id] = "corrupted"
                                                \/ \E b \in asked : id \in answers[b])
    BY DEF ReportIsJudged
  <2> DEFINE asked == {b \in DOMAIN answers : answers[b] # Unasked /\ id \in BatchPairs(b)}
  <2>1. /\ DOMAIN answers = 1..Cardinality(DirectionIds)
        /\ \A b \in 1..BatchCount : answers[b] # Unasked
        /\ report = {i \in Mismatches : Candidate(i)}
    BY DEF AuditInv
  <2>2. id \in Mismatches <=>
          \/ \E b \in 1..BatchCount : id \in answers[b] /\ id \in BatchPairs(b)
          \/ Candidate(id) /\ directions[id] = "corrupted"
    BY DEF Mismatches, Confirmed
  <2>3. CASE ~Candidate(id)
    BY <2>1, <2>3
  <2>4. CASE Candidate(id)
    <3>1. id \in Pairs
      BY <2>4 DEF Pairs
    <3>2. PICK b \in (1..BatchCount) \cap (1..Cardinality(DirectionIds)) :
                 \A a \in Nat : id \in BatchPairs(a) <=> a = b
      BY <3>1, PairsInBatches
    <3>3. asked = {b}
      BY <2>1, <3>2
    <3>4. \A a \in 1..BatchCount : id \in BatchPairs(a) <=> a = b
      BY <3>2
    <3> HIDE DEF asked
    <3>5. Cardinality(asked) = 1
      BY <3>3, FS_Singleton
    <3>6. id \in report <=> id \in Mismatches
      BY <2>1, <2>4
    <3>7. (\E a \in 1..BatchCount : id \in answers[a] /\ id \in BatchPairs(a)) <=> id \in answers[b]
      BY <3>2, <3>4
    <3>8. id \in Mismatches <=> directions[id] = "corrupted" \/ id \in answers[b]
      BY <2>2, <2>4, <3>7
    <3>9. id \in report <=>
            Candidate(id) /\ (directions[id] = "corrupted" \/ \E a \in asked : id \in answers[a])
      BY <2>4, <3>3, <3>6, <3>8
    <3> QED
      BY <3>5, <3>9 DEF asked
  <2> QED
    BY <2>3, <2>4
<1> QED
  BY <1>1, Audits, PTL

-----------------------------------------------------------------------------
(* Publications                                                            *)

(* What a voice's dialogues have to do with its gender: all speakers have  *)
(* it, or it takes what no other voice of the family does.                 *)
Suits(v, d) ==
  \/ v.id[2] = None
  \/ OwnerGenders(v.id[1], d) = {v.id[2]}
  \/ /\ v.id[2] = Neutral
     /\ \A h \in Genders \ {Neutral} :
          OwnerGenders(v.id[1], d) = {h} => \A w \in voices : w.id # <<v.id[1], h>>

(* What attribution publishes, as far as others rely on it.                *)
Published ==
  /\ IsFiniteSet(voices)
  /\ \A v \in voices :
       /\ v.id[1] \in Families /\ v.id[2] \in Genders \cup {None} /\ v.id = <<v.id[1], v.id[2]>>
       /\ v.gender \in Genders \cup {None}
       /\ v.members \in SUBSET DOMAIN characters /\ v.members # {}
       /\ \A d \in v.dialogues :
            /\ Suits(v, d) /\ \E i \in Members(v.id[1]) : d \in Resolved(characters[i])
            /\ v.id[2] # None => d \in FamilyDialogues(v.id[1])
  /\ \A v, w \in voices : v.id[1] = w.id[1] /\ v.id[2] = None => w = v

(* Members are of the cast.                                                *)
LEMMA MembersOfCast ==
  ASSUME characters \in Seq(Character), NEW f \in Families
  PROVE  /\ IsFiniteSet(DOMAIN characters) /\ Members(f) \in SUBSET DOMAIN characters
         /\ \A i \in DOMAIN characters : characters[i] \in Character
         /\ \A d : OwnerGenders(f, d) \in SUBSET Genders
         /\ ContributingGenders(f) \in SUBSET Genders
<1>1. /\ Len(characters) \in Nat /\ DOMAIN characters = 1..Len(characters)
      /\ \A i \in DOMAIN characters : characters[i] \in Character
  OBVIOUS
<1>2. IsFiniteSet(DOMAIN characters)
  BY <1>1, FS_Interval
<1>3. Members(f) \in SUBSET DOMAIN characters
  BY DEF Members
<1>4. \A i \in DOMAIN characters : characters[i].gender \in Genders
  BY <1>1 DEF Character
<1>5. \A d : OwnerGenders(f, d) \in SUBSET Genders
  BY <1>3, <1>4 DEF OwnerGenders
<1>6. ContributingGenders(f) \in SUBSET Genders
  BY <1>3, <1>4 DEF ContributingGenders
<1> QED
  BY <1>1, <1>2, <1>3, <1>5, <1>6

(* A variant has its gender, and suits its dialogues.                      *)
LEMMA VariantsSuit ==
  ASSUME voices = BuiltVoices, NEW f \in Families, VoicesOf(f) = Variants(f),
         NEW g \in Genders, NEW d \in VariantDialogues(f, g)
  PROVE  Suits(Variant(f, g), d)
<1>1. Variant(f, g).id = <<f, g>>
  BY DEF Variant
<1>2. CASE g \in ExclusiveGenders(f) /\ d \in OnlySpokenBy(f, g)
  BY <1>1, <1>2 DEF Suits, OnlySpokenBy
<1>3. CASE ~(g \in ExclusiveGenders(f) /\ d \in OnlySpokenBy(f, g))
  <2>1. g = Neutral /\ d \in MixedDialogues(f)
    BY <1>3 DEF VariantDialogues
  <2>2. d \in FamilyDialogues(f) /\ \A h \in ExclusiveGenders(f) : d \notin OnlySpokenBy(f, h)
    BY <2>1 DEF MixedDialogues
  <2>3. ASSUME NEW h \in Genders \ {Neutral}, OwnerGenders(f, d) = {h}, NEW w \in voices,
               w.id = <<f, h>>
        PROVE  FALSE
    <3>1. h \notin ExclusiveGenders(f)
      BY <2>2, <2>3 DEF OnlySpokenBy
    <3>2. VariantDialogues(f, h) = {}
      BY <2>3, <3>1 DEF VariantDialogues
    <3>3. w \in Variants(f)
      BY <2>3 DEF VoicesOf
    <3>4. PICK k \in Genders : VariantDialogues(f, k) # {} /\ w = Variant(f, k)
      BY <3>3, VariantsByGender
    <3>5. k = h
      BY <2>3, <3>4 DEF Variant
    <3> QED
      BY <3>2, <3>4, <3>5
  <2> QED
    BY <1>1, <2>1, <2>3 DEF Suits
<1> QED
  BY <1>2, <1>3

(* The voices of each family are finitely many, and as Published says.     *)
LEMMA FamilyIsPublished ==
  ASSUME characters \in Seq(Character), voices = BuiltVoices, NEW f \in Families
  PROVE  /\ IsFiniteSet(VoicesOf(f))
         /\ \A v \in VoicesOf(f) :
              /\ v.id[1] = f /\ v.id[2] \in Genders \cup {None} /\ v.id = <<f, v.id[2]>>
              /\ v.gender \in Genders \cup {None}
              /\ v.members \in SUBSET DOMAIN characters
              /\ \A d \in v.dialogues :
                   /\ Suits(v, d) /\ \E i \in Members(f) : d \in Resolved(characters[i])
                   /\ v.id[2] # None => d \in FamilyDialogues(f)
         /\ \A v, w \in VoicesOf(f) : v.id[2] = None => w = v
<1>1. Members(f) \in SUBSET DOMAIN characters
  BY MembersOfCast
<1>2. None \notin Genders
  BY FamiliesAssumption
<1>3. CASE VoiceDialogues(f) = {}
  <2>1. VoicesOf(f) = {}
    BY <1>3, VoicesAreBuilt DEF VoiceFamily
  <2> QED
    BY <2>1, FS_EmptySet
<1>4. CASE VoiceDialogues(f) # {} /\ IsSplit(f)
  <2>1. VoicesOf(f) = Variants(f)
    BY <1>4, VoicesAreBuilt DEF VoiceFamily
  <2>2. ASSUME NEW v \in VoicesOf(f)
        PROVE  /\ v.id[1] = f /\ v.id[2] \in Genders /\ v.id = <<f, v.id[2]>>
               /\ v.gender \in Genders
               /\ v.members \in SUBSET DOMAIN characters
               /\ \A d \in v.dialogues :
                    /\ Suits(v, d) /\ \E i \in Members(f) : d \in Resolved(characters[i])
                    /\ d \in FamilyDialogues(f)
    <3>1. PICK g \in Genders : v = Variant(f, g)
      BY <2>1, VariantsByGender
    <3>2. /\ v.id = <<f, g>> /\ v.gender = g /\ v.dialogues = VariantDialogues(f, g)
          /\ v.members = MembersSpeaking(f, VariantDialogues(f, g))
      BY <3>1 DEF Variant
    <3>3. v.members \in SUBSET DOMAIN characters
      BY <1>1, <3>2 DEF MembersSpeaking
    <3>4. ASSUME NEW d \in v.dialogues
          PROVE  /\ Suits(v, d) /\ \E i \in Members(f) : d \in Resolved(characters[i])
                 /\ d \in FamilyDialogues(f)
      <4>1. Suits(v, d)
        BY <2>1, <3>1, <3>2, VariantsSuit
      <4>2. d \in FamilyDialogues(f)
        BY <3>2, DialoguesAreParted
      <4> QED
        BY <4>1, <4>2, SpeakersResolve
    <3> QED
      BY <3>2, <3>3, <3>4
  <2>3. IsFiniteSet(VoicesOf(f))
    BY <2>1, VariantsByGender
  <2>4. \A v \in VoicesOf(f) : v.id[2] # None
    BY <1>2, <2>2
  <2> QED
    BY <2>2, <2>3, <2>4
<1>5. CASE VoiceDialogues(f) # {} /\ ~IsSplit(f)
  <2>1. VoicesOf(f) = {WholeFamily(f)}
    BY <1>5, VoicesAreBuilt DEF VoiceFamily
  <2>2. PICK v : v = WholeFamily(f)
    OBVIOUS
  <2>3. /\ v.id = <<f, None>> /\ v.members = Members(f) /\ v.dialogues = VoiceDialogues(f)
        /\ v.gender = IF Cardinality(ContributingGenders(f)) = 1
                        THEN CHOOSE g \in ContributingGenders(f) : TRUE ELSE None
    BY <2>2 DEF WholeFamily
  <2>4. v.gender \in Genders \cup {None}
    <3>1. ContributingGenders(f) \in SUBSET Genders
      BY MembersOfCast
    <3>2. IsFiniteSet(ContributingGenders(f))
      BY <3>1, FS_Subset, FamiliesAssumption
    <3>3. Cardinality(ContributingGenders(f)) = 1 => ContributingGenders(f) # {}
      BY <3>2, FS_EmptySet
    <3> QED
      BY <2>3, <3>1, <3>3
  <2>5. ASSUME NEW d \in v.dialogues
        PROVE  Suits(v, d) /\ \E i \in Members(f) : d \in Resolved(characters[i])
    <3>1. d \in UNION {Resolved(characters[i]) : i \in Members(f)}
      BY <2>3 DEF VoiceDialogues
    <3> QED
      BY <2>3, <3>1 DEF Suits
  <2>6. IsFiniteSet(VoicesOf(f)) /\ \A w \in VoicesOf(f) : w = v
    BY <2>1, <2>2, FS_Singleton
  <2>7. v.id[1] = f /\ v.id[2] = None /\ v.id = <<f, v.id[2]>>
    BY <2>3
  <2>8. v.members \in SUBSET DOMAIN characters
    BY <1>1, <2>3
  <2> QED
    BY <2>4, <2>5, <2>6, <2>7, <2>8
<1> QED
  BY <1>3, <1>4, <1>5

(* What is built is Published.                                             *)
LEMMA BuiltIsPublished ==
  ASSUME characters \in Seq(Character), voices = BuiltVoices
  PROVE  Published
<1>1. \A v \in voices : v.id[1] \in Families /\ v \in VoicesOf(v.id[1])
  <2> SUFFICES ASSUME NEW v \in voices
               PROVE  v.id[1] \in Families /\ v \in VoicesOf(v.id[1])
    OBVIOUS
  <2>1. PICK f \in Families : v \in VoiceFamily(f)
    BY DEF BuiltVoices
  <2>2. v \in VoicesOf(f)
    BY <2>1, VoicesAreBuilt
  <2>3. v.id[1] = f
    BY <2>2 DEF VoicesOf
  <2> QED
    BY <2>2, <2>3
<1>2. IsFiniteSet(voices)
  <2> DEFINE parts == {VoicesOf(f) : f \in Families}
             part == [f \in Families |-> VoicesOf(f)]
  <2>1. part \in Surjection(Families, parts)
    BY DEF Surjection
  <2>2. IsFiniteSet(parts)
    BY <2>1, FiniteImage, FamiliesAssumption
  <2>3. \A S \in parts : IsFiniteSet(S)
    BY FamilyIsPublished
  <2>4. IsFiniteSet(UNION parts)
    BY <2>2, <2>3, FS_UNION
  <2>5. voices = UNION parts
    BY <1>1 DEF VoicesOf
  <2> QED
    BY <2>4, <2>5
<1>3. \A v \in voices : v.members # {}
  BY <1>1, ShapeOfFamilies DEF FamilyShape
<1>4. ASSUME NEW v \in voices
      PROVE  /\ v.id[1] \in Families /\ v.id[2] \in Genders \cup {None} /\ v.id = <<v.id[1], v.id[2]>>
             /\ v.gender \in Genders \cup {None}
             /\ v.members \in SUBSET DOMAIN characters /\ v.members # {}
             /\ \A d \in v.dialogues :
                  /\ Suits(v, d) /\ \E i \in Members(v.id[1]) : d \in Resolved(characters[i])
                  /\ v.id[2] # None => d \in FamilyDialogues(v.id[1])
  <2>1. PICK f \in Families : f = v.id[1] /\ v \in VoicesOf(f)
    BY <1>1
  <2> QED
    BY <1>3, <2>1, FamilyIsPublished
<1>5. ASSUME NEW v \in voices, NEW w \in voices, v.id[1] = w.id[1], v.id[2] = None
      PROVE  w = v
  <2>1. PICK f \in Families : f = v.id[1] /\ v \in VoicesOf(f) /\ w \in VoicesOf(f)
    BY <1>1, <1>5
  <2> QED
    BY <1>5, <2>1, FamilyIsPublished
<1> QED
  BY <1>2, <1>4, <1>5 DEF Published

-----------------------------------------------------------------------------
(* The exported mod                                                        *)

Mods == [names : SUBSET TopNames, catalogs : SUBSET Asset, audio : SUBSET Recording]

(* The catalogs are of voices that attribution published, and have one     *)
(* entry for a text.                                                       *)
Sound(mod) ==
  /\ mod \in Mods
  /\ \A a \in mod.catalogs : \E v \in voices : v.id = a.voice
  /\ \A a, b \in mod.catalogs : a.voice = b.voice /\ a.text = b.text => a = b

(* What attribution left, which an export only reads.                      *)
Attributed ==
  /\ characters \in Seq(Character)
  /\ Published
  /\ FamilyShape
  /\ OneVoicePerSpeaker

(* What is at the destination is part of one whole export, and all of it   *)
(* unless an export died since while it removed it.                        *)
DestinationInv ==
  destination # None =>
    /\ Sound(destination)
    /\ Whole(exported)
    /\ PartOf(destination, exported)
    /\ torn \/ destination = exported

(* The inductive invariant: a draft is sound as soon as it is written and  *)
(* whole from the moment its audio is, so that what takes the place of the *)
(* destination is both; and what is removed for it was there, and is not   *)
(* what the user would have to remove.                                     *)
ExportInv ==
  /\ Attributed
  /\ recordings \in SUBSET Recording
  /\ pc \in {"idle", "audio", "clear", "replace"}
  /\ pc # "idle" => Sound(draft) /\ LooksLikeExport(draft) /\ Replaceable
  /\ pc \in {"clear", "replace"} => Whole(draft)
  /\ pc = "clear" => destination # None
  /\ DestinationInv

(* What attribution left stays, as long as nobody attributes again.        *)
LEMMA AttributedStays ==
  ASSUME Attributed, UNCHANGED <<characters, voices>>
  PROVE  Attributed'
<1>1. characters' = characters /\ voices' = voices
  OBVIOUS
<1>2. \A f : Members(f)' = Members(f)
  BY <1>1, Zenon DEF Members
<1>3. \A i : Resolved(characters[i])' = Resolved(characters[i])
  BY <1>1, Zenon DEF Resolved, Declared
<1>4. \A i : Spoken(characters[i])' = Spoken(characters[i])
  BY <1>1, <1>3, Zenon DEF Spoken, Resolved, Declared, HasText
<1>5. \A f, d : OwnerGenders(f, d)' = OwnerGenders(f, d)
  BY <1>1, <1>2, <1>4 DEF OwnerGenders
<1>6. \A f : FamilyDialogues(f)' = FamilyDialogues(f)
  BY <1>1, <1>2, <1>4 DEF FamilyDialogues
<1>7. \A f : VoicesOf(f)' = VoicesOf(f)
  BY <1>1, Zenon DEF VoicesOf
<1>8. \A v, d : Suits(v, d)' <=> Suits(v, d)
  BY <1>1, <1>5 DEF Suits
<1>9. Published'
  BY <1>1, <1>2, <1>3, <1>6, <1>8 DEF Attributed, Published
<1>10. FamilyShape'
  BY <1>7 DEF Attributed, FamilyShape
<1>11. OneVoicePerSpeaker'
  BY <1>2, <1>4, <1>6, <1>7 DEF Attributed, OneVoicePerSpeaker
<1> QED
  BY <1>1, <1>9, <1>10, <1>11 DEF Attributed

(* Of recordings with a text in common one becomes an asset, and no asset  *)
(* is of a voice that is not published.                                    *)
LEMMA AssetsAreSound ==
  ASSUME recordings \in SUBSET Recording
  PROVE  Sound([names |-> TopNames, catalogs |-> Assets, audio |-> {}])
<1> DEFINE mod == [names |-> TopNames, catalogs |-> Assets, audio |-> {}]
<1>1. ASSUME NEW a \in Assets
      PROVE  \E r \in Candidates :
               /\ \A t \in Candidates : SameContent(r, t) => r.line <= t.line
               /\ a = [voice |-> r.voice, text |-> LineOf[r.line].text, line |-> r.line]
  BY <1>1 DEF Assets
<1>2. \A r \in Candidates : r \in Recording /\ \E v \in voices : v.id = r.voice
  BY DEF Candidates, Owns
<1>3. \A r \in Recording : r.voice \in VoiceIds /\ r.line \in Lines /\ r.line \in Nat
  BY WorkloadsAssumption DEF Recording
<1>4. Assets \in SUBSET Asset
  BY <1>1, <1>2, <1>3 DEF Asset
<1>5. mod \in Mods
  BY <1>4 DEF Mods
<1>6. \A a \in Assets : \E v \in voices : v.id = a.voice
  BY <1>1, <1>2
<1>7. ASSUME NEW a \in Assets, NEW b \in Assets, a.voice = b.voice, a.text = b.text
      PROVE  a = b
  <2>1. PICK r \in Candidates :
          /\ \A t \in Candidates : SameContent(r, t) => r.line <= t.line
          /\ a = [voice |-> r.voice, text |-> LineOf[r.line].text, line |-> r.line]
    BY <1>1
  <2>2. PICK s \in Candidates :
          /\ \A t \in Candidates : SameContent(s, t) => s.line <= t.line
          /\ b = [voice |-> s.voice, text |-> LineOf[s.line].text, line |-> s.line]
    BY <1>1
  <2>3. SameContent(r, s) /\ SameContent(s, r)
    BY <1>7, <2>1, <2>2 DEF SameContent
  <2>4. r.line <= s.line /\ s.line <= r.line /\ r.line \in Nat /\ s.line \in Nat
    BY <1>2, <1>3, <2>1, <2>2, <2>3
  <2>5. r.line = s.line /\ r.voice = s.voice
    BY <1>7, <2>1, <2>2, <2>4
  <2> QED
    BY <2>1, <2>2, <2>5
<1> QED
  BY <1>5, <1>6, <1>7 DEF Sound

(* What a killed removal leaves is part of what was there, and as sound.   *)
LEMMA RemainsArePart ==
  ASSUME NEW mod, Sound(mod), NEW m \in Remains(mod)
  PROVE  Sound(m) /\ PartOf(m, mod)
<1>1. PICK names \in SUBSET mod.names, folder \in FolderRemains(mod) : m = Directory(names, folder)
  BY DEF Remains
<1>2. folder[1] \in SUBSET mod.catalogs /\ folder[2] \in SUBSET mod.audio
  <2>1. \A c \in Catalogs(mod) : c \in SUBSET mod.catalogs
    BY DEF Catalogs
  <2> QED
    BY <1>1, <2>1 DEF FolderRemains
<1>3. m.names = names /\ m.catalogs = folder[1] /\ m.audio = folder[2]
  BY <1>1 DEF Directory
<1>4. m \in Mods
  BY <1>1, <1>2 DEF Sound, Mods, Directory
<1> QED
  BY <1>1, <1>2, <1>3, <1>4 DEF Sound, PartOf

(* Part of a part is part.                                                 *)
LEMMA PartOfPart ==
  ASSUME NEW k, NEW m, NEW n, PartOf(k, m), PartOf(m, n)
  PROVE  PartOf(k, n)
BY DEF PartOf

(* What is sound or whole stays so, as long as nobody attributes again.    *)
LEMMA SoundStays ==
  ASSUME UNCHANGED voices
  PROVE  /\ draft' = draft => (Sound(draft)' <=> Sound(draft)) /\ (Whole(draft)' <=> Whole(draft))
         /\ UNCHANGED destinationVars => (DestinationInv' <=> DestinationInv)
<1>1. draft' = draft => (Sound(draft)' <=> Sound(draft)) /\ (Whole(draft)' <=> Whole(draft))
  BY DEF Sound, Whole, LooksLikeExport
<1>2. UNCHANGED destinationVars => (DestinationInv' <=> DestinationInv)
  BY DEF destinationVars, DestinationInv, Sound, Whole, LooksLikeExport, PartOf
<1> QED
  BY <1>1, <1>2

(* Every step keeps the inductive invariant.                               *)
LEMMA ExportSteps ==
  ASSUME ExportInv, ExportNext
  PROVE  ExportInv'
<1> USE DEF ExportInv
<1>1. CASE StartExport
  <2>1. UNCHANGED <<characters, voices, recordings, destinationVars>> /\ pc' = "audio" /\ Replaceable
    BY <1>1 DEF StartExport
  <2>2. draft' = [names |-> TopNames, catalogs |-> Assets, audio |-> {}]
    BY <1>1 DEF StartExport
  <2>3. Sound([names |-> TopNames, catalogs |-> Assets, audio |-> {}])
    BY AssetsAreSound
  <2>4. Sound(draft)' /\ LooksLikeExport(draft)'
    BY <2>1, <2>2, <2>3 DEF Sound, LooksLikeExport
  <2>5. Replaceable'
    BY <2>1 DEF Replaceable, LooksLikeExport, destinationVars
  <2> QED
    BY <2>1, <2>4, <2>5, AttributedStays, SoundStays
<1>2. CASE WriteAudio
  <2>1. /\ UNCHANGED <<characters, voices, recordings, destinationVars>>
        /\ pc = "audio" /\ pc' = IF destination = None THEN "replace" ELSE "clear"
    BY <1>2 DEF WriteAudio
  <2>2. /\ {RecordingOf(a) : a \in draft.catalogs} \subseteq recordings
        /\ draft' = [draft EXCEPT !.audio = {RecordingOf(a) : a \in draft.catalogs} \cap recordings]
    BY <1>2 DEF WriteAudio, AudioPresent
  <2>3. Sound(draft) /\ LooksLikeExport(draft) /\ Replaceable
    BY <2>1
  <2>4. /\ draft'.names = draft.names
        /\ draft'.catalogs = draft.catalogs
        /\ draft'.audio = {RecordingOf(a) : a \in draft.catalogs}
        /\ draft' \in Mods
    BY <2>2, <2>3 DEF Sound, Mods
  <2>5. Sound(draft)' /\ Whole(draft)' /\ LooksLikeExport(draft)'
    BY <2>1, <2>3, <2>4 DEF Sound, Whole, LooksLikeExport
  <2>6. Replaceable' /\ (pc' = "clear" => destination' # None)
    BY <2>1, <2>3 DEF Replaceable, LooksLikeExport, destinationVars
  <2> QED
    BY <2>1, <2>5, <2>6, AttributedStays, SoundStays
<1>3. CASE RefuseAudio
  <2>1. UNCHANGED <<characters, voices, recordings, destinationVars>> /\ pc' = "idle"
    BY <1>3 DEF RefuseAudio
  <2> QED
    BY <2>1, AttributedStays, SoundStays
<1>4. CASE ClearDestination
  <2>1. /\ UNCHANGED <<characters, voices, recordings, draft>>
        /\ destination' = None /\ pc = "clear" /\ pc' = "replace"
    BY <1>4 DEF ClearDestination
  <2>2. DestinationInv' /\ Replaceable'
    BY <2>1 DEF DestinationInv, Replaceable
  <2>3. LooksLikeExport(draft)'
    BY <2>1 DEF LooksLikeExport
  <2> QED
    BY <2>1, <2>2, <2>3, AttributedStays, SoundStays
<1>5. CASE ReplaceDestination
  <2>1. /\ UNCHANGED <<characters, voices, recordings>> /\ pc = "replace" /\ pc' = "idle"
        /\ destination' = draft /\ exported' = draft
    BY <1>5 DEF ReplaceDestination
  <2>2. Sound(draft) /\ Whole(draft)
    BY <2>1
  <2>3. DestinationInv'
    BY <2>1, <2>2 DEF DestinationInv, Sound, Whole, LooksLikeExport, PartOf
  <2> QED
    BY <2>1, <2>3, AttributedStays
<1>6. CASE DieInExport
  <2>1. /\ UNCHANGED <<characters, voices, recordings, exported>> /\ pc' = "idle"
        /\ \/ pc = "clear" /\ destination' \in Remains(destination) /\ torn'
           \/ UNCHANGED <<destination, torn>>
    BY <1>6 DEF DieInExport
  <2>2. CASE UNCHANGED <<destination, torn>>
    <3>1. UNCHANGED destinationVars
      BY <2>1, <2>2 DEF destinationVars
    <3> QED
      BY <2>1, <3>1, AttributedStays, SoundStays
  <2>3. CASE pc = "clear" /\ destination' \in Remains(destination) /\ torn'
    <3>1. Sound(destination) /\ Whole(exported) /\ PartOf(destination, exported)
      BY <2>3 DEF DestinationInv
    <3>2. \A m \in Remains(destination) : Sound(m) /\ PartOf(m, destination)
      BY <3>1, RemainsArePart
    <3>3. \A m \in Remains(destination) : Sound(m) /\ PartOf(m, exported)
      BY <3>1, <3>2, PartOfPart
    <3>4. DestinationInv'
      BY <2>1, <2>3, <3>1, <3>3 DEF DestinationInv, Sound, Whole, LooksLikeExport, PartOf
    <3> QED
      BY <2>1, <3>4, AttributedStays
  <2> QED
    BY <2>1, <2>2, <2>3
<1>7. CASE RemoveRemains
  <2>1. /\ UNCHANGED <<characters, voices, recordings, pc, draft>>
        /\ destination' = None /\ ~Replaceable
    BY <1>7 DEF RemoveRemains
  <2>2. pc = "idle" /\ DestinationInv'
    BY <2>1 DEF DestinationInv
  <2> QED
    BY <2>1, <2>2, AttributedStays
<1>8. CASE (\E r \in Recording : Record(r)) \/ (\E voice \in VoiceIds : DeleteRecordings(voice))
  <2>1. /\ UNCHANGED <<characters, voices, pc, draft, destinationVars>>
        /\ recordings' \in SUBSET Recording
    BY <1>8 DEF Record, DeleteRecordings
  <2>2. /\ LooksLikeExport(draft)' <=> LooksLikeExport(draft)
        /\ Replaceable' <=> Replaceable
        /\ destination' = destination
    BY <2>1 DEF LooksLikeExport, Replaceable, destinationVars
  <2> QED
    BY <2>1, <2>2, AttributedStays, SoundStays
<1> QED
  BY <1>1, <1>2, <1>3, <1>4, <1>5, <1>6, <1>7, <1>8 DEF ExportNext

(* An export never leaves the inductive invariant.                         *)
THEOREM Exports == ExportSpec => []ExportInv
<1>1. ExportInit => ExportInv
  <2> SUFFICES ASSUME ExportInit PROVE ExportInv
    OBVIOUS
  <2>1. /\ characters \in Seq(Character) /\ voices = BuiltVoices
        /\ recordings \in SUBSET Recording /\ pc = "idle" /\ destination = None
    BY DEF ExportInit
  <2>2. Attributed
    BY <2>1, BuiltIsPublished, ShapeOfFamilies, SpeakersHaveOneVoice DEF Attributed
  <2> QED
    BY <2>1, <2>2 DEF ExportInv, DestinationInv
<1>2. ExportInv /\ [ExportNext]_exportVars => ExportInv'
  <2> SUFFICES ASSUME ExportInv, [ExportNext]_exportVars PROVE ExportInv'
    OBVIOUS
  <2>1. CASE ExportNext
    BY <2>1, ExportSteps
  <2>2. CASE UNCHANGED exportVars
    <3>1. UNCHANGED <<characters, voices, recordings, pc, draft, destinationVars>>
      BY <2>2 DEF exportVars
    <3>2. /\ LooksLikeExport(draft)' <=> LooksLikeExport(draft)
          /\ Replaceable' <=> Replaceable
          /\ destination' = destination
      BY <3>1 DEF LooksLikeExport, Replaceable, destinationVars
    <3> QED
      BY <3>1, <3>2, AttributedStays, SoundStays DEF ExportInv
  <2> QED
    BY <2>1, <2>2
<1> QED
  BY <1>1, <1>2, PTL DEF ExportSpec

(* Families have the shape that provisioning relies on, whatever the cast, *)
(* the campaigns' tables and the thresholds.                               *)
THEOREM FamiliesHaveTheirShape == ExportSpec => []FamilyShape
<1>1. ExportInv => FamilyShape
  BY DEF ExportInv, Attributed
<1> QED
  BY <1>1, Exports, PTL

(* Whatever the cast: a dialogue with text has, for each family that has a *)
(* speaker of it, exactly one voice, with all those speakers.              *)
THEOREM SpeakersAreHeard == ExportSpec => []OneVoicePerSpeaker
<1>1. ExportInv => OneVoicePerSpeaker
  BY DEF ExportInv, Attributed
<1> QED
  BY <1>1, Exports, PTL

(* Wherever exports die and whatever generate deletes meanwhile, what is   *)
(* at the destination is part of one export that has the audio of every    *)
(* entry of its catalogs, and all of it unless one died while removing it. *)
THEOREM ExportsAreWhole == ExportSpec => []ExportIsWhole
<1>1. ExportInv => ExportIsWhole
  BY DEF ExportInv, DestinationInv, ExportIsWhole
<1> QED
  BY <1>1, Exports, PTL

-----------------------------------------------------------------------------
(* The installer                                                           *)

(* One gender among finitely many, if it is alone, is all of them.         *)
LEMMA SoleGenderIsAll ==
  ASSUME characters \in Seq(Character), NEW f, NEW d
  PROVE  /\ GameGenders(f, d) \in SUBSET Genders
         /\ SoleGender(f, d) # {} => \E g \in Genders : GameGenders(f, d) = {g}
         /\ SoleGender(f, d) # {} <=> \E g : GameGenders(f, d) = {g}
         /\ SoleGender(f, d) # {} => SoleGender(f, d) = GameGenders(f, d)
<1>1. \A i \in DOMAIN characters : characters[i].gender \in Genders
  <2>1. \A i \in DOMAIN characters : characters[i] \in Character
    OBVIOUS
  <2> QED
    BY <2>1 DEF Character
<1>2. GameGenders(f, d) \in SUBSET Genders
  BY <1>1 DEF GameGenders
<1>3. IsFiniteSet(GameGenders(f, d))
  BY <1>2, FS_Subset, FamiliesAssumption
<1>4. Cardinality(GameGenders(f, d)) = 1 <=> \E g : GameGenders(f, d) = {g}
  BY <1>3, FS_Singleton
<1> QED
  BY <1>2, <1>4 DEF SoleGender

(* An asset's voice has no gender its speakers lack.                       *)
FitsSpeakers(a, l) ==
  \/ a.voice[2] \in {None, Neutral}
  \/ GameGenders(a.voice[1], LineOf[l].dialogue) = {a.voice[2]}

(* What is found for a line comes from the family that is asked, from its  *)
(* only voice, its neutral one, or that of the gender all speakers share.  *)
LEMMA FoundInOwnFamily ==
  ASSUME characters \in Seq(Character), NEW mod, NEW f, NEW l, NEW a \in Found(mod, f, l)
  PROVE  a \in mod.catalogs /\ a.voice[1] = f /\ FitsSpeakers(a, l)
<1> DEFINE d == LineOf[l].dialogue
<1>1. a \in Entries(mod, Primary(mod, f, d), LineOf[l].text) \/ a \in Entries(mod, Fallback(mod, f), LineOf[l].text)
  BY DEF Found
<1>2. /\ a \in mod.catalogs
      /\ a.voice \in Primary(mod, f, d) \/ a.voice \in Fallback(mod, f)
  BY <1>1 DEF Entries
<1>3. \A v \in Fallback(mod, f) : v = <<f, None>> \/ v = <<f, Neutral>>
  BY DEF Fallback
<1>4. \A v \in Primary(mod, f, d) :
        v \in Fallback(mod, f) \/ \E g \in SoleGender(f, d) : v = <<f, g>>
  BY DEF Primary
<1>5. \A g \in SoleGender(f, d) : GameGenders(f, d) = {g}
  BY SoleGenderIsAll
<1>6. CASE a.voice = <<f, None>> \/ a.voice = <<f, Neutral>>
  BY <1>2, <1>6 DEF FitsSpeakers
<1>7. CASE \E g \in SoleGender(f, d) : a.voice = <<f, g>>
  BY <1>2, <1>5, <1>7 DEF FitsSpeakers
<1> QED
  BY <1>2, <1>3, <1>4, <1>6, <1>7

(* No line is ever given a recording of a gender its speakers do not have. *)
THEOREM NoForeignGenders == ExportSpec => []NoForeignGender
<1>1. ASSUME characters \in Seq(Character)
      PROVE  NoForeignGender
  <2> SUFFICES ASSUME NEW l \in Lines, NEW a \in Installed(destination, l)
               PROVE  LET spoken == GameGenders(a.voice[1], LineOf[l].dialogue)
                      IN spoken # {} /\ (a.voice[2] \in {None, Neutral} \/ spoken = {a.voice[2]})
    BY DEF NoForeignGender
  <2>1. a \in Offers(destination, l)
    BY DEF Installed
  <2>2. PICK f : GameGenders(f, LineOf[l].dialogue) # {} /\ a \in Found(destination, f, l)
    BY <2>1 DEF Offers
  <2>3. \A mod : \A b \in Found(mod, f, l) : b.voice[1] = f /\ FitsSpeakers(b, l)
    BY <1>1, FoundInOwnFamily
  <2>4. a.voice[1] = f /\ FitsSpeakers(a, l)
    BY <2>2, <2>3
  <2> QED
    BY <2>2, <2>4 DEF FitsSpeakers
<1>2. ExportInv => NoForeignGender
  BY <1>1 DEF ExportInv, Attributed
<1> QED
  BY <1>2, Exports, PTL

(* Read by position or by the columns' names, the campaigns' tables let an *)
(* extracted character speak the same dialogues.                           *)
LEMMA PlayedAsResolved ==
  ASSUME NEW c \in Character, c.extracted
  PROVE  InGame(c) = Resolved(c)
<1> DEFINE banter == UNION {TableRows[t] : t \in BoundTables("INTERDIA")}
           party == UNION {TableRows[t] : t \in BoundTables("PDIALOG")}
<1>1. \A k \in banter : k.column \in {"FILE", "25FILE"}
  BY ExportAssumption DEF BanterColumns
<1>2. \A k \in party : k.column \in PartyColumns
  BY ExportAssumption
<1>3. \A k \in banter : PositionOf(k.column) \in {1, 2}
  BY <1>1 DEF PositionOf
<1>4. \A k \in party : PositionOf(k.column) \in {1, 2, 4, 5} <=>
        k.column \in {"POST_DIALOG_FILE", "JOIN_DIALOG_FILE", "25POST_DIALOG_FILE", "25JOIN_DIALOG_FILE"}
  BY <1>2 DEF PositionOf, PartyColumns
<1>5. \A k : k \in BanterLinks <=> k \in banter /\ k.target # None
  BY <1>1 DEF BanterLinks, Links
<1>6. \A k : k \in PartyDialogueLinks <=>
        k \in party /\ PositionOf(k.column) \in {1, 2, 4, 5} /\ k.target # None
  BY <1>4 DEF PartyDialogueLinks, Links
<1>7. \A d \in Dialogues : d # None
  BY FamiliesAssumption
<1>8. \A d \in Dialogues : d \in TableDialogues(c.deathVariable) <=>
        \E k \in CharacterLinks : k.deathVariable = c.deathVariable /\ k.target = d
  <2> SUFFICES ASSUME NEW d \in Dialogues
               PROVE  d \in TableDialogues(c.deathVariable) <=>
                        \E k \in CharacterLinks : k.deathVariable = c.deathVariable /\ k.target = d
    OBVIOUS
  <2>1. d \in TableDialogues(c.deathVariable) <=>
          \E k : /\ \/ k \in banter /\ PositionOf(k.column) \in {1, 2}
                    \/ k \in party /\ PositionOf(k.column) \in {1, 2, 4, 5}
                 /\ k.deathVariable = c.deathVariable /\ k.target = d
    BY DEF TableDialogues
  <2> HIDE DEF banter, party
  <2> QED
    BY <1>3, <1>5, <1>6, <1>7, <2>1 DEF CharacterLinks
<1> QED
  BY <1>7, <1>8 DEF InGame, Resolved, Declared

(* Lines are those of the dialogues' texts.                                *)
LEMMA LinesHaveTheTexts ==
  /\ \A l \in Lines :
       /\ LineOf[l].dialogue \in Dialogues /\ LineOf[l].text \in NpcTexts[LineOf[l].dialogue]
       /\ HasText(LineOf[l].dialogue)
  /\ \A d \in Dialogues : \A t \in NpcTexts[d] :
       \E l \in Lines : LineOf[l].dialogue = d /\ LineOf[l].text = t
<1>1. \A d \in Dialogues : \A t : t \in NpcTexts[d] <=>
        \E l \in Lines : LineOf[l].dialogue = d /\ LineOf[l].text = t
  BY WorkloadsAssumption
<1>2. \A l \in Lines : LineOf[l].dialogue \in Dialogues
  BY WorkloadsAssumption
<1>3. \A l \in Lines : LineOf[l].text \in NpcTexts[LineOf[l].dialogue]
  BY <1>1, <1>2
<1> QED
  BY <1>1, <1>2, <1>3 DEF HasText

(* So the game's files tell the genders of a line's speakers, as far as    *)
(* every CRE was extracted.                                                *)
LEMMA GendersAgree ==
  ASSUME characters \in Seq(Character), \A i \in DOMAIN characters : characters[i].extracted,
         NEW f \in Families, NEW l \in Lines
  PROVE  GameGenders(f, LineOf[l].dialogue) = OwnerGenders(f, LineOf[l].dialogue)
<1> DEFINE d == LineOf[l].dialogue
<1>1. HasText(d)
  BY LinesHaveTheTexts
<1>2. \A i \in DOMAIN characters : characters[i] \in Character
  OBVIOUS
<1>3. \A i \in DOMAIN characters : d \in InGame(characters[i]) <=> d \in Spoken(characters[i])
  BY <1>1, <1>2, PlayedAsResolved DEF Spoken
<1> HIDE DEF d
<1>4. {k \in DOMAIN characters : characters[k].family = f /\ d \in InGame(characters[k])} =
        {m \in Members(f) : d \in Spoken(characters[m])}
  BY <1>3 DEF Members
<1>5. GameGenders(f, d) = OwnerGenders(f, d)
  BY <1>4, Zenon DEF GameGenders, OwnerGenders
<1> QED
  BY <1>5 DEF d

AllExtracted == \A i \in DOMAIN characters : characters[i].extracted

(* The voice that attribution gave a line is the one whose catalog the     *)
(* installer asks first.                                                   *)
LEMMA OwnCatalogIsPrimary ==
  ASSUME Attributed, AllExtracted, NEW mod, Sound(mod), NEW l \in Lines, NEW v \in voices,
         LineOf[l].dialogue \in v.dialogues, HasCatalog(mod, v.id)
  PROVE  Primary(mod, v.id[1], LineOf[l].dialogue) = {v.id}
<1> DEFINE d == LineOf[l].dialogue
           f == v.id[1]
<1>1. /\ f \in Families /\ v.id[2] \in Genders \cup {None} /\ v.id = <<f, v.id[2]>> /\ Suits(v, d)
      /\ \A w \in voices : f = w.id[1] /\ w.id[2] = None => v = w
  BY DEF Attributed, Published
<1>2. GameGenders(f, d) = OwnerGenders(f, d)
  BY <1>1, GendersAgree DEF Attributed, AllExtracted
<1>3. /\ SoleGender(f, d) # {} => \E g \in Genders : GameGenders(f, d) = {g}
      /\ SoleGender(f, d) # {} <=> \E g : GameGenders(f, d) = {g}
      /\ SoleGender(f, d) # {} => SoleGender(f, d) = GameGenders(f, d)
  BY SoleGenderIsAll DEF Attributed
<1>4. \A id : HasCatalog(mod, id) => \E w \in voices : w.id = id
  BY DEF HasCatalog, Sound
<1>5. None \notin Genders
  BY FamiliesAssumption
<1> HIDE DEF d, f
<1>6. CASE v.id[2] = None
  <2>1. HasCatalog(mod, <<f, None>>) /\ v.id = <<f, None>>
    BY <1>1, <1>6
  <2> QED
    BY <2>1 DEF Primary, Fallback, d, f
<1>7. CASE v.id[2] # None
  <2>1. ~HasCatalog(mod, <<f, None>>)
    <3> SUFFICES ASSUME HasCatalog(mod, <<f, None>>) PROVE FALSE
      OBVIOUS
    <3>1. PICK w \in voices : w.id = <<f, None>>
      BY <1>4
    <3> QED
      BY <1>1, <1>7, <3>1
  <2>2. v.id = <<f, v.id[2]>> /\ HasCatalog(mod, <<f, v.id[2]>>)
    BY <1>1
  <2>3. CASE OwnerGenders(f, d) = {v.id[2]}
    <3>1. SoleGender(f, d) = {v.id[2]}
      BY <1>2, <1>3, <2>3
    <3>2. {c \in {<<f, g>> : g \in SoleGender(f, d)} : HasCatalog(mod, c)} = {v.id}
      BY <2>2, <3>1
    <3> QED
      BY <2>1, <3>2 DEF Primary, d, f
  <2>4. CASE OwnerGenders(f, d) # {v.id[2]}
    <3>1. /\ v.id = <<f, Neutral>>
          /\ \A h \in Genders \ {Neutral} :
               OwnerGenders(f, d) = {h} => \A w \in voices : w.id # <<f, h>>
      BY <1>1, <1>7, <2>4 DEF Suits, f
    <3>2. \A g \in SoleGender(f, d) : g # Neutral /\ ~HasCatalog(mod, <<f, g>>)
      <4> SUFFICES ASSUME NEW g \in SoleGender(f, d)
                   PROVE  g # Neutral /\ ~HasCatalog(mod, <<f, g>>)
        OBVIOUS
      <4>1. g \in Genders /\ OwnerGenders(f, d) = {g}
        BY <1>2, <1>3
      <4>2. g # Neutral
        BY <2>4, <3>1, <4>1
      <4> QED
        BY <1>4, <3>1, <4>1, <4>2
    <3>3. {c \in {<<f, g>> : g \in SoleGender(f, d)} : HasCatalog(mod, c)} = {}
      BY <3>2
    <3>4. Fallback(mod, f) = {<<f, Neutral>>}
      BY <2>1, <3>1 DEF Fallback
    <3> QED
      BY <3>1, <3>3, <3>4 DEF Primary, d, f
  <2> QED
    BY <2>3, <2>4
<1> QED
  BY <1>6, <1>7

(* And what is found there is one recording.                               *)
LEMMA OwnCatalogIsFound ==
  ASSUME Attributed, AllExtracted, NEW mod, Sound(mod), NEW l \in Lines, NEW v \in voices,
         LineOf[l].dialogue \in v.dialogues, NEW a \in Entries(mod, {v.id}, LineOf[l].text)
  PROVE  /\ \A b \in Entries(mod, {v.id}, LineOf[l].text) : b = a
         /\ Found(mod, v.id[1], l) = Entries(mod, {v.id}, LineOf[l].text)
<1>1. a \in mod.catalogs /\ a.voice = v.id /\ a.text = LineOf[l].text
  BY DEF Entries
<1>2. Entries(mod, {v.id}, LineOf[l].text) = {a}
  BY <1>1 DEF Sound, Entries
<1>3. HasCatalog(mod, v.id)
  BY <1>1 DEF HasCatalog
<1>4. Primary(mod, v.id[1], LineOf[l].dialogue) = {v.id}
  BY <1>3, OwnCatalogIsPrimary
<1> QED
  BY <1>2, <1>4 DEF Found

(* An offer comes from the family whose voice it is of.                    *)
LEMMA OffersByFamily ==
  ASSUME characters \in Seq(Character), NEW mod, NEW l
  PROVE  \A a : a \in Offers(mod, l) <=>
           \E f \in PackagedFamilies(mod) :
             GameGenders(f, LineOf[l].dialogue) # {} /\ a \in Found(mod, f, l) /\ a.voice[1] = f
<1>1. \A f : \A a \in Found(mod, f, l) : a.voice[1] = f
  BY FoundInOwnFamily
<1> QED
  BY <1>1 DEF Offers

(* A line whose text is in the catalog of its voice gets that recording,   *)
(* unless another family offers one.                                       *)
LEMMA OwnCatalogIsInstalled ==
  ASSUME Attributed, AllExtracted, NEW mod, Sound(mod), NEW l \in Lines, NEW v \in voices,
         LineOf[l].dialogue \in v.dialogues, NEW a \in Entries(mod, {v.id}, LineOf[l].text),
         \A b \in Offers(mod, l) : b.voice[1] = v.id[1]
  PROVE  Installed(mod, l) = Entries(mod, {v.id}, LineOf[l].text)
<1> DEFINE d == LineOf[l].dialogue
           f == v.id[1]
           own == Entries(mod, {v.id}, LineOf[l].text)
<1>1. Found(mod, f, l) = own /\ \A b \in own : b = a
  BY OwnCatalogIsFound
<1>2. a \in mod.catalogs /\ a.voice[1] = f
  BY DEF Entries
<1>3. f \in PackagedFamilies(mod)
  BY <1>2 DEF PackagedFamilies
<1>4. f \in Families /\ \E i \in Members(f) : d \in Resolved(characters[i])
  BY DEF Attributed, Published
<1>5. GameGenders(f, d) # {}
  <2>1. PICK i \in DOMAIN characters :
          characters[i].extracted /\ characters[i].family = f /\ d \in Resolved(characters[i])
    BY <1>4 DEF Members
  <2>2. characters[i] \in Character
    BY DEF Attributed
  <2>3. d \in InGame(characters[i])
    BY <2>1, <2>2, PlayedAsResolved
  <2> QED
    BY <2>1, <2>3 DEF GameGenders
<1>6. \A b : b \in Offers(mod, l) <=>
        \E g \in PackagedFamilies(mod) : GameGenders(g, d) # {} /\ b \in Found(mod, g, l) /\ b.voice[1] = g
  BY OffersByFamily DEF Attributed
<1>7. a \in Offers(mod, l)
  BY <1>1, <1>2, <1>3, <1>5, <1>6
<1>8. \A b \in Offers(mod, l) : b = a
  BY <1>1, <1>6
<1>9. Offers(mod, l) = {a} /\ own = {a}
  BY <1>1, <1>7, <1>8
<1> QED
  BY <1>9, FS_Singleton DEF Installed

(* The installer agrees with attribution.                                  *)
LEMMA InstallerAgrees ==
  ASSUME ExportInv
  PROVE  InstalledAsAttributed
<1> SUFFICES ASSUME Installable, AllExtracted, NEW l \in Lines, NEW v \in voices,
                    LineOf[l].dialogue \in v.dialogues
             PROVE  LET own == Entries(destination, {v.id}, LineOf[l].text)
                        others == {a \in Offers(destination, l) : a.voice[1] # v.id[1]}
                    IN /\ (\A w \in Workload(v.id) : \E a \in destination.catalogs :
                             a.voice = v.id /\ a.text = LineOf[w].text)
                          => own # {}
                       /\ own # {} =>
                            /\ own = Found(destination, v.id[1], l)
                            /\ others = {} => Installed(destination, l) = own
  BY DEF InstalledAsAttributed, AllExtracted
<1> DEFINE own == Entries(destination, {v.id}, LineOf[l].text)
<1>1. Attributed /\ Sound(destination)
  BY DEF ExportInv, DestinationInv, Installable
<1>2. ASSUME \A w \in Workload(v.id) : \E a \in destination.catalogs :
               a.voice = v.id /\ a.text = LineOf[w].text
      PROVE  own # {}
  <2>1. l \in VoiceLines(v.id)
    BY DEF VoiceLines
  <2>2. PICK w \in Workload(v.id) : LineOf[w].text = LineOf[l].text
    BY <2>1, AllTextsAreHeard DEF Heard, Workload
  <2> QED
    BY <1>2, <2>2 DEF Entries
<1>3. ASSUME own # {}
      PROVE  own = Found(destination, v.id[1], l)
  <2>1. PICK a : a \in own
    BY <1>3
  <2> QED
    BY <1>1, <2>1, OwnCatalogIsFound
<1>4. ASSUME own # {}, \A b \in Offers(destination, l) : b.voice[1] = v.id[1]
      PROVE  Installed(destination, l) = own
  <2>1. PICK a : a \in own
    BY <1>4
  <2> QED
    BY <1>1, <1>4, <2>1, OwnCatalogIsInstalled
<1> QED
  BY <1>2, <1>3, <1>4

(* When every CRE was extracted, the installer gives a line what           *)
(* attribution meant it to have (_INSTALL_TPA, _voice_family,              *)
(* round_robin_lines).                                                     *)
THEOREM InstallerAgreesWithAttribution == ExportSpec => []InstalledAsAttributed
<1>1. ExportInv => InstalledAsAttributed
  BY InstallerAgrees
<1> QED
  BY <1>1, Exports, PTL

-----------------------------------------------------------------------------
(* The generic profiles of sparse voices                                   *)

(* A voice has a representative, and its race is one.                      *)
LEMMA RepresentativeIsMember ==
  ASSUME Attributed, NEW v \in voices
  PROVE  /\ Representative(v) \in v.members
         /\ RaceOf(v) \in Races
         /\ Evidence(v).gender \in Genders
<1>1. /\ v.members \in SUBSET DOMAIN characters /\ v.members # {}
      /\ v.gender \in Genders \cup {None}
  BY DEF Attributed, Published
<1>2. /\ IsFiniteSet(DOMAIN characters) /\ DOMAIN characters \subseteq Nat
      /\ \A i \in DOMAIN characters : characters[i] \in Character
  <2>1. characters \in Seq(Character)
    BY DEF Attributed
  <2>2. /\ Len(characters) \in Nat /\ DOMAIN characters = 1..Len(characters)
        /\ \A i \in DOMAIN characters : characters[i] \in Character
    BY <2>1
  <2> QED
    BY <2>2, FS_Interval
<1>3. IsFiniteSet(v.members) /\ \A i \in v.members : i \in Nat
  BY <1>1, <1>2, FS_Subset
<1>4. \A i : Alike(v, i) \in Nat
  <2>1. \A i : {j \in v.members : Metadata(j) = Metadata(i)} \in SUBSET v.members
    OBVIOUS
  <2> QED
    BY <1>3, <2>1, FS_Subset, FS_CardinalityType DEF Alike
<1>5. \A i \in v.members : characters[i].named \in BOOLEAN
  BY <1>1, <1>2 DEF Character
<1> DEFINE R == {p \in v.members \X v.members : Preferred(v, p[1], p[2])}
<1>6. \A i, j \in v.members : <<i, j>> \in R <=> Preferred(v, i, j)
  OBVIOUS
<1> HIDE DEF R
<1>7. Ordering(v.members, R)
  <2>1. \A i \in v.members : ~Preferred(v, i, i)
    BY <1>3, <1>4 DEF Preferred
  <2>2. ASSUME NEW i \in v.members, NEW j \in v.members, NEW k \in v.members,
               Preferred(v, i, j), Preferred(v, j, k)
        PROVE  Preferred(v, i, k)
    BY <1>3, <1>4, <1>5, <2>2 DEF Preferred
  <2>3. ASSUME NEW i \in v.members, NEW j \in v.members, i # j
        PROVE  Preferred(v, i, j) \/ Preferred(v, j, i)
    BY <1>3, <1>4, <1>5, <2>3 DEF Preferred
  <2> QED
    BY <1>6, <2>1, <2>2, <2>3 DEF Ordering
<1>8. \E i \in v.members : \A j \in v.members \ {i} : Preferred(v, i, j)
  <2>1. \E i \in v.members : \A j \in v.members \ {i} : <<i, j>> \in R
    BY <1>1, <1>3, <1>7, FirstOfOrder
  <2> QED
    BY <1>6, <2>1
<1>9. Representative(v) \in v.members
  BY <1>8 DEF Representative
<1>10. characters[Representative(v)] \in Character
  BY <1>1, <1>2, <1>9
<1> QED
  BY <1>1, <1>9, <1>10 DEF RaceOf, Evidence, Character

(* Of the races of sparse voices, the named ones are the first of the      *)
(* commonest.                                                              *)
LEMMA CommonestAreFirst ==
  ASSUME Attributed, NEW races \in SUBSET SparseRaces
  PROVE  /\ IsFiniteSet(Commonest(races)) /\ Cardinality(Commonest(races)) <= NamedRaceCount
         /\ \A lost \in races \ Commonest(races) :
              /\ Cardinality(Commonest(races)) = NamedRaceCount
              /\ \A race \in Commonest(races) : RaceCount(race) >= RaceCount(lost)
<1>1. IsFiniteSet(SparseVoices) /\ SparseVoices \subseteq voices
  <2>1. SparseVoices \in SUBSET voices
    BY DEF SparseVoices
  <2> QED
    BY <2>1, FS_Subset DEF Attributed, Published
<1>2. \A r : RaceCount(r) \in Nat
  <2>1. \A r : {v \in SparseVoices : RaceOf(v) = r} \in SUBSET SparseVoices
    OBVIOUS
  <2> QED
    BY <1>1, <2>1, FS_Subset, FS_CardinalityType DEF RaceCount
<1>3. \A r \in races : r \in Nat
  BY <1>1, RepresentativeIsMember, WorkloadsAssumption DEF SparseRaces
<1>4. IsFiniteSet(races)
  <2> DEFINE race == [v \in SparseVoices |-> RaceOf(v)]
  <2>1. race \in Surjection(SparseVoices, SparseRaces)
    BY DEF Surjection, SparseRaces
  <2> QED
    BY <1>1, <2>1, FiniteImage, FS_Subset
<1> DEFINE R == {p \in races \X races : MoreCommon(p[1], p[2])}
           k == NamedRaceCount
<1>5. \A r, s \in races : <<r, s>> \in R <=> MoreCommon(r, s)
  OBVIOUS
<1> HIDE DEF R
<1>6. Ordering(races, R)
  <2>1. \A r \in races : ~MoreCommon(r, r)
    BY <1>2, <1>3 DEF MoreCommon
  <2>2. \A r, s, t \in races : MoreCommon(r, s) /\ MoreCommon(s, t) => MoreCommon(r, t)
    BY <1>2, <1>3 DEF MoreCommon
  <2>3. \A r, s \in races : r # s => MoreCommon(r, s) \/ MoreCommon(s, r)
    BY <1>2, <1>3 DEF MoreCommon
  <2> QED
    BY <1>5, <2>1, <2>2, <2>3 DEF Ordering
<1>7. \A r \in races : Below(races, R, r) = {s \in races : MoreCommon(s, r)}
  BY <1>5 DEF Below
<1>8. \A r \in races : Rank(races, R)[r] = Cardinality({s \in races : MoreCommon(s, r)})
  BY <1>7 DEF Rank
<1>9. Commonest(races) = {r \in races : Rank(races, R)[r] < k}
  BY <1>8 DEF Commonest
<1>10. k \in Nat
  BY WorkloadsAssumption
<1>11. /\ Cardinality(races) \in Nat
       /\ Rank(races, R) \in Bijection(races, 0..(Cardinality(races) - 1))
  BY <1>4, <1>6, RankNumbers
<1>12. Cardinality(Commonest(races)) = IF k <= Cardinality(races) THEN k ELSE Cardinality(races)
  BY <1>4, <1>6, <1>9, <1>10, FirstFew
<1>13. IsFiniteSet(Commonest(races))
  <2>1. Commonest(races) \in SUBSET races
    BY <1>9
  <2> QED
    BY <1>4, <2>1, FS_Subset
<1>14. ASSUME NEW lost \in races \ Commonest(races)
       PROVE  /\ Cardinality(Commonest(races)) = k
              /\ \A race \in Commonest(races) : RaceCount(race) >= RaceCount(lost)
  <2>1. /\ Rank(races, R)[lost] \in 0..(Cardinality(races) - 1)
        /\ ~(Rank(races, R)[lost] < k)
    BY <1>9, <1>11 DEF Bijection, Injection, Surjection
  <2>2. Cardinality(Commonest(races)) = k
    BY <1>10, <1>11, <1>12, <2>1
  <2>3. ASSUME NEW race \in Commonest(races), ~(RaceCount(race) >= RaceCount(lost))
        PROVE  FALSE
    <3>1. race \in races /\ Rank(races, R)[race] < k
      BY <1>9
    <3>2. <<lost, race>> \in R
      BY <1>2, <1>5, <2>3, <3>1 DEF MoreCommon
    <3>3. Below(races, R, lost) \in SUBSET Below(races, R, race)
      BY <1>6, <3>1, <3>2 DEF Ordering, Below
    <3>4. IsFiniteSet(Below(races, R, race))
      <4>1. Below(races, R, race) \in SUBSET races
        BY DEF Below
      <4> QED
        BY <1>4, <4>1, FS_Subset
    <3>5. Rank(races, R)[lost] <= Rank(races, R)[race]
      BY <3>1, <3>3, <3>4, FS_Subset DEF Rank
    <3>6. Rank(races, R)[race] \in Nat /\ Rank(races, R)[lost] \in Nat
      <4>1. 0..(Cardinality(races) - 1) \subseteq Nat
        BY <1>11
      <4> QED
        BY <1>11, <3>1, <4>1 DEF Bijection, Injection, Surjection
    <3> QED
      BY <1>10, <2>1, <3>1, <3>5, <3>6
  <2> QED
    BY <2>2, <2>3
<1> QED
  BY <1>10, <1>11, <1>12, <1>13, <1>14

(* The races that profiles have are the named ones.                        *)
LEMMA RacesOfProfiles ==
  ASSUME Attributed
  PROVE  /\ {p.race : p \in {GenericProfile(v) : v \in SparseVoices}} \ {None} = NamedRaces
         /\ \A v \in SparseVoices :
              GenericProfile(v) \in [gender : Genders, race : NamedRaces \cup {None}]
<1>1. \A v \in SparseVoices : RaceOf(v) \in Races /\ RaceOf(v) # None /\ Evidence(v).gender \in Genders
  BY RepresentativeIsMember, FamiliesAssumption, WorkloadsAssumption DEF SparseVoices
<1>2. \A v : Evidence(v) = [gender |-> Evidence(v).gender, race |-> RaceOf(v)]
  BY DEF Evidence
<1>3. ASSUME NEW v \in SparseVoices
      PROVE  GenericProfile(v) =
               [gender |-> Evidence(v).gender,
                race |-> IF RaceOf(v) \in NamedRaces THEN RaceOf(v) ELSE None]
  <2>1. GenericProfile(v) = [Evidence(v) EXCEPT !.race = IF @ \in NamedRaces THEN @ ELSE None]
    BY DEF GenericProfile
  <2> QED
    BY <1>2, <2>1
<1>4. \A r \in NamedRaces : \E v \in SparseVoices : RaceOf(v) = r
  BY DEF NamedRaces, Commonest, SparseRaces
<1>5. \A v \in SparseVoices : GenericProfile(v) \in [gender : Genders, race : NamedRaces \cup {None}]
  BY <1>1, <1>3
<1>6. \A v \in SparseVoices :
        GenericProfile(v).race = IF RaceOf(v) \in NamedRaces THEN RaceOf(v) ELSE None
  BY <1>3
<1>7. \A r : r \in {p.race : p \in {GenericProfile(v) : v \in SparseVoices}} <=>
             \E v \in SparseVoices : r = GenericProfile(v).race
  OBVIOUS
<1> QED
  BY <1>1, <1>4, <1>5, <1>6, <1>7

(* As many profiles as genders and races' names, and one without, allow.   *)
LEMMA ProfilesAreFew ==
  ASSUME NEW races, IsFiniteSet(races), NEW k \in Nat, Cardinality(races) <= k,
         NEW profiles \in SUBSET [gender : Genders, race : races \cup {None}]
  PROVE  Cardinality(profiles) <= Cardinality(Genders) * (k + 1)
<1> DEFINE some == races \cup {None}
           all == [gender : Genders, race : some]
           pair == [p \in Genders \X some |-> [gender |-> p[1], race |-> p[2]]]
<1>1. IsFiniteSet(some) /\ Cardinality(some) \in Nat /\ Cardinality(some) <= k + 1
  <2>1. Cardinality(races) \in Nat
    BY FS_CardinalityType
  <2>2. IsFiniteSet(some) /\ Cardinality(some) = IF None \in races THEN Cardinality(races) ELSE Cardinality(races) + 1
    BY FS_AddElement
  <2> QED
    BY <2>1, <2>2
<1>2. IsFiniteSet(Genders) /\ Cardinality(Genders) \in Nat
  BY FamiliesAssumption, FS_CardinalityType
<1>3. /\ IsFiniteSet(Genders \X some)
      /\ Cardinality(Genders \X some) = Cardinality(Genders) * Cardinality(some)
  BY <1>1, <1>2, FS_Product
<1>4. pair \in Surjection(Genders \X some, all)
  <2>1. \A p \in Genders \X some : pair[p] \in all
    OBVIOUS
  <2>2. ASSUME NEW a \in all
        PROVE  \E p \in Genders \X some : pair[p] = a
    <3>1. <<a.gender, a.race>> \in Genders \X some /\ pair[<<a.gender, a.race>>] = a
      OBVIOUS
    <3> QED
      BY <3>1
  <2> QED
    BY <2>1, <2>2 DEF Surjection
<1>5. IsFiniteSet(all) /\ Cardinality(all) <= Cardinality(Genders) * Cardinality(some)
  BY <1>3, <1>4, FiniteImage
<1>6. Cardinality(profiles) <= Cardinality(all) /\ Cardinality(profiles) \in Nat /\ Cardinality(all) \in Nat
  BY <1>5, FS_Subset, FS_CardinalityType
<1>7. \A a, b, c \in Nat : b <= c => a * b <= a * c
  OBVIOUS
<1>8. Cardinality(Genders) * Cardinality(some) <= Cardinality(Genders) * (k + 1)
  BY <1>1, <1>2, <1>7
<1> QED
  BY <1>1, <1>2, <1>5, <1>6, <1>8

(* A race goes unnamed for want of room only, and profiles are few.        *)
THEOREM RacesAreNamedByNeed == ExportSpec => []RacesNamedByNeed
<1>1. ASSUME Attributed
      PROVE  RacesNamedByNeed
  <2> DEFINE profiles == {GenericProfile(v) : v \in SparseVoices}
             named == {p.race : p \in profiles} \ {None}
  <2>1. named = NamedRaces /\ profiles \in SUBSET [gender : Genders, race : NamedRaces \cup {None}]
    BY <1>1, RacesOfProfiles
  <2> HIDE DEF profiles, named
  <2>2. (SparseRaces \ OtherRaces) \in SUBSET SparseRaces
    OBVIOUS
  <2>3. /\ IsFiniteSet(NamedRaces) /\ Cardinality(NamedRaces) <= NamedRaceCount
        /\ \A lost \in (SparseRaces \ OtherRaces) \ NamedRaces :
             /\ Cardinality(NamedRaces) = NamedRaceCount
             /\ \A race \in NamedRaces : RaceCount(race) >= RaceCount(lost)
    BY <1>1, <2>2, CommonestAreFirst DEF NamedRaces
  <2>4. \A lost \in SparseRaces \ (named \cup OtherRaces) :
          /\ Cardinality(named) = NamedRaceCount
          /\ \A race \in named : RaceCount(race) >= RaceCount(lost)
    BY <2>1, <2>3
  <2>5. Cardinality(profiles) <= Cardinality(Genders) * (NamedRaceCount + 1)
    BY <2>1, <2>3, ProfilesAreFew, WorkloadsAssumption
  <2> QED
    BY <2>4, <2>5 DEF RacesNamedByNeed, RaceCount, profiles, named
<1>2. ExportInv => RacesNamedByNeed
  BY <1>1 DEF ExportInv
<1> QED
  BY <1>2, Exports, PTL

-----------------------------------------------------------------------------
(* What a run is asked for                                                 *)

(* Asking for a family gets all its voices, split or not.                  *)
LEMMA FamilyIsRequested ==
  ASSUME Attributed, NEW f \in Families
  PROVE  Requested(<<f, None>>) = VoicesOf(f)
<1>1. \A v \in voices : v.id = <<v.id[1], v.id[2]>>
  BY DEF Attributed, Published
<1>2. CASE RequestedExactly(<<f, None>>) = {}
  <2>1. \A v \in voices : <<f, None>> = <<v.id[1], None>> <=> v.id[1] = f
    OBVIOUS
  <2> QED
    BY <1>2, <2>1 DEF Requested, VoicesOf
<1>3. CASE RequestedExactly(<<f, None>>) # {}
  <2>1. PICK v \in voices : v.id = <<f, None>>
    BY <1>3 DEF RequestedExactly
  <2>2. v.id[1] = f /\ v.id[2] = None
    BY <2>1
  <2>3. \A w \in voices : w.id[1] = f => w = v
    BY <2>2 DEF Attributed, Published
  <2>4. \A w \in voices : w.id = <<f, None>> <=> w.id[1] = f
    BY <2>1, <2>2, <2>3
  <2> QED
    BY <1>3, <2>4 DEF Requested, RequestedExactly, VoicesOf
<1> QED
  BY <1>2, <1>3

(* The lines of a family's voices have the texts of its speakers.          *)
LEMMA VoicesSpeakTheirLines ==
  ASSUME Attributed, NEW f \in Families
  PROVE  /\ \A v \in VoicesOf(f) : \A l \in VoiceLines(v.id) :
              l \in Lines /\ LineOf[l].dialogue \in FamilyDialogues(f)
         /\ \A d \in FamilyDialogues(f) : \A t \in NpcTexts[d] :
              \E v \in VoicesOf(f) : \E l \in VoiceLines(v.id) : LineOf[l].text = t
         /\ FamilyDialogues(f) # {} => \A v \in VoicesOf(f) : VoiceLines(v.id) # {}
<1>1. \A d \in FamilyDialogues(f) : d \in Dialogues /\ NpcTexts[d] # {}
  <2>1. \A d \in FamilyDialogues(f) : \E i \in Members(f) :
          d \in Spoken(characters[i]) /\ d \in Resolved(characters[i]) /\ d \in Dialogues
    BY SpeakersResolve
  <2> QED
    BY <2>1 DEF Spoken, HasText
<1>2. \A v \in voices, d \in Dialogues, l \in Lines :
        LineOf[l].dialogue = d /\ d \in v.dialogues => l \in VoiceLines(v.id)
  BY DEF VoiceLines
<1>3. ASSUME NEW v \in VoicesOf(f), NEW l \in VoiceLines(v.id)
      PROVE  l \in Lines /\ LineOf[l].dialogue \in FamilyDialogues(f)
  <2> DEFINE d == LineOf[l].dialogue
  <2>1. PICK w \in voices : l \in Lines /\ w.id = v.id /\ d \in w.dialogues
    BY DEF VoiceLines
  <2>2. w.id[1] = f
    BY <2>1 DEF VoicesOf
  <2>3. PICK i \in Members(f) : d \in Resolved(characters[i])
    BY <2>1, <2>2 DEF Attributed, Published
  <2>4. d \in Spoken(characters[i])
    BY <2>1, <2>3, LinesHaveTheTexts DEF Spoken
  <2> QED
    BY <2>1, <2>3, <2>4, SpeakersResolve
<1>4. ASSUME NEW d \in FamilyDialogues(f), NEW t \in NpcTexts[d]
      PROVE  \E v \in VoicesOf(f) : \E l \in VoiceLines(v.id) : LineOf[l].text = t
  <2>1. PICK v \in VoicesOf(f) : d \in v.dialogues
    BY DEF Attributed, OneVoicePerSpeaker
  <2>2. PICK l \in Lines : LineOf[l].dialogue = d /\ LineOf[l].text = t
    BY <1>1, LinesHaveTheTexts
  <2>3. l \in VoiceLines(v.id)
    BY <1>1, <1>2, <2>1, <2>2 DEF VoicesOf
  <2> QED
    BY <2>2, <2>3
<1>5. ASSUME FamilyDialogues(f) # {}, NEW v \in VoicesOf(f)
      PROVE  VoiceLines(v.id) # {}
  <2>1. v \in voices /\ v.id[1] = f
    BY DEF VoicesOf
  <2>2. \E d \in v.dialogues : d \in FamilyDialogues(f)
    <3>1. CASE v.id[2] = None
      <4>1. PICK d : d \in FamilyDialogues(f)
        BY <1>5
      <4>2. PICK w \in VoicesOf(f) : d \in w.dialogues
        BY <4>1 DEF Attributed, OneVoicePerSpeaker
      <4>3. w = v
        BY <2>1, <3>1, <4>2 DEF Attributed, Published, VoicesOf
      <4> QED
        BY <4>1, <4>2, <4>3
    <3>2. CASE v.id[2] # None
      <4>1. v.dialogues # {}
        BY DEF Attributed, FamilyShape
      <4>2. \A d \in v.dialogues : d \in FamilyDialogues(f)
        BY <2>1, <3>2 DEF Attributed, Published
      <4> QED
        BY <4>1, <4>2
    <3> QED
      BY <3>1, <3>2
  <2>3. PICK d \in v.dialogues : d \in FamilyDialogues(f)
    BY <2>2
  <2>4. PICK t : t \in NpcTexts[d]
    BY <1>1, <2>3
  <2>5. PICK l \in Lines : LineOf[l].dialogue = d
    BY <1>1, <2>3, <2>4, LinesHaveTheTexts
  <2> QED
    BY <1>1, <1>2, <2>1, <2>3, <2>5
<1> QED
  BY <1>3, <1>4, <1>5

(* As many texts as lines, when no text is there twice.                    *)
LEMMA AsManyTextsAsLines ==
  ASSUME NEW selected \in Seq(Lines), NEW lines, Heard(selected, lines)
  PROVE  Cardinality({LineOf[l].text : l \in Range(selected)}) = Len(selected)
<1> DEFINE texts == {LineOf[l].text : l \in Range(selected)}
           text == [i \in 1..Len(selected) |-> LineOf[selected[i]].text]
<1>1. Len(selected) \in Nat /\ DOMAIN selected = 1..Len(selected)
  OBVIOUS
<1>2. text \in Bijection(1..Len(selected), texts)
  <2>1. \A i \in 1..Len(selected) : text[i] \in texts
    BY <1>1 DEF Range
  <2>2. \A t \in texts : \E i \in 1..Len(selected) : text[i] = t
    BY <1>1 DEF Range
  <2>3. \A i, j \in 1..Len(selected) : text[i] = text[j] => i = j
    BY <1>1 DEF Heard
  <2> HIDE DEF texts
  <2> QED
    BY <2>1, <2>2, <2>3 DEF Bijection, Injection, Surjection, IsInjective
<1> HIDE DEF text, texts
<1>3. ExistsBijection(1..Len(selected), texts)
  BY <1>2 DEF ExistsBijection
<1> QED
  BY <1>1, <1>3, FS_CountingElements DEF texts

(* A run that is asked for a family has a line for each text its speakers  *)
(* have, once within a voice; a limited one takes the first of them.       *)
LEMMA FamiliesAreHeard ==
  ASSUME Attributed
  PROVE  FamilyIsHeard
<1> SUFFICES ASSUME NEW f \in Families, VoicesOf(f) # {}, FamilyDialogues(f) # {}
             PROVE  LET all == Workloads({<<f, None>>}, None)
                        texts(w) == {LineOf[l].text : l \in Range(w.lines)}
                    IN /\ Loadable({<<f, None>>})
                       /\ UNION {texts(w) : w \in all} = TextsOf(FamilyDialogues(f))
                       /\ \A w \in all : Cardinality(texts(w)) = Len(w.lines)
                       /\ \A limit \in 1..Cardinality(Lines) : \A part \in Workloads({<<f, None>>}, limit) :
                            \E w \in all :
                              /\ part.voice = w.voice
                              /\ part.lines = SubSeq(w.lines, 1, Len(part.lines))
                              /\ Len(part.lines) = limit \/ part.lines = w.lines
  BY DEF FamilyIsHeard
<1> DEFINE Load(v, limit) == [voice |-> v.id, lines |-> RoundRobin(v.id, limit), profile |-> Evidence(v)]
           texts(w) == {LineOf[l].text : l \in Range(w.lines)}
           all == Workloads({<<f, None>>}, None)
<1>1. UNION {Requested(name) : name \in {<<f, None>>}} = VoicesOf(f)
  BY FamilyIsRequested
<1>2. \A limit, w : w \in Workloads({<<f, None>>}, limit) <=> \E v \in VoicesOf(f) : w = Load(v, limit)
  BY <1>1 DEF Workloads
<1>3. Loadable({<<f, None>>})
  BY FamilyIsRequested, VoicesSpeakTheirLines DEF Loadable
<1>4. \A v \in VoicesOf(f) : Heard(RoundRobin(v.id, None), VoiceLines(v.id))
  BY AllTextsAreHeard
<1>5. \A v \in VoicesOf(f) : texts(Load(v, None)) = {LineOf[l].text : l \in VoiceLines(v.id)}
  <2> SUFFICES ASSUME NEW v \in VoicesOf(f)
               PROVE  {LineOf[l].text : l \in Range(RoundRobin(v.id, None))} =
                        {LineOf[l].text : l \in VoiceLines(v.id)}
    OBVIOUS
  <2> QED
    BY <1>4 DEF Heard
<1>6. UNION {texts(w) : w \in all} = TextsOf(FamilyDialogues(f))
  <2>1. ASSUME NEW t
        PROVE  (\E w \in all : t \in texts(w)) <=> \E d \in FamilyDialogues(f) : t \in NpcTexts[d]
    <3>1. (\E w \in all : t \in texts(w)) <=> \E v \in VoicesOf(f) : \E l \in VoiceLines(v.id) : t = LineOf[l].text
      <4> HIDE DEF texts
      <4>1. (\E w \in all : t \in texts(w)) <=> \E v \in VoicesOf(f) : t \in texts(Load(v, None))
        BY <1>2
      <4> QED
        BY <1>5, <4>1
    <3>2. \A v \in VoicesOf(f) : \A l \in VoiceLines(v.id) :
            LineOf[l].dialogue \in FamilyDialogues(f) /\ LineOf[l].text \in NpcTexts[LineOf[l].dialogue]
      BY VoicesSpeakTheirLines, LinesHaveTheTexts
    <3>3. \A d \in FamilyDialogues(f) : \A u \in NpcTexts[d] :
            \E v \in VoicesOf(f) : \E l \in VoiceLines(v.id) : LineOf[l].text = u
      BY VoicesSpeakTheirLines
    <3>4. (\E v \in VoicesOf(f) : \E l \in VoiceLines(v.id) : t = LineOf[l].text)
            <=> \E d \in FamilyDialogues(f) : t \in NpcTexts[d]
      <4> HIDE DEF texts, all
      <4> QED
        BY <3>2, <3>3
    <3> QED
      BY <3>1, <3>4
  <2>2. \A t : t \in TextsOf(FamilyDialogues(f)) <=> \E d \in FamilyDialogues(f) : t \in NpcTexts[d]
    BY DEF TextsOf
  <2> HIDE DEF texts, all
  <2> QED
    BY <2>1, <2>2
<1>7. ASSUME NEW w \in all
      PROVE  Cardinality(texts(w)) = Len(w.lines)
  <2>1. PICK v \in VoicesOf(f) : w = Load(v, None)
    BY <1>2
  <2>2. RoundRobin(v.id, None) \in Seq(Lines)
    BY LimitsTakeTheFirst DEF Beginning
  <2>3. Cardinality({LineOf[l].text : l \in Range(RoundRobin(v.id, None))}) = Len(RoundRobin(v.id, None))
    BY <1>4, <2>2, AsManyTextsAsLines
  <2> QED
    BY <2>1, <2>3
<1>8. ASSUME NEW limit \in 1..Cardinality(Lines), NEW part \in Workloads({<<f, None>>}, limit)
      PROVE  \E w \in all :
               /\ part.voice = w.voice
               /\ part.lines = SubSeq(w.lines, 1, Len(part.lines))
               /\ Len(part.lines) = limit \/ part.lines = w.lines
  <2>1. PICK v \in VoicesOf(f) : part = Load(v, limit)
    BY <1>2
  <2> DEFINE few == RoundRobin(v.id, limit)
             whole == RoundRobin(v.id, None)
  <2>2. limit \in Nat \ {0}
    BY FS_CardinalityType, WorkloadsAssumption
  <2>3. Beginning(few, whole, limit)
    BY <2>2, LimitsTakeTheFirst
  <2> HIDE DEF few, whole
  <2>4. /\ few \in Seq(Lines) /\ whole \in Seq(Lines)
        /\ Len(few) = IF Len(whole) <= limit THEN Len(whole) ELSE limit
        /\ \A i \in 1..Len(few) : few[i] = whole[i]
    BY <2>3 DEF Beginning
  <2>5. few = SubSeq(whole, 1, Len(few))
    <3>1. Len(few) \in Nat /\ Len(whole) \in Nat /\ Len(few) <= Len(whole)
      BY <2>2, <2>4
    <3>2. /\ SubSeq(whole, 1, Len(few)) \in Seq(Lines)
          /\ Len(SubSeq(whole, 1, Len(few))) = Len(few)
          /\ \A i \in 1..Len(few) : SubSeq(whole, 1, Len(few))[i] = whole[i]
      BY <2>4, <3>1
    <3> QED
      BY <2>4, <3>2, SeqEqual
  <2>6. Len(few) = limit \/ few = whole
    <3>1. CASE Len(whole) <= limit
      BY <2>4, <3>1, SeqEqual
    <3>2. CASE ~(Len(whole) <= limit)
      BY <2>4, <3>2
    <3> QED
      BY <3>1, <3>2
  <2>7. Load(v, None) \in all
    BY <1>2
  <2>8. part.voice = Load(v, None).voice /\ part.lines = few /\ Load(v, None).lines = whole
    BY <2>1 DEF few, whole
  <2> QED
    BY <2>5, <2>6, <2>7, <2>8
<1> HIDE DEF all, texts
<1> QED
  BY <1>3, <1>6, <1>7, <1>8 DEF all, texts

(* Whatever the cast and its lines (load_workloads, round_robin_lines).    *)
THEOREM WhatFamiliesSayIsRun == ExportSpec => []FamilyIsHeard
<1>1. ExportInv => FamilyIsHeard
  BY FamiliesAreHeard DEF ExportInv
<1> QED
  BY <1>1, Exports, PTL

-----------------------------------------------------------------------------
(* Speaker proxies                                                         *)

(* Of some members one has the last name.                                  *)
LEMMA LastOfMembers ==
  ASSUME NEW members, IsFiniteSet(members), members \subseteq Nat, members # {}
  PROVE  Max(members) \in members
<1> DEFINE R == {p \in members \X members : p[1] > p[2]}
<1>1. \A i, j \in members : <<i, j>> \in R <=> i > j
  OBVIOUS
<1> HIDE DEF R
<1>2. Ordering(members, R)
  BY <1>1 DEF Ordering
<1>3. PICK i \in members : \A j \in members \ {i} : <<i, j>> \in R
  BY <1>2, FirstOfOrder
<1>4. ASSUME NEW j \in members
      PROVE  i >= j
  <2>1. i \in Nat /\ j \in Nat
    OBVIOUS
  <2>2. CASE j = i
    BY <2>1, <2>2
  <2>3. CASE j # i
    <3>1. i > j
      BY <1>1, <1>3, <2>3
    <3> QED
      BY <2>1, <3>1
  <2> QED
    BY <2>2, <2>3
<1> QED
  BY <1>4 DEF Max

(* A group has the tokens of its members.                                  *)
LEMMA TokensOfGroups ==
  /\ \A group, t : t \in GroupTokens(group) <=> \E i \in group : t \in Tokens(characters[i])
  /\ \A part, group : part \subseteq group => GroupTokens(part) \subseteq GroupTokens(group)
<1>1. \A group, t : t \in GroupTokens(group) <=> \E i \in group : t \in Tokens(characters[i])
  BY DEF GroupTokens
<1> QED
  BY <1>1

Touch(p, q) == GroupTokens(p) \cap GroupTokens(q) # {}

Connected(p) == \A part \in (SUBSET p) \ {{}, p} : Touch(part, p \ part)

(* What the groups of the first members are.                               *)
Components(groups, members) ==
  /\ UNION groups = {i \in members : Spoken(characters[i]) # {}}
  /\ \A p, q \in groups : p # q => ~Touch(p, q)
  /\ \A p \in groups : Connected(p)

(* One more member ties together what it touches.                          *)
LEMMA TiedGroupIsConnected ==
  ASSUME NEW tied, NEW i, i \notin UNION tied,
         \A g \in tied : Connected(g) /\ GroupTokens(g) \cap Tokens(characters[i]) # {}
  PROVE  Connected({i} \cup UNION tied)
<1> DEFINE group == {i} \cup UNION tied
<1> SUFFICES ASSUME NEW part \in (SUBSET group) \ {{}, group}
             PROVE  Touch(part, group \ part)
  BY DEF Connected
<1>1. \A p, q, s, t : p \subseteq s /\ q \subseteq t /\ Touch(p, q) => Touch(s, t)
  BY TokensOfGroups DEF Touch
<1>2. \A p, g : i \in p /\ g \in tied => Touch(p, g) /\ Touch(g, p)
  BY TokensOfGroups DEF Touch
<1>3. CASE \E g \in tied : g \cap part # {} /\ ~(g \subseteq part)
  <2>1. PICK g \in tied : g \cap part # {} /\ ~(g \subseteq part)
    BY <1>3
  <2>2. g \cap part \in (SUBSET g) \ {{}, g}
    BY <2>1
  <2>3. Touch(g \cap part, g \ (g \cap part))
    BY <2>1, <2>2 DEF Connected
  <2>4. g \cap part \subseteq part /\ g \ (g \cap part) \subseteq group \ part
    BY <2>1
  <2> QED
    BY <1>1, <2>3, <2>4
<1>4. CASE ~\E g \in tied : g \cap part # {} /\ ~(g \subseteq part)
  <2>1. CASE i \in part
    <3>1. PICK j : j \in group /\ j \notin part
      OBVIOUS
    <3>2. PICK g \in tied : j \in g
      BY <2>1, <3>1
    <3>3. g \subseteq group \ part
      BY <1>4, <3>1, <3>2
    <3>4. Touch(part, g)
      BY <1>2, <2>1
    <3> QED
      BY <1>1, <3>3, <3>4
  <2>2. CASE i \notin part
    <3>1. PICK j : j \in part
      OBVIOUS
    <3>2. PICK g \in tied : j \in g
      BY <2>2, <3>1
    <3>3. g \subseteq part
      BY <1>4, <3>1, <3>2
    <3>4. i \in group \ part
      BY <2>2
    <3>5. Touch(g, group \ part)
      BY <1>2, <3>4
    <3> QED
      BY <1>1, <3>3, <3>5
  <2> QED
    BY <2>1, <2>2
<1> QED
  BY <1>3, <1>4

(* And touches no other group.                                             *)
LEMMA MemberIsAdded ==
  ASSUME NEW members, NEW i \in members, NEW groups, Components(groups, members \ {i})
  PROVE  Components(AddMember(groups, i), members)
<1> DEFINE tied == Matching(groups, i)
           group == {i} \cup UNION tied
<1>1. CASE Spoken(characters[i]) = {}
  <2>1. AddMember(groups, i) = groups
    BY <1>1 DEF AddMember
  <2>2. {j \in members \ {i} : Spoken(characters[j]) # {}} = {j \in members : Spoken(characters[j]) # {}}
    BY <1>1
  <2> QED
    BY <2>1, <2>2 DEF Components
<1>2. CASE Spoken(characters[i]) # {}
  <2>1. AddMember(groups, i) = (groups \ tied) \cup {group}
    BY <1>2 DEF AddMember
  <2>2. /\ tied \subseteq groups
        /\ \A g \in groups : g \in tied <=> GroupTokens(g) \cap Tokens(characters[i]) # {}
    BY DEF Matching
  <2>3. i \notin UNION groups
    BY DEF Components
  <2>4. Connected(group)
    <3>1. i \notin UNION tied
      BY <2>2, <2>3
    <3> QED
      BY <2>2, <3>1, TiedGroupIsConnected DEF Components
  <2> HIDE DEF tied
  <2>5. ASSUME NEW g \in groups \ tied
        PROVE  ~Touch(g, group) /\ ~Touch(group, g)
    <3> SUFFICES ASSUME NEW t, t \in GroupTokens(g), t \in GroupTokens(group) PROVE FALSE
      BY DEF Touch
    <3>1. PICK j \in group : t \in Tokens(characters[j])
      BY TokensOfGroups
    <3>2. CASE j = i
      BY <2>2, <3>1, <3>2
    <3>3. CASE j # i
      <4>1. PICK h \in tied : j \in h
        BY <3>1, <3>3
      <4>2. t \in GroupTokens(h)
        BY <3>1, <4>1, TokensOfGroups
      <4>3. Touch(g, h) /\ g # h /\ h \in groups
        BY <2>2, <4>1, <4>2 DEF Touch
      <4> QED
        BY <4>3 DEF Components
    <3> QED
      BY <3>2, <3>3
  <2> HIDE DEF group
  <2>6. \A p, q \in (groups \ tied) \cup {group} : p # q => ~Touch(p, q)
    BY <2>5 DEF Components
  <2>7. \A p \in (groups \ tied) \cup {group} : Connected(p)
    BY <2>4 DEF Components
  <2>8. UNION ((groups \ tied) \cup {group}) = {j \in members : Spoken(characters[j]) # {}}
    <3>1. UNION ((groups \ tied) \cup {group}) = {i} \cup UNION groups
      BY <2>2 DEF group
    <3>2. UNION groups = {j \in members \ {i} : Spoken(characters[j]) # {}}
      BY DEF Components
    <3> QED
      BY <1>2, <3>1, <3>2
  <2> QED
    BY <2>1, <2>6, <2>7, <2>8 DEF Components
<1> QED
  BY <1>1, <1>2

(* So the fold's groups are the components of all members.                 *)
LEMMA ProxiesOfMembers ==
  ASSUME characters \in Seq(Character), NEW f \in Families
  PROVE  Components(Proxies(f), Members(f))
<1> DEFINE all == Members(f)
           Step(grouped, members) ==
             IF members = {} THEN {}
               ELSE AddMember(grouped[members \ {Max(members)}], Max(members))
           Folds(grouped) == grouped = [members \in SUBSET all |-> Step(grouped, members)]
           fold == CHOOSE grouped : Folds(grouped)
<1>1. IsFiniteSet(all) /\ all \subseteq Nat
  <2>1. IsFiniteSet(DOMAIN characters) /\ all \in SUBSET DOMAIN characters
    BY MembersOfCast
  <2>2. DOMAIN characters \subseteq Nat
    OBVIOUS
  <2> QED
    BY <2>1, <2>2, FS_Subset
<1>2. \A members \in SUBSET all : members # {} => Max(members) \in members
  <2> SUFFICES ASSUME NEW members \in SUBSET all, members # {} PROVE Max(members) \in members
    OBVIOUS
  <2>1. IsFiniteSet(members) /\ members \subseteq Nat
    BY <1>1, FS_Subset
  <2> QED
    BY <2>1, LastOfMembers
<1>3. Proxies(f) = fold[all]
  BY DEF Proxies, MapThenFoldSet
<1>4. \A i \in all, groups \in SUBSET SUBSET all : AddMember(groups, i) \in SUBSET SUBSET all
  BY DEF AddMember, Matching
<1>5. \E grouped : Folds(grouped)
  <2> DEFINE last == [members \in SUBSET all |-> Max(members)]
             step == [p \in all \X SUBSET SUBSET all |-> AddMember(p[2], p[1])]
             A == SUBSET SUBSET all
  <2>1. \A members \in SUBSET all : members # {} => last[members] \in members
    BY <1>2
  <2>2. \A i \in all, groups \in A : step[<<i, groups>>] \in A
    BY <1>4
  <2>3. {} \in A
    OBVIOUS
  <2> HIDE DEF last, step, all, A
  <2>4. PICK grouped : Recurs(grouped, all, A, {}, last, step)
    BY <1>1, <2>1, <2>2, <2>3, FoldExists
  <2>5. \A members \in SUBSET all : grouped[members] = Step(grouped, members)
    <3> SUFFICES ASSUME NEW members \in SUBSET all, members # {}
                 PROVE  grouped[members] = AddMember(grouped[members \ {Max(members)}], Max(members))
      BY <2>4 DEF Recurs
    <3>1. last[members] = Max(members) /\ Max(members) \in all
      BY <1>2 DEF last
    <3>2. grouped[members \ {Max(members)}] \in A
      BY <2>4 DEF Recurs
    <3>3. step[<<Max(members), grouped[members \ {Max(members)}]>>]
            = AddMember(grouped[members \ {Max(members)}], Max(members))
      BY <3>1, <3>2 DEF step, A
    <3> QED
      BY <2>4, <3>1, <3>3 DEF Recurs
  <2> HIDE DEF Step
  <2>6. grouped \in [SUBSET all -> A]
    BY <2>4 DEF Recurs
  <2>7. grouped = [members \in SUBSET all |-> grouped[members]]
    BY <2>6
  <2>8. grouped = [members \in SUBSET all |-> Step(grouped, members)]
    BY <2>5, <2>7
  <2> QED
    BY <2>8
<1>6. Folds(fold)
  BY <1>5
<1>7. \A members \in SUBSET all : fold[members] = Step(fold, members)
  BY <1>6
<1> HIDE DEF fold, all
<1> DEFINE good == {members \in SUBSET all : Components(fold[members], members)}
<1>8. {} \in good
  <2>1. fold[{}] = {}
    BY <1>7
  <2>2. Components({}, {})
    BY DEF Components
  <2>3. Components(fold[{}], {})
    BY <2>1, <2>2, Zenon
  <2> QED
    BY <2>3
<1>9. ASSUME NEW members \in SUBSET all, members # {}
      PROVE  \E i \in members : members \ {i} \in good => members \in good
  <2>1. Max(members) \in members
    BY <1>2, <1>9
  <2>2. Components(fold[members \ {Max(members)}], members \ {Max(members)})
          => Components(fold[members], members)
    <3> DEFINE i == Max(members)
               groups == fold[members \ {i}]
    <3>1. fold[members] = AddMember(groups, i)
      BY <1>7, <1>9
    <3>2. i \in members
      BY <2>1
    <3> HIDE DEF i, groups
    <3>3. Components(groups, members \ {i}) => Components(AddMember(groups, i), members)
      BY <3>2, MemberIsAdded
    <3> QED
      BY <3>1, <3>3, Zenon DEF i, groups
  <2>3. members \ {Max(members)} \in good => members \in good
    BY <2>2
  <2> QED
    BY <2>1, <2>3
<1> HIDE DEF good
<1>10. \A members \in SUBSET all : members \in good
  BY <1>1, <1>8, <1>9, TakingAway
<1> QED
  BY <1>3, <1>10 DEF good, all

(* Whatever the order in which members arrive (_speaker_proxies).          *)
THEOREM ProxiesAreTied == ExportSpec => []ProxiesAreComponents
<1>1. ASSUME characters \in Seq(Character)
      PROVE  ProxiesAreComponents
  <2> SUFFICES ASSUME NEW f \in Families
               PROVE  /\ UNION Proxies(f) = {i \in Members(f) : Spoken(characters[i]) # {}}
                      /\ \A p, q \in Proxies(f) : p # q => GroupTokens(p) \cap GroupTokens(q) = {}
                      /\ \A p \in Proxies(f) : \A part \in (SUBSET p) \ {{}, p} :
                           GroupTokens(part) \cap GroupTokens(p \ part) # {}
    BY DEF ProxiesAreComponents
  <2>1. Components(Proxies(f), Members(f))
    BY <1>1, ProxiesOfMembers
  <2> QED
    BY <2>1 DEF Components, Connected, Touch
<1>2. ExportInv => ProxiesAreComponents
  BY <1>1 DEF ExportInv, Attributed
<1> QED
  BY <1>2, Exports, PTL
-----------------------------------------------------------------------------
(* Synthesis jobs                                                          *)

(* A fold over a sequence, element by element.                             *)
Stepwise(g, seq, A, base, step) ==
  /\ g \in [0..Len(seq) -> A]
  /\ g[0] = base
  /\ \A i \in 1..Len(seq) : g[i] = step[<<seq[i], g[i - 1]>>]

Folded(value, seq, A, base, step) ==
  \E g : Stepwise(g, seq, A, base, step) /\ value = g[Len(seq)]

(* As FoldLeft takes it: over sets of places, the last one last.           *)
ByPlaces(g, seq, A, base, step) ==
  /\ g \in [SUBSET DOMAIN seq -> A]
  /\ g[{}] = base
  /\ \A s \in SUBSET DOMAIN seq : s # {} => g[s] = step[<<seq[Max(s)], g[s \ {Max(s)}]>>]

(* The last place of a sequence's beginning.                               *)
LEMMA LastPlace ==
  ASSUME NEW n \in Nat
  PROVE  /\ IsFiniteSet(1..n)
         /\ \A s \in SUBSET (1..n) : s # {} => Max(s) \in s
         /\ \A i \in 1..n : Max(1..i) = i /\ (1..i) \ {i} = 1..(i - 1)
<1>1. IsFiniteSet(1..n)
  BY FS_Interval
<1>2. ASSUME NEW s \in SUBSET (1..n), s # {} PROVE Max(s) \in s
  <2>1. IsFiniteSet(s)
    BY <1>1, FS_Subset
  <2>2. s \subseteq Nat
    OBVIOUS
  <2> QED
    BY <1>2, <2>1, <2>2, LastOfMembers
<1>3. ASSUME NEW i \in 1..n PROVE Max(1..i) = i /\ (1..i) \ {i} = 1..(i - 1)
  <2>1. \A m \in 1..i : (\A j \in 1..i : m >= j) => m = i
    OBVIOUS
  <2>2. i \in 1..i /\ \A j \in 1..i : i >= j
    OBVIOUS
  <2> QED
    BY <2>1, <2>2 DEF Max
<1> QED
  BY <1>1, <1>2, <1>3

(* The fold that FoldLeft takes exists.                                    *)
LEMMA PlacesFold ==
  ASSUME NEW X, NEW seq \in Seq(X), NEW A, NEW base \in A,
         NEW step, \A x \in X, a \in A : step[<<x, a>>] \in A
  PROVE  \E g : ByPlaces(g, seq, A, base, step)
<1> DEFINE D == DOMAIN seq
           last == [s \in SUBSET D |-> Max(s)]
           place == [p \in D \X A |-> step[<<seq[p[1]], p[2]>>]]
<1>1. D = 1..Len(seq) /\ Len(seq) \in Nat /\ \A i \in D : seq[i] \in X
  OBVIOUS
<1>2. IsFiniteSet(D) /\ \A s \in SUBSET D : s # {} => Max(s) \in s
  BY <1>1, LastPlace
<1>3. \A s \in SUBSET D : s # {} => last[s] \in s
  BY <1>2
<1>4. \A i \in D, a \in A : place[<<i, a>>] = step[<<seq[i], a>>]
  OBVIOUS
<1>5. \A i \in D, a \in A : place[<<i, a>>] \in A
  BY <1>1, <1>4
<1> HIDE DEF place
<1>6. \A s \in SUBSET D : last[s] = Max(s)
  OBVIOUS
<1> HIDE DEF last, D
<1>7. PICK g : Recurs(g, D, A, base, last, place)
  BY <1>2, <1>3, <1>5, FoldExists
<1>8. g \in [SUBSET D -> A] /\ g[{}] = base
  BY <1>7 DEF Recurs
<1>9. ASSUME NEW s \in SUBSET D, s # {}
      PROVE  g[s] = step[<<seq[Max(s)], g[s \ {Max(s)}]>>]
  <2>1. Max(s) \in D /\ g[s \ {Max(s)}] \in A
    BY <1>2, <1>8, <1>9
  <2>2. g[s] = place[<<Max(s), g[s \ {Max(s)}]>>]
    BY <1>6, <1>7, <1>9 DEF Recurs
  <2> QED
    BY <1>4, <2>1, <2>2
<1> QED
  BY <1>8, <1>9 DEF D, ByPlaces

(* And goes element by element.                                            *)
LEMMA PlacesInTurn ==
  ASSUME NEW X, NEW seq \in Seq(X), NEW A, NEW base \in A,
         NEW step, \A x \in X, a \in A : step[<<x, a>>] \in A,
         NEW h, h[{}] = base,
         \A s \in SUBSET DOMAIN seq :
           s # {} /\ h[s \ {Max(s)}] \in A => h[s] = step[<<seq[Max(s)], h[s \ {Max(s)}]>>]
  PROVE  Folded(h[DOMAIN seq], seq, A, base, step)
<1> DEFINE D == DOMAIN seq
           n == Len(seq)
           good == {s \in SUBSET D : h[s] \in A}
           g == [i \in 0..n |-> h[1..i]]
<1>1. D = 1..n /\ n \in Nat /\ \A i \in D : seq[i] \in X
  OBVIOUS
<1>2. /\ IsFiniteSet(D)
      /\ \A s \in SUBSET D : s # {} => Max(s) \in s
      /\ \A i \in 1..n : Max(1..i) = i /\ (1..i) \ {i} = 1..(i - 1)
  BY <1>1, LastPlace
<1>3. \A s \in SUBSET D : s # {} => \E x \in s : s \ {x} \in good => s \in good
  <2> SUFFICES ASSUME NEW s \in SUBSET D, s # {}
               PROVE  s \ {Max(s)} \in good => s \in good
    BY <1>2
  <2>1. seq[Max(s)] \in X
    BY <1>1, <1>2
  <2> QED
    BY <2>1
<1>4. {} \in good
  OBVIOUS
<1> HIDE DEF good
<1>5. \A s \in SUBSET D : s \in good
  BY <1>2, <1>3, <1>4, TakingAway
<1>6. \A s \in SUBSET D : h[s] \in A
  BY <1>5 DEF good
<1>7. g[0] = base
  <2>1. 1..0 = {}
    OBVIOUS
  <2> QED
    BY <1>1, <2>1
<1>8. g \in [0..n -> A]
  <2>1. \A i \in 0..n : 1..i \in SUBSET D
    BY <1>1
  <2> QED
    BY <1>6, <2>1
<1>9. ASSUME NEW i \in 1..n PROVE g[i] = step[<<seq[i], g[i - 1]>>]
  <2>1. 1..i \in SUBSET D /\ 1..i # {} /\ (1..i) \ {i} \in SUBSET D
    BY <1>1
  <2>2. Max(1..i) = i /\ (1..i) \ {i} = 1..(i - 1)
    BY <1>2
  <2>3. h[1..i] = step[<<seq[i], h[1..(i - 1)]>>]
    BY <1>6, <2>1, <2>2
  <2>4. i \in 0..n /\ i - 1 \in 0..n
    BY <1>1
  <2> QED
    BY <2>3, <2>4
<1>10. h[D] = g[n]
  BY <1>1
<1> HIDE DEF g
<1> QED
  BY <1>7, <1>8, <1>9, <1>10 DEF Folded, Stepwise

(* What a fold makes of an element more.                                   *)
LEMMA FoldOfAppend ==
  ASSUME NEW X, NEW seq \in Seq(X), NEW x \in X, NEW A, NEW base, NEW step,
         NEW v, Folded(v, seq, A, base, step), NEW w, Folded(w, Append(seq, x), A, base, step)
  PROVE  v \in A /\ w = step[<<x, v>>]
<1> DEFINE n == Len(seq)
           more == Append(seq, x)
<1>1. n \in Nat /\ Len(more) = n + 1 /\ (\A i \in 1..n : more[i] = seq[i]) /\ more[n + 1] = x
  BY AppendProperties
<1> HIDE DEF more
<1>2. PICK g : Stepwise(g, seq, A, base, step) /\ v = g[n]
  BY DEF Folded
<1>3. PICK h : Stepwise(h, more, A, base, step) /\ w = h[n + 1]
  BY <1>1 DEF Folded, more
<1> HIDE DEF n
<1> DEFINE same == {i \in 0..n : g[i] = h[i]}
<1>4. 0 \in same
  BY <1>1, <1>2, <1>3 DEF Stepwise
<1>5. ASSUME NEW k \in 0..(n - 1), k \in same PROVE k + 1 \in same
  <2>1. k + 1 \in 1..n /\ k + 1 \in 1..(n + 1) /\ (k + 1) - 1 = k
    BY <1>1
  <2>2. g[k + 1] = step[<<seq[k + 1], g[k]>>]
    BY <1>2, <2>1 DEF Stepwise, n
  <2>3. h[k + 1] = step[<<more[k + 1], h[k]>>]
    BY <1>1, <1>3, <2>1 DEF Stepwise
  <2>4. more[k + 1] = seq[k + 1] /\ g[k] = h[k]
    BY <1>1, <1>5, <2>1
  <2>5. k + 1 \in 0..n
    BY <2>1
  <2> QED
    BY <2>2, <2>3, <2>4, <2>5
<1> HIDE DEF same
<1>6. n \in same
  <2>1. \A k \in 0..n : k \in same
    BY <1>1, <1>4, <1>5, CountingUp
  <2> QED
    BY <1>1, <2>1
<1>7. g[n] = h[n]
  BY <1>6 DEF same
<1>8. h[n + 1] = step[<<more[n + 1], h[n]>>]
  <2>1. n + 1 \in 1..(n + 1) /\ (n + 1) - 1 = n
    BY <1>1
  <2> QED
    BY <1>1, <1>3, <2>1 DEF Stepwise
<1>9. v \in A
  BY <1>1, <1>2 DEF Stepwise, n
<1> QED
  BY <1>1, <1>2, <1>3, <1>7, <1>8, <1>9

(* And of nothing.                                                         *)
LEMMA FoldOfNothing ==
  ASSUME NEW A, NEW base, NEW step, NEW v, Folded(v, <<>>, A, base, step)
  PROVE  v = base
BY DEF Folded, Stepwise

(* The size of a batch (pack_synthesis_items, characters).                 *)
LEMMA SizeIsFolded ==
  ASSUME NEW batch \in Seq(Nat)
  PROVE  Folded(Characters(batch), batch, Nat, 0, [p \in Nat \X Nat |-> p[2] + p[1]])
<1> DEFINE D == DOMAIN batch
           step == [p \in Nat \X Nat |-> p[2] + p[1]]
           Folds(g) == g = [s \in SUBSET D |->
                              IF s = {} THEN 0 ELSE g[s \ {Max(s)}] + batch[Max(s)]]
           fold == CHOOSE g : Folds(g)
<1>1. Characters(batch) = fold[D]
  BY DEF Characters, FoldLeft, MapThenFoldSet
<1>2. \A x \in Nat, a \in Nat : step[<<x, a>>] = a + x /\ step[<<x, a>>] \in Nat
  OBVIOUS
<1> HIDE DEF step
<1>3. \A s \in SUBSET D : s # {} => batch[Max(s)] \in Nat
  <2>1. D = 1..Len(batch) /\ Len(batch) \in Nat /\ \A i \in D : batch[i] \in Nat
    OBVIOUS
  <2>2. \A s \in SUBSET D : s # {} => Max(s) \in s
    BY <2>1, LastPlace
  <2> QED
    BY <2>1, <2>2
<1>4. \E g : Folds(g)
  <2> DEFINE N == Nat
  <2>1. batch \in Seq(N) /\ 0 \in N /\ \A x \in N, a \in N : step[<<x, a>>] \in N
    BY <1>2
  <2> HIDE DEF N
  <2>2. PICK g : ByPlaces(g, batch, N, 0, step)
    BY <2>1, PlacesFold
  <2>3. /\ g \in [SUBSET D -> Nat]
        /\ g[{}] = 0
        /\ \A s \in SUBSET D : s # {} => g[s] = step[<<batch[Max(s)], g[s \ {Max(s)}]>>]
    BY <2>2 DEF ByPlaces, N
  <2>4. \A s \in SUBSET D : s # {} => g[s] = g[s \ {Max(s)}] + batch[Max(s)]
    BY <1>2, <1>3, <2>3
  <2>5. g = [s \in SUBSET D |-> g[s]]
    BY <2>3
  <2> QED
    BY <2>3, <2>4, <2>5
<1>5. Folds(fold)
  BY <1>4
<1>6. fold[{}] = 0
  BY <1>5
<1>7. \A s \in SUBSET D : s # {} => fold[s] = fold[s \ {Max(s)}] + batch[Max(s)]
  BY <1>5
<1> HIDE DEF fold
<1> DEFINE N == Nat
<1>8. \A s \in SUBSET D :
        s # {} /\ fold[s \ {Max(s)}] \in N => fold[s] = step[<<batch[Max(s)], fold[s \ {Max(s)}]>>]
  BY <1>2, <1>3, <1>7
<1>9. batch \in Seq(N) /\ 0 \in N /\ \A x \in N, a \in N : step[<<x, a>>] \in N
  BY <1>2
<1> HIDE DEF N
<1>10. Folded(fold[D], batch, N, 0, step)
  BY <1>6, <1>8, <1>9, PlacesInTurn
<1> QED
  BY <1>1, <1>10 DEF step, N

(* An item more is its size more.                                          *)
LEMMA SizeOfMore ==
  /\ Characters(<<>>) = 0
  /\ \A batch \in Seq(Nat), item \in Nat :
       /\ Characters(batch) \in Nat
       /\ Characters(Append(batch, item)) = Characters(batch) + item
<1> DEFINE step == [p \in Nat \X Nat |-> p[2] + p[1]]
<1>1. \A batch \in Seq(Nat) : Folded(Characters(batch), batch, Nat, 0, step)
  BY SizeIsFolded
<1>2. \A x \in Nat, a \in Nat : step[<<x, a>>] = a + x
  OBVIOUS
<1> HIDE DEF step
<1>3. Characters(<<>>) = 0
  <2>1. <<>> \in Seq(Nat)
    OBVIOUS
  <2>2. Folded(Characters(<<>>), <<>>, Nat, 0, step)
    BY <1>1, <2>1
  <2> QED
    BY <2>2, FoldOfNothing
<1>4. ASSUME NEW batch \in Seq(Nat), NEW item \in Nat
      PROVE  /\ Characters(batch) \in Nat
             /\ Characters(Append(batch, item)) = Characters(batch) + item
  <2>1. Append(batch, item) \in Seq(Nat)
    BY AppendProperties
  <2>2. Folded(Characters(batch), batch, Nat, 0, step)
    BY <1>1
  <2>3. Folded(Characters(Append(batch, item)), Append(batch, item), Nat, 0, step)
    BY <1>1, <2>1
  <2>4. Characters(batch) \in Nat /\ Characters(Append(batch, item)) = step[<<item, Characters(batch)>>]
    BY <2>2, <2>3, FoldOfAppend
  <2> QED
    BY <1>2, <2>4
<1> QED
  BY <1>3, <1>4

(* What the batches hold, one after the other.                             *)
Flat(batches) == FoldLeft(\o, <<>>, batches)

(* It is a fold, as PackingIsTight has it.                                 *)
LEMMA FlatIsFolded ==
  ASSUME NEW batches \in Seq(Seq(Nat))
  PROVE  Folded(Flat(batches), batches, Seq(Nat), <<>>,
                [p \in Seq(Nat) \X Seq(Nat) |-> p[2] \o p[1]])
<1> DEFINE A == Seq(Nat)
           D == DOMAIN batches
           step == [p \in A \X A |-> p[2] \o p[1]]
           Folds(g) == g = [s \in SUBSET D |->
                              IF s = {} THEN <<>> ELSE g[s \ {Max(s)}] \o batches[Max(s)]]
           fold == CHOOSE g : Folds(g)
<1>1. Flat(batches) = fold[D]
  BY DEF Flat, FoldLeft, MapThenFoldSet
<1>2. \A x \in A, a \in A : step[<<x, a>>] = a \o x /\ step[<<x, a>>] \in A
  BY ConcatProperties
<1>3. <<>> \in A
  OBVIOUS
<1> HIDE DEF step, A
<1>4. \A s \in SUBSET D : s # {} => batches[Max(s)] \in A
  <2>1. D = 1..Len(batches) /\ Len(batches) \in Nat /\ \A i \in D : batches[i] \in A
    BY DEF A
  <2>2. \A s \in SUBSET D : s # {} => Max(s) \in s
    BY <2>1, LastPlace
  <2> QED
    BY <2>1, <2>2
<1>5. batches \in Seq(A) /\ \A x \in A, a \in A : step[<<x, a>>] \in A
  BY <1>2 DEF A
<1>6. \E g : Folds(g)
  <2>1. PICK g : ByPlaces(g, batches, A, <<>>, step)
    BY <1>3, <1>5, PlacesFold
  <2>2. /\ g \in [SUBSET D -> A]
        /\ g[{}] = <<>>
        /\ \A s \in SUBSET D : s # {} => g[s] = step[<<batches[Max(s)], g[s \ {Max(s)}]>>]
    BY <2>1 DEF ByPlaces
  <2>3. \A s \in SUBSET D : s # {} => g[s] = g[s \ {Max(s)}] \o batches[Max(s)]
    BY <1>2, <1>4, <2>2
  <2>4. g = [s \in SUBSET D |-> g[s]]
    BY <2>2
  <2> QED
    BY <2>2, <2>3, <2>4
<1>7. Folds(fold)
  BY <1>6
<1>8. fold[{}] = <<>>
  BY <1>7
<1>9. \A s \in SUBSET D : s # {} => fold[s] = fold[s \ {Max(s)}] \o batches[Max(s)]
  BY <1>7
<1> HIDE DEF fold
<1>10. \A s \in SUBSET D :
         s # {} /\ fold[s \ {Max(s)}] \in A => fold[s] = step[<<batches[Max(s)], fold[s \ {Max(s)}]>>]
  BY <1>2, <1>4, <1>9
<1>11. Folded(fold[D], batches, A, <<>>, step)
  BY <1>3, <1>5, <1>8, <1>10, PlacesInTurn
<1> QED
  BY <1>1, <1>11 DEF step, A

(* A batch more is its items more.                                         *)
LEMMA FlatOfMore ==
  /\ Flat(<<>>) = <<>>
  /\ \A batches \in Seq(Seq(Nat)), batch \in Seq(Nat) :
       /\ Flat(batches) \in Seq(Nat)
       /\ Flat(Append(batches, batch)) = Flat(batches) \o batch
<1> DEFINE A == Seq(Nat)
           step == [p \in Seq(Nat) \X Seq(Nat) |-> p[2] \o p[1]]
<1>1. \A batches \in Seq(A) : Folded(Flat(batches), batches, A, <<>>, step)
  BY FlatIsFolded
<1>2. \A x \in A, a \in A : step[<<x, a>>] = a \o x
  OBVIOUS
<1> HIDE DEF step, A
<1>3. Flat(<<>>) = <<>>
  <2>1. <<>> \in Seq(A)
    OBVIOUS
  <2>2. Folded(Flat(<<>>), <<>>, A, <<>>, step)
    BY <1>1, <2>1
  <2> QED
    BY <2>2, FoldOfNothing
<1>4. ASSUME NEW batches \in Seq(A), NEW batch \in A
      PROVE  /\ Flat(batches) \in A
             /\ Flat(Append(batches, batch)) = Flat(batches) \o batch
  <2>1. Append(batches, batch) \in Seq(A)
    BY AppendProperties
  <2>2. Folded(Flat(batches), batches, A, <<>>, step)
    BY <1>1
  <2>3. Folded(Flat(Append(batches, batch)), Append(batches, batch), A, <<>>, step)
    BY <1>1, <2>1
  <2>4. Flat(batches) \in A /\ Flat(Append(batches, batch)) = step[<<batch, Flat(batches)>>]
    BY <2>2, <2>3, FoldOfAppend
  <2> QED
    BY <1>2, <2>4
<1> QED
  BY <1>3, <1>4 DEF A

(* Batches under way: none is empty.                                       *)
Batches == Seq(Seq(Nat) \ {<<>>})

(* Of batches under way: each can be submitted, or is one item; and none   *)
(* could have taken the next one's first.                                  *)
Tight(batches) ==
  /\ \A i \in DOMAIN batches : Submittable(batches[i]) \/ Len(batches[i]) = 1
  /\ \A i \in 1..(Len(batches) - 1) : ~Submittable(Append(batches[i], Head(batches[i + 1])))

(* The last batch and those before it.                                     *)
LEMMA LastAndFront ==
  ASSUME NEW batches \in Batches, batches # <<>>
  PROVE  /\ Front(batches) \in Batches /\ Last(batches) \in Seq(Nat) \ {<<>>}
         /\ Len(batches) \in Nat \ {0} /\ Len(Front(batches)) = Len(batches) - 1
         /\ Last(batches) = batches[Len(batches)]
         /\ \A i \in 1..(Len(batches) - 1) : Front(batches)[i] = batches[i]
         /\ batches = Append(Front(batches), Last(batches))
<1> DEFINE B == Seq(Nat) \ {<<>>}
           n == Len(batches)
           front == SubSeq(batches, 1, n - 1)
           last == batches[n]
<1>1. batches \in Seq(B)
  BY DEF Batches
<1> HIDE DEF B
<1>2. n \in Nat \ {0} /\ last \in B /\ \A i \in 1..n : batches[i] \in B
  BY <1>1
<1>3. front \in Seq(B) /\ Len(front) = n - 1 /\ \A i \in 1..(n - 1) : front[i] = batches[i]
  <2> DEFINE m == n - 1
  <2>1. m \in Nat /\ m < n /\ \A i \in 1..m : i \in 1..n
    BY <1>2
  <2>2. \A i \in 1..m : batches[i] \in B
    BY <1>2, <2>1
  <2> HIDE DEF m
  <2>3. /\ SubSeq(batches, 1, m) \in Seq(B)
        /\ Len(SubSeq(batches, 1, m)) = m
        /\ \A i \in 1..m : SubSeq(batches, 1, m)[i] = batches[i]
    <3>1. 1 \in Int /\ m \in Int /\ 1..(m - 1 + 1) = 1..m
      BY <2>1
    <3>2. /\ SubSeq(batches, 1, m) \in Seq(B)
          /\ Len(SubSeq(batches, 1, m)) = IF 1 <= m THEN m - 1 + 1 ELSE 0
          /\ \A i \in 1..(m - 1 + 1) : SubSeq(batches, 1, m)[i] = batches[1 + i - 1]
      BY <2>2, <3>1, SubSeqProperties
    <3> QED
      BY <2>1, <3>1, <3>2
  <2> QED
    BY <2>3 DEF m
<1>4. batches = Append(front, last)
  <2> HIDE DEF front, last, n
  <2>1. /\ Append(front, last) \in Seq(B) /\ Len(Append(front, last)) = n
        /\ \A i \in 1..(n - 1) : Append(front, last)[i] = front[i]
        /\ Append(front, last)[n] = last
    BY <1>2, <1>3, AppendProperties
  <2>2. \A i \in 1..n : batches[i] = Append(front, last)[i]
    BY <1>2, <1>3, <2>1 DEF last
  <2> QED
    BY <1>1, <2>1, <2>2, SeqEqual DEF n
<1>5. Front(batches) = front /\ Last(batches) = last
  BY DEF Front, Last
<1> HIDE DEF front, last, n
<1> QED
  BY <1>2, <1>3, <1>4, <1>5 DEF Batches, B, n, last

(* One more item is put into the last batch, or opens one, and batches     *)
(* stay as they should be.                                                 *)
LEMMA ItemIsAdded ==
  ASSUME NEW batches \in Batches, NEW item \in Nat, Tight(batches)
  PROVE  /\ AddItem(batches, item) \in Batches
         /\ Tight(AddItem(batches, item))
         /\ Flat(AddItem(batches, item)) = Append(Flat(batches), item)
<1> DEFINE B == Seq(Nat) \ {<<>>}
           n == Len(batches)
           front == Front(batches)
           last == Last(batches)
           grown == Append(last, item)
           more == AddItem(batches, item)
<1>1. batches \in Seq(B) /\ batches \in Seq(Seq(Nat)) /\ n \in Nat
  BY DEF Batches
<1>2. <<item>> \in Seq(Nat) \ {<<>>} /\ Len(<<item>>) = 1 /\ Head(<<item>>) = item
  OBVIOUS
<1>3. ASSUME NEW batch \in Seq(Nat)
      PROVE  Fits(batch, item) <=> Submittable(Append(batch, item))
  <2>1. /\ Characters(batch) \in Nat
        /\ Characters(Append(batch, item)) = Characters(batch) + item
    BY SizeOfMore
  <2>2. Len(batch) \in Nat /\ Len(Append(batch, item)) = Len(batch) + 1
    BY AppendProperties
  <2> QED
    BY <2>1, <2>2, PackingAssumption DEF Fits, Submittable
<1>4. CASE batches # <<>> /\ Fits(Last(batches), item)
  <2>1. more = Append(front, grown)
    BY <1>4 DEF AddItem
  <2>2. /\ front \in Batches /\ last \in Seq(Nat) \ {<<>>}
        /\ n \in Nat \ {0} /\ Len(front) = n - 1
        /\ last = batches[n]
        /\ \A i \in 1..(n - 1) : front[i] = batches[i]
        /\ batches = Append(front, last)
    BY <1>4, LastAndFront
  <2> HIDE DEF front, last, n
  <2>3. grown \in Seq(Nat) \ {<<>>} /\ Head(grown) = Head(last) /\ Submittable(grown)
    <3>1. grown \in Seq(Nat) /\ grown # <<>>
      BY <2>2, AppendProperties
    <3>2. Head(grown) = Head(last)
      BY <2>2, HeadTailAppend
    <3>3. Submittable(grown)
      BY <1>3, <1>4, <2>2 DEF last
    <3> QED
      BY <3>1, <3>2, <3>3
  <2> HIDE DEF grown, more
  <2>4. more \in Batches
    BY <2>1, <2>2, <2>3, AppendProperties DEF Batches
  <2>5. /\ Len(more) = n /\ DOMAIN more = 1..n /\ DOMAIN batches = 1..n
        /\ more[n] = grown
        /\ \A i \in 1..(n - 1) : more[i] = batches[i]
    <3>1. front \in Seq(B)
      BY <2>2 DEF Batches
    <3>2. grown \in B
      BY <2>3
    <3> HIDE DEF B
    <3>3. /\ Len(more) = Len(front) + 1
          /\ more[Len(front) + 1] = grown
          /\ \A i \in 1..Len(front) : more[i] = front[i]
          /\ more \in Seq(B)
      BY <2>1, <3>1, <3>2, AppendProperties
    <3>4. DOMAIN more = 1..Len(more)
      BY <3>3
    <3>5. DOMAIN batches = 1..n
      BY <1>1 DEF n
    <3> QED
      BY <2>2, <3>3, <3>4, <3>5
  <2>6. Tight(more)
    <3>1. \A i \in DOMAIN more : Submittable(more[i]) \/ Len(more[i]) = 1
      <4> SUFFICES ASSUME NEW i \in 1..n PROVE Submittable(more[i]) \/ Len(more[i]) = 1
        BY <2>5
      <4>1. CASE i = n
        BY <2>3, <2>5, <4>1
      <4>2. CASE i # n
        <5>1. i \in 1..(n - 1) /\ i \in DOMAIN batches
          BY <2>2, <2>5, <4>2
        <5>2. more[i] = batches[i]
          BY <2>5, <5>1
        <5> QED
          BY <5>1, <5>2 DEF Tight
      <4> QED
        BY <4>1, <4>2
    <3>2. \A i \in 1..(Len(more) - 1) : ~Submittable(Append(more[i], Head(more[i + 1])))
      <4> SUFFICES ASSUME NEW i \in 1..(n - 1)
                   PROVE  ~Submittable(Append(more[i], Head(more[i + 1])))
        BY <2>5
      <4>1. ~Submittable(Append(batches[i], Head(batches[i + 1])))
        BY DEF Tight, n
      <4>2. more[i] = batches[i]
        BY <2>5
      <4>3. Head(more[i + 1]) = Head(batches[i + 1])
        <5>1. CASE i + 1 = n
          BY <2>2, <2>3, <2>5, <5>1
        <5>2. CASE i + 1 # n
          <6>1. i + 1 \in 1..(n - 1)
            BY <2>2, <5>2
          <6> QED
            BY <2>5, <6>1
        <5> QED
          BY <5>1, <5>2
      <4> QED
        BY <4>1, <4>2, <4>3
    <3> QED
      BY <3>1, <3>2 DEF Tight
  <2>7. Flat(more) = Append(Flat(batches), item)
    <3>1. front \in Seq(Seq(Nat)) /\ last \in Seq(Nat) /\ grown \in Seq(Nat)
      BY <2>2, <2>3 DEF Batches
    <3>2. /\ Flat(front) \in Seq(Nat)
          /\ Flat(batches) = Flat(front) \o last
          /\ Flat(more) = Flat(front) \o grown
      BY <2>1, <2>2, <3>1, FlatOfMore
    <3>3. grown = last \o <<item>>
      BY <3>1, AppendIsConcat DEF grown
    <3>4. Flat(more) = Flat(batches) \o <<item>>
      BY <1>2, <3>1, <3>2, <3>3, ConcatAssociative
    <3>5. Flat(batches) \in Seq(Nat)
      BY <1>1, <1>2, FlatOfMore
    <3> QED
      BY <3>4, <3>5, AppendIsConcat
  <2> QED
    BY <2>4, <2>6, <2>7 DEF more
<1>5. CASE ~(batches # <<>> /\ Fits(Last(batches), item))
  <2>1. more = Append(batches, <<item>>)
    BY <1>5 DEF AddItem
  <2> HIDE DEF more, n
  <2>2. more \in Batches
    BY <1>2, <2>1, AppendProperties DEF Batches
  <2>3. /\ Len(more) = n + 1 /\ DOMAIN more = 1..(n + 1) /\ DOMAIN batches = 1..n
        /\ more[n + 1] = <<item>>
        /\ \A i \in 1..n : more[i] = batches[i]
    <3>1. <<item>> \in B
      BY <1>2
    <3> HIDE DEF B
    <3>2. /\ Len(more) = n + 1
          /\ more[n + 1] = <<item>>
          /\ \A i \in 1..n : more[i] = batches[i]
          /\ more \in Seq(B)
      BY <1>1, <2>1, <3>1, AppendProperties DEF n
    <3>3. DOMAIN more = 1..Len(more)
      BY <3>2
    <3>4. DOMAIN batches = 1..n
      BY <1>1 DEF n
    <3> QED
      BY <3>2, <3>3, <3>4
  <2>4. Tight(more)
    <3>1. \A i \in DOMAIN more : Submittable(more[i]) \/ Len(more[i]) = 1
      <4> SUFFICES ASSUME NEW i \in 1..(n + 1) PROVE Submittable(more[i]) \/ Len(more[i]) = 1
        BY <2>3
      <4>1. CASE i = n + 1
        BY <1>2, <2>3, <4>1
      <4>2. CASE i # n + 1
        <5>1. i \in 1..n
          BY <1>1, <4>2
        <5> QED
          BY <2>3, <5>1 DEF Tight
      <4> QED
        BY <4>1, <4>2
    <3>2. \A i \in 1..(Len(more) - 1) : ~Submittable(Append(more[i], Head(more[i + 1])))
      <4> SUFFICES ASSUME NEW i \in 1..n
                   PROVE  ~Submittable(Append(more[i], Head(more[i + 1])))
        BY <1>1, <2>3
      <4>1. CASE i = n
        <5>1. batches # <<>>
          BY <4>1 DEF n
        <5>2. last \in Seq(Nat) /\ last = batches[n]
          BY <5>1, LastAndFront DEF n
        <5>3. ~Fits(last, item)
          BY <1>5, <5>1
        <5> HIDE DEF last
        <5>4. ~Submittable(Append(last, item))
          BY <1>3, <5>2, <5>3
        <5>5. more[i] = last /\ more[i + 1] = <<item>>
          BY <2>3, <4>1, <5>2
        <5> QED
          BY <1>2, <5>4, <5>5
      <4>2. CASE i # n
        <5>1. i \in 1..(n - 1) /\ i + 1 \in 1..n
          BY <1>1, <4>2
        <5>2. ~Submittable(Append(batches[i], Head(batches[i + 1])))
          BY <5>1 DEF Tight, n
        <5> QED
          BY <2>3, <5>1, <5>2
      <4> QED
        BY <4>1, <4>2
    <3> QED
      BY <3>1, <3>2 DEF Tight
  <2>5. Flat(more) = Append(Flat(batches), item)
    <3>1. Flat(more) = Flat(batches) \o <<item>> /\ Flat(batches) \in Seq(Nat)
      BY <1>1, <1>2, <2>1, FlatOfMore
    <3> QED
      BY <3>1, AppendIsConcat
  <2> QED
    BY <2>2, <2>4, <2>5 DEF more
<1> QED
  BY <1>4, <1>5

(* Item by item, the batches are a fold.                                   *)
LEMMA PackedIsFolded ==
  ASSUME items \in Seq(Nat)
  PROVE  Folded(Packed, items, Batches, <<>>, [p \in Nat \X Batches |-> AddItem(p[2], p[1])])
<1> DEFINE N == Nat
           D == DOMAIN items
           step == [p \in N \X Batches |-> AddItem(p[2], p[1])]
           Folds(g) == g = [s \in SUBSET D |->
                              IF s = {} THEN <<>> ELSE AddItem(g[s \ {Max(s)}], items[Max(s)])]
           fold == CHOOSE g : Folds(g)
<1>1. Packed = fold[D]
  BY DEF Packed, FoldLeft, MapThenFoldSet
<1>2. ASSUME NEW x \in N, NEW a \in Batches
      PROVE  step[<<x, a>>] = AddItem(a, x) /\ step[<<x, a>>] \in Batches
  <2>1. step[<<x, a>>] = AddItem(a, x)
    OBVIOUS
  <2>2. AddItem(a, x) \in Batches
    <3> DEFINE B == Seq(Nat) \ {<<>>}
    <3>1. CASE a # <<>> /\ Fits(Last(a), x)
      <4>1. Front(a) \in Seq(B) /\ Last(a) \in Seq(Nat)
        BY <3>1, LastAndFront DEF Batches
      <4>2. Append(Last(a), x) \in B
        BY <4>1, AppendProperties
      <4>3. AddItem(a, x) = Append(Front(a), Append(Last(a), x))
        BY <3>1 DEF AddItem
      <4> HIDE DEF B
      <4>4. AddItem(a, x) \in Seq(B)
        BY <4>1, <4>2, <4>3, AppendProperties
      <4> QED
        BY <4>4 DEF Batches, B
    <3>2. CASE ~(a # <<>> /\ Fits(Last(a), x))
      <4>1. a \in Seq(B) /\ <<x>> \in B
        BY DEF Batches
      <4>2. AddItem(a, x) = Append(a, <<x>>)
        BY <3>2 DEF AddItem
      <4> HIDE DEF B
      <4>3. AddItem(a, x) \in Seq(B)
        BY <4>1, <4>2, AppendProperties
      <4> QED
        BY <4>3 DEF Batches, B
    <3> QED
      BY <3>1, <3>2
  <2> QED
    BY <2>1, <2>2
<1>3. <<>> \in Batches
  BY DEF Batches
<1>4. items \in Seq(N)
  OBVIOUS
<1> HIDE DEF step, N
<1>5. \A s \in SUBSET D : s # {} => items[Max(s)] \in N
  <2>1. D = 1..Len(items) /\ Len(items) \in Nat /\ \A i \in D : items[i] \in N
    BY <1>4
  <2>2. \A s \in SUBSET D : s # {} => Max(s) \in s
    BY <2>1, LastPlace
  <2> QED
    BY <2>1, <2>2
<1>6. \A x \in N, a \in Batches : step[<<x, a>>] \in Batches
  BY <1>2
<1>7. \E g : Folds(g)
  <2>1. PICK g : ByPlaces(g, items, Batches, <<>>, step)
    BY <1>3, <1>4, <1>6, PlacesFold
  <2>2. /\ g \in [SUBSET D -> Batches]
        /\ g[{}] = <<>>
        /\ \A s \in SUBSET D : s # {} => g[s] = step[<<items[Max(s)], g[s \ {Max(s)}]>>]
    BY <2>1 DEF ByPlaces
  <2>3. \A s \in SUBSET D : s # {} => g[s] = AddItem(g[s \ {Max(s)}], items[Max(s)])
    BY <1>2, <1>5, <2>2
  <2>4. g = [s \in SUBSET D |-> g[s]]
    BY <2>2
  <2> QED
    BY <2>2, <2>3, <2>4
<1>8. Folds(fold)
  BY <1>7
<1>9. fold[{}] = <<>>
  BY <1>8
<1>10. \A s \in SUBSET D : s # {} => fold[s] = AddItem(fold[s \ {Max(s)}], items[Max(s)])
  BY <1>8
<1> HIDE DEF fold
<1>11. \A s \in SUBSET D :
         s # {} /\ fold[s \ {Max(s)}] \in Batches
           => fold[s] = step[<<items[Max(s)], fold[s \ {Max(s)}]>>]
  BY <1>2, <1>5, <1>10
<1>12. Folded(fold[D], items, Batches, <<>>, step)
  BY <1>3, <1>4, <1>6, <1>9, <1>11, PlacesInTurn
<1> QED
  BY <1>1, <1>12 DEF step, N

(* Whatever the items and the limits of a job (pack_synthesis_items,       *)
(* submit_batch).                                                          *)
THEOREM PackingsAreTight ==
  ASSUME items \in Seq(Nat)
  PROVE  PackingIsTight
<1> DEFINE n == Len(items)
           step == [p \in Nat \X Batches |-> AddItem(p[2], p[1])]
           Begins(k) == SubSeq(items, 1, k)
<1>1. n \in Nat /\ \A i \in 1..n : items[i] \in Nat
  OBVIOUS
<1>2. PICK g : Stepwise(g, items, Batches, <<>>, step) /\ Packed = g[n]
  BY PackedIsFolded DEF Folded
<1>3. /\ g \in [0..n -> Batches]
      /\ g[0] = <<>>
      /\ \A i \in 1..n : g[i] = step[<<items[i], g[i - 1]>>]
  BY <1>2 DEF Stepwise
<1>4. \A x \in Nat, a \in Batches : step[<<x, a>>] = AddItem(a, x)
  OBVIOUS
<1>5. Begins(0) = <<>> /\ Begins(n) = items
  OBVIOUS
<1>6. ASSUME NEW k \in 0..(n - 1)
      PROVE  Begins(k + 1) = Append(Begins(k), items[k + 1])
  <2>1. k + 1 \in 1..n /\ k \in 0..n /\ k \in Nat
    BY <1>1
  <2>2. Begins(k + 1) \in Seq(Nat) /\ Len(Begins(k + 1)) = k + 1
        /\ \A i \in 1..(k + 1) : Begins(k + 1)[i] = items[i]
    BY <1>1, <2>1
  <2>3. Begins(k) \in Seq(Nat) /\ Len(Begins(k)) = k
        /\ \A i \in 1..k : Begins(k)[i] = items[i]
    BY <1>1, <2>1
  <2> HIDE DEF Begins
  <2>4. /\ Append(Begins(k), items[k + 1]) \in Seq(Nat)
        /\ Len(Append(Begins(k), items[k + 1])) = k + 1
        /\ \A i \in 1..k : Append(Begins(k), items[k + 1])[i] = items[i]
        /\ Append(Begins(k), items[k + 1])[k + 1] = items[k + 1]
    BY <1>1, <2>1, <2>3, AppendProperties
  <2>5. \A i \in 1..(k + 1) : Begins(k + 1)[i] = Append(Begins(k), items[k + 1])[i]
    BY <2>1, <2>2, <2>4
  <2> QED
    BY <2>2, <2>4, <2>5, SeqEqual
<1> HIDE DEF n, step, Begins
<1> DEFINE good == {k \in 0..n : Tight(g[k]) /\ Flat(g[k]) = Begins(k)}
<1>7. 0 \in good
  <2>1. Tight(<<>>)
    BY DEF Tight
  <2>2. Flat(<<>>) = Begins(0)
    BY <1>5, FlatOfMore
  <2>3. Tight(g[0]) /\ Flat(g[0]) = Begins(0)
    BY <1>3, <2>1, <2>2, Zenon
  <2> QED
    BY <1>1, <2>3
<1>8. ASSUME NEW k \in 0..(n - 1), k \in good PROVE k + 1 \in good
  <2>1. k + 1 \in 1..n /\ k + 1 \in 0..n /\ (k + 1) - 1 = k /\ k \in 0..n
    BY <1>1
  <2>2. items[k + 1] \in Nat /\ g[k] \in Batches
    BY <1>1, <1>3, <2>1
  <2>3. g[k + 1] = AddItem(g[k], items[k + 1])
    BY <1>3, <1>4, <2>1, <2>2
  <2>4. Tight(g[k]) /\ Flat(g[k]) = Begins(k)
    BY <1>8
  <2>5. /\ Tight(AddItem(g[k], items[k + 1]))
        /\ Flat(AddItem(g[k], items[k + 1])) = Append(Flat(g[k]), items[k + 1])
    BY <2>2, <2>4, ItemIsAdded
  <2>6. Tight(g[k + 1]) /\ Flat(g[k + 1]) = Begins(k + 1)
    BY <1>6, <2>3, <2>4, <2>5
  <2> QED
    BY <2>1, <2>6
<1> HIDE DEF good
<1>9. n \in good
  <2>1. \A k \in 0..n : k \in good
    BY <1>1, <1>7, <1>8, CountingUp
  <2> QED
    BY <1>1, <2>1
<1>10. Tight(Packed) /\ Flat(Packed) = items
  BY <1>2, <1>5, <1>9 DEF good
<1> QED
  BY <1>10 DEF PackingIsTight, Tight, Flat
=============================================================================
