--------------------------- MODULE KernelHeapProofs ---------------------------
(***************************************************************************)
(* Proofs about KernelHeap, for any page size, any number of frames and any *)
(* requests: the list of free blocks keeps its order, no two blocks or      *)
(* pages overlap, neighbours are merged, and what the clients hold is given  *)
(* out and taken back as RegionHeap promises.                               *)
(***************************************************************************)
EXTENDS KernelHeap, FiniteSetTheorems, TLAPS

-----------------------------------------------------------------------------
(* Sums. *)

(* The sum of the values f has on S, which MapThenSumSet computes.            *)
Total(f, S) == MapThenSumSet(LAMBDA h : f[h], S)

(* How it is computed: the function that takes one element after the other.    *)
Pick(s)        == CHOOSE x \in s : TRUE
Taking(f, g, s) == IF s = {} THEN 0 ELSE f[Pick(s)] + g[s \ {Pick(s)}]
Sums(f, S)     == CHOOSE g : g = [s \in SUBSET S |-> Taking(f, g, s)]

(* Every set of natural numbers has a least element.                          *)
LEMMA Least ==
    ASSUME NEW S \in SUBSET Nat, S # {} PROVE \E x \in S : \A y \in S : x <= y
<1> DEFINE R == OpToRel(<, Nat)
<1>1. IsWellFoundedOn(R, Nat)
    BY NatLessThanWellFounded
<1>2. \A x, y \in S : <<y, x>> \in R <=> y < x
    BY DEF OpToRel
<1> HIDE DEF R
<1>3. \E x \in S : \A y \in S : ~ (<<y, x>> \in R)
    BY <1>1, WFMin
<1>4. \E x \in S : \A y \in S : ~ (y < x)
    BY <1>2, <1>3
<1> QED
    BY <1>4

(* A finite set of counterexamples has a smallest one.                         *)
LEMMA Smallest ==
    ASSUME NEW C, C # {}, \A S \in C : IsFiniteSet(S)
    PROVE  \E S \in C : \A T \in C : Cardinality(S) <= Cardinality(T)
<1> DEFINE N == {Cardinality(S) : S \in C}
<1>1. N \in SUBSET Nat /\ N # {}
    BY FS_CardinalityType
<1>2. PICK n \in N : \A m \in N : n <= m
    BY <1>1, Least
<1> QED
    BY <1>2

(* Elements and subsets of finite sets.                                        *)
LEMMA SmallerFacts ==
    ASSUME NEW S, IsFiniteSet(S), NEW x \in S
    PROVE  IsFiniteSet(S \ {x}) /\ Cardinality(S) \in Nat /\ Cardinality(S \ {x}) \in Nat
           /\ Cardinality(S \ {x}) < Cardinality(S)
<1>1. IsFiniteSet(S \ {x}) /\ Cardinality(S \ {x}) = Cardinality(S) - 1
    BY FS_RemoveElement
<1>2. Cardinality(S) \in Nat /\ Cardinality(S \ {x}) \in Nat
    BY <1>1, FS_CardinalityType
<1> QED
    BY <1>1, <1>2

(* The element chosen is one.                                                  *)
LEMMA PickFacts == ASSUME NEW s, s # {} PROVE Pick(s) \in s
    BY DEF Pick

(* The library's fold, unfolded.                                               *)
LEMMA TotalIsSums == ASSUME NEW f, NEW S PROVE Total(f, S) = Sums(f, S)[S]
    BY DEF Total, MapThenSumSet, MapThenFoldSet, Sums, Taking, Pick

(* The function exists on the subsets of up to n elements, for every n.        *)
LEMMA SumsExist ==
    ASSUME NEW f, NEW S, IsFiniteSet(S)
    PROVE  \E g : g = [s \in SUBSET S |-> Taking(f, g, s)]
<1> DEFINE D(n) == {s \in SUBSET S : Cardinality(s) <= n}
           E(n) == \E g : g = [s \in D(n) |-> Taking(f, g, s)]
           B    == {n \in Nat : ~ E(n)}
<1>1. \A s \in SUBSET S : IsFiniteSet(s) /\ Cardinality(s) \in Nat
    BY FS_Subset, FS_CardinalityType
<1>2. \A s \in SUBSET S : s # {} =>
        /\ s \ {Pick(s)} \in SUBSET S
        /\ Cardinality(s \ {Pick(s)}) < Cardinality(s)
        /\ Cardinality(s) # 0
    BY <1>1, PickFacts, SmallerFacts, FS_EmptySet
<1>3. E(0)
    <2> DEFINE g == [s \in D(0) |-> 0]
    <2>1. \A s \in D(0) : Taking(f, g, s) = 0
        BY <1>1, <1>2 DEF Taking
    <2>2. g = [s \in D(0) |-> Taking(f, g, s)]
        BY <2>1
    <2> QED
        BY <2>2
<1>4. ASSUME NEW n \in Nat, E(n)
      PROVE  E(n + 1)
    <2>1. PICK g : g = [s \in D(n) |-> Taking(f, g, s)]
        BY <1>4
    <2> DEFINE h == [s \in D(n + 1) |-> Taking(f, g, s)]
    <2>2. \A s \in D(n) : g[s] = Taking(f, g, s) /\ s \in D(n + 1)
        BY <1>1, <2>1
    <2>3. \A s \in D(n) : h[s] = g[s]
        BY <2>2
    <2>4. \A s \in D(n + 1) : s # {} => s \ {Pick(s)} \in D(n)
        BY <1>1, <1>2
    <2>5. \A s \in D(n + 1) : Taking(f, h, s) = Taking(f, g, s)
        <3> SUFFICES ASSUME NEW s \in D(n + 1) PROVE Taking(f, h, s) = Taking(f, g, s)
            OBVIOUS
        <3> HIDE DEF h, D
        <3> QED
            BY <2>3, <2>4 DEF Taking
    <2>6. h = [s \in D(n + 1) |-> Taking(f, h, s)]
        BY <2>5
    <2> QED
        BY <2>6
<1>5. B = {}
    <2> SUFFICES ASSUME B # {} PROVE FALSE
        OBVIOUS
    <2> HIDE DEF E
    <2>1. PICK n \in B : \A m \in B : n <= m
        BY Least
    <2>2. n # 0 /\ n - 1 \in Nat /\ n - 1 \notin B
        BY <1>3, <2>1
    <2>3. E(n - 1) /\ (n - 1) + 1 = n
        BY <2>2
    <2> QED
        BY <1>4, <2>1, <2>2, <2>3
<1>6. E(Cardinality(S)) /\ D(Cardinality(S)) = SUBSET S
    <2>1. D(Cardinality(S)) = SUBSET S
        BY FS_Subset
    <2>2. Cardinality(S) \in Nat
        BY FS_CardinalityType
    <2> HIDE DEF E
    <2> QED
        BY <1>5, <2>1, <2>2
<1> QED
    BY <1>6

(* Two sets may be summed in the same order, where one is part of the other.   *)
LEMMA SumsAgree ==
    ASSUME NEW f, NEW S, IsFiniteSet(S), NEW T \in SUBSET S
    PROVE  Sums(f, S)[T] = Sums(f, T)[T]
<1> DEFINE g == Sums(f, S)
           h == Sums(f, T)
           C == {s \in SUBSET T : g[s] # h[s]}
<1>1. IsFiniteSet(T)
    BY FS_Subset
<1>2. g = [s \in SUBSET S |-> Taking(f, g, s)] /\ h = [s \in SUBSET T |-> Taking(f, h, s)]
    BY <1>1, SumsExist DEF Sums
<1> HIDE DEF g, h
<1>3. C = {}
    <2> SUFFICES ASSUME C # {} PROVE FALSE
        OBVIOUS
    <2>1. \A s \in C : IsFiniteSet(s)
        BY <1>1, FS_Subset
    <2>2. PICK s \in C : \A t \in C : Cardinality(s) <= Cardinality(t)
        BY <2>1, Smallest
    <2>3. g[s] = Taking(f, g, s) /\ h[s] = Taking(f, h, s)
        BY <1>2
    <2>4. s # {}
        BY <2>3 DEF Taking
    <2> DEFINE t == s \ {Pick(s)}
    <2>5. t \in SUBSET T /\ Cardinality(t) < Cardinality(s) /\ Cardinality(t) \in Nat
          /\ Cardinality(s) \in Nat
        BY <2>1, <2>4, PickFacts, SmallerFacts
    <2> HIDE DEF t
    <2>6. g[t] = h[t]
        BY <2>2, <2>5
    <2> QED
        BY <2>3, <2>6 DEF Taking, t
<1> QED
    BY <1>3 DEF g, h

(* One element is taken, then the others are.                                  *)
LEMMA TotalTaking ==
    ASSUME NEW f, NEW S, IsFiniteSet(S)
    PROVE  Total(f, S) = IF S = {} THEN 0 ELSE f[Pick(S)] + Total(f, S \ {Pick(S)})
<1> DEFINE g == Sums(f, S)
           T == S \ {Pick(S)}
<1>1. g = [s \in SUBSET S |-> Taking(f, g, s)]
    BY SumsExist DEF Sums
<1>2. g[S] = Taking(f, g, S)
    BY <1>1
<1>3. g[T] = Sums(f, T)[T]
    BY SumsAgree
<1> QED
    BY <1>2, <1>3, TotalIsSums DEF Taking

(* Only the values on the set matter.                                          *)
LEMMA TotalSame ==
    ASSUME NEW f, NEW g, NEW S, IsFiniteSet(S), \A x \in S : f[x] = g[x]
    PROVE  Total(f, S) = Total(g, S)
<1> DEFINE C == {s \in SUBSET S : Total(f, s) # Total(g, s)}
<1>1. \A s \in C : IsFiniteSet(s)
    BY FS_Subset
<1>2. C = {}
    <2> SUFFICES ASSUME C # {} PROVE FALSE
        OBVIOUS
    <2>1. PICK s \in C : \A t \in C : Cardinality(s) <= Cardinality(t)
        BY <1>1, Smallest
    <2>2. /\ Total(f, s) = IF s = {} THEN 0 ELSE f[Pick(s)] + Total(f, s \ {Pick(s)})
          /\ Total(g, s) = IF s = {} THEN 0 ELSE g[Pick(s)] + Total(g, s \ {Pick(s)})
        BY <1>1, TotalTaking
    <2>3. s # {} /\ Pick(s) \in s /\ Pick(s) \in S
        BY <2>2, PickFacts
    <2> DEFINE t == s \ {Pick(s)}
    <2>4. t \in SUBSET S /\ Cardinality(t) < Cardinality(s) /\ Cardinality(t) \in Nat
          /\ Cardinality(s) \in Nat
        BY <1>1, <2>3, SmallerFacts
    <2> HIDE DEF t
    <2>5. Total(f, t) = Total(g, t)
        BY <2>1, <2>4
    <2> QED
        BY <2>1, <2>2, <2>3, <2>5 DEF t
<1> QED
    BY <1>2

(* The sum of integers is one.                                                 *)
LEMMA TotalType ==
    ASSUME NEW f, NEW S, IsFiniteSet(S), \A x \in S : f[x] \in Int
    PROVE  Total(f, S) \in Int
<1> DEFINE C == {s \in SUBSET S : Total(f, s) \notin Int}
<1>1. \A s \in C : IsFiniteSet(s)
    BY FS_Subset
<1>2. C = {}
    <2> SUFFICES ASSUME C # {} PROVE FALSE
        OBVIOUS
    <2>1. PICK s \in C : \A t \in C : Cardinality(s) <= Cardinality(t)
        BY <1>1, Smallest
    <2>2. Total(f, s) = IF s = {} THEN 0 ELSE f[Pick(s)] + Total(f, s \ {Pick(s)})
        BY <1>1, TotalTaking
    <2>3. s # {} /\ Pick(s) \in s /\ Pick(s) \in S
        BY <2>2, PickFacts
    <2> DEFINE t == s \ {Pick(s)}
    <2>4. t \in SUBSET S /\ Cardinality(t) < Cardinality(s) /\ Cardinality(t) \in Nat
          /\ Cardinality(s) \in Nat
        BY <1>1, <2>3, SmallerFacts
    <2> HIDE DEF t
    <2>5. Total(f, t) \in Int
        BY <2>1, <2>4
    <2> QED
        BY <2>1, <2>2, <2>3, <2>5 DEF t
<1> QED
    BY <1>2

(* Any element may be taken first.                                             *)
LEMMA TotalWithout ==
    ASSUME NEW f, NEW S, IsFiniteSet(S), \A x \in S : f[x] \in Int, NEW x \in S
    PROVE  Total(f, S) = f[x] + Total(f, S \ {x})
<1> DEFINE P(s) == \A y \in s : Total(f, s) = f[y] + Total(f, s \ {y})
           C    == {s \in SUBSET S : ~ P(s)}
<1>1. \A s \in SUBSET S : IsFiniteSet(s)
    BY FS_Subset
<1>2. C = {}
    <2> SUFFICES ASSUME C # {} PROVE FALSE
        OBVIOUS
    <2> HIDE DEF P
    <2>1. PICK s \in C : \A t \in C : Cardinality(s) <= Cardinality(t)
        BY <1>1, Smallest
    <2>2. PICK y \in s : Total(f, s) # f[y] + Total(f, s \ {y})
        BY <2>1 DEF P
    <2> DEFINE q == Pick(s)
    <2>3. q \in s /\ Total(f, s) = f[q] + Total(f, s \ {q})
        BY <1>1, <2>1, <2>2, PickFacts, TotalTaking
    <2> HIDE DEF q
    <2>4. q # y
        BY <2>2, <2>3
    <2>5. \A z \in s : P(s \ {z})
        <3> SUFFICES ASSUME NEW z \in s PROVE s \ {z} \notin C
            BY <2>1
        <3>1. Cardinality(s \ {z}) < Cardinality(s) /\ Cardinality(s \ {z}) \in Nat
              /\ Cardinality(s) \in Nat
            BY <1>1, <2>1, SmallerFacts
        <3> QED
            BY <2>1, <3>1
    <2> DEFINE u == s \ {q, y}
    <2>6. u = (s \ {q}) \ {y} /\ u = (s \ {y}) \ {q} /\ u \in SUBSET S
        BY <2>1
    <2> HIDE DEF u
    <2>7. Total(f, s \ {q}) = f[y] + Total(f, u) /\ Total(f, s \ {y}) = f[q] + Total(f, u)
        BY <2>2, <2>3, <2>4, <2>5, <2>6 DEF P
    <2>8. Total(f, u) \in Int /\ f[y] \in Int /\ f[q] \in Int
        BY <1>1, <2>1, <2>2, <2>3, <2>6, TotalType
    <2>9. f[q] + (f[y] + Total(f, u)) = f[y] + (f[q] + Total(f, u))
        BY <2>8
    <2> QED
        BY <2>2, <2>3, <2>7, <2>9
<1> QED
    BY <1>2

(* An element more.                                                            *)
LEMMA TotalWith ==
    ASSUME NEW f, NEW S, IsFiniteSet(S), NEW x, x \notin S, \A y \in S \cup {x} : f[y] \in Int
    PROVE  IsFiniteSet(S \cup {x}) /\ Total(f, S \cup {x}) = f[x] + Total(f, S)
<1>1. IsFiniteSet(S \cup {x}) /\ (S \cup {x}) \ {x} = S
    BY FS_AddElement
<1>2. Total(f, S \cup {x}) = f[x] + Total(f, (S \cup {x}) \ {x})
    BY <1>1, TotalWithout
<1> QED
    BY <1>1, <1>2

(* Nothing to add.                                                             *)
LEMMA TotalEmpty == ASSUME NEW f PROVE Total(f, {}) = 0
    BY TotalTaking, FS_EmptySet

(* The sum over what a one-to-one function makes of a set.                      *)
LEMMA TotalImage ==
    ASSUME NEW f, NEW g, NEW m, NEW S, IsFiniteSet(S),
           \A x, y \in S : m[x] = m[y] => x = y,
           \A x \in S : f[x] \in Int /\ g[m[x]] = f[x]
    PROVE  Total(g, {m[x] : x \in S}) = Total(f, S)
<1> DEFINE I(s) == {m[x] : x \in s}
           P(s) == IsFiniteSet(I(s)) /\ Total(g, I(s)) = Total(f, s)
           C    == {s \in SUBSET S : ~ P(s)}
<1>1. \A s \in SUBSET S : IsFiniteSet(s)
    BY FS_Subset
<1>2. C = {}
    <2> SUFFICES ASSUME C # {} PROVE FALSE
        OBVIOUS
    <2>1. PICK s \in C : \A t \in C : Cardinality(s) <= Cardinality(t)
        BY <1>1, Smallest
    <2>2. s # {}
        <3>1. I({}) = {} /\ Total(f, {}) = 0 /\ Total(g, {}) = 0 /\ IsFiniteSet({})
            BY TotalEmpty, FS_EmptySet
        <3> HIDE DEF I
        <3>2. P({})
            BY <3>1
        <3> QED
            BY <2>1, <3>2
    <2>3. PICK y \in s : TRUE
        BY <2>2
    <2> DEFINE t == s \ {y}
    <2>4. t \in SUBSET S /\ Cardinality(t) < Cardinality(s) /\ Cardinality(t) \in Nat
          /\ Cardinality(s) \in Nat
        BY <1>1, <2>1, <2>3, SmallerFacts
    <2>5. I(s) \ {m[y]} = I(t) /\ I(s) = I(t) \cup {m[y]}
        BY <2>1, <2>3
    <2>6. \A z \in I(s) : g[z] \in Int
        BY <2>1
    <2> HIDE DEF t, I
    <2>7. IsFiniteSet(I(t)) /\ Total(g, I(t)) = Total(f, t)
        BY <2>1, <2>4
    <2>8. IsFiniteSet(I(s))
        BY <2>5, <2>7, FS_AddElement
    <2>9. Total(g, I(s)) = g[m[y]] + Total(g, I(t))
        BY <2>5, <2>6, <2>8, TotalWithout
    <2>10. Total(f, s) = f[y] + Total(f, t)
        BY <1>1, <2>1, <2>3, TotalWithout DEF t
    <2> QED
        BY <2>1, <2>3, <2>7, <2>8, <2>9, <2>10
<1> QED
    <2>1. P(S)
        BY <1>2
    <2> QED
        BY <2>1

(* The sum over two sets that have nothing in common.                           *)
LEMMA TotalUnion ==
    ASSUME NEW f, NEW S, NEW T, IsFiniteSet(S), IsFiniteSet(T), S \cap T = {},
           \A x \in S \cup T : f[x] \in Int
    PROVE  Total(f, S \cup T) = Total(f, S) + Total(f, T)
<1> DEFINE C == {t \in SUBSET T : Total(f, S \cup t) # Total(f, S) + Total(f, t)}
<1>1. \A t \in SUBSET T : IsFiniteSet(t) /\ IsFiniteSet(S \cup t)
    BY FS_Subset, FS_Union
<1>2. C = {}
    <2> SUFFICES ASSUME C # {} PROVE FALSE
        OBVIOUS
    <2>1. PICK s \in C : \A t \in C : Cardinality(s) <= Cardinality(t)
        BY <1>1, Smallest
    <2>2. Total(f, S) \in Int
        BY TotalType
    <2>3. s # {}
        BY <2>1, <2>2, TotalEmpty
    <2>4. PICK y \in s : TRUE
        BY <2>3
    <2> DEFINE t == s \ {y}
    <2>5. t \in SUBSET T /\ Cardinality(t) < Cardinality(s) /\ Cardinality(t) \in Nat
          /\ Cardinality(s) \in Nat
        BY <1>1, <2>1, <2>4, SmallerFacts
    <2>6. (S \cup s) \ {y} = S \cup t /\ y \in S \cup s
        BY <2>1, <2>4
    <2> HIDE DEF t
    <2>7. Total(f, S \cup t) = Total(f, S) + Total(f, t)
        BY <2>1, <2>5
    <2>8. Total(f, S \cup s) = f[y] + Total(f, S \cup t)
        BY <1>1, <2>1, <2>6, TotalWithout
    <2>9. Total(f, s) = f[y] + Total(f, t)
        BY <1>1, <2>1, <2>4, TotalWithout DEF t
    <2>10. Total(f, t) \in Int /\ f[y] \in Int
        BY <1>1, <2>1, <2>4, <2>5, TotalType
    <2> QED
        BY <2>1, <2>2, <2>7, <2>8, <2>9, <2>10
<1> QED
    BY <1>2

-----------------------------------------------------------------------------
(* The inductive invariant. *)

(* A circular list in the order of addresses, from Base on.                   *)
Ordered(n) ==
    /\ Base \in DOMAIN n
    /\ \A h \in DOMAIN n :
        /\ h \in Int /\ Base <= h /\ n[h] \in DOMAIN n
        /\ IF n[h] = Base THEN \A g \in DOMAIN n : g <= h
           ELSE h < n[h] /\ \A g \in DOMAIN n : g <= h \/ n[h] <= g

(* Regions of the lengths e that begin at the addresses S, in a memory of      *)
(* top units.                                                                 *)
Tiled(S, e, top) ==
    /\ \A a \in S : a \in Int /\ e[a] \in Int /\ 0 <= a /\ 0 < e[a] /\ a + e[a] <= top
    /\ \A a, b \in S : a < b => a + e[a] <= b

Top    == heap * PageUnits
Starts == (Free \ {Base}) \cup used \cup pages \cup Moving
extent == [a \in Starts |-> IF a \in pages THEN PageUnits ELSE size[a]]

(* What is given out, free or on its way: each unit is of one kind.           *)
Layout ==
    /\ Free \cap used = {} /\ Moving \cap (Free \cup used) = {}
    /\ pages \cap (Free \cup used \cup Moving) = {}
    /\ Moving \subseteq DOMAIN size
    /\ Tiled(Starts, extent, Top)

(* Regions that leave no unit out.                                            *)
Filled(S, e, top) == IsFiniteSet(S) /\ Total(e, S) = top

(* The blocks and pages are the whole heap, unless the list is broken or kfree  *)
(* has found none to put a page in.                                           *)
Whole == damage = "none" /\ pc # "fault" => Filled(Starts, extent, Top)

(* The list exists from the first search on, and kfree has looked at it too     *)
(* early if it does not.                                                      *)
ListExists ==
    IF freep = Null
    THEN Free = {} /\ used = {} /\ pages = {} /\ pc \in {"idle", "fault"}
    ELSE Ordered(next) /\ freep \in Free /\ size[Base] = 0 /\ pc # "fault"

(* The pointers of a search are neighbours on the list.                       *)
Searching ==
    pc \in {"kalloc", "page"} =>
        /\ p \in Free /\ prevp \in Free /\ next[prevp] = p
        /\ pc = "kalloc" => need \in Requests

(* kfree walks on the list; a page kalloc has added lies behind it, so that the *)
(* block kalloc has stopped at is not merged into another one.                *)
Freeing ==
    pc = "kfree" =>
        /\ fp \in Free
        /\ ret = "kalloc" => p \in Free /\ need \in Requests /\ \A h \in Free : h < bp

Healthy == ListExists /\ Coalesced /\ Searching /\ Freeing

IInv ==
    /\ TypeOK /\ Layout /\ Whole
    /\ damage = "none" => Healthy
    /\ damage # "none" => pc = "idle"

USE DEF Free

-----------------------------------------------------------------------------
(* Lists in order. *)

(* The block behind q is taken off the list.                                  *)
LEMMA Unlink ==
    ASSUME NEW n, NEW m, Ordered(n), NEW q \in DOMAIN n, n[q] # Base,
           DOMAIN m = DOMAIN n \ {n[q]},
           m[q] = n[n[q]], \A h \in DOMAIN m \ {q} : m[h] = n[h]
    PROVE  Ordered(m) /\ q < n[q] /\ (n[n[q]] = Base \/ n[q] < n[n[q]])
<1>1. /\ n[q] \in DOMAIN n /\ n[n[q]] \in DOMAIN n /\ q < n[q]
      /\ Base \in DOMAIN n /\ \A h \in DOMAIN n : h \in Int /\ Base <= h /\ n[h] \in DOMAIN n
      /\ \A g \in DOMAIN n : g <= q \/ n[q] <= g
    BY DEF Ordered
<1>2. IF n[n[q]] = Base THEN \A g \in DOMAIN n : g <= n[q]
      ELSE n[q] < n[n[q]] /\ \A g \in DOMAIN n : g <= n[q] \/ n[n[q]] <= g
    BY <1>1 DEF Ordered
<1>3. Base \in DOMAIN m /\ q \in DOMAIN m /\ n[n[q]] \in DOMAIN m
    BY <1>1, <1>2
<1>4. ASSUME NEW h \in DOMAIN m
      PROVE  /\ h \in Int /\ Base <= h /\ m[h] \in DOMAIN m
             /\ IF m[h] = Base THEN \A g \in DOMAIN m : g <= h
                ELSE h < m[h] /\ \A g \in DOMAIN m : g <= h \/ m[h] <= g
    <2>1. CASE h = q
        BY <1>1, <1>2, <1>3, <2>1
    <2>2. CASE h # q
        <3>1. /\ m[h] = n[h] /\ h \in DOMAIN n /\ n[h] \in DOMAIN n
              /\ IF n[h] = Base THEN \A g \in DOMAIN n : g <= h
                 ELSE h < n[h] /\ \A g \in DOMAIN n : g <= h \/ n[h] <= g
            BY <2>2 DEF Ordered
        <3>2. n[h] # n[q]
            BY <1>1, <2>2, <3>1
        <3> QED
            BY <1>1, <3>1, <3>2
    <2> QED
        BY <2>1, <2>2
<1> QED
    BY <1>1, <1>2, <1>3, <1>4 DEF Ordered

(* A block is linked in behind q.                                             *)
LEMMA LinkIn ==
    ASSUME NEW n, NEW m, Ordered(n), NEW q \in DOMAIN n, NEW y \in Int,
           q < y, n[q] = Base \/ y < n[q],
           DOMAIN m = DOMAIN n \cup {y},
           m[q] = y, m[y] = n[q], \A h \in DOMAIN n \ {q} : m[h] = n[h]
    PROVE  Ordered(m) /\ y \notin DOMAIN n
<1>1. /\ Base \in DOMAIN n /\ \A h \in DOMAIN n : h \in Int /\ Base <= h /\ n[h] \in DOMAIN n
      /\ IF n[q] = Base THEN \A g \in DOMAIN n : g <= q
         ELSE q < n[q] /\ \A g \in DOMAIN n : g <= q \/ n[q] <= g
    BY DEF Ordered
<1>2. y \notin DOMAIN n /\ Base < y
    BY <1>1
<1>3. ASSUME NEW h \in DOMAIN m
      PROVE  /\ h \in Int /\ Base <= h /\ m[h] \in DOMAIN m
             /\ IF m[h] = Base THEN \A g \in DOMAIN m : g <= h
                ELSE h < m[h] /\ \A g \in DOMAIN m : g <= h \/ m[h] <= g
    <2>1. CASE h = q
        BY <1>1, <1>2, <2>1
    <2>2. CASE h = y
        BY <1>1, <1>2, <2>2
    <2>3. CASE h # q /\ h # y
        <3>1. /\ m[h] = n[h] /\ h \in DOMAIN n /\ n[h] \in DOMAIN n
              /\ IF n[h] = Base THEN \A g \in DOMAIN n : g <= h
                 ELSE h < n[h] /\ \A g \in DOMAIN n : g <= h \/ n[h] <= g
            BY <2>3 DEF Ordered
        <3>2. n[h] = Base => h # q /\ q <= h /\ n[q] # Base /\ n[q] <= h
            BY <1>1, <2>3, <3>1
        <3>3. n[h] # Base => q <= h \/ n[h] <= q
            BY <3>1
        <3> QED
            BY <1>1, <1>2, <2>3, <3>1, <3>2, <3>3
    <2> QED
        BY <2>1, <2>2, <2>3
<1> QED
    BY <1>1, <1>2, <1>3 DEF Ordered

-----------------------------------------------------------------------------
(* Regions. *)

(* Some of them.                                                              *)
LEMMA Fewer ==
    ASSUME NEW S, NEW e, NEW top, Tiled(S, e, top), NEW R, NEW f, R \subseteq S,
           \A a \in R : f[a] = e[a]
    PROVE  Tiled(R, f, top)
    BY DEF Tiled

(* The lengths are what counts.                                                *)
LEMMA SameFilled ==
    ASSUME NEW S, NEW e, NEW f, NEW top, Filled(S, e, top), \A a \in S : f[a] = e[a]
    PROVE  Filled(S, f, top)
    BY TotalSame DEF Filled

(* Cut in two, they are as long as before.                                     *)
LEMMA FilledCut ==
    ASSUME NEW S, NEW e, NEW top, Filled(S, e, top), NEW R, NEW f, NEW x \in S, NEW y,
           y \notin S, R = S \cup {y}, \A a \in S : e[a] \in Int,
           f[x] \in Int, f[y] \in Int, f[x] + f[y] = e[x],
           \A a \in S \ {x} : f[a] = e[a]
    PROVE  Filled(R, f, top)
<1> DEFINE T == S \ {x}
<1>1. IsFiniteSet(S) /\ IsFiniteSet(T) /\ IsFiniteSet(R)
    BY FS_AddElement, FS_Subset DEF Filled
<1>2. Total(e, S) = e[x] + Total(e, T)
    BY <1>1, TotalWithout
<1>3. \A a \in R : f[a] \in Int
    BY <1>1
<1>4. Total(f, S) = f[x] + Total(f, T)
    BY <1>1, <1>3, TotalWithout
<1>5. Total(f, R) = f[y] + Total(f, S)
    BY <1>1, <1>3, TotalWith
<1>6. Total(f, T) = Total(e, T) /\ Total(e, T) \in Int
    BY <1>1, TotalSame, TotalType
<1> HIDE DEF T
<1>7. f[y] + (f[x] + Total(e, T)) = e[x] + Total(e, T)
    BY <1>6
<1> QED
    BY <1>1, <1>2, <1>4, <1>5, <1>6, <1>7 DEF Filled

(* Joined, too.                                                                *)
LEMMA FilledJoined ==
    ASSUME NEW S, NEW e, NEW top, Filled(S, e, top), NEW R, NEW f, NEW x \in S, NEW y \in S,
           x # y, R = S \ {y}, f[x] = e[x] + e[y], \A a \in S : e[a] \in Int,
           \A a \in S \ {x, y} : f[a] = e[a]
    PROVE  Filled(R, f, top)
<1> DEFINE T == R \ {x}
<1>1. IsFiniteSet(S) /\ IsFiniteSet(T) /\ IsFiniteSet(R)
    BY FS_Subset DEF Filled
<1>2. Total(e, S) = e[y] + Total(e, R) /\ Total(e, R) = e[x] + Total(e, T)
    BY <1>1, TotalWithout
<1>3. \A a \in R : f[a] \in Int
    BY <1>1
<1>4. Total(f, R) = f[x] + Total(f, T)
    BY <1>1, <1>3, TotalWithout
<1>5. Total(f, T) = Total(e, T) /\ Total(e, T) \in Int
    BY <1>1, TotalSame, TotalType
<1> HIDE DEF T
<1>6. (e[x] + e[y]) + Total(e, T) = e[y] + (e[x] + Total(e, T))
    BY <1>5
<1> QED
    BY <1>1, <1>2, <1>4, <1>5, <1>6 DEF Filled

(* One is cut in two.                                                         *)
LEMMA CutInTwo ==
    ASSUME NEW S, NEW e, NEW top \in Int, Tiled(S, e, top), NEW R, NEW f,
           NEW x \in S, NEW k \in Int, 0 < k, k < e[x],
           R = S \cup {x + k}, f[x] = k, f[x + k] = e[x] - k,
           \A a \in S \ {x} : f[a] = e[a]
    PROVE  /\ Tiled(R, f, top) /\ x + k \notin S
           /\ Filled(S, e, top) => Filled(R, f, top)
<1>1. x + k \notin S
    BY DEF Tiled
<1>2. /\ x \in Int /\ e[x] \in Int /\ 0 <= x /\ x + e[x] <= top
      /\ \A a \in S : a \in Int /\ e[a] \in Int /\ 0 <= a /\ 0 < e[a] /\ a + e[a] <= top
      /\ \A a, b \in S : a < b => a + e[a] <= b
    BY DEF Tiled
<1>3. \A a \in R : a \in Int /\ f[a] \in Int /\ 0 <= a /\ 0 < f[a] /\ a + f[a] <= top
    <2>1. ASSUME NEW a \in R
          PROVE  a \in Int /\ f[a] \in Int /\ 0 <= a /\ 0 < f[a] /\ a + f[a] <= top
        <3>1. CASE a = x
            BY <1>2, <3>1
        <3>2. CASE a = x + k
            BY <1>2, <3>2
        <3>3. CASE a # x /\ a # x + k
            BY <1>2, <3>3
        <3> QED
            BY <3>1, <3>2, <3>3
    <2> QED
        BY <2>1
<1>4. ASSUME NEW a \in R, NEW b \in R, a < b
      PROVE  a + f[a] <= b
    <2>1. CASE a = x
        <3>1. CASE b = x + k
            BY <1>2, <2>1, <3>1
        <3>2. CASE b # x + k
            BY <1>2, <1>4, <2>1, <3>2
        <3> QED
            BY <3>1, <3>2
    <2>2. CASE a = x + k
        <3>1. b \in S /\ x < b
            BY <1>2, <1>4, <2>2
        <3> QED
            BY <1>2, <2>2, <3>1
    <2>3. CASE a # x /\ a # x + k
        <3>1. a \in S /\ f[a] = e[a]
            BY <2>3
        <3>2. CASE b = x + k
            <4>1. a < x
                BY <1>2, <1>4, <2>3, <3>1, <3>2
            <4> QED
                BY <1>2, <3>1, <3>2, <4>1
        <3>3. CASE b # x + k
            BY <1>2, <1>4, <3>1, <3>3
        <3> QED
            BY <3>2, <3>3
    <2> QED
        BY <2>1, <2>2, <2>3
<1>5. ASSUME Filled(S, e, top)
      PROVE  Filled(R, f, top)
    <2>1. /\ \A a \in S : e[a] \in Int
          /\ f[x] \in Int /\ f[x + k] \in Int /\ f[x] + f[x + k] = e[x]
        BY <1>2
    <2> QED
        BY <1>1, <1>5, <2>1, FilledCut
<1> QED
    BY <1>1, <1>3, <1>4, <1>5 DEF Tiled

(* One is made one with that which begins where it ends.                      *)
LEMMA Joined ==
    ASSUME NEW S, NEW e, NEW top \in Int, Tiled(S, e, top), NEW R, NEW f,
           NEW x \in S, NEW y \in S, x + e[x] = y,
           R = S \ {y}, f[x] = e[x] + e[y],
           \A a \in S \ {x, y} : f[a] = e[a]
    PROVE  Tiled(R, f, top) /\ (Filled(S, e, top) => Filled(R, f, top))
<1>1. /\ x \in Int /\ e[x] \in Int /\ 0 < e[x] /\ y \in Int /\ e[y] \in Int /\ 0 < e[y]
      /\ y + e[y] <= top /\ x < y
      /\ \A a \in S : a \in Int /\ e[a] \in Int /\ 0 <= a /\ 0 < e[a] /\ a + e[a] <= top
      /\ \A a, b \in S : a < b => a + e[a] <= b
    BY DEF Tiled
<1>2. \A a \in R : a \in Int /\ f[a] \in Int /\ 0 <= a /\ 0 < f[a] /\ a + f[a] <= top
    BY <1>1
<1>3. ASSUME NEW a \in R, NEW b \in R, a < b
      PROVE  a + f[a] <= b
    <2>1. CASE a = x
        <3>1. y < b
            BY <1>1, <1>3, <2>1
        <3> QED
            BY <1>1, <1>3, <2>1, <3>1
    <2>2. CASE a # x
        BY <1>1, <1>3, <2>2
    <2> QED
        BY <2>1, <2>2
<1>4. ASSUME Filled(S, e, top)
      PROVE  Filled(R, f, top)
    <2>1. x # y /\ \A a \in S : e[a] \in Int
        BY <1>1
    <2> QED
        BY <1>4, <2>1, FilledJoined
<1> QED
    BY <1>2, <1>3, <1>4 DEF Tiled

(* Another page of memory.                                                    *)
LEMMA Extended ==
    ASSUME NEW S, NEW e, NEW top \in Int, 0 <= top, Tiled(S, e, top), NEW R, NEW f, NEW k \in Int,
           0 < k, R = S \cup {top}, f[top] = k, \A a \in S : f[a] = e[a]
    PROVE  /\ Tiled(R, f, top + k) /\ top \notin S
           /\ Filled(S, e, top) => Filled(R, f, top + k)
<1>1. /\ \A a \in S : a \in Int /\ e[a] \in Int /\ 0 <= a /\ 0 < e[a] /\ a + e[a] <= top
      /\ \A a, b \in S : a < b => a + e[a] <= b
    BY DEF Tiled
<1>2. top \notin S
    BY <1>1
<1>3. \A a \in R : a \in Int /\ f[a] \in Int /\ 0 <= a /\ 0 < f[a] /\ a + f[a] <= top + k
    BY <1>1
<1>4. \A a, b \in R : a < b => a + f[a] <= b
    BY <1>1
<1>5. ASSUME Filled(S, e, top)
      PROVE  Filled(R, f, top + k)
    <2>1. IsFiniteSet(S) /\ \A a \in R : f[a] \in Int
        BY <1>1, <1>5 DEF Filled
    <2>2. IsFiniteSet(R) /\ Total(f, R) = f[top] + Total(f, S)
        BY <1>2, <2>1, TotalWith
    <2>3. Filled(S, f, top)
        BY <1>5, SameFilled
    <2> QED
        BY <2>2, <2>3 DEF Filled
<1> QED
    BY <1>2, <1>3, <1>4, <1>5 DEF Tiled

-----------------------------------------------------------------------------
(* What the invariant says of addresses. *)

(* Memory is counted in whole pages.                                          *)
LEMMA TopFacts ==
    ASSUME heap \in Nat, frames \in Nat, heap + frames = Frames
    PROVE  /\ Top \in Nat /\ Top <= Frames * PageUnits
           /\ (heap + 1) * PageUnits = Top + PageUnits
           /\ frames > 0 => Top + PageUnits <= Frames * PageUnits
<1> DEFINE N == PageUnits
<1>1. N \in Nat /\ N > 0
    BY PageAssumption
<1> HIDE DEF N
<1>2. heap * N \in Nat /\ frames * N \in Nat
    BY <1>1
<1>3. (heap + frames) * N = heap * N + frames * N /\ (heap + 1) * N = heap * N + N
    BY <1>1
<1>4. frames > 0 => frames * N = (frames - 1) * N + N /\ (frames - 1) * N \in Nat
    BY <1>1
<1>5. Top = heap * N /\ Frames * N = heap * N + frames * N
    BY <1>3 DEF Top, N
<1>6. frames > 0 => heap * N + N <= Frames * N
    BY <1>1, <1>2, <1>4, <1>5
<1> QED
    BY <1>2, <1>3, <1>5, <1>6 DEF N

(* The list is a list of addresses, and regions lie in memory.                *)
LEMMA AddressFacts ==
    ASSUME TypeOK, Layout
    PROVE  /\ \A h \in Free \ {Base} : h \in Starts /\ extent[h] = size[h] /\ h \notin used \cup pages
           /\ \A h \in used : h \in Starts /\ extent[h] = size[h] /\ h # Base /\ h \notin pages
           /\ \A h \in Moving : h \in Starts /\ extent[h] = size[h] /\ h # Base /\ h \in DOMAIN size
                                /\ h \notin Free \cup used \cup pages
           /\ \A h \in pages : h \in Starts /\ extent[h] = PageUnits /\ h # Base
           /\ \A a \in Starts : a \in Int /\ extent[a] \in Int /\ 0 <= a /\ 0 < extent[a]
                                /\ a + extent[a] <= Top /\ a < Top /\ a # Base
           /\ \A a, b \in Starts : a < b => a + extent[a] <= b
           /\ DOMAIN size \subseteq Int /\ \A h \in DOMAIN size : size[h] \in Nat
           /\ PageUnits \in Nat /\ PageUnits > 0
           /\ Top \in Nat /\ Top <= Frames * PageUnits /\ Frames * PageUnits \in Nat
           /\ Free \subseteq DOMAIN size /\ used \subseteq DOMAIN size
<1>1. /\ heap \in Nat /\ frames \in Nat /\ heap + frames = Frames
      /\ Free \subseteq DOMAIN size /\ used \subseteq DOMAIN size
      /\ DOMAIN size \subseteq Addr /\ \A h \in DOMAIN size : size[h] \in Nat
    BY DEF TypeOK
<1>2. Top \in Nat /\ Top <= Frames * PageUnits /\ Frames * PageUnits \in Nat
    BY <1>1, TopFacts, PageAssumption, FramesAssumption
<1>3. DOMAIN size \subseteq Int
    BY <1>1 DEF Addr, Base
<1>4. \A a \in Starts : a \in Int /\ extent[a] \in Int /\ 0 <= a /\ 0 < extent[a]
                        /\ a + extent[a] <= Top
    BY DEF Layout, Tiled
<1>5. \A a \in Starts : a < Top /\ a # Base
    BY <1>2, <1>4 DEF Base
<1>6. \A a, b \in Starts : a < b => a + extent[a] <= b
    BY DEF Layout, Tiled
<1>7. \A h \in Starts : extent[h] = IF h \in pages THEN PageUnits ELSE size[h]
    BY DEF extent
<1>8. \A h \in Free \ {Base} : h \in Starts /\ extent[h] = size[h] /\ h \notin used \cup pages
    BY <1>7 DEF Starts, Layout
<1>9. \A h \in used : h \in Starts /\ extent[h] = size[h] /\ h # Base /\ h \notin pages
    BY <1>5, <1>7 DEF Starts, Layout
<1>10. \A h \in Moving : h \in Starts /\ extent[h] = size[h] /\ h # Base /\ h \in DOMAIN size
                         /\ h \notin Free \cup used \cup pages
    BY <1>5, <1>7 DEF Starts, Layout
<1>11. \A h \in pages : h \in Starts /\ extent[h] = PageUnits /\ h # Base
    BY <1>5, <1>7 DEF Starts
<1> QED
    BY <1>1, <1>2, <1>3, <1>4, <1>5, <1>6, <1>8, <1>9, <1>10, <1>11, PageAssumption

(* Nothing overlaps.                                                          *)
LEMMA NoOverlapFromLayout == TypeOK /\ Layout => NoOverlap
<1> SUFFICES ASSUME TypeOK, Layout PROVE NoOverlap
    OBVIOUS
<1>1. \A r \in Regions : r.at \in Starts /\ r.len = extent[r.at]
    BY AddressFacts DEF Regions, Held, Block, Page
<1>2. \A r \in Regions : 0 <= r.at /\ 0 < r.len /\ r.at + r.len <= heap * PageUnits
    BY <1>1, AddressFacts DEF Top
<1>3. \A r, s \in Regions : r.at < s.at => r.at + r.len <= s.at
    BY <1>1, AddressFacts
<1> QED
    BY <1>2, <1>3 DEF NoOverlap, Layout

(* The list is in order.                                                      *)
LEMMA ListFromIInv == IInv => ListInOrder
    BY DEF IInv, Healthy, ListExists, Ordered, ListInOrder

-----------------------------------------------------------------------------
(* Steps that move pointers only. *)

(* A step that leaves blocks and pages alone.                                 *)
LEMMA SameLayout ==
    ASSUME Layout, UNCHANGED <<next, size, heap, used, pages>>, Moving' = Moving
    PROVE  Layout' /\ UNCHANGED <<Starts, extent, Top>>
<1>1. Starts' = Starts /\ Top' = Top
    BY DEF Starts, Top
<1>2. extent' = extent
    BY <1>1 DEF extent
<1> QED
    BY <1>1, <1>2 DEF Layout

(* kalloc and kalloc_page begin with the block behind kernel_heap_free.       *)
LEMMA EnterSearchIInv ==
    ASSUME IInv, damage = "none", pc = "idle", NEW l \in {"kalloc", "page"}, EnterSearch(l),
           UNCHANGED <<heap, frames, owned, bp, fp, ret, damage>>,
           need' \in Requests \/ (l = "page" /\ UNCHANGED need)
    PROVE  IInv'
<1>1. /\ pc' = l /\ prevp' = freep' /\ p' = next'[freep'] /\ Moving = {} /\ Moving' = {}
      /\ UNCHANGED <<used, pages>>
    BY DEF EnterSearch, Moving, owned
<1>2. TypeOK /\ Layout /\ ListExists /\ Coalesced /\ Filled(Starts, extent, Top)
    BY DEF IInv, Healthy, Whole
<1>3. Base \in Addr /\ Null # Base
    BY DEF Addr, Base, Null
<1>4. CASE freep = Null
    <2>1. /\ next' = [h \in {Base} |-> Base] /\ size' = [h \in {Base} |-> 0] /\ freep' = Base
          /\ used = {} /\ pages = {}
        BY <1>2, <1>4 DEF EnterSearch, ListExists
    <2>2. TypeOK'
        BY <1>1, <1>2, <1>3, <2>1 DEF TypeOK, Addr
    <2>3. Starts' = {}
        BY <1>1, <2>1 DEF Starts
    <2>4. Layout'
        BY <1>1, <2>1, <2>3 DEF Layout, Tiled
    <2>5. Ordered(next')
        BY <2>1 DEF Ordered, Base
    <2>6. Coalesced'
        BY <2>1 DEF Coalesced
    <2>7. Whole'
        <3>1. Starts = {} /\ Top' = Top
            BY <1>1, <1>2, <1>4, <2>1 DEF Starts, Top, ListExists
        <3> QED
            BY <1>2, <2>3, <3>1, SameFilled DEF Whole
    <2> QED
        BY <1>1, <1>3, <2>1, <2>2, <2>4, <2>5, <2>6, <2>7
        DEF IInv, Healthy, ListExists, Searching, Freeing
<1>5. CASE freep # Null
    <2>1. UNCHANGED list /\ Ordered(next) /\ freep \in Free /\ size[Base] = 0
        BY <1>2, <1>5 DEF EnterSearch, ListExists
    <2>2. next[freep] \in Free /\ Free \subseteq Addr
        BY <1>2, <2>1 DEF Ordered, TypeOK
    <2>3. TypeOK'
        BY <1>1, <1>2, <2>1, <2>2 DEF TypeOK, list
    <2>4. Layout' /\ UNCHANGED <<Starts, extent, Top>>
        BY <1>1, <1>2, <2>1, SameLayout DEF list
    <2>5. Whole'
        BY <1>2, <2>4 DEF Whole
    <2> QED
        BY <1>1, <1>2, <1>5, <2>1, <2>2, <2>3, <2>4, <2>5
        DEF IInv, Healthy, ListExists, Coalesced, Searching, Freeing, list
<1> QED
    BY <1>4, <1>5

(* kalloc and kalloc_page go on to the next block, or give up.                *)
LEMMA SearchIInv ==
    ASSUME IInv, pc \in {"kalloc", "page"},
           UNCHANGED <<list, heap, frames, owned, bp, fp, ret, damage>>,
           \/ Advance /\ UNCHANGED <<pc, need>>
           \/ pc' = "idle" /\ p' = Null /\ prevp' = Null /\ need' = 0
    PROVE  IInv'
<1>1. TypeOK /\ Layout /\ damage = "none" /\ ListExists /\ Coalesced
      /\ p \in Free /\ prevp \in Free /\ freep # Null
    BY DEF IInv, Healthy, Searching, ListExists
<1>2. next[p] \in Free /\ Free \subseteq Addr
    BY <1>1 DEF ListExists, Ordered, TypeOK
<1>3. Moving = {} /\ Moving' = {}
    BY DEF Moving
<1>4. TypeOK'
    BY <1>1, <1>2 DEF TypeOK, Advance, list, owned
<1>5. Layout' /\ UNCHANGED <<Starts, extent, Top>>
    BY <1>1, <1>3, SameLayout DEF list, owned
<1>6. ListExists'
    BY <1>1 DEF ListExists, list, owned
<1>7. Coalesced'
    BY <1>1 DEF Coalesced, list, owned
<1>8. Searching'
    BY <1>1, <1>2 DEF IInv, Healthy, Searching, Advance, list
<1>9. Whole'
    BY <1>1, <1>5 DEF IInv, Whole
<1> QED
    BY <1>1, <1>4, <1>5, <1>6, <1>7, <1>8, <1>9 DEF IInv, Healthy, Freeing

-----------------------------------------------------------------------------
(* kalloc *)

(* Neighbours on the list: the first ends before the second begins.           *)
LEMMA NeighbourFacts ==
    ASSUME TypeOK, Layout, Ordered(next), NEW h \in Free
    PROVE  /\ h \in Int /\ next[h] \in Free /\ next[h] \in Int /\ Base <= h
           /\ next[h] # Base => h < next[h]
           /\ h # Base /\ next[h] # Base => h + size[h] <= next[h]
<1>1. /\ h \in Int /\ next[h] \in Free /\ next[h] \in Int /\ Base <= h
      /\ next[h] # Base => h < next[h]
    BY DEF Ordered
<1>2. h # Base /\ next[h] # Base => h + size[h] <= next[h]
    BY <1>1, AddressFacts
<1> QED
    BY <1>1, <1>2

(* A block that fits leaves the list, or its tail leaves the block.           *)
LEMMA KallocTakeIInv == IInv /\ KallocTake => IInv'
<1> SUFFICES ASSUME IInv, KallocTake PROVE IInv'
    OBVIOUS
<1>1. /\ pc = "kalloc" /\ size[p] >= need /\ freep' = prevp /\ pc' = "idle"
      /\ p' = Null /\ prevp' = Null /\ need' = 0
      /\ UNCHANGED <<bp, fp, ret, heap, frames, pages, damage>>
      /\ Moving = {} /\ Moving' = {}
    BY DEF KallocTake, ReturnToCaller, Moving
<1>2. /\ TypeOK /\ Layout /\ Coalesced /\ damage = "none"
      /\ Ordered(next) /\ size[Base] = 0
      /\ p \in Free /\ prevp \in Free /\ next[prevp] = p /\ need \in Nat /\ need > 0
    <2>1. TypeOK /\ Layout /\ damage = "none" /\ Healthy
        BY <1>1 DEF IInv
    <2>2. p \in Free /\ prevp \in Free /\ next[prevp] = p /\ need \in Requests
        BY <1>1, <2>1 DEF Healthy, Searching
    <2>3. Ordered(next) /\ size[Base] = 0 /\ Coalesced
        BY <1>1, <2>1 DEF Healthy, ListExists
    <2> QED
        BY <2>1, <2>2, <2>3, RequestAssumption
<1>3. /\ p # Base /\ p \in Starts /\ extent[p] = size[p] /\ p \notin used \cup pages
      /\ p \in Int /\ size[p] \in Nat /\ 0 <= p /\ p + size[p] <= Top
      /\ Top <= Frames * PageUnits /\ Frames * PageUnits \in Nat /\ Top \in Nat
    BY <1>1, <1>2, AddressFacts
<1>4. prevp # p /\ next[p] \in Free
    BY <1>2, <1>3, NeighbourFacts
<1>9. Filled(Starts, extent, Top)
    BY <1>1, <1>2 DEF IInv, Whole
<1>5. CASE size[p] = need
    <2>1. /\ next' = Drop([next EXCEPT ![prevp] = next[p]], p)
          /\ used' = used \cup {p} /\ UNCHANGED size
        BY <1>5 DEF KallocTake
    <2>2. /\ DOMAIN next' = Free \ {p} /\ next'[prevp] = next[p]
          /\ \A h \in DOMAIN next' \ {prevp} : next'[h] = next[h]
        BY <1>2, <1>4, <2>1 DEF Drop
    <2>3. Ordered(next')
        BY <1>2, <1>3, <2>2, Unlink
    <2>4. TypeOK'
        <3>1. DOMAIN next' \subseteq Addr /\ (\A h \in DOMAIN next' : next'[h] \in Addr)
            BY <1>2, <1>4, <2>2 DEF TypeOK
        <3>2. /\ used' \subseteq DOMAIN size' /\ freep' \in Addr \cup {Null}
              /\ DOMAIN next' \subseteq DOMAIN size'
            BY <1>1, <1>2, <2>1, <2>2 DEF TypeOK
        <3> QED
            BY <1>1, <1>2, <2>1, <3>1, <3>2 DEF TypeOK
    <2>5. Starts' = Starts /\ extent' = extent /\ Top' = Top
        <3>1. Starts' = Starts /\ Top' = Top
            BY <1>1, <1>2, <1>3, <2>1, <2>2 DEF Starts, Top
        <3> QED
            BY <1>1, <2>1, <3>1 DEF extent
    <2>6. Layout'
        <3>1. Tiled(Starts', extent', Top')
            BY <1>2, <2>5 DEF Layout
        <3>2. Free \cap used = {} /\ pages \cap (Free \cup used) = {}
            BY <1>2 DEF Layout
        <3>3. Free' \cap used' = {} /\ pages' \cap (Free' \cup used') = {}
            BY <1>1, <1>3, <2>1, <2>2, <3>2
        <3> QED
            BY <1>1, <3>1, <3>3 DEF Layout
    <2>7. Coalesced'
        <3> SUFFICES ASSUME NEW h \in DOMAIN next' \ {Base} PROVE h + size[h] # next'[h]
            BY <2>1 DEF Coalesced
        <3>1. CASE h = prevp
            <4>1. prevp + size[prevp] <= p
                BY <1>2, <1>3, <3>1, NeighbourFacts
            <4>2. next[p] = Base \/ p < next[p]
                BY <1>2, NeighbourFacts
            <4>3. prevp \in Int /\ size[prevp] \in Nat /\ prevp # Base /\ Base < prevp
                  /\ next[p] \in Int
                BY <1>2, <3>1, AddressFacts, NeighbourFacts DEF Base
            <4> QED
                BY <1>3, <2>2, <3>1, <4>1, <4>2, <4>3
        <3>2. CASE h # prevp
            BY <1>2, <2>2, <3>2 DEF Coalesced
        <3> QED
            BY <3>1, <3>2
    <2>8. Healthy'
        <3>1. freep' \in DOMAIN next' /\ freep' # Null /\ size'[Base] = 0
            BY <1>1, <1>2, <1>4, <2>1, <2>2, NeighbourFacts DEF Base, Null
        <3>2. ListExists'
            BY <1>1, <2>3, <3>1 DEF ListExists
        <3> QED
            BY <1>1, <2>7, <3>2 DEF Healthy, Searching, Freeing
    <2>9. Whole'
        BY <1>9, <2>5 DEF Whole
    <2> QED
        BY <1>1, <1>2, <2>4, <2>6, <2>8, <2>9 DEF IInv
<1>6. CASE size[p] # need
    <2> DEFINE k == size[p] - need
               c == p + k
    <2>1. /\ size' = Put([size EXCEPT ![p] = k], c, need)
          /\ used' = used \cup {c} /\ UNCHANGED next
        BY <1>6 DEF KallocTake, Cut
    <2>2. k \in Int /\ 0 < k /\ k < size[p] /\ c \in Int
        BY <1>1, <1>2, <1>3, <1>6
    <2> HIDE DEF k
    <2>3. p \in DOMAIN size /\ c # p /\ Free \subseteq DOMAIN size /\ used \subseteq DOMAIN size
        BY <1>2, <2>2, AddressFacts
    <2>4. /\ DOMAIN size' = DOMAIN size \cup {c} /\ size'[p] = k /\ size'[c] = need
          /\ \A h \in DOMAIN size \ {p, c} : size'[h] = size[h]
        BY <2>1, <2>3 DEF Put
    <2>5. need = size[p] - k
        BY <1>2, <1>3 DEF k
    <2> HIDE DEF c
    <2>6. c = p + k
        BY DEF c
    <2>7. Starts' = Starts \cup {c} /\ Top' = Top
        BY <1>1, <2>1, <2>2, <1>3 DEF Starts, Top, Base, c
    <2>8. /\ extent'[p] = k /\ extent'[c] = extent[p] - k
          /\ \A a \in Starts \ {p} : extent'[a] = extent[a]
          /\ c \notin Starts /\ Tiled(Starts', extent', Top')
          /\ Filled(Starts', extent', Top')
        <3>1. c \notin Starts
            <4>1. \A a, b \in Starts : a < b => a + extent[a] <= b
                BY <1>2, AddressFacts
            <4>2. p < c /\ c < p + extent[p]
                BY <1>3, <2>2, <2>6
            <4> QED
                BY <1>3, <2>2, <4>1, <4>2
        <3>2. c \notin pages
            BY <3>1 DEF Starts
        <3>3. \A a \in Starts' : extent'[a] = IF a \in pages THEN PageUnits ELSE size'[a]
            BY <1>1 DEF extent
        <3>4. extent'[p] = k /\ extent'[c] = extent[p] - k
            BY <1>3, <2>4, <2>5, <2>7, <3>2, <3>3
        <3>5. ASSUME NEW a \in Starts \ {p}
              PROVE  extent'[a] = extent[a]
            <4>1. a # c /\ a \in Starts'
                BY <2>7, <3>1
            <4>2. a \in pages \/ a \in DOMAIN size
                BY <1>1, <2>3 DEF Starts
            <4>3. extent[a] = IF a \in pages THEN PageUnits ELSE size[a]
                BY DEF extent
            <4> QED
                BY <2>4, <3>3, <4>1, <4>2, <4>3
        <3>6. Tiled(Starts, extent, Top)
            BY <1>2 DEF Layout
        <3>7. /\ Starts' = Starts \cup {p + k} /\ extent'[p] = k
              /\ extent'[p + k] = extent[p] - k /\ Top \in Int
              /\ p \in Starts /\ k \in Int /\ 0 < k /\ k < extent[p]
            BY <1>3, <2>2, <2>6, <2>7, <3>4
        <3>8. /\ Tiled(Starts', extent', Top)
              /\ Filled(Starts, extent, Top) => Filled(Starts', extent', Top)
            BY <3>5, <3>6, <3>7, CutInTwo
        <3> QED
            BY <1>9, <2>7, <3>1, <3>4, <3>5, <3>8
    <2>9. TypeOK'
        <3>1. c \in 0 .. Frames * PageUnits
            BY <1>3, <2>2, <2>6
        <3>2. DOMAIN size' \subseteq Addr /\ \A h \in DOMAIN size' : size'[h] \in Nat
            BY <1>2, <2>2, <2>4, <3>1 DEF TypeOK, Addr
        <3>3. /\ used' \subseteq DOMAIN size' /\ freep' \in Addr \cup {Null}
              /\ Free \subseteq DOMAIN size'
            BY <1>1, <1>2, <2>1, <2>4 DEF TypeOK
        <3> QED
            BY <1>1, <1>2, <2>1, <3>2, <3>3 DEF TypeOK
    <2>10. Layout'
        <3>1. c \notin Free /\ c \notin pages
            BY <2>8, <1>3, <2>2, <2>6 DEF Starts, Base
        <3> QED
            BY <1>1, <1>2, <2>1, <2>8, <3>1 DEF Layout
    <2>11. Coalesced'
        <3> SUFFICES ASSUME NEW h \in Free \ {Base} PROVE h + size'[h] # next[h]
            BY <2>1 DEF Coalesced
        <3>1. CASE h = p
            <4>1. next[p] # c
                BY <1>3, <1>4, <2>2, <2>6, <2>8 DEF Starts, Base
            <4> QED
                BY <2>4, <2>6, <3>1, <4>1
        <3>2. CASE h # p
            <4>1. size'[h] = size[h]
                BY <2>3, <2>4, <2>8, <3>2, <1>2, AddressFacts
            <4> QED
                BY <1>2, <4>1 DEF Coalesced
        <3> QED
            BY <3>1, <3>2
    <2>12. Healthy'
        <3>1. freep' # Null
            BY <1>1, <1>2, NeighbourFacts DEF Base, Null
        <3>2. size'[Base] = 0
            BY <1>2, <1>3, <2>2, <2>3, <2>4, <2>6 DEF Ordered, Base
        <3>3. ListExists'
            BY <1>1, <1>2, <2>1, <3>1, <3>2 DEF ListExists
        <3> QED
            BY <1>1, <2>11, <3>3 DEF Healthy, Searching, Freeing
    <2>13. Whole'
        BY <2>8 DEF Whole
    <2> QED
        BY <1>1, <1>2, <2>9, <2>10, <2>12, <2>13 DEF IInv
<1> QED
    BY <1>5, <1>6

-----------------------------------------------------------------------------
(* kbrk, kfree and kfree_page, up to the loop of kfree *)

(* A page behind all others, on its way to the list.                          *)
LEMMA GrowIInv ==
    ASSUME IInv, damage = "none", NEW r \in {"idle", "kalloc"}, pc = r, Grow(r),
           p # freep => r = "idle",
           UNCHANGED <<owned, p, prevp, need, damage>>
    PROVE  IInv'
<1>1. /\ frames > 0 /\ frames' = frames - 1 /\ heap' = heap + 1
      /\ size' = Put(size, Top, PageUnits) /\ bp' = Top /\ fp' = freep /\ ret' = r
      /\ pc' = IF freep = Null THEN "fault" ELSE "kfree"
      /\ UNCHANGED <<next, freep, used, pages, p, prevp, need, damage>>
    BY DEF Grow, MapPage, EnterFree, owned, Top
<1>2. TypeOK /\ Layout /\ ListExists /\ Coalesced /\ Searching /\ Moving = {}
    BY DEF IInv, Healthy, Moving
<1>3. /\ heap \in Nat /\ frames \in Nat /\ heap + frames = Frames
      /\ Free \subseteq DOMAIN size /\ used \subseteq DOMAIN size
      /\ PageUnits \in Nat /\ PageUnits > 0
    BY <1>2, PageAssumption DEF TypeOK
<1>4. /\ Top \in Nat /\ Top' = Top + PageUnits
      /\ Top \in 0 .. Frames * PageUnits
    <2>1. /\ Top \in Nat /\ (heap + 1) * PageUnits = Top + PageUnits
          /\ Top + PageUnits <= Frames * PageUnits
        BY <1>1, <1>3, TopFacts
    <2>2. Frames * PageUnits \in Nat
        BY <1>3, FramesAssumption
    <2> QED
        BY <1>1, <1>3, <2>1, <2>2 DEF Top
<1>5. \A a \in Starts : a # Top
    BY <1>2, AddressFacts
<1>6. /\ DOMAIN size' = DOMAIN size \cup {Top} /\ size'[Top] = PageUnits
      /\ \A h \in DOMAIN size \ {Top} : size'[h] = size[h]
    BY <1>1 DEF Put
<1>7. \A h \in Free \cup used \cup pages : h # Top
    BY <1>4, <1>5 DEF Starts, Base
<1>8. TypeOK'
    <2>1. DOMAIN size' \subseteq Addr /\ \A h \in DOMAIN size' : size'[h] \in Nat
        BY <1>2, <1>3, <1>4, <1>6 DEF TypeOK, Addr
    <2>2. heap' \in Nat /\ frames' \in Nat /\ heap' + frames' = Frames
        BY <1>1, <1>3
    <2>3. bp' \in Addr \cup {Null} /\ fp' \in Addr \cup {Null}
        BY <1>1, <1>2, <1>4 DEF TypeOK, Addr
    <2> QED
        BY <1>1, <1>2, <1>6, <2>1, <2>2, <2>3 DEF TypeOK
<1>9. CASE freep = Null
    <2>1. Free = {} /\ used = {} /\ pages = {} /\ pc' = "fault"
        BY <1>1, <1>2, <1>9 DEF ListExists
    <2>2. Starts' = {} /\ Moving' = {}
        BY <1>1, <2>1 DEF Starts, Moving
    <2>3. Layout'
        BY <1>1, <2>1, <2>2 DEF Layout, Tiled
    <2>4. ListExists' /\ Coalesced'
        BY <1>1, <1>9, <2>1 DEF ListExists, Coalesced
    <2> QED
        BY <1>1, <1>8, <2>1, <2>3, <2>4 DEF IInv, Healthy, Searching, Freeing, Whole
<1>10. CASE freep # Null
    <2>1. pc' = "kfree" /\ Moving' = {Top}
        BY <1>1, <1>10 DEF Moving
    <2>2. Starts' = Starts \cup {Top}
        BY <1>1, <1>2, <2>1 DEF Starts
    <2>3. \A a \in Starts' : extent'[a] = IF a \in pages THEN PageUnits ELSE size'[a]
        BY <1>1 DEF extent
    <2>4. extent'[Top] = PageUnits
        BY <1>6, <1>7, <2>2, <2>3
    <2>5. ASSUME NEW a \in Starts
          PROVE  extent'[a] = extent[a]
        <3>1. a # Top /\ (a \in pages \/ a \in DOMAIN size)
            BY <1>2, <1>3, <1>5 DEF Starts
        <3>2. extent[a] = IF a \in pages THEN PageUnits ELSE size[a]
            BY DEF extent
        <3> QED
            BY <1>6, <2>2, <2>3, <3>1, <3>2
    <2>6. Tiled(Starts', extent', Top') /\ Filled(Starts', extent', Top')
        <3>1. Tiled(Starts, extent, Top) /\ Top \in Int /\ 0 <= Top /\ PageUnits \in Int
              /\ Filled(Starts, extent, Top)
            BY <1>2, <1>3, <1>4 DEF Layout, IInv, Whole
        <3>2. Tiled(Starts', extent', Top + PageUnits) /\ Filled(Starts', extent', Top + PageUnits)
            BY <1>3, <2>2, <2>4, <2>5, <3>1, Extended
        <3> QED
            BY <1>4, <3>2
    <2>7. Layout'
        BY <1>1, <1>2, <1>6, <1>7, <2>1, <2>6 DEF Layout
    <2>8. Ordered(next) /\ freep \in Free /\ size[Base] = 0
        BY <1>2, <1>10 DEF ListExists
    <2>9. ListExists' /\ Coalesced'
        <3>1. \A h \in Free : size'[h] = size[h]
            BY <1>3, <1>6, <1>7
        <3>2. Base \in Free
            BY <2>8 DEF Ordered
        <3> QED
            BY <1>1, <1>2, <1>10, <2>1, <2>8, <3>1, <3>2 DEF ListExists, Coalesced
    <2>10. Freeing'
        <3>1. \A h \in Free : h < Top
            BY <1>2, <1>4, AddressFacts DEF Base
        <3>2. r = "kalloc" => p \in Free /\ need \in Requests
            BY <1>2 DEF Searching
        <3> QED
            BY <1>1, <2>1, <2>8, <3>1, <3>2 DEF Freeing
    <2> QED
        BY <1>1, <1>8, <2>1, <2>6, <2>7, <2>9, <2>10 DEF IInv, Healthy, Searching, Whole
<1> QED
    BY <1>9, <1>10

(* The block or page a client gives back becomes the block on its way.        *)
LEMMA EnterFreeIInv ==
    ASSUME IInv, damage = "none", pc = "idle", NEW b \in used \cup pages, EnterFree(b, "idle"),
           UNCHANGED <<heap, frames, p, prevp, need, damage>>,
           \/ b \in used /\ used' = used \ {b} /\ UNCHANGED <<size, pages>>
           \/ b \in pages /\ pages' = pages \ {b} /\ size' = Put(size, b, PageUnits)
              /\ UNCHANGED used
    PROVE  IInv'
<1>1. TypeOK /\ Layout /\ ListExists /\ Coalesced /\ Moving = {}
    BY DEF IInv, Healthy, Moving
<1>2. Ordered(next) /\ freep \in Free /\ size[Base] = 0 /\ freep # Null
    BY <1>1 DEF ListExists
<1>3. bp' = b /\ fp' = freep /\ ret' = "idle" /\ pc' = "kfree" /\ UNCHANGED <<next, freep>>
      /\ Moving' = {b}
    BY <1>2 DEF EnterFree, Moving
<1>4. /\ b \in Starts /\ b \in Int /\ 0 <= b /\ b < Top /\ b \notin Free
      /\ b \in used => b \notin pages
      /\ Top \in Nat /\ Top <= Frames * PageUnits /\ Frames * PageUnits \in Nat
      /\ PageUnits \in Nat
      /\ Free \subseteq DOMAIN size /\ used \subseteq DOMAIN size
    BY <1>1, AddressFacts DEF Layout
<1>5. b \in Addr
    BY <1>4 DEF Addr
<1>6. /\ \A h \in DOMAIN size \ {b} : h \in DOMAIN size' /\ size'[h] = size[h]
      /\ b \in DOMAIN size' /\ DOMAIN size' \subseteq DOMAIN size \cup {b}
      /\ b \in used => size'[b] = size[b]
      /\ b \in pages => size'[b] = PageUnits
    BY <1>4 DEF Put
<1>7. TypeOK'
    <2>1. \A h \in DOMAIN size' : size'[h] \in Nat
        BY <1>1, <1>4, <1>6 DEF TypeOK
    <2>2. DOMAIN size' \subseteq Addr /\ Free \subseteq DOMAIN size'
        BY <1>1, <1>4, <1>5, <1>6 DEF TypeOK
    <2>3. used' \subseteq DOMAIN size' /\ pages' \subseteq Addr
        BY <1>1, <1>4, <1>6 DEF TypeOK
    <2> QED
        BY <1>1, <1>3, <1>5, <2>1, <2>2, <2>3 DEF TypeOK
<1>8. Starts' = Starts
    BY <1>1, <1>3, <1>4 DEF Starts, Base
<1>9. \A a \in Starts : extent'[a] = extent[a]
    <2> SUFFICES ASSUME NEW a \in Starts PROVE extent'[a] = extent[a]
        OBVIOUS
    <2>1. /\ extent[a] = IF a \in pages THEN PageUnits ELSE size[a]
          /\ extent'[a] = IF a \in pages' THEN PageUnits ELSE size'[a]
        BY <1>8 DEF extent
    <2>2. a \in pages \/ a \in DOMAIN size
        BY <1>1, <1>4 DEF Starts
    <2>3. CASE a = b
        BY <1>4, <1>6, <2>1, <2>3
    <2>4. CASE a # b
        BY <1>6, <2>1, <2>2, <2>4
    <2> QED
        BY <2>3, <2>4
<1>10. Layout'
    <2>1. Tiled(Starts', extent', Top')
        BY <1>1, <1>8, <1>9, Fewer DEF Layout, Top
    <2> QED
        BY <1>1, <1>3, <1>4, <1>6, <2>1 DEF Layout
<1>11. ListExists' /\ Coalesced' /\ Freeing'
    <2>1. \A h \in Free : size'[h] = size[h]
        BY <1>4, <1>6
    <2>2. Base \in Free
        BY <1>2 DEF Ordered
    <2> QED
        BY <1>1, <1>2, <1>3, <2>1, <2>2 DEF ListExists, Coalesced, Freeing
<1>12. Whole'
    <2>1. Filled(Starts, extent, Top) /\ Top' = Top
        BY DEF IInv, Whole, Top
    <2> QED
        BY <1>8, <1>9, <2>1, SameFilled DEF Whole
<1> QED
    BY <1>3, <1>7, <1>10, <1>11, <1>12 DEF IInv, Healthy, Searching

(* kfree goes on to the next block.                                           *)
LEMMA KfreeNextIInv == IInv /\ KfreeNext => IInv'
<1> SUFFICES ASSUME IInv, KfreeNext PROVE IInv'
    OBVIOUS
<1>1. /\ pc = "kfree" /\ fp' = next[fp]
      /\ UNCHANGED <<next, size, freep, heap, frames, used, pages, pc, p, prevp, need, bp,
                     ret, damage>>
    BY DEF KfreeNext, list, owned
<1>2. TypeOK /\ Layout /\ damage = "none" /\ Healthy
    BY <1>1 DEF IInv
<1>3. fp \in Free /\ Ordered(next)
    BY <1>1, <1>2 DEF Healthy, Freeing, ListExists
<1>4. next[fp] \in Free /\ Free \subseteq Addr
    BY <1>2, <1>3 DEF Ordered, TypeOK
<1>5. TypeOK'
    BY <1>1, <1>2, <1>4 DEF TypeOK
<1>6. Layout' /\ UNCHANGED <<Starts, extent, Top>>
    <2>1. Moving' = Moving
        BY <1>1 DEF Moving
    <2> QED
        BY <1>1, <1>2, <2>1, SameLayout
<1>7. Healthy'
    BY <1>1, <1>2, <1>4 DEF Healthy, ListExists, Coalesced, Searching, Freeing
<1>8. Whole'
    BY <1>1, <1>6 DEF IInv, Whole
<1> QED
    BY <1>1, <1>2, <1>5, <1>6, <1>7, <1>8 DEF IInv

-----------------------------------------------------------------------------
(* kfree links a block in and merges it with its neighbours. *)

(* The order depends on the pointers alone.                                   *)
LEMMA SameOrder ==
    ASSUME NEW n, NEW m, Ordered(n), DOMAIN m = DOMAIN n, \A h \in DOMAIN n : m[h] = n[h]
    PROVE  Ordered(m)
    BY DEF Ordered

(* The place kfree has found is between two neighbours.                       *)
LEMMA PlaceFacts ==
    ASSUME TypeOK, Layout, Healthy, pc = "kfree", PlaceFound
    PROVE  /\ Ordered(next) /\ freep \in Free /\ size[Base] = 0
           /\ fp \in Free /\ next[fp] \in Free /\ bp \notin Free \cup used \cup pages
           /\ bp \in Starts /\ bp \in DOMAIN size /\ extent[bp] = size[bp] /\ bp \in Int /\ 0 <= bp
           /\ fp < bp /\ (next[fp] = Base \/ bp < next[fp])
           /\ fp + size[fp] = bp => fp # Base
           /\ JoinsNext => next[fp] # Base /\ next[fp] # fp
<1>1. Ordered(next) /\ freep \in Free /\ size[Base] = 0 /\ fp \in Free
    BY DEF Healthy, ListExists, Freeing
<1>2. bp \in Moving
    BY DEF Moving
<1>3. /\ bp \in Starts /\ bp \in DOMAIN size /\ extent[bp] = size[bp] /\ bp \in Int /\ 0 <= bp
      /\ bp \notin Free \cup used \cup pages /\ bp # Base /\ size[bp] \in Nat
    BY <1>2, AddressFacts
<1>4. /\ fp \in Int /\ next[fp] \in Free /\ next[fp] \in Int /\ Base <= fp /\ Base <= next[fp]
      /\ next[fp] # Base => fp < next[fp]
    BY <1>1, NeighbourFacts DEF Ordered
<1>5. fp < bp /\ (next[fp] = Base \/ bp < next[fp])
    BY <1>3, <1>4 DEF PlaceFound, Base
<1>6. fp + size[fp] = bp => fp # Base
    BY <1>1, <1>3 DEF Base
<1>7. JoinsNext => next[fp] # Base /\ next[fp] # fp
    BY <1>3, <1>4, <1>5 DEF JoinsNext, Base
<1> QED
    BY <1>1, <1>3, <1>4, <1>5, <1>6, <1>7

(* The block on its way joins the list, with or without its neighbours.        *)
LEMMA KfreeInsertIInv == IInv /\ KfreeInsert => IInv'
<1> SUFFICES ASSUME IInv, KfreeInsert PROVE IInv'
    OBVIOUS
<1> DEFINE nx        == next[fp]
           joinsPrev == fp + size[fp] = bp
           linkB     == IF JoinsNext THEN next[nx] ELSE nx
           sizeB     == IF JoinsNext THEN size[bp] + size[nx] ELSE size[bp]
           next1     == IF JoinsNext THEN Drop(next, nx) ELSE next
           size1     == IF JoinsNext THEN Drop(size, nx) ELSE size
           gone      == IF JoinsNext THEN {nx} ELSE {}
<1>1. /\ pc = "kfree" /\ PlaceFound
      /\ IF joinsPrev
         THEN /\ next' = [next1 EXCEPT ![fp] = linkB]
              /\ size' = Drop([size1 EXCEPT ![fp] = size[fp] + sizeB], bp)
         ELSE /\ next' = Put([next1 EXCEPT ![fp] = bp], bp, linkB)
              /\ size' = [size1 EXCEPT ![bp] = sizeB]
      /\ freep' = fp
      /\ IF ret = "kalloc"
         THEN pc' = "kalloc" /\ prevp' = p /\ p' = next'[p]
         ELSE pc' = "idle" /\ UNCHANGED <<p, prevp>>
    BY DEF KfreeInsert
<1>2. /\ bp' = Null /\ fp' = Null /\ ret' = "idle" /\ Moving' = {}
      /\ UNCHANGED <<heap, frames, used, pages, need, damage>>
    BY <1>1 DEF KfreeInsert, owned, Moving
<1>3. TypeOK /\ Layout /\ damage = "none" /\ Healthy /\ Coalesced
    BY <1>1 DEF IInv, Healthy
<1>4. /\ Ordered(next) /\ freep \in Free /\ size[Base] = 0
      /\ fp \in Free /\ nx \in Free /\ bp \notin Free \cup used \cup pages
      /\ bp \in Starts /\ bp \in DOMAIN size /\ extent[bp] = size[bp] /\ bp \in Int /\ 0 <= bp
      /\ fp < bp /\ (nx = Base \/ bp < nx)
      /\ joinsPrev => fp # Base
      /\ JoinsNext => nx # Base /\ nx # fp
    BY <1>1, <1>3, PlaceFacts
<1>5. /\ Free \subseteq DOMAIN size /\ used \subseteq DOMAIN size
      /\ DOMAIN size \subseteq Int /\ \A h \in DOMAIN size : size[h] \in Nat
      /\ fp \in Int /\ Base <= fp /\ Moving = {bp}
    BY <1>1, <1>3, <1>4, AddressFacts, NeighbourFacts DEF Moving
<1>6. JoinsNext => bp + size[bp] = nx
    BY DEF JoinsNext
<1> HIDE DEF nx, joinsPrev
\* the list without the upper neighbour
<1>7. PICK mid :
        /\ Ordered(mid) /\ DOMAIN mid = Free \ gone /\ mid[fp] = linkB
        /\ linkB = Base \/ bp < linkB
        /\ \A h \in (Free \ gone) \ {fp} : mid[h] = next[h]
    <2>1. CASE JoinsNext
        <3> DEFINE n == [h \in Free \ {nx} |-> IF h = fp THEN next[nx] ELSE next[h]]
        <3>1. DOMAIN n = Free \ {nx} /\ n[fp] = next[nx] /\ \A h \in DOMAIN n \ {fp} : n[h] = next[h]
            BY <1>4, <2>1
        <3> HIDE DEF n
        <3>2. Ordered(n) /\ (next[nx] = Base \/ nx < next[nx])
            BY <1>4, <2>1, <3>1, Unlink DEF nx
        <3>3. next[nx] = Base \/ bp < next[nx]
            BY <1>4, <2>1, <3>2, NeighbourFacts, <1>3
        <3> WITNESS n
        <3> QED
            BY <2>1, <3>1, <3>2, <3>3
    <2>2. CASE ~ JoinsNext
        <3> WITNESS next
        <3> QED
            BY <1>4, <2>2 DEF nx
    <2> QED
        BY <2>1, <2>2
<1>8. /\ Ordered(next') /\ DOMAIN next' = (Free \ gone) \cup (IF joinsPrev THEN {} ELSE {bp})
      /\ \A h \in (Free \ gone) \ {fp} : next'[h] = next[h]
      /\ (joinsPrev => next'[fp] = linkB)
      /\ (~ joinsPrev => next'[fp] = bp /\ next'[bp] = linkB)
    <2>1. DOMAIN next1 = Free \ gone /\ \A h \in DOMAIN next1 : next1[h] = next[h]
        BY DEF Drop
    <2> HIDE DEF next1, linkB, gone
    <2>2. fp \in Free \ gone /\ bp \notin Free \ gone
        BY <1>4 DEF gone
    <2>3. CASE joinsPrev
        <3>1. next' = [next1 EXCEPT ![fp] = linkB]
            BY <1>1, <2>3
        <3>2. DOMAIN next' = DOMAIN mid /\ \A h \in DOMAIN mid : next'[h] = mid[h]
            BY <1>7, <2>1, <2>2, <3>1
        <3>3. Ordered(next')
            BY <1>7, <3>2, SameOrder
        <3> QED
            BY <1>7, <2>2, <2>3, <3>2, <3>3
    <2>4. CASE ~ joinsPrev
        <3>1. next' = Put([next1 EXCEPT ![fp] = bp], bp, linkB)
            BY <1>1, <2>4
        <3>2. /\ DOMAIN next' = (Free \ gone) \cup {bp} /\ next'[fp] = bp /\ next'[bp] = linkB
              /\ \A h \in (Free \ gone) \ {fp} : next'[h] = next[h]
            BY <2>1, <2>2, <3>1 DEF Put
        <3>3. Ordered(next')
            BY <1>4, <1>7, <2>2, <3>2, LinkIn
        <3> QED
            BY <2>4, <3>2, <3>3
    <2> QED
        BY <2>3, <2>4
<1>9. /\ DOMAIN size' = (DOMAIN size \ gone) \ (IF joinsPrev THEN {bp} ELSE {})
      /\ \A h \in (DOMAIN size \ gone) \ {fp, bp} : size'[h] = size[h]
      /\ joinsPrev => size'[fp] = size[fp] + sizeB
      /\ ~ joinsPrev => size'[bp] = sizeB /\ size'[fp] = size[fp]
      /\ fp \in DOMAIN size \ gone /\ bp \in DOMAIN size \ gone /\ sizeB \in Nat
    <2>1. DOMAIN size1 = DOMAIN size \ gone /\ \A h \in DOMAIN size1 : size1[h] = size[h]
        BY DEF Drop
    <2>2. sizeB \in Nat
        BY <1>4, <1>5
    <2>3. fp \in DOMAIN size \ gone /\ bp \in DOMAIN size \ gone /\ fp # bp
        BY <1>4, <1>5
    <2> HIDE DEF size1, sizeB, gone
    <2>4. CASE joinsPrev
        <3>1. size' = Drop([size1 EXCEPT ![fp] = size[fp] + sizeB], bp)
            BY <1>1, <2>4
        <3> QED
            BY <2>1, <2>2, <2>3, <2>4, <3>1 DEF Drop
    <2>5. CASE ~ joinsPrev
        <3>1. size' = [size1 EXCEPT ![bp] = sizeB]
            BY <1>1, <2>5
        <3> QED
            BY <2>1, <2>2, <2>3, <2>5, <3>1
    <2> QED
        BY <2>4, <2>5
<1>10. TypeOK'
    <2>1. bp \in Addr /\ DOMAIN size \subseteq Addr /\ Free \subseteq Addr
        BY <1>3, <1>4 DEF TypeOK
    <2>2. DOMAIN next' \subseteq Addr /\ \A h \in DOMAIN next' : next'[h] \in Addr
        <3>1. DOMAIN next' \subseteq Addr
            BY <1>8, <2>1
        <3> QED
            BY <1>8, <3>1 DEF Ordered
    <2>3. DOMAIN size' \subseteq Addr /\ DOMAIN next' \subseteq DOMAIN size'
          /\ used \subseteq DOMAIN size'
        <3>1. used \cap gone = {} /\ bp \notin used
            BY <1>3, <1>4 DEF Layout
        <3> QED
            BY <1>4, <1>5, <1>8, <1>9, <2>1, <3>1
    <2>4. \A h \in DOMAIN size' : size'[h] \in Nat
        <3> HIDE DEF sizeB, gone
        <3> QED
            BY <1>4, <1>5, <1>9
    <2>5. {p', prevp', bp', fp'} \subseteq Addr \cup {Null}
        <3>1. ret = "kalloc" => p \in DOMAIN next'
            BY <1>1, <1>3, <1>4, <1>5, <1>8 DEF Healthy, Freeing
        <3> QED
            BY <1>1, <1>2, <1>3, <2>2, <3>1 DEF TypeOK
    <2>6. freep' \in Addr /\ pc' \in {"idle", "kalloc"}
        BY <1>1, <1>4, <2>1
    <2> QED
        BY <1>2, <1>3, <2>2, <2>3, <2>4, <2>5, <2>6 DEF TypeOK
<1>11. Layout' /\ Whole'
    <2>1. fp # Base => fp \in Starts /\ extent[fp] = size[fp] /\ fp \notin used \cup pages
        BY <1>3, <1>4, AddressFacts
    <2>2. JoinsNext => nx \in Starts /\ extent[nx] = size[nx] /\ nx \notin used \cup pages
        BY <1>3, <1>4, AddressFacts
    <2>3. Starts' = (Starts \ gone) \ (IF joinsPrev THEN {bp} ELSE {})
        <3>1. bp # Base /\ bp \notin used \cup pages \cup Free
            BY <1>4 DEF Base
        <3>2. gone \cap (used \cup pages) = {} /\ bp \notin gone /\ Base \notin gone
            BY <1>4, <2>2
        <3> HIDE DEF gone
        <3> QED
            BY <1>2, <1>5, <1>8, <3>1, <3>2 DEF Starts
    <2>4. PICK e :
            /\ Tiled(Starts \ gone, e, Top) /\ Filled(Starts \ gone, e, Top) /\ e[bp] = sizeB
            /\ \A a \in (Starts \ gone) \ {bp} : e[a] = extent[a]
        <3>1. Tiled(Starts, extent, Top) /\ Filled(Starts, extent, Top)
            BY <1>1, <1>3 DEF Layout, IInv, Whole
        <3>2. CASE JoinsNext
            <4> DEFINE f == [a \in Starts \ {nx} |-> IF a = bp THEN sizeB ELSE extent[a]]
            <4>1. /\ f[bp] = extent[bp] + extent[nx]
                  /\ \A a \in Starts \ {bp, nx} : f[a] = extent[a]
                BY <1>4, <2>2, <3>2
            <4>2. f[bp] = sizeB
                BY <1>4, <3>2
            <4> HIDE DEF f
            <4>3. bp + extent[bp] = nx /\ nx \in Starts /\ bp \in Starts /\ Top \in Int
                BY <1>3, <1>4, <1>6, <2>2, <3>2, AddressFacts
            <4>4. Tiled(Starts \ {nx}, f, Top) /\ Filled(Starts \ {nx}, f, Top)
                BY <3>1, <4>1, <4>3, Joined
            <4> WITNESS f
            <4> QED
                BY <3>2, <4>1, <4>2, <4>4
        <3>3. CASE ~ JoinsNext
            <4> WITNESS extent
            <4> QED
                BY <1>4, <3>1, <3>3
        <3> QED
            BY <3>2, <3>3
    <2>5. \A a \in Starts' : extent'[a] = IF a \in pages THEN PageUnits ELSE size'[a]
        BY <1>2 DEF extent
    <2>6. \A a \in Starts : extent[a] = IF a \in pages THEN PageUnits ELSE size[a]
        BY DEF extent
    <2>7. \A a \in (Starts \ gone) \ {fp, bp} : a \in Starts' /\ extent'[a] = extent[a]
        <3> SUFFICES ASSUME NEW a \in (Starts \ gone) \ {fp, bp}
                     PROVE  a \in Starts' /\ extent'[a] = extent[a]
            OBVIOUS
        <3>1. a \in Starts' /\ (a \in pages \/ a \in DOMAIN size \ gone)
            BY <1>5, <2>3 DEF Starts
        <3> QED
            BY <1>9, <2>5, <2>6, <3>1
    <2> HIDE DEF gone, sizeB
    <2>8. Tiled(Starts', extent', Top) /\ Filled(Starts', extent', Top)
        <3>1. CASE joinsPrev
            <4>1. fp # Base /\ fp \in Starts' /\ fp \in Starts \ gone /\ bp \in Starts \ gone
                  /\ fp # bp
                BY <1>4, <1>9, <2>1, <2>3, <3>1
            <4>2. extent'[fp] = e[fp] + e[bp] /\ fp + e[fp] = bp
                <5>1. extent'[fp] = size[fp] + sizeB
                    BY <1>9, <2>1, <2>5, <3>1, <4>1
                <5>2. e[fp] = size[fp] /\ e[bp] = sizeB
                    BY <2>1, <2>4, <4>1
                <5> QED
                    BY <3>1, <5>1, <5>2 DEF joinsPrev
            <4>3. Starts' = (Starts \ gone) \ {bp}
                BY <2>3, <3>1
            <4>4. \A a \in (Starts \ gone) \ {fp, bp} : extent'[a] = e[a]
                BY <2>4, <2>7
            <4>5. Top \in Int
                BY <1>3, AddressFacts
            <4> QED
                BY <2>4, <4>1, <4>2, <4>3, <4>4, <4>5, Joined
        <3>2. CASE ~ joinsPrev
            <4>1. Starts' = Starts \ gone
                BY <2>3, <3>2
            <4>2. bp \in Starts' => extent'[bp] = e[bp]
                BY <1>4, <1>9, <2>4, <2>5, <3>2
            <4>3. fp \in Starts' => extent'[fp] = e[fp]
                <5> SUFFICES ASSUME fp \in Starts' PROVE extent'[fp] = e[fp]
                    OBVIOUS
                <5>1. fp # Base /\ fp # bp
                    BY <1>3, <1>4, <4>1, AddressFacts
                <5> QED
                    BY <1>9, <2>1, <2>4, <2>5, <3>2, <4>1, <5>1
            <4>4. \A a \in Starts' : extent'[a] = e[a]
                BY <2>4, <2>7, <4>1, <4>2, <4>3
            <4> QED
                BY <2>4, <4>1, <4>4, Fewer, SameFilled
        <3> QED
            BY <3>1, <3>2
    <2>9. Top' = Top
        BY <1>2 DEF Top
    <2>10. Free' \cap used' = {} /\ pages' \cap (Free' \cup used') = {}
        <3>1. Free \cap used = {} /\ pages \cap (Free \cup used) = {}
            BY <1>3 DEF Layout
        <3> QED
            BY <1>2, <1>4, <1>8, <3>1
    <2> QED
        BY <1>2, <2>8, <2>9, <2>10 DEF Layout, Whole
<1>12. Coalesced'
    <2> SUFFICES ASSUME NEW h \in DOMAIN next' \ {Base} PROVE h + size'[h] # next'[h]
        BY DEF Coalesced
    <2>1. bp + sizeB # linkB
        <3>1. CASE JoinsNext
            <4>1. nx + size[nx] # next[nx]
                BY <1>3, <1>4, <3>1 DEF Coalesced
            <4>2. bp + (size[bp] + size[nx]) = nx + size[nx]
                BY <1>4, <1>5, <1>6, <3>1
            <4> QED
                BY <3>1, <4>1, <4>2
        <3>2. CASE ~ JoinsNext
            BY <3>2 DEF JoinsNext, nx
        <3> QED
            BY <3>1, <3>2
    <2> HIDE DEF sizeB, linkB, gone
    <2>2. CASE h = fp
        <3>1. CASE joinsPrev
            <4>1. fp + (size[fp] + sizeB) = bp + sizeB
                BY <1>4, <1>5, <1>9, <3>1 DEF joinsPrev
            <4> QED
                BY <1>8, <1>9, <2>1, <2>2, <3>1, <4>1
        <3>2. CASE ~ joinsPrev
            BY <1>8, <1>9, <2>2, <3>2 DEF joinsPrev
        <3> QED
            BY <3>1, <3>2
    <2>3. CASE h = bp
        BY <1>4, <1>8, <1>9, <2>1, <2>3
    <2>4. CASE h # fp /\ h # bp
        <3>1. h \in Free \ gone
            BY <1>8, <2>4
        <3>2. next'[h] = next[h] /\ size'[h] = size[h]
            BY <1>5, <1>8, <1>9, <2>4, <3>1
        <3> QED
            BY <1>3, <3>1, <3>2 DEF Coalesced
    <2> QED
        BY <2>2, <2>3, <2>4
<1>13. Healthy'
    <2>1. fp \in DOMAIN next' /\ Base \in DOMAIN next' /\ fp # Null
        BY <1>4, <1>5, <1>8 DEF Ordered, Base, Null
    <2>2. size'[Base] = 0
        <3>1. Base \in DOMAIN size \ gone /\ Base # bp
            BY <1>4, <1>5 DEF Ordered, Base
        <3>2. joinsPrev => Base # fp
            BY <1>4
        <3> HIDE DEF gone, sizeB
        <3> QED
            BY <1>4, <1>9, <3>1, <3>2
    <2>3. ListExists'
        BY <1>1, <1>8, <2>1, <2>2 DEF ListExists
    <2>4. Searching'
        <3> SUFFICES ASSUME ret = "kalloc"
                     PROVE  p \in DOMAIN next' /\ p' \in DOMAIN next' /\ prevp' = p /\ p' = next'[p]
                            /\ need \in Requests
            BY <1>1, <1>2 DEF Searching
        <3>1. p \in Free /\ need \in Requests /\ \A h \in Free : h < bp
            BY <1>1, <1>3 DEF Healthy, Freeing
        <3>2. ~ JoinsNext
            BY <1>4, <3>1, <1>5
        <3> QED
            BY <1>1, <1>8, <3>1, <3>2 DEF Ordered
    <2> QED
        BY <1>1, <1>12, <2>3, <2>4 DEF Healthy, Freeing
<1> QED
    BY <1>2, <1>3, <1>10, <1>11, <1>13 DEF IInv

-----------------------------------------------------------------------------
(* kalloc_page *)

(* The boundary is not below the block.                                       *)
LEMMA AlignedFacts ==
    ASSUME NEW h \in Int
    PROVE  Aligned(h) \in Int /\ Overhead(h) \in Int /\ 0 <= Overhead(h)
           /\ Aligned(h) = h + Overhead(h)
<1> DEFINE N == PageUnits
           x == h + N - 1
           d == x \div N
<1>1. N \in Nat /\ 0 < N /\ x \in Int
    BY PageAssumption
<1> HIDE DEF N
<1>2. d \in Int /\ x = (N * d) + (x % N) /\ (x % N) \in 0 .. (N - 1)
    <2> HIDE DEF x
    <2> QED
        BY <1>1
<1>3. d * N \in Int /\ N * d = d * N
    <2> HIDE DEF d
    <2> QED
        BY <1>1, <1>2
<1>4. Aligned(h) = d * N
    BY DEF Aligned, N
<1> HIDE DEF d
<1>5. h <= d * N
    BY <1>1, <1>2, <1>3
<1> QED
    BY <1>3, <1>4, <1>5 DEF Overhead

(* The page is cut out of one block, what is left stays free.                 *)
LEMMA PageTakeIInv == IInv /\ PageTake => IInv'
<1> SUFFICES ASSUME IInv, PageTake PROVE IInv'
    OBVIOUS
<1> DEFINE page  == Aligned(p)
           after == page + PageUnits
           front == Overhead(p) > 0
           back  == Nbytes(p) > PageUnits
           pred  == IF front THEN p ELSE prevp
           nextA == IF back THEN Put([next EXCEPT ![pred] = after], after, next[p])
                    ELSE Drop([next EXCEPT ![pred] = next[next[pred]]], next[pred])
           sizeA == IF front THEN [size EXCEPT ![p] = Overhead(p)] ELSE Drop(size, p)
           rest  == Nbytes(p) - PageUnits
<1>1. /\ pc = "page" /\ Nbytes(p) >= PageUnits
      /\ next' = IF front THEN nextA ELSE Drop(nextA, p)
      /\ size' = IF back THEN Put(sizeA, after, rest) ELSE sizeA
      /\ pages' = pages \cup {page}
      /\ damage' = IF front /\ ~ back THEN "skipped"
                   ELSE IF ~ front /\ freep = p THEN "stale"
                   ELSE "none"
      /\ pc' = "idle" /\ p' = Null /\ prevp' = Null /\ need' = 0
      /\ UNCHANGED <<bp, fp, ret, freep, heap, frames, used>>
    BY DEF PageTake, ReturnToCaller
<1>2. TypeOK /\ Layout /\ damage = "none" /\ Healthy /\ Moving = {} /\ Moving' = {}
    BY <1>1 DEF IInv, Moving
<1>3. /\ Ordered(next) /\ freep \in Free /\ size[Base] = 0 /\ Coalesced
      /\ p \in Free /\ prevp \in Free /\ next[prevp] = p
    BY <1>1, <1>2 DEF Healthy, ListExists, Searching
<1>4. PageUnits \in Nat /\ 0 < PageUnits /\ p \in Int /\ p \in DOMAIN size /\ size[p] \in Nat
    BY <1>2, <1>3, AddressFacts
<1>5. Overhead(p) \in Int /\ 0 <= Overhead(p) /\ page = p + Overhead(p)
    BY <1>4, AlignedFacts
<1>6. /\ Nbytes(p) = size[p] - Overhead(p) /\ Overhead(p) < size[p] /\ p # Base
      /\ Nbytes(p) \in Int
    BY <1>1, <1>3, <1>4, <1>5 DEF Nbytes
<1>7. /\ p \in Starts /\ extent[p] = size[p] /\ 0 <= p /\ p + size[p] <= Top
      /\ p \notin used \cup pages
      /\ Top \in Nat /\ Top <= Frames * PageUnits /\ Frames * PageUnits \in Nat
      /\ Free \subseteq DOMAIN size /\ used \subseteq DOMAIN size
    BY <1>2, <1>3, <1>6, AddressFacts
<1>8. prevp # p /\ next[p] \in Free
    <2>1. next[p] \in Free /\ (next[p] # Base => p < next[p])
        BY <1>2, <1>3, NeighbourFacts
    <2>2. p # next[p]
        BY <1>4, <1>6, <2>1
    <2> QED
        BY <1>3, <2>1, <2>2
<1> HIDE DEF page, pred, nextA, sizeA
<1>9. /\ page \in Int /\ after \in Int /\ after = page + PageUnits
      /\ p <= page /\ page < after /\ after + rest = p + size[p] /\ rest \in Int /\ 0 <= rest
      /\ front <=> p # page
      /\ back <=> 0 < rest
      /\ ~ back => rest = 0
    BY <1>1, <1>4, <1>5, <1>6
<1>10. front => page = p + Overhead(p) /\ 0 < Overhead(p)
    BY <1>5
<1> HIDE DEF after, front, back, rest
\* the regions the block is cut into
<1>11. PICK e1 :
        /\ Tiled(Starts \cup {page}, e1, Top) /\ e1[page] = rest + PageUnits
        /\ Filled(Starts \cup {page}, e1, Top)
        /\ front => e1[p] = Overhead(p) /\ page \notin Starts
        /\ \A a \in Starts \ {p, page} : e1[a] = extent[a]
    <2>1. Tiled(Starts, extent, Top) /\ Top \in Int /\ Filled(Starts, extent, Top)
        BY <1>1, <1>2, <1>7 DEF Layout, IInv, Whole
    <2>2. CASE front
        <3> DEFINE f == [a \in Starts \cup {page} |->
                            IF a = p THEN Overhead(p)
                            ELSE IF a = page THEN rest + PageUnits ELSE extent[a]]
                   k == Overhead(p)
        <3>1. /\ page = p + k /\ k \in Int /\ 0 < k /\ k < extent[p]
              /\ rest + PageUnits = extent[p] - k
            BY <1>4, <1>5, <1>6, <1>7, <1>9, <1>10, <2>2
        <3>2. /\ f[p] = k /\ f[p + k] = extent[p] - k /\ f[page] = rest + PageUnits
              /\ \A a \in Starts \ {p, page} : f[a] = extent[a]
            BY <1>4, <1>7, <1>9, <2>2, <3>1
        <3>3. Starts \cup {page} = Starts \cup {p + k}
            BY <3>1
        <3>4. page \notin Starts
            <4>1. \A a, b \in Starts : a < b => a + extent[a] <= b
                BY <1>2, AddressFacts
            <4>2. p < page /\ page < p + extent[p]
                BY <1>4, <1>7, <1>9, <3>1
            <4> QED
                BY <1>7, <1>9, <4>1, <4>2, <1>4
        <3> HIDE DEF f, k
        <3>5. \A a \in Starts \ {p} : f[a] = extent[a]
            BY <3>2, <3>4
        <3>6. Tiled(Starts \cup {page}, f, Top) /\ Filled(Starts \cup {page}, f, Top)
            BY <1>7, <2>1, <3>1, <3>2, <3>3, <3>5, CutInTwo
        <3> WITNESS f
        <3> QED
            BY <3>2, <3>4, <3>6 DEF k
    <2>3. CASE ~ front
        <3>1. Starts \cup {page} = Starts /\ page = p
            BY <1>7, <1>9, <2>3
        <3>2. extent[page] = rest + PageUnits
            BY <1>4, <1>7, <1>9, <3>1
        <3> WITNESS extent
        <3> QED
            BY <2>1, <2>3, <3>1, <3>2
    <2> QED
        BY <2>2, <2>3
<1>12. PICK e2 :
        /\ Tiled(Starts \cup {page} \cup (IF back THEN {after} ELSE {}), e2, Top)
        /\ Filled(Starts \cup {page} \cup (IF back THEN {after} ELSE {}), e2, Top)
        /\ e2[page] = PageUnits
        /\ back => e2[after] = rest /\ after \notin Starts
        /\ front => e2[p] = Overhead(p)
        /\ \A a \in Starts \ {p, page, after} : e2[a] = extent[a]
        /\ ~ back => \A a \in Starts \ {p, page} : e2[a] = extent[a]
    <2>1. CASE back
        <3> DEFINE S == Starts \cup {page}
                   f == [a \in S \cup {after} |->
                            IF a = page THEN PageUnits
                            ELSE IF a = after THEN rest ELSE e1[a]]
        <3>1. /\ Tiled(S, e1, Top) /\ Filled(S, e1, Top) /\ Top \in Int /\ page \in S
              /\ 0 < PageUnits /\ PageUnits < e1[page] /\ rest = e1[page] - PageUnits
              /\ after = page + PageUnits
            BY <1>4, <1>7, <1>9, <1>11, <2>1
        <3>2. f[page] = PageUnits /\ f[after] = rest
            BY <1>9
        <3>3. \A a \in S \ {page, after} : f[a] = e1[a]
            OBVIOUS
        <3>4. S \cup {after} = S \cup {page + PageUnits}
            BY <3>1
        <3> HIDE DEF f
        <3>5. after \notin S
            <4> HIDE DEF S
            <4>1. page \in Int /\ \A a, b \in S : a < b => a + e1[a] <= b
                BY <1>9, <3>1 DEF Tiled
            <4> QED
                BY <1>4, <1>9, <1>11, <2>1, <3>1, <4>1
        <3> HIDE DEF S
        <3>6. Tiled(S \cup {after}, f, Top) /\ Filled(S \cup {after}, f, Top)
            <4>1. \A a \in S \ {page} : f[a] = e1[a]
                BY <3>3, <3>5
            <4>2. f[page + PageUnits] = e1[page] - PageUnits /\ PageUnits \in Int
                BY <1>4, <3>1, <3>2
            <4> QED
                BY <3>1, <3>2, <3>4, <4>1, <4>2, CutInTwo
        <3>7. front => f[p] = Overhead(p)
            <4>1. p \in S /\ p # page /\ p # after <=> front
                BY <1>4, <1>7, <1>9 DEF S
            <4> QED
                BY <1>11, <3>3, <4>1
        <3>8. \A a \in Starts \ {p, page, after} : f[a] = extent[a]
            BY <1>11, <3>3 DEF S
        <3> WITNESS f
        <3> QED
            BY <2>1, <3>2, <3>5, <3>6, <3>7, <3>8 DEF S
    <2>2. CASE ~ back
        <3>1. e1[page] = PageUnits
            BY <1>4, <1>9, <1>11, <2>2
        <3> WITNESS e1
        <3> QED
            BY <1>11, <2>2, <3>1
    <2> QED
        BY <2>1, <2>2
<1>13. page < Top /\ page + PageUnits <= Top
    BY <1>4, <1>7, <1>9
\* the list: in two cases it breaks
<1>14. /\ DOMAIN next' \subseteq Free \cup (IF back THEN {after} ELSE {})
       /\ ~ front => p \notin DOMAIN next'
       /\ \A x \in DOMAIN next' : next'[x] \in Free \cup (IF back THEN {after} ELSE {})
    <2>1. pred \in Free /\ next[pred] \in Free /\ next[next[pred]] \in Free
        BY <1>3, <1>8 DEF Ordered, pred
    <2>2. /\ DOMAIN nextA \subseteq Free \cup (IF back THEN {after} ELSE {})
          /\ \A x \in DOMAIN nextA : nextA[x] \in Free \cup (IF back THEN {after} ELSE {})
        <3>1. CASE back
            <4>1. nextA = Put([next EXCEPT ![pred] = after], after, next[p])
                BY <3>1 DEF nextA
            <4> QED
                BY <1>3, <1>8, <2>1, <3>1, <4>1 DEF Put, Ordered
        <3>2. CASE ~ back
            <4>1. nextA = Drop([next EXCEPT ![pred] = next[next[pred]]], next[pred])
                BY <3>2 DEF nextA
            <4> QED
                BY <1>3, <2>1, <3>2, <4>1 DEF Drop, Ordered
        <3> QED
            BY <3>1, <3>2
    <2>3. CASE front
        BY <1>1, <2>2, <2>3
    <2>4. CASE ~ front
        BY <1>1, <2>2, <2>4 DEF Drop
    <2> QED
        BY <2>3, <2>4
<1>15. /\ DOMAIN size' = (DOMAIN size \ (IF front THEN {} ELSE {p}))
                         \cup (IF back THEN {after} ELSE {})
       /\ back => size'[after] = rest
       /\ front => size'[p] = Overhead(p)
       /\ \A x \in DOMAIN size \ {p} : (x = after /\ back) \/ size'[x] = size[x]
    <2>1. /\ DOMAIN sizeA = DOMAIN size \ (IF front THEN {} ELSE {p})
          /\ front => sizeA[p] = Overhead(p)
          /\ \A x \in DOMAIN size \ {p} : sizeA[x] = size[x]
        BY <1>4 DEF sizeA, Drop
    <2>2. front => p # after
        BY <1>4, <1>9
    <2> QED
        BY <1>1, <1>4, <2>1, <2>2 DEF Put
<1>16. /\ after # Base /\ page # Base
       /\ back => after \notin Starts /\ after \notin Free /\ after \in 0 .. Top
    <2>1. after # Base /\ page # Base
        BY <1>7, <1>9, <1>4 DEF Base
    <2>2. after <= Top /\ 0 <= after
        BY <1>4, <1>7, <1>9, <1>13
    <2> QED
        BY <1>9, <1>12, <2>1, <2>2, <1>7 DEF Starts
<1>17. TypeOK'
    <2>1. page \in Addr /\ (back => after \in Addr)
        BY <1>4, <1>7, <1>9, <1>13, <1>16 DEF Addr
    <2>2. DOMAIN next' \subseteq Addr /\ (\A x \in DOMAIN next' : next'[x] \in Addr)
          /\ DOMAIN next' \subseteq DOMAIN size'
        BY <1>2, <1>7, <1>14, <1>15, <2>1 DEF TypeOK
    <2>3. DOMAIN size' \subseteq Addr /\ used \subseteq DOMAIN size'
        BY <1>2, <1>7, <1>15, <2>1 DEF TypeOK
    <2>4. ASSUME NEW x \in DOMAIN size'
          PROVE  size'[x] \in Nat
        <3>1. CASE x = after /\ back
            BY <1>9, <1>15, <3>1
        <3>2. CASE ~ (x = after /\ back) /\ x = p
            BY <1>5, <1>15, <3>2
        <3>3. CASE ~ (x = after /\ back) /\ x # p
            BY <1>2, <1>15, <3>3 DEF TypeOK
        <3> QED
            BY <3>1, <3>2, <3>3
    <2>5. pages' \subseteq Addr /\ damage' \in {"none", "skipped", "stale"}
        BY <1>1, <1>2, <2>1 DEF TypeOK
    <2> QED
        BY <1>1, <1>2, <2>2, <2>3, <2>4, <2>5 DEF TypeOK
<1>18. Layout' /\ \A a \in Starts' : extent'[a] = e2[a]
    <2>1. Starts' \subseteq Starts \cup {page} \cup (IF back THEN {after} ELSE {})
        BY <1>1, <1>2, <1>14 DEF Starts
    <2>2. page \notin DOMAIN next' \cup used /\ (back => after \notin used \cup pages')
        <3>1. front => page \notin Free \cup used \cup pages
            BY <1>11, <1>16 DEF Starts
        <3>2. ~ front => page = p
            BY <1>9
        <3>3. page # after
            BY <1>9
        <3> QED
            BY <1>1, <1>7, <1>14, <1>16, <3>1, <3>2, <3>3 DEF Starts
    <2>3. ASSUME NEW a \in Starts'
          PROVE  extent'[a] = e2[a]
        <3>1. extent'[a] = IF a \in pages' THEN PageUnits ELSE size'[a]
            BY DEF extent
        <3>2. CASE a = page
            BY <1>1, <1>12, <3>1, <3>2
        <3>3. CASE a # page /\ a = after /\ back
            BY <1>12, <1>15, <2>2, <3>1, <3>3
        <3>4. CASE a # page /\ ~ (a = after /\ back) /\ a = p
            BY <1>1, <1>7, <1>9, <1>12, <1>15, <3>1, <3>4
        <3>5. CASE a # page /\ ~ (a = after /\ back) /\ a # p
            <4>1. a \in Starts
                BY <2>1, <3>5
            <4>2. e2[a] = extent[a]
                BY <1>12, <3>5, <4>1
            <4>3. extent[a] = IF a \in pages THEN PageUnits ELSE size[a]
                BY <4>1 DEF extent
            <4>4. a \in pages \/ a \in DOMAIN size
                BY <1>2, <1>7, <4>1 DEF Starts
            <4> QED
                BY <1>1, <1>15, <3>1, <3>5, <4>2, <4>3, <4>4
        <3> QED
            BY <3>2, <3>3, <3>4, <3>5
    <2>4. Tiled(Starts', extent', Top')
        <3>1. Top' = Top
            BY <1>1 DEF Top
        <3>2. \A a \in Starts' : extent'[a] = e2[a]
            BY <2>3
        <3> QED
            BY <1>12, <2>1, <3>1, <3>2, Fewer
    <2>5. Free \cap used = {} /\ pages \cap (Free \cup used) = {}
        BY <1>2 DEF Layout
    <2>6. DOMAIN next' \cap used = {} /\ pages' \cap (DOMAIN next' \cup used) = {}
        BY <1>1, <1>14, <1>16, <2>2, <2>5
    <2> QED
        BY <1>1, <1>2, <2>3, <2>4, <2>6 DEF Layout
<1>19. ASSUME damage' = "none"
       PROVE  Healthy' /\ Filled(Starts', extent', Top')
    <2>1. (~ front \/ back) /\ (~ front => freep # p)
        BY <1>1, <1>19
    <2>2. next[p] = Base \/ (p < next[p] /\ p + size[p] <= next[p])
        BY <1>2, <1>3, <1>6, NeighbourFacts
    <2>3. next[p] \in Int /\ prevp \in Int /\ Base <= prevp
          /\ (prevp # Base => prevp + size[prevp] <= p /\ 0 <= prevp /\ size[prevp] \in Nat)
        <3>1. next[p] \in Int /\ prevp \in Int /\ Base <= prevp
            BY <1>2, <1>3, NeighbourFacts
        <3>2. prevp # Base => prevp + size[prevp] <= p /\ 0 <= prevp /\ size[prevp] \in Nat
            BY <1>2, <1>3, <1>6, <3>1, NeighbourFacts, AddressFacts DEF Base
        <3> QED
            BY <3>1, <3>2
    <2>4. back => after < p + size[p] /\ p < after
        BY <1>4, <1>9
    \* the block in front of the gap, and behind
    <2>5. /\ Ordered(next') /\ pred \in DOMAIN next'
          /\ IF back THEN next'[pred] = after /\ next'[after] = next[p] /\ after \in DOMAIN next'
             ELSE next'[pred] = next[p]
          /\ \A x \in DOMAIN next' : x = pred \/ (back /\ x = after)
                                     \/ (x \in Free \ {p} /\ next'[x] = next[x])
          /\ Free \ {p} \subseteq DOMAIN next'
        <3>1. CASE front
            <4>1. pred = p /\ next' = Put([next EXCEPT ![p] = after], after, next[p]) /\ back
                BY <1>1, <2>1, <3>1 DEF pred, nextA
            <4>2. /\ DOMAIN next' = Free \cup {after} /\ next'[p] = after /\ next'[after] = next[p]
                  /\ \A x \in Free \ {p} : next'[x] = next[x]
                BY <1>3, <1>16, <4>1 DEF Put
            <4>3. p < after /\ (next[p] = Base \/ after < next[p])
                BY <1>4, <1>9, <2>2, <2>3, <2>4, <4>1
            <4>4. Ordered(next')
                BY <1>3, <1>9, <4>2, <4>3, LinkIn
            <4> QED
                BY <1>3, <4>1, <4>2, <4>4
        <3>2. CASE ~ front /\ back
            <4>1. pred = prevp /\ next' = Drop(Put([next EXCEPT ![prevp] = after], after, next[p]), p)
                BY <1>1, <3>2 DEF pred, nextA
            <4> DEFINE mid == [x \in Free \ {p} |-> IF x = prevp THEN next[p] ELSE next[x]]
            <4>2. /\ DOMAIN mid = Free \ {p} /\ mid[prevp] = next[p]
                  /\ \A x \in DOMAIN mid \ {prevp} : mid[x] = next[x]
                BY <1>3, <1>8
            <4> HIDE DEF mid
            <4>3. Ordered(mid) /\ prevp < p
                BY <1>3, <1>6, <4>2, Unlink
            <4>4. after # p
                BY <1>9, <1>4
            <4>5. /\ DOMAIN next' = DOMAIN mid \cup {after}
                  /\ next'[prevp] = after /\ next'[after] = mid[prevp]
                  /\ \A x \in DOMAIN mid \ {prevp} : next'[x] = mid[x]
                BY <1>3, <1>8, <1>16, <3>2, <4>1, <4>2, <4>4 DEF Put, Drop
            <4>6. prevp < after /\ (mid[prevp] = Base \/ after < mid[prevp])
                BY <1>4, <1>9, <2>2, <2>3, <2>4, <3>2, <4>2, <4>3
            <4>7. Ordered(next')
                BY <1>3, <1>8, <1>9, <4>2, <4>3, <4>5, <4>6, LinkIn
            <4> QED
                BY <1>3, <1>8, <3>2, <4>1, <4>2, <4>5, <4>7
        <3>3. CASE ~ front /\ ~ back
            <4>1. pred = prevp /\ next' = Drop(Drop([next EXCEPT ![prevp] = next[p]], p), p)
                BY <1>1, <1>3, <3>3 DEF pred, nextA
            <4>2. /\ DOMAIN next' = Free \ {p} /\ next'[prevp] = next[p]
                  /\ \A x \in DOMAIN next' \ {prevp} : next'[x] = next[x]
                BY <1>3, <1>8, <4>1 DEF Drop
            <4>3. Ordered(next')
                BY <1>3, <1>6, <4>2, Unlink
            <4> QED
                BY <1>3, <1>8, <3>3, <4>1, <4>2, <4>3
        <3> QED
            BY <2>1, <3>1, <3>2, <3>3
    <2>6. Coalesced'
        <3> SUFFICES ASSUME NEW x \in DOMAIN next' \ {Base} PROVE x + size'[x] # next'[x]
            BY DEF Coalesced
        <3>1. p + size[p] # next[p]
            BY <1>2, <1>3, <1>6 DEF Coalesced
        <3>2. CASE back /\ x = after
            BY <1>9, <1>15, <2>5, <3>1, <3>2
        <3>3. CASE ~ (back /\ x = after) /\ x = pred
            <4>1. CASE front
                <5>1. x = p /\ back /\ size'[p] = Overhead(p) /\ next'[p] = after
                    BY <1>15, <2>1, <2>5, <3>3, <4>1 DEF pred
                <5>2. p + Overhead(p) # after
                    BY <1>9, <1>10, <4>1
                <5> QED
                    BY <5>1, <5>2
            <4>2. CASE ~ front
                <5>1. x = prevp /\ prevp \in DOMAIN size
                    BY <1>3, <1>7, <3>3, <4>2 DEF pred
                <5>2. size'[prevp] = size[prevp] /\ prevp + size[prevp] <= p /\ 0 <= prevp
                      /\ size[prevp] \in Nat
                    BY <1>8, <1>15, <2>3, <3>3, <5>1
                <5>3. CASE back
                    BY <1>4, <1>9, <2>4, <2>5, <3>3, <5>1, <5>2, <5>3
                <5>4. CASE ~ back
                    BY <1>4, <2>2, <2>3, <2>5, <3>3, <5>1, <5>2, <5>4 DEF Base
                <5> QED
                    BY <5>3, <5>4
            <4> QED
                BY <4>1, <4>2
        <3>4. CASE ~ (back /\ x = after) /\ x # pred
            <4>1. x \in Free \ {p} /\ next'[x] = next[x] /\ x \in DOMAIN size
                BY <1>7, <2>5, <3>4
            <4> QED
                BY <1>2, <1>3, <1>15, <3>4, <4>1 DEF Coalesced
        <3> QED
            BY <3>2, <3>3, <3>4
    <2>7. ListExists'
        <3>1. freep \in DOMAIN next'
            BY <1>3, <2>1, <2>5 DEF pred
        <3>2. freep # Null
            BY <1>2, <1>3, NeighbourFacts DEF Base, Null
        <3>3. Base \in Free
            BY <1>3 DEF Ordered
        <3>4. size'[Base] = 0
            BY <1>3, <1>6, <1>7, <1>15, <1>16, <3>3
        <3> QED
            BY <1>1, <2>5, <3>1, <3>2, <3>4 DEF ListExists
    <2>8. Filled(Starts', extent', Top')
        <3>1. back => after \in DOMAIN next' \ {Base}
            BY <1>16, <2>5
        <3>2. front => p \in DOMAIN next' \ {Base}
            BY <1>6, <2>5 DEF pred
        <3>3. ~ front => p \in pages'
            BY <1>1, <1>9
        <3>4. Starts' = Starts \cup {page} \cup (IF back THEN {after} ELSE {})
            <4>1. Starts' \subseteq Starts \cup {page} \cup (IF back THEN {after} ELSE {})
                BY <1>1, <1>2, <1>14 DEF Starts
            <4>2. Starts \subseteq Starts'
                BY <1>1, <1>2, <2>5, <3>2, <3>3 DEF Starts
            <4>3. page \in Starts' /\ (back => after \in Starts')
                BY <1>1, <3>1 DEF Starts
            <4> QED
                BY <4>1, <4>2, <4>3
        <3>5. Top' = Top
            BY <1>1 DEF Top
        <3> QED
            BY <1>12, <1>18, <3>4, <3>5, SameFilled
    <2> QED
        BY <1>1, <2>6, <2>7, <2>8 DEF Healthy, Searching, Freeing
<1> QED
    BY <1>1, <1>17, <1>18, <1>19 DEF IInv, Whole

(* The page behind all others.                                                *)
LEMMA PageGrowIInv == IInv /\ PageGrow => IInv'
<1> SUFFICES ASSUME IInv, PageGrow PROVE IInv'
    OBVIOUS
<1>1. /\ pc = "page" /\ frames > 0 /\ frames' = frames - 1 /\ heap' = heap + 1
      /\ pages' = pages \cup {Top}
      /\ pc' = "idle" /\ p' = Null /\ prevp' = Null /\ need' = 0
      /\ UNCHANGED <<next, size, freep, used, damage, bp, fp, ret>>
    BY DEF PageGrow, MapPage, ReturnToCaller, list, Top
<1>2. TypeOK /\ Layout /\ damage = "none" /\ ListExists /\ Coalesced
    BY <1>1 DEF IInv, Healthy
<1>3. /\ heap \in Nat /\ frames \in Nat /\ heap + frames = Frames
      /\ used \subseteq DOMAIN size /\ Free \subseteq DOMAIN size
      /\ PageUnits \in Nat /\ PageUnits > 0
    BY <1>2, PageAssumption DEF TypeOK
<1>4. /\ Top \in Nat /\ Top' = Top + PageUnits
      /\ Top \in 0 .. Frames * PageUnits
    <2>1. /\ Top \in Nat /\ (heap + 1) * PageUnits = Top + PageUnits
          /\ Top + PageUnits <= Frames * PageUnits
        BY <1>1, <1>3, TopFacts
    <2>2. Frames * PageUnits \in Nat
        BY <1>3, FramesAssumption
    <2> QED
        BY <1>1, <1>3, <2>1, <2>2 DEF Top
<1>5. Moving = {} /\ Moving' = {} /\ Starts' = Starts \cup {Top}
    BY <1>1 DEF Moving, Starts
<1>6. \A a \in Starts : a # Top
    BY <1>2, AddressFacts
<1>7. \A h \in Free \cup used : h # Top
    BY <1>4, <1>6 DEF Starts, Base
<1>8. \A a \in Starts' : extent'[a] = IF a \in pages' THEN PageUnits ELSE size[a]
    BY <1>1 DEF extent
<1>9. extent'[Top] = PageUnits /\ \A a \in Starts : extent'[a] = extent[a]
    BY <1>1, <1>5, <1>6, <1>8 DEF extent
<1>10. Layout' /\ Whole'
    <2>1. Tiled(Starts, extent, Top) /\ Top \in Int /\ 0 <= Top /\ PageUnits \in Int
          /\ Filled(Starts, extent, Top)
        BY <1>1, <1>2, <1>3, <1>4 DEF Layout, IInv, Whole
    <2>2. Tiled(Starts', extent', Top + PageUnits) /\ Filled(Starts', extent', Top + PageUnits)
        <3>1. 0 < PageUnits /\ \A a \in Starts : extent'[a] = extent[a]
            BY <1>3, <1>9
        <3>2. extent'[Top] = PageUnits /\ Starts' = Starts \cup {Top}
            BY <1>5, <1>9
        <3> QED
            BY <2>1, <3>1, <3>2, Extended
    <2> QED
        BY <1>1, <1>2, <1>4, <1>5, <1>7, <2>2 DEF Layout, Whole
<1>11. TypeOK'
    <2>1. pages' \subseteq Addr
        BY <1>1, <1>2, <1>4 DEF TypeOK, Addr
    <2>2. heap' \in Nat /\ frames' \in Nat /\ heap' + frames' = Frames
        BY <1>1, <1>3
    <2> QED
        BY <1>1, <1>2, <2>1, <2>2 DEF TypeOK
<1>12. Healthy'
    <2>1. freep # Null
        BY <1>1, <1>2 DEF ListExists
    <2> QED
        BY <1>1, <1>2, <2>1 DEF Healthy, ListExists, Coalesced, Searching, Freeing
<1> QED
    BY <1>1, <1>2, <1>10, <1>11, <1>12 DEF IInv

-----------------------------------------------------------------------------
(* The invariant. *)

(* There is no heap and no list.                                              *)
LEMMA InitIInv == Init => IInv
<1> SUFFICES ASSUME Init PROVE IInv
    OBVIOUS
<1>1. /\ Free = {} /\ DOMAIN size = {} /\ freep = Null /\ heap = 0 /\ frames = Frames
      /\ used = {} /\ pages = {} /\ pc = "idle" /\ ret = "idle" /\ need = 0
      /\ p = Null /\ prevp = Null /\ bp = Null /\ fp = Null /\ damage = "none"
    BY DEF Init
<1>2. TypeOK
    BY <1>1, FramesAssumption DEF TypeOK
<1>3. Moving = {} /\ Starts = {}
    BY <1>1 DEF Moving, Starts
<1>4. Layout
    BY <1>1, <1>3 DEF Layout, Tiled
<1>5. Whole
    <2>1. Top = 0
        BY <1>1, PageAssumption DEF Top
    <2> QED
        BY <1>3, <2>1, TotalEmpty, FS_EmptySet DEF Whole, Filled
<1> QED
    BY <1>1, <1>2, <1>4, <1>5 DEF IInv, Healthy, ListExists, Coalesced, Searching, Freeing

(* Nothing happens.                                                           *)
LEMMA StutterIInv == IInv /\ UNCHANGED vars => IInv'
<1> SUFFICES ASSUME IInv, UNCHANGED vars PROVE IInv'
    OBVIOUS
<1>1. UNCHANGED <<next, size, freep, heap, frames, used, pages, pc, ret, p, prevp, need, bp,
                  fp, damage>>
    BY DEF vars
<1>2. TypeOK' /\ (damage' = "none" => Healthy') /\ (damage' # "none" => pc' = "idle")
    BY <1>1 DEF IInv, TypeOK, Healthy, ListExists, Coalesced, Searching, Freeing
<1>3. Layout' /\ UNCHANGED <<Starts, extent, Top>>
    <2>1. Moving' = Moving
        BY <1>1 DEF Moving
    <2> QED
        BY <1>1, <2>1, SameLayout DEF IInv
<1>4. Whole'
    BY <1>1, <1>3 DEF IInv, Whole
<1> QED
    BY <1>2, <1>3, <1>4 DEF IInv

(* A client calls, while the list is whole.                                   *)
LEMMA CallIInv == IInv /\ damage = "none" /\ Call => IInv'
<1> SUFFICES ASSUME IInv, damage = "none", Call PROVE IInv'
    OBVIOUS
<1>1. ASSUME NEW n \in Requests, Kalloc(n) PROVE IInv'
    BY <1>1, EnterSearchIInv DEF Kalloc
<1>2. ASSUME NEW b \in used, Kfree(b) PROVE IInv'
    BY <1>2, EnterFreeIInv DEF Kfree
<1>3. ASSUME NEW b \in pages, KfreePage(b) PROVE IInv'
    BY <1>3, EnterFreeIInv DEF KfreePage
<1>4. ASSUME KallocPage PROVE IInv'
    BY <1>4, EnterSearchIInv DEF KallocPage
<1>5. ASSUME Kbrk PROVE IInv'
    BY <1>5, GrowIInv DEF Kbrk
<1> QED
    BY <1>1, <1>2, <1>3, <1>4, <1>5 DEF Call

(* A loop is executed once.                                                   *)
LEMMA InternalIInv == IInv /\ Internal => IInv'
<1> SUFFICES ASSUME IInv, Internal PROVE IInv'
    OBVIOUS
<1>1. ASSUME KallocGrow PROVE IInv'
    BY <1>1, GrowIInv DEF KallocGrow, IInv
<1>2. ASSUME KallocFail \/ KallocNext \/ PageFail \/ PageNext PROVE IInv'
    <2>1. CASE KallocFail \/ PageFail
        BY <2>1, SearchIInv DEF KallocFail, PageFail, ReturnToCaller
    <2>2. CASE KallocNext \/ PageNext
        BY <2>2, SearchIInv DEF KallocNext, PageNext
    <2> QED
        BY <1>2, <2>1, <2>2
<1> QED
    BY <1>1, <1>2, KallocTakeIInv, KfreeNextIInv, KfreeInsertIInv, PageTakeIInv, PageGrowIInv
    DEF Internal, KallocLoop, KfreeLoop, PageLoop

(* The strengthened invariant holds in every state.                           *)
THEOREM Invariance == Spec => []IInv
<1>1. IInv /\ [Next]_vars => IInv'
    BY StutterIInv, CallIInv, InternalIInv DEF Next
<1> QED
    BY InitIInv, <1>1, PTL DEF Spec

(* Every variable keeps its type.                                             *)
THEOREM TypeCorrect == Spec => []TypeOK
<1>1. IInv => TypeOK
    BY DEF IInv
<1> QED
    BY <1>1, Invariance, PTL

(* The free blocks stay linked in the order of their addresses, until          *)
(* kalloc_page breaks the list.                                               *)
THEOREM OrderCorrect == Spec => []ListInOrder
    BY Invariance, ListFromIInv, PTL

(* No two blocks or pages overlap, also after kalloc_page has broken the list. *)
THEOREM OverlapCorrect == Spec => []NoOverlap
<1>1. IInv => NoOverlap
    BY NoOverlapFromLayout DEF IInv
<1> QED
    BY <1>1, Invariance, PTL

(* kfree leaves no two free blocks that touch.                                *)
THEOREM CoalescedCorrect == Spec => []Coalesced
<1>1. IInv => Coalesced
    BY DEF IInv, Healthy, Coalesced
<1> QED
    BY <1>1, Invariance, PTL

-----------------------------------------------------------------------------
(* No unit is lost. *)

(* The sum of the lengths of what is held.                                     *)
lengths == [r \in Held |-> r.len]

(* The library's fold over records is a sum over regions.                      *)
LEMMA HeldSum == MapThenSumSet(LAMBDA r : r.len, Held) = Total(lengths, Held)
<1> DEFINE P(g) == g = [s \in SUBSET Held |->
                          IF s = {} THEN 0 ELSE Pick(s).len + g[s \ {Pick(s)}]]
           Q(g) == g = [s \in SUBSET Held |-> Taking(lengths, g, s)]
<1>1. MapThenSumSet(LAMBDA r : r.len, Held) = (CHOOSE g : P(g))[Held]
    BY DEF MapThenSumSet, MapThenFoldSet, Pick
<1>2. Total(lengths, Held) = (CHOOSE g : Q(g))[Held]
    BY TotalIsSums DEF Sums
<1>3. ASSUME NEW g
      PROVE  P(g) <=> Q(g)
    <2>1. ASSUME NEW s \in SUBSET Held, s # {}
          PROVE  lengths[Pick(s)] = Pick(s).len
        BY <2>1, PickFacts DEF lengths
    <2>2. ASSUME NEW s \in SUBSET Held
          PROVE  (IF s = {} THEN 0 ELSE Pick(s).len + g[s \ {Pick(s)}]) = Taking(lengths, g, s)
        BY <2>1, <2>2 DEF Taking
    <2>3. [s \in SUBSET Held |-> IF s = {} THEN 0 ELSE Pick(s).len + g[s \ {Pick(s)}]]
            = [s \in SUBSET Held |-> Taking(lengths, g, s)]
        BY <2>2
    <2> QED
        BY <2>3
<1> HIDE DEF P, Q
<1>4. (CHOOSE g : P(g)) = (CHOOSE g : Q(g))
    BY <1>3
<1> QED
    BY <1>1, <1>2, <1>4

(* What is free and what is held are the whole heap.                           *)
LEMMA NothingLostFromIInv == IInv => NothingLost
<1> SUFFICES ASSUME IInv, pc = "idle", damage = "none"
             PROVE  Allocated = MapThenSumSet(LAMBDA r : r.len, Held)
    BY DEF NothingLost
<1> DEFINE given == used \cup pages
           free  == Free \ {Base}
<1>1. TypeOK /\ Layout /\ ListExists /\ Filled(Starts, extent, Top) /\ Moving = {}
    BY DEF IInv, Healthy, Whole, Moving
<1>2. /\ Starts = free \cup given /\ free \cap given = {}
      /\ \A a \in Starts : extent[a] \in Int
      /\ \A a \in free : extent[a] = size[a]
      /\ \A a \in used : extent[a] = size[a] /\ a \notin pages
      /\ \A a \in pages : extent[a] = PageUnits
    BY <1>1, AddressFacts DEF Starts, Layout
<1>3. IsFiniteSet(Starts) /\ IsFiniteSet(free) /\ IsFiniteSet(given)
    <2>1. IsFiniteSet(Starts) /\ free \in SUBSET Starts /\ given \in SUBSET Starts
        BY <1>1, <1>2 DEF Filled
    <2> QED
        BY <2>1, FS_Subset
<1>4. Top = Total(extent, free) + Total(extent, given)
    BY <1>1, <1>2, <1>3, TotalUnion DEF Filled
<1>5. Total(extent, free) = Total(size, free) /\ Total(extent, free) \in Int
      /\ Total(extent, given) \in Int
    BY <1>2, <1>3, TotalSame, TotalType
<1>6. FreeUnits = Total(size, free)
    <2>1. FreeUnits = Total(size, Free)
        BY DEF FreeUnits, Total
    <2>2. CASE freep = Null
        <3>1. Free = free
            BY <1>1, <2>2 DEF ListExists
        <3> QED
            BY <2>1, <3>1
    <2>3. CASE freep # Null
        <3>1. Free = free \cup {Base} /\ size[Base] = 0
            BY <1>1, <2>3 DEF ListExists, Ordered
        <3>2. \A a \in free \cup {Base} : size[a] \in Int
            BY <1>2, <3>1
        <3>3. Total(size, free \cup {Base}) = size[Base] + Total(size, free)
            BY <1>3, <3>2, TotalWith
        <3> QED
            BY <1>5, <2>1, <3>1, <3>3
    <2> QED
        BY <2>2, <2>3
<1>7. Total(lengths, Held) = Total(extent, given)
    <2> DEFINE m == [a \in given |-> [at |-> a, len |-> extent[a]]]
    <2>1. Held = {m[a] : a \in given}
        <3>1. \A a \in used : Block(a) = m[a]
            BY <1>2 DEF Block
        <3>2. \A a \in pages : Page(a) = m[a]
            BY <1>2 DEF Page
        <3> HIDE DEF m
        <3> QED
            BY <3>1, <3>2 DEF Held
    <2>2. \A a \in given : m[a] \in Held /\ m[a].at = a /\ m[a].len = extent[a]
        BY <2>1
    <2> HIDE DEF m, given
    <2>3. \A a \in given : extent[a] \in Int /\ lengths[m[a]] = extent[a]
        BY <1>2, <2>2 DEF lengths
    <2>4. \A a, b \in given : m[a] = m[b] => a = b
        BY <2>2
    <2> QED
        BY <1>3, <2>1, <2>3, <2>4, TotalImage
<1> HIDE DEF given, free
<1>8. Top - Total(size, free) = Total(extent, given)
    BY <1>4, <1>5
<1> QED
    BY <1>6, <1>7, <1>8, HeldSum DEF Allocated, Top

(* Between two calls what kh_get_memory_info reports as allocated is what the  *)
(* clients hold, however blocks were cut, merged and moved.                    *)
THEOREM NothingLostCorrect == Spec => []NothingLost
    BY Invariance, NothingLostFromIInv, PTL

-----------------------------------------------------------------------------
(* The heap keeps the promises of RegionHeap. *)

(* What a client holds begins where nothing else it holds begins.             *)
HeldPlaced ==
    /\ \A r \in Held :
        /\ r.at \in Starts /\ r.len = extent[r.at]
        /\ r.at \in used \cup pages
    /\ \A r, s \in Held : r.at = s.at => r = s

(* That holds in every state of the invariant.                                *)
LEMMA HeldFacts == TypeOK /\ Layout => HeldPlaced
    BY AddressFacts DEF HeldPlaced, Held, Block, Page

(* Headers of blocks in use are left alone.                                   *)
LEMMA SameHeld ==
    ASSUME UNCHANGED <<used, pages>>, \A h \in used : size'[h] = size[h]
    PROVE  UNCHANGED Held
    BY DEF Held, Block, Page

(* A region is allocated where the invariant finds room for it.               *)
LEMMA AllocateRefines ==
    ASSUME IInv, IInv', NEW r, Held' = Held \cup {r}, r.at \notin used \cup pages,
           heap' \in {heap, heap + 1}
    PROVE  Promise!Allocate
<1>1. TypeOK /\ Layout /\ TypeOK' /\ Layout' /\ HeldPlaced
    BY HeldFacts DEF IInv
<1>2. r \notin Held /\ r \in Held'
    BY <1>1 DEF HeldPlaced
<1>3. Top' >= Top
    <2>1. Top \in Nat /\ PageUnits \in Nat /\ (heap + 1) * PageUnits = Top + PageUnits
        BY <1>1, TopFacts, PageAssumption DEF TypeOK
    <2>2. Top' = Top \/ Top' = Top + PageUnits
        BY <2>1 DEF Top
    <2> QED
        BY <2>1, <2>2
<1>4. /\ \A a \in Starts' : a \in Int /\ extent'[a] \in Int /\ 0 <= a /\ 0 < extent'[a]
                            /\ a + extent'[a] <= Top'
      /\ \A a, b \in Starts' : a < b => a + extent'[a] <= b
    BY <1>1 DEF Layout, Tiled
<1>5. HeldPlaced'
    BY <1>1, HeldFacts, PTL
<1>6. 0 <= r.at /\ r.len > 0 /\ r.at + r.len <= Top'
    BY <1>2, <1>4, <1>5 DEF HeldPlaced
<1>7. ASSUME NEW s \in Held
      PROVE  Promise!Apart(r, s)
    <2>1. s \in Held' /\ r.at # s.at
        BY <1>1 DEF HeldPlaced
    <2>2. r.at < s.at \/ s.at < r.at
        BY <1>2, <1>4, <1>5, <2>1 DEF HeldPlaced
    <2> QED
        BY <1>2, <1>4, <1>5, <2>1, <2>2 DEF HeldPlaced, Promise!Apart
<1> QED
    BY <1>2, <1>3, <1>6, <1>7 DEF Promise!Allocate, Top

(* kalloc hands out a whole block or the tail of one.                         *)
LEMMA KallocTakeRefines == IInv /\ IInv' /\ KallocTake => Promise!Allocate
<1> SUFFICES ASSUME IInv, IInv', KallocTake PROVE Promise!Allocate
    OBVIOUS
<1>1. /\ pc = "kalloc" /\ size[p] >= need /\ UNCHANGED <<heap, pages>>
      /\ TypeOK /\ Layout /\ Layout'
    BY DEF KallocTake, IInv
<1>2. damage = "none" /\ p \in Free /\ prevp \in Free /\ next[prevp] = p /\ need \in Nat /\ need > 0
      /\ size[Base] = 0
    <2>1. damage = "none" /\ Healthy
        BY <1>1 DEF IInv
    <2>2. p \in Free /\ prevp \in Free /\ next[prevp] = p /\ need \in Requests
        BY <1>1, <2>1 DEF Healthy, Searching
    <2>3. size[Base] = 0
        BY <1>1, <2>1 DEF Healthy, ListExists
    <2> QED
        BY <2>1, <2>2, <2>3, RequestAssumption
<1>3. /\ p # Base /\ p \in Starts /\ extent[p] = size[p] /\ p \notin used \cup pages
      /\ p \in Int /\ size[p] \in Nat /\ used \subseteq DOMAIN size /\ Free \subseteq DOMAIN size
    BY <1>1, <1>2, AddressFacts
<1>4. CASE size[p] = need
    <2>1. used' = used \cup {p} /\ UNCHANGED size
        BY <1>4 DEF KallocTake
    <2>2. Held' = Held \cup {Block(p)} /\ Block(p).at = p
        BY <1>1, <2>1 DEF Held, Block, Page
    <2> QED
        BY <1>1, <1>3, <2>2, AllocateRefines DEF IInv, TypeOK
<1>5. CASE size[p] # need
    <2> DEFINE c == Cut(p)
    <2>1. /\ size' = Put([size EXCEPT ![p] = size[p] - need], c, need)
          /\ used' = used \cup {c} /\ UNCHANGED next
        BY <1>5 DEF KallocTake
    <2>2. c \in Int /\ p < c /\ c < p + extent[p]
        BY <1>1, <1>2, <1>3, <1>5 DEF Cut
    <2> HIDE DEF c
    <2>3. c \notin Starts
        BY <1>1, <1>3, <2>2, AddressFacts
    <2>4. \A h \in used : size'[h] = size[h]
        BY <1>3, <2>1, <2>3 DEF Put, Starts
    <2>5. size'[c] = need
        BY <2>1 DEF Put
    <2> DEFINE r == [at |-> c, len |-> need]
    <2>6. Held' = Held \cup {r} /\ r.at = c
        BY <1>1, <2>1, <2>4, <2>5 DEF Held, Block, Page
    <2> HIDE DEF r
    <2> QED
        BY <1>1, <2>3, <2>6, AllocateRefines DEF IInv, TypeOK, Starts
<1> QED
    BY <1>4, <1>5

(* kalloc_page hands out a page of a free block.                              *)
LEMMA PageTakeRefines == IInv /\ IInv' /\ PageTake => Promise!Allocate
<1> SUFFICES ASSUME IInv, IInv', PageTake PROVE Promise!Allocate
    OBVIOUS
<1> DEFINE page == Aligned(p)
<1>1. /\ pc = "page" /\ pages' = pages \cup {page} /\ UNCHANGED <<heap, used>>
      /\ Nbytes(p) >= PageUnits
      /\ TypeOK /\ Layout /\ TypeOK' /\ Layout'
    BY DEF PageTake, IInv
<1>2. damage = "none" /\ p \in Free /\ size[Base] = 0
    BY <1>1 DEF IInv, Healthy, Searching, ListExists
<1>3. PageUnits \in Nat /\ 0 < PageUnits /\ p \in Int /\ p \in DOMAIN size /\ size[p] \in Nat
    BY <1>1, <1>2, AddressFacts
<1>4. Overhead(p) \in Int /\ 0 <= Overhead(p) /\ page = p + Overhead(p)
    BY <1>3, AlignedFacts
<1>5. Overhead(p) < size[p] /\ p # Base
    BY <1>1, <1>2, <1>3, <1>4 DEF Nbytes
<1>6. p \in Starts /\ extent[p] = size[p] /\ p \notin used \cup pages
    BY <1>1, <1>2, <1>5, AddressFacts
<1> HIDE DEF page
<1>7. p <= page /\ page < p + extent[p] /\ page \in Int
    BY <1>3, <1>4, <1>5, <1>6
<1>8. page \notin used \cup pages
    <2>1. CASE page = p
        BY <1>6, <2>1
    <2>2. CASE page # p
        <3>1. page \notin Starts
            BY <1>1, <1>3, <1>6, <1>7, <2>2, AddressFacts
        <3> QED
            BY <3>1 DEF Starts
    <2> QED
        BY <2>1, <2>2
<1>9. \A h \in used : size'[h] = size[h]
    <2>1. ASSUME NEW h \in used
          PROVE  h # p /\ h \in DOMAIN size
        BY <1>1, <1>6, AddressFacts
    <2> DEFINE after == page + PageUnits
               back  == Nbytes(p) > PageUnits
               front == Overhead(p) > 0
               sizeA == IF front THEN [size EXCEPT ![p] = Overhead(p)] ELSE Drop(size, p)
    <2>2. \A h \in used : sizeA[h] = size[h] /\ h \in DOMAIN sizeA
        BY <2>1 DEF Drop
    <2>3. size' = IF back THEN Put(sizeA, after, Nbytes(p) - PageUnits) ELSE sizeA
        BY DEF PageTake, page
    <2>4. back => after \in DOMAIN next'
        <3> DEFINE pred  == IF front THEN p ELSE prevp
                   nextA == Put([next EXCEPT ![pred] = after], after, next[p])
        <3>1. back => next' = IF front THEN nextA ELSE Drop(nextA, p)
            BY DEF PageTake, page
        <3>2. p # after
            BY <1>3, <1>7
        <3> QED
            BY <3>1, <3>2 DEF Put, Drop
    <2>5. back => after \notin used
        BY <1>1, <2>4 DEF Layout
    <2> HIDE DEF sizeA, after, back
    <2>6. CASE back
        BY <2>2, <2>3, <2>5, <2>6 DEF Put
    <2>7. CASE ~ back
        BY <2>2, <2>3, <2>7
    <2> QED
        BY <2>6, <2>7
<1>10. Held' = Held \cup {Page(page)} /\ Page(page).at = page
    BY <1>1, <1>9 DEF Held, Block, Page
<1> QED
    BY <1>1, <1>8, <1>10, AllocateRefines DEF TypeOK

(* kalloc_page hands out a page it maps.                                      *)
LEMMA PageGrowRefines == IInv /\ IInv' /\ PageGrow => Promise!Allocate
<1> SUFFICES ASSUME IInv, IInv', PageGrow PROVE Promise!Allocate
    OBVIOUS
<1>1. /\ pages' = pages \cup {Top} /\ UNCHANGED <<size, used>> /\ heap' = heap + 1
    BY DEF PageGrow, MapPage, list, Top
<1>2. TypeOK /\ Layout /\ heap \in Nat
    BY DEF IInv, TypeOK
<1>3. Top \notin used \cup pages
    BY <1>2, AddressFacts
<1>4. Held' = Held \cup {Page(Top)} /\ Page(Top).at = Top
    BY <1>1 DEF Held, Block, Page
<1> QED
    BY <1>1, <1>3, <1>4, AllocateRefines

(* kfree and kfree_page take back what they are given.                        *)
LEMMA ReleaseRefines ==
    ASSUME IInv, \/ \E b \in used : Kfree(b)
                 \/ \E b \in pages : KfreePage(b)
    PROVE  Promise!Release
<1>1. TypeOK /\ Layout
    BY DEF IInv
<1>2. ASSUME NEW b \in used, Kfree(b)
      PROVE  Promise!Release
    <2>1. used' = used \ {b} /\ UNCHANGED <<size, pages, heap>>
        BY <1>2 DEF Kfree
    <2>2. Block(b) \in Held /\ Block(b).at = b
        BY DEF Held, Block
    <2>3. Held' = Held \ {Block(b)}
        <3>1. \A g \in pages : Page(g) # Block(b)
            BY <1>1, AddressFacts DEF Page, Block
        <3>2. \A h \in used : Block(h)' = Block(h) /\ (Block(h) = Block(b) => h = b)
            BY <2>1 DEF Block
        <3> QED
            BY <2>1, <3>1, <3>2 DEF Held, Block, Page
    <2> QED
        BY <2>1, <2>2, <2>3 DEF Promise!Release
<1>3. ASSUME NEW b \in pages, KfreePage(b)
      PROVE  Promise!Release
    <2>1. pages' = pages \ {b} /\ size' = Put(size, b, PageUnits) /\ UNCHANGED <<used, heap>>
        BY <1>3 DEF KfreePage
    <2>2. \A h \in used : h # b /\ h \in DOMAIN size
        BY <1>1, AddressFacts
    <2>3. \A h \in used : Block(h)' = Block(h) /\ Block(h) # Page(b)
        BY <2>1, <2>2 DEF Put, Block, Page
    <2>4. \A g \in pages : Page(g)' = Page(g) /\ (Page(g) = Page(b) => g = b)
        BY DEF Page
    <2>5. Held' = Held \ {Page(b)} /\ Page(b) \in Held
        BY <2>1, <2>3, <2>4 DEF Held
    <2> QED
        BY <2>1, <2>5 DEF Promise!Release
<1> QED
    BY <1>2, <1>3

(* A page is mapped, and nothing given out.                                   *)
LEMMA GrowRefines == IInv /\ (KallocGrow \/ Kbrk) => Promise!Extend
<1> SUFFICES ASSUME IInv, KallocGrow \/ Kbrk PROVE Promise!Extend
    OBVIOUS
<1>1. /\ size' = Put(size, Top, PageUnits) /\ heap' = heap + 1
      /\ UNCHANGED <<used, pages>>
    BY DEF KallocGrow, Kbrk, Grow, MapPage, owned, Top
<1>2. TypeOK /\ Layout /\ heap \in Nat /\ frames \in Nat /\ heap + frames = Frames
    BY DEF IInv, TypeOK
<1>3. \A h \in used : h # Top /\ h \in DOMAIN size
    BY <1>2, AddressFacts
<1>4. UNCHANGED Held
    BY <1>1, <1>3, SameHeld DEF Put
<1>5. heap' * PageUnits > heap * PageUnits
    BY <1>1, <1>2, TopFacts, PageAssumption DEF Top
<1> QED
    BY <1>4, <1>5 DEF Promise!Extend

(* kfree merges blocks nobody holds.                                          *)
LEMMA KfreeInsertRefines == IInv /\ KfreeInsert => UNCHANGED <<Held, heap>>
<1> SUFFICES ASSUME IInv, KfreeInsert PROVE UNCHANGED <<Held, heap>>
    OBVIOUS
<1>1. /\ pc = "kfree" /\ UNCHANGED <<used, pages, heap>> /\ TypeOK /\ Layout /\ Moving = {bp}
    BY DEF KfreeInsert, owned, IInv, Moving
<1>2. fp \in Free /\ next[fp] \in Free
    BY <1>1 DEF IInv, Healthy, Freeing, ListExists, Ordered
<1>3. ASSUME NEW h \in used
      PROVE  h \notin {fp, next[fp], bp} /\ h \in DOMAIN size
    BY <1>1, <1>2, AddressFacts DEF Layout
<1> DEFINE nx    == next[fp]
           sizeB == IF JoinsNext THEN size[bp] + size[nx] ELSE size[bp]
           size1 == IF JoinsNext THEN Drop(size, nx) ELSE size
<1>4. \A h \in used : size1[h] = size[h] /\ h \in DOMAIN size1
    BY <1>3 DEF Drop
<1> HIDE DEF size1, sizeB
<1>5. \/ size' = Drop([size1 EXCEPT ![fp] = size[fp] + sizeB], bp)
      \/ size' = [size1 EXCEPT ![bp] = sizeB]
    BY DEF KfreeInsert, size1, sizeB
<1>6. \A h \in used : size'[h] = size[h]
    BY <1>3, <1>4, <1>5 DEF Drop
<1> QED
    BY <1>1, <1>6, SameHeld

(* Every step of the allocator is one of RegionHeap, or none.                 *)
LEMMA StepRefines == IInv /\ IInv' /\ [Next]_vars => [Promise!Next]_(Promise!vars)
<1> SUFFICES ASSUME IInv, IInv', [Next]_vars PROVE [Promise!Next]_(Promise!vars)
    OBVIOUS
<1>1. ASSUME UNCHANGED <<size, heap, used, pages>>
      PROVE  UNCHANGED Promise!vars
    BY <1>1, SameHeld DEF Promise!vars
<1>2. CASE UNCHANGED vars
    BY <1>1, <1>2 DEF vars
<1>3. CASE damage = "none" /\ Call
    <2>1. CASE (\E b \in used : Kfree(b)) \/ \E b \in pages : KfreePage(b)
        BY <2>1, ReleaseRefines DEF Promise!Next
    <2>2. CASE Kbrk
        BY <2>2, GrowRefines DEF Promise!Next
    <2>3. CASE (\E n \in Requests : Kalloc(n)) \/ KallocPage
        <3>1. UNCHANGED <<heap, owned>> /\ \E l \in {"kalloc", "page"} : EnterSearch(l)
            BY <2>3 DEF Kalloc, KallocPage
        <3>2. \A h \in used : size'[h] = size[h]
            <4>1. CASE freep = Null
                BY <1>3, <4>1 DEF IInv, Healthy, ListExists
            <4>2. CASE freep # Null
                BY <3>1, <4>2 DEF EnterSearch, list
            <4> QED
                BY <4>1, <4>2
        <3> QED
            BY <3>1, <3>2, SameHeld DEF Promise!vars, owned
    <2> QED
        BY <1>3, <2>1, <2>2, <2>3 DEF Call
<1>4. CASE Internal
    <2>1. CASE KallocTake \/ PageTake \/ PageGrow
        BY <2>1, KallocTakeRefines, PageTakeRefines, PageGrowRefines DEF Promise!Next
    <2>2. CASE KallocGrow
        BY <2>2, GrowRefines DEF Promise!Next
    <2>3. CASE KfreeInsert
        BY <2>3, KfreeInsertRefines DEF Promise!vars
    <2>4. CASE KallocFail \/ KallocNext \/ KfreeNext \/ PageFail \/ PageNext
        BY <1>1, <2>4 DEF KallocFail, KallocNext, KfreeNext, PageFail, PageNext, list, owned
    <2> QED
        BY <1>4, <2>1, <2>2, <2>3, <2>4 DEF Internal, KallocLoop, KfreeLoop, PageLoop
<1> QED
    BY <1>2, <1>3, <1>4 DEF Next

(* A call hands out a region nobody holds or takes one back, and the rest of   *)
(* what the clients hold stays theirs.                                        *)
THEOREM Refinement == Spec => ImplementsRegionHeap
<1>1. Init => Promise!Init
    BY PageAssumption DEF Init, Promise!Init, Held
<1>2. [][Next]_vars /\ []IInv => [][Promise!Next]_(Promise!vars)
    BY StepRefines, PTL
<1> QED
    BY <1>1, <1>2, Invariance, PTL DEF Spec, ImplementsRegionHeap, Promise!Spec

=============================================================================
