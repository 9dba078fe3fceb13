---------------------------- MODULE Menus_proof ----------------------------
(***************************************************************************)
(* Proofs about Menus: for any number of users, any settings and any       *)
(* lengths of the lists, what was chosen last is what counts, on the       *)
(* screen, in the file and in the VM that is started.                      *)
(*                                                                         *)
(* Updating and saving a list are recursive functions.  The induction      *)
(* theorems of the library take a predicate for parameter; here the        *)
(* predicate is a set of numbers, and WFMin of the library yields the      *)
(* least number outside of it.                                             *)
(***************************************************************************)
EXTENDS Menus, WellFoundedInduction, SequenceTheorems, TLAPS

Below == {p \in Nat \X Nat : p[1] < p[2]}

\* Every set of numbers has a least one.
LEMMA LeastNumber ==
  ASSUME NEW T, T \subseteq Nat, T # {}
  PROVE  \E n \in T : \A m \in T : n <= m
<1>1. IsWellFoundedOn(Below, Nat)
  <2>1. OpToRel(<, Nat) = Below
    BY DEF OpToRel, Below
  <2>2. IsWellFoundedOn(OpToRel(<, Nat), Nat)
    BY NatLessThanWellFounded, Zenon
  <2> QED BY <2>1, <2>2, Zenon
<1>2. PICK n \in T : \A m \in T : <<m, n>> \notin Below
  BY <1>1, WFMin, Zenon
<1>3. ASSUME NEW m \in T PROVE n <= m
  <2>1. m \in Nat /\ n \in Nat
    OBVIOUS
  <2>2. CASE m < n
    <3>1. <<m, n>> \in Below
      BY <2>1, <2>2 DEF Below
    <3> QED BY <3>1, <1>2
  <2> QED BY <2>1, <2>2
<1> QED BY <1>3

\* Induction: a set of numbers with 0 and the successors of its members.
LEMMA Induction ==
  ASSUME NEW T, 0 \in T, \A n \in Nat : n \in T => n + 1 \in T
  PROVE  \A n \in Nat : n \in T
<1> SUFFICES ASSUME ~ \A n \in Nat : n \in T PROVE FALSE
  OBVIOUS
<1> DEFINE U == {n \in Nat : n \notin T}
<1>1. PICK n \in U : \A m \in U : n <= m
  <2>1. U \subseteq Nat /\ U # {}
    OBVIOUS
  <2> HIDE DEF U
  <2> QED BY <2>1, LeastNumber, Zenon
<1>2. n # 0
  OBVIOUS
<1>3. n - 1 \in Nat /\ n - 1 \in T
  BY <1>1, <1>2
<1>4. (n - 1) + 1 \in T
  BY <1>3
<1> QED BY <1>4


\* What is done step by step can be done.
LEMMA Iteration ==
  ASSUME NEW S, NEW s \in S, NEW N \in Nat, NEW step \in [1..N -> [S -> S]]
  PROVE  \E f \in [0..N -> S] : f[0] = s /\ \A i \in 1..N : f[i] = step[i][f[i - 1]]
<1> DEFINE Upto(f, m) == f[0] = s /\ \A i \in 1..m : f[i] = step[i][f[i - 1]]
           T == {m \in Nat : m <= N => \E f \in [0..N -> S] : Upto(f, m)}
<1>1. 0 \in T
  <2>1. [i \in 0..N |-> s] \in [0..N -> S] /\ Upto([i \in 0..N |-> s], 0)
    OBVIOUS
  <2> QED BY <2>1
<1>2. ASSUME NEW m \in Nat, m \in T PROVE m + 1 \in T
  <2> SUFFICES ASSUME m + 1 <= N PROVE \E f \in [0..N -> S] : Upto(f, m + 1)
    OBVIOUS
  <2>1. PICK f \in [0..N -> S] : Upto(f, m)
    BY <1>2
  <2> DEFINE g == [f EXCEPT ![m + 1] = step[m + 1][f[m]]]
  <2>2. g \in [0..N -> S]
    <3>1. step[m + 1][f[m]] \in S
      OBVIOUS
    <3> QED BY <3>1
  <2>3. g[m + 1] = step[m + 1][f[m]] /\ \A i \in 0..m : g[i] = f[i]
    OBVIOUS
  <2> HIDE DEF g
  <2>4. Upto(g, m + 1)
    BY <2>1, <2>3
  <2> HIDE DEF Upto
  <2> QED BY <2>2, <2>4
<1>3. \A m \in Nat : m \in T
  <2> HIDE DEF T
  <2> QED BY <1>1, <1>2, Induction
<1>4. N \in T
  BY <1>3
<1> QED BY <1>4

-----------------------------------------------------------------------------
(* Lists.                                                                  *)

V == Value \cup {Blank}
AnyKey == Key \cup {Updated}
Pairs == Seq([key : AnyKey, val : V])

\* What all lists of settings are.
IsList(list) == Len(list) \in Nat /\ DOMAIN list = 1..Len(list)
Once(list, k) == \A i, j \in Positions(list, k) : i = j
Unique(list) == \A i, j \in DOMAIN list : list[i].key = list[j].key => i = j
Silent(list, k) == \A i \in DOMAIN list : list[i].key # k

LEMMA ListsAre ==
  ASSUME NEW S, NEW list \in Seq(S)
  PROVE  IsList(list) /\ \A i \in 1..Len(list) : list[i] \in S
BY DEF IsList

LEMMA FirstIs ==
  ASSUME NEW S, S \subseteq Nat, S # {}
  PROVE  First(S) \in S /\ \A j \in S : First(S) <= j
BY LeastNumber, Zenon DEF First

\* ListFindNamedItem.
LEMMA FindFacts ==
  ASSUME NEW list, IsList(list), NEW k
  PROVE  /\ FindItem(list, k) = 0 <=> Silent(list, k)
         /\ ~Silent(list, k) =>
              /\ FindItem(list, k) \in Positions(list, k)
              /\ \/ FindItem(list, k) = Len(list)
                 \/ \A j \in Positions(list, k) : FindItem(list, k) <= j
<1> DEFINE P == Positions(list, k)
<1>1. P \subseteq 1..Len(list) /\ P \subseteq Nat /\ (P = {} <=> Silent(list, k)) /\ 0 \notin P
  BY DEF IsList, Positions, Silent
<1>2. P # {} => First(P) \in P /\ \A j \in P : First(P) <= j
  BY <1>1, FirstIs
<1>3. FindItem(list, k) = CASE P = {} -> 0 [] Len(list) \in P -> Len(list) [] OTHER -> First(P)
  BY DEF FindItem
<1> HIDE DEF P
<1>4. CASE P = {}
  <2>1. FindItem(list, k) = 0
    BY <1>1, <1>3, <1>4
  <2> QED BY <1>1, <1>4, <2>1
<1>5. CASE P # {} /\ Len(list) \in P
  <2>1. FindItem(list, k) = Len(list)
    BY <1>3, <1>5
  <2> QED BY <1>1, <1>5, <2>1 DEF P
<1>6. CASE P # {} /\ Len(list) \notin P
  <2>1. FindItem(list, k) = First(P)
    BY <1>3, <1>6
  <2> QED BY <1>1, <1>2, <1>6, <2>1 DEF P
<1> QED BY <1>4, <1>5, <1>6

\* A name that occurs once, or not at all, is found.
LEMMA GetOnce ==
  ASSUME NEW list, IsList(list), NEW k, Once(list, k)
  PROVE  /\ Silent(list, k) => Get(list, k) = Blank
         /\ \A i \in DOMAIN list : list[i].key = k =>
              FindItem(list, k) = i /\ Get(list, k) = list[i].val
<1>1. Silent(list, k) => FindItem(list, k) = 0
  BY FindFacts
<1>2. ASSUME NEW i \in DOMAIN list, list[i].key = k
      PROVE  FindItem(list, k) = i /\ i # 0
  <2>1. ~Silent(list, k) /\ i \in Positions(list, k)
    BY <1>2 DEF Silent, Positions
  <2> QED BY <2>1, FindFacts DEF Once, IsList
<1> QED BY <1>1, <1>2 DEF Get

LEMMA UniqueOnce ==
  ASSUME NEW list, Unique(list)
  PROVE  \A k : Once(list, k)
BY DEF Unique, Once, Positions

\* Whatever is found is one of the values, or blank.
LEMMA GetType ==
  ASSUME NEW S, NEW list \in Seq(S), \A x \in S : x.val \in V
  PROVE  /\ \A k : Get(list, k) \in V
         /\ Values(list) \in [Key -> V]
<1>1. ASSUME NEW k PROVE Get(list, k) \in V
  <2>1. IsList(list) /\ \A i \in 1..Len(list) : list[i] \in S
    BY ListsAre
  <2>2. CASE Silent(list, k)
    <3>1. Get(list, k) = Blank
      BY <2>1, <2>2, FindFacts DEF Get
    <3> QED BY <3>1 DEF V
  <2>3. CASE ~Silent(list, k)
    <3>1. FindItem(list, k) \in 1..Len(list)
      BY <2>1, <2>3, FindFacts DEF Positions, IsList
    <3> QED BY <2>1, <3>1 DEF Get
  <2> QED BY <2>2, <2>3
<1> QED BY <1>1 DEF Values

-----------------------------------------------------------------------------
(* Updating a list in which no name occurs twice.                          *)

ItemSet == [key : AnyKey, val : V, loaded : BOOLEAN]
PairSet == [key : AnyKey, val : V]

\* What became of the list l0 by the pairs up to the n-th: the last value counts.
UpdatedBy(list, l0, pairs, n) ==
  /\ list \in List
  /\ Unique(list)
  /\ \A k : (\A j \in 1..n : pairs[j].key # k) => Get(list, k) = Get(l0, k)
  /\ \A j \in 1..n :
       (\A m \in j + 1..n : pairs[m].key # pairs[j].key) =>
         ~Silent(list, pairs[j].key) /\ Get(list, pairs[j].key) = pairs[j].val
  /\ (\A i \in DOMAIN l0 : ~l0[i].loaded /\ l0[i].key \in Key) /\
     (\A j \in 1..n : pairs[j].key \in Key) =>
       \A i \in DOMAIN list : ~list[i].loaded /\ list[i].key \in Key
  /\ \A k : Silent(list, k) <=> Silent(l0, k) /\ \A j \in 1..n : pairs[j].key # k

LEMMA ListIs == List = Seq(ItemSet)
BY DEF List, ItemSet, AnyKey, V

LEMMA ItemIs ==
  ASSUME NEW k \in AnyKey, NEW v \in V, NEW loaded \in BOOLEAN
  PROVE  /\ Item(k, v, loaded) \in ItemSet
         /\ Item(k, v, loaded).key = k /\ Item(k, v, loaded).val = v
         /\ Item(k, v, loaded).loaded = loaded
BY DEF Item, ItemSet

LEMMA AppendIs ==
  ASSUME NEW list \in List, NEW item \in ItemSet
  PROVE  /\ Append(list, item) \in List
         /\ Len(Append(list, item)) = Len(list) + 1
         /\ Append(list, item)[Len(list) + 1] = item
         /\ \A i \in 1..Len(list) : Append(list, item)[i] = list[i]
BY ListIs, AppendProperties

\* A name that is not there yet is added at the end.
LEMMA AddedAtEnd ==
  ASSUME NEW list \in List, Unique(list), NEW r \in List,
         Len(r) = Len(list) + 1, \A i \in 1..Len(list) : r[i] = list[i],
         Silent(list, r[Len(r)].key)
  PROVE  /\ Unique(r) /\ Get(r, r[Len(r)].key) = r[Len(r)].val
         /\ \A n : n # r[Len(r)].key => Get(r, n) = Get(list, n)
         /\ \A n : Silent(r, n) <=> Silent(list, n) /\ n # r[Len(r)].key
<1> DEFINE N == Len(list)
           k == r[Len(r)].key
           v == r[Len(r)].val
<1>1. IsList(list) /\ N \in Nat /\ DOMAIN list = 1..N
  BY ListsAre, ListIs DEF IsList
<1>2. IsList(r) /\ Len(r) = N + 1 /\ DOMAIN r = 1..N + 1
  BY <1>1, ListsAre, ListIs DEF IsList
<1>3. (\A i \in 1..N : r[i] = list[i] /\ list[i].key # k) /\ r[N + 1].key = k /\ r[N + 1].val = v
  BY <1>1, <1>2 DEF Silent
<1> HIDE DEF N, k, v
<1>4. Unique(r)
  BY <1>1, <1>2, <1>3 DEF Unique
<1>5. \A n : Once(r, n) /\ Once(list, n)
  BY <1>4, UniqueOnce
<1>6. N + 1 \in DOMAIN r /\ \A i \in 1..N : i \in DOMAIN r
  BY <1>1, <1>2
<1>7. Get(r, k) = v
  BY <1>2, <1>3, <1>5, <1>6, GetOnce
<1>8. ASSUME NEW n PROVE Silent(r, n) <=> Silent(list, n) /\ n # k
  <2>1. \A i \in DOMAIN r : i \in 1..N \/ i = N + 1
    BY <1>1, <1>2
  <2> QED BY <1>1, <1>3, <1>6, <2>1 DEF Silent
<1>9. ASSUME NEW n, n # k PROVE Get(r, n) = Get(list, n)
  <2>1. CASE Silent(list, n)
    <3>1. Silent(r, n)
      BY <1>8, <1>9, <2>1
    <3>2. Get(r, n) = Blank /\ Get(list, n) = Blank
      BY <1>1, <1>2, <1>5, <2>1, <3>1, GetOnce
    <3> QED BY <3>2
  <2>2. CASE ~Silent(list, n)
    <3>1. PICK i \in 1..N : list[i].key = n
      BY <1>1, <2>2 DEF Silent
    <3>2. r[i].key = n /\ r[i].val = list[i].val /\ i \in DOMAIN r /\ i \in DOMAIN list
      BY <1>1, <1>3, <1>6, <3>1
    <3>3. Get(list, n) = list[i].val
      BY <1>1, <1>5, <3>1, <3>2, GetOnce
    <3>4. Get(r, n) = r[i].val
      BY <1>2, <1>5, <3>2, GetOnce
    <3> QED BY <3>2, <3>3, <3>4
  <2> QED BY <2>1, <2>2
<1> QED BY <1>4, <1>7, <1>8, <1>9 DEF k, v

\* r is list with another value at p.
Replaced(r, list, p, v) ==
  /\ r \in List /\ Len(r) = Len(list) /\ DOMAIN r = DOMAIN list
  /\ \A i \in DOMAIN list : r[i].key = list[i].key /\ r[i].loaded = list[i].loaded
  /\ r[p].val = v
  /\ \A i \in DOMAIN list : i # p => r[i].val = list[i].val

LEMMA ReplacedInPlace ==
  ASSUME NEW list \in List, NEW p \in DOMAIN list, NEW v \in V
  PROVE  Replaced([list EXCEPT ![p].val = v], list, p, v)
<1> DEFINE N == Len(list)
           x == [list[p] EXCEPT !.val = v]
           r == [i \in 1..N |-> IF i = p THEN x ELSE list[i]]
<1>1. IsList(list) /\ N \in Nat /\ DOMAIN list = 1..N /\ \A i \in 1..N : list[i] \in ItemSet
  BY ListsAre, ListIs DEF IsList
<1>2. [list EXCEPT ![p].val = v] = r
  BY <1>1
<1>3. x \in ItemSet /\ x.key = list[p].key /\ x.loaded = list[p].loaded /\ x.val = v
  BY <1>1 DEF ItemSet
<1> HIDE DEF x, N
<1>4. r \in [1..N -> ItemSet]
  BY <1>1, <1>3
<1>5. r \in List /\ Len(r) = N /\ DOMAIN r = 1..N
  BY <1>1, <1>4, ListIs
<1>6. \A i \in 1..N : r[i] = IF i = p THEN x ELSE list[i]
  OBVIOUS
<1> HIDE DEF r
<1>7. Replaced(r, list, p, v)
  BY <1>1, <1>3, <1>5, <1>6 DEF Replaced, N
<1> QED BY <1>2, <1>7

LEMMA ReplacedFacts ==
  ASSUME NEW list \in List, NEW p \in DOMAIN list, NEW v, NEW r, Replaced(r, list, p, v)
  PROVE  /\ \A k : Positions(r, k) = Positions(list, k) /\ FindItem(r, k) = FindItem(list, k)
         /\ Unique(list) => Unique(r)
         /\ \A k : Silent(r, k) <=> Silent(list, k)
<1>1. \A k : Positions(r, k) = Positions(list, k)
  BY DEF Positions, Replaced
<1>2. \A k : FindItem(r, k) = FindItem(list, k)
  BY <1>1 DEF FindItem, Replaced
<1> QED BY <1>1, <1>2 DEF Unique, Silent, Replaced

LEMMA ReplacedGet ==
  ASSUME NEW list \in List, Unique(list), NEW p \in DOMAIN list, NEW v,
         NEW r, Replaced(r, list, p, v)
  PROVE  /\ Get(r, list[p].key) = v
         /\ \A k : k # list[p].key => Get(r, k) = Get(list, k)
<1>1. Unique(r) /\ \A k : FindItem(r, k) = FindItem(list, k)
  BY ReplacedFacts
<1>2. r \in List /\ IsList(r) /\ IsList(list) /\ \A k : Once(r, k) /\ Once(list, k)
  BY <1>1, UniqueOnce, ListsAre, ListIs DEF Replaced
<1>3. Get(r, list[p].key) = v
  BY <1>2, GetOnce DEF Replaced
<1>4. ASSUME NEW k, k # list[p].key PROVE Get(r, k) = Get(list, k)
  <2>1. CASE Silent(list, k)
    BY <1>1, <1>2, <2>1, FindFacts DEF Get
  <2>2. CASE ~Silent(list, k)
    <3>1. FindItem(list, k) \in DOMAIN list /\ list[FindItem(list, k)].key = k
      BY <1>2, <2>2, FindFacts DEF Positions
    <3> QED BY <1>1, <1>4, <3>1 DEF Get, Replaced
  <2> QED BY <2>1, <2>2
<1> QED BY <1>3, <1>4

\* ImageConfigUpdate with one setting.
LEMMA UpdateOneFacts ==
  ASSUME NEW list \in List, Unique(list), NEW pair, pair.key \in AnyKey, pair.val \in V
  PROVE  LET r == UpdateOne(list, pair)
             k == pair.key
         IN
         /\ r \in List /\ Unique(r) /\ Get(r, k) = pair.val /\ ~Silent(r, k)
         /\ \A n : n # k => Get(r, n) = Get(list, n) /\ (Silent(r, n) <=> Silent(list, n))
         /\ (\A i \in DOMAIN list : ~list[i].loaded /\ list[i].key \in Key) /\ k \in Key =>
              \A i \in DOMAIN r : ~r[i].loaded /\ r[i].key \in Key
<1> DEFINE k == pair.key
           v == pair.val
           it == Item(k, v, FALSE)
<1> SUFFICES ASSUME NEW r, r = UpdateOne(list, pair)
             PROVE  /\ r \in List /\ Unique(r) /\ Get(r, k) = v /\ ~Silent(r, k)
                    /\ \A n : n # k => Get(r, n) = Get(list, n) /\ (Silent(r, n) <=> Silent(list, n))
                    /\ (\A i \in DOMAIN list : ~list[i].loaded /\ list[i].key \in Key) /\ k \in Key =>
                         \A i \in DOMAIN r : ~r[i].loaded /\ r[i].key \in Key
  OBVIOUS
<1>1. IsList(list)
  BY ListsAre, ListIs
<1>2. it \in ItemSet /\ it.key = k /\ it.val = v /\ it.loaded = FALSE
  BY ItemIs
<1> HIDE DEF k, v, it
<1>3. CASE Silent(list, k)
  <2>1. FindItem(list, k) = 0 /\ Positions(list, k) = {}
    BY <1>1, <1>3, FindFacts DEF Silent, Positions
  <2>2. SetTargets(list, k) = {}
    BY <2>1 DEF SetTargets
  <2>3. r = Append(list, it)
    BY <2>1, <2>2 DEF UpdateOne, SetVar, k, v, it
  <2>4. /\ r \in List /\ Len(r) = Len(list) + 1 /\ r[Len(list) + 1] = it
        /\ \A i \in 1..Len(list) : r[i] = list[i]
    BY <1>2, <2>3, AppendIs
  <2>5. /\ Unique(r) /\ Get(r, k) = v
        /\ \A n : n # k => Get(r, n) = Get(list, n)
        /\ \A n : Silent(r, n) <=> Silent(list, n) /\ n # k
    BY <1>2, <1>3, <2>4, AddedAtEnd
  <2>6. \A i \in DOMAIN r : (i \in DOMAIN list /\ r[i] = list[i]) \/ r[i] = it
    <3>1. DOMAIN r = 1..Len(list) + 1 /\ DOMAIN list = 1..Len(list) /\ Len(list) \in Nat
      BY <1>1, <2>4, ListsAre, ListIs DEF IsList
    <3> QED BY <2>4, <3>1
  <2> QED BY <1>2, <2>4, <2>5, <2>6
<1>4. CASE ~Silent(list, k)
  <2> DEFINE p == FindItem(list, k)
  <2>1. p # 0 /\ p \in DOMAIN list /\ list[p].key = k
    BY <1>1, <1>4, FindFacts DEF Positions
  <2>2. r = [list EXCEPT ![p].val = v]
    BY <2>1 DEF UpdateOne, k, v
  <2> HIDE DEF p
  <2>3. v \in V
    BY DEF v
  <2>4. Replaced(r, list, p, v)
    BY <2>1, <2>2, <2>3, ReplacedInPlace
  <2>5. /\ Get(r, k) = v
        /\ \A n : n # k => Get(r, n) = Get(list, n)
    BY <2>1, <2>4, ReplacedGet
  <2>6. /\ Unique(r) /\ \A n : Silent(r, n) <=> Silent(list, n)
    BY <2>1, <2>4, ReplacedFacts
  <2> QED BY <1>4, <2>4, <2>5, <2>6 DEF Replaced
<1> QED BY <1>3, <1>4

LEMMA PairsAre ==
  ASSUME NEW pairs \in Pairs
  PROVE  /\ IsList(pairs) /\ Len(pairs) \in Nat
         /\ \A i \in 1..Len(pairs) : pairs[i].key \in AnyKey /\ pairs[i].val \in V
<1>1. IsList(pairs) /\ \A i \in 1..Len(pairs) : pairs[i] \in PairSet
  <2>1. pairs \in Seq(PairSet)
    BY DEF Pairs, PairSet
  <2> QED BY <2>1, ListsAre
<1>2. \A x \in PairSet : x.key \in AnyKey /\ x.val \in V
  BY DEF PairSet
<1> QED BY <1>1, <1>2 DEF IsList

\* ImageConfigUpdate goes through the settings one by one.
LEMMA UpdateSteps ==
  ASSUME NEW list \in List, Unique(list), NEW pairs \in Pairs
  PROVE  \E f : /\ f[0] = list
                /\ \A i \in 1..Len(pairs) : f[i] = UpdateOne(f[i - 1], pairs[i])
                /\ Update(list, pairs) = f[Len(pairs)]
<1> DEFINE N == Len(pairs)
           S == {l \in List : Unique(l)}
           step == [i \in 1..N |-> [l \in S |-> UpdateOne(l, pairs[i])]]
           Def(f) == [i \in 0..N |-> IF i = 0 THEN list ELSE UpdateOne(f[i - 1], pairs[i])]
<1>1. N \in Nat /\ \A i \in 1..N : pairs[i].key \in AnyKey /\ pairs[i].val \in V
  BY PairsAre
<1>2. list \in S
  OBVIOUS
<1>3. \A i \in 1..N, l \in S : UpdateOne(l, pairs[i]) \in S
  BY <1>1, UpdateOneFacts
<1>4. step \in [1..N -> [S -> S]]
  BY <1>3
<1>5. \E f \in [0..N -> S] : f[0] = list /\ \A i \in 1..N : f[i] = step[i][f[i - 1]]
  <2> HIDE DEF S, step, N
  <2> QED BY <1>1, <1>2, <1>4, Iteration
<1>6. PICK f \in [0..N -> S] : f[0] = list /\ \A i \in 1..N : f[i] = step[i][f[i - 1]]
  BY <1>5
<1>7. \A i \in 1..N : f[i] = UpdateOne(f[i - 1], pairs[i])
  <2> SUFFICES ASSUME NEW i \in 1..N PROVE f[i] = UpdateOne(f[i - 1], pairs[i])
    OBVIOUS
  <2>1. f[i - 1] \in S
    BY <1>1, <1>6
  <2> HIDE DEF S
  <2>2. step[i][f[i - 1]] = UpdateOne(f[i - 1], pairs[i])
    BY <2>1
  <2> QED BY <1>6, <2>2
<1>8. f = Def(f)
  BY <1>1, <1>6, <1>7
<1>9. \E g : g = Def(g)
  BY <1>8, Zenon
<1> DEFINE u == CHOOSE g : g = Def(g)
<1>10. u = Def(u)
  BY <1>9, Zenon
<1>11. Update(list, pairs) = u[N]
  BY Zenon DEF Update
<1> HIDE DEF u
<1>12. u[0] = list /\ \A i \in 1..N : u[i] = UpdateOne(u[i - 1], pairs[i])
  BY <1>1, <1>10
<1> QED BY <1>11, <1>12

\* The last value that is given for a name counts, and the others stay.
LEMMA UpdateFacts ==
  ASSUME NEW list \in List, Unique(list), NEW pairs \in Pairs
  PROVE  UpdatedBy(Update(list, pairs), list, pairs, Len(pairs))
<1> DEFINE N == Len(pairs)
<1>1. N \in Nat /\ \A i \in 1..N : pairs[i].key \in AnyKey /\ pairs[i].val \in V
  BY PairsAre
<1>2. PICK f : /\ f[0] = list
               /\ \A i \in 1..N : f[i] = UpdateOne(f[i - 1], pairs[i])
               /\ Update(list, pairs) = f[N]
  BY UpdateSteps
<1> HIDE DEF N
<1> DEFINE T == {n \in Nat : n <= N => UpdatedBy(f[n], list, pairs, n)}
<1>3. 0 \in T
  <2>1. UpdatedBy(list, list, pairs, 0)
    BY DEF UpdatedBy
  <2> QED BY <1>2, <2>1
<1>4. ASSUME NEW n \in Nat, n \in T PROVE n + 1 \in T
  <2> SUFFICES ASSUME n + 1 <= N PROVE UpdatedBy(f[n + 1], list, pairs, n + 1)
    OBVIOUS
  <2> DEFINE l == f[n]
             p == pairs[n + 1]
             r == UpdateOne(l, p)
  <2>1. UpdatedBy(l, list, pairs, n)
    BY <1>1, <1>4
  <2>2. f[n + 1] = r
    <3>1. n + 1 \in 1..N /\ (n + 1) - 1 = n
      OBVIOUS
    <3> QED BY <1>2, <3>1
  <2>3. p.key \in AnyKey /\ p.val \in V
    <3>1. n + 1 \in 1..N
      OBVIOUS
    <3> QED BY <1>1, <3>1
  <2>4. /\ r \in List /\ Unique(r) /\ Get(r, p.key) = p.val /\ ~Silent(r, p.key)
        /\ \A k : k # p.key => Get(r, k) = Get(l, k) /\ (Silent(r, k) <=> Silent(l, k))
        /\ (\A i \in DOMAIN l : ~l[i].loaded /\ l[i].key \in Key) /\ p.key \in Key =>
             \A i \in DOMAIN r : ~r[i].loaded /\ r[i].key \in Key
    BY <2>1, <2>3, UpdateOneFacts DEF UpdatedBy
  <2>5. \A j \in 1..n + 1 : j \in 1..n \/ j = n + 1
    OBVIOUS
  <2>6. (n + 1) \in 1..n + 1 /\ \A j \in 1..n : j \in 1..n + 1 /\ n + 1 \in j + 1..n + 1 /\ \A m \in j + 1..n : m \in j + 1..n + 1
    OBVIOUS
  <2> HIDE DEF l, r, T
  <2>7. \A k : (\A j \in 1..n + 1 : pairs[j].key # k) => Get(r, k) = Get(list, k)
    BY <2>1, <2>4, <2>6 DEF UpdatedBy
  <2>8. ASSUME NEW j \in 1..n + 1, \A m \in j + 1..n + 1 : pairs[m].key # pairs[j].key
        PROVE  ~Silent(r, pairs[j].key) /\ Get(r, pairs[j].key) = pairs[j].val
    <3>1. CASE j = n + 1
      BY <2>4, <3>1
    <3>2. CASE j \in 1..n
      <4>1. p.key # pairs[j].key
        BY <2>6, <2>8, <3>2
      <4>2. ~Silent(l, pairs[j].key) /\ Get(l, pairs[j].key) = pairs[j].val
        BY <2>1, <2>6, <2>8, <3>2 DEF UpdatedBy
      <4> QED BY <2>4, <4>1, <4>2
    <3> QED BY <2>5, <3>1, <3>2
  <2>9. (\A i \in DOMAIN list : ~list[i].loaded /\ list[i].key \in Key) /\
        (\A j \in 1..n + 1 : pairs[j].key \in Key) =>
          \A i \in DOMAIN r : ~r[i].loaded /\ r[i].key \in Key
    BY <2>1, <2>4, <2>6 DEF UpdatedBy
  <2>10. \A k : Silent(r, k) <=> Silent(list, k) /\ \A j \in 1..n + 1 : pairs[j].key # k
    <3> SUFFICES ASSUME NEW k
                 PROVE  Silent(r, k) <=> Silent(list, k) /\ \A j \in 1..n + 1 : pairs[j].key # k
      OBVIOUS
    <3>1. Silent(l, k) <=> Silent(list, k) /\ \A j \in 1..n : pairs[j].key # k
      BY <2>1 DEF UpdatedBy
    <3>2. CASE k = p.key
      BY <2>4, <2>6, <3>2
    <3>3. CASE k # p.key
      BY <2>4, <2>5, <2>6, <3>1, <3>3
    <3> QED BY <3>2, <3>3
  <2>11. UpdatedBy(r, list, pairs, n + 1)
    BY <2>4, <2>7, <2>8, <2>9, <2>10 DEF UpdatedBy
  <2> QED BY <2>2, <2>11
<1>5. \A n \in Nat : n \in T
  <2> HIDE DEF T
  <2> QED BY <1>3, <1>4, Induction
<1>6. UpdatedBy(f[N], list, pairs, N)
  BY <1>1, <1>5
<1> QED BY <1>2, <1>6 DEF N

-----------------------------------------------------------------------------
(* Writing a list to a file, and reading it.                               *)

SetSet == [key : Key, val : V]

LEMMA SettingsAre ==
  /\ Settings = Seq(SetSet)
  /\ Settings \subseteq Pairs
  /\ \A s \in Settings : /\ IsList(s) /\ Len(s) \in Nat
                         /\ \A i \in 1..Len(s) : s[i].key \in Key /\ s[i].val \in V
<1>1. Settings = Seq(SetSet)
  BY DEF Settings, SetSet, V
<1>2. SetSet \subseteq PairSet /\ \A x \in SetSet : x.key \in Key /\ x.val \in V
  BY DEF SetSet, PairSet, AnyKey
<1>3. Seq(SetSet) \subseteq Seq(PairSet)
  <2> SUFFICES ASSUME NEW s \in Seq(SetSet) PROVE s \in Seq(PairSet)
    OBVIOUS
  <2> QED BY <1>2
<1>4. Seq(PairSet) = Pairs
  BY DEF Pairs, PairSet
<1>5. \A s \in Settings : IsList(s) /\ \A i \in 1..Len(s) : s[i] \in SetSet
  BY <1>1, ListsAre
<1> QED BY <1>1, <1>2, <1>3, <1>4, <1>5 DEF IsList

\* What has been written of the pairs up to the n-th.
SavedUpTo(s, pairs, n) ==
  /\ s \in Settings
  /\ Unique(s)
  /\ \A i \in DOMAIN s : \E j \in 1..n : s[i] = pairs[j] /\ Written(pairs[j])
  /\ \A j \in 1..n : Written(pairs[j]) => \E i \in DOMAIN s : s[i] = pairs[j]

SaveOne(s, pair) == IF Written(pair) THEN Append(s, pair) ELSE s

LEMMA SaveOneType ==
  ASSUME NEW s \in Settings, NEW pair \in PairSet
  PROVE  /\ SaveOne(s, pair) \in Settings
         /\ Written(pair) => LET r == SaveOne(s, pair) IN
              /\ Len(r) = Len(s) + 1 /\ r[Len(s) + 1] = pair
              /\ \A i \in 1..Len(s) : r[i] = s[i]
<1>1. s \in Seq(SetSet)
  BY SettingsAre
<1>2. Written(pair) => pair \in SetSet
  BY DEF Written, PairSet, SetSet, AnyKey
<1>3. CASE Written(pair)
  <2>1. SaveOne(s, pair) = Append(s, pair) /\ pair \in SetSet
    BY <1>2, <1>3 DEF SaveOne
  <2>2. /\ Append(s, pair) \in Seq(SetSet)
        /\ Len(Append(s, pair)) = Len(s) + 1 /\ Append(s, pair)[Len(s) + 1] = pair
        /\ \A i \in 1..Len(s) : Append(s, pair)[i] = s[i]
    BY <1>1, <2>1, AppendProperties
  <2> QED BY <2>1, <2>2, SettingsAre
<1>4. CASE ~Written(pair)
  BY <1>4 DEF SaveOne
<1> QED BY <1>3, <1>4

LEMMA SaveSteps ==
  ASSUME NEW pairs \in Pairs
  PROVE  \E f : /\ f[0] = <<>>
                /\ \A i \in 1..Len(pairs) : f[i] = SaveOne(f[i - 1], pairs[i])
                /\ Save(pairs) = f[Len(pairs)]
<1> DEFINE N == Len(pairs)
           step == [i \in 1..N |-> [s \in Settings |-> SaveOne(s, pairs[i])]]
           Def(f) == [i \in 0..N |-> IF i = 0 THEN <<>> ELSE SaveOne(f[i - 1], pairs[i])]
<1>1. N \in Nat /\ \A i \in 1..N : pairs[i] \in PairSet
  <2>1. pairs \in Seq(PairSet)
    BY DEF Pairs, PairSet
  <2> QED BY <2>1, ListsAre
<1>2. <<>> \in Settings
  BY DEF Settings
<1>3. \A i \in 1..N, s \in Settings : SaveOne(s, pairs[i]) \in Settings
  BY <1>1, SaveOneType
<1>4. step \in [1..N -> [Settings -> Settings]]
  BY <1>3
<1>5. \E f \in [0..N -> Settings] : f[0] = <<>> /\ \A i \in 1..N : f[i] = step[i][f[i - 1]]
  <2> HIDE DEF step, N
  <2> QED BY <1>1, <1>2, <1>4, Iteration
<1>6. PICK f \in [0..N -> Settings] : f[0] = <<>> /\ \A i \in 1..N : f[i] = step[i][f[i - 1]]
  BY <1>5
<1>7. \A i \in 1..N : f[i] = SaveOne(f[i - 1], pairs[i])
  <2> SUFFICES ASSUME NEW i \in 1..N PROVE f[i] = SaveOne(f[i - 1], pairs[i])
    OBVIOUS
  <2>1. f[i - 1] \in Settings
    BY <1>1, <1>6
  <2>2. step[i][f[i - 1]] = SaveOne(f[i - 1], pairs[i])
    BY <2>1
  <2> QED BY <1>6, <2>2
<1>8. f = Def(f)
  BY <1>1, <1>6, <1>7
<1>9. \E g : g = Def(g)
  BY <1>8, Zenon
<1> DEFINE u == CHOOSE g : g = Def(g)
<1>10. u = Def(u)
  BY <1>9, Zenon
<1>11. Save(pairs) = u[N]
  BY Zenon DEF Save, SaveOne
<1> HIDE DEF u
<1>12. u[0] = <<>> /\ \A i \in 1..N : u[i] = SaveOne(u[i - 1], pairs[i])
  BY <1>1, <1>10
<1> QED BY <1>11, <1>12

LEMMA SavedIs ==
  ASSUME NEW pairs \in Pairs, Unique(pairs)
  PROVE  SavedUpTo(Save(pairs), pairs, Len(pairs))
<1> DEFINE N == Len(pairs)
<1>1. N \in Nat /\ DOMAIN pairs = 1..N /\ \A i \in 1..N : pairs[i] \in PairSet
  <2>1. pairs \in Seq(PairSet)
    BY DEF Pairs, PairSet
  <2> QED BY <2>1, ListsAre
<1>2. PICK f : /\ f[0] = <<>>
               /\ \A i \in 1..N : f[i] = SaveOne(f[i - 1], pairs[i])
               /\ Save(pairs) = f[N]
  BY SaveSteps
<1> HIDE DEF N
<1> DEFINE T == {n \in Nat : n <= N => SavedUpTo(f[n], pairs, n)}
<1>3. 0 \in T
  <2>1. SavedUpTo(<<>>, pairs, 0)
    BY DEF SavedUpTo, Settings, Unique
  <2> QED BY <1>2, <2>1
<1>4. ASSUME NEW n \in Nat, n \in T PROVE n + 1 \in T
  <2> SUFFICES ASSUME n + 1 <= N PROVE SavedUpTo(f[n + 1], pairs, n + 1)
    OBVIOUS
  <2> DEFINE s == f[n]
             p == pairs[n + 1]
             r == SaveOne(s, p)
  <2>1. SavedUpTo(s, pairs, n)
    BY <1>1, <1>4
  <2>2. n + 1 \in 1..N /\ (n + 1) - 1 = n /\ \A j \in 1..n : j \in 1..N /\ j # n + 1
    BY <1>1
  <2>3. f[n + 1] = r /\ p \in PairSet
    BY <1>1, <1>2, <2>2
  <2>4. s \in Settings /\ IsList(s) /\ Len(s) \in Nat
    BY <2>1, SettingsAre DEF SavedUpTo
  <2>5. (\A j \in 1..n + 1 : j \in 1..n \/ j = n + 1) /\ (n + 1 \in 1..n + 1) /\ \A j \in 1..n : j \in 1..n + 1
    OBVIOUS
  <2> HIDE DEF s, p, T
  <2>6. CASE ~Written(p)
    <3>1. r = s
      BY <2>6 DEF SaveOne
    <3>2. SavedUpTo(s, pairs, n + 1)
      BY <2>1, <2>5, <2>6 DEF SavedUpTo, p
    <3> QED BY <2>3, <3>1, <3>2
  <2>7. CASE Written(p)
    <3>1. /\ r \in Settings /\ Len(r) = Len(s) + 1 /\ r[Len(s) + 1] = p
          /\ \A i \in 1..Len(s) : r[i] = s[i]
      BY <2>3, <2>4, <2>7, SaveOneType
    <3>2. DOMAIN r = 1..Len(s) + 1 /\ DOMAIN s = 1..Len(s)
      BY <2>4, <3>1, SettingsAre DEF IsList
    <3> HIDE DEF r
    <3>3. \A i \in 1..Len(s) : s[i].key # p.key
      <4> SUFFICES ASSUME NEW i \in 1..Len(s), s[i].key = p.key PROVE FALSE
        OBVIOUS
      <4>1. PICK j \in 1..n : s[i] = pairs[j]
        BY <2>1, <3>2 DEF SavedUpTo
      <4>2. j = n + 1
        BY <1>1, <2>2, <4>1 DEF Unique, p
      <4> QED BY <2>2, <4>2
    <3>4. Unique(r)
      <4>1. \A i, j \in 1..Len(s) : s[i].key = s[j].key => i = j
        BY <2>1, <3>2 DEF Unique, SavedUpTo
      <4>2. \A i \in DOMAIN r : (i \in 1..Len(s) /\ r[i] = s[i]) \/ (i = Len(s) + 1 /\ r[i] = p)
        BY <2>4, <3>1, <3>2
      <4> QED BY <3>3, <4>1, <4>2 DEF Unique
    <3>5. ASSUME NEW i \in DOMAIN r PROVE \E j \in 1..n + 1 : r[i] = pairs[j] /\ Written(pairs[j])
      <4>1. CASE i \in 1..Len(s)
        BY <2>1, <2>5, <3>1, <3>2, <4>1 DEF SavedUpTo
      <4>2. CASE i = Len(s) + 1
        BY <2>5, <2>7, <3>1, <4>2 DEF p
      <4> QED BY <2>4, <3>2, <4>1, <4>2
    <3>6. ASSUME NEW j \in 1..n + 1, Written(pairs[j]) PROVE \E i \in DOMAIN r : r[i] = pairs[j]
      <4>1. CASE j \in 1..n
        <5>1. PICK i \in DOMAIN s : s[i] = pairs[j]
          BY <2>1, <3>6, <4>1 DEF SavedUpTo
        <5> QED BY <2>4, <3>1, <3>2, <5>1
      <4>2. CASE j = n + 1
        <5>1. Len(s) + 1 \in DOMAIN r
          BY <2>4, <3>2
        <5> QED BY <3>1, <4>2, <5>1 DEF p
      <4> QED BY <2>5, <4>1, <4>2
    <3>7. SavedUpTo(r, pairs, n + 1)
      BY <3>1, <3>4, <3>5, <3>6 DEF SavedUpTo
    <3> QED BY <2>3, <3>7
  <2> QED BY <2>6, <2>7
<1>5. \A n \in Nat : n \in T
  <2> HIDE DEF T
  <2> QED BY <1>3, <1>4, Induction
<1>6. SavedUpTo(f[N], pairs, N)
  BY <1>1, <1>5
<1> QED BY <1>2, <1>6 DEF N

\* ImageConfigSave: what is empty is left out, and reads as empty again.
LEMMA SaveFacts ==
  ASSUME NEW pairs \in Pairs, Unique(pairs)
  PROVE  /\ Save(pairs) \in Settings
         /\ Unique(Save(pairs))
         /\ \A k \in Key : Get(Save(pairs), k) = Get(pairs, k)
<1> DEFINE s == Save(pairs)
<1>1. SavedUpTo(s, pairs, Len(pairs))
  BY SavedIs
<1> HIDE DEF s
<1>2. IsList(pairs) /\ DOMAIN pairs = 1..Len(pairs) /\ IsList(s)
  BY <1>1, PairsAre, SettingsAre DEF IsList, SavedUpTo
<1>3. \A k : Once(s, k) /\ Once(pairs, k)
  BY <1>1, UniqueOnce DEF SavedUpTo
<1>4. ASSUME NEW k \in Key PROVE Get(s, k) = Get(pairs, k)
  <2>1. CASE ~Silent(s, k)
    <3>1. PICK i \in DOMAIN s : s[i].key = k
      BY <2>1 DEF Silent
    <3>2. PICK j \in DOMAIN pairs : s[i] = pairs[j]
      BY <1>1, <1>2 DEF SavedUpTo
    <3>3. Get(s, k) = s[i].val
      BY <1>2, <1>3, <3>1, GetOnce
    <3>4. Get(pairs, k) = pairs[j].val
      BY <1>2, <1>3, <3>1, <3>2, GetOnce
    <3> QED BY <3>2, <3>3, <3>4
  <2>2. CASE Silent(s, k)
    <3>1. Get(s, k) = Blank
      BY <1>2, <1>3, <2>2, GetOnce
    <3>2. CASE Silent(pairs, k)
      BY <1>2, <1>3, <3>1, <3>2, GetOnce
    <3>3. CASE ~Silent(pairs, k)
      <4>1. PICK j \in DOMAIN pairs : pairs[j].key = k
        BY <3>3 DEF Silent
      <4>2. ~Written(pairs[j])
        BY <1>1, <1>2, <2>2, <4>1 DEF SavedUpTo, Silent
      <4>3. pairs[j].val = Blank
        BY <4>1, <4>2, MenusAssumption DEF Written
      <4>4. Get(pairs, k) = pairs[j].val
        BY <1>2, <1>3, <4>1, GetOnce
      <4> QED BY <3>1, <4>3, <4>4
    <3> QED BY <3>2, <3>3
  <2> QED BY <2>1, <2>2
<1> QED BY <1>1, <1>4 DEF SavedUpTo, s

\* A file that is loaded: its settings, then the line that Save adds.
LoadedFrom(list, settings) ==
  /\ list \in List
  /\ Len(list) = Len(settings) + 1
  /\ \A i \in 1..Len(list) : list[i].loaded
  /\ \A i \in 1..Len(settings) :
       list[i].key = settings[i].key /\ list[i].val = settings[i].val
  /\ list[Len(list)].key = Updated

LEMMA LoadIs ==
  ASSUME NEW settings \in Settings
  PROVE  LoadedFrom(Load(settings), settings)
<1> DEFINE N == Len(settings)
           front == [i \in 1..N |-> Item(settings[i].key, settings[i].val, TRUE)]
           last == Item(Updated, Blank, TRUE)
<1>1. N \in Nat /\ DOMAIN settings = 1..N /\ \A i \in 1..N : settings[i].key \in Key /\ settings[i].val \in V
  BY SettingsAre DEF IsList
<1>2. last \in ItemSet /\ last.key = Updated /\ last.loaded
  BY ItemIs DEF AnyKey, V
<1>3. \A i \in 1..N : /\ Item(settings[i].key, settings[i].val, TRUE) \in ItemSet
                      /\ Item(settings[i].key, settings[i].val, TRUE).key = settings[i].key
                      /\ Item(settings[i].key, settings[i].val, TRUE).val = settings[i].val
                      /\ Item(settings[i].key, settings[i].val, TRUE).loaded
  BY <1>1, ItemIs DEF AnyKey
<1>4. Load(settings) = Append(front, last)
  BY <1>1 DEF Load
<1> HIDE DEF last
<1>5. front \in [1..N -> ItemSet]
  BY <1>3
<1>6. front \in List /\ Len(front) = N
  <2>1. front \in Seq(ItemSet) /\ Len(front) = N
    <3> HIDE DEF front
    <3> QED BY <1>1, <1>5
  <2> QED BY <2>1, ListIs
<1>7. \A i \in 1..N : front[i].key = settings[i].key /\ front[i].val = settings[i].val /\ front[i].loaded
  BY <1>3
<1> HIDE DEF front, N
<1>8. /\ Load(settings) \in List /\ Len(Load(settings)) = N + 1 /\ Load(settings)[N + 1] = last
      /\ \A i \in 1..N : Load(settings)[i] = front[i]
  BY <1>2, <1>4, <1>6, AppendIs
<1>9. \A i \in 1..N + 1 : i \in 1..N \/ i = N + 1
  BY <1>1
<1> QED BY <1>2, <1>7, <1>8, <1>9 DEF LoadedFrom, N

LEMMA LoadFacts ==
  ASSUME NEW settings \in Settings, Unique(settings), NEW list, LoadedFrom(list, settings)
  PROVE  /\ Unique(list)
         /\ \A k \in Key : Get(list, k) = Get(settings, k)
<1> DEFINE N == Len(settings)
<1>1. /\ N \in Nat /\ DOMAIN settings = 1..N /\ IsList(settings) /\ IsList(list)
      /\ Len(list) = N + 1 /\ DOMAIN list = 1..N + 1
      /\ \A i \in 1..N : settings[i].key \in Key
      /\ \A i \in 1..N : list[i].key = settings[i].key /\ list[i].val = settings[i].val
      /\ list[N + 1].key = Updated
  BY SettingsAre, ListsAre, ListIs DEF IsList, LoadedFrom
<1> HIDE DEF N
<1>2. \A i \in 1..N + 1 : i \in 1..N \/ i = N + 1
  BY <1>1
<1>3. Updated \notin Key
  BY MenusAssumption
<1>4. Unique(list)
  BY <1>1, <1>2, <1>3 DEF Unique
<1>5. ASSUME NEW k \in Key PROVE Get(list, k) = Get(settings, k)
  <2>1. Once(list, k) /\ Once(settings, k)
    BY <1>4, UniqueOnce
  <2>2. CASE Silent(settings, k)
    <3>1. Silent(list, k)
      BY <1>1, <1>2, <1>3, <2>2 DEF Silent
    <3> QED BY <1>1, <2>1, <2>2, <3>1, GetOnce
  <2>3. CASE ~Silent(settings, k)
    <3>1. PICK i \in 1..N : settings[i].key = k
      BY <1>1, <2>3 DEF Silent
    <3>2. i \in 1..N + 1
      BY <1>1
    <3>3. Get(settings, k) = settings[i].val
      BY <1>1, <2>1, <3>1, GetOnce
    <3>4. Get(list, k) = list[i].val
      BY <1>1, <2>1, <3>1, <3>2, GetOnce
    <3> QED BY <1>1, <3>3, <3>4
  <2> QED BY <2>2, <2>3
<1> QED BY <1>4, <1>5

\* ImageConfigExpand keeps names, values and order.
LEMMA ExpandFacts ==
  ASSUME NEW list \in List
  PROVE  /\ Expand(list) \in Pairs
         /\ Len(Expand(list)) = Len(list) /\ DOMAIN Expand(list) = DOMAIN list
         /\ \A i \in DOMAIN list : Expand(list)[i].key = list[i].key /\ Expand(list)[i].val = list[i].val
         /\ Unique(list) => Unique(Expand(list))
         /\ \A k : Get(Expand(list), k) = Get(list, k) /\ (Silent(Expand(list), k) <=> Silent(list, k))
<1> DEFINE N == Len(list)
           e == [i \in 1..N |-> Pair(list[i].key, list[i].val)]
<1>1. N \in Nat /\ DOMAIN list = 1..N /\ IsList(list) /\ \A i \in 1..N : list[i] \in ItemSet
  BY ListsAre, ListIs DEF IsList
<1>2. \A i \in 1..N : /\ Pair(list[i].key, list[i].val) \in PairSet
                      /\ Pair(list[i].key, list[i].val).key = list[i].key
                      /\ Pair(list[i].key, list[i].val).val = list[i].val
  BY <1>1 DEF Pair, PairSet, ItemSet
<1>3. Expand(list) = e
  BY <1>1 DEF Expand
<1>4. e \in [1..N -> PairSet]
  BY <1>2
<1>5. e \in Seq(PairSet) /\ Len(e) = N /\ DOMAIN e = 1..N
  BY <1>1, <1>4
<1>6. e \in Pairs
  BY <1>5 DEF Pairs, PairSet
<1>7. \A i \in 1..N : e[i].key = list[i].key /\ e[i].val = list[i].val
  BY <1>2
<1> HIDE DEF e
<1>8. Unique(list) => Unique(e)
  BY <1>1, <1>5, <1>7 DEF Unique
<1>9. ASSUME NEW k PROVE Get(e, k) = Get(list, k) /\ (Silent(e, k) <=> Silent(list, k))
  <2>1. Positions(e, k) = Positions(list, k)
    BY <1>1, <1>5, <1>7 DEF Positions
  <2>2. FindItem(e, k) = FindItem(list, k)
    BY <1>5, <2>1 DEF FindItem, N
  <2>3. FindItem(list, k) = 0 \/ FindItem(list, k) \in 1..N
    BY <1>1, FindFacts DEF Positions
  <2>4. Get(e, k) = Get(list, k)
    BY <1>7, <2>2, <2>3 DEF Get
  <2>5. Silent(e, k) <=> Silent(list, k)
    BY <1>1, <1>5, <1>7 DEF Silent
  <2> QED BY <2>4, <2>5
<1> QED BY <1>1, <1>3, <1>5, <1>6, <1>7, <1>8, <1>9 DEF N

\* The last value that pairs give for a name.
Says(pairs, k, v) ==
  \E i \in DOMAIN pairs :
    /\ pairs[i].key = k /\ pairs[i].val = v
    /\ \A j \in DOMAIN pairs : pairs[j].key = k => j <= i

\* ImageConfigUpdate, as its callers need it.
LEMMA UpdateGives ==
  ASSUME NEW list \in List, Unique(list), NEW pairs \in Pairs
  PROVE  LET r == Update(list, pairs) IN
         /\ r \in List /\ Unique(r)
         /\ \A k : Silent(pairs, k) => Get(r, k) = Get(list, k)
         /\ \A k, v : Says(pairs, k, v) => Get(r, k) = v
<1> DEFINE r == Update(list, pairs)
           N == Len(pairs)
<1>1. UpdatedBy(r, list, pairs, N)
  BY UpdateFacts
<1>2. N \in Nat /\ DOMAIN pairs = 1..N
  BY PairsAre DEF IsList
<1> HIDE DEF r, N
<1>3. ASSUME NEW k, NEW v, Says(pairs, k, v) PROVE Get(r, k) = v
  <2>1. PICK i \in 1..N : /\ pairs[i].key = k /\ pairs[i].val = v
                          /\ \A j \in 1..N : pairs[j].key = k => j <= i
    BY <1>2, <1>3 DEF Says
  <2>2. \A m \in i + 1..N : m \in 1..N /\ ~(m <= i)
    BY <1>2
  <2>3. \A m \in i + 1..N : pairs[m].key # pairs[i].key
    BY <2>1, <2>2
  <2> QED BY <1>1, <2>1, <2>3 DEF UpdatedBy
<1> QED BY <1>1, <1>2, <1>3 DEF UpdatedBy, Silent, r

\* What a file says; one that is not there says nothing.
SettingsOf(f) == IF f = Absent THEN <<>> ELSE f
FileType(f) == f \in Settings \cup {Absent} /\ (f # Absent => Unique(f))

LEMMA NoSettings == <<>> \in Settings /\ Unique(<<>>) /\ \A k : Get(<<>>, k) = Blank
<1>1. <<>> \in Settings /\ Unique(<<>>) /\ IsList(<<>>)
  BY DEF Settings, Unique, IsList
<1>2. \A k : Silent(<<>>, k) /\ Once(<<>>, k)
  BY DEF Silent, Once, Positions
<1> QED BY <1>1, <1>2, GetOnce

LEMMA SettingsOfType ==
  ASSUME NEW f, FileType(f)
  PROVE  SettingsOf(f) \in Settings /\ Unique(SettingsOf(f))
BY NoSettings DEF SettingsOf, FileType

\* ImageChange: what is given is in the file then, and what is not is as before.
THEOREM ChangeGives ==
  ASSUME NEW f, FileType(f), f # Absent, NEW pairs \in Pairs
  PROVE  LET c == Change(f, pairs) IN
         /\ c \in Settings /\ Unique(c)
         /\ \A k \in Key : Silent(pairs, k) => Get(Load(c), k) = Get(Load(f), k)
         /\ \A k \in Key : \A v : Says(pairs, k, v) => Get(Load(c), k) = v
<1> DEFINE l == Load(f)
           r == Update(l, pairs)
           e == Expand(r)
           c == Save(e)
<1>1. Change(f, pairs) = c
  BY DEF Change
<1>2. f \in Settings /\ Unique(f)
  BY DEF FileType
<1>3. l \in List /\ Unique(l)
  BY <1>2, LoadIs, LoadFacts DEF LoadedFrom
<1>4. /\ r \in List /\ Unique(r)
      /\ \A k : Silent(pairs, k) => Get(r, k) = Get(l, k)
      /\ \A k, v : Says(pairs, k, v) => Get(r, k) = v
  BY <1>3, UpdateGives
<1>5. e \in Pairs /\ Unique(e) /\ \A k : Get(e, k) = Get(r, k)
  BY <1>4, ExpandFacts
<1>6. c \in Settings /\ Unique(c) /\ \A k \in Key : Get(c, k) = Get(e, k)
  BY <1>5, SaveFacts
<1>7. \A k \in Key : Get(Load(c), k) = Get(c, k)
  BY <1>6, LoadIs, LoadFacts
<1> HIDE DEF l, r, e, c
<1> QED BY <1>1, <1>4, <1>5, <1>6, <1>7 DEF l

-----------------------------------------------------------------------------
(* The list of a sheet.                                                    *)

(***************************************************************************)
(* A list that a form works on: m items that were loaded, the last of them *)
(* "updated" and no name twice, and then those that were set, a name more  *)
(* than once only if it was loaded too.                                    *)
(***************************************************************************)
ListShape(list, m) ==
  /\ m \in 0..Len(list)
  /\ \A i \in 1..Len(list) : list[i].loaded <=> i <= m
  /\ m > 0 => list[m].key = Updated
  /\ \A i \in m + 1..Len(list) : list[i].key \in Key
  /\ \A i, j \in 1..m : list[i].key = list[j].key => i = j
  /\ \A i, j \in m + 1..Len(list) :
       list[i].key = list[j].key => i = j \/ \E h \in 1..m : list[h].key = list[i].key

\* Setting k leaves the items of other names alone.
OthersStay(r, list, k) ==
  \A n : n # k => /\ Positions(r, n) = Positions(list, n)
                  /\ \A i \in Positions(list, n) : /\ r[i].val = list[i].val
                                                   /\ r[i].loaded = list[i].loaded

LEMMA FindLast ==
  ASSUME NEW list, IsList(list), Len(list) > 0, NEW k, list[Len(list)].key = k
  PROVE  FindItem(list, k) = Len(list)
<1>1. Len(list) \in Positions(list, k)
  BY DEF Positions, IsList
<1>2. Positions(list, k) # {}
  BY <1>1
<1> QED BY <1>1, <1>2 DEF FindItem

\* A setting that is added to the end of a list.
LEMMA SetAtEnd ==
  ASSUME NEW list \in List, NEW m, ListShape(list, m), NEW k \in Key, NEW v \in V,
         \/ Silent(list, k)
         \/ \E h \in 1..m : list[h].key = k,
         NEW r \in List, Len(r) = Len(list) + 1,
         \A i \in 1..Len(list) : r[i] = list[i],
         r[Len(list) + 1].key = k, r[Len(list) + 1].val = v,
         ~r[Len(list) + 1].loaded
  PROVE  /\ ListShape(r, m) /\ Says(r, k, v) /\ Get(r, k) = v
         /\ OthersStay(r, list, k)
<1> DEFINE N == Len(list)
           q == N + 1
<1>1. /\ IsList(list) /\ N \in Nat /\ DOMAIN list = 1..N
      /\ IsList(r) /\ DOMAIN r = 1..q /\ Len(r) = q
  BY ListsAre, ListIs DEF IsList
<1>2. /\ m \in 0..N /\ m \in 0..q /\ q \in 1..q /\ q > m /\ q # 0
      /\ \A i \in 1..q : i \in 1..N \/ i = q
      /\ \A i \in 1..q : i <= q
      /\ \A i \in 1..N : i \in 1..q /\ i # q
  BY <1>1 DEF ListShape
<1>3. /\ r[q].key = k /\ r[q].val = v /\ ~r[q].loaded
      /\ \A i \in 1..N : r[i] = list[i]
  OBVIOUS
<1> HIDE DEF N, q
<1>4. ListShape(r, m)
  <2>1. \A i \in 1..q : r[i].loaded <=> i <= m
    <3>1. ~(q <= m)
      BY <1>1, <1>2
    <3>2. \A i \in 1..N : list[i].loaded <=> i <= m
      BY DEF ListShape, N
    <3> QED BY <1>2, <1>3, <3>1, <3>2
  <2>2. m > 0 => r[m].key = Updated
    <3>1. m > 0 => m \in 1..N
      BY <1>1, <1>2
    <3> QED BY <1>3, <3>1 DEF ListShape
  <2>3. (\A i \in m + 1..q : i \in m + 1..N \/ i = q) /\ \A i \in m + 1..N : i \in 1..N
    BY <1>1, <1>2 DEF q
  <2>4. \A i \in m + 1..q : r[i].key \in Key
    <3>1. \A i \in m + 1..N : list[i].key \in Key
      BY DEF ListShape, N
    <3> QED BY <1>3, <2>3, <3>1
  <2>5. \A i \in 1..m : i \in 1..N
    BY <1>1, <1>2
  <2>6. \A i, j \in 1..m : r[i].key = r[j].key => i = j
    BY <1>3, <2>5 DEF ListShape
  <2>7. ASSUME NEW i \in m + 1..q, NEW j \in m + 1..q, r[i].key = r[j].key
        PROVE  i = j \/ \E h \in 1..m : r[h].key = r[i].key
    <3>1. CASE i \in m + 1..N /\ j \in m + 1..N
      <4>1. list[i].key = list[j].key
        BY <1>3, <2>3, <2>7, <3>1
      <4>2. i = j \/ \E h \in 1..m : list[h].key = list[i].key
        BY <3>1, <4>1 DEF ListShape, N
      <4> QED BY <1>3, <2>3, <2>5, <3>1, <4>2
    <3>2. CASE i \in m + 1..N /\ j = q
      <4>1. list[i].key = k /\ i \in DOMAIN list /\ r[i].key = k
        BY <1>1, <1>3, <2>3, <2>7, <3>2
      <4>2. \E h \in 1..m : list[h].key = k
        BY <4>1 DEF Silent
      <4> QED BY <1>3, <2>5, <4>1, <4>2
    <3>3. CASE i = q /\ j \in m + 1..N
      <4>1. list[j].key = k /\ j \in DOMAIN list /\ r[i].key = k
        BY <1>1, <1>3, <2>3, <2>7, <3>3
      <4>2. \E h \in 1..m : list[h].key = k
        BY <4>1 DEF Silent
      <4> QED BY <1>3, <2>5, <4>1, <4>2
    <3> QED BY <2>3, <3>1, <3>2, <3>3
  <2> QED BY <1>1, <1>2, <2>1, <2>2, <2>4, <2>6, <2>7 DEF ListShape
<1>5. Says(r, k, v)
  BY <1>1, <1>2, <1>3 DEF Says
<1>6. Get(r, k) = v
  <2>1. FindItem(r, k) = q
    BY <1>1, <1>2, <1>3, FindLast
  <2> QED BY <1>2, <1>3, <2>1 DEF Get
<1>7. OthersStay(r, list, k)
  <2> SUFFICES ASSUME NEW n, n # k
               PROVE  /\ Positions(r, n) = Positions(list, n)
                      /\ \A i \in Positions(list, n) : r[i] = list[i]
    BY DEF OthersStay
  <2>1. \A i \in 1..q : r[i].key = n <=> i \in 1..N /\ list[i].key = n
    BY <1>2, <1>3
  <2>2. Positions(r, n) = Positions(list, n)
    BY <1>1, <1>2, <2>1 DEF Positions
  <2>3. \A i \in Positions(list, n) : r[i] = list[i]
    BY <1>1, <1>3 DEF Positions
  <2> QED BY <2>2, <2>3
<1> QED BY <1>4, <1>5, <1>6, <1>7

\* A setting that was set before, for the last time: it is set again.
LEMMA SetAgain ==
  ASSUME NEW list \in List, NEW m, ListShape(list, m), NEW k \in Key, NEW v \in V,
         NEW p \in m + 1..Len(list), p = FindItem(list, k), list[p].key = k,
         \A j \in Positions(list, k) : j <= p,
         NEW r, Replaced(r, list, p, v)
  PROVE  /\ ListShape(r, m) /\ Says(r, k, v) /\ Get(r, k) = v
         /\ OthersStay(r, list, k)
<1> DEFINE N == Len(list)
<1>1. /\ IsList(list) /\ N \in Nat /\ DOMAIN list = 1..N /\ m \in 0..N
      /\ p \in DOMAIN list /\ p # 0
  BY ListsAre, ListIs DEF IsList, ListShape
<1>2. /\ DOMAIN r = 1..N /\ Len(r) = N /\ r[p].val = v
      /\ \A i \in 1..N : r[i].key = list[i].key /\ r[i].loaded = list[i].loaded
      /\ \A i \in 1..N : i # p => r[i].val = list[i].val
  BY <1>1 DEF Replaced
<1>3. \A n : Positions(r, n) = Positions(list, n) /\ FindItem(r, n) = FindItem(list, n)
  <2>1. p \in DOMAIN list /\ Replaced(r, list, p, v)
    BY <1>1, Zenon
  <2>2. ASSUME NEW q \in DOMAIN list, Replaced(r, list, q, v)
        PROVE  \A n : Positions(r, n) = Positions(list, n) /\ FindItem(r, n) = FindItem(list, n)
    BY <2>2, ReplacedFacts
  <2> QED BY <2>1, <2>2, Zenon
<1> HIDE DEF N
<1>4. ListShape(r, m)
  <2>1. /\ \A i \in 1..m : i \in 1..N
        /\ \A i \in m + 1..N : i \in 1..N
        /\ m > 0 => m \in 1..N
    BY <1>1
  <2>2. /\ \A i \in 1..N : list[i].loaded <=> i <= m
        /\ m > 0 => list[m].key = Updated
        /\ \A i \in m + 1..N : list[i].key \in Key
        /\ \A i, j \in 1..m : list[i].key = list[j].key => i = j
        /\ \A i, j \in m + 1..N :
             list[i].key = list[j].key => i = j \/ \E h \in 1..m : list[h].key = list[i].key
    BY DEF ListShape, N
  <2>3. /\ \A i \in 1..N : r[i].loaded <=> i <= m
        /\ m > 0 => r[m].key = Updated
        /\ \A i \in m + 1..N : r[i].key \in Key
        /\ \A i, j \in 1..m : r[i].key = r[j].key => i = j
    BY <1>2, <2>1, <2>2
  <2>4. \A i, j \in m + 1..N :
          r[i].key = r[j].key => i = j \/ \E h \in 1..m : r[h].key = r[i].key
    BY <1>2, <2>1, <2>2
  <2> QED BY <1>1, <1>2, <2>3, <2>4 DEF ListShape
<1>5. Says(r, k, v)
  BY <1>1, <1>2 DEF Says, Positions
<1>6. Get(r, k) = v
  BY <1>1, <1>2, <1>3 DEF Get
<1>7. OthersStay(r, list, k)
  BY <1>1, <1>2, <1>3 DEF OthersStay, Positions
<1> QED BY <1>4, <1>5, <1>6, <1>7

\* Both, as SetVar has them.
LEMMA SetAtEndVar ==
  ASSUME NEW list \in List, NEW m, ListShape(list, m), NEW k \in Key, NEW v \in V,
         \/ Silent(list, k)
         \/ \E h \in 1..m : list[h].key = k,
         SetVar(list, k, v) = Append(list, Item(k, v, FALSE))
  PROVE  LET r == SetVar(list, k, v) IN
         /\ r \in List /\ ListShape(r, m) /\ Says(r, k, v) /\ Get(r, k) = v
         /\ OthersStay(r, list, k)
<1> DEFINE it == Item(k, v, FALSE)
           r == SetVar(list, k, v)
<1>1. it \in ItemSet /\ it.key = k /\ it.val = v /\ ~it.loaded
  BY ItemIs DEF AnyKey
<1>2. r = Append(list, it)
  OBVIOUS
<1> HIDE DEF it, r
<1>3. /\ r \in List /\ Len(r) = Len(list) + 1 /\ r[Len(list) + 1] = it
      /\ \A i \in 1..Len(list) : r[i] = list[i]
  BY <1>1, <1>2, AppendIs
<1>4. r[Len(list) + 1].key = k /\ r[Len(list) + 1].val = v /\ ~r[Len(list) + 1].loaded
  BY <1>1, <1>3
<1>5. /\ ListShape(r, m) /\ Says(r, k, v) /\ Get(r, k) = v
      /\ OthersStay(r, list, k)
  BY <1>3, <1>4, SetAtEnd
<1> QED BY <1>3, <1>5 DEF r

\* SetVar: in any list that a form works on the value that was set counts, it is
\* the last of its name, the list keeps its shape, and no other name is touched.
THEOREM SetVarGives ==
  ASSUME NEW list \in List, NEW m, ListShape(list, m), NEW k \in Key, NEW v \in V
  PROVE  LET r == SetVar(list, k, v) IN
         /\ r \in List /\ ListShape(r, m) /\ Says(r, k, v) /\ Get(r, k) = v
         /\ OthersStay(r, list, k)
<1> DEFINE N == Len(list)
           p == FindItem(list, k)
           targets == SetTargets(list, k)
<1>1. IsList(list) /\ N \in Nat /\ DOMAIN list = 1..N /\ m \in 0..N
  BY ListsAre, ListIs DEF IsList, ListShape
<1>2. /\ p = 0 <=> Silent(list, k)
      /\ p # 0 => /\ p \in 1..N /\ list[p].key = k /\ p \in Positions(list, k)
                  /\ p = N \/ \A j \in Positions(list, k) : p <= j
  BY <1>1, FindFacts DEF Positions
<1>3. targets = {j \in Positions(list, k) : /\ ~list[j].loaded
                                            /\ p <= j
                                            /\ p..j \subseteq Positions(list, k)}
  BY DEF SetTargets
<1>4. Positions(list, k) \subseteq 1..N /\ \A j \in Positions(list, k) : list[j].key = k
  BY <1>1 DEF Positions
<1> HIDE DEF p, targets, N
<1>5. CASE p = 0
  <2>1. Positions(list, k) = {}
    BY <1>2, <1>5 DEF Silent, Positions
  <2>2. SetVar(list, k, v) = Append(list, Item(k, v, FALSE))
    BY <1>3, <2>1 DEF SetVar, targets
  <2> QED BY <1>2, <1>5, <2>2, SetAtEndVar
<1>6. CASE p # 0 /\ p <= m
  <2>1. m \in 1..N /\ list[m].key = Updated /\ m \notin Positions(list, k)
    BY <1>1, <1>2, <1>4, <1>6, MenusAssumption DEF ListShape
  <2>2. p < m
    BY <1>1, <1>2, <1>6, <2>1
  <2>3. targets = {}
    <3> SUFFICES ASSUME NEW j \in targets PROVE FALSE
      OBVIOUS
    <3>1. j \in 1..N /\ ~list[j].loaded /\ p..j \subseteq Positions(list, k)
      BY <1>3, <1>4
    <3>2. ~(j <= m)
      BY <3>1 DEF ListShape, N
    <3>3. m \in p..j
      BY <1>1, <1>2, <2>1, <2>2, <3>1, <3>2
    <3> QED BY <2>1, <3>1, <3>3
  <2>4. SetVar(list, k, v) = Append(list, Item(k, v, FALSE))
    BY <2>3 DEF SetVar, targets
  <2>5. \E h \in 1..m : list[h].key = k
    BY <1>1, <1>2, <1>6
  <2> QED BY <2>4, <2>5, SetAtEndVar
<1>7. CASE p # 0 /\ m < p
  <2>1. p \in m + 1..N /\ ~list[p].loaded
    BY <1>1, <1>2, <1>7 DEF ListShape, N
  <2>2. p \in targets
    <3>1. p..p = {p}
      BY <1>1, <1>2, <1>7
    <3> QED BY <1>2, <1>3, <1>7, <2>1, <3>1
  <2>3. \A j \in targets : p <= j
    BY <1>3
  <2>4. targets \subseteq Nat
    BY <1>3, <1>4
  <2>5. First(targets) = p
    <3>1. First(targets) \in targets /\ First(targets) <= p
      BY <2>2, <2>4, FirstIs
    <3>2. First(targets) \in Nat /\ p \in Nat /\ p <= First(targets)
      BY <2>2, <2>3, <2>4, <3>1
    <3> QED BY <3>1, <3>2
  <2>6. SetVar(list, k, v) = [list EXCEPT ![p].val = v]
    BY <2>2, <2>5 DEF SetVar, targets
  <2>7. \A j \in Positions(list, k) : j <= p
    <3>1. CASE p = N
      BY <1>1, <1>4, <3>1
    <3>2. CASE \A j \in Positions(list, k) : p <= j
      <4> SUFFICES ASSUME NEW j \in Positions(list, k), ~(j <= p) PROVE FALSE
        OBVIOUS
      <4>1. j \in m + 1..N /\ p # j
        BY <1>1, <1>2, <1>4, <1>7, <2>1
      <4>2. PICK h \in 1..m : list[h].key = k
        BY <1>2, <1>4, <1>7, <2>1, <4>1 DEF ListShape, N
      <4>3. h \in Positions(list, k) /\ ~(p <= h)
        BY <1>1, <1>2, <1>7, <4>2 DEF Positions
      <4> QED BY <3>2, <4>3
    <3> QED BY <1>2, <1>7, <3>1, <3>2
  <2> DEFINE r == SetVar(list, k, v)
  <2>8. Replaced(r, list, p, v)
    <3>1. p \in DOMAIN list
      BY <1>1, <1>2, <1>7
    <3>2. Replaced([list EXCEPT ![p].val = v], list, p, v)
      BY <3>1, ReplacedInPlace
    <3> QED BY <2>6, <3>2, Zenon
  <2> HIDE DEF r
  <2>9. /\ ListShape(r, m) /\ Says(r, k, v) /\ Get(r, k) = v
        /\ OthersStay(r, list, k)
    BY <1>2, <1>7, <2>1, <2>7, <2>8, SetAgain DEF N, p
  <2>10. r \in List
    BY <2>8 DEF Replaced
  <2> QED BY <2>9, <2>10 DEF r
<1> QED BY <1>1, <1>2, <1>5, <1>6, <1>7

-----------------------------------------------------------------------------
(* Sheets.                                                                 *)

\* Where name k is in a list, and with what.
LEMMA SaysPositions ==
  ASSUME NEW list, NEW k
  PROVE  /\ Silent(list, k) <=> Positions(list, k) = {}
         /\ \A v : Says(list, k, v) <=>
              \E i \in Positions(list, k) :
                list[i].val = v /\ \A j \in Positions(list, k) : j <= i
BY DEF Silent, Says, Positions

\* A name that has one item.
LEMMA SaysOnce ==
  ASSUME NEW list, IsList(list), NEW k, Once(list, k), ~Silent(list, k)
  PROVE  Says(list, k, Get(list, k))
<1>1. PICK i \in DOMAIN list : list[i].key = k
  BY DEF Silent
<1>2. Get(list, k) = list[i].val
  BY <1>1, GetOnce
<1>3. \A j \in DOMAIN list : list[j].key = k => j <= i
  BY <1>1 DEF Once, Positions, IsList
<1> QED BY <1>1, <1>2, <1>3 DEF Says

(***************************************************************************)
(* What holds of a sheet: a setting that was not chosen is as it was, with *)
(* no item but that of the file; of one that was chosen the choice is the  *)
(* last item (or there is none, of a new VM where nothing is given); and   *)
(* the setting that was chosen last is shown as chosen.                    *)
(***************************************************************************)
SheetOk(s) ==
  /\ \E m \in Nat : ListShape(s.list, m)
  /\ \A k \in Key : s.chosen[k] = None =>
       /\ Get(s.list, k) = s.opened[k]
       /\ \A i \in Positions(s.list, k) : s.list[i].loaded
  /\ \A k \in Key : s.chosen[k] # None =>
       IF Silent(s.list, k) THEN s.chosen[k] = Blank ELSE Says(s.list, k, s.chosen[k])
  /\ s.newest # None =>
       s.chosen[s.newest] # None /\ Get(s.list, s.newest) = s.chosen[s.newest]

\* What was not chosen, and not changed by others, is in the file as it was.
Fresh(s, f) ==
  \A k \in Key : s.chosen[k] = None /\ k \notin s.changed =>
    Get(Load(SettingsOf(f)), k) = s.opened[k]

Unloaded(list) == \A i \in DOMAIN list : ~list[i].loaded

LEMMA NoneIsNone == None \notin V /\ None \notin Key /\ Blank \notin Value /\ Blank \in V
BY MenusAssumption DEF V

LEMMA SheetParts ==
  ASSUME NEW s \in Sheets
  PROVE  /\ s.list \in List /\ s.opened \in [Key -> V] /\ s.chosen \in [Key -> V \cup {None}]
         /\ s.newest \in Key \cup {None} /\ s.changed \in SUBSET Key
BY DEF Sheets, V

LEMMA MakeSheet ==
  ASSUME NEW list \in List, NEW opened \in [Key -> V], NEW chosen \in [Key -> V \cup {None}],
         NEW newest \in Key \cup {None}, NEW changed \in SUBSET Key
  PROVE  LET s == [list |-> list, opened |-> opened, chosen |-> chosen,
                   newest |-> newest, changed |-> changed]
         IN s \in Sheets /\ s.list = list /\ s.opened = opened /\ s.chosen = chosen
            /\ s.newest = newest /\ s.changed = changed
<1>1. V \cup {None} = Value \cup {Blank, None}
  BY DEF V
<1> QED BY <1>1 DEF Sheets, V

\* The parts of a sheet that is opened.
LEMMA SheetIs ==
  ASSUME NEW list \in List
  PROVE  /\ Sheet(list) \in Sheets /\ Sheet(list).list = list
         /\ \A k \in Key : Sheet(list).opened[k] = Get(list, k) /\ Sheet(list).chosen[k] = None
         /\ Sheet(list).newest = None /\ Sheet(list).changed = {}
<1> DEFINE values == Values(list)
           none == [k \in Key |-> None]
<1>1. values \in [Key -> V]
  <2>1. list \in Seq(ItemSet) /\ \A x \in ItemSet : x.val \in V
    BY ListIs DEF ItemSet
  <2> QED BY <2>1, GetType
<1>2. none \in [Key -> V \cup {None}] /\ \A k \in Key : none[k] = None
  OBVIOUS
<1>3. \A k \in Key : values[k] = Get(list, k)
  BY DEF Values
<1>4. Sheet(list) = [list |-> list, opened |-> values, chosen |-> none,
                     newest |-> None, changed |-> {}]
  BY DEF Sheet
<1> HIDE DEF values, none
<1>5. None \in Key \cup {None} /\ {} \in SUBSET Key
  OBVIOUS
<1> QED BY <1>1, <1>2, <1>3, <1>4, <1>5, MakeSheet

\* Only items of the file: nothing was chosen.
LEMMA OpenedSheet ==
  ASSUME NEW list \in List, NEW m \in Nat, ListShape(list, m),
         \A i \in DOMAIN list : list[i].loaded
  PROVE  SheetOk(Sheet(list))
<1>1. /\ Sheet(list).list = list /\ Sheet(list).newest = None
      /\ \A k \in Key : Sheet(list).opened[k] = Get(list, k) /\ Sheet(list).chosen[k] = None
  BY SheetIs
<1> QED BY <1>1 DEF SheetOk, Positions

LEMMA NoSheetOk == NoSheet \in Sheets /\ SheetOk(NoSheet) /\ \A k \in Key : NoSheet.chosen[k] = None
<1>1. <<>> \in List /\ Len(<<>>) = 0 /\ DOMAIN <<>> = {}
  BY ListIs
<1>2. ListShape(<<>>, 0)
  BY <1>1 DEF ListShape
<1> QED BY <1>1, <1>2, SheetIs, OpenedSheet DEF NoSheet

LEMMA LoadedShape ==
  ASSUME NEW settings \in Settings, Unique(settings), NEW list, LoadedFrom(list, settings)
  PROVE  \E m \in Nat : ListShape(list, m)
<1> DEFINE N == Len(list)
<1>1. /\ IsList(list) /\ N \in Nat /\ DOMAIN list = 1..N /\ N > 0 /\ Unique(list)
      /\ \A i \in 1..N : list[i].loaded
      /\ list[N].key = Updated
  BY LoadFacts, ListsAre, ListIs, SettingsAre DEF IsList, LoadedFrom
<1> HIDE DEF N
<1>2. N \in 0..N /\ \A i : i \notin N + 1..N
  BY <1>1
<1>3. \A i \in 1..N : i <= N
  BY <1>1
<1>4. ListShape(list, N)
  BY <1>1, <1>2, <1>3 DEF ListShape, Unique, N
<1> QED BY <1>1, <1>4

\* A sheet that is opened from a file.
LEMMA LoadedSheet ==
  ASSUME NEW f, FileType(f), f # Absent
  PROVE  LET s == Sheet(Load(f)) IN
         /\ s \in Sheets /\ SheetOk(s) /\ Fresh(s, f) /\ \A k \in Key : s.chosen[k] = None
<1> DEFINE l == Load(f)
           s == Sheet(l)
<1>1. f \in Settings /\ Unique(f) /\ SettingsOf(f) = f
  BY DEF FileType, SettingsOf
<1>2. LoadedFrom(l, f)
  BY <1>1, LoadIs
<1> HIDE DEF l
<1>3. l \in List /\ IsList(l) /\ \A i \in DOMAIN l : l[i].loaded
  BY <1>2, ListsAre, ListIs DEF LoadedFrom, IsList
<1>4. \E m \in Nat : ListShape(l, m)
  BY <1>1, <1>2, LoadedShape
<1>5. SheetOk(s)
  BY <1>3, <1>4, OpenedSheet
<1>6. s \in Sheets /\ \A k \in Key : s.opened[k] = Get(l, k) /\ s.chosen[k] = None
  BY <1>3, SheetIs
<1> HIDE DEF s
<1>7. Fresh(s, f)
  BY <1>1, <1>6 DEF Fresh, l
<1> QED BY <1>5, <1>6, <1>7 DEF s, l

\* One setting is chosen.
LEMMA EditedIs ==
  ASSUME NEW s \in Sheets, NEW k \in Key, NEW v \in V, SetVar(s.list, k, v) \in List
  PROVE  LET e == Edited(s, k, v) IN
         /\ e \in Sheets
         /\ e.list = SetVar(s.list, k, v) /\ e.opened = s.opened /\ e.changed = s.changed
         /\ e.chosen[k] = v /\ e.newest = k
         /\ \A n \in Key : n # k => e.chosen[n] = s.chosen[n]
<1> DEFINE r == SetVar(s.list, k, v)
           chosen == [s.chosen EXCEPT ![k] = v]
           e == [list |-> r, opened |-> s.opened, chosen |-> chosen, newest |-> k,
                 changed |-> s.changed]
<1>1. /\ s.list \in List /\ s.opened \in [Key -> V] /\ s.chosen \in [Key -> V \cup {None}]
      /\ s.changed \in SUBSET Key
  BY SheetParts
<1>2. Edited(s, k, v) = e
  <2> DEFINE e1 == [s EXCEPT !.list = r]
             e2 == [e1 EXCEPT !.chosen[k] = v]
             e3 == [e2 EXCEPT !.newest = k]
  <2>1. e1 = [list |-> r, opened |-> s.opened, chosen |-> s.chosen, newest |-> s.newest,
              changed |-> s.changed]
    BY DEF Sheets
  <2>2. e2 = [list |-> r, opened |-> s.opened, chosen |-> chosen, newest |-> s.newest,
              changed |-> s.changed]
    <3> HIDE DEF e1
    <3> QED BY <2>1
  <2>3. e3 = e
    <3> HIDE DEF e2
    <3> QED BY <2>2
  <2>4. Edited(s, k, v) = e3
    BY DEF Edited, Sheets
  <2> HIDE DEF e3
  <2> QED BY <2>3, <2>4
<1>3. chosen \in [Key -> V \cup {None}] /\ chosen[k] = v /\ \A n \in Key : n # k => chosen[n] = s.chosen[n]
  BY <1>1
<1> HIDE DEF r, chosen
<1>4. r \in List
  BY DEF r
<1>5. e \in Sheets /\ e.list = r /\ e.opened = s.opened /\ e.chosen = chosen /\ e.newest = k /\ e.changed = s.changed
  BY <1>1, <1>3, <1>4, MakeSheet
<1> HIDE DEF e
<1> QED BY <1>2, <1>3, <1>5 DEF r

\* A setting that was not chosen has one item at the most.
LEMMA NotChosen ==
  ASSUME NEW list \in List, NEW m \in Nat, ListShape(list, m), NEW k,
         \A i \in Positions(list, k) : list[i].loaded
  PROVE  Once(list, k)
<1>1. IsList(list) /\ Len(list) \in Nat /\ DOMAIN list = 1..Len(list)
  BY ListsAre, ListIs DEF IsList
<1>2. \A i \in Positions(list, k) : i \in 1..m /\ list[i].key = k
  BY <1>1 DEF ListShape, Positions
<1> QED BY <1>2 DEF ListShape, Once

LEMMA EditedOk ==
  ASSUME NEW s \in Sheets, SheetOk(s), NEW k \in Key, NEW v \in V
  PROVE  LET e == Edited(s, k, v) IN
         /\ e \in Sheets /\ SheetOk(e) /\ e.opened = s.opened /\ e.changed = s.changed
         /\ e.chosen[k] = v /\ \A n \in Key : n # k => e.chosen[n] = s.chosen[n]
         /\ Unloaded(s.list) => Unloaded(e.list)
<1> DEFINE e == Edited(s, k, v)
           r == SetVar(s.list, k, v)
           l == s.list
<1>1. PICK m \in Nat : ListShape(l, m)
  BY DEF SheetOk
<1>2. l \in List
  BY SheetParts
<1>3. /\ r \in List /\ ListShape(r, m) /\ Says(r, k, v) /\ Get(r, k) = v
      /\ OthersStay(r, l, k)
  BY <1>1, <1>2, SetVarGives
<1>4. /\ e \in Sheets
      /\ e.list = r /\ e.opened = s.opened /\ e.changed = s.changed
      /\ e.chosen[k] = v /\ e.newest = k
      /\ \A n \in Key : n # k => e.chosen[n] = s.chosen[n]
  BY <1>3, EditedIs
<1> HIDE DEF e, r
<1>5. IsList(l) /\ IsList(r)
  BY <1>2, <1>3, ListsAre, ListIs
<1>6. v # None /\ k # None
  BY NoneIsNone
<1>7. ~Silent(r, k)
  BY <1>3 DEF Says, Silent
<1>8. ASSUME NEW n \in Key, n # k, e.chosen[n] = None
      PROVE  Get(r, n) = e.opened[n] /\ \A i \in Positions(r, n) : r[i].loaded
  <2>1. Get(l, n) = s.opened[n] /\ \A i \in Positions(l, n) : l[i].loaded
    BY <1>4, <1>8 DEF SheetOk
  <2>2. Positions(r, n) = Positions(l, n) /\ \A i \in Positions(l, n) : r[i].val = l[i].val /\ r[i].loaded = l[i].loaded
    BY <1>3, <1>8 DEF OthersStay
  <2>3. \A i \in Positions(r, n) : r[i].loaded
    BY <2>1, <2>2
  <2>4. Once(l, n) /\ Once(r, n)
    BY <1>1, <1>2, <1>3, <2>1, <2>3, NotChosen
  <2>5. Get(r, n) = Get(l, n)
    <3>1. CASE Positions(l, n) = {}
      BY <1>5, <2>2, <2>4, <3>1, GetOnce, SaysPositions
    <3>2. CASE Positions(l, n) # {}
      <4>1. PICK i : i \in Positions(l, n) /\ i \in Positions(r, n)
        BY <2>2, <3>2
      <4>2. /\ i \in DOMAIN l /\ l[i].key = n /\ i \in DOMAIN r /\ r[i].key = n
            /\ r[i].val = l[i].val
        BY <2>2, <4>1 DEF Positions
      <4>3. Get(l, n) = l[i].val
        BY <1>5, <2>4, <4>2, GetOnce
      <4>4. Get(r, n) = r[i].val
        BY <1>5, <2>4, <4>2, GetOnce
      <4> QED BY <4>2, <4>3, <4>4
    <3> QED BY <3>1, <3>2
  <2> QED BY <1>4, <2>1, <2>3, <2>5
<1>9. ASSUME NEW n \in Key, n # k, e.chosen[n] # None
      PROVE  IF Silent(r, n) THEN e.chosen[n] = Blank ELSE Says(r, n, e.chosen[n])
  <2>1. IF Silent(l, n) THEN s.chosen[n] = Blank ELSE Says(l, n, s.chosen[n])
    BY <1>4, <1>9 DEF SheetOk
  <2>2. Positions(r, n) = Positions(l, n) /\ \A i \in Positions(l, n) : r[i].val = l[i].val
    BY <1>3, <1>9 DEF OthersStay
  <2>3. (Silent(r, n) <=> Silent(l, n)) /\ \A x : Says(l, n, x) => Says(r, n, x)
    BY <2>2, SaysPositions
  <2> QED BY <1>4, <1>9, <2>1, <2>3
<1>10. SheetOk(e)
  BY <1>3, <1>4, <1>6, <1>7, <1>8, <1>9 DEF SheetOk
<1>11. Unloaded(l) => Unloaded(r)
  <2> SUFFICES ASSUME Unloaded(l) PROVE Unloaded(r)
    OBVIOUS
  <2>1. m = 0
    <3> SUFFICES ASSUME m # 0 PROVE FALSE
      OBVIOUS
    <3>1. m \in 1..Len(l) /\ m \in DOMAIN l
      BY <1>1, <1>5 DEF ListShape, IsList
    <3> QED BY <1>1, <3>1 DEF ListShape, Unloaded
  <2> QED BY <1>3, <1>5, <2>1 DEF ListShape, Unloaded, IsList
<1> QED BY <1>4, <1>10, <1>11 DEF e

\* What a sheet keeps when others change the file.
Marked(s, K) == [s EXCEPT !.changed = @ \cup K]

LEMMA MarkedOk ==
  ASSUME NEW s \in Sheets, NEW K \in SUBSET Key
  PROVE  LET e == Marked(s, K) IN
         /\ e \in Sheets /\ e.list = s.list /\ e.opened = s.opened /\ e.chosen = s.chosen
         /\ e.newest = s.newest /\ e.changed = s.changed \cup K
         /\ SheetOk(s) => SheetOk(e)
<1> DEFINE changed == s.changed \cup K
           e == [list |-> s.list, opened |-> s.opened, chosen |-> s.chosen,
                 newest |-> s.newest, changed |-> changed]
<1>1. /\ s.list \in List /\ s.opened \in [Key -> V] /\ s.chosen \in [Key -> V \cup {None}]
      /\ s.newest \in Key \cup {None} /\ changed \in SUBSET Key
  BY SheetParts
<1>2. Marked(s, K) = e
  BY DEF Marked, Sheets
<1> HIDE DEF changed
<1>3. e \in Sheets /\ e.list = s.list /\ e.opened = s.opened /\ e.chosen = s.chosen
      /\ e.newest = s.newest /\ e.changed = changed
  BY <1>1, MakeSheet
<1> HIDE DEF e
<1>4. SheetOk(s) => SheetOk(e)
  BY <1>3 DEF SheetOk
<1> QED BY <1>2, <1>3, <1>4 DEF changed

-----------------------------------------------------------------------------
(* What is handed over.                                                    *)

\* A list that is looked up where nothing has the name.
LEMMA SilentGet ==
  ASSUME NEW list, IsList(list), NEW k, Silent(list, k)
  PROVE  Get(list, k) = Blank
BY FindFacts DEF Get

\* The whole list of a form that works on the file: of each name the last value
\* is as it is to come, or there is none and the file has it so.
LEMMA HandedOver ==
  ASSUME NEW s \in Sheets, SheetOk(s), \A k \in Key : s.chosen[k] # Blank,
         NEW f, FileType(f), Fresh(s, f)
  PROVE  LET pairs == Expand(s.list) IN
         /\ pairs \in Pairs
         /\ \A k \in Key :
              \/ Silent(pairs, k) /\ AsOnSheet(s, k) \in {Unsure, Get(Load(SettingsOf(f)), k)}
              \/ \E v : Says(pairs, k, v) /\ AsOnSheet(s, k) \in {Unsure, v}
<1> DEFINE l == s.list
           pairs == Expand(l)
<1>1. l \in List /\ IsList(l)
  BY SheetParts, ListsAre, ListIs
<1>2. /\ pairs \in Pairs /\ DOMAIN pairs = DOMAIN l
      /\ \A i \in DOMAIN l : pairs[i].key = l[i].key /\ pairs[i].val = l[i].val
      /\ \A k : Silent(pairs, k) <=> Silent(l, k)
  BY <1>1, ExpandFacts
<1>3. \A k, v : Says(l, k, v) => Says(pairs, k, v)
  BY <1>2 DEF Says
<1>4. PICK m \in Nat : ListShape(l, m)
  BY DEF SheetOk
<1> HIDE DEF pairs
<1>5. ASSUME NEW k \in Key
      PROVE  \/ Silent(pairs, k) /\ AsOnSheet(s, k) \in {Unsure, Get(Load(SettingsOf(f)), k)}
             \/ \E v : Says(pairs, k, v) /\ AsOnSheet(s, k) \in {Unsure, v}
  <2>1. CASE s.chosen[k] # None
    <3>1. Says(l, k, s.chosen[k])
      BY <2>1 DEF SheetOk
    <3>2. AsOnSheet(s, k) = s.chosen[k]
      BY <2>1 DEF AsOnSheet
    <3> QED BY <1>3, <3>1, <3>2
  <2>2. CASE s.chosen[k] = None
    <3>1. Get(l, k) = s.opened[k] /\ \A i \in Positions(l, k) : l[i].loaded
      BY <2>2 DEF SheetOk
    <3>2. AsOnSheet(s, k) = IF k \in s.changed /\ s.opened[k] = Blank THEN Unsure ELSE s.opened[k]
      BY <2>2 DEF AsOnSheet
    <3>3. CASE Silent(l, k)
      <4>1. s.opened[k] = Blank
        BY <1>1, <3>1, <3>3, SilentGet
      <4>2. k \notin s.changed => Get(Load(SettingsOf(f)), k) = s.opened[k]
        BY <2>2 DEF Fresh
      <4> QED BY <1>2, <3>2, <3>3, <4>1, <4>2
    <3>4. CASE ~Silent(l, k)
      <4>1. Says(l, k, s.opened[k])
        <5>1. Once(l, k)
          BY <1>1, <1>4, <3>1, NotChosen
        <5> QED BY <1>1, <3>1, <3>4, <5>1, SaysOnce
      <4> QED BY <1>3, <3>2, <4>1
    <3> QED BY <3>3, <3>4
  <2> QED BY <2>1, <2>2
<1> QED BY <1>2, <1>5 DEF pairs

\* The list of a form for a VM that is new.
LEMMA NewHanded ==
  ASSUME NEW s \in Sheets, SheetOk(s), Unloaded(s.list), \A k \in Key : s.chosen[k] # None
  PROVE  LET pairs == Expand(s.list) IN
         /\ pairs \in Pairs
         /\ Save(pairs) \in Settings /\ Unique(Save(pairs))
         /\ \A k \in Key : Get(Load(Save(pairs)), k) = s.chosen[k]
<1> DEFINE l == s.list
           pairs == Expand(l)
           settings == Save(pairs)
<1>1. l \in List /\ IsList(l) /\ Len(l) \in Nat /\ DOMAIN l = 1..Len(l)
  BY SheetParts, ListsAre, ListIs DEF IsList
<1>2. PICK m \in Nat : ListShape(l, m)
  BY DEF SheetOk
<1>3. m = 0
  <2> SUFFICES ASSUME m # 0 PROVE FALSE
    OBVIOUS
  <2>1. m \in DOMAIN l /\ m <= m
    BY <1>1, <1>2 DEF ListShape
  <2> QED BY <1>1, <1>2, <2>1 DEF ListShape, Unloaded
<1>4. Unique(l)
  BY <1>1, <1>2, <1>3 DEF ListShape, Unique
<1>5. pairs \in Pairs /\ Unique(pairs) /\ \A k : Get(pairs, k) = Get(l, k)
  BY <1>1, <1>4, ExpandFacts
<1> HIDE DEF pairs
<1>6. settings \in Settings /\ Unique(settings) /\ \A k \in Key : Get(settings, k) = Get(pairs, k)
  BY <1>5, SaveFacts
<1> HIDE DEF settings
<1>7. \A k \in Key : Get(Load(settings), k) = Get(settings, k)
  BY <1>6, LoadIs, LoadFacts
<1>8. ASSUME NEW k \in Key PROVE Get(l, k) = s.chosen[k]
  <2>1. IF Silent(l, k) THEN s.chosen[k] = Blank ELSE Says(l, k, s.chosen[k])
    BY DEF SheetOk
  <2>2. CASE Silent(l, k)
    BY <1>1, <2>1, <2>2, SilentGet
  <2>3. CASE ~Silent(l, k)
    <3>1. PICK i \in DOMAIN l : l[i].key = k /\ l[i].val = s.chosen[k]
      BY <2>1, <2>3 DEF Says
    <3> QED BY <1>1, <1>4, <3>1, UniqueOnce, GetOnce
  <2> QED BY <2>2, <2>3
<1> QED BY <1>5, <1>6, <1>7, <1>8 DEF settings, pairs

\* The settings of the dialogs' form, each once.
LEMMA SentFacts ==
  ASSUME NEW picks \in [Form -> V]
  PROVE  /\ Sent(picks) \in Settings /\ Unique(Sent(picks))
         /\ \A k \in Form : Says(Sent(picks), k, picks[k])
         /\ \A k : k \notin Form => Silent(Sent(picks), k)
<1> DEFINE N == Len(FormOrder)
           sent == [i \in 1..N |-> Pair(FormOrder[i], picks[FormOrder[i]])]
<1>1. /\ N \in Nat /\ DOMAIN FormOrder = 1..N
      /\ \A i \in 1..N : FormOrder[i] \in Form
      /\ \A i, j \in 1..N : FormOrder[i] = FormOrder[j] => i = j
      /\ \A k \in Form : \E i \in 1..N : FormOrder[i] = k
  <2>1. FormOrder \in Seq(Form) /\ Form = {FormOrder[i] : i \in DOMAIN FormOrder}
    BY MenusAssumption DEF Form, Range
  <2>2. IsList(FormOrder)
    BY <2>1, ListsAre
  <2> QED BY <2>1, <2>2, MenusAssumption DEF IsList
<1>2. Sent(picks) = sent
  BY <1>1 DEF Sent
<1>3. \A i \in 1..N : /\ Pair(FormOrder[i], picks[FormOrder[i]]) \in SetSet
                      /\ Pair(FormOrder[i], picks[FormOrder[i]]).key = FormOrder[i]
                      /\ Pair(FormOrder[i], picks[FormOrder[i]]).val = picks[FormOrder[i]]
  BY <1>1 DEF Pair, SetSet, Key
<1>4. sent \in [1..N -> SetSet]
  BY <1>3
<1>5. sent \in Seq(SetSet) /\ DOMAIN sent = 1..N
  BY <1>1, <1>4
<1>6. \A i \in 1..N : sent[i].key = FormOrder[i] /\ sent[i].val = picks[FormOrder[i]]
  BY <1>3
<1> HIDE DEF sent, N
<1>7. Unique(sent)
  BY <1>1, <1>5, <1>6 DEF Unique
<1>8. \A k : k \notin Form => Silent(sent, k)
  BY <1>1, <1>5, <1>6 DEF Silent
<1>9. ASSUME NEW k \in Form PROVE Says(sent, k, picks[k])
  <2>1. PICK i \in 1..N : FormOrder[i] = k
    BY <1>1
  <2>2. \A j \in 1..N : sent[j].key = k => j <= i
    BY <1>1, <1>6, <2>1
  <2> QED BY <1>5, <1>6, <2>1, <2>2 DEF Says
<1> QED BY <1>2, <1>5, <1>7, <1>8, <1>9, SettingsAre

LEMMA PicksType ==
  ASSUME NEW list \in List, NEW picks \in Picks(list)
  PROVE  picks \in [Form -> V]
<1>1. \A k : Get(list, k) \in V
  <2>1. list \in Seq(ItemSet) /\ \A x \in ItemSet : x.val \in V
    BY ListIs DEF ItemSet
  <2> QED BY <2>1, GetType
<1>2. Shown(list) \in [Form -> V]
  BY <1>1, MenusAssumption DEF Shown, V
<1> HIDE DEF V
<1>3. \A v \in Value \cup {Blank} : v \in V
  BY DEF V
<1> QED BY <1>2, <1>3 DEF Picks

\* A new VM at the dialogs.
LEMMA DialogPairs ==
  ASSUME NEW k \in OtherKey, NEW v \in V, NEW picks \in [Form -> V]
  PROVE  /\ <<Pair(k, v)>> \o Sent(picks) \in Pairs
         /\ Save(<<Pair(k, v)>> \o Sent(picks)) \in Settings
         /\ Unique(Save(<<Pair(k, v)>> \o Sent(picks)))
<1> DEFINE first == Pair(k, v)
           sent == Sent(picks)
           pairs == <<first>> \o sent
           N == Len(sent)
<1>1. sent \in Seq(SetSet) /\ Unique(sent) /\ (\A n : n \notin Form => Silent(sent, n))
  BY SentFacts, SettingsAre
<1>2. first \in SetSet /\ first.key = k /\ k \notin Form
  BY MenusAssumption DEF Pair, SetSet, Key
<1> HIDE DEF first, sent
<1>3. N \in Nat /\ DOMAIN sent = 1..N
  BY <1>1
<1>4. /\ pairs \in Seq(SetSet) /\ Len(pairs) = N + 1 /\ pairs[1] = first
      /\ \A i \in 1..N : pairs[i + 1] = sent[i]
  BY <1>1, <1>2
<1> HIDE DEF pairs, N
<1>5. DOMAIN pairs = 1..N + 1
  BY <1>3, <1>4
<1>6. \A i \in 1..N + 1 : i = 1 \/ (i - 1 \in 1..N /\ pairs[i] = sent[i - 1])
  <2> SUFFICES ASSUME NEW i \in 1..N + 1, i # 1
               PROVE  i - 1 \in 1..N /\ pairs[i] = sent[i - 1]
    OBVIOUS
  <2>1. i - 1 \in 1..N /\ (i - 1) + 1 = i
    BY <1>3
  <2> QED BY <1>4, <2>1
<1>7. \A i \in 1..N : sent[i].key # k
  BY <1>1, <1>2, <1>3 DEF Silent
<1>8. Unique(pairs)
  <2> SUFFICES ASSUME NEW i \in 1..N + 1, NEW j \in 1..N + 1, pairs[i].key = pairs[j].key
               PROVE  i = j
    BY <1>5 DEF Unique
  <2>1. i = 1 <=> j = 1
    BY <1>2, <1>4, <1>6, <1>7
  <2>2. CASE i # 1 /\ j # 1
    <3>1. sent[i - 1].key = sent[j - 1].key /\ i - 1 \in DOMAIN sent /\ j - 1 \in DOMAIN sent
      BY <1>3, <1>6, <2>2
    <3>2. i - 1 = j - 1
      BY <1>1, <3>1 DEF Unique
    <3> QED BY <1>3, <3>2
  <2> QED BY <2>1, <2>2
<1>9. pairs \in Settings
  BY <1>4, SettingsAre
<1>10. pairs \in Pairs
  BY <1>9, SettingsAre
<1>11. Save(pairs) \in Settings /\ Unique(Save(pairs))
  BY <1>8, <1>10, SaveFacts
<1> QED BY <1>10, <1>11 DEF pairs, first, sent

\* The last place of a name.
LEMMA LastPosition ==
  ASSUME NEW list, IsList(list), NEW k, ~Silent(list, k)
  PROVE  \E i \in Positions(list, k) : \A j \in Positions(list, k) : j <= i
<1> DEFINE N == Len(list)
           P == Positions(list, k)
           T == {n \in Nat : n <= N /\ N - n \in P}
<1>1. N \in Nat /\ P \subseteq 1..N /\ P # {}
  BY SaysPositions DEF IsList, Positions
<1> HIDE DEF N, P
<1>2. \A i \in P : N - i \in T /\ N - (N - i) = i
  BY <1>1
<1>3. T \subseteq Nat /\ T # {}
  BY <1>1, <1>2
<1>4. PICK n \in T : \A o \in T : n <= o
  BY <1>3, LeastNumber
<1>5. \A j \in P : n <= N - j
  BY <1>2, <1>4
<1>6. n \in Nat /\ N - n \in P
  BY <1>4
<1>7. \A j \in P : j <= N - n
  BY <1>1, <1>5, <1>6
<1> QED BY <1>6, <1>7 DEF P

\* What is chosen for a new VM before the form.
ChosenNew(k, v, template) ==
  [n \in Key |-> LET of == Positions(template, n) IN
     IF of # {} THEN template[CHOOSE i \in of : \A j \in of : j <= i].val
     ELSE IF n = k THEN v ELSE Blank]

LEMMA ChosenNewIs ==
  ASSUME NEW k \in Key, NEW v \in V, NEW template \in Settings
  PROVE  /\ ChosenNew(k, v, template) \in [Key -> V]
         /\ \A n \in Key : IF Silent(template, n)
                           THEN ChosenNew(k, v, template)[n] = IF n = k THEN v ELSE Blank
                           ELSE Says(template, n, ChosenNew(k, v, template)[n])
<1> DEFINE P(n) == Positions(template, n)
           last(n) == CHOOSE i \in P(n) : \A j \in P(n) : j <= i
           chosen(n) == IF P(n) # {} THEN template[last(n)].val ELSE IF n = k THEN v ELSE Blank
<1>1. /\ IsList(template) /\ Len(template) \in Nat
      /\ \A i \in 1..Len(template) : template[i].key \in Key /\ template[i].val \in V
  BY SettingsAre
<1>2. ChosenNew(k, v, template) = [n \in Key |-> chosen(n)]
  BY DEF ChosenNew
<1>3. \A n \in Key : ChosenNew(k, v, template)[n] = chosen(n)
  <2> HIDE DEF chosen
  <2> QED BY <1>2
<1>5. ASSUME NEW n \in Key, ~Silent(template, n)
      PROVE  last(n) \in P(n) /\ \A j \in P(n) : j <= last(n)
  <2>1. \E i \in P(n) : \A j \in P(n) : j <= i
    BY <1>1, <1>5, LastPosition
  <2> QED BY <2>1, Zenon
<1> HIDE DEF last
<1>6. ASSUME NEW n \in Key
      PROVE  /\ chosen(n) \in V
             /\ IF Silent(template, n) THEN chosen(n) = IF n = k THEN v ELSE Blank
                ELSE Says(template, n, chosen(n))
  <2>1. CASE Silent(template, n)
    <3>1. P(n) = {}
      BY <2>1, SaysPositions
    <3> QED BY <2>1, <3>1, NoneIsNone
  <2>2. CASE ~Silent(template, n)
    <3>1. last(n) \in P(n) /\ \A j \in P(n) : j <= last(n)
      BY <1>5, <2>2
    <3>2. chosen(n) = template[last(n)].val
      BY <3>1
    <3>3. last(n) \in 1..Len(template)
      BY <1>1, <3>1 DEF Positions, IsList
    <3>4. Says(template, n, chosen(n))
      BY <3>1, <3>2, SaysPositions
    <3> QED BY <1>1, <2>2, <3>2, <3>3, <3>4
  <2> QED BY <2>1, <2>2
<1> HIDE DEF chosen
<1> QED BY <1>2, <1>3, <1>6

\* The list that the form of a new VM begins with.
LEMMA BannerFacts ==
  ASSUME NEW k \in Key, NEW v \in V, NEW template \in Settings
  PROVE  LET l == Banner(k, v, template) IN
         /\ l \in List /\ ListShape(l, 0) /\ Unloaded(l) /\ Unique(l)
         /\ \A n : Silent(template, n) /\ n # k => Silent(l, n)
         /\ Silent(template, k) => Says(l, k, v)
         /\ \A n, x : Says(template, n, x) => Says(l, n, x)
<1> DEFINE l0 == SetVar(<<>>, k, v)
           l == Update(l0, template)
           N == Len(template)
<1>1. <<>> \in List /\ Len(<<>>) = 0 /\ DOMAIN <<>> = {}
  BY ListIs
<1>2. ListShape(<<>>, 0)
  BY <1>1 DEF ListShape
<1>3. /\ l0 \in List /\ ListShape(l0, 0) /\ Says(l0, k, v) /\ Get(l0, k) = v
      /\ OthersStay(l0, <<>>, k)
  BY <1>1, <1>2, SetVarGives
<1>4. \A n : n # k => Silent(l0, n)
  <2> SUFFICES ASSUME NEW n, n # k PROVE Silent(l0, n)
    OBVIOUS
  <2>1. Positions(l0, n) = Positions(<<>>, n)
    BY <1>3 DEF OthersStay
  <2>2. Positions(<<>>, n) = {}
    BY <1>1 DEF Positions
  <2> QED BY <2>1, <2>2, SaysPositions
<1> HIDE DEF l0
<1>5. IsList(l0) /\ DOMAIN l0 = 1..Len(l0) /\ Len(l0) \in Nat
  BY <1>3, ListsAre, ListIs DEF IsList
<1>6. Unique(l0) /\ \A i \in DOMAIN l0 : ~l0[i].loaded /\ l0[i].key \in Key
  <2>1. \A i \in 1..Len(l0) : i \in 0 + 1..Len(l0) /\ ~(i <= 0) /\ ~(i \in 1..0)
    BY <1>5
  <2>2. \A h : h \notin 1..0
    OBVIOUS
  <2> QED BY <1>3, <1>5, <2>1, <2>2 DEF ListShape, Unique
<1>7. template \in Pairs /\ IsList(template) /\ N \in Nat /\ \A j \in 1..N : template[j].key \in Key
  BY SettingsAre
<1>8. UpdatedBy(l, l0, template, N)
  BY <1>3, <1>6, <1>7, UpdateFacts
<1>9. \A n, x : Says(template, n, x) => Get(l, n) = x
  BY <1>3, <1>6, <1>7, UpdateGives
<1>10. Banner(k, v, template) = l
  BY DEF Banner, l0
<1> HIDE DEF l
<1>11. l \in List /\ Unique(l) /\ \A i \in DOMAIN l : ~l[i].loaded /\ l[i].key \in Key
  BY <1>6, <1>7, <1>8 DEF UpdatedBy
<1>12. IsList(l) /\ Len(l) \in Nat /\ DOMAIN l = 1..Len(l)
  BY <1>11, ListsAre, ListIs DEF IsList
<1>13. ListShape(l, 0)
  <2>1. 0 \in 0..Len(l) /\ 0 + 1 = 1 /\ (\A i \in 1..Len(l) : ~(i <= 0)) /\ \A i : i \notin 1..0
    BY <1>12
  <2> QED BY <1>11, <1>12, <2>1 DEF ListShape, Unique
<1>14. \A n : Silent(template, n) <=> \A j \in 1..N : template[j].key # n
  BY <1>7 DEF Silent, IsList
<1>15. \A n : Silent(l, n) <=> Silent(l0, n) /\ Silent(template, n)
  BY <1>8, <1>14 DEF UpdatedBy
<1>16. \A n : Silent(template, n) => Get(l, n) = Get(l0, n)
  BY <1>8, <1>14 DEF UpdatedBy
<1>17. \A n : Once(l, n)
  BY <1>11, UniqueOnce
<1>18. Silent(template, k) => Says(l, k, v)
  <2>1. ~Silent(l, k)
    BY <1>3, <1>15 DEF Says, Silent
  <2> QED BY <1>3, <1>12, <1>16, <1>17, <2>1, SaysOnce
<1>19. ASSUME NEW n, NEW x, Says(template, n, x) PROVE Says(l, n, x)
  <2>1. ~Silent(l, n)
    BY <1>15, <1>19 DEF Says, Silent
  <2> QED BY <1>9, <1>12, <1>17, <1>19, <2>1, SaysOnce
<1> QED BY <1>4, <1>10, <1>11, <1>13, <1>15, <1>18, <1>19 DEF Unloaded

\* The sheet of a new VM.
NewSheet(k, v, template) ==
  [Sheet(Banner(k, v, template)) EXCEPT !.chosen = ChosenNew(k, v, template)]

LEMMA NewSheetOk ==
  ASSUME NEW k \in Key, NEW v \in V, NEW template \in Settings
  PROVE  LET s == NewSheet(k, v, template) IN
         /\ s \in Sheets /\ SheetOk(s) /\ Unloaded(s.list)
         /\ \A n \in Key : s.chosen[n] # None
<1> DEFINE l == Banner(k, v, template)
           chosen == ChosenNew(k, v, template)
           s0 == Sheet(l)
           s == [s0 EXCEPT !.chosen = chosen]
<1>1. /\ l \in List /\ ListShape(l, 0) /\ Unloaded(l) /\ Unique(l)
      /\ \A n : Silent(template, n) /\ n # k => Silent(l, n)
      /\ Silent(template, k) => Says(l, k, v)
      /\ \A n, x : Says(template, n, x) => Says(l, n, x)
  BY BannerFacts
<1>2. /\ chosen \in [Key -> V]
      /\ \A n \in Key : IF Silent(template, n)
                        THEN chosen[n] = IF n = k THEN v ELSE Blank
                        ELSE Says(template, n, chosen[n])
  BY ChosenNewIs
<1>3. NewSheet(k, v, template) = s
  BY DEF NewSheet
<1> HIDE DEF l, chosen
<1>4. s0 \in Sheets /\ s0.list = l /\ s0.newest = None
  BY <1>1, SheetIs
<1> HIDE DEF s0
<1>5. \A n \in Key : chosen[n] # None
  BY <1>2, NoneIsNone
<1>6. s \in Sheets /\ s.list = l /\ s.newest = None /\ s.chosen = chosen
  <2>1. /\ s0.list \in List /\ s0.opened \in [Key -> V] /\ s0.newest \in Key \cup {None}
        /\ s0.changed \in SUBSET Key
    BY <1>4, SheetParts
  <2> DEFINE r == [list |-> s0.list, opened |-> s0.opened, chosen |-> chosen,
                   newest |-> s0.newest, changed |-> s0.changed]
  <2>2. s = r
    BY <1>4 DEF Sheets
  <2>3. chosen \in [Key -> V \cup {None}]
    BY <1>2
  <2>4. r \in Sheets /\ r.list = s0.list /\ r.newest = s0.newest /\ r.chosen = chosen
    BY <2>1, <2>3, MakeSheet
  <2> HIDE DEF r
  <2> QED BY <1>4, <2>2, <2>4
<1> HIDE DEF s
<1>7. ASSUME NEW n \in Key
      PROVE  IF Silent(l, n) THEN chosen[n] = Blank ELSE Says(l, n, chosen[n])
  <2>1. \A x : Says(l, n, x) => ~Silent(l, n)
    BY DEF Says, Silent
  <2>2. CASE Silent(template, n) /\ n = k
    BY <1>1, <1>2, <2>1, <2>2
  <2>3. CASE Silent(template, n) /\ n # k
    BY <1>1, <1>2, <2>3
  <2>4. CASE ~Silent(template, n)
    BY <1>1, <1>2, <2>1, <2>4
  <2> QED BY <2>2, <2>3, <2>4
<1>8. SheetOk(s)
  BY <1>1, <1>5, <1>6, <1>7 DEF SheetOk
<1> QED BY <1>1, <1>3, <1>5, <1>6, <1>8

-----------------------------------------------------------------------------
(* The inductive invariant.                                                *)

\* What holds of a user at a menu with these sheets, over file f.
UserOk(place, sheet, otherSheet, f) ==
  /\ SheetOk(sheet) /\ SheetOk(otherSheet)
  /\ place \in {"start", "configure", "other"} => \A k \in Key : sheet.chosen[k] # Blank
  /\ place = "other" =>
       (\A k \in Key : otherSheet.chosen[k] # Blank) /\ Fresh(otherSheet, f)
  /\ place = "form" => \A k \in Key : sheet.chosen[k] = None
  /\ place = "new" => Unloaded(sheet.list) /\ \A k \in Key : sheet.chosen[k] # None
  /\ place \in {"start", "configure", "other", "form"} => Fresh(sheet, f)

Place == {"list", "start", "configure", "other", "form", "new", "manage"}

\* The invariant in two parts: what the users see and the file, and the rest.
Sides ==
  /\ FileType(file)
  /\ at \in [User -> Place] /\ menu \in [User -> Sheets] /\ other \in [User -> Sheets]
  /\ \A u \in User : UserOk(at[u], menu[u], other[u], file)

Rest ==
  /\ vm \in {"off", "running", "paused"}
  /\ config \in [Key -> V \cup {Unsure}]
  /\ offer \in [User -> {"Pause", "Resume", None}]
  /\ ops \in 0..MaxOps
  /\ touched \subseteq User /\ worked \subseteq User

LEMMA Parts == Sides /\ Rest => TypeOK
<1>1. V \cup {Unsure} = Value \cup {Blank, Unsure}
  BY DEF V
<1> HIDE DEF V
<1> QED BY <1>1 DEF TypeOK, Sides, Rest, Place, FileType, Unique

\* Nobody opens, edits, leaves or writes anything.
LEMMA SidesSame ==
  ASSUME Sides, UNCHANGED <<file, at, menu, other>>
  PROVE  Sides'
<1>1. file' = file /\ at' = at /\ menu' = menu /\ other' = other
  OBVIOUS
<1>2. ASSUME NEW u \in User PROVE UserOk(at'[u], menu'[u], other'[u], file')
  <2>1. UserOk(at[u], menu[u], other[u], file)
    BY DEF Sides
  <2> QED BY <1>1, <2>1, Zenon
<1>3. FileType(file')
  BY <1>1, Zenon DEF Sides
<1> QED BY <1>1, <1>2, <1>3 DEF Sides

\* A user goes to another menu or sheet, and the file stays.
LEMMA OwnSheets ==
  ASSUME Sides, NEW u \in User, NEW place \in Place, NEW m \in Sheets, NEW o \in Sheets,
         UserOk(place, m, o, file), file' = file,
         at' = [at EXCEPT ![u] = place],
         menu' = [menu EXCEPT ![u] = m],
         other' = [other EXCEPT ![u] = o]
  PROVE  Sides'
<1>1. /\ at' \in [User -> Place] /\ menu' \in [User -> Sheets] /\ other' \in [User -> Sheets]
      /\ at'[u] = place /\ menu'[u] = m /\ other'[u] = o
      /\ \A w \in User : w # u => at'[w] = at[w] /\ menu'[w] = menu[w] /\ other'[w] = other[w]
  BY DEF Sides
<1>2. ASSUME NEW w \in User PROVE UserOk(at'[w], menu'[w], other'[w], file')
  <2>1. CASE w = u
    <3>1. at'[w] = place /\ menu'[w] = m /\ other'[w] = o
      BY <1>1, <2>1, Zenon
    <3> QED BY <3>1, Zenon
  <2>2. CASE w # u
    <3>1. UserOk(at[w], menu[w], other[w], file)
      BY DEF Sides
    <3>2. at'[w] = at[w] /\ menu'[w] = menu[w] /\ other'[w] = other[w]
      BY <1>1, <2>2, Zenon
    <3> QED BY <3>1, <3>2, Zenon
  <2> QED BY <2>1, <2>2
<1>3. FileType(file')
  <2>1. FileType(file)
    BY DEF Sides
  <2> QED BY <2>1, Zenon
<1> QED BY <1>1, <1>2, <1>3 DEF Sides

\* What is not marked as changed is in the file as before.
LEMMA ReplacesIs ==
  ASSUME NEW f
  PROVE  /\ Replaces(f) \in SUBSET Key
         /\ \A k \in Key : k \notin Replaces(f) =>
              Get(Load(SettingsOf(f)), k) = Get(Load(SettingsOf(file)), k)
<1>1. Replaces(f) = {k \in Key : Get(Load(SettingsOf(file)), k) # Get(Load(SettingsOf(f)), k)}
  BY DEF Replaces, SettingsOf, Values
<1> QED BY <1>1

LEMMA FreshMarked ==
  ASSUME NEW s \in Sheets, NEW f, Fresh(s, file)
  PROVE  Fresh(Marked(s, Replaces(f)), f)
<1> DEFINE K == Replaces(f)
           e == Marked(s, K)
<1>1. K \in SUBSET Key /\ \A k \in Key : k \notin K => Get(Load(SettingsOf(f)), k) = Get(Load(SettingsOf(file)), k)
  BY ReplacesIs
<1> HIDE DEF K
<1>2. e.opened = s.opened /\ e.chosen = s.chosen /\ e.changed = s.changed \cup K
  BY <1>1, MarkedOk
<1> HIDE DEF e
<1> QED BY <1>1, <1>2 DEF Fresh, e, K

LEMMA OthersKeep ==
  ASSUME NEW place, NEW m \in Sheets, NEW o \in Sheets, UserOk(place, m, o, file), NEW f
  PROVE  /\ Marked(m, Replaces(f)) \in Sheets /\ Marked(o, Replaces(f)) \in Sheets
         /\ UserOk(place, Marked(m, Replaces(f)), Marked(o, Replaces(f)), f)
<1> DEFINE K == Replaces(f)
           m2 == Marked(m, K)
           o2 == Marked(o, K)
<1>1. K \in SUBSET Key
  BY ReplacesIs
<1>2. Fresh(m, file) => Fresh(m2, f)
  BY FreshMarked
<1>3. Fresh(o, file) => Fresh(o2, f)
  BY FreshMarked
<1> HIDE DEF K
<1>4. m2 \in Sheets /\ m2.list = m.list /\ m2.chosen = m.chosen /\ (SheetOk(m) => SheetOk(m2))
  BY <1>1, MarkedOk
<1>5. o2 \in Sheets /\ o2.list = o.list /\ o2.chosen = o.chosen /\ (SheetOk(o) => SheetOk(o2))
  BY <1>1, MarkedOk
<1> HIDE DEF m2, o2
<1> QED BY <1>2, <1>3, <1>4, <1>5 DEF UserOk, m2, o2, K

\* A user writes the file, and the sheets of the others are marked.
Wrote(u, place, m, o) ==
  /\ at' = [at EXCEPT ![u] = place]
  /\ menu' = [w \in User |-> IF w = u THEN m ELSE Marked(menu[w], Replaces(file'))]
  /\ other' = [w \in User |-> IF w = u THEN o ELSE Marked(other[w], Replaces(file'))]

LEMMA Writes ==
  ASSUME Sides, NEW u \in User, NEW place \in Place, NEW m \in Sheets, NEW o \in Sheets,
         FileType(file'), UserOk(place, m, o, file'), Wrote(u, place, m, o)
  PROVE  Sides'
<1>1. ASSUME NEW w \in User, w # u
      PROVE  /\ Marked(menu[w], Replaces(file')) \in Sheets
             /\ Marked(other[w], Replaces(file')) \in Sheets
             /\ UserOk(at[w], Marked(menu[w], Replaces(file')), Marked(other[w], Replaces(file')), file')
  <2>1. menu[w] \in Sheets /\ other[w] \in Sheets /\ UserOk(at[w], menu[w], other[w], file)
    BY DEF Sides
  <2> QED BY <2>1, OthersKeep
<1>2. at' \in [User -> Place] /\ at'[u] = place /\ \A w \in User : w # u => at'[w] = at[w]
  BY DEF Sides, Wrote
<1>3. /\ menu' \in [User -> Sheets] /\ menu'[u] = m
      /\ \A w \in User : w # u => menu'[w] = Marked(menu[w], Replaces(file'))
  BY <1>1 DEF Wrote
<1>4. /\ other' \in [User -> Sheets] /\ other'[u] = o
      /\ \A w \in User : w # u => other'[w] = Marked(other[w], Replaces(file'))
  BY <1>1 DEF Wrote
<1>5. ASSUME NEW w \in User PROVE UserOk(at'[w], menu'[w], other'[w], file')
  <2>1. CASE w = u
    <3>1. at'[w] = place /\ menu'[w] = m /\ other'[w] = o
      BY <1>2, <1>3, <1>4, <2>1, Zenon
    <3> QED BY <3>1, Zenon
  <2>2. CASE w # u
    <3>1. at'[w] = at[w]
      BY <1>2, <2>2, Zenon
    <3>2. menu'[w] = Marked(menu[w], Replaces(file'))
      BY <1>3, <2>2, Zenon
    <3>3. other'[w] = Marked(other[w], Replaces(file'))
      BY <1>4, <2>2, Zenon
    <3>4. UserOk(at[w], Marked(menu[w], Replaces(file')), Marked(other[w], Replaces(file')), file')
      BY <1>1, <2>2
    <3> QED BY <3>1, <3>2, <3>3, <3>4, Zenon
  <2> QED BY <2>1, <2>2
<1> QED BY <1>2, <1>3, <1>4, <1>5 DEF Sides

LEMMA OvertakenIs ==
  ASSUME NEW u \in User, NEW sheets \in [User -> Sheets], NEW f
  PROVE  /\ Overtaken(u, sheets, f) =
              [w \in User |-> IF w = u THEN sheets[u] ELSE Marked(sheets[w], Replaces(f))]
         /\ \A m : [Overtaken(u, sheets, f) EXCEPT ![u] = m] =
              [w \in User |-> IF w = u THEN m ELSE Marked(sheets[w], Replaces(f))]
<1>1. Overtaken(u, sheets, f) =
        [w \in User |-> IF w = u THEN sheets[w] ELSE Marked(sheets[w], Replaces(f))]
  BY DEF Overtaken, Marked
<1>2. [w \in User |-> IF w = u THEN sheets[w] ELSE Marked(sheets[w], Replaces(f))]
      = [w \in User |-> IF w = u THEN sheets[u] ELSE Marked(sheets[w], Replaces(f))]
  OBVIOUS
<1>3. Overtaken(u, sheets, f) =
        [w \in User |-> IF w = u THEN sheets[u] ELSE Marked(sheets[w], Replaces(f))]
  BY <1>1, <1>2, Zenon
<1>4. ASSUME NEW m
      PROVE  [Overtaken(u, sheets, f) EXCEPT ![u] = m] =
               [w \in User |-> IF w = u THEN m ELSE Marked(sheets[w], Replaces(f))]
  BY <1>3
<1> QED BY <1>3, <1>4

-----------------------------------------------------------------------------
(* What comes of a form.                                                   *)

\* Nothing that is on a sheet is the value that stands for "unsure".
LEMMA SheetSure ==
  ASSUME NEW s \in Sheets, SheetOk(s), NEW k \in Key
  PROVE  s.opened[k] \in V /\ Unsure \notin V
BY SheetParts, MenusAssumption DEF V

\* DONE in "Configure VM": what is on the sheet is in the file.
LEMMA ConfigureSaves ==
  ASSUME NEW s \in Sheets, SheetOk(s), \A k \in Key : s.chosen[k] # Blank,
         FileType(file), Fresh(s, file)
  PROVE  LET f == Change(file, Expand(s.list)) IN
         /\ FileType(f) /\ Fresh(s, f)
         /\ file # Absent => \A k \in Key : AsOnSheet(s, k) \in {Unsure, Get(Load(f), k)}
<1> DEFINE pairs == Expand(s.list)
           f == Change(file, pairs)
<1>1. CASE file = Absent
  <2>1. f = <<>> /\ SettingsOf(file) = <<>>
    BY <1>1 DEF Change, SettingsOf
  <2>2. FileType(f) /\ SettingsOf(f) = SettingsOf(file)
    BY <2>1, NoSettings DEF FileType, SettingsOf
  <2>3. Fresh(s, f)
    BY <2>2, Zenon DEF Fresh
  <2> QED BY <1>1, <2>2, <2>3
<1>2. CASE file # Absent
  <2>1. /\ pairs \in Pairs
        /\ \A k \in Key :
             \/ Silent(pairs, k) /\ AsOnSheet(s, k) \in {Unsure, Get(Load(SettingsOf(file)), k)}
             \/ \E v : Says(pairs, k, v) /\ AsOnSheet(s, k) \in {Unsure, v}
    BY HandedOver
  <2> HIDE DEF pairs
  <2>2. /\ f \in Settings /\ Unique(f)
        /\ \A k \in Key : Silent(pairs, k) => Get(Load(f), k) = Get(Load(file), k)
        /\ \A k \in Key : \A v : Says(pairs, k, v) => Get(Load(f), k) = v
    BY <1>2, <2>1, ChangeGives
  <2> HIDE DEF f
  <2>3. SettingsOf(file) = file
    BY <1>2 DEF SettingsOf
  <2>4. \A k \in Key : AsOnSheet(s, k) \in {Unsure, Get(Load(f), k)}
    BY <2>1, <2>2, <2>3
  <2>5. f # Absent /\ FileType(f) /\ SettingsOf(f) = f
    BY <2>2, MenusAssumption DEF FileType, SettingsOf
  <2>6. Fresh(s, f)
    <3> SUFFICES ASSUME NEW k \in Key, s.chosen[k] = None, k \notin s.changed
                 PROVE  Get(Load(f), k) = s.opened[k]
      BY <2>5 DEF Fresh
    <3>1. AsOnSheet(s, k) = s.opened[k]
      BY DEF AsOnSheet
    <3> QED BY <2>4, <3>1, SheetSure
  <2> QED BY <2>4, <2>5, <2>6 DEF f, pairs
<1> QED BY <1>1, <1>2

\* "save config" in the form of the dialogs.
LEMMA FormSaves ==
  ASSUME NEW picks \in [Form -> V], FileType(file)
  PROVE  LET f == Change(file, Sent(picks)) IN
         /\ FileType(f)
         /\ file # Absent =>
              /\ \A k \in Form : Get(Load(f), k) = picks[k]
              /\ \A k \in Key \ Form : Get(Load(f), k) = Get(Load(file), k)
         /\ file = Absent => f = <<>>
<1> DEFINE sent == Sent(picks)
           f == Change(file, sent)
<1>1. CASE file = Absent
  <2>1. f = <<>>
    BY <1>1 DEF Change
  <2> QED BY <1>1, <2>1, NoSettings DEF FileType
<1>2. CASE file # Absent
  <2>1. /\ sent \in Pairs
        /\ \A k \in Form : Says(sent, k, picks[k])
        /\ \A k : k \notin Form => Silent(sent, k)
    BY SentFacts, SettingsAre
  <2> HIDE DEF sent
  <2>2. /\ f \in Settings /\ Unique(f)
        /\ \A k \in Key : Silent(sent, k) => Get(Load(f), k) = Get(Load(file), k)
        /\ \A k \in Key : \A v : Says(sent, k, v) => Get(Load(f), k) = v
    BY <1>2, <2>1, ChangeGives
  <2> HIDE DEF f
  <2>3. Form \subseteq Key
    BY DEF Key
  <2>4. \A k \in Form : Get(Load(f), k) = picks[k]
    BY <2>1, <2>2, <2>3
  <2>5. \A k \in Key \ Form : Get(Load(f), k) = Get(Load(file), k)
    BY <2>1, <2>2
  <2>6. FileType(f)
    BY <2>2 DEF FileType
  <2> QED BY <1>2, <2>4, <2>5, <2>6 DEF f, sent
<1> QED BY <1>1, <1>2

-----------------------------------------------------------------------------
(* Every action keeps the sheets in order.                                 *)

LEMMA UserParts ==
  ASSUME Sides, NEW u \in User
  PROVE  /\ at[u] \in Place /\ menu[u] \in Sheets /\ other[u] \in Sheets
         /\ UserOk(at[u], menu[u], other[u], file)
         /\ at = [at EXCEPT ![u] = at[u]] /\ menu = [menu EXCEPT ![u] = menu[u]]
         /\ other = [other EXCEPT ![u] = other[u]]
         /\ FileType(file)
BY DEF Sides

LEMMA SelectSides ==
  ASSUME Sides, NEW u \in User, Select(u)
  PROVE  Sides'
<1> DEFINE place == IF Ui[u] = "term" THEN "start" ELSE "form"
           m == Sheet(Load(file))
<1>1. m \in Sheets /\ SheetOk(m) /\ Fresh(m, file) /\ \A k \in Key : m.chosen[k] = None
  BY UserParts, LoadedSheet DEF Select
<1>2. /\ file' = file /\ at' = [at EXCEPT ![u] = place]
      /\ menu' = [menu EXCEPT ![u] = m] /\ other' = [other EXCEPT ![u] = other[u]]
  BY UserParts DEF Select, Opens, GoTo, NoWrite
<1> HIDE DEF m
<1>3. place \in {"start", "form"} /\ place \in Place
  BY DEF Place
<1> HIDE DEF place
<1>4. UserOk(place, m, other[u], file)
  BY <1>1, <1>3, UserParts, NoneIsNone DEF UserOk
<1> QED BY <1>1, <1>2, <1>3, <1>4, UserParts, OwnSheets

LEMMA ConfigureSides ==
  ASSUME Sides, NEW u \in User, Configure(u)
  PROVE  Sides'
<1>1. /\ file' = file /\ at' = [at EXCEPT ![u] = "configure"]
      /\ menu' = [menu EXCEPT ![u] = menu[u]] /\ other' = [other EXCEPT ![u] = other[u]]
  BY UserParts DEF Configure, GoTo, NoWrite
<1>2. UserOk("configure", menu[u], other[u], file)
  BY UserParts DEF UserOk, Configure
<1>3. "configure" \in Place
  BY DEF Place
<1> QED BY <1>1, <1>2, <1>3, UserParts, OwnSheets

LEMMA OpenOtherSides ==
  ASSUME Sides, NEW u \in User, OpenOther(u)
  PROVE  Sides'
<1> DEFINE o == Sheet(Load(file))
<1>1. o \in Sheets /\ SheetOk(o) /\ Fresh(o, file) /\ \A k \in Key : o.chosen[k] = None
  BY UserParts, LoadedSheet DEF OpenOther
<1>2. /\ file' = file /\ at' = [at EXCEPT ![u] = "other"]
      /\ menu' = [menu EXCEPT ![u] = menu[u]] /\ other' = [other EXCEPT ![u] = o]
  BY UserParts DEF OpenOther, GoTo, NoWrite
<1> HIDE DEF o
<1>3. UserOk("other", menu[u], o, file)
  BY <1>1, UserParts, NoneIsNone DEF UserOk, OpenOther
<1>4. "other" \in Place
  BY DEF Place
<1> QED BY <1>1, <1>2, <1>3, <1>4, UserParts, OwnSheets

\* A sheet that is edited stays fresh, and what is chosen is not empty.
LEMMA EditedFresh ==
  ASSUME NEW s \in Sheets, SheetOk(s), NEW k \in Key, NEW v \in Value, NEW f
  PROVE  /\ Fresh(s, f) => Fresh(Edited(s, k, v), f)
         /\ (\A n \in Key : s.chosen[n] # Blank) => \A n \in Key : Edited(s, k, v).chosen[n] # Blank
         /\ (\A n \in Key : s.chosen[n] # None) => \A n \in Key : Edited(s, k, v).chosen[n] # None
<1> DEFINE e == Edited(s, k, v)
<1>1. v \in V /\ v # Blank /\ v # None
  BY NoneIsNone DEF V
<1>2. /\ e.opened = s.opened /\ e.changed = s.changed
      /\ e.chosen[k] = v /\ \A n \in Key : n # k => e.chosen[n] = s.chosen[n]
  BY <1>1, EditedOk
<1> HIDE DEF e
<1> QED BY <1>1, <1>2 DEF Fresh, e

LEMMA EditSides ==
  ASSUME Sides, NEW u \in User, NEW k \in Form, NEW v \in Value, Edit(u, k, v)
  PROVE  Sides'
<1>1. k \in Key /\ v \in V
  BY DEF Key, V
<1>2. file' = file /\ at' = [at EXCEPT ![u] = at[u]]
  BY UserParts DEF Edit, NoWrite
<1>3. CASE /\ at[u] \in {"configure", "new"}
           /\ menu' = [menu EXCEPT ![u] = Edited(@, k, v)]
           /\ UNCHANGED other
  <2> DEFINE m == Edited(menu[u], k, v)
  <2>1. SheetOk(menu[u]) /\ menu[u] \in Sheets
    BY UserParts DEF UserOk
  <2>2. m \in Sheets /\ SheetOk(m) /\ (Unloaded(menu[u].list) => Unloaded(m.list))
    BY <1>1, <2>1, EditedOk
  <2>3. /\ Fresh(menu[u], file) => Fresh(m, file)
        /\ (\A n \in Key : menu[u].chosen[n] # Blank) => \A n \in Key : m.chosen[n] # Blank
        /\ (\A n \in Key : menu[u].chosen[n] # None) => \A n \in Key : m.chosen[n] # None
    BY <1>1, <2>1, EditedFresh
  <2>4. menu' = [menu EXCEPT ![u] = m] /\ other' = [other EXCEPT ![u] = other[u]]
    BY <1>3, UserParts DEF Sides
  <2> HIDE DEF m
  <2>5. UserOk(at[u], m, other[u], file)
    BY <1>3, <2>2, <2>3, UserParts DEF UserOk
  <2> QED BY <1>2, <2>2, <2>4, <2>5, UserParts, OwnSheets
<1>4. CASE /\ at[u] = "other"
           /\ other' = [other EXCEPT ![u] = Edited(@, k, v)]
           /\ UNCHANGED menu
  <2> DEFINE o == Edited(other[u], k, v)
  <2>1. SheetOk(other[u]) /\ other[u] \in Sheets
    BY UserParts DEF UserOk
  <2>2. o \in Sheets /\ SheetOk(o)
    BY <1>1, <2>1, EditedOk
  <2>3. /\ Fresh(other[u], file) => Fresh(o, file)
        /\ (\A n \in Key : other[u].chosen[n] # Blank) => \A n \in Key : o.chosen[n] # Blank
    BY <1>1, <2>1, EditedFresh
  <2>4. menu' = [menu EXCEPT ![u] = menu[u]] /\ other' = [other EXCEPT ![u] = o]
    BY <1>4, UserParts DEF Sides
  <2> HIDE DEF o
  <2>5. UserOk(at[u], menu[u], o, file)
    BY <1>4, <2>2, <2>3, UserParts DEF UserOk
  <2> QED BY <1>2, <2>2, <2>4, <2>5, UserParts, OwnSheets
<1> QED BY <1>3, <1>4 DEF Edit

LEMMA LeaveSides ==
  ASSUME Sides, NEW u \in User, Leave(u) \/ DoneOther(u)
  PROVE  Sides'
<1>1. /\ file' = file /\ at' = [at EXCEPT ![u] = "start"]
      /\ menu' = [menu EXCEPT ![u] = menu[u]] /\ other' = [other EXCEPT ![u] = NoSheet]
      /\ at[u] \in {"configure", "other"}
  BY UserParts DEF Leave, DoneOther, GoTo, NoWrite
<1>2. UserOk("start", menu[u], NoSheet, file)
  BY <1>1, UserParts, NoSheetOk DEF UserOk
<1>3. "start" \in Place
  BY DEF Place
<1> QED BY <1>1, <1>2, <1>3, UserParts, NoSheetOk, OwnSheets

LEMMA DoneConfigureSides ==
  ASSUME Sides, NEW u \in User, DoneConfigure(u)
  PROVE  Sides'
<1>1. /\ file' = Change(file, Expand(menu[u].list))
      /\ at' = [at EXCEPT ![u] = "start"]
      /\ menu' = Overtaken(u, menu, file') /\ other' = Overtaken(u, other, file')
      /\ at[u] = "configure"
  BY DEF DoneConfigure, GoTo
<1>2. /\ SheetOk(menu[u]) /\ SheetOk(other[u]) /\ Fresh(menu[u], file)
      /\ \A k \in Key : menu[u].chosen[k] # Blank
  BY <1>1, UserParts DEF UserOk
<1>3. FileType(file') /\ Fresh(menu[u], file')
  BY <1>1, <1>2, UserParts, ConfigureSaves
<1>4. UserOk("start", menu[u], other[u], file')
  BY <1>2, <1>3 DEF UserOk
<1>5. Wrote(u, "start", menu[u], other[u])
  <2>1. menu \in [User -> Sheets] /\ other \in [User -> Sheets]
    BY DEF Sides
  <2>2. /\ Overtaken(u, menu, file') =
             [w \in User |-> IF w = u THEN menu[u] ELSE Marked(menu[w], Replaces(file'))]
        /\ Overtaken(u, other, file') =
             [w \in User |-> IF w = u THEN other[u] ELSE Marked(other[w], Replaces(file'))]
    BY <2>1, OvertakenIs
  <2> QED BY <1>1, <2>2, Zenon DEF Wrote
<1>6. "start" \in Place
  BY DEF Place
<1> QED BY <1>3, <1>4, <1>5, <1>6, UserParts, Writes

LEMMA ToListOk ==
  ASSUME Sides, NEW u \in User, NEW f
  PROVE  "list" \in Place /\ UserOk("list", NoSheet, other[u], f)
BY UserParts, NoSheetOk DEF UserOk, Place

LEMMA BackSides ==
  ASSUME Sides, NEW u \in User, Back(u)
  PROVE  Sides'
<1>1. /\ file' = file /\ at' = [at EXCEPT ![u] = "list"]
      /\ menu' = [menu EXCEPT ![u] = NoSheet] /\ other' = [other EXCEPT ![u] = other[u]]
  BY UserParts DEF Back, ToList, Opens, GoTo, NoWrite, NoSheet
<1> QED BY <1>1, UserParts, NoSheetOk, ToListOk, OwnSheets

\* The file is replaced by a user who is in the list then.
WroteAndLeft(u) ==
  /\ GoTo(u, "list")
  /\ menu' = [Overtaken(u, menu, file') EXCEPT ![u] = NoSheet]
  /\ other' = Overtaken(u, other, file')

LEMMA WritesAndLeaves ==
  ASSUME Sides, NEW u \in User, FileType(file'), WroteAndLeft(u)
  PROVE  Sides'
<1>1. menu \in [User -> Sheets] /\ other \in [User -> Sheets]
  BY DEF Sides
<1>2. /\ [Overtaken(u, menu, file') EXCEPT ![u] = NoSheet] =
           [w \in User |-> IF w = u THEN NoSheet ELSE Marked(menu[w], Replaces(file'))]
      /\ Overtaken(u, other, file') =
           [w \in User |-> IF w = u THEN other[u] ELSE Marked(other[w], Replaces(file'))]
  BY <1>1, OvertakenIs
<1>3. Wrote(u, "list", NoSheet, other[u])
  BY <1>2, Zenon DEF Wrote, WroteAndLeft, GoTo
<1>4. "list" \in Place /\ UserOk("list", NoSheet, other[u], file')
  BY ToListOk
<1> QED BY <1>3, <1>4, UserParts, NoSheetOk, Writes

LEMMA DeleteVmSides ==
  ASSUME Sides, NEW u \in User, DeleteVm(u)
  PROVE  Sides'
<1>1. FileType(file')
  BY DEF DeleteVm, FileType
<1>2. WroteAndLeft(u)
  BY DEF DeleteVm, WroteAndLeft
<1> QED BY <1>1, <1>2, WritesAndLeaves

LEMMA SubmitSides ==
  ASSUME Sides, NEW u \in User, NEW picks \in Picks(menu[u].list),
         NEW save \in BOOLEAN, NEW start \in BOOLEAN, Submit(u, picks, save, start)
  PROVE  Sides'
<1>1. picks \in [Form -> V]
  <2>1. menu[u].list \in List
    BY UserParts, SheetParts
  <2> QED BY <2>1, PicksType
<1>2. FileType(file')
  <2>1. FileType(Change(file, Sent(picks)))
    BY <1>1, UserParts, FormSaves
  <2>2. file' = Change(file, Sent(picks)) \/ file' = file
    BY DEF Submit, NoWrite
  <2>3. FileType(file)
    BY UserParts
  <2> QED BY <2>1, <2>2, <2>3, Zenon
<1>3. WroteAndLeft(u)
  BY DEF Submit, WroteAndLeft
<1> QED BY <1>2, <1>3, WritesAndLeaves

LEMMA SetupNewSides ==
  ASSUME Sides, NEW u \in User, NEW k \in OtherKey, NEW v \in Asked, NEW template \in Templates,
         SetupNew(u, k, v, template)
  PROVE  Sides'
<1> DEFINE m == NewSheet(k, v, template)
<1>1. k \in Key /\ v \in V /\ template \in Settings
  BY MenusAssumption DEF Key, V
<1>2. m \in Sheets /\ SheetOk(m) /\ Unloaded(m.list) /\ \A n \in Key : m.chosen[n] # None
  BY <1>1, NewSheetOk
<1>3. /\ file' = file /\ at' = [at EXCEPT ![u] = "new"]
      /\ menu' = [menu EXCEPT ![u] = m] /\ other' = [other EXCEPT ![u] = other[u]]
  BY UserParts DEF SetupNew, GoTo, NoWrite, NewSheet, ChosenNew
<1> HIDE DEF m
<1>4. UserOk("new", m, other[u], file) /\ "new" \in Place
  BY <1>2, UserParts DEF UserOk, Place
<1> QED BY <1>2, <1>3, <1>4, UserParts, OwnSheets

LEMMA DoneNewSides ==
  ASSUME Sides, NEW u \in User, NEW start \in BOOLEAN, DoneNew(u, start)
  PROVE  Sides'
<1>1. /\ SheetOk(menu[u]) /\ Unloaded(menu[u].list) /\ \A k \in Key : menu[u].chosen[k] # None
  BY UserParts DEF UserOk, DoneNew
<1>2. FileType(Save(Expand(menu[u].list)))
  BY <1>1, UserParts, NewHanded DEF FileType
<1>3. file' = Save(Expand(menu[u].list))
  BY DEF DoneNew
<1>4. FileType(file')
  BY <1>2, <1>3, Zenon
<1>5. WroteAndLeft(u)
  BY <1>3, Zenon DEF DoneNew, WroteAndLeft
<1> QED BY <1>4, <1>5, WritesAndLeaves

LEMMA DialogNewSides ==
  ASSUME Sides, NEW u \in User, NEW k \in OtherKey, NEW v \in V, NEW picks \in [Form -> V],
         NEW start \in BOOLEAN, DialogNew(u, k, v, picks, start)
  PROVE  Sides'
<1> DEFINE f == Save(<<Pair(k, v)>> \o Sent(picks))
<1>1. FileType(f)
  BY DialogPairs DEF FileType
<1>2. /\ file' = f /\ other' = Overtaken(u, other, f) /\ menu' = Overtaken(u, menu, f)
      /\ at' = at /\ at[u] = "list"
  BY DEF DialogNew
<1> HIDE DEF f
<1>3. FileType(file')
  BY <1>1, <1>2, Zenon
<1>4. Wrote(u, "list", menu[u], other[u])
  <2>1. menu \in [User -> Sheets] /\ other \in [User -> Sheets]
    BY DEF Sides
  <2>2. /\ Overtaken(u, menu, file') =
             [w \in User |-> IF w = u THEN menu[u] ELSE Marked(menu[w], Replaces(file'))]
        /\ Overtaken(u, other, file') =
             [w \in User |-> IF w = u THEN other[u] ELSE Marked(other[w], Replaces(file'))]
    BY <2>1, OvertakenIs
  <2>3. at' = [at EXCEPT ![u] = "list"]
    BY <1>2, UserParts
  <2> QED BY <1>2, <2>2, <2>3, Zenon DEF Wrote
<1>5. "list" \in Place
  BY DEF Place
<1>6. UserOk("list", menu[u], other[u], file')
  BY UserParts DEF UserOk
<1> QED BY <1>3, <1>4, <1>5, <1>6, UserParts, Writes

LEMMA ManageSides ==
  ASSUME Sides, NEW u \in User, Manage(u) \/ PauseOrResume(u) \/ LeaveManage(u)
  PROVE  Sides'
<1>1. CASE UNCHANGED <<file, at, menu, other>>
  BY <1>1, SidesSame
<1>2. ASSUME NEW place \in {"list", "manage"}, GoTo(u, place), UNCHANGED <<file, menu, other>>
      PROVE  Sides'
  <2>1. /\ file' = file /\ at' = [at EXCEPT ![u] = place]
        /\ menu' = [menu EXCEPT ![u] = menu[u]] /\ other' = [other EXCEPT ![u] = other[u]]
    BY <1>2, UserParts DEF GoTo
  <2>2. UserOk(place, menu[u], other[u], file) /\ place \in Place
    BY <1>2, UserParts DEF UserOk, Place
  <2> QED BY <2>1, <2>2, UserParts, OwnSheets
<1> QED BY <1>1, <1>2 DEF Manage, PauseOrResume, LeaveManage, AfterOperation

-----------------------------------------------------------------------------
(* The VM, and the menus of one that runs.                                 *)

\* What a VM is started with.
LEMMA StartsRest ==
  ASSUME vm \in {"off", "running", "paused"}, config \in [Key -> V \cup {Unsure}],
         NEW settings \in Settings, Unique(settings), NEW pairs \in Pairs,
         Starts(settings, pairs)
  PROVE  /\ vm' \in {"off", "running", "paused"} /\ config' \in [Key -> V \cup {Unsure}]
         /\ vm' = "paused" <=> vm = "paused"
<1>1. Load(settings) \in List /\ Unique(Load(settings))
  BY LoadIs, LoadFacts DEF LoadedFrom
<1>2. Update(Load(settings), pairs) \in List
  BY <1>1, UpdateGives
<1>3. Values(Update(Load(settings), pairs)) \in [Key -> V]
  <2>1. Update(Load(settings), pairs) \in Seq(ItemSet) /\ \A x \in ItemSet : x.val \in V
    BY <1>2, ListIs DEF ItemSet
  <2> QED BY <2>1, GetType
<1>4. Values(Update(Load(settings), pairs)) \in [Key -> V \cup {Unsure}]
  BY <1>3
<1> QED BY <1>4 DEF Starts

\* What a step of a user's menus and forms does to the VM.
VmStep ==
  /\ vm' \in {"off", "running", "paused"} /\ config' \in [Key -> V \cup {Unsure}]
  /\ vm' = "paused" <=> vm = "paused"

LEMMA FileStarts ==
  ASSUME Sides, Rest, NEW pairs \in Pairs,
         NoStart \/ (file # Absent /\ Starts(file, pairs))
  PROVE  VmStep
<1>1. CASE NoStart
  BY <1>1 DEF NoStart, VmStep, Rest
<1>2. CASE file # Absent /\ Starts(file, pairs)
  <2>1. file \in Settings /\ Unique(file)
    BY <1>2 DEF Sides, FileType
  <2> QED BY <1>2, <2>1, StartsRest DEF Rest, VmStep
<1> QED BY <1>1, <1>2

LEMMA StartMenusVm ==
  ASSUME Sides, Rest, NEW u \in User, StartMenus(u)
  PROVE  VmStep
<1>1. <<>> \in Pairs
  BY DEF Pairs
<1>2. CASE NoStart
  BY <1>1, <1>2, FileStarts
<1>3. CASE StartThese(u)
  BY <1>1, <1>3, FileStarts DEF StartThese
<1>4. CASE DoneOther(u)
  <2>1. Expand(other[u].list) \in Pairs
    BY UserParts, SheetParts, ExpandFacts
  <2> QED BY <1>4, <2>1, FileStarts DEF DoneOther
<1>5. ASSUME NEW picks \in Picks(menu[u].list), NEW save \in BOOLEAN, NEW start \in BOOLEAN,
             Submit(u, picks, save, start)
      PROVE  VmStep
  <2>1. NoStart \/ (file' # Absent /\ Starts(file', Sent(picks)))
    BY <1>5 DEF Submit
  <2>2. CASE NoStart
    BY <1>2, <2>2
  <2>3. CASE file' # Absent /\ Starts(file', Sent(picks))
    <3>1. file' \in Settings /\ Unique(file')
      BY <1>5, <2>3, SubmitSides DEF Sides, FileType
    <3>2. Sent(picks) \in Pairs
      BY UserParts, SheetParts, PicksType, SentFacts, SettingsAre
    <3> QED BY <2>3, <3>1, <3>2, StartsRest DEF Rest, VmStep
  <2> QED BY <2>1, <2>2, <2>3
<1> QED BY <1>2, <1>3, <1>4, <1>5
     DEF StartMenus, Select, Configure, OpenOther, Edit, Leave, DoneConfigure, Back, DeleteVm

LEMMA NewMenusVm ==
  ASSUME Sides, Rest, NEW u \in User, NewMenus(u)
  PROVE  VmStep
<1>1. CASE NoStart
  BY <1>1 DEF NoStart, VmStep, Rest
<1>2. ASSUME NEW start \in BOOLEAN, DoneNew(u, start)
      PROVE  VmStep
  <2> DEFINE pairs == Expand(menu[u].list)
  <2>1. NoStart \/ Starts(Save(pairs), pairs)
    BY <1>2 DEF DoneNew
  <2>2. pairs \in Pairs /\ Save(pairs) \in Settings /\ Unique(Save(pairs))
    <3>1. SheetOk(menu[u]) /\ Unloaded(menu[u].list) /\ \A k \in Key : menu[u].chosen[k] # None
      BY <1>2, UserParts DEF UserOk, DoneNew
    <3> QED BY <3>1, UserParts, NewHanded
  <2> HIDE DEF pairs
  <2> QED BY <1>1, <2>1, <2>2, StartsRest DEF Rest, VmStep
<1>3. ASSUME NEW t \in Templates, NEW picks \in Picks(Update(<<>>, t)), NEW k \in OtherKey,
             NEW v \in Asked, NEW start \in BOOLEAN, DialogNew(u, k, v, picks, start)
      PROVE  /\ VmStep
             /\ picks \in [Form -> V]
  <2> DEFINE pairs == <<Pair(k, v)>> \o Sent(picks)
  <2>1. NoStart \/ Starts(Save(pairs), pairs)
    BY <1>3 DEF DialogNew
  <2>2. picks \in [Form -> V]
    <3>1. <<>> \in List /\ Unique(<<>>) /\ t \in Pairs
      BY MenusAssumption, ListIs, SettingsAre DEF Unique
    <3>2. Update(<<>>, t) \in List
      BY <3>1, UpdateGives
    <3> QED BY <3>2, PicksType
  <2>3. v \in V
    BY MenusAssumption DEF V
  <2>4. pairs \in Pairs /\ Save(pairs) \in Settings /\ Unique(Save(pairs))
    BY <2>2, <2>3, DialogPairs
  <2> HIDE DEF pairs
  <2> QED BY <1>1, <2>1, <2>2, <2>4, StartsRest DEF Rest, VmStep
<1> QED BY <1>1, <1>2, <1>3 DEF NewMenus, SetupNew

\* Counted, or not.
LEMMA OpsCount ==
  ASSUME Rest, Counted \/ ops' = ops
  PROVE  ops' \in 0..MaxOps
BY MenusAssumption DEF Rest, Counted

\* The offer to somebody who has just come, or whose VM nobody has touched.
Offers ==
  \A u \in User :
    (at[u] = "manage" /\ u \notin touched /\ (Ui[u] = "xdialog" => u \notin worked))
      => (offer[u] = "Resume" <=> vm = "paused")

LEMMA StartMenusRest ==
  ASSUME Sides, Rest, Offers, NEW u \in User, StartMenus(u) \/ NewMenus(u)
  PROVE  Rest' /\ Offers'
<1>1. VmStep
  BY StartMenusVm, NewMenusVm
<1>2. UNCHANGED running
  BY DEF StartMenus, NewMenus, Select, StartThese, Configure, OpenOther, Edit, Leave,
         DoneConfigure, DoneOther, Back, DeleteVm, Submit, SetupNew, DoneNew, DialogNew
<1>3. Counted \/ ops' = ops
  BY DEF StartMenus, NewMenus, Select, StartThese, Configure, OpenOther, Edit, Leave,
         DoneConfigure, DoneOther, Back, DeleteVm, Submit, SetupNew, DoneNew, DialogNew
<1>4. ASSUME NEW w \in User, at'[w] = "manage" PROVE at[w] = "manage"
  <2>1. \/ UNCHANGED at
        \/ \E place \in {"list", "start", "configure", "other", "form", "new"} :
             at' = [at EXCEPT ![u] = place]
    BY DEF StartMenus, NewMenus, Select, StartThese, Configure, OpenOther, Edit, Leave,
           DoneConfigure, DoneOther, Back, DeleteVm, Submit, SetupNew, DoneNew, DialogNew,
           GoTo, Opens, ToList
  <2> QED BY <1>4, <2>1 DEF Sides
<1>5. Rest'
  <2>1. offer' = offer /\ touched' = touched /\ worked' = worked
    BY <1>2 DEF running
  <2>2. ops' \in 0..MaxOps
    BY <1>3, OpsCount
  <2> QED BY <1>1, <2>1, <2>2 DEF Rest, VmStep
<1>6. Offers'
  BY <1>1, <1>2, <1>4 DEF Offers, VmStep, running
<1> QED BY <1>5, <1>6

LEMMA ManageRest ==
  ASSUME Sides, Rest, Offers, NEW u \in User, Manage(u)
  PROVE  Rest' /\ Offers'
<1>1. /\ vm' = vm /\ config' = config /\ ops' = ops
      /\ offer' = [offer EXCEPT ![u] = IF vm = "paused" THEN "Resume" ELSE "Pause"]
      /\ touched' = touched \ {u} /\ worked' = worked \ {u}
      /\ at' = [at EXCEPT ![u] = "manage"]
  BY DEF Manage, GoTo, IsPaused
<1>2. Rest'
  BY <1>1 DEF Rest
<1>3. /\ at \in [User -> Place] /\ offer \in [User -> {"Pause", "Resume", None}]
  BY DEF Sides, Rest
<1>4. ASSUME NEW w \in User, at'[w] = "manage", w \notin touched',
             Ui[w] = "xdialog" => w \notin worked'
      PROVE  offer'[w] = "Resume" <=> vm' = "paused"
  <2>1. CASE w = u
    BY <1>1, <1>3, <2>1
  <2>2. CASE w # u
    BY <1>1, <1>3, <1>4, <2>2 DEF Offers
  <2> QED BY <2>1, <2>2
<1>5. Offers'
  BY <1>4 DEF Offers
<1> QED BY <1>2, <1>5

LEMMA LeaveManageRest ==
  ASSUME Sides, Rest, Offers, NEW u \in User, LeaveManage(u)
  PROVE  Rest' /\ Offers'
<1>1. /\ vm' = vm /\ config' = config /\ ops' = ops /\ touched' = touched /\ worked' = worked
      /\ offer' = [offer EXCEPT ![u] = None] /\ at' = [at EXCEPT ![u] = "list"]
  BY DEF LeaveManage, GoTo
<1>2. Rest'
  BY <1>1 DEF Rest
<1>3. /\ at \in [User -> Place] /\ offer \in [User -> {"Pause", "Resume", None}]
  BY DEF Sides, Rest
<1>4. Offers'
  BY <1>1, <1>3 DEF Offers
<1> QED BY <1>2, <1>4

\* The offer of u is stale after the operation, and so are those of the others.
LEMMA PauseOrResumeRest ==
  ASSUME Sides, Rest, Offers, NEW u \in User, PauseOrResume(u)
  PROVE  Rest' /\ Offers'
<1>1. /\ vm' = IF vm = "off" THEN "off" ELSE IF offer[u] = "Pause" THEN "paused" ELSE "running"
      /\ touched' = IF vm' = vm THEN touched ELSE touched \cup (User \ {u})
      /\ worked' = worked \cup {u} /\ config' = config
      /\ Counted
      /\ AfterOperation(u)
  BY DEF PauseOrResume
<1>2. /\ at \in [User -> Place] /\ offer \in [User -> {"Pause", "Resume", None}]
  BY DEF Sides, Rest
<1>3. /\ offer' \in [User -> {"Pause", "Resume", None}]
      /\ \A w \in User : w # u => at'[w] = at[w] /\ offer'[w] = offer[w]
      /\ Ui[u] = "term" => at'[u] = "list"
  BY <1>1, <1>2 DEF AfterOperation, GoTo
<1>4. Ui[u] = "term" \/ Ui[u] = "xdialog"
  BY MenusAssumption
<1>5. Rest'
  BY <1>1, <1>3, OpsCount DEF Rest
<1>6. ASSUME NEW w \in User, at'[w] = "manage", w \notin touched',
             Ui[w] = "xdialog" => w \notin worked'
      PROVE  offer'[w] = "Resume" <=> vm' = "paused"
  <2>1. w # u
    BY <1>1, <1>3, <1>4, <1>6
  <2>2. vm' = vm /\ w \notin touched /\ (Ui[w] = "xdialog" => w \notin worked)
    BY <1>1, <1>6, <2>1
  <2> QED BY <1>3, <1>6, <2>1, <2>2 DEF Offers
<1>7. Offers'
  BY <1>6 DEF Offers
<1> QED BY <1>5, <1>7

LEMMA EndsRest ==
  ASSUME Sides, Rest, Offers, Ends
  PROVE  Sides' /\ Rest' /\ Offers'
<1>1. Sides'
  BY SidesSame DEF Ends
<1>2. Nothing \in [Key -> V \cup {Unsure}]
  BY DEF Nothing
<1>3. Rest'
  BY <1>2 DEF Ends, Rest, running
<1>4. Offers'
  BY DEF Ends, Offers, running
<1> QED BY <1>1, <1>3, <1>4

-----------------------------------------------------------------------------
(* The theorems.                                                           *)

LEMMA InitOk == Init => Sides /\ Rest /\ Offers
<1> SUFFICES ASSUME Init PROVE Sides /\ Rest /\ Offers
  OBVIOUS
<1>1. PICK v \in Asked \cup {Blank} : file = Save(<<Pair(FormOrder[1], v)>>)
  BY DEF Init
<1>2. FileType(file)
  <2> DEFINE p == Pair(FormOrder[1], v)
  <2>1. FormOrder \in Seq(Form) /\ FormOrder # <<>>
    BY MenusAssumption
  <2>2. FormOrder[1] \in Form
    BY <2>1
  <2>3. p \in SetSet
    BY <2>2, MenusAssumption DEF Pair, SetSet, Key, V
  <2> HIDE DEF p
  <2>4. <<p>> \in Settings /\ Unique(<<p>>)
    BY <2>3, SettingsAre DEF Unique
  <2>5. Save(<<p>>) \in Settings /\ Unique(Save(<<p>>))
    BY <2>4, SaveFacts, SettingsAre
  <2> QED BY <1>1, <2>5 DEF FileType, p
<1>3. ASSUME NEW u \in User PROVE UserOk(at[u], menu[u], other[u], file)
  <2>1. at[u] = "list" /\ menu[u] = NoSheet /\ other[u] = NoSheet
    BY DEF Init
  <2>2. UserOk("list", NoSheet, NoSheet, file)
    BY NoSheetOk DEF UserOk
  <2> QED BY <2>1, <2>2, Zenon
<1>4. Sides
  <2>1. at \in [User -> Place] /\ menu \in [User -> Sheets] /\ other \in [User -> Sheets]
    BY NoSheetOk DEF Init, Place
  <2> QED BY <1>2, <1>3, <2>1 DEF Sides
<1>5. Rest
  <2>1. Nothing \in [Key -> V \cup {Unsure}]
    BY DEF Nothing
  <2>2. 0 \in 0..MaxOps
    BY MenusAssumption
  <2> QED BY <2>1, <2>2 DEF Init, Rest
<1>6. Offers
  BY DEF Init, Offers
<1> QED BY <1>4, <1>5, <1>6

LEMMA StartMenusSides ==
  ASSUME Sides, NEW u \in User, StartMenus(u)
  PROVE  Sides'
<1>1. CASE StartThese(u)
  BY <1>1, SidesSame DEF StartThese, NoWrite
<1>2. ASSUME NEW picks \in Picks(menu[u].list), NEW save \in BOOLEAN, NEW start \in BOOLEAN,
             Submit(u, picks, save, start)
      PROVE  Sides'
  BY <1>2, SubmitSides
<1>3. ASSUME NEW k \in Form, NEW v \in Value, Edit(u, k, v)
      PROVE  Sides'
  BY <1>3, EditSides
<1> QED BY <1>1, <1>2, <1>3, SelectSides, ConfigureSides, OpenOtherSides, LeaveSides,
           DoneConfigureSides, BackSides, DeleteVmSides DEF StartMenus

LEMMA NewMenusSides ==
  ASSUME Sides, Rest, NEW u \in User, NewMenus(u)
  PROVE  Sides'
<1>1. ASSUME NEW k \in OtherKey, NEW v \in Asked, NEW t \in Templates, SetupNew(u, k, v, t)
      PROVE  Sides'
  BY <1>1, SetupNewSides
<1>2. ASSUME NEW start \in BOOLEAN, DoneNew(u, start)
      PROVE  Sides'
  BY <1>2, DoneNewSides
<1>3. ASSUME NEW t \in Templates, NEW picks \in Picks(Update(<<>>, t)), NEW k \in OtherKey,
             NEW v \in Asked, NEW start \in BOOLEAN, DialogNew(u, k, v, picks, start)
      PROVE  Sides'
  <2>1. picks \in [Form -> V]
    <3>1. <<>> \in List /\ Unique(<<>>) /\ t \in Pairs
      BY MenusAssumption, ListIs, SettingsAre DEF Unique
    <3>2. Update(<<>>, t) \in List
      BY <3>1, UpdateGives
    <3> QED BY <3>2, PicksType
  <2>2. v \in V
    BY MenusAssumption DEF V
  <2> QED BY <1>3, <2>1, <2>2, DialogNewSides
<1> QED BY <1>1, <1>2, <1>3 DEF NewMenus

LEMMA NextOk == Sides /\ Rest /\ Offers /\ [Next]_vars => (Sides /\ Rest /\ Offers)'
<1> SUFFICES ASSUME Sides, Rest, Offers, [Next]_vars
             PROVE  Sides' /\ Rest' /\ Offers'
  OBVIOUS
<1>1. ASSUME NEW u \in User, StartMenus(u) \/ NewMenus(u)
      PROVE  Sides' /\ Rest' /\ Offers'
  BY <1>1, StartMenusSides, NewMenusSides, StartMenusRest
<1>2. ASSUME NEW u \in User, ManageMenus(u)
      PROVE  Sides' /\ Rest' /\ Offers'
  BY <1>2, ManageSides, ManageRest, PauseOrResumeRest, LeaveManageRest DEF ManageMenus
<1>3. CASE Ends
  BY <1>3, EndsRest
<1>4. CASE UNCHANGED vars
  <2>1. Sides'
    BY <1>4, SidesSame DEF vars
  <2> QED BY <1>4, <2>1 DEF vars, running, Rest, Offers
<1> QED BY <1>1, <1>2, <1>3, <1>4 DEF Next

LEMMA InvariantHolds == Spec => [](Sides /\ Rest /\ Offers)
BY InitOk, NextOk, PTL DEF Spec

\* Types, and no setting is in the file of a VM twice, however many users save
\* however many lists over one another.
THEOREM TypeCorrect == Spec => []TypeOK
<1>1. Sides /\ Rest /\ Offers => TypeOK
  BY Parts
<1> QED BY <1>1, InvariantHolds, PTL

\* The form shows what DONE would use: the setting that was chosen last as chosen
\* (interactive_vt100.c:155), and what was not chosen as it was loaded.
THEOREM ShowsCorrect == Spec => []ShowsWhatCounts
<1>1. Sides => ShowsWhatCounts
  <2> SUFFICES ASSUME Sides, NEW u \in User, NEW sheet \in {menu[u], other[u]}, NEW k \in Key
               PROVE  /\ sheet.newest = k => Get(sheet.list, k) = sheet.chosen[k]
                      /\ sheet.chosen[k] = None => Get(sheet.list, k) = sheet.opened[k]
    BY DEF ShowsWhatCounts
  <2>1. SheetOk(sheet)
    BY UserParts DEF UserOk
  <2>2. k # None
    BY NoneIsNone
  <2> QED BY <2>1, <2>2 DEF SheetOk
<1> QED BY <1>1, InvariantHolds, PTL

\* Who is in the menu of a running VM is offered what applies, for any number of
\* users who pause and resume it.
THEOREM OffersCorrect == Spec => []OffersWhatApplies
<1>1. Offers => OffersWhatApplies
  BY DEF Offers, OffersWhatApplies
<1> QED BY <1>1, InvariantHolds, PTL

-----------------------------------------------------------------------------
(* What is chosen is what comes of it.                                     *)

LEMMA ValuesGet ==
  ASSUME NEW list, NEW k \in Key
  PROVE  Values(list)[k] = Get(list, k)
BY DEF Values

LEMMA ConfigureSaved ==
  ASSUME Sides, NEW u \in User, DoneConfigure(u), file # Absent, NEW k \in Key
  PROVE  AsOnSheet(menu[u], k) \in {Unsure, Values(Load(file'))[k]}
<1>1. file' = Change(file, Expand(menu[u].list)) /\ at[u] = "configure"
  BY DEF DoneConfigure
<1>2. /\ SheetOk(menu[u]) /\ Fresh(menu[u], file)
      /\ \A n \in Key : menu[u].chosen[n] # Blank
  BY <1>1, UserParts DEF UserOk
<1>3. AsOnSheet(menu[u], k) \in {Unsure, Get(Load(file'), k)}
  BY <1>1, <1>2, UserParts, ConfigureSaves
<1> QED BY <1>3, ValuesGet

LEMMA NewSaved ==
  ASSUME Sides, NEW u \in User, NEW start \in BOOLEAN, DoneNew(u, start), NEW k \in Key
  PROVE  menu[u].chosen[k] = Values(Load(file'))[k]
<1>1. /\ SheetOk(menu[u]) /\ Unloaded(menu[u].list) /\ \A n \in Key : menu[u].chosen[n] # None
  BY UserParts DEF UserOk, DoneNew
<1>2. file' = Save(Expand(menu[u].list))
  BY DEF DoneNew
<1>3. Get(Load(file'), k) = menu[u].chosen[k]
  BY <1>1, <1>2, UserParts, NewHanded
<1> QED BY <1>3, ValuesGet

\* The form of the dialogs leaves the settings that it does not have as they were.
LEMMA FormKeeps ==
  ASSUME Sides, NEW u \in User, at[u] = "form", NEW k \in Key \ Form, k \notin menu[u].changed
  PROVE  Get(Load(SettingsOf(file)), k) = menu[u].opened[k]
BY UserParts DEF UserOk, Fresh

LEMMA FormSaved ==
  ASSUME Sides, NEW u \in User, at[u] = "form", NEW picks \in Picks(menu[u].list),
         NEW start \in BOOLEAN, Submit(u, picks, TRUE, start), file # Absent, NEW k \in Key
  PROVE  AsPicked(u, picks, k) \in {Unsure, Values(Load(file'))[k]}
<1>1. file' = Change(file, Sent(picks))
  BY DEF Submit
<1>2. picks \in [Form -> V]
  BY UserParts, SheetParts, PicksType
<1>3. /\ \A n \in Form : Get(Load(file'), n) = picks[n]
      /\ \A n \in Key \ Form : Get(Load(file'), n) = Get(Load(file), n)
  BY <1>1, <1>2, UserParts, FormSaves
<1>4. CASE k \in Form
  BY <1>3, <1>4, ValuesGet DEF AsPicked
<1>5. CASE k \notin Form /\ k \in menu[u].changed
  BY <1>5 DEF AsPicked
<1>6. CASE k \notin Form /\ k \notin menu[u].changed
  <2>1. AsPicked(u, picks, k) = menu[u].opened[k]
    BY <1>6 DEF AsPicked
  <2>2. SettingsOf(file) = file
    BY DEF SettingsOf
  <2>3. Get(Load(file), k) = menu[u].opened[k]
    BY <1>6, <2>2, FormKeeps
  <2> QED BY <1>3, <1>6, <2>1, <2>3, ValuesGet
<1> QED BY <1>4, <1>5, <1>6

\* A VM that is started has what the file says and what is given besides.
LEMMA StartedWith ==
  ASSUME NEW settings \in Settings, Unique(settings), NEW pairs \in Pairs,
         vm = "off", Starts(settings, pairs), NEW k \in Key
  PROVE  /\ Silent(pairs, k) => config'[k] = Get(Load(settings), k)
         /\ \A v : Says(pairs, k, v) => config'[k] = v
<1> DEFINE l == Load(settings)
           r == Update(l, pairs)
<1>1. l \in List /\ Unique(l)
  BY LoadIs, LoadFacts DEF LoadedFrom
<1>2. config' = Values(r)
  BY DEF Starts
<1> HIDE DEF l
<1>3. /\ \A n : Silent(pairs, n) => Get(r, n) = Get(l, n)
      /\ \A n, v : Says(pairs, n, v) => Get(r, n) = v
  BY <1>1, UpdateGives
<1> HIDE DEF r
<1>4. config'[k] = Get(r, k)
  BY <1>2, ValuesGet
<1> QED BY <1>3, <1>4 DEF l

LEMMA TheseStarted ==
  ASSUME Sides, NEW u \in User, StartThese(u), vm = "off", NEW k \in Key
  PROVE  AsShown(menu[u], k) \in {Unsure, config'[k]}
<1>1. file # Absent /\ Starts(file, <<>>) /\ at[u] = "start"
  BY DEF StartThese
<1>2. file \in Settings /\ Unique(file) /\ SettingsOf(file) = file
  BY <1>1 DEF Sides, FileType, SettingsOf
<1>3. <<>> \in Pairs /\ Silent(<<>>, k)
  BY DEF Pairs, Silent
<1>4. config'[k] = Get(Load(file), k)
  BY <1>1, <1>2, <1>3, StartedWith
<1>5. CASE menu[u].chosen[k] # None \/ k \in menu[u].changed
  BY <1>5 DEF AsShown
<1>6. CASE menu[u].chosen[k] = None /\ k \notin menu[u].changed
  <2>1. AsShown(menu[u], k) = Get(menu[u].list, k)
    BY <1>6 DEF AsShown
  <2>2. SheetOk(menu[u]) /\ Fresh(menu[u], file)
    BY <1>1, UserParts DEF UserOk
  <2>3. Get(menu[u].list, k) = menu[u].opened[k] /\ Get(Load(file), k) = menu[u].opened[k]
    BY <1>2, <1>6, <2>2 DEF SheetOk, Fresh
  <2> QED BY <1>4, <2>1, <2>3
<1> QED BY <1>5, <1>6

LEMMA OtherStarted ==
  ASSUME Sides, NEW u \in User, DoneOther(u), vm = "off", vm' # "off", NEW k \in Key
  PROVE  AsOnSheet(other[u], k) \in {Unsure, config'[k]}
<1> DEFINE pairs == Expand(other[u].list)
<1>1. file # Absent /\ Starts(file, pairs) /\ at[u] = "other"
  BY DEF DoneOther, NoStart
<1>2. file \in Settings /\ Unique(file) /\ SettingsOf(file) = file
  BY <1>1 DEF Sides, FileType, SettingsOf
<1>3. /\ SheetOk(other[u]) /\ Fresh(other[u], file)
      /\ \A n \in Key : other[u].chosen[n] # Blank
  BY <1>1, UserParts DEF UserOk
<1>4. /\ pairs \in Pairs
      /\ \/ Silent(pairs, k) /\ AsOnSheet(other[u], k) \in {Unsure, Get(Load(SettingsOf(file)), k)}
         \/ \E v : Says(pairs, k, v) /\ AsOnSheet(other[u], k) \in {Unsure, v}
  BY <1>3, UserParts, HandedOver
<1> HIDE DEF pairs
<1>5. /\ Silent(pairs, k) => config'[k] = Get(Load(file), k)
      /\ \A v : Says(pairs, k, v) => config'[k] = v
  BY <1>1, <1>2, <1>4, StartedWith
<1> QED BY <1>2, <1>4, <1>5

LEMMA FormStarted ==
  ASSUME Sides, NEW u \in User, at[u] = "form", NEW picks \in Picks(menu[u].list),
         NEW save \in BOOLEAN, Submit(u, picks, save, TRUE), vm = "off", vm' # "off",
         NEW k \in Key
  PROVE  AsPicked(u, picks, k) \in {Unsure, config'[k]}
<1>1. file' # Absent /\ Starts(file', Sent(picks))
  BY DEF Submit, NoStart
<1>2. file' \in Settings /\ Unique(file')
  BY <1>1, SubmitSides DEF Sides, FileType
<1>3. picks \in [Form -> V]
  BY UserParts, SheetParts, PicksType
<1>4. /\ Sent(picks) \in Pairs
      /\ \A n \in Form : Says(Sent(picks), n, picks[n])
      /\ \A n : n \notin Form => Silent(Sent(picks), n)
  BY <1>3, SentFacts, SettingsAre
<1>5. /\ Silent(Sent(picks), k) => config'[k] = Get(Load(file'), k)
      /\ \A v : Says(Sent(picks), k, v) => config'[k] = v
  BY <1>1, <1>2, <1>4, StartedWith
<1>6. CASE k \in Form
  BY <1>4, <1>5, <1>6 DEF AsPicked
<1>7. CASE k \notin Form /\ k \in menu[u].changed
  BY <1>7 DEF AsPicked
<1>8. CASE k \notin Form /\ k \notin menu[u].changed
  <2>1. AsPicked(u, picks, k) = menu[u].opened[k]
    BY <1>8 DEF AsPicked
  <2>2. Get(Load(SettingsOf(file)), k) = menu[u].opened[k]
    BY <1>8, FormKeeps
  <2>3. file' = Change(file, Sent(picks)) \/ file' = file
    BY DEF Submit, NoWrite
  <2>4. Get(Load(file'), k) = Get(Load(SettingsOf(file)), k)
    <3>1. CASE file' = file
      BY <1>1, <3>1 DEF SettingsOf
    <3>2. CASE file' = Change(file, Sent(picks)) /\ file = Absent
      <4>1. file' = <<>> /\ SettingsOf(file) = <<>>
        BY <3>2 DEF Change, SettingsOf
      <4> QED BY <4>1, Zenon
    <3>3. CASE file' = Change(file, Sent(picks)) /\ file # Absent
      <4>1. Get(Load(file'), k) = Get(Load(file), k)
        BY <1>3, <1>8, <3>3, UserParts, FormSaves
      <4>2. SettingsOf(file) = file
        BY <3>3 DEF SettingsOf
      <4> QED BY <4>1, <4>2
    <3> QED BY <2>3, <3>1, <3>2, <3>3
  <2> QED BY <1>4, <1>5, <1>8, <2>1, <2>2, <2>4
<1> QED BY <1>6, <1>7, <1>8

\* What DONE and "save config" leave in the file is what was chosen last, and what
\* was there for the others, for any number of users and of settings chosen.
THEOREM SavedCorrect == Spec => SavedAsChosen
<1> DEFINE Saved ==
      \A u \in User :
        /\ DoneConfigure(u) /\ file # Absent =>
             Holds(Values(Load(file')), LAMBDA k : AsOnSheet(menu[u], k))
        /\ \A start \in BOOLEAN : DoneNew(u, start) =>
             Holds(Values(Load(file')), LAMBDA k : menu[u].chosen[k])
        /\ at[u] = "form" =>
             \A picks \in Picks(menu[u].list), start \in BOOLEAN :
               Submit(u, picks, TRUE, start) /\ file # Absent =>
                 Holds(Values(Load(file')), LAMBDA k : AsPicked(u, picks, k))
<1>1. Sides => Saved
  <2> SUFFICES ASSUME Sides, NEW u \in User
               PROVE  /\ DoneConfigure(u) /\ file # Absent =>
                           \A k \in Key : AsOnSheet(menu[u], k) \in {Unsure, Values(Load(file'))[k]}
                      /\ \A start \in BOOLEAN : DoneNew(u, start) =>
                           \A k \in Key : menu[u].chosen[k] \in {Unsure, Values(Load(file'))[k]}
                      /\ at[u] = "form" =>
                           \A picks \in Picks(menu[u].list), start \in BOOLEAN :
                             Submit(u, picks, TRUE, start) /\ file # Absent =>
                               \A k \in Key : AsPicked(u, picks, k) \in {Unsure, Values(Load(file'))[k]}
    BY DEF Holds
  <2>1. DoneConfigure(u) /\ file # Absent =>
          \A k \in Key : AsOnSheet(menu[u], k) \in {Unsure, Values(Load(file'))[k]}
    BY ConfigureSaved
  <2>2. \A start \in BOOLEAN : DoneNew(u, start) =>
          \A k \in Key : menu[u].chosen[k] \in {Unsure, Values(Load(file'))[k]}
    BY NewSaved
  <2>3. at[u] = "form" =>
          \A picks \in Picks(menu[u].list), start \in BOOLEAN :
            Submit(u, picks, TRUE, start) /\ file # Absent =>
              \A k \in Key : AsPicked(u, picks, k) \in {Unsure, Values(Load(file'))[k]}
    BY FormSaved
  <2> QED BY <2>1, <2>2, <2>3
<1> QED BY <1>1, InvariantHolds, PTL DEF SavedAsChosen

\* A VM runs with what was chosen for its start, whatever is in the file and
\* whoever has changed it since the form was opened.
THEOREM StartedCorrect == Spec => StartedAsChosen
<1> DEFINE Started ==
      vm = "off" /\ vm' # "off" =>
        \A u \in User :
          /\ StartThese(u) => Holds(config', LAMBDA k : AsShown(menu[u], k))
          /\ DoneOther(u) => Holds(config', LAMBDA k : AsOnSheet(other[u], k))
          /\ at[u] = "form" =>
               \A picks \in Picks(menu[u].list), save \in BOOLEAN :
                 Submit(u, picks, save, TRUE) =>
                   Holds(config', LAMBDA k : AsPicked(u, picks, k))
<1>1. Sides => Started
  <2> SUFFICES ASSUME Sides, NEW u \in User, vm = "off", vm' # "off"
               PROVE  /\ StartThese(u) =>
                           \A k \in Key : AsShown(menu[u], k) \in {Unsure, config'[k]}
                      /\ DoneOther(u) =>
                           \A k \in Key : AsOnSheet(other[u], k) \in {Unsure, config'[k]}
                      /\ at[u] = "form" =>
                           \A picks \in Picks(menu[u].list), save \in BOOLEAN :
                             Submit(u, picks, save, TRUE) =>
                               \A k \in Key : AsPicked(u, picks, k) \in {Unsure, config'[k]}
    BY DEF Holds
  <2>1. StartThese(u) => \A k \in Key : AsShown(menu[u], k) \in {Unsure, config'[k]}
    BY TheseStarted
  <2>2. DoneOther(u) => \A k \in Key : AsOnSheet(other[u], k) \in {Unsure, config'[k]}
    BY OtherStarted
  <2>3. at[u] = "form" =>
          \A picks \in Picks(menu[u].list), save \in BOOLEAN :
            Submit(u, picks, save, TRUE) =>
              \A k \in Key : AsPicked(u, picks, k) \in {Unsure, config'[k]}
    BY FormStarted
  <2> QED BY <2>1, <2>2, <2>3
<1> QED BY <1>1, InvariantHolds, PTL DEF StartedAsChosen
=============================================================================
