--------------------------- MODULE CollectionProofs ---------------------------
(***************************************************************************)
(* A SELECT through an index finds what a scan finds, a unique index lists *)
(* only documents that are there, and no operation takes another document  *)
(* out of an index, for any documents, keys and indexes.                   *)
(*                                                                         *)
(* The two loops of the code that the model writes as recursive functions, *)
(* the removal of an id from a posting and the bulk load of create_index,  *)
(* are unfolded first; then comes what an operation does to one tree, then *)
(* to all of them, and then the invariant.                                 *)
(***************************************************************************)
EXTENDS Collection, WellFoundedInduction, TLAPS

(* A set of numbers that holds 0, and n whenever it holds n - 1, holds all. *)
LEMMA UpTo ==
    ASSUME NEW N \in Nat, NEW G, 0 \in G, \A n \in 1..N : n - 1 \in G => n \in G
    PROVE  \A n \in 0..N : n \in G
<1> DEFINE Less == {p \in Nat \X Nat : p[1] < p[2]}
           T == {n \in 0..N : n \notin G}
<1>1. IsWellFoundedOn(Less, Nat)  BY NatLessThanWellFounded, Zenon DEF OpToRel
<1> SUFFICES ASSUME T # {} PROVE FALSE  OBVIOUS
<1>2. PICK x \in T : \A y \in T : ~(<<y, x>> \in Less)
  <2> HIDE DEF Less
  <2>1. T \subseteq Nat  OBVIOUS
  <2> HIDE DEF T
  <2> QED  BY <1>1, <2>1, WFMin
<1>3. x \in 1..N /\ x - 1 \in 0..N  OBVIOUS
<1>4. x - 1 \notin T
  <2>1. <<x - 1, x>> \in Less  BY <1>3
  <2> QED  BY <1>2, <2>1
<1> QED  BY <1>2, <1>3, <1>4

(* The loops' recursive functions exist: each is one up to 0, and one up to m *)
(* extends one up to m - 1.                                                  *)
LEMMA KeptUnfolds ==
    ASSUME NEW p, Len(p) \in Nat, NEW k
    PROVE  Kept(p, k) = [n \in 0..Len(p) |->
              IF n = 0 THEN <<>>
              ELSE IF p[n] = k THEN Kept(p, k)[n - 1]
              ELSE Append(Kept(p, k)[n - 1], p[n])]
<1> DEFINE Step(n, s) == IF p[n] = k THEN s ELSE Append(s, p[n])
           Of(f, m) == [n \in 0..m |-> IF n = 0 THEN <<>> ELSE Step(n, f[n - 1])]
           G == {m \in 0..Len(p) : \E f : f = Of(f, m)}
<1> HIDE DEF Step
<1>1. 0 \in G
  <2> DEFINE f == [n \in 0..0 |-> <<>>]
  <2>1. \A n \in 0..0 : f[n] = IF n = 0 THEN <<>> ELSE Step(n, f[n - 1])  OBVIOUS
  <2>2. f = [n \in 0..0 |-> f[n]]  OBVIOUS
  <2> HIDE DEF f
  <2>3. f = Of(f, 0)  BY <2>1, <2>2
  <2> QED  BY <2>3
<1>2. ASSUME NEW m \in 1..Len(p), m - 1 \in G PROVE m \in G
  <2>1. PICK g : g = Of(g, m - 1)  BY <1>2
  <2> DEFINE f == [n \in 0..m |-> IF n = m THEN Step(m, g[m - 1]) ELSE g[n]]
  <2>2. \A n \in 0..m : f[n] = IF n = 0 THEN <<>> ELSE Step(n, f[n - 1])
    <3>1. \A n \in 0..(m - 1) : g[n] = IF n = 0 THEN <<>> ELSE Step(n, g[n - 1])  BY <2>1
    <3>2. \A n \in 0..m : n # m => f[n] = g[n]  OBVIOUS
    <3>3. f[m] = Step(m, f[m - 1])  OBVIOUS
    <3>4. \A n \in 1..m : n # m => f[n - 1] = g[n - 1]  OBVIOUS
    <3> QED  BY <3>1, <3>2, <3>3, <3>4
  <2>3. f = [n \in 0..m |-> f[n]]  OBVIOUS
  <2> HIDE DEF f
  <2>4. f = Of(f, m)  BY <2>2, <2>3
  <2> QED  BY <2>4
<1>3. \E f : f = Of(f, Len(p))
  <2>1. \A m \in 0..Len(p) : m \in G  
    <3> HIDE DEF G
    <3> QED BY <1>1, <1>2, UpTo
  <2> QED  BY <2>1
<1>4. Kept(p, k) = Of(Kept(p, k), Len(p))
  <2>1. Kept(p, k) = CHOOSE f : f = Of(f, Len(p))  BY Zenon DEF Kept, Step
  <2> QED  BY <1>3, <2>1, Zenon
<1> QED  BY <1>4, Zenon DEF Step

LEMMA LoadedUnfolds ==
    ASSUME NEW ts, Len(KeyOrder) \in Nat
    PROVE  Loaded(ts) = [n \in 0..Len(KeyOrder) |->
              IF n = 0 THEN ts
              ELSE IF Live(KeyOrder[n])
              THEN UpdateIndexes(Loaded(ts)[n - 1], KeyOrder[n], data[KeyOrder[n]])
              ELSE Loaded(ts)[n - 1]]
<1> DEFINE N == Len(KeyOrder)
           Step(n, us) == IF Live(KeyOrder[n])
                          THEN UpdateIndexes(us, KeyOrder[n], data[KeyOrder[n]]) ELSE us
           Of(f, m) == [n \in 0..m |-> IF n = 0 THEN ts ELSE Step(n, f[n - 1])]
           G == {m \in 0..N : \E f : f = Of(f, m)}
<1> HIDE DEF Step, N
<1>0. N \in Nat  BY DEF N
<1>1. 0 \in G
  <2> DEFINE f == [n \in 0..0 |-> ts]
  <2>1. \A n \in 0..0 : f[n] = IF n = 0 THEN ts ELSE Step(n, f[n - 1])  OBVIOUS
  <2>2. f = [n \in 0..0 |-> f[n]]  OBVIOUS
  <2> HIDE DEF f
  <2>3. f = Of(f, 0)  BY <2>1, <2>2
  <2> QED  BY <1>0, <2>3
<1>2. ASSUME NEW m \in 1..N, m - 1 \in G PROVE m \in G
  <2>1. PICK g : g = Of(g, m - 1)  BY <1>2
  <2> DEFINE f == [n \in 0..m |-> IF n = m THEN Step(m, g[m - 1]) ELSE g[n]]
  <2>2. \A n \in 0..m : f[n] = IF n = 0 THEN ts ELSE Step(n, f[n - 1])
    <3>1. \A n \in 0..(m - 1) : g[n] = IF n = 0 THEN ts ELSE Step(n, g[n - 1])  BY <1>0, <2>1
    <3>2. \A n \in 0..m : n # m => f[n] = g[n]  OBVIOUS
    <3>3. f[m] = Step(m, f[m - 1])  BY <1>0
    <3>4. \A n \in 1..m : n # m => f[n - 1] = g[n - 1]  BY <1>0
    <3> QED  BY <1>0, <3>1, <3>2, <3>3, <3>4
  <2>3. f = [n \in 0..m |-> f[n]]  OBVIOUS
  <2> HIDE DEF f
  <2>4. f = Of(f, m)  BY <2>2, <2>3
  <2> QED  BY <1>0, <2>4
<1>3. \E f : f = Of(f, N)
  <2>1. \A m \in 0..N : m \in G
    <3> HIDE DEF G
    <3> QED BY <1>0, <1>1, <1>2, UpTo
  <2> QED  BY <1>0, <2>1
<1>4. Loaded(ts) = Of(Loaded(ts), N)
  <2>1. Loaded(ts) = CHOOSE f : f = Of(f, N)  BY Zenon DEF Loaded, Step, N
  <2> QED  BY <1>3, <2>1, Zenon
<1> QED  BY <1>4, Zenon DEF Step, N

-----------------------------------------------------------------------------
(* Postings are lists of ids without a repetition, and trees stacks of them. *)
Listing == {p \in Seq(Keys) : IsInjective(p)}
Tree(i) == [IndexKeys(i) -> Seq(Listing \ {<<>>})]
TreesOK(ts) == DOMAIN ts \subseteq Indexes /\ \A i \in DOMAIN ts : ts[i] \in Tree(i)

(* An id is appended to a posting only if it is not there. *)
LEMMA AppendListing ==
    ASSUME NEW p \in Listing, NEW k \in Keys, ~Contains(p, k)
    PROVE  /\ Append(p, k) \in Listing /\ Append(p, k) # <<>>
           /\ \A x : Contains(Append(p, k), x) <=> Contains(p, x) \/ x = k
<1>1. p \in Seq(Keys) /\ \A m, n \in 1..Len(p) : p[m] = p[n] => m = n
    BY DEF Listing, IsInjective
<1>2. /\ Append(p, k) \in Seq(Keys) /\ Len(Append(p, k)) = Len(p) + 1 /\ Len(p) \in Nat
      /\ Append(p, k) # <<>> /\ DOMAIN Append(p, k) = 1..(Len(p) + 1)
      /\ \A n \in 1..Len(p) : Append(p, k)[n] = p[n]
      /\ Append(p, k)[Len(p) + 1] = k
    BY <1>1
<1>3. IsInjective(Append(p, k))
    BY <1>1, <1>2 DEF IsInjective, Contains
<1>4. \A x : Contains(Append(p, k), x) <=> Contains(p, x) \/ x = k
    BY <1>2 DEF Contains
<1> QED  BY <1>2, <1>3, <1>4 DEF Listing

(* The loop of remove_from_indexes keeps every other id, in its order. *)
LEMMA WithoutListing ==
    ASSUME NEW p \in Listing, NEW k
    PROVE  /\ Without(p, k) \in Listing
           /\ \A x : Contains(Without(p, k), x) <=> Contains(p, x) /\ x # k
<1>1. /\ p \in Seq(Keys) /\ \A m, n \in 1..Len(p) : p[m] = p[n] => m = n
      /\ Len(p) \in Nat
    BY DEF Listing, IsInjective
<1> DEFINE K == Kept(p, k)
           Good(n) == /\ K[n] \in Listing
                      /\ \A x : Contains(K[n], x) <=> x # k /\ \E m \in 1..n : p[m] = x
           G == {n \in 0..Len(p) : Good(n)}
<1>2. /\ K[0] = <<>>
      /\ \A n \in 1..Len(p) :
            K[n] = IF p[n] = k THEN K[n - 1] ELSE Append(K[n - 1], p[n])
  <2>1. K = [n \in 0..Len(p) |-> IF n = 0 THEN <<>> ELSE IF p[n] = k THEN K[n - 1]
                                   ELSE Append(K[n - 1], p[n])]
      BY <1>1, KeptUnfolds
  <2> HIDE DEF K
  <2>2. 0 \in 0..Len(p) /\ \A n \in 1..Len(p) : n \in 0..Len(p) /\ n # 0  BY <1>1
  <2> QED  BY <2>1, <2>2, Zenon
<1> HIDE DEF K
<1>3. 0 \in G
  <2>1. <<>> \in Listing  BY DEF Listing, IsInjective
  <2>2. \A x : ~Contains(<<>>, x)  BY DEF Contains
  <2> QED  BY <1>1, <1>2, <2>1, <2>2
<1>4. ASSUME NEW n \in 1..Len(p), n - 1 \in G PROVE n \in G
  <2>1. Good(n - 1)  BY <1>4
  <2>2. \A x : (\E m \in 1..n : p[m] = x) <=> (\E m \in 1..(n - 1) : p[m] = x) \/ p[n] = x
      BY <1>1
  <2>3. CASE p[n] = k
      BY <1>2, <2>1, <2>2, <2>3
  <2>4. CASE p[n] # k
    <3>1. p[n] \in Keys /\ \A m \in 1..(n - 1) : p[m] # p[n]  BY <1>1
    <3>2. ~Contains(K[n - 1], p[n])  BY <2>1, <3>1
    <3>3. /\ Append(K[n - 1], p[n]) \in Listing
          /\ \A x : Contains(Append(K[n - 1], p[n]), x) <=> Contains(K[n - 1], x) \/ x = p[n]
        BY <2>1, <3>1, <3>2, AppendListing
    <3> QED  BY <1>2, <2>1, <2>2, <2>4, <3>3
  <2> QED  BY <2>3, <2>4
<1>5. Good(Len(p))
  <2>1. Len(p) \in G
    <3> HIDE DEF G
    <3>1. \A n \in 0..Len(p) : n \in G  BY <1>1, <1>3, <1>4, UpTo
    <3> QED  BY <1>1, <3>1
  <2> QED  BY <2>1, Zenon
<1>6. Without(p, k) = K[Len(p)]  BY DEF Without, K
<1> QED  BY <1>5, <1>6 DEF Contains

-----------------------------------------------------------------------------
(* What an id is found by, in a tree, before and after. *)

LEMMA FoundPosting ==
    ASSUME NEW i, NEW tree \in Tree(i), NEW v \in IndexKeys(i)
    PROVE  /\ tree[v] \in Seq(Listing \ {<<>>})
           /\ Find(tree, v) \in Listing
           /\ tree[v] # <<>> => Find(tree, v) # <<>>
<1>1. tree[v] \in Seq(Listing \ {<<>>})
    BY DEF Tree
<1>2. <<>> \in Listing
    BY DEF Listing, IsInjective
<1>3. CASE tree[v] # <<>>
  <2>1. Head(tree[v]) \in Listing \ {<<>>}  BY <1>1, <1>3
  <2> QED  BY <1>1, <1>3, <2>1 DEF Find
<1> QED  BY <1>1, <1>2, <1>3 DEF Find

LEMMA InsertFinds ==
    ASSUME NEW i, NEW tree \in Tree(i), NEW v \in IndexKeys(i), NEW p \in Listing \ {<<>>}
    PROVE  /\ Insert(tree, v, p) \in Tree(i)
           /\ Find(Insert(tree, v, p), v) = p
           /\ tree[v] = <<>> => Insert(tree, v, p)[v] = <<p>>
           /\ \A w \in IndexKeys(i) : w # v => Insert(tree, v, p)[w] = tree[w]
<1> DEFINE stack == <<p>> \o tree[v]
<1>1. stack \in Seq(Listing \ {<<>>}) /\ stack # <<>> /\ Head(stack) = p
    BY FoundPosting
<1>2. Insert(tree, v, p) = [tree EXCEPT ![v] = stack]
    BY DEF Insert
<1> HIDE DEF stack
<1>3. Insert(tree, v, p) \in Tree(i) /\ Insert(tree, v, p)[v] = stack
    BY <1>1, <1>2 DEF Tree
<1>4. \A w \in IndexKeys(i) : w # v => Insert(tree, v, p)[w] = tree[w]
    BY <1>2 DEF Tree
<1>5. Find(Insert(tree, v, p), v) = p
    BY <1>1, <1>3 DEF Find
<1>6. tree[v] = <<>> => stack = <<p>>
    BY DEF stack
<1> QED  BY <1>3, <1>4, <1>5, <1>6

LEMMA EraseKeeps ==
    ASSUME NEW i, NEW tree \in Tree(i), NEW v \in IndexKeys(i), tree[v] # <<>>
    PROVE  /\ Erase(tree, v) \in Tree(i)
           /\ Erase(tree, v)[v] = Tail(tree[v])
           /\ \A w \in IndexKeys(i) : w # v => Erase(tree, v)[w] = tree[w]
<1> DEFINE stack == Tail(tree[v])
<1>1. stack \in Seq(Listing \ {<<>>})
    BY FoundPosting
<1>2. Erase(tree, v) = [tree EXCEPT ![v] = stack]
    BY DEF Erase
<1> HIDE DEF stack
<1>3. Erase(tree, v) \in Tree(i) /\ Erase(tree, v)[v] = stack
      /\ \A w \in IndexKeys(i) : w # v => Erase(tree, v)[w] = tree[w]
    BY <1>1, <1>2 DEF Tree
<1> QED  BY <1>3 DEF stack

Finds(tree, v, k) == Contains(Find(tree, v), k)

LEMMA KeyOfDocument ==
    ASSUME NEW i, NEW d \in Documents, IndexKey(i, d) # NoKey
    PROVE  IndexKey(i, d) \in IndexKeys(i)
    BY DEF IndexKeys

LEMMA AddToAdds ==
    ASSUME NEW i, NEW tree \in Tree(i), NEW k \in Keys, NEW d \in Documents
    PROVE  /\ AddTo(i, tree, k, d) \in Tree(i)
           /\ \A w \in IndexKeys(i) : w # IndexKey(i, d) => AddTo(i, tree, k, d)[w] = tree[w]
           /\ \A w \in IndexKeys(i) : \A x :
                Finds(AddTo(i, tree, k, d), w, x)
                    <=> Finds(tree, w, x) \/ (x = k /\ w = IndexKey(i, d))
<1> DEFINE v == IndexKey(i, d)
<1>1. CASE v = NoKey
  <2>1. NoKey \notin IndexKeys(i)  BY DEF IndexKeys
  <2> QED  BY <1>1, <2>1 DEF AddTo
<1>2. CASE v # NoKey /\ Contains(Find(tree, v), k)
    BY <1>2 DEF AddTo, Finds
<1>3. CASE v # NoKey /\ ~Contains(Find(tree, v), k)
  <2> DEFINE p == Append(Find(tree, v), k)
  <2>1. v \in IndexKeys(i)  BY <1>3, KeyOfDocument
  <2>2. /\ p \in Listing \ {<<>>}
        /\ \A x : Contains(p, x) <=> Contains(Find(tree, v), x) \/ x = k
      BY <1>3, <2>1, FoundPosting, AppendListing
  <2>3. AddTo(i, tree, k, d) = Insert(tree, v, p)
      BY <1>3 DEF AddTo
  <2> HIDE DEF p, v
  <2>4. /\ Insert(tree, v, p) \in Tree(i)
        /\ Find(Insert(tree, v, p), v) = p
        /\ \A w \in IndexKeys(i) : w # v => Insert(tree, v, p)[w] = tree[w]
    <3>1. p \in Listing \ {<<>>}  BY <2>2
    <3> QED  BY <2>1, <3>1, InsertFinds
  <2>5. \A w \in IndexKeys(i) : w # v => Find(Insert(tree, v, p), w) = Find(tree, w)
      BY <2>4 DEF Find
  <2>6. ASSUME NEW w \in IndexKeys(i), NEW x
        PROVE  Finds(Insert(tree, v, p), w, x) <=> Finds(tree, w, x) \/ (x = k /\ w = v)
    <3>1. CASE w = v  BY <2>2, <2>4, <3>1 DEF Finds
    <3>2. CASE w # v  BY <2>5, <3>2 DEF Finds
    <3> QED  BY <3>1, <3>2
  <2> QED  BY <2>3, <2>4, <2>6 DEF v
<1> QED  BY <1>1, <1>2, <1>3

LEMMA RemoveFromKeeps ==
    ASSUME NEW i, NEW tree \in Tree(i), NEW k \in Keys, NEW d \in Documents
    PROVE  /\ RemoveFrom(i, tree, k, d) \in Tree(i)
           /\ \A w \in IndexKeys(i) :
                w # IndexKey(i, d) => RemoveFrom(i, tree, k, d)[w] = tree[w]
           /\ \A w \in IndexKeys(i) : \A x :
                Finds(tree, w, x) /\ x # k => Finds(RemoveFrom(i, tree, k, d), w, x)
<1> DEFINE v == IndexKey(i, d)
           rest == Without(Find(tree, v), k)
<1>1. CASE v = NoKey \/ ~Contains(Find(tree, v), k)
    BY <1>1 DEF RemoveFrom
<1>2. CASE v # NoKey /\ Contains(Find(tree, v), k)
  <2>1. v \in IndexKeys(i)  BY <1>2, KeyOfDocument
  <2>2. /\ rest \in Listing
        /\ \A x : Contains(rest, x) <=> Contains(Find(tree, v), x) /\ x # k
      BY <2>1, FoundPosting, WithoutListing
  <2>3. tree[v] # <<>>
    <3>1. ~Contains(<<>>, k)  BY DEF Contains
    <3> QED  BY <1>2, <3>1 DEF Find
  <2>4. RemoveFrom(i, tree, k, d)
          = IF rest = <<>> THEN Erase(tree, v) ELSE Insert(tree, v, rest)
      BY <1>2 DEF RemoveFrom
  <2> HIDE DEF rest, v
  <2>5. CASE rest = <<>>
    <3>1. /\ Erase(tree, v) \in Tree(i)
          /\ \A w \in IndexKeys(i) : w # v => Erase(tree, v)[w] = tree[w]
        BY <2>1, <2>3, EraseKeeps
    <3>2. \A x : ~Contains(rest, x)  BY <2>5 DEF Contains
    <3>3. \A w \in IndexKeys(i) : \A x :
            Finds(tree, w, x) /\ x # k => Finds(Erase(tree, v), w, x)
        BY <2>2, <3>1, <3>2 DEF Finds, Find
    <3> QED  BY <2>4, <2>5, <3>1, <3>3 DEF v
  <2>6. CASE rest # <<>>
    <3>1. /\ Insert(tree, v, rest) \in Tree(i)
          /\ Find(Insert(tree, v, rest), v) = rest
          /\ \A w \in IndexKeys(i) : w # v => Insert(tree, v, rest)[w] = tree[w]
      <4>1. rest \in Listing \ {<<>>}  BY <2>2, <2>6
      <4> QED  BY <2>1, <4>1, InsertFinds
    <3>2. \A w \in IndexKeys(i) : w # v => Find(Insert(tree, v, rest), w) = Find(tree, w)
        BY <3>1 DEF Find
    <3>3. \A w \in IndexKeys(i) : \A x :
            Finds(tree, w, x) /\ x # k => Finds(Insert(tree, v, rest), w, x)
        BY <2>2, <3>1, <3>2 DEF Finds
    <3> QED  BY <2>4, <2>6, <3>1, <3>3 DEF v
  <2> QED  BY <2>5, <2>6
<1> QED  BY <1>1, <1>2

-----------------------------------------------------------------------------
(* The same for all indexes. *)

InAll(ts, k, d) ==
    \A i \in DOMAIN ts : IndexKey(i, d) # NoKey => Finds(ts[i], IndexKey(i, d), k)

StillFound(ts, us, k) ==
    \A i \in DOMAIN ts : \A v \in IndexKeys(i) : \A x :
        Finds(ts[i], v, x) /\ x # k => Finds(us[i], v, x)

LEMMA UpdateKeeps ==
    ASSUME NEW ts, TreesOK(ts), NEW k \in Keys, NEW d \in Documents
    PROVE  /\ TreesOK(UpdateIndexes(ts, k, d))
           /\ DOMAIN UpdateIndexes(ts, k, d) = DOMAIN ts
           /\ \A i \in DOMAIN ts : \A v \in IndexKeys(i) : \A x :
                Finds(ts[i], v, x) => Finds(UpdateIndexes(ts, k, d)[i], v, x)
           /\ ~SomeRefuses(ts, k, d) => InAll(UpdateIndexes(ts, k, d), k, d)
<1> DEFINE us == UpdateIndexes(ts, k, d)
<1>1. /\ DOMAIN us = DOMAIN ts
      /\ \A i \in DOMAIN ts :
            us[i] = IF Reached(ts, i, k, d) THEN AddTo(i, ts[i], k, d) ELSE ts[i]
    BY DEF UpdateIndexes
<1> HIDE DEF us
<1>2. \A i \in DOMAIN ts : i \in Indexes /\ ts[i] \in Tree(i)
    BY DEF TreesOK
<1>3. \A i \in DOMAIN ts :
        /\ us[i] \in Tree(i)
        /\ \A v \in IndexKeys(i) : \A x : Finds(ts[i], v, x) => Finds(us[i], v, x)
    BY <1>1, <1>2, AddToAdds
<1>4. ASSUME ~SomeRefuses(ts, k, d) PROVE InAll(us, k, d)
  <2> SUFFICES ASSUME NEW i \in DOMAIN ts, IndexKey(i, d) # NoKey
               PROVE  Finds(us[i], IndexKey(i, d), k)
      BY <1>1 DEF InAll
  <2>1. us[i] = AddTo(i, ts[i], k, d)
      BY <1>1, <1>4 DEF SomeRefuses, Reached
  <2>2. IndexKey(i, d) \in IndexKeys(i) /\ ts[i] \in Tree(i)
      BY <1>2, KeyOfDocument
  <2> QED  BY <2>1, <2>2, AddToAdds
<1>5. TreesOK(us)
    BY <1>1, <1>2, <1>3 DEF TreesOK
<1> QED  BY <1>1, <1>3, <1>4, <1>5 DEF us

(* Without a unique index nothing is refused. *)
LEMMA PlainAccepts ==
    ASSUME NEW ts, DOMAIN ts \cap Unique = {}, NEW k, NEW d
    PROVE  ~SomeRefuses(ts, k, d)
    BY DEF SomeRefuses, Refuses

LEMMA RemoveKeeps ==
    ASSUME NEW ts, TreesOK(ts), NEW k \in Keys, NEW d \in Documents
    PROVE  /\ TreesOK(RemoveFromIndexes(ts, k, d))
           /\ DOMAIN RemoveFromIndexes(ts, k, d) = DOMAIN ts
           /\ StillFound(ts, RemoveFromIndexes(ts, k, d), k)
<1> DEFINE us == RemoveFromIndexes(ts, k, d)
<1>1. DOMAIN us = DOMAIN ts /\ \A i \in DOMAIN ts : us[i] = RemoveFrom(i, ts[i], k, d)
    BY DEF RemoveFromIndexes
<1> HIDE DEF us
<1>2. \A i \in DOMAIN ts : i \in Indexes /\ ts[i] \in Tree(i)
    BY DEF TreesOK
<1>3. \A i \in DOMAIN ts :
        /\ us[i] \in Tree(i)
        /\ \A v \in IndexKeys(i) : \A x : Finds(ts[i], v, x) /\ x # k => Finds(us[i], v, x)
    BY <1>1, <1>2, RemoveFromKeeps
<1> QED  BY <1>1, <1>2, <1>3 DEF us, TreesOK, StillFound

DataOK == data \in [Keys -> Documents \cup {Absent, Tombstone}]

LEMMA FreedKeeps ==
    ASSUME DataOK, TreesOK(trees), NEW k \in Keys
    PROVE  /\ TreesOK(Freed(k)) /\ DOMAIN Freed(k) = DOMAIN trees
           /\ StillFound(trees, Freed(k), k)
<1>1. CASE Live(k)
  <2>1. data[k] \in Documents  BY <1>1 DEF Live, DataOK
  <2> QED  BY <1>1, <2>1, RemoveKeeps DEF Freed
<1>2. CASE ~Live(k)
    BY <1>2 DEF Freed, StillFound
<1> QED  BY <1>1, <1>2

-----------------------------------------------------------------------------
(* A tree of a unique index, seen against what the keys map to: every posting *)
(* is the only one of its key and lists one document, which has that key.     *)
SoleBut(i, tree, dat, but) ==
    \A v \in IndexKeys(i) :
        \/ tree[v] = <<>>
        \/ \E x \in Keys \ but :
            /\ tree[v] = <<<<x>>>>
            /\ dat[x] \notin {Absent, Tombstone} /\ IndexKey(i, dat[x]) = v
Sole(i, tree, dat) == SoleBut(i, tree, dat, {})

(* What is not refused finds no posting under its key, or its own. *)
LEMMA AddToSole ==
    ASSUME NEW i \in Unique, NEW tree \in Tree(i), NEW k \in Keys, NEW dat,
           dat[k] \in Documents, Sole(i, tree, dat), ~Refuses(i, tree, k, dat[k])
    PROVE  Sole(i, AddTo(i, tree, k, dat[k]), dat)
<1> DEFINE d == dat[k]
           v == IndexKey(i, d)
           new == AddTo(i, tree, k, d)
<1>1. CASE v = NoKey \/ Contains(Find(tree, v), k)
    BY <1>1 DEF AddTo
<1>2. CASE v # NoKey /\ ~Contains(Find(tree, v), k)
  <2>1. v \in IndexKeys(i)
      BY <1>2, KeyOfDocument
  <2>2. Find(tree, v) = <<>> /\ tree[v] = <<>>
      BY <1>2, <2>1, FoundPosting DEF Refuses
  <2>3. Append(Find(tree, v), k) = <<k>>
      BY <2>2
  <2>4. <<k>> \in Listing \ {<<>>}
    <3>1. <<k>> \in Seq(Keys) /\ <<k>> # <<>>  OBVIOUS
    <3>2. IsInjective(<<k>>)  BY DEF IsInjective
    <3> QED  BY <3>1, <3>2 DEF Listing
  <2>5. new = Insert(tree, v, <<k>>)
      BY <1>2, <2>3 DEF AddTo
  <2>6. /\ Insert(tree, v, <<k>>)[v] = <<<<k>>>>
        /\ \A w \in IndexKeys(i) : w # v => Insert(tree, v, <<k>>)[w] = tree[w]
    <3> HIDE DEF v, d
    <3> QED  BY <2>1, <2>2, <2>4, InsertFinds
  <2>7. d \notin {Absent, Tombstone}
      BY CollectionAssumption
  <2> HIDE DEF new, v
  <2>8. Sole(i, new, dat)
      BY <2>5, <2>6, <2>7 DEF Sole, SoleBut, v
  <2> QED  BY <2>8 DEF new
<1> QED  BY <1>1, <1>2

(* What a document is removed from lists it no more, under no key. *)
LEMMA RemoveFromSole ==
    ASSUME NEW i, NEW tree \in Tree(i), NEW k \in Keys, NEW dat,
           dat[k] \in Documents, Sole(i, tree, dat)
    PROVE  SoleBut(i, RemoveFrom(i, tree, k, dat[k]), dat, {k})
<1> DEFINE d == dat[k]
           v == IndexKey(i, d)
           new == RemoveFrom(i, tree, k, d)
<1>1. \A w \in IndexKeys(i) :
        \/ tree[w] = <<>>
        \/ \E x \in Keys :
            /\ tree[w] = <<<<x>>>> /\ Find(tree, w) = <<x>>
            /\ dat[x] \notin {Absent, Tombstone} /\ IndexKey(i, dat[x]) = w
    BY DEF Sole, SoleBut, Find
<1>2. CASE v = NoKey \/ ~Contains(Find(tree, v), k)
  <2>1. new = tree
      BY <1>2 DEF RemoveFrom
  <2>2. NoKey \notin IndexKeys(i) /\ Contains(<<k>>, k)
      BY DEF IndexKeys, Contains
  <2> HIDE DEF new
  <2>3. SoleBut(i, new, dat, {k})
      BY <1>1, <1>2, <2>1, <2>2 DEF SoleBut
  <2> QED  BY <2>3 DEF new
<1>3. CASE v # NoKey /\ Contains(Find(tree, v), k)
  <2>1. v \in IndexKeys(i)
      BY <1>3, KeyOfDocument
  <2>2. tree[v] # <<>>
    <3>1. ~Contains(<<>>, k)  BY DEF Contains
    <3> QED  BY <1>3, <3>1 DEF Find
  <2>3. tree[v] = <<<<k>>>> /\ Find(tree, v) = <<k>>
    <3>1. PICK x \in Keys : tree[v] = <<<<x>>>> /\ Find(tree, v) = <<x>>
        BY <1>1, <2>1, <2>2
    <3>2. x = k
        BY <1>3, <3>1 DEF Contains
    <3> QED  BY <3>1, <3>2
  <2>4. Without(Find(tree, v), k) = <<>>
    <3> DEFINE rest == Without(Find(tree, v), k)
    <3>1. rest \in Listing /\ \A x : Contains(rest, x) <=> Contains(<<k>>, x) /\ x # k
        BY <2>1, <2>3, FoundPosting, WithoutListing
    <3> HIDE DEF rest
    <3>2. \A x : ~Contains(rest, x)
        BY <3>1 DEF Contains
    <3>3. rest \in Seq(Keys)
        BY <3>1 DEF Listing
    <3>4. rest = <<>>
        BY <3>2, <3>3 DEF Contains
    <3> QED  BY <3>4 DEF rest
  <2>5. new = Erase(tree, v)
      BY <1>3, <2>4 DEF RemoveFrom
  <2>6. Erase(tree, v)[v] = <<>> /\ \A w \in IndexKeys(i) : w # v => Erase(tree, v)[w] = tree[w]
    <3>1. Tail(tree[v]) = <<>>  BY <2>3
    <3> HIDE DEF v
    <3> QED  BY <2>1, <2>2, <3>1, EraseKeeps
  <2> HIDE DEF new
  <2>7. SoleBut(i, new, dat, {k})
      BY <1>1, <2>5, <2>6 DEF SoleBut
  <2> QED  BY <2>7 DEF new
<1> QED  BY <1>2, <1>3

(* No other unique index comes by name after it. *)
LastUnique(i) == i \in Unique /\ \A j \in Unique : Place(j) <= Place(i)

LEMMA PlaceIsNat ==
    ASSUME NEW i \in Indexes
    PROVE  Place(i) \in Nat
<1>1. \E n \in DOMAIN IndexOrder : IndexOrder[n] = i
    BY CollectionAssumption DEF Range
<1>2. Place(i) \in DOMAIN IndexOrder
    BY <1>1 DEF Place
<1>3. DOMAIN IndexOrder = 1..Len(IndexOrder) /\ Len(IndexOrder) \in Nat
    BY CollectionAssumption
<1> QED  BY <1>2, <1>3

(* The last unique index is reached only by a document that no index refuses. *)
LEMMA LastReached ==
    ASSUME NEW ts, TreesOK(ts), NEW i \in DOMAIN ts, LastUnique(i), NEW k, NEW d
    PROVE  Reached(ts, i, k, d) => ~Refuses(i, ts[i], k, d)
<1>1. i \in Indexes
    BY DEF TreesOK
<1>2. ~(Place(i) < Place(i))
    BY <1>1, PlaceIsNat
<1> QED  BY <1>2 DEF Reached

LEMMA UpdateSole ==
    ASSUME NEW ts, TreesOK(ts), NEW i \in DOMAIN ts, LastUnique(i), NEW k \in Keys, NEW dat,
           dat[k] \in Documents, Sole(i, ts[i], dat)
    PROVE  Sole(i, UpdateIndexes(ts, k, dat[k])[i], dat)
<1>1. ts[i] \in Tree(i) /\ i \in Unique
    BY DEF TreesOK, LastUnique
<1>2. UpdateIndexes(ts, k, dat[k])[i]
        = IF Reached(ts, i, k, dat[k]) THEN AddTo(i, ts[i], k, dat[k]) ELSE ts[i]
    BY DEF UpdateIndexes
<1>3. CASE Reached(ts, i, k, dat[k])
  <2>1. ~Refuses(i, ts[i], k, dat[k])
      BY <1>3, LastReached
  <2>2. Sole(i, AddTo(i, ts[i], k, dat[k]), dat)
      BY <1>1, <2>1, AddToSole
  <2> QED  BY <1>2, <1>3, <2>2
<1>4. CASE ~Reached(ts, i, k, dat[k])
    BY <1>2, <1>4
<1> QED  BY <1>3, <1>4

(* A document that is refused does not reach it, whichever index refuses. *)
LEMMA RefusedStops ==
    ASSUME NEW ts, TreesOK(ts), NEW i \in DOMAIN ts, LastUnique(i), NEW k, NEW d,
           SomeRefuses(ts, k, d)
    PROVE  UpdateIndexes(ts, k, d)[i] = ts[i]
<1>1. PICK j \in DOMAIN ts : Refuses(j, ts[j], k, d)
    BY DEF SomeRefuses
<1>2. j \in Unique /\ i \in Indexes /\ j \in Indexes
    BY <1>1 DEF Refuses, TreesOK
<1>3. ~(Place(i) < Place(j))
    BY <1>2, PlaceIsNat DEF LastUnique
<1>4. ~Reached(ts, i, k, d)
    BY <1>1, <1>3 DEF Reached
<1> QED  BY <1>4 DEF UpdateIndexes

-----------------------------------------------------------------------------
(* The bulk load, key by key: what was found stays found, every document of  *)
(* the keys passed is found if nothing can be refused, and the last unique   *)
(* index stays sound.                                                        *)
LEMMA LoadKeeps ==
    ASSUME DataOK, NEW ts, TreesOK(ts)
    PROVE  /\ TreesOK(LoadAll(ts)) /\ DOMAIN LoadAll(ts) = DOMAIN ts
           /\ \A i \in DOMAIN ts : \A v \in IndexKeys(i) : \A x :
                Finds(ts[i], v, x) => Finds(LoadAll(ts)[i], v, x)
           /\ DOMAIN ts \cap Unique = {} =>
                \A k \in Keys : Live(k) => InAll(LoadAll(ts), k, data[k])
           /\ \A i \in DOMAIN ts :
                LastUnique(i) /\ Sole(i, ts[i], data) => Sole(i, LoadAll(ts)[i], data)
<1> DEFINE N == Len(KeyOrder)
           L == Loaded(ts)
           Stay(n) == \A i \in DOMAIN ts : \A v \in IndexKeys(i) : \A x :
                         Finds(ts[i], v, x) => Finds(L[n][i], v, x)
           All(n) == DOMAIN ts \cap Unique = {} =>
                        \A m \in 1..n : Live(KeyOrder[m]) =>
                            InAll(L[n], KeyOrder[m], data[KeyOrder[m]])
           Sound(n) == \A i \in DOMAIN ts :
                          LastUnique(i) /\ Sole(i, ts[i], data) => Sole(i, L[n][i], data)
           Good(n) == /\ TreesOK(L[n]) /\ DOMAIN L[n] = DOMAIN ts
                      /\ Stay(n) /\ All(n) /\ Sound(n)
           G == {n \in 0..N : Good(n)}
<1>1. /\ N \in Nat /\ KeyOrder \in Seq(Keys)
      /\ \A n \in 1..N : KeyOrder[n] \in Keys
      /\ \A k \in Keys : \E n \in 1..N : KeyOrder[n] = k
    BY CollectionAssumption DEF Range
<1>2. /\ L[0] = ts
      /\ \A n \in 1..N :
            L[n] = IF Live(KeyOrder[n])
                   THEN UpdateIndexes(L[n - 1], KeyOrder[n], data[KeyOrder[n]])
                   ELSE L[n - 1]
  <2>1. L = [n \in 0..N |->
                IF n = 0 THEN ts
                ELSE IF Live(KeyOrder[n])
                THEN UpdateIndexes(L[n - 1], KeyOrder[n], data[KeyOrder[n]])
                ELSE L[n - 1]]
      BY <1>1, LoadedUnfolds, Zenon
  <2> HIDE DEF L
  <2>2. 0 \in 0..N /\ \A n \in 1..N : n \in 0..N /\ n # 0  BY <1>1
  <2> QED  BY <2>1, <2>2, Zenon
<1> HIDE DEF L, N
<1>3. Good(0)
    BY <1>1, <1>2
<1>4. ASSUME NEW n \in 1..N, Good(n - 1) PROVE Good(n)
  <2> DEFINE k == KeyOrder[n]
             d == data[k]
             us == L[n - 1]
  <2>1. k \in Keys /\ n - 1 \in Nat /\ \A m \in 1..n : m = n \/ m \in 1..(n - 1)
      BY <1>1
  <2>2. TreesOK(us) /\ DOMAIN us = DOMAIN ts /\ Stay(n - 1) /\ All(n - 1) /\ Sound(n - 1)
      BY <1>4
  <2>3. CASE ~Live(k)
      BY <1>2, <2>1, <2>2, <2>3
  <2>4. CASE Live(k)
    <3>1. d \in Documents
        BY <2>1, <2>4 DEF Live, DataOK
    <3>2. L[n] = UpdateIndexes(us, k, d)
        BY <1>2, <2>4
    <3> HIDE DEF k, d, us
    <3>3. /\ TreesOK(L[n]) /\ DOMAIN L[n] = DOMAIN ts
          /\ \A i \in DOMAIN ts : \A v \in IndexKeys(i) : \A x :
                Finds(us[i], v, x) => Finds(L[n][i], v, x)
          /\ ~SomeRefuses(us, k, d) => InAll(L[n], k, d)
        BY <2>1, <2>2, <3>1, <3>2, UpdateKeeps
    <3>4. Stay(n)
        BY <2>2, <3>3 DEF us
    <3>5. All(n)
      <4> SUFFICES ASSUME DOMAIN ts \cap Unique = {}, NEW m \in 1..n, Live(KeyOrder[m])
                   PROVE  InAll(L[n], KeyOrder[m], data[KeyOrder[m]])
          OBVIOUS
      <4>1. CASE m = n
        <5>1. ~SomeRefuses(us, k, d)
            BY <2>2, PlainAccepts
        <5> QED  BY <3>3, <4>1, <5>1 DEF k, d
      <4>2. CASE m \in 1..(n - 1)
        <5> DEFINE q == KeyOrder[m]
                   e == data[q]
        <5>1. InAll(us, q, e)
            BY <2>2, <4>2 DEF us
        <5>2. q \in Keys /\ e \in Documents
            BY <1>1, <4>2 DEF Live, DataOK
        <5> HIDE DEF q, e
        <5>3. InAll(L[n], q, e)
            BY <2>2, <3>3, <5>1, <5>2, KeyOfDocument DEF InAll
        <5> QED  BY <5>3 DEF q, e
      <4> QED  BY <2>1, <4>1, <4>2
    <3>6. Sound(n)
      <4> SUFFICES ASSUME NEW i \in DOMAIN ts, LastUnique(i), Sole(i, ts[i], data)
                   PROVE  Sole(i, L[n][i], data)
          OBVIOUS
      <4>1. Sole(i, us[i], data)
          BY <2>2 DEF us
      <4>2. Sole(i, UpdateIndexes(us, k, data[k])[i], data)
          BY <2>1, <2>2, <3>1, <4>1, UpdateSole DEF d
      <4> QED  BY <3>2, <4>2 DEF d
    <3> QED  BY <3>3, <3>4, <3>5, <3>6
  <2> QED  BY <2>3, <2>4
<1>5. Good(N)
  <2>1. 0 \in G
      BY <1>1, <1>3
  <2>2. ASSUME NEW n \in 1..N, n - 1 \in G PROVE n \in G
    <3>1. Good(n - 1)  BY <2>2, Zenon
    <3>2. Good(n)  BY <1>4, <3>1
    <3>3. n \in 0..N  BY <1>1
    <3> QED  BY <3>2, <3>3, Zenon
  <2>3. N \in G
    <3> HIDE DEF G
    <3>1. \A n \in 0..N : n \in G  BY <1>1, <2>1, <2>2, UpTo
    <3> QED  BY <1>1, <3>1
  <2> QED  BY <2>3, Zenon
<1>6. LoadAll(ts) = L[N]
    BY DEF LoadAll, L, N
<1>7. DOMAIN ts \cap Unique = {} => \A k \in Keys : Live(k) => InAll(L[N], k, data[k])
    BY <1>1, <1>5
<1> QED  BY <1>5, <1>6, <1>7

-----------------------------------------------------------------------------
(* The invariant: trees of postings without repetitions; with no unique index *)
(* every document is found in every index; the last unique index is sound.    *)

Covered ==
    DOMAIN trees \cap Unique = {} => \A k \in Keys : Live(k) => InAll(trees, k, data[k])

LastSound == \A i \in DOMAIN trees : LastUnique(i) => Sole(i, trees[i], data)

IndexInv ==
    /\ DataOK
    /\ TreesOK(trees)
    /\ up \in BOOLEAN
    /\ Covered
    /\ LastSound

LEMMA InitIndex == Init => IndexInv
    BY DEF Init, IndexInv, DataOK, TreesOK, Covered, LastSound, InAll

(* Of what Freed leaves, no stack of the last unique index lists the key. *)
LEMMA FreedSole ==
    ASSUME IndexInv, NEW k \in Keys, NEW i \in DOMAIN trees, LastUnique(i)
    PROVE  SoleBut(i, Freed(k)[i], data, {k})
<1>1. Sole(i, trees[i], data) /\ trees[i] \in Tree(i)
    BY DEF IndexInv, LastSound, TreesOK
<1>2. CASE Live(k)
  <2>1. data[k] \in Documents
      BY <1>2 DEF Live, IndexInv, DataOK
  <2>2. Freed(k)[i] = RemoveFrom(i, trees[i], k, data[k])
      BY <1>2 DEF Freed, RemoveFromIndexes
  <2> QED  BY <1>1, <2>1, <2>2, RemoveFromSole
<1>3. CASE ~Live(k)
    BY <1>1, <1>3 DEF Freed, Sole, SoleBut, Live
<1> QED  BY <1>2, <1>3

LEMMA PutKeeps ==
    ASSUME IndexInv, NEW k \in Keys, NEW d \in Documents, Put(k, d)
    PROVE  IndexInv'
<1> DEFINE ts == Freed(k)
<1>1. /\ DataOK /\ TreesOK(ts) /\ DOMAIN ts = DOMAIN trees
      /\ StillFound(trees, ts, k)
    BY FreedKeeps DEF IndexInv
<1>2. /\ data' = [data EXCEPT ![k] = d] /\ trees' = UpdateIndexes(ts, k, d)
      /\ ~SomeRefuses(ts, k, d) /\ up' = up
    BY DEF Put
<1> HIDE DEF ts
<1>3. /\ data'[k] = d /\ \A q \in Keys : q # k => data'[q] = data[q]
      /\ d \notin {Absent, Tombstone}
    BY <1>1, <1>2, CollectionAssumption DEF DataOK
<1>4. DataOK' /\ (up \in BOOLEAN)'
    BY <1>1, <1>2 DEF DataOK, IndexInv
<1>5. /\ TreesOK(trees') /\ DOMAIN trees' = DOMAIN trees
      /\ \A i \in DOMAIN ts : \A v \in IndexKeys(i) : \A x :
            Finds(ts[i], v, x) => Finds(trees'[i], v, x)
      /\ InAll(trees', k, d)
    BY <1>1, <1>2, UpdateKeeps
<1>6. Covered'
  <2> SUFFICES ASSUME DOMAIN trees \cap Unique = {}, NEW q \in Keys, Live(q)'
               PROVE  InAll(trees', q, data'[q])
      BY <1>5 DEF Covered
  <2>1. CASE q = k
      BY <1>3, <1>5, <2>1
  <2>2. CASE q # k
    <3>1. Live(q) /\ data'[q] = data[q] /\ data[q] \in Documents
        BY <1>1, <1>3, <2>2 DEF Live, DataOK
    <3>2. InAll(trees, q, data[q])
        BY <3>1 DEF IndexInv, Covered
    <3>3. InAll(trees', q, data[q])
        BY <1>1, <1>5, <2>2, <3>1, <3>2, KeyOfDocument DEF InAll, StillFound
    <3> QED  BY <3>1, <3>3
  <2> QED  BY <2>1, <2>2
<1>7. LastSound'
  <2> SUFFICES ASSUME NEW i \in DOMAIN trees, LastUnique(i)
               PROVE  Sole(i, trees'[i], data')
      BY <1>5 DEF LastSound, LastUnique
  <2>1. SoleBut(i, ts[i], data, {k})
      BY FreedSole DEF ts
  <2>2. Sole(i, ts[i], data')
      BY <1>3, <2>1 DEF Sole, SoleBut
  <2>3. data'[k] \in Documents
      BY <1>3
  <2>4. Sole(i, UpdateIndexes(ts, k, data'[k])[i], data')
      BY <1>1, <2>2, <2>3, UpdateSole
  <2> QED  BY <1>2, <1>3, <2>4
<1> QED  BY <1>4, <1>5, <1>6, <1>7 DEF IndexInv, TreesOK

LEMMA PutRefusedKeeps ==
    ASSUME IndexInv, NEW k \in Keys, NEW d \in Documents, PutRefused(k, d)
    PROVE  IndexInv'
<1> DEFINE ts == Freed(k)
<1>1. /\ DataOK /\ TreesOK(ts) /\ DOMAIN ts = DOMAIN trees
      /\ StillFound(trees, ts, k)
    BY FreedKeeps DEF IndexInv
<1>2. /\ data' = data /\ trees' = UpdateIndexes(ts, k, d)
      /\ SomeRefuses(ts, k, d) /\ up' = up
    BY DEF PutRefused
<1> HIDE DEF ts
<1>3. TreesOK(trees') /\ DOMAIN trees' = DOMAIN trees
    BY <1>1, <1>2, UpdateKeeps
<1>4. DataOK' /\ (up \in BOOLEAN)'
    BY <1>1, <1>2 DEF DataOK, IndexInv
<1>5. Covered'
    BY <1>1, <1>2, <1>3, PlainAccepts DEF Covered
<1>6. LastSound'
  <2> SUFFICES ASSUME NEW i \in DOMAIN trees, LastUnique(i)
               PROVE  Sole(i, trees'[i], data)
      BY <1>2, <1>3 DEF LastSound, LastUnique
  <2>1. SoleBut(i, ts[i], data, {k})
      BY FreedSole DEF ts
  <2>2. trees'[i] = ts[i]
      BY <1>1, <1>2, RefusedStops
  <2> QED  BY <2>1, <2>2 DEF Sole, SoleBut
<1> QED  BY <1>3, <1>4, <1>5, <1>6 DEF IndexInv, TreesOK

LEMMA DelKeeps ==
    ASSUME IndexInv, NEW k \in Keys, Del(k)
    PROVE  IndexInv'
<1>1. /\ DataOK /\ TreesOK(Freed(k)) /\ DOMAIN Freed(k) = DOMAIN trees
      /\ StillFound(trees, Freed(k), k)
    BY FreedKeeps DEF IndexInv
<1>2. /\ data' = [data EXCEPT ![k] = Tombstone] /\ trees' = Freed(k) /\ up' = up
    BY DEF Del, Freed
<1>3. data'[k] = Tombstone /\ \A q \in Keys : q # k => data'[q] = data[q]
    BY <1>1, <1>2 DEF DataOK
<1>4. DataOK' /\ (up \in BOOLEAN)'
    BY <1>1, <1>2 DEF DataOK, IndexInv
<1>5. Covered'
  <2> SUFFICES ASSUME DOMAIN trees \cap Unique = {}, NEW q \in Keys, Live(q)'
               PROVE  InAll(trees', q, data'[q])
      BY <1>1, <1>2 DEF Covered
  <2>1. q # k /\ Live(q) /\ data'[q] = data[q] /\ data[q] \in Documents
      BY <1>1, <1>3 DEF Live, DataOK
  <2>2. InAll(trees, q, data[q])
      BY <2>1 DEF IndexInv, Covered
  <2>3. InAll(trees', q, data[q])
      BY <1>1, <1>2, <2>1, <2>2, KeyOfDocument DEF InAll, StillFound
  <2> QED  BY <2>1, <2>3
<1>6. LastSound'
  <2> SUFFICES ASSUME NEW i \in DOMAIN trees, LastUnique(i)
               PROVE  Sole(i, Freed(k)[i], data')
      BY <1>1, <1>2 DEF LastSound, LastUnique
  <2>1. SoleBut(i, Freed(k)[i], data, {k})
      BY FreedSole
  <2> QED  BY <1>3, <2>1 DEF Sole, SoleBut
<1> QED  BY <1>1, <1>2, <1>4, <1>5, <1>6 DEF IndexInv, TreesOK

(* An index is added with nothing in it, and the others stay as they are. *)
LEMMA WithIndexKeeps ==
    ASSUME IndexInv, NEW i \in Indexes
    PROVE  /\ TreesOK(WithIndex(i)) /\ DOMAIN WithIndex(i) = DOMAIN trees \cup {i}
           /\ \A j \in DOMAIN trees : WithIndex(i)[j] = trees[j]
           /\ \A j \in DOMAIN WithIndex(i) :
                LastUnique(j) => Sole(j, WithIndex(i)[j], data)
<1> DEFINE new == [v \in IndexKeys(i) |-> <<>>]
<1>1. new \in Tree(i)
    BY DEF Tree
<1>2. \A v \in IndexKeys(i) : new[v] = <<>>
    OBVIOUS
<1> HIDE DEF new
<1>3. /\ DOMAIN WithIndex(i) = DOMAIN trees \cup {i}
      /\ \A j \in DOMAIN trees : WithIndex(i)[j] = trees[j]
      /\ i \notin DOMAIN trees => WithIndex(i)[i] = new
    BY DEF WithIndex, new
<1>4. TreesOK(WithIndex(i))
    BY <1>1, <1>3 DEF IndexInv, TreesOK
<1>5. Sole(i, new, data)
    BY <1>2 DEF Sole, SoleBut
<1>6. \A j \in DOMAIN WithIndex(i) : LastUnique(j) => Sole(j, WithIndex(i)[j], data)
    BY <1>3, <1>5 DEF IndexInv, LastSound
<1> QED  BY <1>3, <1>4, <1>6

LEMMA CreateIndexKeeps ==
    ASSUME IndexInv, NEW i \in Indexes, CreateIndex(i)
    PROVE  IndexInv'
<1> DEFINE ts == WithIndex(i)
<1>1. /\ TreesOK(ts) /\ \A j \in DOMAIN ts : LastUnique(j) => Sole(j, ts[j], data)
    BY WithIndexKeeps
<1>2. data' = data /\ trees' = LoadAll(ts) /\ up' = up
    BY DEF CreateIndex
<1> HIDE DEF ts
<1>3. /\ TreesOK(trees') /\ DOMAIN trees' = DOMAIN ts
      /\ DOMAIN ts \cap Unique = {} => \A k \in Keys : Live(k) => InAll(trees', k, data[k])
      /\ \A j \in DOMAIN ts : LastUnique(j) => Sole(j, trees'[j], data)
    BY <1>1, <1>2, LoadKeeps DEF IndexInv
<1>4. DataOK' /\ (up \in BOOLEAN)'
    BY <1>2 DEF DataOK, IndexInv
<1>5. Covered'
    BY <1>2, <1>3 DEF Covered, Live
<1>6. LastSound'
    BY <1>2, <1>3 DEF LastSound, LastUnique
<1> QED  BY <1>3, <1>4, <1>5, <1>6 DEF IndexInv, TreesOK

LEMMA StayKeeps ==
    ASSUME IndexInv, UNCHANGED <<data, trees>>, up' \in BOOLEAN
    PROVE  IndexInv'
    BY DEF IndexInv, DataOK, TreesOK, Covered, Live, LastSound

LEMMA NextKeeps == IndexInv /\ [Next]_vars => IndexInv'
<1> SUFFICES ASSUME IndexInv, [Next]_vars PROVE IndexInv'
    OBVIOUS
<1>1. CASE UNCHANGED vars
  <2>1. UNCHANGED <<data, trees>> /\ up' \in BOOLEAN  BY <1>1 DEF vars, IndexInv
  <2> QED  BY <2>1, StayKeeps
<1>2. ASSUME NEW i \in Indexes, NEW v \in IndexKeys(i), Select(i, v) PROVE IndexInv'
  <2>1. UNCHANGED <<data, trees>> /\ up' \in BOOLEAN  BY <1>2 DEF Select
  <2> QED  BY <2>1, StayKeeps
<1>3. CASE Next
    BY <1>2, <1>3, PutKeeps, PutRefusedKeeps, DelKeeps, CreateIndexKeeps DEF Next
<1> QED  BY <1>1, <1>3

LEMMA IndexInvariant == Spec => []IndexInv
    BY InitIndex, NextKeeps, PTL DEF Spec

-----------------------------------------------------------------------------
(* Keys map to documents or to nothing, and every index has for each key a  *)
(* stack of postings, none of them empty: the types of what Collection and  *)
(* Indexer keep.                                                            *)
THEOREM CollectionTypeCorrect == Spec => []TypeOK
<1>1. IndexInv => TypeOK
  <2> SUFFICES ASSUME IndexInv PROVE TypeOK
      OBVIOUS
  <2>1. Listing \ {<<>>} \subseteq Seq(Keys) \ {<<>>}
      BY DEF Listing
  <2>2. Seq(Listing \ {<<>>}) \subseteq Seq(Seq(Keys) \ {<<>>})
      BY <2>1
  <2> QED  BY <2>2 DEF IndexInv, DataOK, TreesOK, Tree, TypeOK
<1> QED  BY IndexInvariant, <1>1, PTL

(* As long as there is no unique index, a SELECT through an index answers    *)
(* every document a scan would find, each once, whatever was written,        *)
(* overwritten and deleted before or after the index was created or created  *)
(* again (Collection::put, del and create_index, and the indexer's loops).   *)
THEOREM IndexesAnswerAsScan == Spec => []IndexAnswersAsScan
<1>1. IndexInv => IndexAnswersAsScan
  <2> SUFFICES ASSUME IndexInv, DOMAIN trees \cap Unique = {}, NEW i \in DOMAIN trees,
                      NEW v \in IndexKeys(i), NEW k \in ByScan(i, v)
               PROVE  \E n \in ThroughIndex(i, v) :
                        /\ Find(trees[i], v)[n] = k
                        /\ \A m \in ThroughIndex(i, v) : Find(trees[i], v)[m] = k => m = n
      BY DEF IndexAnswersAsScan
  <2> DEFINE p == Find(trees[i], v)
  <2>1. k \in Keys /\ Live(k) /\ IndexKey(i, data[k]) = v /\ v # NoKey
      BY DEF ByScan, Matches, IndexKeys
  <2>2. Finds(trees[i], v, k)
      BY <2>1 DEF IndexInv, Covered, InAll
  <2>3. trees[i] \in Tree(i)
      BY DEF IndexInv, TreesOK
  <2>4. p \in Listing
      BY <2>3, FoundPosting
  <2>5. DOMAIN p = 1..Len(p) /\ \A m, n \in DOMAIN p : p[m] = p[n] => m = n
      BY <2>4 DEF Listing, IsInjective
  <2>6. PICK n \in DOMAIN p : p[n] = k
      BY <2>2, <2>5 DEF Finds, Contains
  <2>7. Matches(p[n], i, v)
      BY <2>1, <2>6 DEF Matches
  <2> HIDE DEF p
  <2>8. ThroughIndex(i, v) = {m \in DOMAIN p : Matches(p[m], i, v)}
      BY DEF ThroughIndex, p
  <2>9. n \in ThroughIndex(i, v) /\ \A m \in ThroughIndex(i, v) : p[m] = k => m = n
      BY <2>5, <2>6, <2>7, <2>8
  <2> QED  BY <2>6, <2>9 DEF p
<1> QED  BY IndexInvariant, <1>1, PTL

(* The last unique index by name lists for each key at most one document,    *)
(* one that is there and has that key: it never refuses a document for the   *)
(* sake of one that was overwritten, deleted or itself refused.              *)
THEOREM LastUniqueIndexIsSound == Spec => []UniqueIndexSound
<1>1. IndexInv => UniqueIndexSound
    BY DEF IndexInv, LastSound, LastUnique, Sole, SoleBut, UniqueIndexSound, Matches, Live
<1> QED  BY IndexInvariant, <1>1, PTL

-----------------------------------------------------------------------------
(* One step does not take a document that it leaves alone out of an index. *)
LEMMA StepLeavesFound ==
    ASSUME IndexInv, Next, NEW i \in DOMAIN trees, NEW k \in Keys,
           Live(k), FoundIn(i, k), data'[k] = data[k]
    PROVE  FoundIn(i, k)' \/ \E d \in Documents : PutRefused(k, d)
<1> DEFINE v == IndexKey(i, data[k])
<1>1. /\ DataOK /\ TreesOK(trees) /\ data[k] \in Documents /\ data[k] # Tombstone
      /\ v # NoKey /\ v \in IndexKeys(i) /\ Finds(trees[i], v, k)
    BY KeyOfDocument DEF IndexInv, Live, DataOK, FoundIn, Finds
<1>2. SUFFICES ASSUME ~\E d \in Documents : PutRefused(k, d)
               PROVE  Finds(trees'[i], v, k)
    BY <1>1 DEF FoundIn, Finds
<1>3. ASSUME NEW q \in Keys, NEW d \in Documents, Put(q, d) \/ PutRefused(q, d)
      PROVE  Finds(trees'[i], v, k)
  <2>1. trees' = UpdateIndexes(Freed(q), q, d)
      BY <1>3 DEF Put, PutRefused
  <2>2. /\ TreesOK(Freed(q)) /\ DOMAIN Freed(q) = DOMAIN trees
        /\ StillFound(trees, Freed(q), q)
      BY <1>1, FreedKeeps
  <2>3. CASE q # k
    <3>1. Finds(Freed(q)[i], v, k)
        BY <1>1, <2>2, <2>3 DEF StillFound
    <3> HIDE DEF v
    <3> QED  BY <1>1, <2>1, <2>2, <3>1, UpdateKeeps
  <2>4. CASE q = k
    <3>1. Put(k, d)
        BY <1>2, <1>3, <2>4
    <3>2. d = data[k] /\ ~SomeRefuses(Freed(k), k, d)
        BY <1>1, <3>1 DEF Put, DataOK
    <3>3. InAll(trees', k, d) /\ DOMAIN trees' = DOMAIN trees
        BY <2>1, <2>2, <2>4, <3>2, UpdateKeeps
    <3> QED  BY <1>1, <3>2, <3>3 DEF InAll
  <2> QED  BY <2>3, <2>4
<1>4. ASSUME NEW q \in Keys, Del(q)
      PROVE  Finds(trees'[i], v, k)
  <2>1. trees' = Freed(q) /\ q # k
      BY <1>1, <1>4 DEF Del, Freed, DataOK
  <2>2. StillFound(trees, Freed(q), q)
      BY <1>1, FreedKeeps
  <2> QED  BY <1>1, <2>1, <2>2 DEF StillFound
<1>5. ASSUME NEW j \in Indexes, CreateIndex(j)
      PROVE  Finds(trees'[i], v, k)
  <2>1. /\ TreesOK(WithIndex(j)) /\ i \in DOMAIN WithIndex(j) /\ WithIndex(j)[i] = trees[i]
      BY WithIndexKeeps
  <2>2. trees' = LoadAll(WithIndex(j))
      BY <1>5 DEF CreateIndex
  <2> HIDE DEF v
  <2> QED  BY <1>1, <2>1, <2>2, LoadKeeps
<1>6. ASSUME NEW j \in Indexes, NEW w, Select(j, w)
      PROVE  Finds(trees'[i], v, k)
    BY <1>1, <1>6 DEF Select
<1> QED  BY <1>3, <1>4, <1>5, <1>6 DEF Next

(* An operation on one document, done or refused, and the creation of an     *)
(* index leave every other document in the indexes that find it              *)
(* (update_indexes, remove_from_indexes).                                    *)
THEOREM OthersAreStillFound == Spec => OthersStayFound
<1>1. IndexInv /\ [Next]_vars =>
        [\A i \in DOMAIN trees : \A k \in Keys :
            Live(k) /\ FoundIn(i, k) /\ data'[k] = data[k] =>
                \/ FoundIn(i, k)'
                \/ \E d \in Documents : PutRefused(k, d)]_vars
    BY StepLeavesFound
<1> QED  BY IndexInvariant, <1>1, PTL DEF Spec, OthersStayFound
===============================================================================
