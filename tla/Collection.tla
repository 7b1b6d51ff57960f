----------------------------- MODULE Collection -----------------------------
(***************************************************************************)
(* A collection of the TissDB engine and its secondary indexes:            *)
(* src/tissdb/storage/collection.cpp and indexer.cpp, and the look-ups     *)
(* with which src/tissdb/query/executor_select.cpp answers a SELECT.       *)
(*                                                                         *)
(* An index maps the values a document has in the index's fields to a      *)
(* posting, the list of ids of the documents with those values.  The maps  *)
(* are B-trees whose insert never replaces an entry: a new entry goes in   *)
(* front of the older ones with the same key, find returns the one in      *)
(* front, and erase removes only that one.  What a tree holds for one key  *)
(* is therefore a stack.  This is exact as long as the tree is one leaf,   *)
(* that is for at most LeafCapacity entries.                               *)
(*                                                                         *)
(* The operations come one at a time; that request threads can run them at *)
(* the same time is the subject of LSMTree.                                *)
(***************************************************************************)
EXTENDS Naturals, FiniteSets, SequencesExt

CONSTANTS
    Keys,           \* the ids of documents
    KeyOrder,       \* the same, as a sequence in the order of std::map
    Documents,      \* functions from Fields to values
    Fields,
    Missing,        \* the value of a field that a document does not have
    Blank,          \* a value that get_composite_key writes as nothing
    Indexes,        \* the indexes that may be created
    IndexOrder,     \* the same, in the order of their names
    FieldsOf,       \* the fields of an index
    Unique,         \* the indexes created with is_unique
    MaxEntries,     \* bound on the entries of an index
    Absent,         \* a key that was never written
    Tombstone       \* a key whose document was deleted

(* 2 * Order - 1 entries, with the default Order of native_b_tree.h.       *)
LeafCapacity == 19

ASSUME CollectionAssumption ==
    /\ KeyOrder \in Seq(Keys) /\ Range(KeyOrder) = Keys /\ IsInjective(KeyOrder)
    /\ IndexOrder \in Seq(Indexes) /\ Range(IndexOrder) = Indexes
    /\ IsInjective(IndexOrder)
    /\ \A d \in Documents : DOMAIN d = Fields
    /\ FieldsOf \in [Indexes -> (SUBSET Fields) \ {{}}]
    /\ Unique \subseteq Indexes
    /\ {Absent, Tombstone} \cap Documents = {}
    /\ MaxEntries \in 1..LeafCapacity

VARIABLES
    data,           \* what a key maps to in the memtable
    trees,          \* for each index created, the stack of postings of each key
    up              \* the server has not crashed

vars == <<data, trees, up>>

-----------------------------------------------------------------------------

Live(k) == data[k] \notin {Absent, Tombstone}

NoKey == [f \in {} |-> Missing]

(* The key of a document in an index: none if a field is missing, nor if   *)
(* the only field is written as nothing (get_composite_key).               *)
IndexKey(i, d) ==
    LET fields == FieldsOf[i]
    IN  IF \/ \E f \in fields : d[f] = Missing
           \/ Cardinality(fields) = 1 /\ \A f \in fields : d[f] = Blank
        THEN NoKey
        ELSE [f \in fields |-> d[f]]

IndexKeys(i) == {IndexKey(i, d) : d \in Documents} \ {NoKey}

(* BTree::find, BTree::insert and BTree::erase on one leaf.                *)
Find(tree, v) == IF tree[v] = <<>> THEN <<>> ELSE Head(tree[v])
Insert(tree, v, posting) == [tree EXCEPT ![v] = <<posting>> \o @]
Erase(tree, v) == [tree EXCEPT ![v] = Tail(@)]

Entries(i, tree) ==
    FoldFunctionOnSet(LAMBDA stack, n : Len(stack) + n, 0, tree, IndexKeys(i))

(* update_indexes for one index.                                           *)
Refuses(i, tree, k, d) ==
    LET v == IndexKey(i, d)
    IN  /\ i \in Unique /\ v # NoKey
        /\ Find(tree, v) # <<>> /\ ~Contains(Find(tree, v), k)

(* Faulty variant of AddTo: the check for an id that is there is missing.  *)
AddToAgain(i, tree, k, d) ==
    LET v == IndexKey(i, d)
    IN  IF v = NoKey THEN tree ELSE Insert(tree, v, Append(Find(tree, v), k))

AddTo(i, tree, k, d) ==
    LET v == IndexKey(i, d)
    IN  IF v = NoKey \/ Contains(Find(tree, v), k)
        THEN tree
        ELSE Insert(tree, v, Append(Find(tree, v), k))

(* The ids that the loop of remove_from_indexes has kept of the first n.   *)
Kept(posting, k) ==
    LET kept[n \in 0..Len(posting)] ==
            IF n = 0 THEN <<>>
            ELSE IF posting[n] = k THEN kept[n - 1]
            ELSE Append(kept[n - 1], posting[n])
    IN  kept

Without(posting, k) == Kept(posting, k)[Len(posting)]

(* Faulty variant of RemoveFrom: the whole posting is erased.              *)
RemoveFromAll(i, tree, k, d) ==
    LET v == IndexKey(i, d)
    IN  IF v = NoKey \/ ~Contains(Find(tree, v), k) THEN tree ELSE Erase(tree, v)

(* Faulty variant of RemoveFrom: an empty posting is written.              *)
RemoveFromEmpty(i, tree, k, d) ==
    LET v == IndexKey(i, d)
    IN  IF v = NoKey \/ ~Contains(Find(tree, v), k) THEN tree
        ELSE Insert(tree, v, Without(Find(tree, v), k))

(* remove_from_indexes for one index.                                      *)
RemoveFrom(i, tree, k, d) ==
    LET v == IndexKey(i, d)
        rest == Without(Find(tree, v), k)
    IN  IF v = NoKey \/ ~Contains(Find(tree, v), k) THEN tree
        ELSE IF rest = <<>> THEN Erase(tree, v)
        ELSE Insert(tree, v, rest)

(* The place of an index among them by name. *)
Place(i) == CHOOSE n \in DOMAIN IndexOrder : IndexOrder[n] = i

(* An index that comes by name before every one that refuses the document. *)
Reached(ts, i, k, d) ==
    \A j \in DOMAIN ts :
        Refuses(j, ts[j], k, d) => Place(i) < Place(j)

(* update_indexes and remove_from_indexes go through the indexes by name;  *)
(* the first refuses by an exception, which leaves the rest as they were.  *)
UpdateIndexes(ts, k, d) ==
    [i \in DOMAIN ts |-> IF Reached(ts, i, k, d) THEN AddTo(i, ts[i], k, d) ELSE ts[i]]

RemoveFromIndexes(ts, k, d) ==
    [i \in DOMAIN ts |-> RemoveFrom(i, ts[i], k, d)]

SomeRefuses(ts, k, d) == \E i \in DOMAIN ts : Refuses(i, ts[i], k, d)

(* The bulk load of create_index: every index sees every document again,   *)
(* and a document that one of them refuses is logged and passed over.      *)
Loaded(ts) ==
    LET loaded[n \in 0..Len(KeyOrder)] ==
            IF n = 0 THEN ts
            ELSE IF Live(KeyOrder[n])
            THEN UpdateIndexes(loaded[n - 1], KeyOrder[n], data[KeyOrder[n]])
            ELSE loaded[n - 1]
    IN  loaded

LoadAll(ts) == Loaded(ts)[Len(KeyOrder)]

(* The indexes with i among them; one that is there already stays as it is. *)
WithIndex(i) ==
    [j \in DOMAIN trees \cup {i} |->
        IF j \in DOMAIN trees THEN trees[j] ELSE [v \in IndexKeys(i) |-> <<>>]]

Small(ts) == \A i \in DOMAIN ts : Entries(i, ts[i]) <= MaxEntries

-----------------------------------------------------------------------------

Init ==
    /\ data = [k \in Keys |-> Absent]
    /\ trees = [i \in {} |-> <<>>]
    /\ up = TRUE

(* Faulty variant of Freed: put forgets the document it overwrites.        *)
FreedNothing(k) == trees

(* What put leaves of the indexes before it adds the new document.         *)
Freed(k) == IF Live(k) THEN RemoveFromIndexes(trees, k, data[k]) ELSE trees

Put(k, d) ==
    /\ up
    /\ ~SomeRefuses(Freed(k), k, d)
    /\ data' = [data EXCEPT ![k] = d]
    /\ trees' = UpdateIndexes(Freed(k), k, d)
    /\ UNCHANGED up

(* update_indexes throws: the document of before stays in data, and the    *)
(* indexes stay as they are by then.                                       *)
PutRefused(k, d) ==
    /\ up
    /\ SomeRefuses(Freed(k), k, d)
    /\ trees' = UpdateIndexes(Freed(k), k, d)
    /\ UNCHANGED <<data, up>>

Del(k) ==
    /\ up
    /\ Live(k)
    /\ trees' = RemoveFromIndexes(trees, k, data[k])
    /\ data' = [data EXCEPT ![k] = Tombstone]
    /\ UNCHANGED up

CreateIndex(i) ==
    /\ up
    /\ trees' = LoadAll(WithIndex(i))
    /\ UNCHANGED <<data, up>>

(* A SELECT whose conditions fix the fields of an index: the ids found are *)
(* fetched one by one.  get answers a null pointer for a deleted document, *)
(* and the executor follows it.                                            *)
Select(i, v) ==
    /\ up
    /\ i \in DOMAIN trees
    /\ up' = \A k \in Range(Find(trees[i], v)) : data[k] # Tombstone
    /\ UNCHANGED <<data, trees>>

Next ==
    \/ /\ \/ \E k \in Keys, d \in Documents : Put(k, d) \/ PutRefused(k, d)
          \/ \E k \in Keys : Del(k)
          \/ \E i \in Indexes : CreateIndex(i)
       /\ Small(trees')
    \/ \E i \in Indexes : \E v \in IndexKeys(i) : Select(i, v)

Spec == Init /\ [][Next]_vars

-----------------------------------------------------------------------------

(* Every key maps to a document or to nothing, and every index has for     *)
(* each key a stack of postings, none of them empty: remove_from_indexes   *)
(* erases an entry rather than write an empty one.                         *)
TypeOK ==
    /\ data \in [Keys -> Documents \cup {Absent, Tombstone}]
    /\ DOMAIN trees \subseteq Indexes
    /\ \A i \in DOMAIN trees :
        /\ DOMAIN trees[i] = IndexKeys(i)
        /\ \A v \in IndexKeys(i) : trees[i][v] \in Seq(Seq(Keys) \ {<<>>})
    /\ up \in BOOLEAN

Matches(k, i, v) == Live(k) /\ IndexKey(i, data[k]) = v

(* What a SELECT answers by a scan, and through an index: the documents    *)
(* fetched that match, at their places in the posting.                     *)
ByScan(i, v) == {k \in Keys : Matches(k, i, v)}
ThroughIndex(i, v) ==
    {n \in DOMAIN Find(trees[i], v) : Matches(Find(trees[i], v)[n], i, v)}

(* As long as no unique index is there to refuse anything, a SELECT that   *)
(* uses an index answers every document a scan would find, and each once.  *)
(* The index may be created before or after the documents, and again.      *)
IndexAnswersAsScan ==
    DOMAIN trees \cap Unique = {} =>
        \A i \in DOMAIN trees : \A v \in IndexKeys(i) :
            \A k \in ByScan(i, v) : \E n \in ThroughIndex(i, v) :
                /\ Find(trees[i], v)[n] = k
                /\ \A m \in ThroughIndex(i, v) : Find(trees[i], v)[m] = k => m = n

(* A unique index with no other unique one behind it has for each key at   *)
(* most one entry, of one document, which is there and has that key: it    *)
(* never refuses a document for the sake of one that is gone.              *)
UniqueIndexSound ==
    \A i \in DOMAIN trees \cap Unique :
        (\A j \in Unique : Place(j) <= Place(i)) =>
            \A v \in IndexKeys(i) :
                \/ trees[i][v] = <<>>
                \/ \E k \in Keys : trees[i][v] = <<<<k>>>> /\ Matches(k, i, v)

FoundIn(i, k) ==
    LET v == IndexKey(i, data[k])
    IN  v # NoKey /\ Contains(Find(trees[i], v), k)

(* An operation on one document, done or refused, and the creation of an   *)
(* index never take another document out of an index: what was found       *)
(* before and has not been written is found after.                         *)
OthersStayFound ==
    [][\A i \in DOMAIN trees : \A k \in Keys :
            Live(k) /\ FoundIn(i, k) /\ data'[k] = data[k] =>
                \/ FoundIn(i, k)'
                \/ \E d \in Documents : PutRefused(k, d)]_vars

(* No index finds a document that was deleted: remove_from_indexes has     *)
(* taken it out, as its test asserts.                                      *)
DeletedNotFound ==
    \A i \in DOMAIN trees : \A v \in IndexKeys(i) :
        \A k \in Range(Find(trees[i], v)) : data[k] # Tombstone
=============================================================================
