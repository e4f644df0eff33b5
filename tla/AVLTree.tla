------------------------------ MODULE AVLTree ------------------------------
(***************************************************************************)
(* The ordered registry of retired addresses: the AVL tree of              *)
(* src/forkscan-changed/avl.c.                                             *)
(*                                                                         *)
(* A tree is a value: Nil, or a node record with the fields of avl_node_t  *)
(* (key, height, marked, left, right).  The recursive helpers of avl.c     *)
(* that return the new root of a subtree (insert_node, right_rotate,       *)
(* left_rotate) become recursive operators returning the new subtree, so   *)
(* each public call (avl_insert, avl_mark, ...) is one atomic action, as   *)
(* the registry is single-threaded.  The stored height field is kept and   *)
(* updated exactly where the code updates it, so a stale height is         *)
(* visible to the properties.                                              *)
(***************************************************************************)
EXTENDS Integers, Sequences, SequencesExt

CONSTANTS
    Keys,       \* the retired addresses a run may insert (a small set of Nat)
    Nil,        \* NULL: the empty subtree (a model value)
    MaxBuild,   \* longest array passed to avl_build_from_array
    NoKey       \* the key of last before any call (a model value)

VARIABLES
    root,       \* tree->root, the tree of the current registry
    live,       \* a tree exists: between avl_create/avl_build_from_array and avl_destroy
    last        \* the last call of avl.h: its name, its key and the value it returned

vars == <<root, live, last>>

-----------------------------------------------------------------------------
(* Helpers of avl.c                                                        *)

\* height(): 0 for NULL
Height(t) == IF t = Nil THEN 0 ELSE t.height

MaxInt(a, b) == IF a > b THEN a ELSE b

\* new_node(): height 1, unmarked, no children
NewNode(k) == [key |-> k, height |-> 1, marked |-> FALSE, left |-> Nil, right |-> Nil]

\* node->height = max_int(height(node->left), height(node->right)) + 1
FixHeight(n) == [n EXCEPT !.height = MaxInt(Height(n.left), Height(n.right)) + 1]

\* Fault variant of right_rotate(): y keeps its old height after moving down
RightRotateStaleHeight(y) ==
    LET x == y.left
    IN  FixHeight([x EXCEPT !.right = [y EXCEPT !.left = x.right]])

\* right_rotate(y): x = y->left becomes the root, T2 = x->right moves under y
RightRotate(y) ==
    LET x == y.left
    IN  FixHeight([x EXCEPT !.right = FixHeight([y EXCEPT !.left = x.right])])

\* left_rotate(x): y = x->right becomes the root, T2 = y->left moves under x
LeftRotate(x) ==
    LET y == x.right
    IN  FixHeight([y EXCEPT !.left = FixHeight([x EXCEPT !.right = y.left])])

\* get_balance()
GetBalance(t) == IF t = Nil THEN 0 ELSE Height(t.left) - Height(t.right)

\* The four rebalancing cases at the end of insert_node, in the code's order;
\* the key of the inserted node selects the case.
Rebalance(node, key) ==
    LET balance == GetBalance(node) IN
    IF balance > 1 /\ key < node.left.key THEN RightRotate(node)
    ELSE IF balance < -1 /\ key > node.right.key THEN LeftRotate(node)
    ELSE IF balance > 1 /\ key > node.left.key
         THEN RightRotate([node EXCEPT !.left = LeftRotate(node.left)])
    ELSE IF balance < -1 /\ key < node.right.key
         THEN LeftRotate([node EXCEPT !.right = RightRotate(node.right)])
    ELSE node

\* Fault variant of insert_node(): the descent comparison is reversed
RECURSIVE InsertNodeSwapped(_, _)
InsertNodeSwapped(node, key) ==
    IF node = Nil THEN [tree |-> NewNode(key), inserted |-> TRUE]
    ELSE IF key = node.key THEN [tree |-> node, inserted |-> FALSE]
    ELSE LET goLeft == key > node.key
             sub    == InsertNodeSwapped(IF goLeft THEN node.left ELSE node.right, key)
             linked == IF goLeft THEN [node EXCEPT !.left = sub.tree]
                                 ELSE [node EXCEPT !.right = sub.tree]
         IN  [tree |-> Rebalance(FixHeight(linked), key), inserted |-> sub.inserted]

\* insert_node(node, key, &inserted): the new subtree root and *inserted
RECURSIVE InsertNode(_, _)
InsertNode(node, key) ==
    IF node = Nil THEN [tree |-> NewNode(key), inserted |-> TRUE]
    ELSE IF key = node.key THEN [tree |-> node, inserted |-> FALSE]
    ELSE LET goLeft == key < node.key
             sub    == InsertNode(IF goLeft THEN node.left ELSE node.right, key)
             linked == IF goLeft THEN [node EXCEPT !.left = sub.tree]
                                 ELSE [node EXCEPT !.right = sub.tree]
         IN  [tree |-> Rebalance(FixHeight(linked), key), inserted |-> sub.inserted]

\* contains_node(): binary-search descent
RECURSIVE ContainsNode(_, _)
ContainsNode(node, key) ==
    IF node = Nil THEN FALSE
    ELSE IF key = node.key THEN TRUE
    ELSE IF key < node.key THEN ContainsNode(node.left, key)
    ELSE ContainsNode(node.right, key)

\* Fault variant of mark_node(): found only when this call set the mark
RECURSIVE MarkNodeFirstOnly(_, _)
MarkNodeFirstOnly(node, key) ==
    IF node = Nil THEN [tree |-> Nil, found |-> FALSE]
    ELSE IF key = node.key
         THEN [tree |-> [node EXCEPT !.marked = TRUE], found |-> ~node.marked]
    ELSE IF key < node.key
         THEN LET sub == MarkNodeFirstOnly(node.left, key)
              IN  [tree |-> [node EXCEPT !.left = sub.tree], found |-> sub.found]
    ELSE LET sub == MarkNodeFirstOnly(node.right, key)
         IN  [tree |-> [node EXCEPT !.right = sub.tree], found |-> sub.found]

\* Fault variant of mark_node(): the descent comparison is reversed
RECURSIVE MarkNodeSwapped(_, _)
MarkNodeSwapped(node, key) ==
    IF node = Nil THEN [tree |-> Nil, found |-> FALSE]
    ELSE IF key = node.key
         THEN [tree |-> [node EXCEPT !.marked = TRUE], found |-> TRUE]
    ELSE IF key > node.key
         THEN LET sub == MarkNodeSwapped(node.left, key)
              IN  [tree |-> [node EXCEPT !.left = sub.tree], found |-> sub.found]
    ELSE LET sub == MarkNodeSwapped(node.right, key)
         IN  [tree |-> [node EXCEPT !.right = sub.tree], found |-> sub.found]

\* mark_node(node, key, &found): sets the flag of the node holding key
RECURSIVE MarkNode(_, _)
MarkNode(node, key) ==
    IF node = Nil THEN [tree |-> Nil, found |-> FALSE]
    ELSE IF key = node.key
         THEN [tree |-> [node EXCEPT !.marked = TRUE], found |-> TRUE]
    ELSE IF key < node.key
         THEN LET sub == MarkNode(node.left, key)
              IN  [tree |-> [node EXCEPT !.left = sub.tree], found |-> sub.found]
    ELSE LET sub == MarkNode(node.right, key)
         IN  [tree |-> [node EXCEPT !.right = sub.tree], found |-> sub.found]

\* avl_build_from_array(): avl_create, then avl_insert of keys[0..n-1] in order
BuildFromArray(arr) ==
    FoldLeft(LAMBDA t, k : InsertNode(t, k).tree, Nil, arr)

\* inorder_traverse(): the sequence of nodes the visitor is called with
RECURSIVE InOrder(_)
InOrder(t) ==
    IF t = Nil THEN << >>
    ELSE InOrder(t.left) \o << [key |-> t.key, marked |-> t.marked] >> \o InOrder(t.right)

-----------------------------------------------------------------------------
(* The public API of avl.h, one action per function                        *)

\* Fault variant of avl_create() without tree->root = NULL: the fresh block
\* holds whatever was there before, here a node left over from freed memory
AvlCreateNoInit ==
    /\ ~live
    /\ root' \in {Nil, NewNode(0)}
    /\ live' = TRUE
    /\ UNCHANGED last

\* avl_create(): a new, empty tree
AvlCreate ==
    /\ ~live
    /\ root' = Nil
    /\ live' = TRUE
    /\ UNCHANGED last

\* avl_build_from_array(keys, n)
AvlBuildFromArray(arr) ==
    /\ ~live
    /\ root' = BuildFromArray(arr)
    /\ live' = TRUE
    /\ UNCHANGED last

\* avl_insert(): returns 1 iff a node was created
AvlInsert(k) ==
    /\ live
    /\ LET r == InsertNode(root, k)
       IN  /\ root' = r.tree
           /\ last' = [op |-> "insert", key |-> k, ret |-> r.inserted]
    /\ UNCHANGED live

\* avl_contains()
AvlContains(k) ==
    /\ live
    /\ last' = [op |-> "contains", key |-> k, ret |-> ContainsNode(root, k)]
    /\ UNCHANGED <<root, live>>

\* avl_mark(): returns 1 iff the key was found (marked before or not)
AvlMark(k) ==
    /\ live
    /\ LET r == MarkNode(root, k)
       IN  /\ root' = r.tree
           /\ last' = [op |-> "mark", key |-> k, ret |-> r.found]
    /\ UNCHANGED live

\* avl_destroy(): destroy_node frees every node, then the tree
AvlDestroy ==
    /\ live
    /\ root' = Nil
    /\ live' = FALSE
    /\ UNCHANGED last

Init ==
    /\ root = Nil
    /\ live = FALSE
    /\ last = [op |-> "none", key |-> NoKey, ret |-> FALSE]

Next ==
    \/ AvlCreate
    \/ \E arr \in BoundedSeq(Keys, MaxBuild) : AvlBuildFromArray(arr)
    \/ \E k \in Keys : AvlInsert(k) \/ AvlContains(k) \/ AvlMark(k)
    \/ AvlDestroy

Spec == Init /\ [][Next]_vars

-----------------------------------------------------------------------------
(* Views of the tree used by the properties                                *)

RECURSIVE Nodes(_)
\* every node of t (each node record carries its whole subtree)
Nodes(t) == IF t = Nil THEN {} ELSE {t} \cup Nodes(t.left) \cup Nodes(t.right)

TreeKeys(t)   == {n.key : n \in Nodes(t)}
MarkedKeys(t) == {n.key : n \in {m \in Nodes(t) : m.marked}}

RECURSIVE TrueHeight(_)
TrueHeight(t) == IF t = Nil THEN 0 ELSE 1 + MaxInt(TrueHeight(t.left), TrueHeight(t.right))

RECURSIVE IsTree(_)
IsTree(t) ==
    \/ t = Nil
    \/ /\ DOMAIN t = {"key", "height", "marked", "left", "right"}
       /\ t.key \in Keys
       /\ t.height \in Nat \ {0}
       /\ t.marked \in BOOLEAN
       /\ IsTree(t.left)
       /\ IsTree(t.right)

(* Type invariant: root is Nil or a node whose keys come from Keys, whose  *)
(* stored heights are positive, and whose subtrees are trees.              *)
TypeOK ==
    /\ IsTree(root)
    /\ live \in BOOLEAN
    /\ last \in [op : {"none", "insert", "contains", "mark"}, key : Keys \cup {NoKey}, ret : BOOLEAN]

(* Balance invariant (spec section 8): after any sequence of avl_insert,   *)
(* avl_mark and avl_build_from_array calls, every node's stored height is  *)
(* its real height and the heights of its two subtrees differ by at most   *)
(* one.  This is what the rotation choice in insert_node and the height    *)
(* updates in right_rotate/left_rotate must together maintain.             *)
Balanced ==
    \A n \in Nodes(root) :
        /\ n.height = TrueHeight(n)
        /\ GetBalance(n) \in {-1, 0, 1}

(* Ordering invariant (spec section 8): the visitor of avl_inorder sees    *)
(* strictly increasing keys, whatever rotations insert_node performed.     *)
Ordered ==
    LET s == InOrder(root)
    IN  \A i \in 1 .. Len(s) - 1 : s[i].key < s[i + 1].key

(* The tree implements the abstract registry: with the set of keys and of  *)
(* marked keys read off the tree, every call of avl.h is the matching      *)
(* step of Registry, return value included.  In particular no rotation     *)
(* loses or duplicates a key or a mark, and a mark is never undone.        *)
Abstract == INSTANCE Registry WITH keys <- TreeKeys(root), marked <- MarkedKeys(root)

RegistrySpec == Abstract!Spec
=============================================================================
