------------------------------ MODULE CowTree ------------------------------
(***************************************************************************)
(* The positional copy-on-write B-tree (btype/btype_btree.go), the half of *)
(* it that the btype FIFO backing calls: PushBack, PopFront, DeleteAt,     *)
(* Clear, CopyInto, Release, and the walks All and Front.                  *)
(*                                                                         *)
(* A tree is written by one caller at a time, who holds the queue's lock;  *)
(* a snapshot is read and released by its owner with no lock, so one step  *)
(* here is one atomic access to a reference count, and writes to nodes     *)
(* that only the writer reaches belong to the step they follow.            *)
(*                                                                         *)
(* heap maps pointers to nodes; what nothing points to is collected, as    *)
(* the Go runtime does.  The writer's recursion is the path from the root  *)
(* to the node it stands on.  Positions start at 1 here; at, an index of   *)
(* DeleteAt, starts at 0 as in the code.                                   *)
(***************************************************************************)
EXTENDS Integers, FiniteSets, SequencesExt

CONSTANTS
    MaxItems,           \* maxItems, 63 in the code
    Ptrs,               \* addresses of nodes
    Nil,                \* the nil pointer
    MaxHeight,          \* levels below the root that are ever reached
    Snaps,              \* snapshots that may exist at once
    Writer              \* the caller who holds the queue's lock

ASSUME FanoutAssumption == MaxItems \in Nat /\ MaxItems % 2 = 1 /\ MaxItems > 1
ASSUME PtrsAssumption == Ptrs \subseteq Nat /\ Nil \notin Ptrs /\ Writer \notin Snaps

VARIABLES
    heap, root, count, copied, spare,
    snap,               \* a snapshot's root and, for the properties, what it held
    todo,               \* nodes whose releaseNode is still to be called, per caller
    job,                \* tree operations left under this hold of the lock
    step, path, at,     \* where the operation in progress stands
    hole, item,         \* nodeDeleteAt: the depth its maximum goes to; the entry taken
    owning, shared      \* nodes still to be owned; the reference count was positive

treeVars  == <<heap, root, count, copied, spare>>
frameVars == <<step, path, at, hole, item, owning, shared>>
cowVars   == <<treeVars, snap, todo, job, frameVars>>

Free   == [root |-> Nil, seen |-> <<>>, live |-> FALSE]
Node(items, kids, counts) == [items |-> items, kids |-> kids, counts |-> counts, rc |-> 0]

MinItems == MaxItems \div 2
Leaf(n)  == n.kids = <<>>
Plus(a, b) == a + b

\* node.count
Count(n) == Len(n.items) + FoldLeft(Plus, 0, n.counts)

UpTo(s, k)  == SubSeq(s, 1, IF k < Len(s) THEN k ELSE Len(s))
After(s, k) == SubSeq(s, k + 1, Len(s))

\* Everything that can be reached from ps.
Reach(h, ps) ==
    LET f[d \in 0..MaxHeight] ==
          IF d = 0 THEN ps ELSE f[d - 1] \cup UNION {ToSet(h[p].kids) : p \in f[d - 1]}
    IN f[MaxHeight]

Roots == ({root, spare} \cup {snap[s].root : s \in Snaps}
          \cup UNION {ToSet(todo[c]) : c \in Snaps \cup {Writer}}) \ {Nil}

\* The heap once what nothing points to is collected.
Store(h) == heap' = LET kept == Reach(h, Roots') IN
                    [p \in kept |-> h[p]]

Fresh(ps)    == CHOOSE p \in ps : \A q \in ps : p <= q
NewNode(h)   == Fresh(Ptrs \ DOMAIN h)
SecondNew(h) == Fresh(Ptrs \ (DOMAIN h \cup {NewNode(h)}))
With(h, p, n) == [q \in DOMAIN h \cup {p} |-> IF q = p THEN n ELSE h[q]]

\* nodeAll: what a walk from p yields.
All(h, p) ==
    LET f[q \in DOMAIN h] ==
          IF Leaf(h[q]) THEN h[q].items
          ELSE FoldLeft(LAMBDA s, i : s \o <<h[q].items[i]>> \o f[h[q].kids[i + 1]],
                        f[h[q].kids[1]], [i \in 1..Len(h[q].items) |-> i])
    IN IF p = Nil THEN <<>> ELSE f[p]

Contents == IF count > 0 THEN All(heap, root) ELSE <<>>

\* The node at the end of a path from the root.
Walk(h, r, p) == FoldLeft(LAMBDA n, i : h[n].kids[i], r, p)
Here == Walk(heap, root, path)
Up   == Walk(heap, root, Front(path))

-----------------------------------------------------------------------------
(***************************************************************************)
(* Splits and rebalancing, on nodes the writer owns.                       *)
(***************************************************************************)
Middle == MaxItems - MinItems - 1

SplitNode(h, n, right) ==
    LET half == [h EXCEPT ![n] = [@ EXCEPT !.items = UpTo(@, Middle),
                                           !.kids = UpTo(@, Middle + 1),
                                           !.counts = UpTo(@, Middle + 1)]]
    IN With(half, right, Node(After(h[n].items, Middle + 1), After(h[n].kids, Middle + 1),
                              After(h[n].counts, Middle + 1)))

SplitBranch(h, n, i, right) ==
    LET c == h[n].kids[i]
        g == SplitNode(h, c, right)
    IN [g EXCEPT ![n] = [@ EXCEPT
            !.items  = InsertAt(@, i, h[c].items[Middle + 1]),
            !.kids   = InsertAt(@, i + 1, right),
            !.counts = InsertAt([@ EXCEPT ![i] = Count(g[c])], i + 1, Count(g[right]))]]

\* splitRoot: the old root becomes the first child of a new one.
SplitRoot(h, top, right) ==
    SplitBranch(With(h, top, Node(<<>>, <<root>>, <<0>>)), top, 1, right)

\* Two siblings, the item between them, and how many of the items go left.
Deal(h, n, i, cut) ==
    LET l == h[n].kids[i]
        r == h[n].kids[i + 1]
        items == h[l].items \o <<h[n].items[i]>> \o h[r].items
        kids  == h[l].kids \o h[r].kids
        counts == h[l].counts \o h[r].counts
    IN [h EXCEPT ![l] = [@ EXCEPT !.items = UpTo(items, cut), !.kids = UpTo(kids, cut + 1),
                                  !.counts = UpTo(counts, cut + 1)],
                 ![r] = [@ EXCEPT !.items = After(items, cut + 1), !.kids = After(kids, cut + 1),
                                  !.counts = After(counts, cut + 1)],
                 ![n] = [@ EXCEPT !.items[i] = items[cut + 1]]]

Merge(h, n, i) ==
    LET l == h[h[n].kids[i]]
        r == h[h[n].kids[i + 1]]
    IN [h EXCEPT ![h[n].kids[i]] = [@ EXCEPT !.items = l.items \o <<h[n].items[i]>> \o r.items,
                                             !.kids = l.kids \o r.kids,
                                             !.counts = l.counts \o r.counts],
                 ![n] = [@ EXCEPT !.items = RemoveAt(@, i), !.kids = RemoveAt(@, i + 1),
                                  !.counts = RemoveAt(@, i + 1)]]

\* rebalance: merge, or move one item over from the larger sibling; the counts
\* of both children are taken anew.
Rebalance(h, n, i) ==
    LET l == Len(h[h[n].kids[i]].items)
        r == Len(h[h[n].kids[i + 1]].items)
        g == IF l + r < MaxItems THEN Merge(h, n, i)
             ELSE Deal(h, n, i, IF l > r THEN l - 1 ELSE l + 1)
    IN [g EXCEPT ![n].counts = [j \in 1..Len(g[n].kids) |->
            IF j \in {i, i + 1} THEN Count(g[g[n].kids[j]]) ELSE g[n].counts[j]]]

-----------------------------------------------------------------------------
(***************************************************************************)
(* Copy on write.                                                          *)
(***************************************************************************)
Ready == todo[Writer] = <<>> /\ owning = <<>>

\* Mutation: a node with one other reference passes for the writer's own.
ReferencedTwice(n) == heap[n].rc > 1
Referenced(n) == heap[n].rc > 0

\* cowRoot and cowChild load the reference count...
LoadRc ==
    /\ todo[Writer] = <<>> /\ owning # <<>> /\ ~shared
    /\ IF copied /\ Referenced(Walk(heap, root, Head(owning)))
       THEN shared' = TRUE /\ UNCHANGED owning
       ELSE owning' = Tail(owning) /\ UNCHANGED shared
    /\ UNCHANGED <<treeVars, snap, todo, job, step, path, at, hole, item>>

\* Mutation: the children of a copied node are not counted as shared.
CopyAlone(h, n, copy) == With(h, copy, [h[n] EXCEPT !.rc = 0])

\* copyNode: the copy's children have one more parent.
CopyNode(h, n, copy) ==
    With([p \in DOMAIN h |-> IF p \in ToSet(h[n].kids) THEN [h[p] EXCEPT !.rc = @ + 1]
                             ELSE h[p]],
         copy, [h[n] EXCEPT !.rc = 0])

\* ...and cow0 copies a node that was shared, releases it and puts the copy in
\* its place.
Cow ==
    /\ shared
    /\ LET p    == Head(owning)
           n    == Walk(heap, root, p)
           copy == NewNode(heap)
           h    == CopyNode(heap, n, copy)
       IN /\ todo' = [todo EXCEPT ![Writer] = <<n>>]
          /\ UNCHANGED <<spare, snap>>
          /\ IF p = <<>> THEN root' = copy /\ Store(h)
             ELSE /\ UNCHANGED root
                  /\ Store([h EXCEPT ![Walk(heap, root, Front(p))].kids[Last(p)] = copy])
    /\ owning' = Tail(owning) /\ shared' = FALSE
    /\ UNCHANGED <<count, copied, job, step, path, at, hole, item>>

\* releaseNode: the count goes down; the last reference takes the children's
\* along, one after the other.
ReleaseNode(c) ==
    /\ todo[c] # <<>>
    /\ LET n == Head(todo[c])
           h == [heap EXCEPT ![n].rc = @ - 1]
       IN /\ todo' = [todo EXCEPT ![c] =
                        (IF h[n].rc < 0 THEN h[n].kids ELSE <<>>) \o Tail(@)]
          /\ UNCHANGED <<root, spare, snap>>
          /\ Store(h)
    /\ UNCHANGED <<count, copied, job, frameVars>>

-----------------------------------------------------------------------------
(***************************************************************************)
(* The operations.                                                         *)
(***************************************************************************)
OpDone ==
    /\ job' = Tail(job)
    /\ step' = "idle" /\ path' = <<>> /\ at' = 0 /\ hole' = -1 /\ item' = 0

\* PushBack into an empty tree: insertFirstItem, on the spare leaf if there is
\* one.
InsertFirstItem ==
    /\ step = "idle" /\ job # <<>> /\ Head(job).op = "push" /\ count = 0
    /\ LET n == IF spare # Nil THEN spare ELSE NewNode(heap)
           leaf == IF spare # Nil THEN heap[spare] ELSE Node(<<>>, <<>>, <<>>)
       IN /\ root' = n /\ spare' = Nil /\ count' = 1
          /\ UNCHANGED <<snap, todo>>
          /\ Store(With(heap, n, [leaf EXCEPT !.items = <<Head(job).arg>>]))
    /\ OpDone
    /\ UNCHANGED <<copied, owning, shared>>

\* Every other operation begins by owning the root.
Begin ==
    /\ step = "idle" /\ job # <<>> /\ Head(job).op \in {"push", "front", "at"} /\ count > 0
    /\ step' = Head(job).op
    /\ at' = IF Head(job).op = "at" THEN Head(job).arg ELSE 0
    /\ owning' = <<<<>>>>
    /\ UNCHANGED <<treeVars, snap, todo, job, path, hole, item, shared>>

\* ensureRoot and ensureBranch: a full node is split before it is entered.
EnsureRoot(h, top, right) ==
    IF Len(h[root].items) = MaxItems THEN SplitRoot(h, top, right) ELSE h
EnsureBranch(h, n, i, right) ==
    IF Len(h[h[n].kids[i]].items) = MaxItems THEN SplitBranch(h, n, i, right) ELSE h

\* The child that is about to be entered counts the new item.
CountLastChild(h, n) == [h EXCEPT ![n].counts[Len(h[n].kids)] = @ + 1]

\* PushBack stands on a node it owns: it makes room, counts the item on the way
\* down, and appends it to the last leaf.
PushDown ==
    /\ step = "push" /\ Ready
    /\ LET right == NewNode(heap)
           top   == SecondNew(heap)
           full  == Len(heap[Here].items) = MaxItems
           h     == IF path = <<>> THEN EnsureRoot(heap, top, right)
                    ELSE CountLastChild(EnsureBranch(heap, Up, Last(path), right), Up)
           n     == IF path = <<>> THEN (IF full THEN top ELSE root) ELSE Last(h[Up].kids)
           p     == IF path = <<>> THEN <<>> ELSE Append(Front(path), Len(h[Up].kids))
       IN /\ root' = IF path = <<>> THEN n ELSE root
          /\ UNCHANGED <<copied, spare, snap, todo, shared>>
          /\ IF Leaf(h[n])
             THEN /\ count' = count + 1
                  /\ Store([h EXCEPT ![n].items = Append(@, Head(job).arg)])
                  /\ OpDone /\ UNCHANGED owning
             ELSE /\ Store(h)
                  /\ path' = Append(p, Len(h[n].kids))
                  /\ owning' = <<path'>>
                  /\ UNCHANGED <<count, job, step, at, hole, item>>

\* How many items lie before child i.
Skipped(n, i) == FoldLeft(Plus, i - 1, UpTo(n.counts, i - 1))

\* The child nodeDeleteAt enters, by the counts.
Turn(n) == CHOOSE i \in 1..Len(n.kids) :
             /\ i = Len(n.kids) \/ at <= Skipped(n, i) + n.counts[i]
             /\ \A j \in 1..(i - 1) : at > Skipped(n, j) + n.counts[j]
Found(n) == step = "at" /\ Turn(n) < Len(n.kids)
            /\ at = Skipped(n, Turn(n)) + n.counts[Turn(n)]

\* nodePopFront, nodeDeleteMax and nodeDeleteAt on the way down.  The item of
\* an inner node is replaced by the greatest one before it.
DeleteDown ==
    /\ step \in {"front", "max", "at"} /\ Ready
    /\ LET n == heap[Here]
           slot == CASE step = "front" -> 1 [] step = "max" -> Len(n.items) [] OTHER -> at + 1
           next == CASE step = "front" -> 1 [] step = "max" -> Len(n.kids) [] OTHER -> Turn(n)
       IN \/ /\ Leaf(n)
             /\ item' = n.items[slot]
             /\ UNCHANGED <<root, count, copied, spare, snap, todo>>
             /\ Store([heap EXCEPT ![Here].items = RemoveAt(@, slot)])
             /\ step' = "up"
             /\ UNCHANGED <<job, path, at, hole, owning, shared>>
          \/ /\ ~Leaf(n)
             /\ path' = Append(path, next)
             /\ owning' = <<path'>>
             /\ IF Found(n) THEN step' = "max" /\ hole' = Len(path) /\ UNCHANGED at
                ELSE /\ at' = IF step = "at" THEN at - Skipped(n, next) ELSE at
                     /\ UNCHANGED <<step, hole>>
             /\ UNCHANGED <<treeVars, snap, todo, job, item, shared>>

\* Mutation: the way up forgets what the way down took out.
UncountNothing(h, n, i) == h
Uncount(h, n, i) == [h EXCEPT ![n].counts[i] = @ - 1]

\* One frame returns: its item and its count are put right, and a child that is
\* now too small is owned with its sibling.
DeleteUp ==
    /\ step = "up" /\ path # <<>> /\ Ready
    /\ LET i == Last(path)
           small == Len(heap[Here].items) < MinItems
           j == IF i = Len(heap[Up].kids) THEN i - 1 ELSE i
           h == IF hole = Len(path) - 1 THEN [heap EXCEPT ![Up].items[i] = item] ELSE heap
       IN /\ UNCHANGED <<root, count, copied, spare, snap, todo>>
          /\ Store(Uncount(h, Up, i))
          /\ IF small
             THEN /\ step' = "balance"
                  /\ path' = Append(Front(path), j)
                  /\ owning' = <<path', Append(Front(path), j + 1)>>
             ELSE path' = Front(path) /\ UNCHANGED <<step, owning>>
    /\ UNCHANGED <<job, at, hole, item, shared>>

Balance ==
    /\ step = "balance" /\ Ready
    /\ UNCHANGED <<root, count, copied, spare, snap, todo>>
    /\ Store(Rebalance(heap, Up, Last(path)))
    /\ step' = "up" /\ path' = Front(path)
    /\ UNCHANGED <<job, at, hole, item, owning, shared>>

\* The count, and collapseRootIfNeeded: an emptied leaf is kept as the spare, a
\* root without items makes way for its only child.
DeleteDone ==
    /\ step = "up" /\ path = <<>>
    /\ count' = count - 1
    /\ IF count' = 0
       THEN /\ root' = Nil
            /\ spare' = IF spare = Nil /\ Leaf(heap[root]) /\ heap[root].rc = 0
                        THEN root ELSE spare
       ELSE /\ root' = IF heap[root].items = <<>> /\ ~Leaf(heap[root])
                       THEN heap[root].kids[1] ELSE root
            /\ UNCHANGED spare
    /\ UNCHANGED <<copied, snap, todo>>
    /\ Store(heap)
    /\ OpDone
    /\ UNCHANGED <<owning, shared>>

TreeStep ==
    \/ LoadRc \/ Cow \/ ReleaseNode(Writer)
    \/ InsertFirstItem \/ Begin \/ PushDown
    \/ DeleteDown \/ DeleteUp \/ Balance \/ DeleteDone

\* Clear drops the tree without releasing it.
TreeClear ==
    /\ count' = 0 /\ root' = Nil
    /\ UNCHANGED <<copied, spare, snap, todo>>
    /\ Store(heap)

-----------------------------------------------------------------------------
(***************************************************************************)
(* Snapshots.                                                              *)
(***************************************************************************)

\* CopyInto, under the lock.
CopyInto(s) ==
    /\ ~snap[s].live /\ todo[s] = <<>>
    /\ copied' = TRUE
    /\ snap' = [snap EXCEPT ![s] = [root |-> root, seen |-> Contents, live |-> TRUE]]
    /\ heap' = IF root = Nil THEN heap ELSE [heap EXCEPT ![root].rc = @ + 1]
    /\ UNCHANGED <<root, count, spare, todo>>

\* Release, whenever the walk over the snapshot has ended, under no lock.
Release(s) ==
    /\ snap[s].live
    /\ todo' = [todo EXCEPT ![s] = IF snap[s].root = Nil THEN <<>> ELSE <<snap[s].root>>]
    /\ snap' = [snap EXCEPT ![s] = Free]
    /\ UNCHANGED <<treeVars, job, frameVars>>

SnapshotStep(s) == Release(s) \/ ReleaseNode(s)

InitTree(ops) ==
    /\ heap = [p \in {} |-> Nil] /\ root = Nil /\ count = 0 /\ copied = FALSE /\ spare = Nil
    /\ snap = [s \in Snaps |-> Free]
    /\ todo = [c \in Snaps \cup {Writer} |-> <<>>]
    /\ job = ops
    /\ step = "idle" /\ path = <<>> /\ at = 0 /\ hole = -1 /\ item = 0
    /\ owning = <<>> /\ shared = FALSE
=============================================================================
