-------------------------------- MODULE Vars -------------------------------
(***************************************************************************)
(* The variable spaces of libopticon (var.c) and the parser that fills     *)
(* them (var_parse.c): every configuration, every metadata file and every  *)
(* answer of the API is a tree of nodes linked by hand.  The heap is an    *)
(* array of nodes that are used again once they are freed; 0 is the null   *)
(* pointer, and a cachenode that no cachepos goes with.  Two documents:    *)
(* one that is parsed, read by index and copied from, as the configuration *)
(* is, and one that is edited as the API edits metadata.  Sorting and      *)
(* generations, which only tests use, are left out, as is the hash of a    *)
(* key, a filter in front of the comparison of keys.                       *)
(***************************************************************************)
EXTENDS Integers, Sequences, FiniteSets
LOCAL INSTANCE SequencesExt

CONSTANTS
    MaxVarNodes,    \* bound: nodes of the heap
    VarKeys,        \* keys of dictionaries
    VarLeaves,      \* values: <<type, value>>
    MaxJsonDepth    \* default_max_json_depth

VARIABLES
    heap,           \* the nodes
    root,           \* the root node of each document
    level,          \* the nodes the parser is in, the deepest last
    call            \* ghost: what the last call was given

varsVars == <<heap, root, level, call>>

VarDocs == {"conf", "meta"}
NoId == "none"
Containers == {"dict", "array"}

------------------------------------------------------------------------------
(* Nodes and links. *)

(* What var_alloc hands out. *)
NullNode ==
    [type |-> "null", val |-> 0, id |-> NoId, parent |-> 0, prev |-> 0,
     next |-> 0, first |-> 0, last |-> 0, count |-> 0, cachepos |-> -1,
     cachenode |-> 0]
FreedNode == [NullNode EXCEPT !.type = "free"]

FreeNodes(h) == {n \in DOMAIN h : h[n].type = "free"}
NewNode(h) ==
    CHOOSE n \in FreeNodes(h) : \A m \in FreeNodes(h) : n <= m

Emptied(v, type) ==
    [v EXCEPT !.type = type, !.first = 0, !.last = 0, !.count = 0,
              !.cachepos = -1, !.cachenode = 0]

(* The children of a node in their order; no longer than the heap. *)
RECURSIVE Follow(_, _, _)
Follow(h, c, seen) ==
    IF c = 0 \/ Len(seen) = MaxVarNodes THEN seen
    ELSE Follow(h, h[c].next, Append(seen, c))
KidsOf(h, n) ==
    IF h[n].type \in Containers THEN Follow(h, h[n].first, <<>>) ELSE <<>>

(* A node joins a parent of the other kind in name only. *)
var_link(h, n, p) ==
    LET kind == IF h[n].id = NoId THEN "array" ELSE "dict"
        v == IF h[p].type = "null" THEN Emptied(h[p], kind) ELSE h[p]
        h1 == [h EXCEPT ![p] = v, ![n].parent = p, ![n].next = 0]
        h2 == [h1 EXCEPT ![n].prev = v.last, ![p].last = n,
                         ![p].count = @ + 1]
    IN  IF v.type # kind THEN h1
        ELSE IF v.last = 0 THEN [h2 EXCEPT ![p].first = n]
             ELSE [h2 EXCEPT ![v.last].next = n]
var_link_as(h, n, p, id) == var_link([h EXCEPT ![n].id = id], n, p)

(* Mutant: the parent keeps its last child. *)
UnlinkedButLast(h, n) ==
    LET v == h[n]
        p == v.parent
        h1 == IF v.prev # 0 THEN [h EXCEPT ![v.prev].next = v.next]
              ELSE [h EXCEPT ![p].first = v.next]
        h2 == IF v.next # 0 THEN [h1 EXCEPT ![v.next].prev = v.prev] ELSE h1
    IN  [h2 EXCEPT ![p].count = @ - 1]

(* What var_free and var_delete_key do to a node's neighbours; only the    *)
(* first forgets the parent's cached child.                                *)
Unlinked(h, n) ==
    LET v == h[n]
        p == v.parent
        h1 == IF v.prev # 0 THEN [h EXCEPT ![v.prev].next = v.next]
              ELSE [h EXCEPT ![p].first = v.next]
        h2 == IF v.next # 0 THEN [h1 EXCEPT ![v.next].prev = v.prev]
              ELSE [h1 EXCEPT ![p].last = v.prev]
    IN  [h2 EXCEPT ![p].count = @ - 1]

RECURSIVE var_free(_, _)
FreeKids(h, n) == FoldLeft(LAMBDA g, c : var_free(g, c), h, KidsOf(h, n))
var_free(h, n) ==
    LET p == h[n].parent
        h1 == IF p = 0 THEN h
              ELSE [Unlinked(h, n) EXCEPT ![p].cachepos = -1,
                                          ![p].cachenode = 0]
    IN  [FreeKids(h1, n) EXCEPT ![n] = FreedNode]

------------------------------------------------------------------------------
(* Lookups.  They return the node, or 0. *)

ChildAs(h, n, k) ==
    LET found == SelectSeq(KidsOf(h, n), LAMBDA c : h[c].id = k)
    IN  IF h[n].type # "dict" \/ found = <<>> THEN 0 ELSE Head(found)

(* var_find_key makes a dictionary of a node without a value. *)
AsDict(h, n) ==
    IF h[n].type = "null" THEN [h EXCEPT ![n] = Emptied(@, "dict")] ELSE h

(* The node under the key, which is made with the type if there is none:   *)
(* the heap and the node, which is 0 if it is there with another type.     *)
GetForKey(h, n, k, type) ==
    LET found == ChildAs(h, n, k)
        new == NewNode(h)
        h1 == [AsDict(h, n) EXCEPT ![new] = Emptied(NullNode, type)]
    IN  IF found = 0 THEN <<var_link_as(h1, new, n, k), new>>
        ELSE <<h, IF h[found].type = type THEN found ELSE 0>>
var_get_dict_forkey(h, n, k) == GetForKey(h, n, k, "dict")
var_get_array_forkey(h, n, k) == GetForKey(h, n, k, "array")
var_get_or_make(h, n, k) ==
    LET found == ChildAs(h, n, k)
    IN  IF found # 0 THEN <<h, found>> ELSE GetForKey(h, n, k, "null")

(* The child at an index from 0, by way of the child that was asked for    *)
(* last if that is a neighbour; it is remembered as the next one.          *)
var_find_index(h, n, i) ==
    LET v == h[n]
        near == IF v.cachepos = i THEN v.cachenode
                ELSE IF v.cachepos = i + 1 THEN h[v.cachenode].prev
                ELSE IF i > 0 /\ v.cachepos = i - 1 THEN h[v.cachenode].next
                ELSE 0
        found == IF near # 0 THEN near
                 ELSE IF i < Len(KidsOf(h, n)) THEN KidsOf(h, n)[i + 1] ELSE 0
    IN  IF i >= v.count THEN 0 ELSE found
Remembered(h, n, i) ==
    LET found == var_find_index(h, n, i)
    IN  IF found = 0 THEN h
        ELSE [h EXCEPT ![n].cachepos = i, ![n].cachenode = found]

------------------------------------------------------------------------------
(* Values. *)

(* A node keeps its type, and a value of another type is not stored. *)
var_set(h, n, leaf) ==
    IF h[n].type \in {"null", leaf[1]}
    THEN [h EXCEPT ![n].type = leaf[1], ![n].val = leaf[2]] ELSE h
var_set_forkey(h, n, k, leaf) ==
    LET got == var_get_or_make(h, n, k) IN var_set(got[1], got[2], leaf)

(* A child that is added to an array: var_add_int, _str, _dict, _array. *)
var_add(h, n, leaf) ==
    LET new == NewNode(h)
        v == [Emptied(NullNode, leaf[1]) EXCEPT !.val = leaf[2]]
    IN  <<var_link([h EXCEPT ![new] = v], new, n), new>>

var_clear_array(h, n) ==
    [FreeKids(h, n) EXCEPT ![n].cachepos = -1, ![n].cachenode = 0]

var_delete_key(h, n, k) ==
    LET node == ChildAs(h, n, k)
    IN  IF node = 0 THEN h
        ELSE var_free([Unlinked(h, node) EXCEPT
                            ![node].parent = 0, ![node].prev = 0,
                            ![node].next = 0], node)

(* The copy shares no node with the original. *)
RECURSIVE var_clone(_, _)
LinkClone(h, c, p, id) ==
    LET made == var_clone(h, c) IN var_link_as(made[1], made[2], p, id)
var_clone(h, o) ==
    LET new == NewNode(h)
        v == [Emptied(NullNode, h[o].type) EXCEPT !.val = h[o].val]
    IN  <<FoldLeft(LAMBDA g, c : LinkClone(g, c, new, h[c].id),
                   [h EXCEPT ![new] = v], KidsOf(h, o)), new>>

var_copy(h, n, o) ==
    LET bare == [FreeKids(h, n) EXCEPT
                    ![n] = [Emptied(@, h[o].type) EXCEPT !.val = h[o].val]]
    IN  FoldLeft(LAMBDA g, c : LinkClone(g, c, n, h[c].id),
                 bare, KidsOf(h, o))

(* Into a dictionary only.  What it has stays, dictionaries on both sides  *)
(* are merged, and an array takes the place of all it held.                *)
RECURSIVE var_merge(_, _, _)
MergeEntry(h, n, c) ==
    LET existing == ChildAs(h, n, h[c].id)
    IN  IF existing = 0 THEN LinkClone(h, c, n, h[c].id)
        ELSE IF h[existing].type = "dict" THEN var_merge(h, existing, c)
             ELSE h
var_merge(h, n, o) ==
    CASE h[n].type = "dict" /\ h[o].type = "dict" ->
           FoldLeft(LAMBDA g, c : MergeEntry(g, n, c), h, KidsOf(h, o))
      [] h[n].type = "dict" /\ h[o].type = "array" ->
           FoldLeft(LAMBDA g, c : LinkClone(g, c, n, NoId),
                    [h EXCEPT ![n] = Emptied(@, "array")], KidsOf(h, o))
      [] OTHER -> h

------------------------------------------------------------------------------
(* The calls. *)

(* The nodes of the tree under a node, itself included. *)
RECURSIVE Under(_, _)
Under(h, n) ==
    {n} \cup UNION {Under(h, c) : c \in Range(KidsOf(h, n))}

(* The entry of the document that a node is in: its key in the root. *)
EntryOf(h, d, n) ==
    LET kids == {c \in Range(KidsOf(h, root[d])) : n \in Under(h, c)}
    IN  IF kids = {} THEN NoId ELSE h[CHOOSE c \in kids : TRUE].id

(* A call on a node of a document and on its entry k; from is the node it  *)
(* was given to copy.                                                      *)
Called(d, n, k, from, h) ==
    /\ heap' = h
    /\ call' = [doc |-> d, at |-> n, from |-> from,
                entry |-> IF n = root[d] THEN k ELSE EntryOf(heap, d, n)]

NoCall == [doc |-> "conf", at |-> 0, from |-> 0, entry |-> NoId]

Room(k) == Cardinality(FreeNodes(heap)) >= k
Idle == level = <<>>
In(d) == Under(heap, root[d])
DictsIn(d) == {n \in In(d) : heap[n].type \in {"null", "dict"}}

(* var_parse_json_level on the level it is at: the deepest node. *)
Top == level[Len(level)]
Descend(made) ==
    level' = IF made = 0 \/ Len(level) > MaxJsonDepth THEN <<>>
             ELSE Append(level, made)

ParseBegin ==
    /\ Idle
    /\ level' = <<root["conf"]>> /\ call' = NoCall
    /\ UNCHANGED <<heap, root>>

(* In a dictionary: a value, a dictionary or an array under a key. *)
ParseInDict(k) ==
    /\ ~Idle /\ heap[Top].type # "array" /\ Room(1)
    /\ \/ /\ \E leaf \in VarLeaves :
              Called("conf", Top, k, 0, var_set_forkey(heap, Top, k, leaf))
          /\ UNCHANGED level
       \/ LET got == var_get_dict_forkey(heap, Top, k)
          IN  /\ Called("conf", Top, k, 0, got[1])
              /\ Descend(got[2])
       \/ LET got == var_get_array_forkey(heap, Top, k)
          IN  /\ Called("conf", Top, k, 0,
                         IF got[2] = 0 THEN got[1]
                         ELSE var_clear_array(got[1], got[2]))
              /\ Descend(got[2])
    /\ UNCHANGED root

(* In an array: a value, a dictionary or an array at its end. *)
ParseInArray ==
    /\ ~Idle /\ heap[Top].type = "array" /\ Room(1)
    /\ \/ /\ \E leaf \in VarLeaves :
              Called("conf", Top, NoId, 0, var_add(heap, Top, leaf)[1])
          /\ UNCHANGED level
       \/ \E type \in Containers :
              LET got == var_add(heap, Top, <<type, 0>>)
              IN  /\ Called("conf", Top, NoId, 0, got[1])
                  /\ Descend(got[2])
    /\ UNCHANGED root

(* The end of a level, or an error, which leaves what is there by then. *)
ParseEnd ==
    /\ ~Idle
    /\ level' \in {Front(level), <<>>} /\ call' = NoCall
    /\ UNCHANGED <<heap, root>>

(* The configuration is gone over by index. *)
ReadIndex(n, i) ==
    /\ Idle /\ heap[n].type \in Containers
    /\ Called("conf", n, NoId, 0, Remembered(heap, n, i))
    /\ UNCHANGED <<root, level>>

EditKey(n, k) ==
    /\ Idle /\ Room(1)
    /\ \/ \E leaf \in VarLeaves :
            Called("meta", n, k, 0, var_set_forkey(heap, n, k, leaf))
       \/ Called("meta", n, k, 0, var_get_dict_forkey(heap, n, k)[1])
       \/ /\ heap[n].type = "dict"
          /\ Called("meta", n, k, 0, var_delete_key(heap, n, k))
    /\ UNCHANGED <<root, level>>

(* What an edited document takes over from the other: a copy in place of a *)
(* node, a merge into one, or a clone under a key that is new to it.       *)
TakeOver(n, o) ==
    /\ Idle /\ Room(Cardinality(Under(heap, o)) - 1)
    /\ \/ Called("meta", n, NoId, o, var_copy(heap, n, o))
       \/ /\ heap[n].type = "dict"
          /\ Called("meta", n, NoId, 0, var_merge(heap, n, o))
       \/ \E k \in VarKeys :
            /\ Room(Cardinality(Under(heap, o)))
            /\ heap[n].type = "dict" /\ ChildAs(heap, n, k) = 0
            /\ Called("meta", n, k, 0, LinkClone(heap, o, n, k))
    /\ UNCHANGED <<root, level>>

(* A node is freed out of its document (conf_tenant's v_summary), or the    *)
(* document as a whole, and the next one starts from var_alloc.            *)
FreeNode(n) ==
    /\ Idle
    /\ LET h == var_free(heap, n)
           new == NewNode(h)
       IN  IF n = root["meta"]
           THEN /\ Called("meta", n, NoId, 0, [h EXCEPT ![new] = NullNode])
                /\ root' = [root EXCEPT !["meta"] = new]
           ELSE /\ Called("meta", n, NoId, 0, h)
                /\ UNCHANGED root
    /\ UNCHANGED level

VarsInit ==
    /\ root = [d \in VarDocs |-> IF d = "conf" THEN 1 ELSE 2]
    /\ heap = [n \in 1 .. MaxVarNodes |->
                 IF n <= 2 THEN NullNode ELSE FreedNode]
    /\ level = <<>>
    /\ call = NoCall

VarsNext ==
    \/ ParseBegin
    \/ \E k \in VarKeys : ParseInDict(k)
    \/ ParseInArray
    \/ ParseEnd
    \/ \E n \in In("conf"), i \in 0 .. 2 : ReadIndex(n, i)
    \/ \E n \in DictsIn("meta"), k \in VarKeys : EditKey(n, k)
    \/ \E n \in In("meta"), o \in In("conf") : TakeOver(n, o)
    \/ \E n \in In("meta") : FreeNode(n)

VarsSpec == VarsInit /\ [][VarsNext]_varsVars
------------------------------------------------------------------------------
(* Properties. *)

(* The links of a node and its children agree in both directions, with the *)
(* count, with the keys and with the child that is remembered.             *)
WholeNode(h, n) ==
    LET kids == KidsOf(h, n)
        Kid(i) == IF i \in DOMAIN kids THEN kids[i] ELSE 0
    IN  h[n].type \in Containers =>
          /\ h[n].count = Len(kids)
          /\ h[n].last = Kid(Len(kids))
          /\ \A i \in DOMAIN kids :
                /\ h[kids[i]].type # "free" /\ h[kids[i]].parent = n
                /\ h[kids[i]].prev = Kid(i - 1)
                /\ (h[kids[i]].id = NoId) <=> (h[n].type = "array")
                /\ var_find_index(h, n, i - 1) = kids[i]
          /\ \A i, j \in DOMAIN kids :
                h[kids[i]].id = h[kids[j]].id /\ h[n].type = "dict" => i = j

(* What a reader finds in a node, without its own key. *)
RECURSIVE Content(_, _)
Content(h, n) ==
    IF n = 0 THEN <<>>
    ELSE LET kids == KidsOf(h, n)
         IN  <<h[n].type, h[n].val,
               [i \in DOMAIN kids |-> <<h[kids[i]].id, Content(h, kids[i])>>]>>

(* After every call of the library every document is whole: its lists can  *)
(* be walked both ways and by index and find the same children, however    *)
(* far the caches of earlier reads have been overtaken by edits.  The call *)
(* changed nothing but the entry it was given: a copy shares no node with  *)
(* what it was made from, and it has its content.                          *)
DocumentsAreWhole ==
    [][/\ \A d \in VarDocs : \A n \in In(d)' : WholeNode(heap', n)
       /\ In("conf")' \cap In("meta")' = {}
       /\ \A d \in VarDocs, k \in VarKeys :
             call'.doc # d \/ call'.entry \notin {NoId, k} =>
               Content(heap', ChildAs(heap', root'[d], k))
                 = Content(heap, ChildAs(heap, root[d], k))
       /\ call'.from # 0 =>
             Content(heap', call'.at) = Content(heap, call'.from)
      ]_varsVars
=============================================================================
