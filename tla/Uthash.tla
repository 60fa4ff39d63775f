-------------------------------- MODULE Uthash -------------------------------
(***************************************************************************)
(* client_server/uthash/src/uthash.h, the hash table of the proxy server,  *)
(* at the level of its pointers.  An element is in two lists at once: the  *)
(* chain of its bucket (hh_next, hh_prev) and the list of all elements in  *)
(* the order they were added (next, prev), of which the caller holds the   *)
(* head and the table the tail.  The links of an element that is freed are *)
(* gone with it; a pointer is an element or NULL.                          *)
(*                                                                         *)
(* The caller keeps uthash's rules, as server.c does: it adds an element   *)
(* whose key is not in the table, and frees what it has deleted.           *)
(* uthash_fatal ends the process when malloc fails; the next one starts    *)
(* without a table.                                                        *)
(***************************************************************************)
EXTENDS Integers, Sequences, FiniteSets, SequencesExt

CONSTANTS Key, Value,
          NULL, Missing, OutOfMemory, Done,
          HASH_INITIAL_NUM_BUCKETS_LOG2, HASH_BKT_CAPACITY_THRESH,
          HashFunctions,   \* a set of functions from Key to Nat
          MaxLog2          \* bound: no expansion past 2^MaxLog2 buckets

VARIABLES u,       \* the caller's head, the table, and the elements' links
          HASH_FCN, \* the hash function in use
          reply    \* the call under way and its answer

vars == <<u, HASH_FCN, reply>>

\* The structs the caller allocates: one for each key and value.
Elem == [key : Key, val : Value]

\* if (p) p->f = x
Set(f, p, x) == IF p = NULL THEN f ELSE [f EXCEPT ![p] = x]

Without(f, e) == [d \in DOMAIN f \ {e} |-> f[d]]

\* The elements from e on, along one of the links.
RECURSIVE Chain(_, _)
Chain(link, e) == IF e = NULL THEN <<>> ELSE <<e>> \o Chain(link, link[e])

NoTable == [head |-> NULL, next |-> <<>>, prev |-> <<>>,
            hh_next |-> <<>>, hh_prev |-> <<>>, tbl |-> NULL]

EmptyBuckets(n) ==
  [b \in 0 .. n - 1 |-> [hh_head |-> NULL, count |-> 0, expand_mult |-> 0]]

HASH_MAKE_TABLE(head) ==
  LET n == 2 ^ HASH_INITIAL_NUM_BUCKETS_LOG2 IN
  [buckets |-> EmptyBuckets(n), num_buckets |-> n,
   log2_num_buckets |-> HASH_INITIAL_NUM_BUCKETS_LOG2, num_items |-> 0,
   tail |-> head, ideal_chain_maxlen |-> 0, nonideal_items |-> 0,
   ineff_expands |-> 0, noexpand |-> 0]

HASH_TO_BKT(e, n) == HASH_FCN[e.key] % n
-----------------------------------------------------------------------------
HASH_FIND_IN_BKT(t, b, k) ==
  LET chain == Chain(t.hh_next, t.tbl.buckets[b].hh_head)
      i == SelectInSeq(chain, LAMBDA e : e.key = k)
  IN IF i = 0 THEN NULL ELSE chain[i]

HASH_FIND(t, k) ==
  IF t.head = NULL THEN NULL
  ELSE HASH_FIND_IN_BKT(t, HASH_FCN[k] % t.tbl.num_buckets, k)

\* An element moved to the bucket it has among twice as many.
MoveToNewBucket(t, e) ==
  LET b == HASH_TO_BKT(e, 2 * t.tbl.num_buckets)
      bkt == t.new[b]
      count == bkt.count + 1
      over == count > t.tbl.ideal_chain_maxlen
  IN [t EXCEPT
        !.new[b] = [hh_head |-> e, count |-> count,
                    expand_mult |-> IF over THEN count \div t.tbl.ideal_chain_maxlen
                                            ELSE bkt.expand_mult],
        !.tbl.nonideal_items = @ + (IF over THEN 1 ELSE 0),
        !.hh_prev = Set([@ EXCEPT ![e] = NULL], bkt.hh_head, e),
        !.hh_next[e] = bkt.hh_head]

HASH_EXPAND_BUCKETS(t) ==
  LET n == t.tbl.num_buckets
      items == t.tbl.num_items
      inOrder == FlattenSeq([b \in 1 .. n |->
                               Chain(t.hh_next, t.tbl.buckets[b - 1].hh_head)])
      ideal == items \div 2 ^ (t.tbl.log2_num_buckets + 1)
                 + (IF items % (2 * n) # 0 THEN 1 ELSE 0)
      start == [new |-> EmptyBuckets(2 * n),
                tbl |-> [t.tbl EXCEPT !.ideal_chain_maxlen = ideal,
                                      !.nonideal_items = 0],
                hh_next |-> t.hh_next, hh_prev |-> t.hh_prev]
      moved == FoldLeft(MoveToNewBucket, start, inOrder)
      ineff == IF moved.tbl.nonideal_items > items \div 2
                 THEN t.tbl.ineff_expands + 1 ELSE 0
  IN [t EXCEPT !.hh_next = moved.hh_next, !.hh_prev = moved.hh_prev,
               !.tbl = [moved.tbl EXCEPT
                          !.buckets = moved.new, !.num_buckets = 2 * n,
                          !.log2_num_buckets = @ + 1, !.ineff_expands = ineff,
                          !.noexpand = IF ineff > 1 THEN 1 ELSE @]]

HASH_ADD_TO_BKT(t, b, e) ==
  LET bkt == t.tbl.buckets[b]
      added == [t EXCEPT !.tbl.buckets[b].count = @ + 1,
                         !.tbl.buckets[b].hh_head = e,
                         !.hh_next = @ @@ (e :> bkt.hh_head),
                         !.hh_prev = Set(@, bkt.hh_head, e) @@ (e :> NULL)]
  IN IF /\ bkt.count + 1 >= (bkt.expand_mult + 1) * HASH_BKT_CAPACITY_THRESH
        /\ t.tbl.noexpand # 1
       THEN HASH_EXPAND_BUCKETS(added)
       ELSE added

HASH_DEL_IN_BKT(t, b, e) ==
  [t EXCEPT !.tbl.buckets[b].count = @ - 1,
            !.tbl.buckets[b].hh_head = IF @ = e THEN t.hh_next[e] ELSE @,
            !.hh_next = Set(@, t.hh_prev[e], t.hh_next[e]),
            !.hh_prev = Set(@, t.hh_next[e], t.hh_prev[e])]

HASH_ADD_KEYPTR(t, e) ==
  LET linked ==
        IF t.head = NULL
          THEN [t EXCEPT !.head = e, !.next = e :> NULL, !.prev = e :> NULL,
                         !.tbl = HASH_MAKE_TABLE(e)]
          ELSE [t EXCEPT !.next = [@ EXCEPT ![t.tbl.tail] = e] @@ (e :> NULL),
                         !.prev = @ @@ (e :> t.tbl.tail),
                         !.tbl.tail = e]
      counted == [linked EXCEPT !.tbl.num_items = @ + 1]
  IN HASH_ADD_TO_BKT(counted, HASH_TO_BKT(e, counted.tbl.num_buckets), e)

\* A deleted element stays the tail that the next one is appended to.
TailKept(t, e) == t.tbl.tail

TailWithout(t, e) == IF t.tbl.tail = e THEN t.prev[e] ELSE t.tbl.tail

\* HASH_DELETE and the caller's free
HASH_DELETE(t, e) ==
  LET out == HASH_DEL_IN_BKT(t, HASH_TO_BKT(e, t.tbl.num_buckets), e)
  IN IF t.prev[e] = NULL /\ t.next[e] = NULL THEN NoTable
     ELSE [out EXCEPT !.head = IF t.prev[e] = NULL THEN t.next[e] ELSE @,
                      !.next = Without(Set(@, t.prev[e], t.next[e]), e),
                      !.prev = Without(Set(@, t.next[e], t.prev[e]), e),
                      !.hh_next = Without(@, e), !.hh_prev = Without(@, e),
                      !.tbl.tail = TailWithout(t, e), !.tbl.num_items = @ - 1]

HASH_REPLACE(t, e) ==
  LET replaced == HASH_FIND(t, e.key)
  IN HASH_ADD_KEYPTR(IF replaced = NULL THEN t ELSE HASH_DELETE(t, replaced), e)

\* The loop of HASH_ITER: what it visits, in order.
HASH_ITER(t) == Chain(t.next, t.head)

HASH_COUNT(t) == IF t.head = NULL THEN 0 ELSE t.tbl.num_items

\* HASH_ITER(el, tmp) around HASH_DEL(el), as in the server's clean-up.
RECURSIVE DeleteEach(_, _)
DeleteEach(t, el) ==
  IF el = NULL THEN t
  ELSE LET tmp == t.next[el] IN DeleteEach(HASH_DELETE(t, el), tmp)
-----------------------------------------------------------------------------
\* On equal elements the second run goes first.
TakesFirstIfLess(d, e) == d.val < e.val

\* The caller's comparison: cmp(d, e) <= 0.
TakesFirst(d, e) == d.val <= e.val

RECURSIVE MergeTwo(_, _)
MergeTwo(p, q) ==
  IF p = <<>> THEN q
  ELSE IF q = <<>> \/ TakesFirst(Head(p), Head(q))
    THEN <<Head(p)>> \o MergeTwo(Tail(p), q)
    ELSE <<Head(q)>> \o MergeTwo(p, Tail(q))

\* One pass over the list: merge its runs of insize elements by twos.
RECURSIVE MergePass(_, _)
MergePass(list, insize) ==
  LET run(i) == SubSeq(list, i * insize + 1, Min({(i + 1) * insize, Len(list)}))
  IN IF list = <<>> THEN <<>>
     ELSE MergeTwo(run(0), run(1))
            \o MergePass(SubSeq(list, 2 * insize + 1, Len(list)), insize)

RECURSIVE MergePasses(_, _)
MergePasses(list, insize) ==
  LET merged == MergePass(list, insize)
  IN IF Len(list) <= 2 * insize THEN merged ELSE MergePasses(merged, 2 * insize)

HASH_SRT(t) ==
  LET s == MergePasses(HASH_ITER(t), 1)
      at(e) == CHOOSE i \in DOMAIN s : s[i] = e
  IN IF t.head = NULL THEN t
     ELSE [t EXCEPT
             !.head = s[1], !.tbl.tail = s[Len(s)],
             !.next = [e \in DOMAIN @ |-> IF at(e) = Len(s) THEN NULL ELSE s[at(e) + 1]],
             !.prev = [e \in DOMAIN @ |-> IF at(e) = 1 THEN NULL ELSE s[at(e) - 1]]]

\* The links back along a chain undo the links forth.
LinkedBack(link, back, e) ==
  LET s == Chain(link, e)
  IN \A i \in DOMAIN s : back[s[i]] = IF i = 1 THEN NULL ELSE s[i - 1]

HASH_FSCK(t) ==
  t.head # NULL =>
    LET size(b) == Len(Chain(t.hh_next, t.tbl.buckets[b].hh_head))
    IN /\ \A b \in 0 .. t.tbl.num_buckets - 1 :
            /\ LinkedBack(t.hh_next, t.hh_prev, t.tbl.buckets[b].hh_head)
            /\ t.tbl.buckets[b].count = size(b)
       /\ MapThenSumSet(size, 0 .. t.tbl.num_buckets - 1) = t.tbl.num_items
       /\ LinkedBack(t.next, t.prev, t.head)
       /\ Len(HASH_ITER(t)) = t.tbl.num_items
-----------------------------------------------------------------------------
Reply(op, k, r) == [op |-> op, key |-> k, res |-> r]

NoCall == Reply("none", Missing, Done)

Found(k) == LET e == HASH_FIND(u, k) IN IF e = NULL THEN Missing ELSE e.val

Init == u = NoTable /\ HASH_FCN \in HashFunctions /\ reply = NoCall

\* A call that puts e in the table leaves `after', unless a malloc of its
\* own (a new table, more buckets) fails: uthash_fatal exits, and the next
\* program starts with no table.
Allocating(e, after) ==
  /\ after.tbl.log2_num_buckets <= MaxLog2
  /\ \/ u' = after /\ reply' = Reply("put", e.key, Done)
     \/ /\ HASH_COUNT(after) > 1 => after.tbl.num_buckets # u.tbl.num_buckets
        /\ u' = NoTable /\ reply' = Reply("clear", Missing, Done)

Add(e) == HASH_FIND(u, e.key) = NULL /\ Allocating(e, HASH_ADD_KEYPTR(u, e))

Replace(e) == e \notin DOMAIN u.next /\ Allocating(e, HASH_REPLACE(u, e))

Get(k) == reply' = Reply("get", k, Found(k)) /\ UNCHANGED u

Del(k) ==
  LET e == HASH_FIND(u, k) IN
  /\ u' = IF e = NULL THEN u ELSE HASH_DELETE(u, e)
  /\ reply' = Reply("del", k, Found(k))

\* HASH_CLEAR; the caller frees the elements.
Clear == u' = NoTable /\ reply' = Reply("clear", Missing, Done)

DeleteAll == u' = DeleteEach(u, u.head) /\ reply' = Reply("clear", Missing, Done)

Sort == u' = HASH_SRT(u) /\ reply' = Reply("arrange", Missing, Done)

Listed ==
  LET s == ToSet(HASH_ITER(u)) IN
  [k \in {e.key : e \in s} |-> (CHOOSE e \in s : e.key = k).val]

List == reply' = Reply("list", Missing, Listed) /\ UNCHANGED u

Call ==
  /\ reply = NoCall
  /\ \/ \E e \in Elem : Add(e) \/ Replace(e)
     \/ \E k \in Key : Get(k) \/ Del(k)
     \/ Clear \/ DeleteAll \/ Sort \/ List
  /\ UNCHANGED HASH_FCN

TakeAnswer == reply # NoCall /\ reply' = NoCall /\ UNCHANGED <<u, HASH_FCN>>

Next == Call \/ TakeAnswer

Spec == Init /\ [][Next]_vars
-----------------------------------------------------------------------------
Map == INSTANCE FiniteMap WITH map <- Listed

(***************************************************************************)
(* uthash is a map: HASH_FIND goes through the bucket chains, HASH_ITER    *)
(* through the list of all elements, and both answer what the elements     *)
(* added and not yet deleted imply, across expansions, replacements,       *)
(* sorting, and deleting every element while iterating.                    *)
(***************************************************************************)
UthashIsMap == Map!Spec

(***************************************************************************)
(* After every call the table passes HASH_FSCK, every element is in the    *)
(* one bucket that HASH_FIND will look in, and tail is where the next      *)
(* HASH_ADD must append.                                                   *)
(***************************************************************************)
UthashSound ==
  /\ HASH_FSCK(u)
  /\ u.head # NULL =>
       /\ u.tbl.num_buckets = 2 ^ u.tbl.log2_num_buckets
       /\ u.tbl.tail = Last(HASH_ITER(u))
       /\ \A e \in DOMAIN u.next : HASH_FIND(u, e.key) = e

(***************************************************************************)
(* HASH_ITER visits in the order of addition, a replaced element last, and *)
(* HASH_SORT is a stable sort: it moves an element only past unequal ones. *)
(***************************************************************************)
UthashOrder ==
  [][LET before == HASH_ITER(u)
         after == HASH_ITER(u)'
         others == SelectSeq(before, LAMBDA e : e.key # reply'.key)
         precedes(d, e) == \E i, j \in DOMAIN before :
                             i < j /\ before[i] = d /\ before[j] = e
     IN CASE reply'.op = "put" -> Front(after) = others /\ Last(after).key = reply'.key
          [] reply'.op = "del" -> after = others
          [] reply'.op = "arrange" ->
               /\ ToSet(after) = ToSet(before)
               /\ \A i \in DOMAIN after : \A j \in i + 1 .. Len(after) :
                    \/ after[i].val < after[j].val
                    \/ after[i].val = after[j].val /\ precedes(after[i], after[j])
          [] OTHER -> after \in {before, <<>>}]_u
=============================================================================
