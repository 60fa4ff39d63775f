-------------------------------- MODULE Khash --------------------------------
(***************************************************************************)
(* hash_table/khash.h, the open-addressing hash table instantiated by      *)
(* hash_table/example.c as a map with int keys (static_library/include     *)
(* holds the same file).  Each bucket has two flag bits, "empty" and       *)
(* "del"; a bucket with neither is live.  Collisions are probed at         *)
(* triangular distances, so a loop "advance until a condition" is written  *)
(* as the first number of steps at which the condition holds.  kh_resize   *)
(* rehashes in place, one round of its two loops at a time.                *)
(*                                                                         *)
(* malloc and realloc may fail at any of their calls, except for the       *)
(* realloc that makes an array smaller.                                    *)
(***************************************************************************)
EXTENDS Integers, FiniteSetsExt

CONSTANTS Key,       \* the int keys; kh_int_hash_func is the identity
          Val,
          Unwritten, \* memory nobody has written
          Missing, OutOfMemory, Done,
          Sizes      \* bound: the arguments a caller gives kh_resize

ASSUME KeyAssumption == Key \subseteq Int /\ Missing \notin Key /\ Sizes \subseteq Nat

VARIABLES n_buckets, size, n_occupied, upper_bound,
          flags, keys, vals,        \* arrays
          pc,                       \* "ready", "rehash" and "kick" (the loops of
                                    \* kh_resize) or "put" (kh_put after it)
          j, new_n_buckets, new_flags, hand,  \* locals of kh_resize
          arg,                      \* the entry that kh_put is to place
          reply                     \* the last call and its answer

table == <<n_buckets, size, n_occupied, upper_bound, flags, keys, vals>>
locals == <<j, new_n_buckets, new_flags, hand>>
khVars == <<table, pc, locals, arg, reply>>

Entry(k, v) == [key |-> k, val |-> v]
Nothing == Entry(Missing, Missing)

isempty(f, i) == "empty" \in f[i]
isdel(f, i) == "del" \in f[i]
iseither(f, i) == f[i] # {}
AllEmpty(n) == [i \in 0 .. n - 1 |-> {"empty"}]

kroundup32(x) == IF x = 0 THEN 0 ELSE Min({2 ^ e : e \in 0 .. x} \ 0 .. x - 1)

\* The buckets that kh_resize makes
RoundedUp(wanted) == IF kroundup32(wanted) < 4 THEN 4 ELSE kroundup32(wanted)

\* A bound that lets every bucket be occupied
HASH_UPPER_AsLarge(n) == n

\* (khint_t)(n * 0.77 + 0.5)
HASH_UPPER(n) == (77 * n + 50) \div 100

Realloc(f, n) == [i \in 0 .. n - 1 |-> IF i \in DOMAIN f THEN f[i] ELSE Unwritten]

kh_init ==
  /\ n_buckets = 0 /\ size = 0 /\ n_occupied = 0 /\ upper_bound = 0
  /\ flags = AllEmpty(0) /\ keys = Realloc(<<>>, 0) /\ vals = Realloc(<<>>, 0)
-----------------------------------------------------------------------------
\* i = (i + (++step)) & mask, after `step' rounds
Probe(key, step, n) == (key + (step * (step + 1)) \div 2) % n

\* The first step that ends the search for key: an empty bucket, the key's
\* own, or back at the first one.
LastStep(key) ==
  LET at(s) == Probe(key, s, n_buckets) IN
  Min({s \in 0 .. 2 * n_buckets :
         \/ isempty(flags, at(s))
         \/ ~isdel(flags, at(s)) /\ keys[at(s)] = key
         \/ s > 0 /\ at(s) = at(0)})

kh_get(key) ==
  IF n_buckets = 0 THEN 0
  ELSE LET i == Probe(key, LastStep(key), n_buckets) IN
       IF iseither(flags, i) \/ keys[i] # key THEN n_buckets ELSE i

kh_exist(x) == ~iseither(flags, x)

kh_foreach == {x \in 0 .. n_buckets - 1 : kh_exist(x)}

\* What kh_key and kh_value read in bucket x
Bucket(x) == Entry(keys[x], vals[x])

\* The map that a set of entries stands for
MapOf(E) == [k \in {e.key : e \in E} |-> (CHOOSE e \in E : e.key = k).val]

\* Without the passed sites: the first deleted bucket is taken at once.
PutSiteAtOnce(key) ==
  LET at(s) == Probe(key, s, n_buckets)
  IN at(Min({s \in 0 .. LastStep(key) :
               iseither(flags, at(s)) \/ keys[at(s)] = key}))

\* The bucket for key in a table with room: the last deleted one passed on
\* the way to an empty bucket, or to the first again; else where it stopped.
PutSite(key) ==
  LET at(s) == Probe(key, s, n_buckets)
      last == LastStep(key)
      deleted == {s \in 0 .. last - 1 : isdel(flags, at(s))}
      stopped == isempty(flags, at(last)) \/ (last > 0 /\ at(last) = at(0))
  IN IF stopped /\ deleted # {} THEN at(Max(deleted)) ELSE at(last)
-----------------------------------------------------------------------------
Reply(op, k, r) == [op |-> op, key |-> k, res |-> r]

NoReply == Reply("none", Missing, Done)

KhashInit ==
  /\ kh_init
  /\ pc = "ready" /\ arg = Nothing /\ reply = NoReply
  /\ j = 0 /\ new_n_buckets = 0 /\ new_flags = AllEmpty(0) /\ hand = Nothing

\* kh_resize, up to its loops, on behalf of kh_put with the entry e or of a
\* caller of its own (e is Nothing).  It changes nothing if the requested
\* size is too small, and nothing but the room of keys if memory runs out.
kh_resize(wanted, e) ==
  LET n == RoundedUp(wanted)
      fail == /\ reply' = IF e = Nothing THEN Reply("arrange", Missing, OutOfMemory)
                                         ELSE Reply("put", e.key, OutOfMemory)
              /\ UNCHANGED <<n_buckets, size, n_occupied, upper_bound, flags, vals,
                             pc, locals, arg>>
  IN \/ /\ size >= HASH_UPPER(n)
        /\ IF e = Nothing THEN reply' = Reply("arrange", Missing, Done) /\ UNCHANGED <<pc, arg>>
                          ELSE pc' = "put" /\ arg' = e /\ UNCHANGED reply
        /\ UNCHANGED <<table, locals>>
     \/ size < HASH_UPPER(n) /\ fail /\ UNCHANGED keys
     \/ size < HASH_UPPER(n) /\ n_buckets < n /\ fail /\ keys' = Realloc(keys, n)
     \/ /\ size < HASH_UPPER(n)
        /\ IF n_buckets < n THEN keys' = Realloc(keys, n) /\ vals' = Realloc(vals, n)
                            ELSE UNCHANGED <<keys, vals>>
        /\ new_n_buckets' = n /\ new_flags' = AllEmpty(n) /\ j' = 0
        /\ pc' = "rehash" /\ arg' = e
        /\ UNCHANGED <<n_buckets, size, n_occupied, upper_bound, flags, hand, reply>>

\* One round of the for loop; a live bucket is taken out.
RehashBucket ==
  /\ pc = "rehash" /\ j # n_buckets
  /\ IF iseither(flags, j)
       THEN j' = j + 1 /\ UNCHANGED <<flags, hand, pc>>
       ELSE /\ hand' = Bucket(j) /\ flags' = [flags EXCEPT ![j] = {"del"}]
            /\ pc' = "kick" /\ UNCHANGED j
  /\ UNCHANGED <<n_buckets, size, n_occupied, upper_bound, keys, vals,
                 new_n_buckets, new_flags, arg, reply>>

\* The bucket of the kick-out process: the first one that is empty.
KickSite(key) ==
  Probe(key, Min({s \in 0 .. new_n_buckets - 1 :
                    isempty(new_flags, Probe(key, s, new_n_buckets))}),
        new_n_buckets)

\* One round of the kick-out process: place what is in hand, and take what was
\* there, if it was live.
KickOut ==
  LET i == KickSite(hand.key) IN
  /\ pc = "kick"
  /\ new_flags' = [new_flags EXCEPT ![i] = {}]
  /\ keys' = [keys EXCEPT ![i] = hand.key]
  /\ vals' = [vals EXCEPT ![i] = hand.val]
  /\ IF i < n_buckets /\ ~iseither(flags, i)
       THEN /\ hand' = Bucket(i) /\ flags' = [flags EXCEPT ![i] = {"del"}]
            /\ UNCHANGED <<pc, j>>
       ELSE pc' = "rehash" /\ j' = j + 1 /\ hand' = Nothing /\ UNCHANGED flags
  /\ UNCHANGED <<n_buckets, size, n_occupied, upper_bound, new_n_buckets, arg, reply>>

\* The end of kh_resize, which shrinks the arrays if they are too large.
Rehashed ==
  /\ pc = "rehash" /\ j = n_buckets
  /\ IF n_buckets > new_n_buckets
       THEN keys' = Realloc(keys, new_n_buckets) /\ vals' = Realloc(vals, new_n_buckets)
       ELSE UNCHANGED <<keys, vals>>
  /\ flags' = new_flags /\ n_buckets' = new_n_buckets /\ n_occupied' = size
  /\ upper_bound' = HASH_UPPER(new_n_buckets)
  /\ j' = 0 /\ new_n_buckets' = 0 /\ new_flags' = AllEmpty(0)
  /\ IF arg = Nothing
       THEN pc' = "ready" /\ reply' = Reply("arrange", Missing, Done)
       ELSE pc' = "put" /\ UNCHANGED reply
  /\ UNCHANGED <<size, hand, arg>>

\* kh_put, up to its search
kh_put(e) ==
  IF n_occupied < upper_bound
    THEN pc' = "put" /\ arg' = e /\ UNCHANGED <<table, locals, reply>>
    ELSE kh_resize(IF n_buckets > 2 * size THEN n_buckets - 1 ELSE n_buckets + 1, e)

\* The rest of kh_put, and its caller's assignment to kh_value
Insert ==
  LET x == PutSite(arg.key) IN
  /\ pc = "put"
  /\ IF iseither(flags, x)
       THEN /\ keys' = [keys EXCEPT ![x] = arg.key]
            /\ flags' = [flags EXCEPT ![x] = {}]
            /\ size' = size + 1
            /\ n_occupied' = IF isempty(flags, x) THEN n_occupied + 1 ELSE n_occupied
       ELSE UNCHANGED <<keys, flags, size, n_occupied>>
  /\ vals' = [vals EXCEPT ![x] = arg.val]
  /\ reply' = Reply("put", arg.key, Done)
  /\ pc' = "ready" /\ arg' = Nothing
  /\ UNCHANGED <<n_buckets, upper_bound, locals>>

Found(k) == LET x == kh_get(k) IN IF x = n_buckets THEN Missing ELSE vals[x]

Get(k) == reply' = Reply("get", k, Found(k)) /\ UNCHANGED <<table, pc, locals, arg>>

\* kh_get, and kh_del of what it answers
kh_del(k) ==
  LET x == kh_get(k) IN
  /\ reply' = Reply("del", k, Found(k))
  /\ IF x # n_buckets /\ ~iseither(flags, x)
       THEN flags' = [flags EXCEPT ![x] = {"del"}] /\ size' = size - 1
       ELSE UNCHANGED <<flags, size>>
  /\ UNCHANGED <<n_buckets, n_occupied, upper_bound, keys, vals, pc, locals, arg>>

kh_clear ==
  /\ flags' = AllEmpty(n_buckets) /\ size' = 0 /\ n_occupied' = 0
  /\ reply' = Reply("clear", Missing, Done)
  /\ UNCHANGED <<n_buckets, upper_bound, keys, vals, pc, locals, arg>>

\* A traversal from kh_begin to kh_end
List ==
  /\ reply' = Reply("list", Missing, MapOf({Bucket(x) : x \in kh_foreach}))
  /\ UNCHANGED <<table, pc, locals, arg>>

\* kh_destroy, then kh_init
Renew ==
  /\ n_buckets' = 0 /\ size' = 0 /\ n_occupied' = 0 /\ upper_bound' = 0
  /\ flags' = AllEmpty(0) /\ keys' = Realloc(<<>>, 0) /\ vals' = Realloc(<<>>, 0)
  /\ reply' = Reply("clear", Missing, Done)
  /\ UNCHANGED <<pc, locals, arg>>

Call ==
  /\ reply = NoReply /\ pc = "ready"
  /\ \/ \E k \in Key :
          Get(k) \/ kh_del(k) \/ \E v \in Val : kh_put(Entry(k, v))
     \/ \E n \in Sizes : kh_resize(n, Nothing)
     \/ kh_clear \/ List \/ Renew

TakeAnswer ==
  reply # NoReply /\ reply' = NoReply /\ UNCHANGED <<table, pc, locals, arg>>

KhashNext == Call \/ RehashBucket \/ KickOut \/ Rehashed \/ Insert \/ TakeAnswer

KhashSpec == KhashInit /\ [][KhashNext]_khVars
-----------------------------------------------------------------------------
\* The buckets that hold an entry: the live ones, and during a resize those
\* already placed.  What is in hand is nowhere else.
Placed == {x \in 0 .. new_n_buckets - 1 : ~iseither(new_flags, x)}
InHand == IF pc = "kick" THEN {hand} ELSE {}
Held == {Bucket(x) : x \in kh_foreach \cup Placed} \cup InHand

KhashMap == INSTANCE FiniteMap WITH map <- MapOf(Held), Value <- Val

(***************************************************************************)
(* khash is a map: kh_put, kh_get, kh_del, kh_clear, kh_resize and a       *)
(* traversal answer what the keys put and not yet deleted imply, through   *)
(* collisions, reused deleted buckets, rehashing in place, growing,        *)
(* shrinking, and an allocation that fails half way through a resize.      *)
(***************************************************************************)
KhashIsMap == KhashMap!Spec

(***************************************************************************)
(* A probe always ends: the counters are those of the buckets, a key is    *)
(* held at most once, n_occupied stays at or below upper_bound, which      *)
(* leaves at least one bucket empty, and so does what kh_resize fills.     *)
(***************************************************************************)
KhashHasRoom ==
  LET occupied == {x \in 0 .. n_buckets - 1 : ~isempty(flags, x)}
      holding == kh_foreach \cup Placed
  IN /\ size = Cardinality(holding) + Cardinality(InHand)
     /\ n_occupied = Cardinality(occupied)
     /\ n_occupied <= upper_bound
     /\ n_buckets > 0 => occupied # 0 .. n_buckets - 1
     /\ new_n_buckets > 0 => Placed # 0 .. new_n_buckets - 1
     /\ \A x, y \in holding : keys[x] = keys[y] => x = y
     /\ pc = "kick" => \A x \in holding : keys[x] # hand.key
=============================================================================
