----------------------------- MODULE MCContainers ----------------------------
(***************************************************************************)
(* The containers of the repository, one at a time: a program uses the     *)
(* ring buffer, a khash or a uthash table, as the first state says.        *)
(***************************************************************************)
EXTENDS RingBuffer, Khash

VARIABLES container,
          u, HASH_FCN, utReply

utVars == <<u, HASH_FCN, utReply>>

\* uthash: one bucket at first and an expansion wherever it can happen; with
\* the keys all in one bucket the fourth stops expansion for good.
U == INSTANCE Uthash WITH
       Key <- 1 .. 4, Value <- {1, 2}, reply <- utReply,
       HASH_INITIAL_NUM_BUCKETS_LOG2 <- 0, HASH_BKT_CAPACITY_THRESH <- 1,
       HashFunctions <- {[k \in 1 .. 4 |-> 5], [k \in 1 .. 4 |-> k]},
       MaxLog2 <- 4

ContainersInit ==
  /\ container \in {"ring", "khash", "uthash"}
  /\ RingInit /\ KhashInit
  /\ IF container = "uthash"
       THEN U!Init
       ELSE u = U!NoTable /\ HASH_FCN = <<>> /\ utReply = U!NoCall

ContainersNext ==
  /\ UNCHANGED container
  /\ \/ container = "ring" /\ RingNext /\ UNCHANGED <<khVars, utVars>>
     \/ container = "khash" /\ KhashNext /\ UNCHANGED <<ringVars, utVars>>
     \/ container = "uthash" /\ U!Next /\ UNCHANGED <<ringVars, khVars>>

ContainersSpec ==
  ContainersInit /\ [][ContainersNext]_<<container, ringVars, khVars, utVars>>

(***************************************************************************)
(* HASH_ADD, HASH_REPLACE, HASH_FIND, HASH_DELETE and HASH_CLEAR are the   *)
(* operations of a finite map (see Uthash).                                *)
(***************************************************************************)
UthashIsMap == U!UthashIsMap

(***************************************************************************)
(* What HASH_FSCK tests holds after every call (see Uthash).               *)
(***************************************************************************)
UthashSound == U!UthashSound

(***************************************************************************)
(* The application order: HASH_ADD appends, HASH_DELETE closes the gap, and*)
(* HASH_SRT sorts without changing the order of equal elements (see        *)
(* Uthash).                                                                *)
(***************************************************************************)
UthashOrder == U!UthashOrder
=============================================================================
