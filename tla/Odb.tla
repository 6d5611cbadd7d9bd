-------------------------------- MODULE Odb --------------------------------
(***************************************************************************)
(* libdb: one sample file, a hash table inside a shared mapping of a file. *)
(* One process (the writer: oprofiled or the operf converter) updates the  *)
(* file; another one (the reader: a pp tool) may iterate over it at the    *)
(* same time; the writer may be killed between two stores and start again  *)
(* from what is in the file.                                               *)
(*                                                                         *)
(* Every step is one store, or one group of stores no other process can    *)
(* tell apart, of the functions of db_manage.c, db_insert.c and            *)
(* db_travel.c.                                                            *)
(***************************************************************************)
EXTENDS Integers, FiniteSets

CONSTANTS Keys,         \* odb_key_t values in use
          Offsets,      \* amounts passed to odb_update_node_with_offset
          Mix(_),       \* the bits of a key odb_do_hash folds together
          DEFAULT_NODE_NR, \* nodes of a new file
          MaxSize,      \* bound: the file never grows beyond this many nodes
          MaxCount,     \* bound: updates that would store more are not made
          ValueBits,    \* width of odb_value_t
          LongBits,     \* width of unsigned long
          KillPoints    \* writer program points at which it may be killed

ASSUME KeysAssumption == Keys \subseteq Nat
\* amounts are unsigned longs
ASSUME OffsetsAssumption == Offsets \subseteq 0..(2^LongBits - 1)
ASSUME MixAssumption == \A k \in Keys : Mix(k) \in Nat
ASSUME SizeAssumption == /\ DEFAULT_NODE_NR \in Nat \ {0}
                         /\ MaxSize \in Nat
                         /\ DEFAULT_NODE_NR <= MaxSize
                         /\ MaxCount \in Nat
\* "hash table size are always power of two": & hash_mask is then % size
ASSUME PowerOfTwo == DEFAULT_NODE_NR \in {2^n : n \in 0..20}
ASSUME WidthAssumption == /\ ValueBits \in Nat
                          /\ LongBits \in Nat
                          /\ 2^ValueBits \in Nat \ {0}
                          /\ 2^LongBits \in Nat \ {0}

VARIABLES
  fileNr,   \* nodes the file's length accounts for; 0 is an empty file
  descr,    \* odb_descr_t, stored in the file
  node,     \* node_base, stored in the file
  hash,     \* hash_base, stored in the file
  pc,       \* where the writer is
  key,      \* writer: key of the operation under way
  offset,   \* writer: amount of the operation under way
  index,    \* writer: node the lookup loop looks at
  pos,      \* writer: next node to rehash
  rpc,      \* where the reader is
  rsize,    \* reader: nodes its own mapping was sized for
  rnr,      \* reader: number of nodes odb_get_iterator returned
  rpos,     \* reader: nodes read so far
  rsum,     \* reader: what it has added up for every key
  rbase     \* history: the counts stored when the iteration began

file == <<fileNr, descr, node, hash>>
wlocal == <<key, offset, index, pos>>
reader == <<rpc, rsize, rnr, rpos, rsum, rbase>>
vars == <<file, pc, wlocal, reader>>

Slots == 1..(MaxSize - 1)      \* node 0 is never used
Buckets == 0..(MaxSize - 1)
Values == 0..(2^ValueBits - 1)
Node == [key : Keys, value : Values, next : 0..(MaxSize - 1)]
\* A node nobody has written: it may hold bytes of the smaller hash table.
NoNode == [key |-> -1, value |-> 0, next |-> 0]

BUCKET_FACTOR == 1

\* The layout of a file of nr nodes, in bytes from the end of its descriptor:
\* node array, then hash table; tables_size is where the latter ends.
sizeof_node == 16
sizeof_index == 4
hash_base_at(nr) == nr * sizeof_node
tables_size(nr) == nr * (sizeof_index * BUCKET_FACTOR) + nr * sizeof_node

\* hash_mask is (size * BUCKET_FACTOR) - 1 and size a power of two.
odb_do_hash(size, k) == Mix(k) % (size * BUCKET_FACTOR)

\* Nodes a reader of current_size can see.
Committed == 1..(descr.current_size - 1)

-----------------------------------------------------------------------------
(***************************************************************************)
(* The sum node->value + offset is an unsigned long; the value stored is   *)
(* truncated to odb_value_t.                                               *)
(***************************************************************************)
StoredSum(value, off) ==
  IF (value + off) % 2^LongBits # 0 THEN (value + off) % 2^ValueBits ELSE value

Init ==
  /\ fileNr = 0
  /\ descr = [size |-> 0, current_size |-> 0]
  /\ node = [i \in Slots |-> NoNode]
  /\ hash = [b \in Buckets |-> 0]
  /\ pc = "closed"
  /\ key = 0 /\ offset = 0 /\ index = 0 /\ pos = 0
  /\ rpc = "off" /\ rsize = 0 /\ rnr = 0 /\ rpos = 0
  /\ rsum = [k \in Keys |-> 0]
  /\ rbase = [k \in Keys |-> 0]

\* The writer returns to its caller: its locals are dead.
Return(where) == /\ pc' = where
                 /\ key' = 0 /\ offset' = 0 /\ index' = 0 /\ pos' = 0

-----------------------------------------------------------------------------
(* odb_open, odb_close and the death of the writer                         *)

\* odb_open of an empty file, O_CREAT: the file is given its first length...
OpenCreate ==
  /\ pc = "closed" /\ fileNr = 0
  /\ fileNr' = DEFAULT_NODE_NR
  /\ Return("creating")
  /\ UNCHANGED <<descr, node, hash, reader>>

\* ...and mapped, and its descriptor is written.
OpenInitDescr ==
  /\ pc = "creating"
  /\ descr' = [size |-> DEFAULT_NODE_NR, current_size |-> 1]
  /\ Return("idle")
  /\ UNCHANGED <<fileNr, node, hash, reader>>

\* mmap fails after ftruncate: the file keeps its length.
OpenFail ==
  /\ pc = "creating"
  /\ Return("closed")
  /\ UNCHANGED <<file, reader>>

\* odb_open of a file that has contents: only when the number of nodes its
\* length accounts for is the one it records (otherwise EINVAL, no effect).
OpenExisting ==
  /\ pc = "closed" /\ fileNr # 0 /\ fileNr = descr.size
  /\ Return("idle")
  /\ UNCHANGED <<file, reader>>

odb_close ==
  /\ pc = "idle"
  /\ Return("closed")
  /\ UNCHANGED <<file, reader>>

\* The writer is killed; the shared mapping keeps what it had stored.
Kill ==
  /\ pc \in KillPoints /\ pc # "closed"
  /\ Return("closed")
  /\ UNCHANGED <<file, reader>>

-----------------------------------------------------------------------------
(* odb_update_node_with_offset and odb_add_node                            *)

\* Mutant: > for >=, the last node of the table and the first bucket collide.
ReserveOrSetup_OneLate ==
  IF descr.current_size > descr.size THEN "reserve" ELSE "setup"

ReserveOrSetup ==
  IF descr.current_size >= descr.size THEN "reserve" ELSE "setup"

odb_update_node_with_offset(k, off) ==
  /\ pc = "idle"
  /\ pc' = "walk"
  /\ key' = k /\ offset' = off
  /\ index' = hash[odb_do_hash(descr.size, k)]
  /\ UNCHANGED <<pos, file, reader>>

\* Mutant: the node is counted once more, on top of the amount.
UpdateHit_OnceMore ==
  /\ pc = "walk" /\ index # 0 /\ node[index].key = key
  /\ node[index].value + offset <= MaxCount
  /\ node' = [node EXCEPT ![index].value = StoredSum(@, offset + 1)]
  /\ Return("idle")
  /\ UNCHANGED <<fileNr, descr, hash, reader>>

UpdateHit ==
  /\ pc = "walk" /\ index # 0 /\ node[index].key = key
  /\ node[index].value + offset <= MaxCount
  /\ node' = [node EXCEPT ![index].value = StoredSum(@, offset)]
  /\ Return("idle")
  /\ UNCHANGED <<fileNr, descr, hash, reader>>

UpdateNext ==
  /\ pc = "walk" /\ index # 0 /\ node[index].key # key
  /\ index' = node[index].next
  /\ UNCHANGED <<pc, key, offset, pos, file, reader>>

UpdateMiss ==
  /\ pc = "walk" /\ index = 0
  /\ pc' = ReserveOrSetup
  /\ UNCHANGED <<wlocal, file, reader>>

\* Adds a node without looking for one with the same key; its only caller
\* (opimport) copies the nodes of another, well built, sample file.
odb_add_node(k, off) ==
  /\ pc = "idle"
  /\ \A i \in Committed : node[i].key # k
  /\ pc' = ReserveOrSetup
  /\ key' = k /\ offset' = off
  /\ UNCHANGED <<index, pos, file, reader>>

-----------------------------------------------------------------------------
(* odb_grow_hashtable                                                      *)

GrowTruncate ==
  /\ pc = "reserve" /\ 2 * descr.size <= MaxSize
  /\ fileNr' = 2 * descr.size
  /\ pc' = "remap"
  /\ UNCHANGED <<descr, node, hash, wlocal, reader>>

\* ftruncate or mremap failed: EINVAL is returned, nothing is undone.
GrowFail ==
  /\ pc \in {"reserve", "remap"}
  /\ Return("idle")
  /\ UNCHANGED <<file, reader>>

\* mremap succeeded; size doubles and hash_base moves into the new, zeroed,
\* part of the file (TablesDisjoint in OdbProofs).
GrowResize ==
  /\ pc = "remap"
  /\ descr' = [descr EXCEPT !.size = 2 * @]
  /\ hash' = [b \in Buckets |-> 0]
  /\ pos' = 1
  /\ pc' = "rehash"
  /\ UNCHANGED <<fileNr, node, key, offset, index, reader>>

GrowRehash ==
  /\ pc = "rehash" /\ pos < descr.current_size
  /\ LET b == odb_do_hash(descr.size, node[pos].key)
     IN  /\ node' = [node EXCEPT ![pos].next = hash[b]]
         /\ hash' = [hash EXCEPT ![b] = pos]
  /\ pos' = pos + 1
  /\ UNCHANGED <<fileNr, descr, pc, key, offset, index, reader>>

GrowDone ==
  /\ pc = "rehash" /\ pos >= descr.current_size
  /\ pc' = "setup"
  /\ UNCHANGED <<wlocal, file, reader>>

-----------------------------------------------------------------------------
(* add_node, once a free node exists                                       *)

\* Mutant: the new node drops the rest of its chain.
AddSetup_NoNext ==
  /\ pc = "setup"
  /\ node' = [node EXCEPT ![descr.current_size] =
                [key |-> key, value |-> offset % 2^ValueBits, next |-> 0]]
  /\ pc' = "link"
  /\ UNCHANGED <<fileNr, descr, hash, wlocal, reader>>

AddSetup ==
  /\ pc = "setup"
  /\ node' = [node EXCEPT ![descr.current_size] =
                [key   |-> key,
                 value |-> offset % 2^ValueBits,
                 next  |-> hash[odb_do_hash(descr.size, key)]]]
  /\ pc' = "link"
  /\ UNCHANGED <<fileNr, descr, hash, wlocal, reader>>

AddLink ==
  /\ pc = "link"
  /\ hash' = [hash EXCEPT ![odb_do_hash(descr.size, key)] = descr.current_size]
  /\ pc' = "commit"
  /\ UNCHANGED <<fileNr, descr, node, wlocal, reader>>

odb_commit_reservation ==
  /\ pc = "commit"
  /\ descr' = [descr EXCEPT !.current_size = @ + 1]
  /\ Return("idle")
  /\ UNCHANGED <<fileNr, node, hash, reader>>

Writer ==
  \/ OpenCreate \/ OpenInitDescr \/ OpenFail \/ OpenExisting \/ odb_close \/ Kill
  \/ \E k \in Keys, off \in Offsets :
       odb_update_node_with_offset(k, off) \/ odb_add_node(k, off)
  \/ UpdateHit \/ UpdateNext \/ UpdateMiss
  \/ GrowTruncate \/ GrowFail \/ GrowResize \/ GrowRehash \/ GrowDone
  \/ AddSetup \/ AddLink \/ odb_commit_reservation

-----------------------------------------------------------------------------
(***************************************************************************)
(* The count stored for a key, and the reader: profile_t::add_sample_file  *)
(* opens the file ODB_RDONLY, asks for the iterator and adds up the nodes. *)
(***************************************************************************)
Count(k) == IF \E i \in Committed : node[i].key = k
            THEN node[CHOOSE i \in Committed : node[i].key = k].value
            ELSE 0

ReaderReset ==
  /\ rpc' = "off" /\ rsize' = 0 /\ rnr' = 0 /\ rpos' = 0
  /\ rsum' = [k \in Keys |-> 0]
  /\ rbase' = [k \in Keys |-> 0]

\* open_sample_file: a file whose header is not filled in (the writer does
\* that after odb_open) is refused; else fstat, and mmap of what the length
\* accounts for.
ReaderMap ==
  /\ rpc = "off" /\ descr.size # 0
  /\ rsize' = fileNr
  /\ rpc' = "mapped"
  /\ UNCHANGED <<file, pc, wlocal, rnr, rpos, rsum, rbase>>

\* The sanity check: EINVAL when the recorded size is another one.
ReaderRefuse ==
  /\ rpc = "mapped" /\ rsize # descr.size
  /\ rpc' = "off" /\ rsize' = 0
  /\ UNCHANGED <<file, pc, wlocal, rnr, rpos, rsum, rbase>>

ReaderAccept ==
  /\ rpc = "mapped" /\ rsize = descr.size
  /\ rpc' = "ready"
  /\ UNCHANGED <<file, pc, wlocal, rsize, rnr, rpos, rsum, rbase>>

\* Mutant: the capacity of the table for the number of its nodes.
odb_get_iterator_Size ==
  /\ rpc = "ready"
  /\ rnr' = descr.size - 1
  /\ rpc' = "reading"
  /\ rbase' = [k \in Keys |-> Count(k)]
  /\ UNCHANGED <<file, pc, wlocal, rsize, rpos, rsum>>

\* Mutant: node 0 is not discounted.
odb_get_iterator_OneMore ==
  /\ rpc = "ready"
  /\ rnr' = descr.current_size
  /\ rpc' = "reading"
  /\ rbase' = [k \in Keys |-> Count(k)]
  /\ UNCHANGED <<file, pc, wlocal, rsize, rpos, rsum>>

odb_get_iterator ==
  /\ rpc = "ready"
  /\ rnr' = descr.current_size - 1
  /\ rpc' = "reading"
  /\ rbase' = [k \in Keys |-> Count(k)]
  /\ UNCHANGED <<file, pc, wlocal, rsize, rpos, rsum>>

ReaderNode ==
  /\ rpc = "reading" /\ rpos < rnr
  /\ rpos' = rpos + 1
  /\ rsum' = [k \in Keys |-> IF node[rpos + 1].key = k
                             THEN rsum[k] + node[rpos + 1].value
                             ELSE rsum[k]]
  /\ UNCHANGED <<file, pc, wlocal, rpc, rsize, rnr, rbase>>

\* The node lies beyond the reader's own mapping, which was sized before the
\* writer grew the file: unless the last page covers it, the reader faults.
ReaderFault ==
  /\ rpc = "reading" /\ rpos < rnr /\ rpos + 1 >= rsize
  /\ ReaderReset
  /\ UNCHANGED <<file, pc, wlocal>>

ReaderClose ==
  /\ rpc = "reading" /\ rpos = rnr
  /\ ReaderReset
  /\ UNCHANGED <<file, pc, wlocal>>

Reader == \/ ReaderMap \/ ReaderRefuse \/ ReaderAccept
          \/ odb_get_iterator \/ ReaderNode \/ ReaderFault \/ ReaderClose

Next == Writer \/ Reader

Spec == Init /\ [][Next]_vars

-----------------------------------------------------------------------------
(* Properties                                                              *)

\* The state has its shape, and a slot exists for the node being added.
TypeOK ==
  /\ fileNr \in 0..MaxSize
  /\ descr \in [size : 0..MaxSize, current_size : 0..MaxSize]
  /\ node \in [Slots -> Node \cup {NoNode}]
  /\ hash \in [Buckets -> 0..(MaxSize - 1)]
  /\ pc \in {"closed", "creating", "idle", "walk", "reserve", "remap",
             "rehash", "setup", "link", "commit"}
  /\ key \in Keys \cup {0} /\ offset \in Offsets \cup {0}
  /\ index \in 0..(MaxSize - 1) /\ pos \in 0..MaxSize
  /\ rpc \in {"off", "mapped", "ready", "reading"}
  /\ rsize \in 0..MaxSize /\ rnr \in 0..MaxSize /\ rpos \in 0..MaxSize
  /\ rsum \in [Keys -> Nat] /\ rbase \in [Keys -> Nat]

\* The descriptor is in order wherever an operation reads it: a mapped file
\* has nodes, current_size is within size and never at it while a node is
\* being set up, and the length of a file that is mapped accounts for at
\* least the nodes it records.  A file without descriptor has a zeroed table,
\* and no reader.
DescrInv ==
  /\ descr.size = 0 => \A b \in Buckets : hash[b] = 0
  /\ rpc # "off" => descr.size # 0
  /\ (descr.size = 0) = (descr.current_size = 0)
  /\ descr.current_size <= descr.size
  /\ descr.size <= fileNr
  /\ pc = "creating" => descr.size = 0 /\ fileNr = DEFAULT_NODE_NR
  /\ pc \notin {"closed", "creating"} => descr.size # 0
  /\ pc \in {"setup", "link", "commit"} => descr.current_size < descr.size
  /\ pc = "rehash" => pos \in 1..descr.current_size
                      /\ descr.current_size < descr.size
  /\ pc = "remap" => fileNr = 2 * descr.size

\* The number of the first node that is not in a chain yet.
LinkedNr == IF pc = "rehash" THEN pos
            ELSE IF pc = "commit" THEN descr.current_size + 1
            ELSE descr.current_size

Bucket(i) == odb_do_hash(descr.size, node[i].key)

\* x is the last of the nodes 1..n-1 that belong to bucket b, 0 if none do.
IsLast(x, b, n) ==
  /\ x # 0 => x \in 1..(n - 1) /\ Bucket(x) = b
  /\ \A j \in 1..(n - 1) : Bucket(j) = b => j <= x

\* A chain lists the linked nodes of its bucket from the newest to the oldest,
\* and nothing else: this is what a lookup relies on, while the table is being
\* rebuilt, while a node is being added, and after the writer was killed.
ChainInv ==
  /\ \A i \in 1..(LinkedNr - 1) : IsLast(node[i].next, Bucket(i), i)
  /\ \A b \in 0..(descr.size - 1) : IsLast(hash[b], b, LinkedNr)

\* What the operation under way has established: the nodes committed so far are
\* written; a lookup is in the chain of its key and has passed no node with it; once it missed there is none; a node set up holds the key
\* and the amount and points at the chain it is to be put in front of.
OperationInv ==
  /\ \A i \in Committed : node[i] # NoNode
  /\ pc \in {"walk", "reserve", "remap", "rehash", "setup", "link", "commit"} =>
       key \in Keys /\ offset \in Offsets
  /\ pc = "walk" =>
       /\ index # 0 => /\ index \in Committed
                       /\ Bucket(index) = odb_do_hash(descr.size, key)
       /\ \A i \in Committed : node[i].key = key => i <= index
  /\ pc \in {"reserve", "remap", "rehash", "setup", "link", "commit"} =>
       \A i \in Committed : node[i].key # key
  /\ pc \in {"link", "commit"} =>
       /\ node[descr.current_size].key = key
       /\ node[descr.current_size].value = offset % 2^ValueBits
  /\ pc = "link" =>
       node[descr.current_size].next = hash[odb_do_hash(descr.size, key)]

\* A key is stored in one node only (check_redundant_key): the sum the pp
\* tools show for it and the node a lookup finds are the same.
UniqueKeys ==
  \A i, j \in Committed : node[i].key = node[j].key => i = j

\* The reader only meets nodes that were completely written and that stay
\* what they were: "node setup is visible from another process like pp tools
\* in an atomic way".
ReaderSeesWritten ==
  rpc = "reading" => /\ rnr < descr.current_size
                     /\ \A i \in 1..rnr : node[i] # NoNode

\* What a report made while samples arrive says of a key lies between what was
\* stored when its iteration began and what is stored when it ends, although
\* nodes are added, and the table is rebuilt, in between.
ReportBounded ==
  (rpc = "reading" /\ rpos = rnr) =>
    \A k \in Keys : rbase[k] <= rsum[k] /\ rsum[k] <= Count(k)

-----------------------------------------------------------------------------
(***************************************************************************)
(* odb_check_hash, the check of the library's own test: a chain is walked  *)
(* with as many steps as there are nodes, which only a circular one uses   *)
(* up before it comes to the index 0, the end.                             *)
(***************************************************************************)
\* The nth index of the chain of bucket b, 0 from its end on.
Walk(b) ==
  LET follow == [i \in 0..(MaxSize - 1) |-> IF i = 0 THEN 0 ELSE node[i].next]
      at[n \in 0..descr.current_size] ==
        IF n = 0 THEN hash[b] ELSE follow[at[n - 1]]
  IN  at

Met(b) == LET walk == Walk(b) IN {walk[n] : n \in 0..descr.current_size}

odb_check_hash ==
  LET Table == 0..(descr.size - 1)
      met == [b \in Table |-> Met(b)]
  IN  /\ \A b \in Table : /\ met[b] \subseteq Committed \cup {0} \* none out of bound
                          /\ 0 \in met[b]                        \* none circular
      /\ \A b, c \in Table : b # c => met[b] \cap met[c] = {0}
      /\ UNION {met[b] \ {0} : b \in Table} = Committed
      /\ UniqueKeys

\* Whenever the file is not being changed it passes odb_check_hash.
OdbCheckHash == pc \in {"idle", "closed"} => odb_check_hash

\* A lookup comes nearer to the end of its chain with every node it passes:
\* the loop of odb_update_node_with_offset ends.
LookupAdvances ==
  (pc = "walk" /\ index # 0) => node[index].next < index

\* The inductive invariant behind the theorems of OdbProofs.
IndInv == /\ TypeOK /\ DescrInv /\ ChainInv /\ OperationInv
          /\ UniqueKeys /\ ReaderSeesWritten

\* The file implements the map of counts: every step is one addition to one
\* key, or changes no count.
Counts == INSTANCE SampleCounts WITH
            counts <- [k \in Keys |-> Count(k)],
            Plus   <- StoredSum

CountsSpec == Counts!Spec
=============================================================================
