----------------------------- MODULE OdbProofs -----------------------------
(***************************************************************************)
(* What holds of a sample file for every set of keys, every hash, every    *)
(* size and width: module Odb keeps its inductive invariant as long as the *)
(* writer is not killed inside a rebuild or a commit, and implements       *)
(* SampleCounts.                                                           *)
(***************************************************************************)
EXTENDS Odb, FiniteSetTheorems, WellFoundedInduction, TLAPS

\* Arithmetic: a remainder is within its modulus.
LEMMA ModRange == ASSUME NEW a \in Nat, NEW n \in Nat \ {0}
                  PROVE  a % n \in 0..(n - 1)
  OBVIOUS

\* The bucket of a key is one of the table.
LEMMA HashRange == ASSUME NEW n \in Nat \ {0}, NEW k \in Keys
                   PROVE  odb_do_hash(n, k) \in 0..(n - 1)
  BY MixAssumption, ModRange DEF odb_do_hash, BUCKET_FACTOR

\* What is stored fits odb_value_t.
LEMMA StoredRange ==
  ASSUME NEW v \in Values, NEW off \in Offsets
  PROVE  StoredSum(v, off) \in Values /\ off % 2^ValueBits \in Values
<1>1. v \in Nat /\ off \in Nat /\ v + off \in Nat
  BY WidthAssumption, OffsetsAssumption DEF Values
<1>2. 2^ValueBits \in Nat \ {0}
  BY WidthAssumption
<1> QED  BY <1>1, <1>2, ModRange DEF StoredSum, Values

\* A node is in Node once it was written, and its key hashes into the table.
LEMMA WrittenNode ==
  ASSUME TypeOK, NEW i \in Slots, node[i] # NoNode
  PROVE  /\ node[i] \in Node
         /\ node[i].key \in Keys
         /\ node[i].next \in 0..(MaxSize - 1)
         /\ node[i].value \in Values
  BY DEF TypeOK, Node

\* A key's bucket in the table of a mapped file.
LEMMA TableBucket ==
  ASSUME TypeOK, descr.size # 0, NEW k \in Keys
  PROVE  /\ odb_do_hash(descr.size, k) \in 0..(descr.size - 1)
         /\ odb_do_hash(descr.size, k) \in Buckets
<1>1. descr.size \in Nat \ {0} /\ descr.size <= MaxSize /\ MaxSize \in Nat
  BY SizeAssumption DEF TypeOK
<1> QED  BY <1>1, HashRange DEF Buckets

Clean == KillPoints \cap {"rehash", "commit"} = {}

LEMMA InitInv == Init => IndInv
<1> SUFFICES ASSUME Init PROVE IndInv
  OBVIOUS
<1> USE SizeAssumption
<1>1. TypeOK
  BY DEF Init, TypeOK
<1>2. DescrInv
  BY DEF Init, DescrInv
<1>3. ChainInv
  BY DEF Init, ChainInv, LinkedNr, IsLast
<1>4. OperationInv /\ UniqueKeys /\ ReaderSeesWritten
  BY DEF Init, OperationInv, UniqueKeys, ReaderSeesWritten, Committed
<1> QED  BY <1>1, <1>2, <1>3, <1>4 DEF IndInv


-----------------------------------------------------------------------------
(* One lemma per conjunct of the invariant: every step keeps it.           *)

\* Every step keeps the shape of the state.
LEMMA TypeOKStep == IndInv /\ [Next]_vars => TypeOK'
<1> SUFFICES ASSUME IndInv, [Next]_vars PROVE TypeOK'
  OBVIOUS
<1> USE SizeAssumption
<1>0. TypeOK /\ DescrInv /\ OperationInv
  BY DEF IndInv
<1>a. CASE OpenCreate
  BY <1>0, <1>a DEF OpenCreate, TypeOK, Return, reader
<1>b. CASE OpenInitDescr
  BY <1>0, <1>b DEF OpenInitDescr, TypeOK, Return, reader
<1>c. CASE OpenFail \/ OpenExisting \/ odb_close \/ Kill \/ GrowFail
  BY <1>0, <1>c DEF OpenFail, OpenExisting, odb_close, Kill, GrowFail, TypeOK,
                    Return, reader, file
<1>d. ASSUME NEW k \in Keys, NEW off \in Offsets,
             odb_update_node_with_offset(k, off)
      PROVE  TypeOK'
  <2>1. odb_do_hash(descr.size, k) \in Buckets
    BY <1>0, <1>d, TableBucket DEF odb_update_node_with_offset, DescrInv
  <2> QED  BY <1>0, <1>d, <2>1 DEF odb_update_node_with_offset, TypeOK, reader, file
<1>e. ASSUME NEW k \in Keys, NEW off \in Offsets, odb_add_node(k, off)
      PROVE  TypeOK'
  BY <1>0, <1>e DEF odb_add_node, TypeOK, reader, file, ReserveOrSetup
<1>f. CASE UpdateHit
  <2>1. index \in Slots /\ node[index] # NoNode /\ offset \in Offsets
    BY <1>0, <1>f DEF UpdateHit, TypeOK, OperationInv, Committed, Slots
  <2>2. node[index] \in Node /\ StoredSum(node[index].value, offset) \in Values
    BY <1>0, <2>1, WrittenNode, StoredRange
  <2>3. node' \in [Slots -> Node \cup {NoNode}]
    BY <1>0, <1>f, <2>1, <2>2 DEF UpdateHit, TypeOK, Node
  <2> QED  BY <1>0, <1>f, <2>3 DEF UpdateHit, TypeOK, Return, reader
<1>g. CASE UpdateNext
  <2>1. index \in Slots /\ node[index] # NoNode
    BY <1>0, <1>g DEF UpdateNext, TypeOK, OperationInv, Committed, Slots
  <2> QED  BY <1>0, <1>g, <2>1, WrittenNode DEF UpdateNext, TypeOK, reader, file
<1>h. CASE UpdateMiss \/ GrowDone
  BY <1>0, <1>h DEF UpdateMiss, GrowDone, ReserveOrSetup, TypeOK, reader, file, wlocal
<1>i. CASE GrowTruncate
  BY <1>0, <1>i DEF GrowTruncate, TypeOK, reader, wlocal
<1>j. CASE GrowResize
  <2>1. 2 * descr.size \in 0..MaxSize
    BY <1>0, <1>j DEF GrowResize, TypeOK, DescrInv
  <2>2. hash' \in [Buckets -> 0..(MaxSize - 1)]
    BY <1>j DEF GrowResize
  <2> QED  BY <1>0, <1>j, <2>1, <2>2 DEF GrowResize, TypeOK, reader
<1>k. CASE GrowRehash
  <2>1. pos \in Slots /\ node[pos] # NoNode
    BY <1>0, <1>k DEF GrowRehash, TypeOK, DescrInv, OperationInv, Committed, Slots
  <2> DEFINE b == odb_do_hash(descr.size, node[pos].key)
  <2>2. node[pos] \in Node /\ node[pos].key \in Keys
    BY <1>0, <2>1, WrittenNode
  <2>3. b \in Buckets
    BY <1>0, <1>k, <2>2, TableBucket DEF GrowRehash, DescrInv
  <2> HIDE DEF b
  <2>4. /\ node' = [node EXCEPT ![pos].next = hash[b]]
        /\ hash' = [hash EXCEPT ![b] = pos]
    BY <1>k DEF GrowRehash, b
  <2>5. node' \in [Slots -> Node \cup {NoNode}]
    BY <1>0, <2>1, <2>2, <2>3, <2>4 DEF TypeOK, Node
  <2>6. hash' \in [Buckets -> 0..(MaxSize - 1)]
    BY <1>0, <2>1, <2>3, <2>4 DEF TypeOK, Slots
  <2>7. pos' \in 0..MaxSize
    <3>1. pos' = pos + 1 /\ pos < MaxSize
      BY <1>k, <2>1 DEF GrowRehash, Slots
    <3> QED  BY <2>1, <3>1 DEF Slots
  <2>8. UNCHANGED <<fileNr, descr, pc, key, offset, index, rpc, rsize, rnr, rpos, rsum, rbase>>
    BY <1>k DEF GrowRehash, reader
  <2> QED  BY <1>0, <2>5, <2>6, <2>7, <2>8 DEF TypeOK
<1>l. CASE AddSetup
  <2> DEFINE b == odb_do_hash(descr.size, key)
  <2>1. key \in Keys /\ offset \in Offsets
    BY <1>0, <1>l DEF AddSetup, OperationInv
  <2>2. b \in Buckets
    BY <1>0, <1>l, <2>1, TableBucket DEF AddSetup, DescrInv
  <2>3. offset % 2^ValueBits \in Values
    BY <2>1, StoredRange, WidthAssumption DEF Values
  <2> HIDE DEF b
  <2>4. [key |-> key, value |-> offset % 2^ValueBits, next |-> hash[b]] \in Node
    BY <1>0, <2>1, <2>2, <2>3 DEF TypeOK, Node
  <2>5. node' \in [Slots -> Node \cup {NoNode}]
    BY <1>0, <1>l, <2>4 DEF AddSetup, TypeOK, b
  <2> QED  BY <1>0, <1>l, <2>5 DEF AddSetup, TypeOK, reader, wlocal
<1>m. CASE AddLink
  <2>1. descr.current_size \in 0..(MaxSize - 1)
    BY <1>0, <1>m DEF AddLink, TypeOK, DescrInv
  <2> QED  BY <1>0, <1>m, <2>1 DEF AddLink, TypeOK, reader, wlocal
<1>n. CASE odb_commit_reservation
  <2>1. descr.current_size + 1 \in 0..MaxSize
    BY <1>0, <1>n DEF odb_commit_reservation, TypeOK, DescrInv
  <2> QED  BY <1>0, <1>n, <2>1 DEF odb_commit_reservation, TypeOK, reader, Return
<1>o. CASE ReaderMap \/ ReaderRefuse \/ ReaderAccept
  BY <1>0, <1>o DEF ReaderMap, ReaderRefuse, ReaderAccept, TypeOK, file, wlocal
<1>p. CASE odb_get_iterator
  <2>1. \A k \in Keys : Count(k) \in Nat
    <3> SUFFICES ASSUME NEW k \in Keys PROVE Count(k) \in Nat
      OBVIOUS
    <3>1. CASE \E i \in Committed : node[i].key = k
      <4> DEFINE i == CHOOSE i \in Committed : node[i].key = k
      <4>1. i \in Committed
        BY <3>1
      <4> HIDE DEF i
      <4>2. i \in Slots /\ node[i] # NoNode
        BY <1>0, <4>1 DEF TypeOK, DescrInv, OperationInv, Committed, Slots
      <4>3. node[i].value \in Nat
        BY <1>0, <4>2, WrittenNode, WidthAssumption DEF Values
      <4> QED  BY <3>1, <4>3 DEF Count, i
    <3> QED  BY <3>1 DEF Count
  <2>2. rbase' \in [Keys -> Nat]
    BY <1>p, <2>1 DEF odb_get_iterator
  <2>3. rnr' \in 0..MaxSize
    BY <1>0, <1>p DEF odb_get_iterator, TypeOK, DescrInv
  <2> QED  BY <1>0, <1>p, <2>2, <2>3 DEF odb_get_iterator, TypeOK, file, wlocal
<1>q. CASE ReaderNode
  <2>1. rpos + 1 \in Slots /\ node[rpos + 1] # NoNode
    BY <1>0, <1>q DEF ReaderNode, TypeOK, DescrInv, IndInv, ReaderSeesWritten, Slots
  <2>2. node[rpos + 1].value \in Nat
    BY <1>0, <2>1, WrittenNode, WidthAssumption DEF Values
  <2>3. rsum' \in [Keys -> Nat]
    BY <1>0, <1>q, <2>2 DEF ReaderNode, TypeOK
  <2>4. rpos' \in 0..MaxSize
    BY <1>0, <1>q DEF ReaderNode, TypeOK
  <2> QED  BY <1>0, <1>q, <2>3, <2>4 DEF ReaderNode, TypeOK, file, wlocal
<1>r. CASE ReaderFault \/ ReaderClose
  BY <1>0, <1>r DEF ReaderFault, ReaderClose, ReaderReset, TypeOK, file, wlocal
<1>s. CASE UNCHANGED vars
  BY <1>0, <1>s DEF vars, TypeOK, file, wlocal, reader
<1> QED  BY <1>a, <1>b, <1>c, <1>d, <1>e, <1>f, <1>g, <1>h, <1>i, <1>j, <1>k, <1>l,
            <1>m, <1>n, <1>o, <1>p, <1>q, <1>r, <1>s DEF Next, Writer, Reader

\* Every step keeps the descriptor in order.
LEMMA DescrStep == IndInv /\ [Next]_vars => DescrInv'
<1> SUFFICES ASSUME IndInv, [Next]_vars PROVE DescrInv'
  OBVIOUS
<1> USE SizeAssumption
<1>0. TypeOK /\ DescrInv /\ TypeOK'
  BY TypeOKStep DEF IndInv
<1>a. CASE OpenCreate
  BY <1>0, <1>a DEF OpenCreate, TypeOK, DescrInv, Return, reader
<1>b. CASE OpenInitDescr
  BY <1>0, <1>b DEF OpenInitDescr, TypeOK, DescrInv, Return, reader
<1>c. CASE OpenFail \/ OpenExisting \/ odb_close \/ Kill \/ GrowFail
  BY <1>0, <1>c DEF OpenFail, OpenExisting, odb_close, Kill, GrowFail, TypeOK,
                    DescrInv, Return, reader, file
<1>d. ASSUME NEW k \in Keys, NEW off \in Offsets,
             odb_update_node_with_offset(k, off) \/ odb_add_node(k, off)
      PROVE  DescrInv'
  BY <1>0, <1>d DEF odb_update_node_with_offset, odb_add_node, ReserveOrSetup,
                    TypeOK, DescrInv, reader, file
<1>e. CASE UpdateHit \/ UpdateNext \/ UpdateMiss \/ GrowDone
  BY <1>0, <1>e DEF UpdateHit, UpdateNext, UpdateMiss, GrowDone, ReserveOrSetup,
                    TypeOK, DescrInv, Return, reader, file, wlocal
<1>f. CASE GrowTruncate
  BY <1>0, <1>f DEF GrowTruncate, TypeOK, DescrInv, reader, wlocal
<1>g. CASE GrowResize
  BY <1>0, <1>g DEF GrowResize, TypeOK, DescrInv, reader
<1>h. CASE GrowRehash
  BY <1>0, <1>h DEF GrowRehash, TypeOK, DescrInv, reader
<1>i. CASE AddSetup \/ AddLink
  BY <1>0, <1>i DEF AddSetup, AddLink, TypeOK, DescrInv, reader, wlocal
<1>j. CASE odb_commit_reservation
  BY <1>0, <1>j DEF odb_commit_reservation, TypeOK, DescrInv, reader, Return
<1>k. CASE Reader
  BY <1>0, <1>k DEF Reader, ReaderMap, ReaderRefuse, ReaderAccept, odb_get_iterator,
     ReaderNode, ReaderFault, ReaderClose, ReaderReset, TypeOK, DescrInv, file, wlocal
<1>l. CASE UNCHANGED vars
  BY <1>0, <1>l DEF vars, DescrInv, file, wlocal, reader
<1> QED  BY <1>a, <1>b, <1>c, <1>d, <1>e, <1>f, <1>g, <1>h, <1>i, <1>j, <1>k, <1>l
         DEF Next, Writer

\* Chains only depend on the table, on the keys and on the next indices of the
\* nodes, and on which nodes are linked.
LEMMA SameChains ==
  ASSUME ChainInv, UNCHANGED <<descr, hash>>, LinkedNr' = LinkedNr,
         \A i \in 1..(LinkedNr - 1) :
           node'[i].key = node[i].key /\ node'[i].next = node[i].next,
         LinkedNr \in Nat
  PROVE  ChainInv'
<1>1. \A i \in 1..(LinkedNr - 1) : Bucket(i)' = Bucket(i)
  BY DEF Bucket, odb_do_hash
<1>2. PICK n \in Nat : n = LinkedNr /\ n = LinkedNr'
  OBVIOUS
<1>3. \A i \in 1..(n - 1) : IsLast(node[i].next, Bucket(i), i)'
  BY <1>1, <1>2 DEF ChainInv, IsLast
<1>4. \A b \in 0..(descr.size - 1) : IsLast(hash[b], b, LinkedNr)'
  BY <1>1, <1>2 DEF ChainInv, IsLast
<1> QED  BY <1>2, <1>3, <1>4 DEF ChainInv

\* Every step, but a kill inside a rebuild or a commit, keeps the chains.
LEMMA ChainStep == ASSUME Clean PROVE IndInv /\ [Next]_vars => ChainInv'
<1> SUFFICES ASSUME IndInv, [Next]_vars PROVE ChainInv'
  OBVIOUS
<1> USE SizeAssumption
<1>0. TypeOK /\ DescrInv /\ ChainInv /\ OperationInv
  BY DEF IndInv
<1>1. LinkedNr \in Nat
  BY <1>0 DEF TypeOK, LinkedNr
<1>a. CASE OpenCreate
  BY <1>0, <1>1, <1>a, SameChains DEF OpenCreate, Return, LinkedNr
<1>b. CASE OpenInitDescr
  <2>1. LinkedNr' = 1 /\ \A b \in Buckets : hash'[b] = 0
    BY <1>0, <1>b DEF OpenInitDescr, Return, LinkedNr, DescrInv
  <2>2. \A b \in 0..(descr'.size - 1) : b \in Buckets
    BY <1>b DEF OpenInitDescr, Buckets
  <2> QED  BY <2>1, <2>2 DEF ChainInv, IsLast
<1>c. CASE OpenFail \/ OpenExisting \/ odb_close \/ Kill \/ GrowFail
  BY <1>0, <1>1, <1>c, SameChains
     DEF OpenFail, OpenExisting, odb_close, Kill, GrowFail, Return, file, LinkedNr, Clean
<1>d. ASSUME NEW k \in Keys, NEW off \in Offsets,
             odb_update_node_with_offset(k, off) \/ odb_add_node(k, off)
      PROVE  ChainInv'
  BY <1>0, <1>1, <1>d, SameChains
     DEF odb_update_node_with_offset, odb_add_node, ReserveOrSetup, file, LinkedNr
<1>e. CASE UpdateHit
  <2>1. index \in Slots /\ node[index] \in Node
    BY <1>0, <1>e, WrittenNode DEF UpdateHit, TypeOK, OperationInv, Committed, Slots
  <2>2. \A i \in Slots : node'[i].key = node[i].key /\ node'[i].next = node[i].next
    BY <1>0, <1>e, <2>1 DEF UpdateHit, TypeOK, Node
  <2>3. \A i \in 1..(LinkedNr - 1) : i \in Slots
    BY <1>0, <1>e DEF UpdateHit, TypeOK, LinkedNr, Slots
  <2> QED  BY <1>0, <1>1, <1>e, <2>2, <2>3, SameChains DEF UpdateHit, Return, LinkedNr
<1>f. CASE UpdateNext \/ UpdateMiss \/ GrowTruncate
  BY <1>0, <1>1, <1>f, SameChains
     DEF UpdateNext, UpdateMiss, ReserveOrSetup, GrowTruncate, file, LinkedNr
<1>g. CASE GrowResize
  <2>1. LinkedNr' = 1 /\ \A b \in Buckets : hash'[b] = 0
    BY <1>0, <1>g DEF GrowResize, LinkedNr
  <2>2. \A b \in 0..(descr'.size - 1) : b \in Buckets
    BY <1>0, <1>g DEF GrowResize, TypeOK, DescrInv, Buckets
  <2> QED  BY <2>1, <2>2 DEF ChainInv, IsLast
<1>h. CASE GrowRehash
  <2> DEFINE b == odb_do_hash(descr.size, node[pos].key)
  <2>1. pos \in Slots /\ node[pos] \in Node /\ node[pos].key \in Keys
    <3>1. pos \in Slots /\ node[pos] # NoNode
      BY <1>0, <1>h DEF GrowRehash, TypeOK, DescrInv, OperationInv, Committed, Slots
    <3> QED  BY <1>0, <3>1, WrittenNode
  <2>2. b \in Buckets /\ b \in 0..(descr.size - 1)
    BY <1>0, <1>h, <2>1, TableBucket DEF GrowRehash, DescrInv
  <2>3. Bucket(pos) = b
    BY DEF Bucket
  <2> HIDE DEF b
  <2>4. /\ node' = [node EXCEPT ![pos].next = hash[b]]
        /\ hash' = [hash EXCEPT ![b] = pos]
        /\ descr' = descr
        /\ LinkedNr = pos /\ LinkedNr' = pos + 1
    BY <1>h DEF GrowRehash, b, LinkedNr
  <2>5. \A i \in 1..pos : i \in Slots
    BY <2>1, <1>0 DEF Slots, TypeOK
  <2>6. \A i \in 1..pos : node'[i].key = node[i].key
    BY <1>0, <2>1, <2>4, <2>5 DEF TypeOK, Node
  <2>7. \A i \in 1..pos : Bucket(i)' = Bucket(i)
    BY <2>4, <2>6 DEF Bucket, odb_do_hash
  <2>8. \A i \in 1..(pos - 1) : node'[i].next = node[i].next
    BY <1>0, <2>1, <2>4, <2>5 DEF TypeOK
  <2>9. node'[pos].next = hash[b]
    BY <1>0, <2>1, <2>4 DEF TypeOK, Node
  <2>10. \A i \in 1..pos : IsLast(node[i].next, Bucket(i), i)'
    <3> SUFFICES ASSUME NEW i \in 1..pos
                 PROVE  IsLast(node[i].next, Bucket(i), i)'
      OBVIOUS
    <3>0. pos \in Nat
      BY <1>0 DEF TypeOK
    <3>1. CASE i < pos
      <4>1. IsLast(node[i].next, Bucket(i), i)
        BY <1>0, <2>4, <3>0, <3>1 DEF ChainInv
      <4> QED  BY <4>1, <2>7, <2>8, <3>0, <3>1 DEF IsLast
    <3>2. CASE i = pos
      <4>1. IsLast(hash[b], b, pos)
        BY <1>0, <2>2, <2>4 DEF ChainInv
      <4> QED  BY <4>1, <2>3, <2>7, <2>9, <3>0, <3>2 DEF IsLast
    <3> QED  BY <3>0, <3>1, <3>2
  <2>11. \A c \in 0..(descr.size - 1) : IsLast(hash[c], c, LinkedNr)'
    <3> SUFFICES ASSUME NEW c \in 0..(descr.size - 1)
                 PROVE  IsLast(hash[c], c, LinkedNr)'
      OBVIOUS
    <3>0. pos \in Nat \ {0} /\ c \in Buckets
      <4>1. pos \in Nat \ {0}
        BY <2>1 DEF Slots
      <4>2. descr.size \in 0..MaxSize
        BY <1>0 DEF TypeOK
      <4> QED  BY <4>1, <4>2 DEF Buckets
    <3>1. IsLast(hash[c], c, pos)
      BY <1>0, <2>4 DEF ChainInv
    <3>2. CASE c = b
      <4>1. hash'[c] = pos
        BY <1>0, <2>2, <2>4, <3>2 DEF TypeOK
      <4> QED  BY <4>1, <2>3, <2>4, <2>7, <3>0, <3>2 DEF IsLast
    <3>3. CASE c # b
      <4>1. hash'[c] = hash[c]
        BY <1>0, <2>2, <2>4, <3>0, <3>3 DEF TypeOK
      <4> QED  BY <4>1, <2>3, <2>4, <2>7, <3>0, <3>1, <3>3 DEF IsLast
    <3> QED  BY <3>2, <3>3
  <2> QED  BY <1>0, <2>1, <2>4, <2>10, <2>11 DEF ChainInv, Slots
<1>i. CASE GrowDone
  <2>1. LinkedNr' = LinkedNr
    BY <1>0, <1>i DEF GrowDone, LinkedNr, TypeOK, DescrInv, file, wlocal
  <2> QED  BY <1>0, <1>1, <1>i, <2>1, SameChains DEF GrowDone, file
<1>j. CASE AddSetup
  <2>1. LinkedNr = descr.current_size /\ LinkedNr' = LinkedNr
    BY <1>j DEF AddSetup, LinkedNr
  <2>2. \A i \in 1..(LinkedNr - 1) : node'[i] = node[i]
    BY <1>0, <1>j, <2>1 DEF AddSetup, TypeOK, DescrInv, Slots
  <2> QED  BY <1>0, <1>1, <1>j, <2>1, <2>2, SameChains DEF AddSetup
<1>k. CASE AddLink
  <2> DEFINE b == odb_do_hash(descr.size, key)
             cs == descr.current_size
  <2>1. key \in Keys /\ node[cs].key = key /\ node[cs].next = hash[b]
    BY <1>0, <1>k DEF AddLink, OperationInv
  <2>2. b \in Buckets /\ b \in 0..(descr.size - 1)
    BY <1>0, <1>k, <2>1, TableBucket DEF AddLink, DescrInv
  <2>3. Bucket(cs) = b
    BY <2>1 DEF Bucket
  <2>4. cs \in Nat \ {0}
    BY <1>0, <1>k DEF AddLink, TypeOK, DescrInv
  <2> HIDE DEF b
  <2>5. /\ node' = node /\ hash' = [hash EXCEPT ![b] = cs] /\ descr' = descr
        /\ LinkedNr = cs /\ LinkedNr' = cs + 1
    BY <1>k DEF AddLink, b, LinkedNr
  <2> HIDE DEF cs
  <2>6. \A i : Bucket(i)' = Bucket(i)
    BY <2>5 DEF Bucket, odb_do_hash
  <2>7. IsLast(hash[b], b, cs)
    BY <1>0, <2>2, <2>5 DEF ChainInv
  <2>8. \A i \in 1..cs : IsLast(node[i].next, Bucket(i), i)
    <3>1. \A i \in 1..(cs - 1) : IsLast(node[i].next, Bucket(i), i)
      BY <1>0, <2>5 DEF ChainInv
    <3>2. IsLast(node[cs].next, Bucket(cs), cs)
      BY <2>1, <2>3, <2>7 DEF b, cs
    <3> QED  BY <2>4, <3>1, <3>2
  <2>9. \A i \in 1..cs : IsLast(node[i].next, Bucket(i), i)'
    BY <2>4, <2>5, <2>6, <2>8 DEF IsLast
  <2>10. \A c \in 0..(descr.size - 1) : IsLast(hash[c], c, LinkedNr)'
    <3> SUFFICES ASSUME NEW c \in 0..(descr.size - 1)
                 PROVE  IsLast(hash[c], c, LinkedNr)'
      OBVIOUS
    <3>0. c \in Buckets
      BY <1>0 DEF TypeOK, Buckets
    <3>1. IsLast(hash[c], c, cs)
      BY <1>0, <2>5 DEF ChainInv
    <3>2. CASE c = b
      <4>1. hash'[c] = cs
        BY <1>0, <2>2, <2>5, <3>2 DEF TypeOK
      <4> QED  BY <4>1, <2>3, <2>4, <2>5, <2>6, <3>2 DEF IsLast
    <3>3. CASE c # b
      <4>1. hash'[c] = hash[c]
        BY <1>0, <2>2, <2>5, <3>0, <3>3 DEF TypeOK
      <4> QED  BY <4>1, <2>3, <2>4, <2>5, <2>6, <3>1, <3>3 DEF IsLast
    <3> QED  BY <3>2, <3>3
  <2> QED  BY <2>4, <2>5, <2>9, <2>10 DEF ChainInv
<1>l. CASE odb_commit_reservation
  <2>1. LinkedNr' = LinkedNr /\ node' = node /\ hash' = hash /\ descr'.size = descr.size
    BY <1>0, <1>l DEF odb_commit_reservation, LinkedNr, Return, TypeOK
  <2>2. \A i : Bucket(i)' = Bucket(i)
    BY <2>1 DEF Bucket, odb_do_hash
  <2> QED  BY <1>0, <1>1, <2>1, <2>2 DEF ChainInv, IsLast
<1>m. CASE Reader
  <2>1. UNCHANGED <<file, pc, wlocal>>
    BY <1>m DEF Reader, ReaderMap, ReaderRefuse, ReaderAccept, odb_get_iterator,
                ReaderNode, ReaderFault, ReaderClose
  <2> QED  BY <1>0, <1>1, <2>1, SameChains DEF file, wlocal, LinkedNr
<1>n. CASE UNCHANGED vars
  BY <1>0, <1>1, <1>n, SameChains DEF vars, file, wlocal, LinkedNr
<1> QED  BY <1>a, <1>b, <1>c, <1>d, <1>e, <1>f, <1>g, <1>h, <1>i, <1>j, <1>k, <1>l,
            <1>m, <1>n DEF Next, Writer

\* Every step keeps what the operation under way has established.
LEMMA OperationStep == IndInv /\ [Next]_vars => OperationInv'
<1> SUFFICES ASSUME IndInv, [Next]_vars PROVE OperationInv'
  OBVIOUS
<1> USE SizeAssumption
<1>0. TypeOK /\ DescrInv /\ ChainInv /\ OperationInv
  BY DEF IndInv
<1>1. \A i \in Committed : i \in Slots /\ node[i] \in Node /\ node[i].key \in Keys
  <2>1. \A i \in Committed : i \in Slots /\ node[i] # NoNode
    BY <1>0 DEF TypeOK, DescrInv, OperationInv, Committed, Slots
  <2> QED  BY <1>0, <2>1, WrittenNode
<1>a. CASE OpenCreate
  BY <1>0, <1>a DEF OpenCreate, OperationInv, Return, Committed
<1>b. CASE OpenInitDescr
  BY <1>b DEF OpenInitDescr, OperationInv, Return, Committed
<1>c. CASE OpenFail \/ OpenExisting \/ odb_close \/ Kill \/ GrowFail
  BY <1>0, <1>c DEF OpenFail, OpenExisting, odb_close, Kill, GrowFail, OperationInv,
                    Return, file, Committed
<1>d. ASSUME NEW k \in Keys, NEW off \in Offsets,
             odb_update_node_with_offset(k, off)
      PROVE  OperationInv'
  <2> DEFINE b == odb_do_hash(descr.size, k)
  <2>1. b \in 0..(descr.size - 1)
    BY <1>0, <1>d, TableBucket DEF odb_update_node_with_offset, DescrInv
  <2>2. IsLast(hash[b], b, descr.current_size)
    BY <1>0, <1>d, <2>1 DEF ChainInv, LinkedNr, odb_update_node_with_offset
  <2>3. \A i \in Committed : node[i].key = k => Bucket(i) = b
    BY DEF Bucket
  <2> HIDE DEF b
  <2>4. /\ index' = hash[b] /\ key' = k /\ offset' = off /\ pc' = "walk"
        /\ node' = node /\ descr' = descr /\ Committed' = Committed
    BY <1>d DEF odb_update_node_with_offset, b, file, Committed
  <2>5. \A i : Bucket(i)' = Bucket(i)
    BY <2>4 DEF Bucket, odb_do_hash
  <2>6. index' # 0 => index' \in Committed /\ Bucket(index') = b
    BY <2>2, <2>4 DEF IsLast, Committed
  <2>7. \A i \in Committed : node[i].key = k => i <= index'
    BY <2>2, <2>3, <2>4 DEF IsLast, Committed
  <2>8. odb_do_hash(descr.size, key)' = b
    BY <2>4 DEF b, odb_do_hash
  <2> QED  BY <1>0, <1>d, <2>4, <2>5, <2>6, <2>7, <2>8 DEF OperationInv, Bucket
<1>e. ASSUME NEW k \in Keys, NEW off \in Offsets, odb_add_node(k, off)
      PROVE  OperationInv'
  BY <1>0, <1>e DEF odb_add_node, ReserveOrSetup, OperationInv, Committed, file
<1>f. CASE UpdateHit
  <2>1. index \in Slots /\ node[index] \in Node /\ Committed' = Committed
    BY <1>0, <1>1, <1>f DEF UpdateHit, OperationInv, Committed
  <2>2. node'[index].key = node[index].key /\ node'[index] # NoNode
    BY <1>0, <1>f, <2>1, KeysAssumption DEF UpdateHit, TypeOK, Node, NoNode
  <2>3. \A i \in Committed : node'[i] # NoNode
    BY <1>0, <1>1, <1>f, <2>1, <2>2 DEF UpdateHit, TypeOK, OperationInv
  <2> QED  BY <2>1, <2>3, <1>f DEF UpdateHit, OperationInv, Return
<1>g. CASE UpdateNext
  <2>1. /\ index \in Committed /\ Bucket(index) = odb_do_hash(descr.size, key)
        /\ \A i \in Committed : node[i].key = key => i <= index
    BY <1>0, <1>g DEF UpdateNext, OperationInv
  <2>2. IsLast(node[index].next, Bucket(index), index)
    BY <1>0, <1>g, <2>1 DEF UpdateNext, ChainInv, LinkedNr, Committed
  <2>3. /\ index' = node[index].next /\ key' = key /\ offset' = offset /\ pc' = "walk"
        /\ node' = node /\ descr' = descr /\ Committed' = Committed
    BY <1>g DEF UpdateNext, file, Committed
  <2>4. index \in 1..(descr.current_size - 1) /\ descr.current_size \in Nat
    BY <1>0, <2>1 DEF Committed, TypeOK
  <2>5. index' # 0 => index' \in Committed /\ Bucket(index') = odb_do_hash(descr.size, key)
    BY <2>1, <2>2, <2>3, <2>4 DEF IsLast, Committed
  <2>6. \A i \in Committed : node[i].key = key => i <= index'
    <3> SUFFICES ASSUME NEW i \in Committed, node[i].key = key PROVE i <= index'
      OBVIOUS
    <3>1. i <= index /\ i # index
      BY <2>1, <1>g DEF UpdateNext
    <3>2. i \in 1..(index - 1)
      BY <3>1, <2>4 DEF Committed
    <3>3. Bucket(i) = Bucket(index)
      BY <2>1 DEF Bucket
    <3> QED  BY <2>2, <2>3, <3>2, <3>3 DEF IsLast
  <2>7. odb_do_hash(descr.size, key)' = odb_do_hash(descr.size, key)
    BY <2>3 DEF odb_do_hash
  <2>8. \A i : Bucket(i)' = Bucket(i)
    BY <2>3 DEF Bucket, odb_do_hash
  <2>9. index' # 0 => Bucket(index)' = odb_do_hash(descr.size, key)'
    BY <2>3, <2>5, <2>7 DEF Bucket, odb_do_hash
  <2> QED  BY <1>0, <1>g, <2>3, <2>5, <2>6, <2>9 DEF OperationInv, UpdateNext
<1>h. CASE UpdateMiss
  <2>1. \A i \in Committed : node[i].key # key
    BY <1>0, <1>h DEF UpdateMiss, OperationInv, Committed, TypeOK
  <2> QED  BY <1>0, <1>h, <2>1
           DEF UpdateMiss, ReserveOrSetup, OperationInv, Committed, file, wlocal
<1>i. CASE GrowTruncate \/ GrowDone
  BY <1>0, <1>i DEF GrowTruncate, GrowDone, OperationInv, Committed, file, wlocal
<1>j. CASE GrowResize
  <2>1. descr'.current_size = descr.current_size /\ node' = node
    BY <1>0, <1>j DEF GrowResize, TypeOK
  <2> QED  BY <1>0, <1>j, <2>1 DEF GrowResize, OperationInv, Committed
<1>k. CASE GrowRehash
  <2>1. pos \in Committed
    BY <1>0, <1>k DEF GrowRehash, TypeOK, DescrInv, Committed
  <2>2. /\ descr' = descr /\ Committed' = Committed /\ key' = key /\ offset' = offset
        /\ pc' = "rehash"
    BY <1>k DEF GrowRehash, Committed
  <2>3. PICK x : node' = [node EXCEPT ![pos].next = x]
    BY <1>k DEF GrowRehash
  <2>4. \A i \in Committed : node'[i].key = node[i].key
    BY <1>0, <1>1, <2>1, <2>3 DEF TypeOK, Node
  <2>5. \A i \in Committed : node'[i] # NoNode
    BY <1>1, <2>4, KeysAssumption DEF NoNode
  <2> QED  BY <1>0, <1>k, <2>2, <2>4, <2>5 DEF GrowRehash, OperationInv
<1>l. CASE AddSetup
  <2> DEFINE cs == descr.current_size
  <2>1. cs \in Slots /\ cs \notin Committed
    BY <1>0, <1>l DEF AddSetup, TypeOK, DescrInv, Slots, Committed
  <2>2. /\ descr' = descr /\ Committed' = Committed /\ key' = key /\ offset' = offset
        /\ pc' = "link" /\ hash' = hash
    BY <1>l DEF AddSetup, Committed, wlocal
  <2>3. node'[cs] = [key |-> key, value |-> offset % 2^ValueBits,
                     next |-> hash[odb_do_hash(descr.size, key)]]
    BY <1>0, <1>l, <2>1 DEF AddSetup, TypeOK
  <2>4. \A i \in Committed : node'[i] = node[i]
    BY <1>0, <1>1, <1>l, <2>1 DEF AddSetup, TypeOK
  <2>5. odb_do_hash(descr.size, key)' = odb_do_hash(descr.size, key)
    BY <2>2 DEF odb_do_hash
  <2> QED  BY <1>0, <1>l, <2>2, <2>3, <2>4, <2>5 DEF AddSetup, OperationInv
<1>m. CASE AddLink
  BY <1>0, <1>m DEF AddLink, OperationInv, Committed, wlocal
<1>n. CASE odb_commit_reservation
  <2>1. node[descr.current_size] # NoNode
    BY <1>0, <1>n, KeysAssumption DEF odb_commit_reservation, OperationInv, NoNode
  <2>2. descr'.current_size = descr.current_size + 1 /\ descr.current_size \in Nat
    BY <1>0, <1>n DEF odb_commit_reservation, TypeOK
  <2>3. \A i \in Committed' : i \in Committed \/ i = descr.current_size
    BY <2>2 DEF Committed
  <2> QED  BY <1>0, <1>n, <2>1, <2>3 DEF odb_commit_reservation, OperationInv, Return
<1>o. CASE Reader
  <2>1. UNCHANGED <<file, pc, wlocal>>
    BY <1>o DEF Reader, ReaderMap, ReaderRefuse, ReaderAccept, odb_get_iterator,
                ReaderNode, ReaderFault, ReaderClose
  <2> QED  BY <1>0, <2>1 DEF file, wlocal, OperationInv, Committed, Bucket, odb_do_hash
<1>p. CASE UNCHANGED vars
  BY <1>0, <1>p DEF vars, file, wlocal, OperationInv, Committed, Bucket, odb_do_hash
<1> QED  BY <1>a, <1>b, <1>c, <1>d, <1>e, <1>f, <1>g, <1>h, <1>i, <1>j, <1>k, <1>l,
            <1>m, <1>n, <1>o, <1>p DEF Next, Writer

\* A step leaves the nodes committed, their keys and, unless it is the hit of
\* a lookup, their values as they were; a commit adds the node set up.
LEMMA CommittedStep ==
  ASSUME IndInv, [Next]_vars
  PROVE  \/ /\ Committed' = Committed
            /\ \A i \in Committed : node'[i].key = node[i].key
            /\ UpdateHit \/ \A i \in Committed : node'[i].value = node[i].value
         \/ /\ odb_commit_reservation
            /\ Committed' = Committed \cup {descr.current_size}
            /\ node' = node
         \/ OpenInitDescr /\ Committed = {} /\ Committed' = {}
<1> USE SizeAssumption
<1>0. TypeOK /\ DescrInv /\ OperationInv
  BY DEF IndInv
<1>1. \A i \in Committed : i \in Slots /\ node[i] \in Node
  <2>1. \A i \in Committed : i \in Slots /\ node[i] # NoNode
    BY <1>0 DEF TypeOK, DescrInv, OperationInv, Committed, Slots
  <2> QED  BY <1>0, <2>1, WrittenNode
<1>a. CASE OpenInitDescr
  BY <1>0, <1>a DEF OpenInitDescr, DescrInv, Committed
<1>b. CASE node' = node /\ descr' = descr
  BY <1>b DEF Committed
<1>c. CASE UpdateHit
  <2>1. index \in Slots /\ node[index] \in Node /\ Committed' = Committed
    BY <1>0, <1>1, <1>c DEF UpdateHit, OperationInv, Committed
  <2>2. \A i \in Committed : node'[i].key = node[i].key
    BY <1>0, <1>1, <1>c, <2>1 DEF UpdateHit, TypeOK, Node
  <2> QED  BY <1>c, <2>1, <2>2
<1>d. CASE GrowResize
  <2>1. Committed' = Committed /\ node' = node
    BY <1>0, <1>d DEF GrowResize, TypeOK, Committed
  <2> QED  BY <2>1
<1>e. CASE GrowRehash
  <2>1. pos \in Committed /\ Committed' = Committed
    BY <1>0, <1>e DEF GrowRehash, TypeOK, DescrInv, Committed
  <2>2. PICK x : node' = [node EXCEPT ![pos].next = x]
    BY <1>e DEF GrowRehash
  <2>3. \A i \in Committed : node'[i].key = node[i].key /\ node'[i].value = node[i].value
    BY <1>0, <1>1, <2>1, <2>2 DEF TypeOK, Node
  <2> QED  BY <2>1, <2>3
<1>f. CASE AddSetup
  <2>1. descr.current_size \notin Committed /\ Committed' = Committed
    BY <1>0, <1>f DEF AddSetup, TypeOK, Committed
  <2>2. \A i \in Committed : node'[i] = node[i]
    BY <1>0, <1>1, <1>f, <2>1 DEF AddSetup, TypeOK
  <2> QED  BY <2>1, <2>2
<1>g. CASE odb_commit_reservation
  <2>1. descr'.current_size = descr.current_size + 1 /\ descr.current_size \in Nat \ {0}
    BY <1>0, <1>g DEF odb_commit_reservation, TypeOK, DescrInv
  <2>2. Committed' = Committed \cup {descr.current_size}
    BY <2>1 DEF Committed
  <2> QED  BY <1>g, <2>2 DEF odb_commit_reservation
<1>h. \/ OpenInitDescr \/ UpdateHit \/ GrowResize \/ GrowRehash \/ AddSetup
      \/ odb_commit_reservation \/ (node' = node /\ descr' = descr)
  BY DEF Next, vars, Writer, Reader, OpenCreate, OpenFail, OpenExisting, odb_close, Kill,
     odb_update_node_with_offset, odb_add_node, UpdateNext, UpdateMiss, GrowTruncate,
     GrowFail, GrowDone, AddLink, ReaderMap, ReaderRefuse, ReaderAccept,
     odb_get_iterator, ReaderNode, ReaderFault, ReaderClose, file
<1> QED  BY <1>a, <1>b, <1>c, <1>d, <1>e, <1>f, <1>g, <1>h

\* Every step keeps the keys of the nodes distinct.
LEMMA UniqueStep == IndInv /\ [Next]_vars => UniqueKeys'
<1> SUFFICES ASSUME IndInv, [Next]_vars PROVE UniqueKeys'
  OBVIOUS
<1>0. UniqueKeys /\ OperationInv
  BY DEF IndInv
<1>1. CASE Committed' = Committed /\ \A i \in Committed : node'[i].key = node[i].key
  BY <1>0, <1>1 DEF UniqueKeys
<1>2. CASE /\ odb_commit_reservation
           /\ Committed' = Committed \cup {descr.current_size}
           /\ node' = node
  BY <1>0, <1>2 DEF UniqueKeys, OperationInv, odb_commit_reservation
<1>3. CASE Committed' = {}
  BY <1>3 DEF UniqueKeys
<1> QED  BY <1>1, <1>2, <1>3, CommittedStep

\* Every step keeps the reader among written nodes.
LEMMA ReaderStep == IndInv /\ [Next]_vars => ReaderSeesWritten'
<1> SUFFICES ASSUME IndInv, [Next]_vars PROVE ReaderSeesWritten'
  OBVIOUS
<1> USE SizeAssumption
<1>0. TypeOK /\ DescrInv /\ OperationInv /\ ReaderSeesWritten /\ OperationInv' /\ TypeOK'
  BY OperationStep, TypeOKStep DEF IndInv
<1>1. SUFFICES ASSUME rpc' = "reading" PROVE rnr' < descr'.current_size
  BY <1>0 DEF ReaderSeesWritten, OperationInv, Committed, TypeOK
<1>2. CASE odb_get_iterator
  BY <1>0, <1>2 DEF odb_get_iterator, TypeOK, file
<1>3. CASE rpc' = rpc /\ rnr' = rnr
  <2>1. rnr < descr.current_size
    BY <1>0, <1>1, <1>3 DEF ReaderSeesWritten
  <2>2. descr'.current_size >= descr.current_size
    <3>1. CASE OpenInitDescr
      BY <1>0, <3>1 DEF OpenInitDescr, DescrInv, TypeOK
    <3>2. CASE GrowResize \/ odb_commit_reservation
      BY <1>0, <3>2 DEF GrowResize, odb_commit_reservation, TypeOK
    <3>3. CASE descr' = descr
      BY <1>0, <3>3 DEF TypeOK
    <3>4. OpenInitDescr \/ GrowResize \/ odb_commit_reservation \/ descr' = descr
      BY DEF Next, vars, Writer, Reader, OpenCreate, OpenFail, OpenExisting, odb_close,
         Kill, odb_update_node_with_offset, odb_add_node, UpdateHit, UpdateNext,
         UpdateMiss, GrowTruncate, GrowFail, GrowRehash, GrowDone, AddSetup, AddLink,
         ReaderMap, ReaderRefuse, ReaderAccept, odb_get_iterator, ReaderNode,
         ReaderFault, ReaderClose, file
    <3> QED  BY <3>1, <3>2, <3>3, <3>4
  <2> QED  BY <1>0, <1>3, <2>1, <2>2 DEF TypeOK
<1>4. CASE Writer
  BY <1>3, <1>4 DEF Writer, OpenCreate, OpenInitDescr, OpenFail, OpenExisting, odb_close,
     Kill, odb_update_node_with_offset, odb_add_node, UpdateHit, UpdateNext, UpdateMiss,
     GrowTruncate, GrowFail, GrowResize, GrowRehash, GrowDone, AddSetup, AddLink,
     odb_commit_reservation, reader
<1>5. CASE UNCHANGED vars
  BY <1>3, <1>5 DEF vars, reader
<1>6. CASE Reader
  BY <1>1, <1>2, <1>3, <1>6 DEF Reader, ReaderMap, ReaderRefuse, ReaderAccept,
     ReaderNode, ReaderFault, ReaderClose, ReaderReset
<1> QED  BY <1>4, <1>5, <1>6 DEF Next

-----------------------------------------------------------------------------
(* Theorems                                                                *)

\* odb_grow_hashtable relies on it ("old hash table and new hash table can't
\* overlap"): the table of the doubled file begins after the whole old file, in
\* the part ftruncate has zeroed, and the length of a file determines its size.
THEOREM TablesDisjoint ==
  ASSUME NEW n \in Nat
  PROVE  /\ tables_size(n) <= hash_base_at(2 * n)
         /\ \A m \in Nat : tables_size(m) = tables_size(n) => m = n
  BY DEF tables_size, hash_base_at, sizeof_node, sizeof_index, BUCKET_FACTOR

\* The invariant of a sample file: descriptor, chains, unique keys, and readers
\* that meet written nodes only, whatever readers and writer do, unless the
\* writer is killed inside a rebuild or a commit.
THEOREM Invariance == ASSUME Clean PROVE Spec => []IndInv
<1>1. IndInv /\ [Next]_vars => IndInv'
  BY TypeOKStep, DescrStep, ChainStep, OperationStep, UniqueStep, ReaderStep DEF IndInv
<1> QED  BY InitInv, <1>1, PTL DEF Spec

\* The state keeps its shape.
THEOREM TypeCorrect == ASSUME Clean PROVE Spec => []TypeOK
<1>1. IndInv => TypeOK
  BY DEF IndInv
<1> QED  BY <1>1, Invariance, PTL

\* No key is ever stored twice, across any number of growths and restarts.
THEOREM KeysUnique == ASSUME Clean PROVE Spec => []UniqueKeys
<1>1. IndInv => UniqueKeys
  BY DEF IndInv
<1> QED  BY <1>1, Invariance, PTL

\* A reader of another process only meets nodes completely written.
THEOREM ReaderSafe == ASSUME Clean PROVE Spec => []ReaderSeesWritten
<1>1. IndInv => ReaderSeesWritten
  BY DEF IndInv
<1> QED  BY <1>1, Invariance, PTL

\* The lookup loop of odb_update_node_with_offset ends: indices decrease.
THEOREM LookupEnds == ASSUME Clean PROVE Spec => []LookupAdvances
<1>1. IndInv => LookupAdvances
  <2> SUFFICES ASSUME IndInv, pc = "walk", index # 0
               PROVE  node[index].next < index
    BY DEF LookupAdvances
  <2>1. index \in 1..(descr.current_size - 1) /\ descr.current_size \in Nat
    BY DEF IndInv, OperationInv, Committed, TypeOK
  <2>2. IsLast(node[index].next, Bucket(index), index)
    BY <2>1 DEF IndInv, ChainInv, LinkedNr
  <2> QED  BY <2>1, <2>2 DEF IsLast
<1> QED  BY <1>1, Invariance, PTL

\* Count is the value of the one node with the key.
LEMMA CountIs ==
  ASSUME UniqueKeys, NEW i \in Committed, NEW k, node[i].key = k
  PROVE  Count(k) = node[i].value
<1> DEFINE c == CHOOSE j \in Committed : node[j].key = k
<1>1. c \in Committed /\ node[c].key = k
  OBVIOUS
<1>2. c = i
  BY <1>1 DEF UniqueKeys
<1> QED  BY <1>2 DEF Count

\* The same after a step.
LEMMA CountIsNext ==
  ASSUME UniqueKeys', NEW i \in Committed', NEW k, node'[i].key = k
  PROVE  Count(k)' = node'[i].value
<1> DEFINE c == CHOOSE j \in Committed' : node'[j].key = k
<1>1. c \in Committed' /\ node'[c].key = k
  OBVIOUS
<1>2. c = i
  BY <1>1 DEF UniqueKeys
<1> QED  BY <1>2 DEF Count

\* A file without nodes, or nodes without the key, count nothing.
LEMMA CountNone ==
  ASSUME NEW k, \A i \in Committed : node[i].key # k
  PROVE  Count(k) = 0
  BY DEF Count

\* A sample file implements the map of counts: every store of the writer is
\* invisible, or adds one amount to the count of one key.
THEOREM Refinement == ASSUME Clean PROVE Spec => CountsSpec
<1> DEFINE C == [k \in Keys |-> Count(k)]
<1>1. Init => Counts!Init
  <2> SUFFICES ASSUME Init PROVE C = [k \in Keys |-> 0]
    BY DEF Counts!Init
  <2>1. \A k \in Keys : Count(k) = 0
    BY CountNone DEF Init, Committed
  <2> QED  BY <2>1
<1>2. IndInv /\ IndInv' /\ [Next]_vars => [Counts!Next]_C
  <2> SUFFICES ASSUME IndInv, IndInv', [Next]_vars PROVE [Counts!Next]_C
    OBVIOUS
  <2>0. /\ TypeOK /\ OperationInv /\ UniqueKeys /\ UniqueKeys'
        /\ \A i \in Committed : i \in Slots /\ node[i].key \in Keys
    <3>1. TypeOK /\ DescrInv /\ OperationInv /\ UniqueKeys /\ UniqueKeys'
      BY DEF IndInv
    <3>2. \A i \in Committed : i \in Slots /\ node[i] # NoNode
      BY <3>1, SizeAssumption DEF TypeOK, DescrInv, OperationInv, Committed, Slots
    <3> QED  BY <3>1, <3>2, WrittenNode
  <2>1. ASSUME Committed' = Committed,
               \A i \in Committed : node'[i].key = node[i].key,
               \A i \in Committed : node'[i].value = node[i].value
        PROVE  C' = C
    <3> SUFFICES ASSUME NEW k \in Keys PROVE Count(k)' = Count(k)
      OBVIOUS
    <3>1. CASE \E i \in Committed : node[i].key = k
      <4>1. PICK i \in Committed : node[i].key = k
        BY <3>1
      <4>2. Count(k) = node[i].value
        BY <2>0, <4>1, CountIs
      <4>3. Count(k)' = node'[i].value
        <5>1. i \in Committed' /\ node'[i].key = k
          BY <2>1, <4>1
        <5> QED  BY <2>0, <5>1, CountIsNext
      <4> QED  BY <2>1, <4>2, <4>3
    <3>2. CASE \A i \in Committed : node[i].key # k
      <4>1. \A i \in Committed' : node'[i].key # k
        BY <2>1, <3>2
      <4> QED  BY <3>2, <4>1 DEF Count
    <3> QED  BY <3>1, <3>2
  <2>2. CASE OpenInitDescr /\ Committed = {} /\ Committed' = {}
    BY <2>2 DEF Count
  <2>3. ASSUME NEW k \in Keys, NEW off \in Offsets,
               Count(k)' = StoredSum(Count(k), off),
               \A l \in Keys \ {k} : Count(l)' = Count(l)
        PROVE  Counts!Next
    <3>1. C' = [C EXCEPT ![k] = StoredSum(C[k], off)]
      BY <2>3
    <3> QED  BY <3>1 DEF Counts!Next, Counts!Add
  <2>4. CASE UpdateHit /\ Committed' = Committed
             /\ \A i \in Committed : node'[i].key = node[i].key
    <3>1. PICK k \in Keys, off \in Offsets, i \in Committed :
               k = key /\ off = offset /\ i = index /\ node[i].key = k
      BY <2>0, <2>4 DEF UpdateHit, OperationInv
    <3>2. node' = [node EXCEPT ![i].value = StoredSum(@, off)]
      BY <2>4, <3>1 DEF UpdateHit
    <3>3. node'[i].value = StoredSum(node[i].value, off)
      BY <2>0, <3>1, <3>2 DEF TypeOK, Node
    <3>4. Count(k)' = StoredSum(Count(k), off)
      BY <2>0, <2>4, <3>1, <3>3, CountIs, CountIsNext
    <3>5. ASSUME NEW l \in Keys \ {k} PROVE Count(l)' = Count(l)
      <4>1. CASE \E j \in Committed : node[j].key = l
        <5>1. PICK j \in Committed : node[j].key = l
          BY <4>1
        <5>2. j # i /\ node'[j] = node[j]
          BY <2>0, <3>1, <3>2, <5>1 DEF TypeOK
        <5> QED  BY <2>0, <2>4, <5>1, <5>2, CountIs, CountIsNext
      <4>2. CASE \A j \in Committed : node[j].key # l
        <5>1. \A j \in Committed' : node'[j].key # l
          BY <2>4, <4>2
        <5> QED  BY <4>2, <5>1 DEF Count
      <4> QED  BY <4>1, <4>2
    <3> QED  BY <2>3, <3>4, <3>5
  <2>5. CASE /\ odb_commit_reservation
             /\ Committed' = Committed \cup {descr.current_size}
             /\ node' = node
    <3>1. PICK k \in Keys, off \in Offsets, i \in Committed' :
               /\ k = key /\ off = offset /\ i = descr.current_size
               /\ node[i].key = k /\ node[i].value = off % 2^ValueBits
               /\ \A j \in Committed : node[j].key # k
      BY <2>0, <2>5 DEF odb_commit_reservation, OperationInv
    <3>2. StoredSum(0, off) = off % 2^ValueBits
      <4>1. off \in Nat /\ off < 2^LongBits /\ 2^LongBits \in Nat \ {0}
        BY OffsetsAssumption, WidthAssumption
      <4>2. 0 + off = off /\ off % 2^LongBits = off
        BY <4>1
      <4>3. off = 0 => off % 2^ValueBits = 0
        BY WidthAssumption
      <4> QED  BY <4>2, <4>3 DEF StoredSum
    <3>3. Count(k) = 0
      BY <3>1, CountNone
    <3>4. Count(k)' = StoredSum(Count(k), off)
      BY <2>0, <2>5, <3>1, <3>2, <3>3, CountIsNext
    <3>5. ASSUME NEW l \in Keys \ {k} PROVE Count(l)' = Count(l)
      <4>1. CASE \E j \in Committed : node[j].key = l
        <5>1. PICK j \in Committed : node[j].key = l
          BY <4>1
        <5> QED  BY <2>0, <2>5, <5>1, CountIs, CountIsNext
      <4>2. CASE \A j \in Committed : node[j].key # l
        <5>1. \A j \in Committed' : node'[j].key # l
          BY <2>5, <3>1, <4>2
        <5> QED  BY <4>2, <5>1 DEF Count
      <4> QED  BY <4>1, <4>2
    <3> QED  BY <2>3, <3>4, <3>5
  <2> QED  BY <2>1, <2>2, <2>4, <2>5, CommittedStep
<1> QED  BY <1>1, <1>2, Invariance, PTL DEF Spec, CountsSpec, Counts!Spec

-----------------------------------------------------------------------------
(* A report made while samples arrive                                      *)

\* A count that fits odb_value_t only grows.
LEMMA StoredGrows ==
  ASSUME MaxCount < 2^ValueBits, NEW v \in Values, NEW off \in Offsets, v + off <= MaxCount
  PROVE  v <= StoredSum(v, off)
<1>1. v \in Nat /\ off \in Nat /\ v + off \in Nat /\ 2^ValueBits \in Nat \ {0} /\ MaxCount \in Nat
  BY WidthAssumption, OffsetsAssumption, SizeAssumption DEF Values
<1>2. (v + off) % 2^ValueBits = v + off
  BY <1>1
<1> QED  BY <1>1, <1>2 DEF StoredSum

\* What the reader has added up of the nodes it has read is what one of them
\* held at some time since the iteration began: not less than at its beginning,
\* not more than now.  A key that no node in reach has counts nothing.
ReadInv ==
  /\ rpc # "reading" => rpos = 0 /\ \A k \in Keys : rsum[k] = 0
  /\ rpc = "reading" =>
       /\ rpos <= rnr
       /\ \A i \in 1..rnr :
            LET k == node[i].key
            IN  /\ rbase[k] <= node[i].value
                /\ i <= rpos => rbase[k] <= rsum[k] /\ rsum[k] <= node[i].value
                /\ i > rpos => rsum[k] = 0
       /\ \A k \in Keys : (\A i \in 1..rnr : node[i].key # k) => rsum[k] = 0 /\ rbase[k] = 0

\* The writer never changes the key of a committed node, and never lowers its
\* value.
LEMMA ValuesGrow ==
  ASSUME MaxCount < 2^ValueBits, IndInv, [Next]_vars
  PROVE  \A i \in Committed : node'[i].key = node[i].key /\ node[i].value <= node'[i].value
<1>0. TypeOK /\ DescrInv /\ OperationInv /\ \A i \in Committed : i \in Slots /\ node[i] \in Node
  <2>1. TypeOK /\ DescrInv /\ OperationInv
    BY DEF IndInv
  <2>2. \A i \in Committed : i \in Slots /\ node[i] # NoNode
    BY <2>1, SizeAssumption DEF TypeOK, DescrInv, OperationInv, Committed, Slots
  <2> QED  BY <2>1, <2>2, WrittenNode
<1>1. \A i \in Committed : node[i].value \in Values /\ node[i].value <= node[i].value
  <2>1. \A v \in Values : v <= v
    BY WidthAssumption DEF Values
  <2> QED  BY <1>0, <2>1 DEF Node
<1>2. CASE UpdateHit /\ \A i \in Committed : node'[i].key = node[i].key
  <2>1. index \in Committed /\ offset \in Offsets /\ node[index].value + offset <= MaxCount
        /\ node' = [node EXCEPT ![index].value = StoredSum(@, offset)]
    BY <1>0, <1>2 DEF UpdateHit, OperationInv
  <2>2. node[index].value <= StoredSum(node[index].value, offset)
    BY <1>1, <2>1, StoredGrows
  <2>3. ASSUME NEW i \in Committed PROVE node[i].value <= node'[i].value
    <3>1. CASE i = index
      BY <1>0, <2>1, <2>2, <3>1 DEF TypeOK, Node
    <3>2. CASE i # index
      BY <1>0, <1>1, <2>1, <3>2 DEF TypeOK
    <3> QED  BY <3>1, <3>2
  <2> QED  BY <1>2, <2>3
<1>3. CASE \A i \in Committed : node'[i].key = node[i].key /\ node'[i].value = node[i].value
  BY <1>1, <1>3
<1>4. CASE Committed = {}
  BY <1>4
<1>5. CASE node' = node
  BY <1>1, <1>5
<1> QED  BY <1>2, <1>3, <1>4, <1>5, CommittedStep

\* The nodes the reader adds up stay committed, with their keys.
LEMMA ReadStep ==
  ASSUME MaxCount < 2^ValueBits
  PROVE  IndInv /\ ReadInv /\ [Next]_vars => ReadInv'
<1> SUFFICES ASSUME IndInv, ReadInv, [Next]_vars PROVE ReadInv'
  OBVIOUS
<1>0. /\ TypeOK /\ UniqueKeys /\ ReaderSeesWritten
      /\ rnr \in Nat /\ rpos \in Nat /\ descr.current_size \in Nat
      /\ rsum \in [Keys -> Nat] /\ rbase \in [Keys -> Nat]
      /\ \A i \in Committed : node[i].key \in Keys /\ node[i].value \in Nat
  <2>1. TypeOK /\ DescrInv /\ OperationInv /\ UniqueKeys /\ ReaderSeesWritten
    BY DEF IndInv
  <2>2. \A i \in Committed : i \in Slots /\ node[i] # NoNode
    BY <2>1, SizeAssumption DEF TypeOK, DescrInv, OperationInv, Committed, Slots
  <2>3. \A i \in Committed : node[i].key \in Keys /\ node[i].value \in Values
    BY <2>1, <2>2, WrittenNode
  <2>4. Values \subseteq Nat
    BY WidthAssumption DEF Values
  <2>5. /\ rnr \in Nat /\ rpos \in Nat /\ descr.current_size \in Nat
        /\ rsum \in [Keys -> Nat] /\ rbase \in [Keys -> Nat]
    BY <2>1, SizeAssumption DEF TypeOK
  <2>6. \A i \in Committed : node[i].value \in Nat
    BY <2>3, <2>4
  <2> QED  BY <2>1, <2>3, <2>5, <2>6
<1>1. rpc = "reading" => \A i \in 1..rnr : i \in Committed
  BY <1>0 DEF ReaderSeesWritten, Committed
<1>2. CASE UNCHANGED reader
  <2>1. CASE rpc # "reading"
    BY <1>2, <2>1 DEF ReadInv, reader
  <2>2. CASE rpc = "reading"
    <3>1. \A i \in 1..rnr : /\ node'[i].key = node[i].key
                            /\ node[i].value <= node'[i].value
                            /\ node[i].value \in Nat
      BY <1>0, <1>1, <2>2, ValuesGrow
    <3>2. UNCHANGED <<rpc, rsize, rnr, rpos, rsum, rbase>>
      BY <1>2 DEF reader
    <3>3. \A i \in 1..rnr : node'[i].value \in Nat
      <4>1. TypeOK' /\ OperationInv' /\ ReaderSeesWritten'
        BY TypeOKStep, OperationStep, ReaderStep
      <4>2. \A i \in 1..rnr : i \in Slots /\ node'[i] # NoNode
        <5>1. \A i \in 1..rnr : i \in Slots
          BY <1>0, <2>2, SizeAssumption DEF TypeOK, ReaderSeesWritten, Slots
        <5> QED  BY <2>2, <3>2, <4>1, <5>1 DEF ReaderSeesWritten
      <4>3. \A i \in 1..rnr : node'[i].value \in Values
        BY <4>1, <4>2 DEF TypeOK, Node
      <4> QED  BY <4>3, WidthAssumption DEF Values
    <3>4. ASSUME NEW i \in 1..rnr
          PROVE  LET k == node'[i].key
                 IN  /\ rbase[k] <= node'[i].value
                     /\ i <= rpos => rbase[k] <= rsum[k] /\ rsum[k] <= node'[i].value
                     /\ i > rpos => rsum[k] = 0
      <4>1. node[i].key \in Keys
        BY <1>0, <1>1, <2>2
      <4> DEFINE k == node[i].key
      <4>2. rbase[k] \in Nat /\ rsum[k] \in Nat
        BY <1>0, <4>1
      <4>3. /\ rbase[k] <= node[i].value
            /\ i <= rpos => rbase[k] <= rsum[k] /\ rsum[k] <= node[i].value
            /\ i > rpos => rsum[k] = 0
        BY <2>2 DEF ReadInv
      <4>4. node'[i].key = k /\ node[i].value <= node'[i].value /\ node[i].value \in Nat
            /\ node'[i].value \in Nat
        BY <3>1, <3>3
      <4> HIDE DEF k
      <4> QED  BY <4>2, <4>3, <4>4
    <3>5. rpos <= rnr /\ \A k \in Keys : (\A i \in 1..rnr : node'[i].key # k) =>
                                           rsum[k] = 0 /\ rbase[k] = 0
      BY <2>2, <3>1 DEF ReadInv
    <3> QED  BY <2>2, <3>2, <3>4, <3>5 DEF ReadInv
  <2> QED  BY <2>1, <2>2
<1>3. CASE ReaderFault \/ ReaderClose
  BY <1>3 DEF ReaderFault, ReaderClose, ReaderReset, ReadInv
<1>4. CASE ReaderMap \/ ReaderRefuse \/ ReaderAccept
  BY <1>4 DEF ReaderMap, ReaderRefuse, ReaderAccept, ReadInv
<1>5. CASE odb_get_iterator
  <2>1. /\ rpc' = "reading" /\ rnr' = descr.current_size - 1 /\ rpos' = 0 /\ node' = node
        /\ rbase' = [k \in Keys |-> Count(k)] /\ rsum' = rsum /\ \A k \in Keys : rsum[k] = 0
    BY <1>5 DEF odb_get_iterator, ReadInv, file
  <2>2. 1..rnr' = Committed /\ rnr' >= 0 /\ rpos' <= rnr'
    <3>1. descr.current_size # 0
      BY <1>5 DEF IndInv, DescrInv, odb_get_iterator
    <3> QED  BY <1>0, <2>1, <3>1 DEF Committed
  <2>3. ASSUME NEW i \in Committed
        PROVE  rbase'[node[i].key] <= node[i].value /\ rsum'[node[i].key] = 0 /\ i > 0
    <3>1. Count(node[i].key) = node[i].value
      BY <1>0, CountIs
    <3> QED  BY <1>0, <2>1, <3>1 DEF Committed
  <2>4. \A k \in Keys : (\A i \in Committed : node[i].key # k) => rsum'[k] = 0 /\ rbase'[k] = 0
    BY <2>1, CountNone
  <2>5. \A i \in Committed : i > rpos' /\ ~(i <= rpos')
    BY <2>1, <2>2 DEF Committed
  <2> QED  BY <2>1, <2>2, <2>3, <2>4, <2>5 DEF ReadInv
<1>6. CASE ReaderNode
  <2> DEFINE c == rpos + 1
             m == node[c].key
  <2>1. /\ rpc = "reading" /\ rpc' = "reading" /\ rnr' = rnr /\ rpos' = c /\ node' = node
        /\ rbase' = rbase /\ rpos < rnr
        /\ rsum' = [k \in Keys |-> IF m = k THEN rsum[k] + node[c].value ELSE rsum[k]]
    BY <1>6 DEF ReaderNode, file
  <2>2. c \in 1..rnr /\ c \in Committed /\ m \in Keys /\ node[c].value \in Nat /\ c <= rnr
    BY <1>0, <1>1, <2>1
  <2>3. rsum[m] = 0 /\ rbase[m] <= node[c].value /\ rbase[m] \in Nat
    BY <1>0, <2>1, <2>2 DEF ReadInv
  <2>4. rsum'[m] = node[c].value
    BY <2>1, <2>2, <2>3
  <2>5. ASSUME NEW i \in 1..rnr
        PROVE  LET k == node[i].key
               IN  /\ rbase[k] <= node[i].value
                   /\ i <= c => rbase[k] <= rsum'[k] /\ rsum'[k] <= node[i].value
                   /\ i > c => rsum'[k] = 0
    <3>1. CASE i = c
      BY <2>2, <2>3, <2>4, <3>1
    <3>2. CASE i # c
      <4>1. node[i].key # m /\ node[i].key \in Keys
        BY <1>0, <1>1, <2>1, <2>2, <3>2 DEF UniqueKeys
      <4>2. rsum'[node[i].key] = rsum[node[i].key]
        BY <2>1, <4>1
      <4>3. (i <= c <=> i <= rpos) /\ (i > c => i > rpos)
        BY <1>0, <3>2
      <4> QED  BY <2>1, <4>2, <4>3 DEF ReadInv
    <3> QED  BY <3>1, <3>2
  <2>6. \A k \in Keys : (\A i \in 1..rnr : node[i].key # k) => rsum'[k] = 0 /\ rbase[k] = 0
    <3>1. \A k \in Keys : (\A i \in 1..rnr : node[i].key # k) => k # m
      BY <2>2
    <3> QED  BY <2>1, <3>1 DEF ReadInv
  <2> HIDE DEF c, m
  <2> QED  BY <2>1, <2>2, <2>5, <2>6 DEF ReadInv
<1>7. CASE Writer \/ UNCHANGED vars
  <2>1. UNCHANGED reader
    BY <1>7 DEF Writer, OpenCreate, OpenInitDescr, OpenFail, OpenExisting, odb_close,
       Kill, odb_update_node_with_offset, odb_add_node, UpdateHit, UpdateNext, UpdateMiss,
       GrowTruncate, GrowFail, GrowResize, GrowRehash, GrowDone, AddSetup, AddLink,
       odb_commit_reservation, vars
  <2> QED  BY <1>2, <2>1
<1> QED  BY <1>3, <1>4, <1>5, <1>6, <1>7 DEF Next, Reader

\* ReportBounded: a report lies between the counts when it began and those when
\* it ends, as long as the counts stay within odb_value_t, which is what keeps a
\* sum from starting again at zero.
THEOREM ReportsBounded ==
  ASSUME Clean, MaxCount < 2^ValueBits
  PROVE  Spec => []ReportBounded
<1>1. Init => ReadInv
  BY DEF Init, ReadInv
<1>2. IndInv /\ ReadInv /\ [Next]_vars => ReadInv'
  BY ReadStep
<1>3. IndInv /\ ReadInv => ReportBounded
  <2> SUFFICES ASSUME IndInv, ReadInv, rpc = "reading", rpos = rnr, NEW k \in Keys
               PROVE  rbase[k] <= rsum[k] /\ rsum[k] <= Count(k)
    BY DEF ReportBounded
  <2>0. /\ UniqueKeys /\ ReaderSeesWritten /\ rnr \in Nat /\ descr.current_size \in Nat
        /\ rsum \in [Keys -> Nat] /\ TypeOK
    BY DEF IndInv, TypeOK
  <2>1. CASE \E i \in 1..rnr : node[i].key = k
    <3>1. PICK i \in 1..rnr : node[i].key = k
      BY <2>1
    <3>2. i \in Committed
      BY <2>0 DEF ReaderSeesWritten, Committed
    <3>3. Count(k) = node[i].value
      BY <2>0, <3>1, <3>2, CountIs
    <3> QED  BY <2>0, <3>1, <3>3 DEF ReadInv
  <2>2. CASE \A i \in 1..rnr : node[i].key # k
    <3>1. rsum[k] = 0 /\ rbase[k] = 0
      BY <2>2 DEF ReadInv
    <3>2. Count(k) \in Nat
      <4>1. CASE \E i \in Committed : node[i].key = k
        <5>1. PICK i \in Committed : node[i].key = k
          BY <4>1
        <5>2. i \in Slots /\ node[i] # NoNode
          BY SizeAssumption, <2>0 DEF IndInv, OperationInv, DescrInv, TypeOK, Committed, Slots
        <5>3. node[i].value \in Values
          BY <2>0, <5>2, WrittenNode
        <5>4. node[i].value \in Nat
          BY <5>3, WidthAssumption DEF Values
        <5> QED  BY <2>0, <5>1, <5>4, CountIs
      <4>2. CASE \A i \in Committed : node[i].key # k
        BY <4>2, CountNone
      <4> QED  BY <4>1, <4>2
    <3> QED  BY <3>1, <3>2
  <2> QED  BY <2>1, <2>2
<1> QED  BY <1>1, <1>2, <1>3, Invariance, PTL DEF Spec

-----------------------------------------------------------------------------
(* odb_check_hash                                                          *)

\* Induction over the naturals, for a set.
LEMMA NatSetInduction ==
  ASSUME NEW T, 0 \in T, \A n \in Nat : n \in T => n + 1 \in T
  PROVE  Nat \subseteq T
<1> SUFFICES ASSUME NEW m \in Nat, m \notin T PROVE FALSE
  OBVIOUS
<1> DEFINE U == {0..n : n \in {k \in Nat : k \notin T}}
<1>1. U # {} /\ 0..m \in U
  OBVIOUS
<1>2. U \subseteq FiniteSubsetsOf(Nat)
  <2> SUFFICES ASSUME NEW n \in Nat PROVE 0..n \in FiniteSubsetsOf(Nat)
    OBVIOUS
  <2>1. IsFiniteSet(0..n) BY FS_Interval
  <2> QED BY <2>1 DEF FiniteSubsetsOf
<1>3. IsWellFoundedOn(StrictSubsetOrdering(Nat), FiniteSubsetsOf(Nat))
  BY FS_StrictSubsetOrderingWellFounded
<1> HIDE DEF U
<1>4. \E x \in U : \A y \in U : ~(<<y, x>> \in StrictSubsetOrdering(Nat))
  BY <1>1, <1>2, <1>3, WFMin
<1> USE DEF U
<1>5. PICK x \in Nat : x \notin T /\ \A y \in U : ~(<<y, 0..x>> \in StrictSubsetOrdering(Nat))
  BY <1>4
<1>6. x # 0
  BY <1>5
<1>7. x - 1 \in Nat /\ (x - 1) + 1 = x
  BY <1>6
<1>8. x - 1 \notin T
  BY <1>5, <1>7
<1>9. 0..(x - 1) \in U
  BY <1>7, <1>8
<1>10. <<0..(x - 1), 0..x>> \in StrictSubsetOrdering(Nat)
  BY <1>7 DEF StrictSubsetOrdering
<1> QED BY <1>5, <1>9, <1>10

\* g starts at c and goes on by F, n times.
Iterates(g, S, c, F, n) ==
  /\ g \in [0..n -> S]
  /\ g[0] = c
  /\ \A m \in 1..n : g[m] = F[m][g[m - 1]]

\* There is a function that does so.
LEMMA RecursionExists ==
  ASSUME NEW S, NEW c \in S, NEW F \in [Nat -> [S -> S]], NEW n \in Nat
  PROVE  \E g : Iterates(g, S, c, F, n)
<1> DEFINE R(g, k) == g[0] = c /\ \A m \in 1..k : g[m] = F[m][g[m - 1]]
           T == {k \in Nat : \E g \in [0..k -> S] : R(g, k)}
<1>1. 0 \in T
  <2>1. [i \in 0..0 |-> c] \in [0..0 -> S] /\ R([i \in 0..0 |-> c], 0)
    OBVIOUS
  <2> QED BY <2>1
<1>2. ASSUME NEW k \in Nat, k \in T PROVE k + 1 \in T
  <2>1. PICK g \in [0..k -> S] : R(g, k)
    BY <1>2
  <2> DEFINE h == [i \in 0..k + 1 |-> IF i =< k THEN g[i] ELSE F[k + 1][g[k]]]
  <2>2. F[k + 1] \in [S -> S] /\ g[k] \in S
    OBVIOUS
  <2>3. h \in [0..k + 1 -> S]
    BY <2>2
  <2>4. ASSUME NEW m \in 1..k + 1 PROVE h[m] = F[m][h[m - 1]]
    <3>1. CASE m = k + 1
      BY <3>1
    <3>2. CASE m =< k
      <4>1. m \in 1..k /\ m - 1 \in 0..k /\ h[m] = g[m] /\ h[m - 1] = g[m - 1]
        BY <3>2
      <4> QED BY <4>1, <2>1
    <3> QED BY <3>1, <3>2
  <2>5. h[0] = c
    BY <2>1
  <2> HIDE DEF h
  <2>6. R(h, k + 1)
    BY <2>4, <2>5
  <2> QED BY <2>3, <2>6
<1>3. Nat \subseteq T
  <2> HIDE DEF T
  <2> QED BY <1>1, <1>2, NatSetInduction
<1> QED BY <1>3 DEF Iterates

\* Where the walk along a chain goes from an index.
Follow == [i \in 0..(MaxSize - 1) |-> IF i = 0 THEN 0 ELSE node[i].next]

\* The walk along a chain begins in the hash table and follows the next links.
LEMMA WalkIs ==
  ASSUME TypeOK, NEW b \in Buckets
  PROVE  /\ Walk(b) \in [0..descr.current_size -> 0..(MaxSize - 1)]
         /\ Walk(b)[0] = hash[b]
         /\ \A n \in 1..descr.current_size :
              Walk(b)[n] = IF Walk(b)[n - 1] = 0 THEN 0 ELSE node[Walk(b)[n - 1]].next
<1> DEFINE S == 0..(MaxSize - 1)
           c == descr.current_size
           F == [n \in Nat |-> Follow]
           Eqs(at) == at = [n \in 0..c |-> IF n = 0 THEN hash[b] ELSE Follow[at[n - 1]]]
<1>0. MaxSize \in Nat \ {0} /\ hash[b] \in S /\ c \in Nat
  BY SizeAssumption DEF TypeOK, Buckets
<1>1. F \in [Nat -> [S -> S]]
  <2>1. ASSUME NEW i \in S, i # 0 PROVE node[i].next \in S
    <3>1. i \in Slots
      BY <1>0, <2>1 DEF Slots
    <3>2. node[i] \in Node \cup {NoNode}
      BY <3>1 DEF TypeOK
    <3> QED  BY <1>0, <3>2 DEF Node, NoNode
  <2>2. Follow \in [S -> S]
    BY <1>0, <2>1 DEF Follow
  <2> HIDE DEF S
  <2> QED  BY <2>2
<1> HIDE DEF c
<1>2. PICK g : Iterates(g, S, hash[b], F, c)
  <2> HIDE DEF F, S
  <2> QED  BY <1>0, <1>1, RecursionExists
<1>3. /\ g \in [0..c -> S] /\ g[0] = hash[b]
      /\ \A m \in 1..c : g[m] = F[m][g[m - 1]]
  <2> HIDE DEF F, S
  <2> QED  BY <1>2 DEF Iterates
<1>4. \A m \in 1..c : g[m] = Follow[g[m - 1]]
  BY <1>0, <1>3
<1>5. Eqs(g)
  <2> HIDE DEF F, S
  <2>1. g = [n \in 0..c |-> g[n]]
    BY <1>3
  <2>2. \A n \in 0..c : n = 0 \/ n \in 1..c
    BY <1>0
  <2> QED  BY <1>3, <1>4, <2>1, <2>2
<1>6. Eqs(Walk(b))
  <2>1. Walk(b) = CHOOSE at : Eqs(at)
    BY DEF Walk, Follow, c
  <2> HIDE DEF Eqs
  <2> QED  BY <1>5, <2>1
<1> DEFINE w == Walk(b)
<1>7. w = [n \in 0..c |-> w[n]] /\ \A n \in 0..c : w[n] = IF n = 0 THEN hash[b] ELSE Follow[w[n - 1]]
  BY <1>6
<1> HIDE DEF Eqs, F, w
<1>8. w[0] = hash[b] /\ \A n \in 1..c : w[n] = Follow[w[n - 1]]
  <2>1. 0 \in 0..c /\ \A n \in 1..c : n \in 0..c /\ n # 0
    BY <1>0
  <2> QED  BY <1>7, <2>1
<1> DEFINE T == {n \in Nat : n \in 0..c => w[n] \in S}
<1>9. Nat \subseteq T
  <2>1. 0 \in T
    BY <1>0, <1>8
  <2>2. ASSUME NEW n \in Nat, n \in T PROVE n + 1 \in T
    <3> SUFFICES ASSUME n + 1 \in 0..c PROVE w[n + 1] \in S
      OBVIOUS
    <3>1. n + 1 \in 1..c /\ (n + 1) - 1 = n /\ n \in 0..c
      BY <1>0
    <3>2. w[n + 1] = Follow[w[n]] /\ w[n] \in S
      <4> HIDE DEF S
      <4> QED  BY <1>8, <2>2, <3>1
    <3>3. Follow \in [S -> S]
      <4>1. F[0] = Follow /\ F[0] \in [S -> S]
        <5> HIDE DEF S
        <5> QED  BY <1>1 DEF F
      <4> QED  BY <4>1
    <3> HIDE DEF S
    <3> QED  BY <3>2, <3>3
  <2> HIDE DEF T
  <2> QED  BY <2>1, <2>2, NatSetInduction
<1>10. \A n \in 0..c : w[n] \in S
  <2>1. \A n \in 0..c : n \in T
    BY <1>0, <1>9
  <2> HIDE DEF S
  <2> QED  BY <2>1
<1>11. \A n \in 1..c : w[n] = IF w[n - 1] = 0 THEN 0 ELSE node[w[n - 1]].next
  <2> SUFFICES ASSUME NEW n \in 1..c
               PROVE  w[n] = IF w[n - 1] = 0 THEN 0 ELSE node[w[n - 1]].next
    OBVIOUS
  <2>1. n - 1 \in 0..c
    BY <1>0
  <2>2. w[n - 1] \in S
    <3> HIDE DEF S
    <3> QED  BY <1>10, <2>1
  <2>3. w[n] = Follow[w[n - 1]]
    BY <1>8
  <2> QED  BY <2>2, <2>3 DEF Follow
<1>12. w \in [0..c -> S]
  <2> HIDE DEF S
  <2> QED  BY <1>7, <1>10
<1> QED  BY <1>8, <1>11, <1>12 DEF w, c

\* A chain holds the nodes of its bucket, all of them, and the walk along it
\* ends: its indices decrease.
LEMMA ChainIs ==
  ASSUME IndInv, pc \in {"idle", "closed"}, NEW b \in 0..(descr.size - 1)
  PROVE  Met(b) = {i \in Committed : Bucket(i) = b} \cup {0}
<1> DEFINE w == Walk(b)
           c == descr.current_size
<1>0. /\ TypeOK /\ DescrInv /\ ChainInv /\ b \in Buckets /\ c \in Nat \ {0}
  <2>1. TypeOK /\ DescrInv /\ ChainInv
    BY DEF IndInv
  <2>2. descr.size \in 0..MaxSize /\ descr.current_size \in 0..MaxSize /\ MaxSize \in Nat
    BY <2>1, SizeAssumption DEF TypeOK
  <2>3. descr.size # 0
    BY <2>2
  <2> QED  BY <2>1, <2>2, <2>3 DEF Buckets, DescrInv
<1>1. /\ w[0] = hash[b] /\ w \in [0..c -> 0..(MaxSize - 1)]
      /\ \A n \in 1..c : w[n] = IF w[n - 1] = 0 THEN 0 ELSE node[w[n - 1]].next
  BY <1>0, WalkIs
<1>2. /\ \A i \in Committed : IsLast(node[i].next, Bucket(i), i)
      /\ IsLast(hash[b], b, c)
  <2>1. LinkedNr = c
    BY DEF LinkedNr
  <2> QED  BY <1>0, <2>1 DEF ChainInv, Committed
<1>a. Committed = 1..(c - 1)
  BY DEF Committed
<1> HIDE DEF w, c
<1> DEFINE T == {n \in Nat : n \in 0..c /\ w[n] # 0 =>
                   w[n] \in Committed /\ Bucket(w[n]) = b /\ w[n] + n < c}
<1>3. Nat \subseteq T
  <2>1. 0 \in T
    <3>1. w[0] # 0 => w[0] \in Committed /\ Bucket(w[0]) = b /\ w[0] + 0 < c
      BY <1>0, <1>1, <1>2, <1>a DEF IsLast
    <3> QED  BY <3>1
  <2>2. ASSUME NEW n \in Nat, n \in T PROVE n + 1 \in T
    <3> SUFFICES ASSUME n + 1 \in 0..c, w[n + 1] # 0
                 PROVE  w[n + 1] \in Committed /\ Bucket(w[n + 1]) = b /\ w[n + 1] + (n + 1) < c
      OBVIOUS
    <3>1. n + 1 \in 1..c /\ (n + 1) - 1 = n /\ n \in 0..c
      BY <1>0
    <3>2. w[n] # 0 /\ w[n + 1] = node[w[n]].next
      BY <1>1, <3>1
    <3>3. w[n] \in Committed /\ Bucket(w[n]) = b /\ w[n] + n < c
      BY <2>2, <3>1, <3>2
    <3>4. w[n + 1] \in 1..(w[n] - 1) /\ Bucket(w[n + 1]) = b
      BY <1>2, <3>2, <3>3 DEF IsLast
    <3> QED  BY <1>0, <1>a, <3>3, <3>4
  <2> HIDE DEF T
  <2> QED  BY <2>1, <2>2, NatSetInduction
<1>4. \A n \in 0..c : w[n] # 0 => w[n] \in Committed /\ Bucket(w[n]) = b /\ w[n] + n < c
  <2>1. \A n \in 0..c : n \in T
    BY <1>0, <1>3
  <2> QED  BY <2>1
<1>5. w[c] = 0
  <2> SUFFICES ASSUME w[c] # 0 PROVE FALSE
    OBVIOUS
  <2>1. w[c] \in Nat /\ w[c] + c < c
    BY <1>0, <1>4, <1>a
  <2> QED  BY <1>0, <2>1
<1>6. ASSUME NEW i \in Committed, Bucket(i) = b
      PROVE  \E m \in 0..c : w[m] = i
  <2> SUFFICES ASSUME \A m \in 0..c : w[m] # i PROVE FALSE
    OBVIOUS
  <2> DEFINE U == {n \in Nat : n \in 0..c => w[n] # 0 /\ i < w[n]}
  <2>0. i \in Nat /\ i # 0 /\ \A n \in 0..c : w[n] \in Nat
    <3>1. \A n \in 0..c : w[n] # 0 => w[n] \in Nat
      BY <1>0, <1>4, <1>a
    <3> QED  BY <1>0, <1>a, <3>1
  <2>1. 0 \in U
    <3>1. i <= w[0] /\ i # w[0] /\ w[0] \in Nat
      <4>1. i <= hash[b]
        BY <1>2, <1>6, <1>a DEF IsLast
      <4> QED  BY <1>0, <1>1, <2>0, <4>1
    <3>2. w[0] # 0 /\ i < w[0]
      BY <2>0, <3>1
    <3> QED  BY <3>2
  <2>2. ASSUME NEW n \in Nat, n \in U PROVE n + 1 \in U
    <3> SUFFICES ASSUME n + 1 \in 0..c PROVE w[n + 1] # 0 /\ i < w[n + 1]
      OBVIOUS
    <3>1. n + 1 \in 1..c /\ (n + 1) - 1 = n /\ n \in 0..c
      BY <1>0
    <3>2. w[n] # 0 /\ i < w[n] /\ w[n + 1] = node[w[n]].next
      BY <1>1, <2>2, <3>1
    <3>3. w[n] \in Committed /\ Bucket(w[n]) = b
      BY <1>4, <3>1, <3>2
    <3>4. i \in 1..(w[n] - 1)
      BY <1>0, <1>a, <2>0, <3>2, <3>3
    <3>5. i <= w[n + 1] /\ w[n + 1] # i
      BY <1>2, <1>6, <3>1, <3>2, <3>3, <3>4 DEF IsLast
    <3> QED  BY <2>0, <3>5
  <2>3. Nat \subseteq U
    <3> HIDE DEF U
    <3> QED  BY <2>1, <2>2, NatSetInduction
  <2>4. c \in U
    BY <1>0, <2>3
  <2> QED  BY <1>0, <1>5, <2>4
<1>7. Met(b) = {w[n] : n \in 0..c}
  BY DEF Met, w, c
<1>8. c \in 0..c
  BY <1>0
<1> QED  BY <1>4, <1>5, <1>6, <1>7, <1>8

\* OdbCheckHash: a file no operation is under way on passes odb_check_hash, for
\* every table size, set of keys and hash function.
THEOREM CheckPasses == ASSUME Clean PROVE Spec => []OdbCheckHash
<1>1. IndInv => OdbCheckHash
  <2> SUFFICES ASSUME IndInv, pc \in {"idle", "closed"} PROVE odb_check_hash
    BY DEF OdbCheckHash
  <2> DEFINE Table == 0..(descr.size - 1)
             met == [b \in Table |-> Met(b)]
  <2>0. TypeOK /\ DescrInv /\ OperationInv /\ UniqueKeys
    BY DEF IndInv
  <2>1. \A b \in Table : met[b] = {i \in Committed : Bucket(i) = b} \cup {0}
    BY ChainIs
  <2>2. ASSUME NEW i \in Committed PROVE Bucket(i) \in Table /\ i # 0
    <3>1. i \in Slots /\ node[i] # NoNode /\ descr.size # 0 /\ i # 0
      BY <2>0, SizeAssumption DEF TypeOK, DescrInv, OperationInv, Committed, Slots
    <3>2. node[i].key \in Keys
      BY <2>0, <3>1, WrittenNode
    <3> QED  BY <2>0, <3>1, <3>2, TableBucket DEF Bucket
  <2> HIDE DEF Table, met
  <2>3. UNION {met[b] \ {0} : b \in Table} = Committed
    BY <2>1, <2>2
  <2>4. \A b, c \in Table : b # c => met[b] \cap met[c] = {0}
    BY <2>1
  <2>5. \A b \in Table : met[b] \subseteq Committed \cup {0} /\ 0 \in met[b]
    BY <2>1
  <2> QED  BY <2>0, <2>3, <2>4, <2>5 DEF odb_check_hash, Table, met
<1> QED  BY <1>1, Invariance, PTL
=============================================================================
