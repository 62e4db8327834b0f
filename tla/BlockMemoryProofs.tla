------------------------- MODULE BlockMemoryProofs -------------------------
(***************************************************************************)
(* Proofs about BlockMemory, for every number and size of blocks, any      *)
(* number of compiled loops and any number of repetitions of a run.        *)
(***************************************************************************)
EXTENDS BlockMemory, SequenceTheorems, TLAPS

(***************************************************************************)
(* An access of a request in progress falls into one block.                *)
(***************************************************************************)

LEMMA BlockOfAddress ==
  ASSUME NEW addr \in 0 .. Blocks * BlockBytes - 1
  PROVE  BlockOf(addr) \in BlockAddr /\ InBlock(addr) \in 0 .. BlockBytes - 1
<1> DEFINE q == addr \div BlockBytes
           r == addr % BlockBytes
<1>1. Blocks \in Nat \ {0} /\ BlockBytes \in Nat \ {0} /\ addr \in Nat
  BY BlocksAssumption, BlockBytesAssumption
<1>2. q \in Nat /\ r \in 0 .. BlockBytes - 1 /\ addr = BlockBytes * q + r
  BY <1>1
<1>3. Blocks * BlockBytes \in Nat /\ addr < Blocks * BlockBytes
  BY <1>1
<1> HIDE DEF q, r
<1>4. q < Blocks
  <2> SUFFICES ASSUME q >= Blocks PROVE FALSE
    BY <1>1, <1>2
  <2>1. BlockBytes * q >= BlockBytes * Blocks
    BY <1>1, <1>2
  <2> QED BY <1>1, <1>2, <1>3, <2>1
<1> QED BY <1>1, <1>2, <1>4 DEF q, r, BlockOf, InBlock, BlockAddr

LEMMA AlignedInOneBlock ==
  ASSUME NEW addr \in Nat, NEW n \in Sizes, addr % n = 0
  PROVE  InBlock(addr) + n <= BlockBytes
<1> DEFINE q == addr \div BlockBytes
           r == addr % BlockBytes
           k == BlockBytes \div n
           a == addr \div n
           p == k * q
<1>1. /\ n \in {1, 2, 4, 8} /\ BlockBytes \in Nat \ {0} /\ BlockBytes % n = 0
  BY SizesAssumption, BlockBytesAssumption
<1>2. /\ q \in Nat /\ r \in Nat /\ r < BlockBytes /\ addr = BlockBytes * q + r
  BY <1>1
<1>3. k \in Nat /\ BlockBytes = n * k
  BY <1>1
<1>4. a \in Nat /\ addr = n * a
  BY <1>1
<1> HIDE DEF q, r, k, a
<1>5. p \in Nat /\ BlockBytes * q = n * p
  BY <1>1, <1>2, <1>3
<1> HIDE DEF p
<1>6. n * a = n * p + r /\ r < n * k
  BY <1>2, <1>3, <1>4, <1>5
<1>7. r + n <= n * k
  <2>1. CASE n = 1  BY <2>1, <1>2, <1>3, <1>4, <1>5, <1>6
  <2>2. CASE n = 2  BY <2>2, <1>2, <1>3, <1>4, <1>5, <1>6
  <2>3. CASE n = 4  BY <2>3, <1>2, <1>3, <1>4, <1>5, <1>6
  <2>4. CASE n = 8  BY <2>4, <1>2, <1>3, <1>4, <1>5, <1>6
  <2> QED BY <1>1, <2>1, <2>2, <2>3, <2>4
<1> QED BY <1>3, <1>7 DEF r, InBlock

\* a request in progress stays inside the memory
RequestOK(req) ==
  /\ req \in [op : {"read", "write"}, addr : Nat, n : Sizes,
              executable : BOOLEAN, unit : Nat, done : Nat,
              data : UNION {Bytes(n) : n \in Sizes}]
  /\ req.addr + req.n <= Blocks * BlockBytes
  /\ req.unit = Unit(req.addr, req.n)
  /\ req.done + req.unit <= req.n
  /\ req.data \in Bytes(req.n)

LEMMA NextAccess ==
  ASSUME RequestOK(request)
  PROVE  /\ request.n \in {1, 2, 4, 8}
         /\ request.unit \in 1 .. request.n
         /\ NextIndex(request) \in 0 .. request.n - request.unit
         /\ NextBlock \in BlockAddr
         /\ InBlock(NextAddr) \in 0 .. BlockBytes - 1
         /\ InBlock(NextAddr) + request.unit <= BlockBytes
<1> DEFINE i == NextIndex(request)
<1>1. /\ request.n \in Sizes /\ request.n \in {1, 2, 4, 8} /\ request.addr \in Nat
      /\ request.done \in Nat /\ request.addr + request.n <= Blocks * BlockBytes
  BY SizesAssumption DEF RequestOK
<1>2. request.unit = request.n \/ request.unit = 1
  BY DEF RequestOK, Unit
<1>3. /\ request.unit \in 1 .. request.n
      /\ i \in 0 .. request.n - request.unit
  BY <1>1, <1>2 DEF RequestOK, NextIndex
<1>4. Blocks * BlockBytes \in Nat
  BY BlocksAssumption, BlockBytesAssumption
<1>5. NextAddr = request.addr + i /\ NextAddr \in 0 .. Blocks * BlockBytes - 1
  BY <1>1, <1>3, <1>4 DEF NextAddr
<1>6. NextAddr % request.unit = 0
  <2>1. CASE request.unit = 1  BY <2>1, <1>4, <1>5
  <2>2. CASE request.unit # 1
    <3>1. request.addr % request.n = 0 /\ request.unit = request.n
      BY <2>2, <1>2 DEF RequestOK, Unit, IsAligned
    <3>2. i = 0  BY <3>1, <1>1, <1>3
    <3> QED BY <3>1, <3>2, <1>1, <1>5
  <2> QED BY <2>1, <2>2
<1>7. request.unit \in Sizes
  BY <1>1, <1>2, SizesAssumption
<1>8. NextAddr \in Nat
  BY <1>4, <1>5
<1>9. NextBlock \in BlockAddr /\ InBlock(NextAddr) \in 0 .. BlockBytes - 1
  BY <1>5, BlockOfAddress DEF NextBlock
<1>10. InBlock(NextAddr) + request.unit <= BlockBytes
  BY <1>6, <1>7, <1>8, AlignedInOneBlock
<1> QED BY <1>1, <1>3, <1>9, <1>10

LEMMA RequestsStart ==
  ASSUME NEW a \in Accesses, NEW data \in Bytes(a[2])
  PROVE  /\ \A executable \in BOOLEAN : RequestOK(ReadRequest(a[1], a[2], executable))
         /\ RequestOK(WriteRequest(a[1], a[2], data))
<1>1. /\ a[1] \in Nat /\ a[2] \in Sizes /\ a[2] \in {1, 2, 4, 8}
      /\ a[1] + a[2] <= Blocks * BlockBytes
  <2>1. /\ a[1] \in 0 .. Blocks * BlockBytes - 1 /\ a[2] \in Sizes
        /\ a[1] + a[2] <= Blocks * BlockBytes
    BY DEF Accesses
  <2>2. a[1] \in Nat
    BY <2>1
  <2> QED BY <2>1, <2>2, SizesAssumption
<1>2. Unit(a[1], a[2]) \in 1 .. a[2]
  BY <1>1 DEF Unit
<1>3. [i \in 0 .. a[2] - 1 |-> 0] \in Bytes(a[2])
  BY ByteAssumption DEF Bytes
<1>4. \A d \in Bytes(a[2]) : d \in UNION {Bytes(n) : n \in Sizes}
  BY <1>1
<1> HIDE DEF Bytes, Unit
<1>5. ASSUME NEW executable \in BOOLEAN
      PROVE  RequestOK(ReadRequest(a[1], a[2], executable))
  BY <1>1, <1>2, <1>3, <1>4 DEF RequestOK, ReadRequest
<1>6. RequestOK(WriteRequest(a[1], a[2], data))
  BY <1>1, <1>2, <1>4 DEF RequestOK, WriteRequest
<1> QED BY <1>5, <1>6

(***************************************************************************)
(* One access to one block.                                                *)
(***************************************************************************)

LEMMA DataWithType ==
  ASSUME RequestOK(request), NEW block \in Block
  PROVE  DataWith(block) \in Bytes(request.n)
<1> DEFINE i == NextIndex(request)
           b == InBlock(NextAddr)
<1>1. /\ request.n \in Nat /\ request.unit \in Nat /\ i \in Nat
      /\ i + request.unit <= request.n
      /\ b \in Nat /\ b + request.unit <= BlockBytes /\ BlockBytes \in Nat
  BY NextAccess, BlockBytesAssumption
<1>2. request.data \in [0 .. request.n - 1 -> Byte]
  BY DEF RequestOK, Bytes
<1>3. DataWith(block) =
        [j \in 0 .. request.n - 1 |-> IF j \in i .. i + request.unit - 1
                                      THEN block[b + j - i] ELSE request.data[j]]
  BY <1>2 DEF DataWith, NextIndices
<1> HIDE DEF i, b
<1>4. ASSUME NEW j \in i .. i + request.unit - 1
      PROVE  block[b + j - i] \in Byte
  <2>1. b + j - i \in 0 .. BlockBytes - 1
    BY <1>1
  <2> QED BY <2>1 DEF Block
<1> QED BY <1>1, <1>2, <1>3, <1>4 DEF Bytes

LEMMA BlockWithType ==
  ASSUME RequestOK(request), NEW block \in Block
  PROVE  BlockWith(block) \in Block
<1> DEFINE i == NextIndex(request)
           b == InBlock(NextAddr)
<1>1. /\ request.n \in Nat /\ request.unit \in Nat /\ i \in Nat
      /\ i + request.unit <= request.n
      /\ b \in Nat /\ BlockBytes \in Nat
  BY NextAccess, BlockBytesAssumption
<1>2. request.data \in [0 .. request.n - 1 -> Byte]
  BY DEF RequestOK, Bytes
<1>3. BlockWith(block) =
        [j \in 0 .. BlockBytes - 1 |-> IF j \in b .. b + request.unit - 1
                                       THEN request.data[i + j - b] ELSE block[j]]
  BY DEF BlockWith, Block
<1> HIDE DEF i, b
<1>4. ASSUME NEW j \in b .. b + request.unit - 1
      PROVE  request.data[i + j - b] \in Byte
  <2>1. i + j - b \in 0 .. request.n - 1
    BY <1>1
  <2> QED BY <2>1, <1>2
<1> QED BY <1>3, <1>4 DEF Block

\* a record with two of its fields replaced
LEMMA RecordUpdate ==
  ASSUME NEW Op, NEW N, NEW D,
         NEW r \in [op : Op, addr : Nat, n : N, executable : BOOLEAN,
                    unit : Nat, done : Nat, data : D],
         NEW d \in Nat, NEW x \in D
  PROVE  LET s == [r EXCEPT !.done = d, !.data = x]
         IN  /\ s \in [op : Op, addr : Nat, n : N, executable : BOOLEAN,
                       unit : Nat, done : Nat, data : D]
             /\ s.op = r.op /\ s.addr = r.addr /\ s.n = r.n
             /\ s.unit = r.unit /\ s.done = d /\ s.data = x
OBVIOUS

LEMMA RequestAdvances ==
  ASSUME RequestOK(request), NEW data \in Bytes(request.n),
         ~ IsLastAccess(request),
         request' = [request EXCEPT !.done = @ + request.unit, !.data = data]
  PROVE  RequestOK(request')
<1>1. request.n \in Sizes /\ request.n \in {1, 2, 4, 8}
  BY SizesAssumption DEF RequestOK
<1>2. request.unit = request.n \/ request.unit = 1
  BY DEF RequestOK, Unit
<1>3. /\ request.done \in Nat /\ request.unit \in Nat
      /\ request.done + request.unit < request.n
  BY <1>1, <1>2 DEF RequestOK, IsLastAccess
<1>4. request.done + request.unit + request.unit <= request.n
  BY <1>1, <1>2, <1>3
<1>5. data \in UNION {Bytes(n) : n \in Sizes}
  BY <1>1
<1>6. request.done + request.unit \in Nat
  BY <1>3
<1>7. /\ request' \in [op : {"read", "write"}, addr : Nat, n : Sizes,
                        executable : BOOLEAN, unit : Nat, done : Nat,
                        data : UNION {Bytes(n) : n \in Sizes}]
      /\ request'.addr = request.addr /\ request'.n = request.n
      /\ request'.unit = request.unit
      /\ request'.done = request.done + request.unit
      /\ request'.data = data
  BY <1>5, <1>6, RecordUpdate DEF RequestOK
<1> QED BY <1>4, <1>7 DEF RequestOK

LEMMA AccessType ==
  ASSUME RequestOK(request), NEW h \in Seq(Block), NEW obj \in 1 .. Len(h),
         AccessBlock(h, obj)
  PROVE  /\ heap' \in Seq(Block) /\ Len(heap') = Len(h)
         /\ request' = Idle \/ RequestOK(request')
<1>1. h[obj] \in Block
  OBVIOUS
<1>2. BlockWith(h[obj]) \in Block /\ DataWith(h[obj]) \in Bytes(request.n)
  BY <1>1, BlockWithType, DataWithType
<1>3. heap' = h \/ heap' = [h EXCEPT ![obj] = BlockWith(h[obj])]
  BY DEF AccessBlock
<1>4. heap' \in Seq(Block) /\ Len(heap') = Len(h)
  BY <1>2, <1>3
<1>5. CASE IsLastAccess(request)
  BY <1>4, <1>5 DEF AccessBlock
<1>6. CASE ~ IsLastAccess(request)
  <2>1. PICK data \in Bytes(request.n) :
          request' = [request EXCEPT !.done = @ + request.unit, !.data = data]
    <3>1. request.data \in Bytes(request.n)
      BY DEF RequestOK
    <3> QED BY <1>2, <1>6, <3>1 DEF AccessBlock
  <2> QED BY <1>4, <1>6, <2>1, RequestAdvances
<1> QED BY <1>5, <1>6

-----------------------------------------------------------------------------
(***************************************************************************)
(* The inductive invariant.  CachesCurrent and BlocksDistinct need each    *)
(* other's bookkeeping: an object that the dictionary, a cache or a loop   *)
(* has is one of the heap, so the object that is created next is new.      *)
(***************************************************************************)

Objects == 1 .. Len(heap)

PointersOK ==
  /\ heap \in Seq(Block)
  /\ blocks \in [BlockAddr -> Objects \union {None}]
  /\ last \in [Kind -> Objects \union {None}]
  /\ lastAddr \in [Kind -> BlockAddr \union {NoBlockAddr}]
  /\ folded \subseteq BlockAddr \X Objects \X (0 .. resets)
  /\ resets \in 0 .. MaxResets
  /\ misled \in BOOLEAN
  /\ request = Idle \/ RequestOK(request)

BlockInv == PointersOK /\ CachesCurrent /\ BlocksDistinct

\* _get_block (line 238): the object of an address, new or not
LEMMA GetBlock ==
  ASSUME PointersOK, BlocksDistinct, NEW b \in BlockAddr
  PROVE  /\ HeapWith(b) \in Seq(Block)
         /\ Len(heap) <= Len(HeapWith(b))
         /\ ObjectOf(b) \in 1 .. Len(HeapWith(b))
         /\ ObjectOf(b) # None
         /\ BlocksWith(b) \in [BlockAddr -> 1 .. Len(HeapWith(b)) \union {None}]
         /\ BlocksWith(b)[b] = ObjectOf(b)
         /\ \A c \in BlockAddr : blocks[c] # None => BlocksWith(b)[c] = blocks[c]
         /\ \A c, d \in BlockAddr :
              BlocksWith(b)[c] = BlocksWith(b)[d] /\ BlocksWith(b)[c] # None => c = d
<1> USE DEF PointersOK, BlocksDistinct, Exists, HeapWith, ObjectOf, BlocksWith,
            Objects, None
<1>1. Len(heap) \in Nat
  OBVIOUS
<1>2. CASE blocks[b] # 0
  BY <1>1, <1>2
<1>3. CASE blocks[b] = 0
  <2>1. ZeroBlock \in Block
    BY ByteAssumption DEF ZeroBlock, Block
  <2>2. HeapWith(b) \in Seq(Block) /\ Len(HeapWith(b)) = Len(heap) + 1
    BY <1>3, <2>1
  <2>3. ObjectOf(b) = Len(heap) + 1
    BY <1>3
  <2>4. BlocksWith(b) = [blocks EXCEPT ![b] = Len(heap) + 1]
    BY <1>3
  <2>5. \A c \in BlockAddr : blocks[c] \in 0 .. Len(heap)
    BY <1>1
  <2> QED BY <1>1, <2>2, <2>3, <2>4, <2>5
<1> QED BY <1>2, <1>3

LEMMA BlockInvInit == Init => BlockInv
<1> SUFFICES ASSUME Init PROVE BlockInv
  OBVIOUS
<1>1. heap \in Seq(Block) /\ 0 \in 0 .. MaxResets
  BY ResetsAssumption DEF Init
<1>2. PointersOK
  BY <1>1 DEF Init, PointersOK
<1>3. CachesCurrent /\ BlocksDistinct
  BY DEF Init, CachesCurrent, BlocksDistinct, Exists
<1> QED BY <1>2, <1>3 DEF BlockInv

\* one access, to an object that exists or was created for it, after which
\* the dictionary has more objects and the caches and loops what they should
LEMMA AccessPreserves ==
  ASSUME BlockInv, request # Idle,
         NEW h \in Seq(Block), Len(heap) <= Len(h),
         NEW obj \in 1 .. Len(h), AccessBlock(h, obj),
         blocks' \in [BlockAddr -> 1 .. Len(h) \union {None}],
         last' \in [Kind -> 1 .. Len(h) \union {None}],
         lastAddr' \in [Kind -> BlockAddr \union {NoBlockAddr}],
         folded' \subseteq BlockAddr \X (1 .. Len(h)) \X (0 .. resets),
         misled' \in BOOLEAN,
         UNCHANGED resets,
         CachesCurrent', BlocksDistinct'
  PROVE  BlockInv'
<1>1. RequestOK(request)
  BY DEF BlockInv, PointersOK
<1>2. /\ heap' \in Seq(Block) /\ Len(heap') = Len(h)
      /\ request' = Idle \/ RequestOK(request')
  BY <1>1, AccessType
<1>3. PointersOK'
  BY <1>2 DEF BlockInv, PointersOK, Objects
<1> QED BY <1>3 DEF BlockInv

LEMMA BlockInvNext == BlockInv /\ [Next]_vars => BlockInv'
<1> SUFFICES ASSUME BlockInv, [Next]_vars PROVE BlockInv'
  OBVIOUS
<1> USE DEF BlockInv
<1>1. ASSUME NEW a \in Accesses, NEW executable \in BOOLEAN,
             StartRead(a[1], a[2], executable)
      PROVE  BlockInv'
  <2>1. [i \in 0 .. a[2] - 1 |-> 0] \in Bytes(a[2])
    BY ByteAssumption DEF Bytes
  <2>2. RequestOK(request')
    BY <1>1, <2>1, RequestsStart DEF StartRead
  <2> QED
    BY <1>1, <2>2 DEF StartRead, PointersOK, Objects, CachesCurrent, BlocksDistinct,
       Exists
<1>2. ASSUME NEW a \in Accesses, NEW data \in Bytes(a[2]),
             StartWrite(a[1], a[2], data)
      PROVE  BlockInv'
  <2>1. RequestOK(request')
    BY <1>2, RequestsStart DEF StartWrite
  <2> QED
    BY <1>2, <2>1 DEF StartWrite, PointersOK, Objects, CachesCurrent, BlocksDistinct,
       Exists
<1>3. request # Idle => NextBlock \in BlockAddr
  BY NextAccess DEF PointersOK
<1>4. Len(heap) \in Nat /\ heap \in Seq(Block) /\ RequestKind \in Kind
  BY DEF PointersOK, RequestKind, Kind
<1>5. NoBlockAddr \notin BlockAddr
  BY BlocksAssumption DEF NoBlockAddr, BlockAddr
<1>6. CASE CacheHit
  <2>1. last[RequestKind] \in 1 .. Len(heap)
    BY <1>3, <1>4, <1>5, <1>6 DEF CacheHit, PointersOK, Objects, CachesCurrent
  <2>2. CachesCurrent' /\ BlocksDistinct'
    BY <1>6 DEF CacheHit, CachesCurrent, BlocksDistinct, Exists
  <2>3. /\ request # Idle /\ AccessBlock(heap, last[RequestKind])
        /\ blocks' \in [BlockAddr -> 1 .. Len(heap) \union {None}]
        /\ last' \in [Kind -> 1 .. Len(heap) \union {None}]
        /\ lastAddr' \in [Kind -> BlockAddr \union {NoBlockAddr}]
        /\ folded' \subseteq BlockAddr \X (1 .. Len(heap)) \X (0 .. resets)
        /\ misled' \in BOOLEAN /\ UNCHANGED resets
    BY <1>6 DEF CacheHit, PointersOK, Objects
  <2>4. Len(heap) <= Len(heap)
    BY <1>4
  <2> HIDE DEF BlockInv
  <2> QED BY <1>4, <2>1, <2>2, <2>3, <2>4, AccessPreserves
<1> DEFINE h == HeapWith(NextBlock)
           obj == ObjectOf(NextBlock)
<1>7. CASE CacheMiss
  <2>1. /\ h \in Seq(Block) /\ Len(heap) <= Len(h) /\ Len(h) \in Nat
        /\ obj \in 1 .. Len(h) /\ obj # None
        /\ BlocksWith(NextBlock) \in [BlockAddr -> 1 .. Len(h) \union {None}]
        /\ BlocksWith(NextBlock)[NextBlock] = obj
        /\ \A c \in BlockAddr :
             blocks[c] # None => BlocksWith(NextBlock)[c] = blocks[c]
        /\ \A c, d \in BlockAddr :
             /\ BlocksWith(NextBlock)[c] = BlocksWith(NextBlock)[d]
             /\ BlocksWith(NextBlock)[c] # None
             => c = d
    BY <1>3, <1>7, GetBlock DEF CacheMiss
  <2> HIDE DEF h, obj
  <2>2. /\ blocks' = BlocksWith(NextBlock)
        /\ last' = [last EXCEPT ![RequestKind] = obj]
        /\ lastAddr' = [lastAddr EXCEPT ![RequestKind] = NextBlock]
        /\ AccessBlock(h, obj)
        /\ UNCHANGED <<folded, resets, misled>>
        /\ request # Idle
    BY <1>7 DEF CacheMiss, h, obj
  <2>3. /\ last' \in [Kind -> 1 .. Len(h) \union {None}]
        /\ lastAddr' \in [Kind -> BlockAddr \union {NoBlockAddr}]
        /\ folded' \subseteq BlockAddr \X (1 .. Len(h)) \X (0 .. resets)
        /\ misled' \in BOOLEAN /\ UNCHANGED resets
    BY <1>3, <1>4, <2>1, <2>2 DEF PointersOK, Objects
  <2>4. BlocksDistinct'
    BY <2>1, <2>2 DEF BlocksDistinct, Exists
  <2>5. CachesCurrent'
    BY <1>3, <1>4, <2>1, <2>2 DEF CachesCurrent, PointersOK, Objects
  <2> HIDE DEF BlockInv
  <2> QED BY <2>1, <2>2, <2>3, <2>4, <2>5, AccessPreserves
<1>8. CASE TracedAccess
  <2>1. /\ h \in Seq(Block) /\ Len(heap) <= Len(h) /\ Len(h) \in Nat
        /\ obj \in 1 .. Len(h)
        /\ BlocksWith(NextBlock) \in [BlockAddr -> 1 .. Len(h) \union {None}]
        /\ \A c \in BlockAddr :
             blocks[c] # None => BlocksWith(NextBlock)[c] = blocks[c]
        /\ \A c, d \in BlockAddr :
             /\ BlocksWith(NextBlock)[c] = BlocksWith(NextBlock)[d]
             /\ BlocksWith(NextBlock)[c] # None
             => c = d
    BY <1>3, <1>8, GetBlock DEF TracedAccess
  <2> HIDE DEF h, obj
  <2>2. /\ blocks' = BlocksWith(NextBlock)
        /\ folded' = folded \union {<<NextBlock, obj, resets>>}
        /\ AccessBlock(h, obj)
        /\ UNCHANGED <<last, lastAddr, resets, misled>>
        /\ request # Idle
    BY <1>8 DEF TracedAccess, Fold, h, obj
  <2>3. /\ last' \in [Kind -> 1 .. Len(h) \union {None}]
        /\ lastAddr' \in [Kind -> BlockAddr \union {NoBlockAddr}]
        /\ folded' \subseteq BlockAddr \X (1 .. Len(h)) \X (0 .. resets)
        /\ misled' \in BOOLEAN
    BY <1>3, <1>4, <2>1, <2>2 DEF PointersOK, Objects
  <2>4. BlocksDistinct'
    BY <2>1, <2>2 DEF BlocksDistinct, Exists
  <2>5. CachesCurrent'
    BY <2>1, <2>2 DEF CachesCurrent, PointersOK, Objects
  <2> QED BY <2>1, <2>2, <2>3, <2>4, <2>5, AccessPreserves
<1>9. ASSUME NEW f \in folded, CompiledAccess(f)
      PROVE  BlockInv'
  <2>1. f[2] \in 1 .. Len(heap)
    BY DEF PointersOK, Objects
  <2>2. CachesCurrent' /\ BlocksDistinct'
    BY <1>9 DEF CompiledAccess, CachesCurrent, BlocksDistinct, Exists
  <2>3. /\ AccessBlock(heap, f[2]) /\ misled' = (misled \/ Stale(f))
        /\ UNCHANGED <<blocks, last, lastAddr, folded, resets>>
        /\ request # Idle
    BY <1>9 DEF CompiledAccess
  <2>4. /\ blocks' \in [BlockAddr -> 1 .. Len(heap) \union {None}]
        /\ last' \in [Kind -> 1 .. Len(heap) \union {None}]
        /\ lastAddr' \in [Kind -> BlockAddr \union {NoBlockAddr}]
        /\ folded' \subseteq BlockAddr \X (1 .. Len(heap)) \X (0 .. resets)
        /\ misled' \in BOOLEAN /\ UNCHANGED resets
    BY <2>3 DEF PointersOK, Objects
  <2>5. Len(heap) <= Len(heap)
    BY <1>4
  <2> QED
    BY <1>4, <2>1, <2>2, <2>3, <2>4, <2>5, AccessPreserves
<1>10. CASE Reset
  <2>1. resets \in Nat /\ resets' = resets + 1 /\ resets' \in 0 .. MaxResets
    BY <1>10, ResetsAssumption DEF Reset, PointersOK
  <2>2. heap' \in Seq(Block) /\ Len(heap') = Len(heap)
    <3>1. ZeroBlock \in Block
      BY ByteAssumption DEF ZeroBlock, Block
    <3>2. \A i \in 1 .. Len(heap) : heap[i] \in Block
      BY <1>4
    <3>3. DOMAIN heap = 1 .. Len(heap)
      BY <1>4
    <3>4. heap' \in [1 .. Len(heap) -> Block]
      BY <1>10, <3>1, <3>2, <3>3 DEF Reset, Collected
    <3> QED BY <1>4, <3>4
  <2>3. folded' \subseteq BlockAddr \X Objects' \X (0 .. resets')
    <3>1. 0 .. resets \subseteq 0 .. resets'
      BY <2>1
    <3> QED BY <1>10, <2>2, <3>1 DEF Reset, PointersOK, Objects
  <2> QED
    BY <1>10, <2>1, <2>2, <2>3 DEF Reset, PointersOK, Objects, CachesCurrent,
       BlocksDistinct, Exists
<1>11. CASE UNCHANGED vars
  BY <1>11 DEF vars, PointersOK, Objects, RequestOK, CachesCurrent, BlocksDistinct,
     Exists
<1> QED
  BY <1>1, <1>2, <1>6, <1>7, <1>8, <1>9, <1>10, <1>11 DEF Next

LEMMA BlockInvariant == Spec => []BlockInv
BY BlockInvInit, BlockInvNext, PTL DEF Spec

\* The type invariant: caches, dictionary and loops refer to objects of the
\* heap, and every block of the heap has all its bytes.
THEOREM BlockTypeCorrect == Spec => []TypeOK
<1>1. BlockInv => TypeOK
  <2> SUFFICES ASSUME BlockInv PROVE TypeOK
    OBVIOUS
  <2>1. DOMAIN heap = Objects /\ \A obj \in Objects : heap[obj] \in Block
    BY DEF BlockInv, PointersOK, Objects
  <2> QED BY <2>1 DEF BlockInv, PointersOK, TypeOK, Object
<1> QED BY BlockInvariant, <1>1, PTL

\* The caches of the last block (lines 207 to 236) are never stale, however
\* accesses of data, instruction fetches, accesses that bypass the caches and
\* repetitions of the run follow each other.
THEOREM CachesStayCurrent == Spec => []CachesCurrent
<1>1. BlockInv => CachesCurrent
  BY DEF BlockInv
<1> QED BY BlockInvariant, <1>1, PTL

\* No two addresses ever share a block (lines 238 to 243).
THEOREM BlocksStayDistinct == Spec => []BlocksDistinct
<1>1. BlockInv => BlocksDistinct
  BY DEF BlockInv
<1> QED BY BlockInvariant, <1>1, PTL

LEMMA FoldedStep == BlockInv /\ FoldedCurrent /\ [Next]_vars => FoldedCurrent'
<1> SUFFICES ASSUME BlockInv, FoldedCurrent, [Next]_vars
             PROVE  FoldedCurrent'
  OBVIOUS
<1> USE DEF BlockInv, Stale
<1>1. request # Idle => NextBlock \in BlockAddr
  BY NextAccess DEF PointersOK
<1>2. Len(heap) \in Nat /\ resets \in Nat /\ RequestKind \in Kind
  BY ResetsAssumption DEF PointersOK, RequestKind, Kind
<1>3. \A f \in folded : /\ f[1] \in BlockAddr /\ f[2] \in 1 .. Len(heap)
                        /\ f[3] \in 0 .. resets /\ f[2] # None
  BY <1>2 DEF PointersOK, Objects, None
\* an object of the dictionary, or a new one, is not in a stale loop
<1>4. ASSUME request # Idle
      PROVE  /\ \A f \in folded : Stale(f) =>
                  /\ ObjectOf(NextBlock) # f[2]
                  /\ \A c \in BlockAddr : BlocksWith(NextBlock)[c] # f[2]
             /\ \A f \in folded : ~ Stale(f) => BlocksWith(NextBlock)[f[1]] = f[2]
             /\ BlocksWith(NextBlock)[NextBlock] = ObjectOf(NextBlock)
  <2> DEFINE dict == BlocksWith(NextBlock)
             obj == ObjectOf(NextBlock)
  <2>1. NextBlock \in BlockAddr
    BY <1>1, <1>4
  <2>2. dict = [blocks EXCEPT ![NextBlock] = obj] /\ DOMAIN blocks = BlockAddr
    BY DEF BlocksWith, PointersOK
  <2>3. /\ dict[NextBlock] = obj
        /\ \A c \in BlockAddr : blocks[c] # None => dict[c] = blocks[c]
    BY <2>1, GetBlock
  <2>4. obj = blocks[NextBlock] \/ obj = Len(heap) + 1
    BY DEF ObjectOf
  <2> HIDE DEF obj, dict
  <2>5. ASSUME NEW f \in folded, Stale(f)
        PROVE  obj # f[2] /\ \A c \in BlockAddr : dict[c] # f[2]
    <3>1. \A c \in BlockAddr : blocks[c] # f[2]
      BY <2>5 DEF FoldedCurrent
    <3>2. obj # f[2]
      BY <1>2, <1>3, <2>1, <2>4, <3>1
    <3> QED BY <2>2, <3>1, <3>2
  <2>6. ASSUME NEW f \in folded, ~ Stale(f)
        PROVE  dict[f[1]] = f[2]
    BY <1>3, <2>3, <2>6 DEF FoldedCurrent
  <2> QED BY <2>3, <2>5, <2>6 DEF obj, dict
<1>5. CASE CacheMiss
  <2>1. /\ request # Idle /\ blocks' = BlocksWith(NextBlock) /\ folded' = folded
        /\ last' = [last EXCEPT ![RequestKind] = ObjectOf(NextBlock)]
        /\ resets' = resets /\ DOMAIN last = Kind
    BY <1>5 DEF CacheMiss, PointersOK
  <2>2. ASSUME NEW f \in folded, Stale(f)
        PROVE  \A k \in Kind : last'[k] # f[2]
    <3>1. \A k \in Kind : last[k] # f[2]
      BY <2>2 DEF FoldedCurrent
    <3> QED BY <1>4, <2>1, <2>2, <3>1
  <2> QED BY <1>4, <2>1, <2>2 DEF FoldedCurrent
<1>6. CASE TracedAccess
  <2>1. /\ request # Idle /\ blocks' = BlocksWith(NextBlock) /\ last' = last
        /\ folded' = folded \union {<<NextBlock, ObjectOf(NextBlock), resets>>}
        /\ resets' = resets
    BY <1>6 DEF TracedAccess, Fold
  <2>2. ASSUME NEW f \in folded
        PROVE  IF f[3] # resets
               THEN /\ \A b \in BlockAddr : blocks'[b] # f[2]
                    /\ \A k \in Kind : last'[k] # f[2]
               ELSE blocks'[f[1]] = f[2]
    BY <1>4, <2>1 DEF FoldedCurrent
  <2>3. ASSUME NEW f \in folded' \ folded
        PROVE  f[3] = resets /\ blocks'[f[1]] = f[2]
    BY <1>4, <2>1
  <2> QED BY <2>1, <2>2, <2>3 DEF FoldedCurrent
<1>7. CASE Reset
  <2>1. /\ folded' = folded /\ resets' = resets + 1
        /\ blocks' = [b \in BlockAddr |-> None] /\ last' = [k \in Kind |-> None]
    BY <1>7 DEF Reset
  <2>2. \A f \in folded : f[3] # resets' /\ f[2] # None
    BY <1>2, <1>3, <2>1
  <2> QED BY <2>1, <2>2 DEF FoldedCurrent
<1>8. CASE UNCHANGED <<blocks, folded, last, resets>>
  BY <1>8 DEF FoldedCurrent
<1>9. \/ CacheMiss \/ TracedAccess \/ Reset
      \/ UNCHANGED <<blocks, folded, last, resets>>
  BY DEF Next, StartRead, StartWrite, CacheHit, CompiledAccess, vars
<1> QED BY <1>5, <1>6, <1>7, <1>8, <1>9

\* Within a run, _get_block keeps the promise of @jit.elidable (line 238): every
\* loop compiled in the run has the block that a call would return, however
\* often __init__ was called before; and a block that is left in a loop of an
\* earlier run is not one that this run uses.
THEOREM FoldedBlocksCurrent == Spec => []FoldedCurrent
<1>1. Init => FoldedCurrent
  BY DEF Init, FoldedCurrent
<1> QED BY BlockInvariant, FoldedStep, <1>1, PTL DEF Spec

-----------------------------------------------------------------------------
(***************************************************************************)
(* The refinement: blocks, caches and folded blocks are a byte memory.     *)
(***************************************************************************)

\* the byte that a dictionary of blocks and a heap hold for an address
HeldByte(h, dict, a) ==
  IF dict[BlockOf(a)] # None THEN h[dict[BlockOf(a)]][InBlock(a)] ELSE 0

MemByte(a) == HeldByte(heap, blocks, a)

Memory == 0 .. Blocks * BlockBytes - 1

LEMMA MemorySize == Blocks * BlockBytes \in Nat /\ Memory \subseteq Nat
<1>1. Blocks \in Nat /\ BlockBytes \in Nat
  BY BlocksAssumption, BlockBytesAssumption
<1>2. Blocks * BlockBytes \in Nat
  BY <1>1
<1> QED BY <1>2 DEF Memory

LEMMA AddressSplit ==
  ASSUME NEW a \in Nat
  PROVE  /\ BlockOf(a) \in Nat /\ InBlock(a) \in 0 .. BlockBytes - 1
         /\ a = BlockBytes * BlockOf(a) + InBlock(a)
BY BlockBytesAssumption DEF BlockOf, InBlock

\* addresses that follow each other, up to the end of the block
LEMMA FollowingAddress ==
  ASSUME NEW x \in Nat, NEW j \in Nat, InBlock(x) + j < BlockBytes
  PROVE  BlockOf(x + j) = BlockOf(x) /\ InBlock(x + j) = InBlock(x) + j
<1> DEFINE q == BlockOf(x)  r == InBlock(x)  s == BlockOf(x + j)  t == InBlock(x + j)
           p == BlockBytes * q  o == BlockBytes * s
<1>1. BlockBytes \in Nat \ {0} /\ x + j \in Nat
  BY BlockBytesAssumption
<1>2. q \in Nat /\ r \in 0 .. BlockBytes - 1 /\ x = p + r
  BY AddressSplit
<1>3. s \in Nat /\ t \in 0 .. BlockBytes - 1 /\ x + j = o + t
  BY <1>1, AddressSplit
<1> HIDE DEF q, r, s, t
<1>4. ASSUME q < s PROVE p + BlockBytes <= o
  BY <1>1, <1>2, <1>3, <1>4
<1>5. ASSUME s < q PROVE o + BlockBytes <= p
  BY <1>1, <1>2, <1>3, <1>5
<1>6. p \in Nat /\ o \in Nat
  BY <1>1, <1>2, <1>3
<1>7. r + j < BlockBytes
  BY DEF r
<1>8. q = s => p = o
  OBVIOUS
<1> HIDE DEF p, o
<1>9. q = s
  BY <1>1, <1>2, <1>3, <1>4, <1>5, <1>6, <1>7
<1>10. t = r + j
  BY <1>1, <1>2, <1>3, <1>6, <1>8, <1>9
<1> QED BY <1>9, <1>10 DEF q, r, s, t

\* the addresses of u bytes at x, which do not leave the block of x
LEMMA AddressesOfAccess ==
  ASSUME NEW x \in Nat, NEW u \in Nat, InBlock(x) + u <= BlockBytes, NEW a \in Nat
  PROVE  /\ a \in x .. x + u - 1 <=>
              /\ BlockOf(a) = BlockOf(x)
              /\ InBlock(a) \in InBlock(x) .. InBlock(x) + u - 1
         /\ BlockOf(a) = BlockOf(x) => InBlock(a) - InBlock(x) = a - x
<1>1. /\ BlockBytes \in Nat /\ BlockOf(x) \in Nat
      /\ InBlock(x) \in Nat /\ InBlock(a) \in Nat
  <2>1. BlockBytes \in Nat
    BY BlockBytesAssumption
  <2>2. /\ BlockOf(x) \in Nat /\ InBlock(x) \in 0 .. BlockBytes - 1
        /\ InBlock(a) \in 0 .. BlockBytes - 1
    BY AddressSplit
  <2> QED BY <2>1, <2>2
<1>2. ASSUME BlockOf(a) = BlockOf(x)
      PROVE  InBlock(a) - InBlock(x) = a - x
  <2> DEFINE p == BlockBytes * BlockOf(x)
  <2>1. a = p + InBlock(a) /\ x = p + InBlock(x)
    BY <1>2, AddressSplit
  <2>2. p \in Nat
    BY <1>1
  <2> HIDE DEF p
  <2> QED BY <1>1, <2>1, <2>2
<1>3. ASSUME a \in x .. x + u - 1
      PROVE  BlockOf(a) = BlockOf(x) /\ InBlock(a) \in InBlock(x) .. InBlock(x) + u - 1
  <2> DEFINE j == a - x
  <2>1. j \in Nat /\ j < u /\ x + j = a /\ InBlock(x) + j < BlockBytes
    BY <1>1, <1>3
  <2> HIDE DEF j
  <2>2. BlockOf(a) = BlockOf(x) /\ InBlock(a) = InBlock(x) + j
    BY <2>1, FollowingAddress
  <2> QED BY <1>1, <2>1, <2>2
<1>4. ASSUME BlockOf(a) = BlockOf(x), InBlock(a) \in InBlock(x) .. InBlock(x) + u - 1
      PROVE  a \in x .. x + u - 1
  BY <1>1, <1>2, <1>4
<1> QED BY <1>2, <1>3, <1>4

\* a block that _get_block creates holds what the memory held: zeros
LEMMA Allocated ==
  ASSUME PointersOK, NEW b \in BlockAddr, NEW a \in Memory
  PROVE  HeldByte(HeapWith(b), BlocksWith(b), a) = MemByte(a)
<1>1. BlockOf(a) \in BlockAddr /\ InBlock(a) \in 0 .. BlockBytes - 1
  BY BlockOfAddress DEF Memory
<1>2. /\ heap \in Seq(Block) /\ Len(heap) \in Nat
      /\ blocks \in [BlockAddr -> (1 .. Len(heap)) \union {None}]
  BY DEF PointersOK, Objects
<1>3. CASE Exists(b)
  <2>1. HeapWith(b) = heap /\ BlocksWith(b) = blocks
    BY <1>2, <1>3 DEF HeapWith, BlocksWith, ObjectOf
  <2> QED BY <2>1 DEF MemByte
<1>4. CASE ~ Exists(b)
  <2>1. /\ HeapWith(b) = Append(heap, ZeroBlock)
        /\ BlocksWith(b) = [blocks EXCEPT ![b] = Len(heap) + 1]
    BY <1>4 DEF HeapWith, BlocksWith, ObjectOf
  <2>2. Append(heap, ZeroBlock)[Len(heap) + 1] = ZeroBlock
    BY <1>2, ByteAssumption DEF ZeroBlock, Block
  <2>3. \A obj \in 1 .. Len(heap) : Append(heap, ZeroBlock)[obj] = heap[obj]
    BY <1>2, ByteAssumption DEF ZeroBlock, Block
  <2>4. CASE BlockOf(a) = b
    <3>1. MemByte(a) = 0
      BY <1>4, <2>4 DEF MemByte, HeldByte, Exists
    <3>2. BlocksWith(b)[BlockOf(a)] = Len(heap) + 1 /\ Len(heap) + 1 # None
      BY <1>1, <1>2, <2>1, <2>4 DEF None
    <3>3. ZeroBlock[InBlock(a)] = 0
      BY <1>1 DEF ZeroBlock
    <3> QED BY <2>1, <2>2, <3>1, <3>2, <3>3 DEF HeldByte
  <2>5. CASE BlockOf(a) # b
    <3>1. BlocksWith(b)[BlockOf(a)] = blocks[BlockOf(a)]
      BY <1>1, <1>2, <2>1, <2>5
    <3>2. blocks[BlockOf(a)] # None => blocks[BlockOf(a)] \in 1 .. Len(heap)
      BY <1>1, <1>2
    <3> QED BY <2>1, <2>3, <3>1, <3>2 DEF MemByte, HeldByte
  <2> QED BY <2>4, <2>5
<1> QED BY <1>3, <1>4

\* an access that is not by a loop of an earlier run, and one that is
Access ==
  \/ CacheHit \/ CacheMiss \/ TracedAccess
  \/ \E f \in folded : ~ Stale(f) /\ CompiledAccess(f)
StaleAccess == \E f \in folded : Stale(f) /\ CompiledAccess(f)

\* whichever way an access takes, it is to the block that _get_block returns
LEMMA AccessSteps ==
  ASSUME BlockInv, FoldedCurrent, Access
  PROVE  /\ request # Idle /\ RequestOK(request) /\ NextBlock \in BlockAddr
         /\ AccessBlock(HeapWith(NextBlock), ObjectOf(NextBlock))
         /\ blocks' = BlocksWith(NextBlock) /\ resets' = resets
<1>1. request # Idle /\ resets' = resets
  BY DEF Access, CacheHit, CacheMiss, TracedAccess, CompiledAccess
<1>2. RequestOK(request) /\ NextBlock \in BlockAddr
  BY <1>1, NextAccess DEF BlockInv, PointersOK
<1>3. ASSUME NEW obj, AccessBlock(heap, obj), blocks' = blocks,
             obj # None, blocks[NextBlock] = obj
      PROVE  /\ AccessBlock(HeapWith(NextBlock), ObjectOf(NextBlock))
             /\ blocks' = BlocksWith(NextBlock)
  <2>1. HeapWith(NextBlock) = heap /\ ObjectOf(NextBlock) = obj
    BY <1>3 DEF HeapWith, ObjectOf, Exists
  <2>2. BlocksWith(NextBlock) = blocks
    BY <1>2, <1>3, <2>1 DEF BlocksWith, BlockInv, PointersOK
  <2> QED BY <1>3, <2>1, <2>2
<1>4. CASE CacheHit
  <2>1. /\ AccessBlock(heap, last[RequestKind]) /\ blocks' = blocks
        /\ lastAddr[RequestKind] = NextBlock
    BY <1>4 DEF CacheHit
  <2>2. NextBlock # NoBlockAddr
    BY <1>2, BlocksAssumption DEF NoBlockAddr, BlockAddr
  <2>3. last[RequestKind] # None /\ blocks[NextBlock] = last[RequestKind]
    BY <2>1, <2>2 DEF BlockInv, CachesCurrent, RequestKind, Kind
  <2> QED BY <1>1, <1>2, <1>3, <2>1, <2>3
<1>5. CASE \E f \in folded : ~ Stale(f) /\ CompiledAccess(f)
  <2>1. PICK f \in folded : ~ Stale(f) /\ CompiledAccess(f)
    BY <1>5
  <2>2. AccessBlock(heap, f[2]) /\ blocks' = blocks /\ f[1] = NextBlock
    BY <2>1 DEF CompiledAccess
  <2>3. f[2] # None /\ blocks[NextBlock] = f[2]
    BY <2>1, <2>2 DEF BlockInv, PointersOK, Objects, FoldedCurrent, None
  <2> QED BY <1>1, <1>2, <1>3, <2>2, <2>3
<1>6. CASE CacheMiss
  BY <1>1, <1>2, <1>6 DEF CacheMiss
<1>7. CASE TracedAccess
  BY <1>1, <1>2, <1>7 DEF TracedAccess
<1> QED BY <1>4, <1>5, <1>6, <1>7 DEF Access

\* the bytes a read in progress has collected are the bytes in memory
ReadsAgree ==
  request.op = "read" =>
    \A i \in request.n - request.done .. request.n - 1 :
      request.data[i] = MemByte(request.addr + i)

\* of a request that no loop of an earlier run has served so far
RefinementInv == BlockInv /\ FoldedCurrent /\ ReadsAgree

\* of every request
RequestInv == BlockInv /\ FoldedCurrent /\ (misled \/ ReadsAgree)

LEMMA AddressesInMemory ==
  ASSUME NEW addr \in Nat, NEW n \in Nat, addr + n <= Blocks * BlockBytes,
         NEW i \in 0 .. n - 1
  PROVE  addr + i \in Memory
<1> DEFINE size == Blocks * BlockBytes
<1>1. size \in Nat /\ Memory = 0 .. size - 1
  BY MemorySize DEF Memory
<1> HIDE DEF size
<1>2. addr + n <= size
  BY DEF size
<1> QED BY <1>1, <1>2

\* the place of a byte in the block and in the request, for an access of u
\* bytes, from index first on, to the place start in the block
LEMMA OffsetOfByte ==
  ASSUME NEW addr \in Nat, NEW first \in Nat, NEW u \in Nat, NEW start \in Nat,
         NEW i \in first .. first + u - 1
  PROVE  /\ i - first \in Nat /\ i - first < u
         /\ addr + first + (i - first) = addr + i
         /\ start + i - first = start + (i - first)
OBVIOUS

LEMMA ByteOfOffset ==
  ASSUME NEW addr \in Nat, NEW first \in Nat, NEW start \in Nat, NEW at \in Nat,
         NEW a \in Nat, at - start = a - (addr + first)
  PROVE  first + at - start = a - addr
OBVIOUS

LEMMA RequestNumbers ==
  ASSUME RequestOK(request)
  PROVE  /\ request.op \in {"read", "write"} /\ request # Idle
         /\ request.addr \in Nat /\ request.n \in Nat /\ request.n \in Sizes
         /\ request.done \in Nat /\ request.unit \in Nat /\ request.unit >= 1
         /\ request.done + request.unit <= request.n
         /\ \A i \in 0 .. request.n - 1 : request.addr + i \in Memory
         /\ DOMAIN request.data = 0 .. request.n - 1
         /\ NextIndex(request) \in Nat
         /\ NextIndex(request) + request.unit <= request.n
         /\ NextAddr \in Nat /\ NextAddr = request.addr + NextIndex(request)
<1>1. /\ request.op \in {"read", "write"}
      /\ request.addr \in Nat /\ request.n \in Sizes /\ request.done \in Nat
      /\ request.done + request.unit <= request.n
      /\ request.addr + request.n <= Blocks * BlockBytes
      /\ DOMAIN request.data = 0 .. request.n - 1
  BY DEF RequestOK, Bytes
<1>2. /\ request.n \in {1, 2, 4, 8} /\ request.unit \in 1 .. request.n
      /\ NextIndex(request) \in 0 .. request.n - request.unit
  BY NextAccess
<1>3. request # Idle
  BY <1>1 DEF Idle
<1>4. NextIndex(request) \in Nat /\ NextIndex(request) + request.unit <= request.n
  BY <1>2
<1>5. request.n \in Nat /\ request.unit \in Nat /\ request.unit >= 1
  BY <1>2
<1>6. \A i \in 0 .. request.n - 1 : request.addr + i \in Memory
  BY <1>1, <1>5, AddressesInMemory
<1>7. NextAddr \in Nat /\ NextAddr = request.addr + NextIndex(request)
  <2>1. request.addr \in Nat
    BY <1>1
  <2> QED BY <1>4, <2>1 DEF NextAddr
<1> HIDE DEF Memory
<1> QED BY <1>1, <1>3, <1>4, <1>5, <1>6, <1>7

\* an access of a read changes no byte, and receives those of the memory
LEMMA ReadAccess ==
  ASSUME RefinementInv, Access, request.op = "read"
  PROVE  /\ \A a \in Memory : MemByte(a)' = MemByte(a)
         /\ \A i \in request.n - request.done - request.unit .. request.n - 1 :
              DataWith(HeapWith(NextBlock)[ObjectOf(NextBlock)])[i]
                = MemByte(request.addr + i)
<1> USE DEF RefinementInv
<1> DEFINE h == HeapWith(NextBlock)
           obj == ObjectOf(NextBlock)
           dict == BlocksWith(NextBlock)
           first == NextIndex(request)
<1>1. /\ RequestOK(request) /\ NextBlock \in BlockAddr
      /\ AccessBlock(h, obj) /\ blocks' = dict
  BY AccessSteps
<1>2. PointersOK /\ BlocksDistinct
  BY DEF BlockInv
<1>3. dict[NextBlock] = obj /\ obj # None
  BY <1>1, <1>2, GetBlock
<1>4. \A a \in Memory : HeldByte(h, dict, a) = MemByte(a)
  BY <1>1, <1>2, Allocated
<1>5. heap' = h
  BY <1>1 DEF AccessBlock
<1> HIDE DEF h, obj, dict
<1>6. \A a \in Memory : MemByte(a)' = MemByte(a)
  BY <1>1, <1>4, <1>5 DEF MemByte
<1>7. /\ request.n \in Nat /\ request.done \in Nat /\ request.unit \in Nat
      /\ request.unit >= 1 /\ request.done + request.unit <= request.n
      /\ request.addr \in Nat /\ DOMAIN request.data = 0 .. request.n - 1
      /\ NextAddr \in Nat /\ NextAddr = request.addr + first
      /\ first = request.n - request.done - request.unit /\ first \in Nat
  <2>1. first = request.n - request.done - request.unit
    BY DEF NextIndex
  <2> QED BY <1>1, <2>1, RequestNumbers
<1>8. InBlock(NextAddr) \in Nat /\ InBlock(NextAddr) + request.unit <= BlockBytes
      /\ BlockBytes \in Nat
  BY <1>1, NextAccess, BlockBytesAssumption
<1> HIDE DEF first
<1>9. ASSUME NEW i \in request.n - request.done - request.unit .. request.n - 1
      PROVE  DataWith(h[obj])[i] = MemByte(request.addr + i)
  <2>1. i \in DOMAIN request.data /\ i \in Nat
    BY <1>7
  <2>2. CASE i \in NextIndices(request)
    <3> DEFINE j == i - first
    <3>0. i \in first .. first + request.unit - 1
      BY <2>2 DEF NextIndices, first
    <3>1. /\ j \in Nat /\ j < request.unit /\ NextAddr + j = request.addr + i
          /\ InBlock(NextAddr) + j < BlockBytes
          /\ InBlock(NextAddr) + i - first = InBlock(NextAddr) + j
      <4>1. /\ request.addr \in Nat /\ first \in Nat /\ request.unit \in Nat
            /\ InBlock(NextAddr) \in Nat /\ NextAddr = request.addr + first
        BY <1>7, <1>8
      <4>2. /\ j \in Nat /\ j < request.unit
            /\ request.addr + first + j = request.addr + i
            /\ InBlock(NextAddr) + i - first = InBlock(NextAddr) + j
        BY <3>0, <4>1, OffsetOfByte
      <4> HIDE DEF j
      <4>3. InBlock(NextAddr) + j < BlockBytes
        BY <1>8, <4>1, <4>2
      <4> QED BY <4>1, <4>2, <4>3
    <3> HIDE DEF j
    <3>2. /\ BlockOf(request.addr + i) = NextBlock
          /\ InBlock(request.addr + i) = InBlock(NextAddr) + j
      BY <1>7, <3>1, FollowingAddress DEF NextBlock
    <3>3. request.addr + i \in Memory
      BY <1>1, <1>7, <2>1, RequestNumbers
    <3>4. HeldByte(h, dict, request.addr + i) = h[obj][InBlock(NextAddr) + j]
      BY <1>3, <3>2 DEF HeldByte
    <3>5. DataWith(h[obj])[i] = h[obj][InBlock(NextAddr) + i - first]
      BY <2>1, <2>2 DEF DataWith, first
    <3> QED BY <1>4, <3>1, <3>3, <3>4, <3>5
  <2>3. CASE i \notin NextIndices(request)
    <3>1. DataWith(h[obj])[i] = request.data[i]
      BY <2>1, <2>3 DEF DataWith
    <3>2. i \in request.n - request.done .. request.n - 1
      <4>1. i \notin first .. first + request.unit - 1
        BY <2>3 DEF NextIndices, first
      <4> QED BY <1>7, <4>1
    <3> QED BY <3>1, <3>2 DEF ReadsAgree
  <2> QED BY <2>2, <2>3
<1> QED BY <1>6, <1>9 DEF h, obj

\* an access of a write changes the bytes it is for and no others
LEMMA WriteAccess ==
  ASSUME RefinementInv, Access, request.op = "write", NEW a \in Memory
  PROVE  MemByte(a)' = IF a \in NextAddr .. NextAddr + request.unit - 1
                       THEN request.data[a - request.addr] ELSE MemByte(a)
<1> USE DEF RefinementInv
<1> DEFINE h == HeapWith(NextBlock)
           obj == ObjectOf(NextBlock)
           dict == BlocksWith(NextBlock)
           first == NextIndex(request)
           b == BlockOf(a)
           at == InBlock(a)
           start == InBlock(NextAddr)
<1>1. /\ RequestOK(request) /\ NextBlock \in BlockAddr
      /\ AccessBlock(h, obj) /\ blocks' = dict
  BY AccessSteps
<1>2. PointersOK /\ BlocksDistinct
  BY DEF BlockInv
<1>3. /\ dict[NextBlock] = obj /\ obj # None /\ h \in Seq(Block) /\ obj \in 1 .. Len(h)
      /\ dict \in [BlockAddr -> 1 .. Len(h) \union {None}]
      /\ \A c, d \in BlockAddr : dict[c] = dict[d] /\ dict[c] # None => c = d
  BY <1>1, <1>2, GetBlock
<1>4. HeldByte(h, dict, a) = MemByte(a)
  BY <1>1, <1>2, Allocated
<1>5. heap' = [h EXCEPT ![obj] = BlockWith(h[obj])]
  BY <1>1 DEF AccessBlock
<1>6. b \in BlockAddr /\ at \in 0 .. BlockBytes - 1 /\ a \in Nat
  BY BlockOfAddress, MemorySize DEF Memory
<1>7. /\ request.unit \in Nat /\ first \in Nat /\ request.addr \in Nat
      /\ NextAddr \in Nat /\ NextAddr = request.addr + first
      /\ start \in Nat /\ start + request.unit <= BlockBytes
  BY <1>1, RequestNumbers, NextAccess
<1>8. /\ a \in NextAddr .. NextAddr + request.unit - 1 <=>
           b = NextBlock /\ at \in start .. start + request.unit - 1
      /\ b = NextBlock => at - start = a - NextAddr
  BY <1>6, <1>7, AddressesOfAccess DEF NextBlock
<1>9. MemByte(a)' = HeldByte(heap', dict, a)
  BY <1>1 DEF MemByte
<1>10. h[obj] \in Block
  BY <1>3
<1>11. DOMAIN h[obj] = 0 .. BlockBytes - 1
  BY <1>10 DEF Block
<1>12. BlockWith(h[obj])[at] = IF at \in start .. start + request.unit - 1
                               THEN request.data[first + at - start] ELSE h[obj][at]
  BY <1>6, <1>11 DEF BlockWith
<1> HIDE DEF h, obj, dict, first, b, at, start
<1>13. CASE b = NextBlock
  <2>1. heap'[obj] = BlockWith(h[obj])
    BY <1>3, <1>5
  <2>2. MemByte(a)' = BlockWith(h[obj])[at]
    BY <1>3, <1>9, <1>13, <2>1 DEF HeldByte, b, at
  <2>3. MemByte(a) = h[obj][at]
    BY <1>3, <1>4, <1>13 DEF HeldByte, b, at
  <2>4. at \in start .. start + request.unit - 1 => first + at - start = a - request.addr
    <3>1. at \in Nat /\ at - start = a - NextAddr
      BY <1>6, <1>8, <1>13, BlockBytesAssumption
    <3>2. /\ request.addr \in Nat /\ first \in Nat /\ start \in Nat /\ a \in Nat
          /\ NextAddr = request.addr + first
      BY <1>6, <1>7
    <3> QED BY <3>1, <3>2, ByteOfOffset
  <2> QED BY <1>8, <1>12, <1>13, <2>2, <2>3, <2>4
<1>14. CASE b # NextBlock
  <2>1. dict[b] # None => dict[b] # obj /\ dict[b] \in 1 .. Len(h)
    BY <1>1, <1>3, <1>6, <1>14
  <2>2. dict[b] # None => heap'[dict[b]] = h[dict[b]]
    BY <1>3, <1>5, <2>1
  <2>3. HeldByte(heap', dict, a) = HeldByte(h, dict, a)
    BY <2>2 DEF HeldByte, b
  <2> QED BY <1>4, <1>8, <1>9, <1>14, <2>3
<1> QED BY <1>13, <1>14

\* what an access does to the request, which has this data afterwards
NewData ==
  IF request.op = "read" THEN DataWith(HeapWith(NextBlock)[ObjectOf(NextBlock)])
  ELSE request.data

LEMMA AccessRequest ==
  ASSUME RefinementInv, Access
  PROVE  /\ IsLastAccess(request) =>
              /\ request' = Idle
              /\ result' = IF request.op = "read" THEN ReadResult(NewData) ELSE WriteResult
         /\ ~ IsLastAccess(request) =>
              /\ request'.op = request.op /\ request'.addr = request.addr
              /\ request'.n = request.n /\ request'.data = NewData
              /\ request'.done = request.done + request.unit
              /\ request' # Idle /\ result' = result
<1>1. /\ RequestOK(request)
      /\ AccessBlock(HeapWith(NextBlock), ObjectOf(NextBlock))
  BY AccessSteps DEF RefinementInv
<1>2. ASSUME IsLastAccess(request)
      PROVE  /\ request' = Idle
             /\ result' = IF request.op = "read" THEN ReadResult(NewData) ELSE WriteResult
  BY <1>1, <1>2 DEF AccessBlock, NewData
<1>3. ASSUME ~ IsLastAccess(request)
      PROVE  /\ request'.op = request.op /\ request'.addr = request.addr
             /\ request'.n = request.n /\ request'.data = NewData
             /\ request'.done = request.done + request.unit
             /\ request' # Idle /\ result' = result
  <2>1. /\ request' = [request EXCEPT !.done = @ + request.unit, !.data = NewData]
        /\ result' = result
    BY <1>1, <1>3 DEF AccessBlock, NewData
  <2>2. DOMAIN request = {"op", "addr", "n", "executable", "unit", "done", "data"}
    BY <1>1 DEF RequestOK
  <2>3. /\ request'.op = request.op /\ request'.addr = request.addr
        /\ request'.n = request.n /\ request'.data = NewData
        /\ request'.done = request.done + request.unit
    BY <2>1, <2>2
  <2>4. request' # Idle
    BY <1>1, <2>3, RequestNumbers DEF Idle
  <2> QED BY <2>1, <2>3, <2>4
<1> QED BY <1>2, <1>3

LEMMA NextReads == RequestInv /\ [Next]_vars => misled' \/ ReadsAgree'
<1> SUFFICES ASSUME RequestInv, [Next]_vars, ~ misled' PROVE ReadsAgree'
  OBVIOUS
<1>1. ASSUME request'.op # "read"
      PROVE  ReadsAgree'
  BY <1>1 DEF ReadsAgree
<1>2. ASSUME NEW a \in Accesses, NEW executable \in BOOLEAN,
             StartRead(a[1], a[2], executable)
      PROVE  ReadsAgree'
  <2>1. a[2] \in Nat
    <3>1. a[2] \in Sizes  BY DEF Accesses
    <3>2. \A n \in Sizes : n \in Nat  BY SizesAssumption
    <3> QED BY <3>1, <3>2
  <2>2. request'.n = a[2] /\ request'.done = 0
    BY <1>2 DEF StartRead, ReadRequest
  <2> QED BY <2>1, <2>2 DEF ReadsAgree
<1>3. ASSUME NEW a \in Accesses, NEW data \in Bytes(a[2]),
             StartWrite(a[1], a[2], data)
      PROVE  ReadsAgree'
  BY <1>1, <1>3 DEF StartWrite, WriteRequest
<1>4. CASE Access
  <2>0. RefinementInv
    <3>1. ~ misled
      BY <1>4 DEF Access, CacheHit, CacheMiss, TracedAccess, CompiledAccess
    <3> QED BY <3>1 DEF RefinementInv, RequestInv
  <2>1. RequestOK(request)
    BY <1>4, <2>0, AccessSteps DEF RefinementInv
  <2>2. CASE IsLastAccess(request) \/ request.op # "read"
    <3>1. request'.op # "read"
      BY <1>4, <2>0, <2>2, AccessRequest DEF Idle
    <3> QED BY <1>1, <3>1
  <2>3. CASE ~ IsLastAccess(request) /\ request.op = "read"
    <3> DEFINE data == DataWith(HeapWith(NextBlock)[ObjectOf(NextBlock)])
    <3>1. /\ request'.addr = request.addr /\ request'.n = request.n
          /\ request'.data = data /\ request'.done = request.done + request.unit
      BY <1>4, <2>0, <2>3, AccessRequest DEF NewData
    <3>2. /\ \A b \in Memory : MemByte(b)' = MemByte(b)
          /\ \A i \in request.n - request.done - request.unit .. request.n - 1 :
               data[i] = MemByte(request.addr + i)
      BY <1>4, <2>0, <2>3, ReadAccess
    <3> HIDE DEF data
    <3>3. /\ request.n \in Nat /\ request.done \in Nat /\ request.unit \in Nat
          /\ request.done + request.unit <= request.n
          /\ \A i \in 0 .. request.n - 1 : request.addr + i \in Memory
      BY <2>1, RequestNumbers
    <3>4. /\ request'.n - request'.done = request.n - request.done - request.unit
          /\ request.n - request.done - request.unit \in Nat
      BY <3>1, <3>3
    <3>5. ASSUME NEW i \in request'.n - request'.done .. request'.n - 1
          PROVE  request'.data[i] = MemByte(request.addr + i)'
      <4>1. i \in request.n - request.done - request.unit .. request.n - 1
        BY <3>1, <3>4
      <4>2. i \in 0 .. request.n - 1
        BY <3>3, <3>4, <4>1
      <4> QED BY <3>1, <3>2, <3>3, <4>1, <4>2 DEF MemByte
    <3> QED BY <3>1, <3>5 DEF ReadsAgree, MemByte
  <2> QED BY <2>2, <2>3
<1>5. CASE Reset
  BY <1>1, <1>5 DEF Reset, Idle
<1>6. CASE UNCHANGED vars
  <2>1. ReadsAgree
    BY <1>6 DEF vars, RequestInv
  <2> QED BY <1>6, <2>1 DEF vars, ReadsAgree, MemByte, HeldByte
<1>7. CASE StaleAccess
  BY <1>7 DEF StaleAccess, CompiledAccess
<1> QED BY <1>2, <1>3, <1>4, <1>5, <1>6, <1>7 DEF Next, Access, StaleAccess

-----------------------------------------------------------------------------
(***************************************************************************)
(* The simulation, one lemma per kind of step.                             *)
(***************************************************************************)

LEMMA AbstractByte ==
  ASSUME NEW a \in Memory
  PROVE  AbstractBytes[a] =
           IF /\ request.op = "write"
              /\ a \in request.addr + request.done .. request.addr + request.n - 1
           THEN request.data[a - request.addr] ELSE MemByte(a)
BY DEF AbstractBytes, Memory, MemByte, HeldByte, Exists

LEMMA AbstractDomain ==
  /\ AbstractBytes = [a \in Memory |-> AbstractBytes[a]]
  /\ AbstractBytes' = [a \in Memory |-> AbstractBytes'[a]]
BY DEF AbstractBytes, Memory

LEMMA AllBacked ==
  ASSUME NEW addr \in Nat, NEW n \in Nat, \A i \in 0 .. n - 1 : addr + i \in Memory
  PROVE  /\ \A i \in 0 .. n - 1 : Clearable!BackedUpTo(addr, i)
         /\ Clearable!BackedUpTo(addr, n - 1)
<1>1. \A i : Clearable!BackedUpTo(addr, i) <=> \A j \in 0 .. i : addr + j \in Memory
  BY DEF Clearable!BackedUpTo, BlockAt, Memory
<1>2. \A i \in 0 .. n - 1 : \A j \in 0 .. i : j \in 0 .. n - 1
  OBVIOUS
<1> HIDE DEF Memory
<1> QED BY <1>1, <1>2

LEMMA SimulateStartRead ==
  ASSUME NEW a \in Accesses, NEW executable \in BOOLEAN,
         StartRead(a[1], a[2], executable)
  PROVE  Clearable!StartRead(a[1], a[2]) /\ resets' = resets
<1>1. /\ request = Idle /\ result' = NoResult /\ heap' = heap /\ blocks' = blocks
      /\ request' = ReadRequest(a[1], a[2], executable) /\ resets' = resets
  BY DEF StartRead
<1>2. /\ request.op = "idle" /\ request'.op = "read" /\ request' # Idle
      /\ request'.addr = a[1] /\ request'.n = a[2]
  BY <1>1 DEF Idle, ReadRequest
<1>3. AbstractBytes' = AbstractBytes
  BY <1>1, <1>2 DEF AbstractBytes, Exists
<1>4. /\ AbstractRequest = [op |-> "idle"]
      /\ AbstractRequest' = [op |-> "read", addr |-> a[1], n |-> a[2]]
  BY <1>1, <1>2 DEF AbstractRequest
<1> QED BY <1>1, <1>3, <1>4
        DEF Clearable!StartRead, Clearable!NoRequest, Clearable!NoResult, NoResult

LEMMA SimulateStartWrite ==
  ASSUME NEW a \in Accesses, NEW data \in Bytes(a[2]),
         StartWrite(a[1], a[2], data)
  PROVE  Clearable!StartWrite(a[1], a[2], data) /\ resets' = resets
<1>1. /\ request = Idle /\ result' = NoResult /\ heap' = heap /\ blocks' = blocks
      /\ request' = WriteRequest(a[1], a[2], data) /\ resets' = resets
  BY DEF StartWrite
<1>2. /\ request.op = "idle" /\ request'.op = "write" /\ request' # Idle
      /\ request'.addr = a[1] /\ request'.n = a[2] /\ request'.done = 0
      /\ request'.data = data
  BY <1>1 DEF Idle, WriteRequest
<1>3. /\ AbstractRequest = [op |-> "idle"]
      /\ AbstractRequest' = [op |-> "write", addr |-> a[1], n |-> a[2]]
  BY <1>1, <1>2 DEF AbstractRequest
<1>4. a[1] \in Nat /\ a[2] \in Nat /\ a[1] + a[2] <= Blocks * BlockBytes
  <2>1. a[1] \in Memory /\ a[2] \in Sizes /\ a[1] + a[2] <= Blocks * BlockBytes
    BY DEF Accesses, Memory
  <2>2. \A n \in Sizes : n \in Nat
    BY SizesAssumption
  <2> QED BY <2>1, <2>2, MemorySize
<1>5. \A i \in 0 .. a[2] - 1 : Clearable!BackedUpTo(a[1], i)
  <2>1. \A i \in 0 .. a[2] - 1 : a[1] + i \in Memory
    BY <1>4, AddressesInMemory
  <2> QED BY <1>4, <2>1, AllBacked
<1>6. a[1] \in Nat /\ a[2] \in Nat
  BY <1>4
<1>7. ASSUME NEW b \in Memory
      PROVE  AbstractBytes'[b] = Clearable!Stored(a[1], a[2], data)[b]
  <2>1. b \in Nat  BY MemorySize
  <2>2. AbstractBytes[b] = MemByte(b)
    BY <1>2, AbstractByte
  <2>3. AbstractBytes'[b] =
          IF b \in a[1] .. a[1] + a[2] - 1 THEN data[b - a[1]] ELSE MemByte(b)
    <3>1. AbstractBytes'[b] =
            IF b \in a[1] + 0 .. a[1] + a[2] - 1 THEN data[b - a[1]] ELSE MemByte(b)
      BY <1>1, <1>2 DEF AbstractBytes, Memory, MemByte, HeldByte, Exists
    <3>2. a[1] + 0 = a[1]
      BY <1>6
    <3> QED BY <3>1, <3>2
  <2>4. Clearable!Stored(a[1], a[2], data)[b] =
          IF \E i \in 0 .. a[2] - 1 : a[1] + i = b
          THEN data[CHOOSE i \in 0 .. a[2] - 1 : a[1] + i = b]
          ELSE AbstractBytes[b]
    BY <1>5 DEF Clearable!Stored, BlockAt, Memory
  <2>5. CASE b \in a[1] .. a[1] + a[2] - 1
    <3>1. /\ b - a[1] \in 0 .. a[2] - 1 /\ a[1] + (b - a[1]) = b
          /\ \A i \in 0 .. a[2] - 1 : a[1] + i = b => i = b - a[1]
      BY <1>6, <2>1, <2>5
    <3>2. (CHOOSE i \in 0 .. a[2] - 1 : a[1] + i = b) = b - a[1]
      BY <3>1
    <3> QED BY <2>3, <2>4, <2>5, <3>1, <3>2
  <2>6. CASE b \notin a[1] .. a[1] + a[2] - 1
    <3>1. ~ \E i \in 0 .. a[2] - 1 : a[1] + i = b
      BY <1>6, <2>1, <2>6
    <3> QED BY <2>2, <2>3, <2>4, <2>6, <3>1
  <2> QED BY <2>5, <2>6
<1>8. AbstractBytes' = Clearable!Stored(a[1], a[2], data)
  <2>1. Clearable!Stored(a[1], a[2], data)
          = [b \in Memory |-> Clearable!Stored(a[1], a[2], data)[b]]
    BY DEF Clearable!Stored, Memory
  <2> QED BY <1>7, <2>1, AbstractDomain
<1> QED BY <1>1, <1>3, <1>8
        DEF Clearable!StartWrite, Clearable!NoRequest, Clearable!NoResult, NoResult

LEMMA SimulateRead ==
  ASSUME RefinementInv, Access, request.op = "read"
  PROVE  Clearable!Finish \/ UNCHANGED Clearable!vars
<1>1. RequestOK(request)
  BY AccessSteps DEF RefinementInv
<1>2. /\ request # Idle /\ request.n \in Nat /\ request.addr \in Nat
      /\ request.unit \in Nat /\ request.done \in Nat
      /\ DOMAIN request.data = 0 .. request.n - 1
      /\ \A i \in 0 .. request.n - 1 : request.addr + i \in Memory
  BY <1>1, RequestNumbers
<1>3. /\ \A a \in Memory : MemByte(a)' = MemByte(a)
      /\ \A i \in request.n - request.done - request.unit .. request.n - 1 :
           NewData[i] = MemByte(request.addr + i)
  BY ReadAccess DEF NewData
<1>4. \A a \in Memory : AbstractBytes[a] = MemByte(a)
  BY AbstractByte
<1>5. ASSUME request'.op # "write"
      PROVE  AbstractBytes' = AbstractBytes
  <2>1. \A a \in Memory : AbstractBytes'[a] = MemByte(a)'
    BY <1>5 DEF AbstractBytes, Memory, MemByte, HeldByte, Exists
  <2> QED BY <1>3, <1>4, <2>1, AbstractDomain
<1>6. CASE IsLastAccess(request)
  <2>1. request' = Idle /\ result' = ReadResult(NewData)
    BY <1>6, AccessRequest
  <2>2. AbstractBytes' = AbstractBytes
    BY <1>5, <2>1 DEF Idle
  <2>3. /\ AbstractRequest = [op |-> "read", addr |-> request.addr, n |-> request.n]
        /\ AbstractRequest' = [op |-> "idle"]
    BY <1>2, <2>1 DEF AbstractRequest
  <2>4. NewData = [i \in 0 .. request.n - 1 |-> AbstractBytes[BlockAt(request.addr, i)]]
    <3>1. NewData = [i \in 0 .. request.n - 1 |-> NewData[i]]
      BY <1>2 DEF NewData, DataWith
    <3>2. request.n - request.done - request.unit = 0
      BY <1>2, <1>6 DEF IsLastAccess
    <3>3. \A i \in 0 .. request.n - 1 : NewData[i] = AbstractBytes[BlockAt(request.addr, i)]
      BY <1>2, <1>3, <1>4, <3>2 DEF BlockAt
    <3> QED BY <3>1, <3>3
  <2>5. Clearable!BackedUpTo(request.addr, request.n - 1)
    BY <1>2, AllBacked
  <2> QED BY <2>1, <2>2, <2>3, <2>4, <2>5
          DEF Clearable!Finish, Clearable!NoRequest, Clearable!ReadResult, ReadResult
<1>7. CASE ~ IsLastAccess(request)
  <2>1. /\ request'.op = "read" /\ request'.addr = request.addr
        /\ request'.n = request.n /\ request' # Idle /\ result' = result
    BY <1>7, AccessRequest
  <2>2. AbstractBytes' = AbstractBytes
    BY <1>5, <2>1
  <2>3. AbstractRequest' = AbstractRequest
    BY <1>2, <2>1 DEF AbstractRequest
  <2> QED BY <2>1, <2>2, <2>3 DEF Clearable!vars
<1> QED BY <1>6, <1>7

\* of the bytes from index d on that a write has yet to store, the next access
\* stores those before index d + u
LEMMA PendingSplits ==
  ASSUME NEW addr \in Nat, NEW d \in Nat, NEW u \in Nat, NEW n \in Nat, d + u <= n,
         NEW a \in Nat
  PROVE  /\ a \in addr + d .. addr + n - 1 <=>
              \/ a \in addr + d .. addr + d + u - 1
              \/ a \in addr + (d + u) .. addr + n - 1
         /\ a \in addr + d .. addr + d + u - 1
              => a \notin addr + (d + u) .. addr + n - 1
         /\ d + u = n => a \notin addr + (d + u) .. addr + n - 1
OBVIOUS

LEMMA SimulateWrite ==
  ASSUME RefinementInv, Access, request.op = "write"
  PROVE  Clearable!Finish \/ UNCHANGED Clearable!vars
<1>1. RequestOK(request)
  BY AccessSteps DEF RefinementInv
<1>2. /\ request # Idle /\ request.n \in Nat /\ request.addr \in Nat
      /\ request.unit \in Nat /\ request.done \in Nat
      /\ request.done + request.unit <= request.n
      /\ NextAddr = request.addr + request.done
      /\ \A i \in 0 .. request.n - 1 : request.addr + i \in Memory
  <2>1. NextIndex(request) = request.done
    BY DEF NextIndex
  <2> QED BY <1>1, <2>1, RequestNumbers
<1> DEFINE rest == request.addr + (request.done + request.unit)
                     .. request.addr + request.n - 1
<1>3. ASSUME NEW a \in Memory
      PROVE  /\ AbstractBytes[a] =
                  IF a \in rest THEN request.data[a - request.addr] ELSE MemByte(a)'
             /\ IsLastAccess(request) => a \notin rest
  <2>1. AbstractBytes[a] =
          IF a \in request.addr + request.done .. request.addr + request.n - 1
          THEN request.data[a - request.addr] ELSE MemByte(a)
    BY AbstractByte
  <2>2. MemByte(a)' =
          IF a \in request.addr + request.done
                     .. request.addr + request.done + request.unit - 1
          THEN request.data[a - request.addr] ELSE MemByte(a)
    BY <1>2, WriteAccess
  <2>3. /\ a \in request.addr + request.done .. request.addr + request.n - 1 <=>
             \/ a \in request.addr + request.done
                        .. request.addr + request.done + request.unit - 1
             \/ a \in rest
        /\ a \in request.addr + request.done
                   .. request.addr + request.done + request.unit - 1 => a \notin rest
        /\ request.done + request.unit = request.n => a \notin rest
    <3>1. a \in Nat
      BY MemorySize
    <3> QED BY <1>2, <3>1, PendingSplits
  <2> HIDE DEF rest
  <2> QED BY <2>1, <2>2, <2>3 DEF IsLastAccess
<1>4. CASE IsLastAccess(request)
  <2>1. request' = Idle /\ result' = WriteResult
    BY <1>4, AccessRequest
  <2>2. \A a \in Memory : AbstractBytes'[a] = MemByte(a)'
    <3>1. request'.op # "write"  BY <2>1 DEF Idle
    <3> QED BY <3>1 DEF AbstractBytes, Memory, MemByte, HeldByte, Exists
  <2>3. AbstractBytes' = AbstractBytes
    BY <1>3, <1>4, <2>2, AbstractDomain
  <2>4. /\ AbstractRequest = [op |-> "write", addr |-> request.addr, n |-> request.n]
        /\ AbstractRequest' = [op |-> "idle"]
    BY <1>2, <2>1 DEF AbstractRequest
  <2>5. Clearable!BackedUpTo(request.addr, request.n - 1)
    BY <1>2, AllBacked
  <2> QED BY <2>1, <2>3, <2>4, <2>5
          DEF Clearable!Finish, Clearable!NoRequest, Clearable!WriteResult, WriteResult
<1>5. CASE ~ IsLastAccess(request)
  <2>1. /\ request'.op = "write" /\ request'.addr = request.addr
        /\ request'.n = request.n /\ request'.data = request.data
        /\ request'.done = request.done + request.unit
        /\ request' # Idle /\ result' = result
    BY <1>5, AccessRequest DEF NewData
  <2>2. \A a \in Memory :
          AbstractBytes'[a] =
            IF a \in rest THEN request.data[a - request.addr] ELSE MemByte(a)'
    BY <2>1 DEF AbstractBytes, Memory, MemByte, HeldByte, Exists
  <2>3. AbstractBytes' = AbstractBytes
    BY <1>3, <2>2, AbstractDomain
  <2>4. AbstractRequest' = AbstractRequest
    BY <1>2, <2>1 DEF AbstractRequest
  <2> QED BY <2>1, <2>3, <2>4 DEF Clearable!vars
<1> QED BY <1>4, <1>5

LEMMA SimulateReset ==
  ASSUME Reset
  PROVE  Clearable!NextRun
<1>1. /\ request = Idle /\ request' = request /\ result' = result
      /\ resets' = resets + 1 /\ blocks' = [b \in BlockAddr |-> None]
  BY DEF Reset
<1>2. AbstractRequest = [op |-> "idle"] /\ AbstractRequest' = AbstractRequest
  BY <1>1 DEF AbstractRequest
<1>3. \A a \in Memory : AbstractBytes'[a] = 0
  <2>1. request'.op # "write"
    BY <1>1 DEF Idle
  <2>2. \A a \in Memory : BlockOf(a) \in BlockAddr
    BY BlockOfAddress DEF Memory
  <2>3. \A a \in Memory : AbstractBytes'[a] = MemByte(a)'
    BY <2>1 DEF AbstractBytes, Memory, MemByte, HeldByte, Exists
  <2> HIDE DEF Memory
  <2>4. \A a \in Memory : MemByte(a)' = 0
    BY <1>1, <2>2 DEF MemByte, HeldByte
  <2> QED BY <2>3, <2>4
<1>4. AbstractBytes' = [a \in 0 .. Blocks * BlockBytes - 1 |-> 0]
  <2>1. AbstractBytes' = [a \in Memory |-> 0]
    BY <1>3, AbstractDomain
  <2> QED BY <2>1 DEF Memory
<1> QED BY <1>1, <1>2, <1>4 DEF Clearable!NextRun, Clearable!NoRequest

LEMMA InitRefines == Init => RequestInv /\ Clearable!ClearableInit
<1> SUFFICES ASSUME Init PROVE RequestInv /\ Clearable!ClearableInit
  OBVIOUS
<1>1. /\ request = Idle /\ result = NoResult /\ folded = {} /\ resets = 0
      /\ blocks = [b \in BlockAddr |-> None]
  BY DEF Init
<1>2. RequestInv
  BY <1>1, BlockInvInit DEF RequestInv, FoldedCurrent, ReadsAgree, Idle
<1>3. \A a \in Memory : AbstractBytes[a] = 0
  <2>1. \A a \in Memory : BlockOf(a) \in BlockAddr
    BY BlockOfAddress DEF Memory
  <2>2. \A a \in Memory : AbstractBytes[a] = MemByte(a)
    BY <1>1, AbstractByte DEF Idle
  <2>3. \A a \in Memory : MemByte(a) = 0
    BY <1>1, <2>1 DEF MemByte, HeldByte
  <2> QED BY <2>2, <2>3
<1>4. AbstractBytes = [a \in 0 .. Blocks * BlockBytes - 1 |-> 0]
  <2>1. AbstractBytes = [a \in Memory |-> 0]
    BY <1>3, AbstractDomain
  <2> QED BY <2>1 DEF Memory
<1>5. AbstractRequest = [op |-> "idle"]
  BY <1>1 DEF AbstractRequest
<1> QED BY <1>1, <1>2, <1>4, <1>5
        DEF Clearable!ClearableInit, Clearable!Init, Clearable!NoRequest,
            Clearable!NoResult, NoResult

LEMMA NextRefines ==
  RequestInv /\ [Next]_vars
    => [Clearable!ClearableNext \/ Misled]_<<Clearable!vars, resets>>
<1> SUFFICES ASSUME RequestInv, [Next]_vars
             PROVE  \/ Clearable!ClearableNext \/ Misled
                    \/ UNCHANGED <<Clearable!vars, resets>>
  OBVIOUS
<1>1. ASSUME NEW a \in Accesses, NEW executable \in BOOLEAN,
             StartRead(a[1], a[2], executable)
      PROVE  Clearable!ClearableNext
  BY <1>1, SimulateStartRead DEF Clearable!ClearableNext, Clearable!Next
<1>2. ASSUME NEW a \in Accesses, NEW data \in Bytes(a[2]),
             StartWrite(a[1], a[2], data)
      PROVE  Clearable!ClearableNext
  <2>1. data \in Clearable!Bytes(a[2])  BY DEF Bytes, Clearable!Bytes
  <2> QED BY <1>2, <2>1, SimulateStartWrite DEF Clearable!ClearableNext, Clearable!Next
<1>3. CASE Access /\ ~ misled
  <2>0. RefinementInv
    BY <1>3 DEF RefinementInv, RequestInv
  <2>1. resets' = resets /\ request.op \in {"read", "write"}
    BY <1>3, <2>0, AccessSteps, RequestNumbers DEF RefinementInv
  <2>2. Clearable!Finish \/ UNCHANGED Clearable!vars
    BY <1>3, <2>0, <2>1, SimulateRead, SimulateWrite
  <2> QED BY <2>1, <2>2 DEF Clearable!ClearableNext, Clearable!Next
<1>4. CASE Access /\ misled
  BY <1>4 DEF Access, CacheHit, CacheMiss, TracedAccess, CompiledAccess, Misled
<1>5. CASE StaleAccess
  BY <1>5 DEF StaleAccess, CompiledAccess, Misled
<1>6. CASE Reset
  BY <1>6, SimulateReset DEF Clearable!ClearableNext
<1>7. CASE UNCHANGED vars
  BY <1>7 DEF vars, Clearable!vars, AbstractBytes, AbstractRequest, Exists
<1> QED BY <1>1, <1>2, <1>3, <1>4, <1>5, <1>6, <1>7 DEF Next, Access, StaleAccess

\* BlockMemory is a plain byte memory that starts from zeros, for every number
\* and size of blocks: which accesses are cached, traced or compiled, when a
\* block is created and where an access leaves its block cannot be told by the
\* program, and a repetition of the run finds nothing of the last one, unless a
\* loop that was compiled in an earlier run serves its request.
THEOREM BlockMemoryImplementsClearableMemory == Spec => ImplementsClearableMemory
<1>1. RequestInv /\ [Next]_vars => RequestInv'
  BY BlockInvNext, FoldedStep, NextReads DEF RequestInv
<1> QED BY <1>1, InitRefines, NextRefines, PTL DEF Spec, ImplementsClearableMemory
=============================================================================
