---------------------------- MODULE BlockMemory ----------------------------
(***************************************************************************)
(* BlockMemory of pydrofoil/mem.py: guest memory as blocks that are        *)
(* created when they are first touched.  Three things remember a block:    *)
(* the cache of the last block of a data access, the cache of the last     *)
(* block of an instruction fetch, and the compiled loops, into which the   *)
(* JIT may fold a call of the elidable function _get_block when the memory *)
(* and the block address are constants of the loop.                        *)
(*                                                                         *)
(* The ARM emulator calls __init__ again on the same memory object before  *)
(* each repetition of a run (arm/supportcodearm.py); that is Reset.  Loops *)
(* that were compiled before it are still there after it, with the blocks  *)
(* of the run before: they are stale.                                      *)
(***************************************************************************)
EXTENDS MemBase, Sequences, FiniteSets

CONSTANTS
  Blocks,      \* number of block addresses
  BlockBytes,  \* bytes in a block; the code has 2^20
  MaxResets,   \* bound: how often a run is repeated
  MaxFolded    \* bound: how many blocks the loops compiled in a run contain

ASSUME BlocksAssumption == Blocks \in Nat \ {0}
ASSUME BlockBytesAssumption ==
  BlockBytes \in Nat \ {0} /\ \A n \in Sizes : BlockBytes % n = 0
ASSUME ResetsAssumption == MaxResets \in Nat /\ MaxFolded \in Nat

VARIABLES
  heap,      \* every block object ever created, in the order of creation
  blocks,    \* the dictionary: the object of each block address, or None
  last,      \* last_block and last_block_executable
  lastAddr,  \* last_block_addr and last_block_addr_executable
  folded,    \* <<block address, object, run>>: what compiled loops contain,
             \* and in which run they were compiled
  resets,    \* how often __init__ was called again
  misled,    \* history: has a stale loop served a piece of the request?
  request,
  result

vars == <<heap, blocks, last, lastAddr, folded, resets, misled, request, result>>

None == 0              \* not the index of an object of the heap
NoBlockAddr == Blocks  \* r_uint(-1): not the address of a block

BlockAddr == 0 .. Blocks - 1
Kind == {"data", "code"}
Block == [0 .. BlockBytes - 1 -> Byte]
\* mutant of ZeroBlock: one byte too many
ZeroBlockTooLong == [i \in 0 .. BlockBytes |-> 0]

ZeroBlock == [i \in 0 .. BlockBytes - 1 |-> 0]

Accesses == {a \in (0 .. Blocks * BlockBytes - 1) \X Sizes :
               a[1] + a[2] <= Blocks * BlockBytes}

\* _split_addr
BlockOf(addr) == addr \div BlockBytes
InBlock(addr) == addr % BlockBytes

NextAddr == request.addr + NextIndex(request)
NextBlock == BlockOf(NextAddr)
RequestKind == IF request.executable THEN "code" ELSE "data"

-----------------------------------------------------------------------------
(***************************************************************************)
(* _get_block: the block of an address, created if it does not exist.      *)
(***************************************************************************)

Exists(b) == blocks[b] # None
HeapWith(b) == IF Exists(b) THEN heap ELSE Append(heap, ZeroBlock)
\* mutant of ObjectOf: a new address gets the block that was created last
ObjectOfShared(b) ==
  IF Exists(b) THEN blocks[b] ELSE IF heap = <<>> THEN 1 ELSE Len(heap)
ObjectOf(b) == IF Exists(b) THEN blocks[b] ELSE Len(heap) + 1
BlocksWith(b) == [blocks EXCEPT ![b] = ObjectOf(b)]

(***************************************************************************)
(* One aligned access to the object obj of the heap h.                     *)
(***************************************************************************)

BlockWith(block) ==
  [i \in DOMAIN block |->
     IF i \in InBlock(NextAddr) .. InBlock(NextAddr) + request.unit - 1
     THEN request.data[NextIndex(request) + i - InBlock(NextAddr)]
     ELSE block[i]]

DataWith(block) ==
  [i \in DOMAIN request.data |->
     IF i \in NextIndices(request)
     THEN block[InBlock(NextAddr) + i - NextIndex(request)]
     ELSE request.data[i]]

AccessBlock(h, obj) ==
  LET reading == request.op = "read"
      data == IF reading THEN DataWith(h[obj]) ELSE request.data
  IN  /\ heap' = IF reading THEN h ELSE [h EXCEPT ![obj] = BlockWith(h[obj])]
      /\ IF IsLastAccess(request)
         THEN /\ request' = Idle
              /\ result' = IF reading THEN ReadResult(data) ELSE WriteResult
         ELSE /\ request' = [request EXCEPT !.done = @ + request.unit,
                                            !.data = data]
              /\ UNCHANGED result

-----------------------------------------------------------------------------
Init ==
  /\ heap = <<>>
  /\ blocks = [b \in BlockAddr |-> None]
  /\ last = [k \in Kind |-> None]
  /\ lastAddr = [k \in Kind |-> NoBlockAddr]
  /\ folded = {}
  /\ resets = 0
  /\ misled = FALSE
  /\ request = Idle
  /\ result = NoResult

StartRead(addr, n, executable) ==
  /\ request = Idle
  /\ request' = ReadRequest(addr, n, executable)
  /\ result' = NoResult
  /\ misled' = FALSE
  /\ UNCHANGED <<heap, blocks, last, lastAddr, folded, resets>>

StartWrite(addr, n, data) ==
  /\ request = Idle
  /\ request' = WriteRequest(addr, n, data)
  /\ result' = NoResult
  /\ misled' = FALSE
  /\ UNCHANGED <<heap, blocks, last, lastAddr, folded, resets>>

\* get_block with an address that is not a constant, the block cached
CacheHit ==
  /\ request # Idle
  /\ lastAddr[RequestKind] = NextBlock
  /\ AccessBlock(heap, last[RequestKind])
  /\ UNCHANGED <<blocks, last, lastAddr, folded, resets, misled>>

\* mutant of CacheMiss: both caches take the address, one takes the block
CacheMissBoth ==
  /\ request # Idle
  /\ lastAddr[RequestKind] # NextBlock
  /\ blocks' = BlocksWith(NextBlock)
  /\ last' = [last EXCEPT ![RequestKind] = ObjectOf(NextBlock)]
  /\ lastAddr' = [k \in Kind |-> NextBlock]
  /\ AccessBlock(HeapWith(NextBlock), ObjectOf(NextBlock))
  /\ UNCHANGED <<folded, resets, misled>>

\* the same with another block cached: _fetch_and_set_block[_executable]
CacheMiss ==
  /\ request # Idle
  /\ lastAddr[RequestKind] # NextBlock
  /\ blocks' = BlocksWith(NextBlock)
  /\ last' = [last EXCEPT ![RequestKind] = ObjectOf(NextBlock)]
  /\ lastAddr' = [lastAddr EXCEPT ![RequestKind] = NextBlock]
  /\ AccessBlock(HeapWith(NextBlock), ObjectOf(NextBlock))
  /\ UNCHANGED <<folded, resets, misled>>

\* a loop of an earlier run
Stale(f) == f[3] # resets

\* a loop that is being compiled keeps the block
Fold(b) ==
  /\ folded' = folded \union {<<b, ObjectOf(b), resets>>}
  /\ Cardinality({f \in folded' : ~ Stale(f)}) <= MaxFolded

\* mutant of TracedAccess: a new block is not entered into the dictionary
TracedAccessForgets ==
  /\ request # Idle
  /\ Fold(NextBlock)
  /\ AccessBlock(HeapWith(NextBlock), ObjectOf(NextBlock))
  /\ UNCHANGED <<blocks, last, lastAddr, resets, misled>>

\* get_block while a loop is traced in which the block address is constant:
\* the caches are bypassed, and the loop remembers the object
TracedAccess ==
  /\ request # Idle
  /\ blocks' = BlocksWith(NextBlock)
  /\ Fold(NextBlock)
  /\ AccessBlock(HeapWith(NextBlock), ObjectOf(NextBlock))
  /\ UNCHANGED <<last, lastAddr, resets, misled>>

\* the same access in the compiled loop: no call, only the object
CompiledAccess(f) ==
  /\ request # Idle
  /\ f[1] = NextBlock
  /\ AccessBlock(heap, f[2])
  /\ misled' = (misled \/ Stale(f))
  /\ UNCHANGED <<blocks, last, lastAddr, folded, resets>>

\* mutant of Reset: the blocks survive
ResetKeepsBlocks ==
  /\ request = Idle
  /\ resets < MaxResets
  /\ resets' = resets + 1
  /\ last' = [k \in Kind |-> None]
  /\ lastAddr' = [k \in Kind |-> NoBlockAddr]
  /\ UNCHANGED <<heap, blocks, folded, misled, request, result>>

\* the bytes of blocks that nothing refers to are forgotten
Collected ==
  [obj \in DOMAIN heap |->
     IF \E f \in folded : f[2] = obj THEN heap[obj] ELSE ZeroBlock]

\* __init__ on a memory that is in use, between two runs: what is left of the
\* old blocks are those that compiled loops contain
Reset ==
  /\ request = Idle
  /\ resets < MaxResets
  /\ resets' = resets + 1
  /\ blocks' = [b \in BlockAddr |-> None]
  /\ last' = [k \in Kind |-> None]
  /\ lastAddr' = [k \in Kind |-> NoBlockAddr]
  /\ heap' = Collected
  /\ UNCHANGED <<folded, misled, request, result>>

Next ==
  \/ \E a \in Accesses, executable \in BOOLEAN :
       StartRead(a[1], a[2], executable)
  \/ \E a \in Accesses : \E data \in Bytes(a[2]) : StartWrite(a[1], a[2], data)
  \/ CacheHit
  \/ CacheMiss
  \/ TracedAccess
  \/ \E f \in folded : CompiledAccess(f)
  \/ Reset

Spec == Init /\ [][Next]_vars

-----------------------------------------------------------------------------
(***************************************************************************)
(* Properties.                                                             *)
(***************************************************************************)

Object == {None} \union DOMAIN heap

\* The type invariant of BlockMemory.
TypeOK ==
  /\ \A obj \in DOMAIN heap : heap[obj] \in Block
  /\ blocks \in [BlockAddr -> Object]
  /\ last \in [Kind -> Object]
  /\ lastAddr \in [Kind -> BlockAddr \union {NoBlockAddr}]
  /\ folded \subseteq BlockAddr \X (DOMAIN heap) \X (0 .. resets)
  /\ resets \in 0 .. MaxResets
  /\ misled \in BOOLEAN

\* Both caches hold the block that the dictionary has for their address: an
\* access through a cache, left over from other accesses to other blocks,
\* never reaches a block of another address or one that was thrown away.
CachesCurrent ==
  \A k \in Kind :
    lastAddr[k] # NoBlockAddr =>
      last[k] # None /\ last[k] = blocks[lastAddr[k]]

\* @jit.elidable on _get_block (mem.py:238) is right within a run: the block
\* that a loop compiled in this run has is the one that a call would return.  A
\* loop that is left from an earlier run has a block that this run does not use:
\* what it reads and stores is no other address' and nothing the caches hold.
FoldedCurrent ==
  \A f \in folded :
    IF Stale(f)
    THEN /\ \A b \in BlockAddr : blocks[b] # f[2]
         /\ \A k \in Kind : last[k] # f[2]
    ELSE blocks[f[1]] = f[2]

\* No two addresses share a block, also when blocks were created by cached,
\* traced and compiled accesses in any order, before and after a reset.
BlocksDistinct ==
  \A b, c \in BlockAddr : blocks[b] = blocks[c] /\ Exists(b) => b = c

(***************************************************************************)
(* Refinement: a block that does not exist yet holds zeros.                *)
(***************************************************************************)

AbstractBytes ==
  [a \in 0 .. Blocks * BlockBytes - 1 |->
     IF /\ request.op = "write"
        /\ a \in request.addr + request.done .. request.addr + request.n - 1
     THEN request.data[a - request.addr]
     ELSE IF Exists(BlockOf(a)) THEN heap[blocks[BlockOf(a)]][InBlock(a)]
     ELSE 0]

AbstractRequest ==
  IF request = Idle THEN [op |-> "idle"]
  ELSE [op |-> request.op, addr |-> request.addr, n |-> request.n]

BlockAt(addr, i) == addr + i

Clearable == INSTANCE ClearableMemory WITH
           Backed <- 0 .. Blocks * BlockBytes - 1, Requests <- Accesses,
           At <- BlockAt, bytes <- AbstractBytes,
           request <- AbstractRequest, result <- result, runs <- resets

\* a stale loop serves the request or has served a piece of it
Misled == request # Idle /\ misled'

\* BlockMemory is a plain byte memory: lazily created blocks, both caches,
\* folded blocks and accesses that straddle two blocks are invisible; and a
\* repetition of the run sees nothing of what the last run stored.  The one
\* exception is a request that a loop of an earlier run serves.
ImplementsClearableMemory ==
  /\ Clearable!ClearableInit
  /\ [][Clearable!ClearableNext \/ Misled]_<<Clearable!vars, resets>>
=============================================================================
