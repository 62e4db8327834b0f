-------------------------- MODULE FlatMemoryProofs --------------------------
(***************************************************************************)
(* Proofs about FlatMemory, for every memory size, word width, set of byte *)
(* values and number of compiled loops.                                    *)
(***************************************************************************)
EXTENDS FlatMemory, FiniteSetTheorems, TLAPS

(***************************************************************************)
(* An access of a request in progress falls into one word of the memory.   *)
(***************************************************************************)

LEMMA WordsAreWhole ==
  ASSUME NEW addr \in 0 .. Size - 1
  PROVE  /\ MemOffset(addr) \in Offset
         /\ InWordAddr(addr) \in InWord
         /\ addr = MemOffset(addr) * WordBytes + InWordAddr(addr)
<1> USE SizeAssumption DEF MemOffset, InWordAddr, Offset, InWord
<1>1. CASE WordBytes = 2  BY <1>1
<1>2. CASE WordBytes = 4  BY <1>2
<1>3. CASE WordBytes = 8  BY <1>3
<1> QED  BY <1>1, <1>2, <1>3, WordBytesAssumption

\* an aligned access does not cross the end of its word
LEMMA AlignedInOneWord ==
  ASSUME NEW addr \in Nat, NEW n \in Sizes, addr % n = 0
  PROVE  /\ InWordAddr(addr) + n <= WordBytes
         /\ \A i \in 0 .. n - 1 : /\ MemOffset(addr + i) = MemOffset(addr)
                                  /\ InWordAddr(addr + i) = InWordAddr(addr) + i
<1> USE DEF MemOffset, InWordAddr
<1>0. n \in {1, 2, 4, 8} /\ n <= WordBytes
  BY SizesAssumption, SizesFitAssumption
<1>1. CASE WordBytes = 2  BY <1>0, <1>1
<1>2. CASE WordBytes = 4  BY <1>0, <1>2
<1>3. CASE WordBytes = 8  BY <1>0, <1>3
<1> QED  BY <1>1, <1>2, <1>3, WordBytesAssumption

LEMMA NextAccess ==
  ASSUME NEW req, RequestOK(req)
  PROVE  LET i == NextIndex(req)
             addr == req.addr + i
         IN  /\ req.n \in {1, 2, 4, 8}
             /\ req.unit \in 1 .. req.n
             /\ i \in 0 .. req.n - req.unit
             /\ addr \in 0 .. Size - 1
             /\ MemOffset(addr) \in Offset
             /\ InWordAddr(addr) \in InWord
             /\ InWordAddr(addr) + req.unit <= WordBytes
             /\ \A j \in 0 .. req.unit - 1 :
                  /\ MemOffset(addr + j) = MemOffset(addr)
                  /\ InWordAddr(addr + j) = InWordAddr(addr) + j
<1> DEFINE i == NextIndex(req)
           addr == req.addr + i
<1>1. /\ req.n \in Sizes /\ req.n \in {1, 2, 4, 8} /\ req.addr \in Nat
      /\ req.done \in Nat /\ req.addr + req.n <= Size
  BY SizesAssumption DEF RequestOK
<1>2. req.unit = req.n \/ req.unit = 1
  BY DEF RequestOK, Unit
<1>3. /\ req.unit \in 1 .. req.n
      /\ i \in 0 .. req.n - req.unit
  BY <1>1, <1>2 DEF RequestOK, NextIndex
<1>4. addr \in 0 .. Size - 1
  BY <1>1, <1>3, SizeAssumption
<1>5. addr % req.unit = 0
  <2>1. CASE req.unit = 1  BY <2>1, <1>4
  <2>2. CASE req.unit # 1
    <3>1. req.addr % req.n = 0 /\ req.unit = req.n
      BY <2>2, <1>2 DEF RequestOK, Unit, IsAligned
    <3>2. i = 0  BY <3>1, <1>1, <1>3
    <3> QED  BY <3>1, <3>2, <1>1
  <2> QED  BY <2>1, <2>2
<1>6. req.unit \in Sizes
  BY <1>1, <1>2, SizesAssumption
<1>7. addr \in Nat  BY <1>4, SizeAssumption
<1> HIDE DEF i, addr
<1>8. /\ InWordAddr(addr) + req.unit <= WordBytes
      /\ \A j \in 0 .. req.unit - 1 :
           /\ MemOffset(addr + j) = MemOffset(addr)
           /\ InWordAddr(addr + j) = InWordAddr(addr) + j
  BY <1>5, <1>6, <1>7, AlignedInOneWord
<1>9. MemOffset(addr) \in Offset /\ InWordAddr(addr) \in InWord
  BY <1>4, WordsAreWhole
<1> QED  BY <1>1, <1>3, <1>4, <1>8, <1>9 DEF i, addr

LEMMA DataWithType ==
  ASSUME NEW req, RequestOK(req), NEW word \in Word
  PROVE  DataWith(req, word) \in Bytes(req.n)
<1> DEFINE i == NextIndex(req)
           addr == req.addr + i
<1>1. /\ req.n \in Nat /\ req.unit \in Nat /\ i \in Nat /\ i + req.unit <= req.n
      /\ InWordAddr(addr) \in InWord
      /\ InWordAddr(addr) + req.unit <= WordBytes
  BY NextAccess
<1>2. req.data \in [0 .. req.n - 1 -> Byte]  BY DEF RequestOK, Bytes
<1>3. WordBytes \in Nat  BY WordBytesAssumption
<1>4. DataWith(req, word) =
        [j \in 0 .. req.n - 1 |-> IF j \in i .. i + req.unit - 1
                                  THEN word[InWordAddr(addr) + j - i]
                                  ELSE req.data[j]]
  BY <1>2 DEF DataWith, NextIndices
<1> HIDE DEF i, addr
<1>5. ASSUME NEW j \in i .. i + req.unit - 1
      PROVE  word[InWordAddr(addr) + j - i] \in Byte
  <2>1. InWordAddr(addr) + j - i \in InWord
    BY <1>1, <1>3 DEF InWord
  <2> QED  BY <2>1 DEF Word
<1> QED  BY <1>1, <1>2, <1>4, <1>5 DEF Bytes

LEMMA WordWithType ==
  ASSUME NEW req, RequestOK(req), mem \in [Offset -> Word]
  PROVE  WordWith(req, MemOffset(req.addr + NextIndex(req))) \in Word
<1> DEFINE i == NextIndex(req)
           addr == req.addr + i
<1>1. /\ req.n \in Nat /\ req.unit \in Nat /\ i \in Nat /\ i + req.unit <= req.n
      /\ InWordAddr(addr) \in InWord
      /\ MemOffset(addr) \in Offset
  BY NextAccess
<1>2. req.data \in [0 .. req.n - 1 -> Byte]  BY DEF RequestOK, Bytes
<1>3. WordBytes \in Nat  BY WordBytesAssumption
<1>4. WordWith(req, MemOffset(addr)) =
        [b \in InWord |->
           IF b \in InWordAddr(addr) .. InWordAddr(addr) + req.unit - 1
           THEN req.data[i + b - InWordAddr(addr)]
           ELSE mem[MemOffset(addr)][b]]
  BY DEF WordWith
<1>5. ASSUME NEW b \in InWord
      PROVE  mem[MemOffset(addr)][b] \in Byte
  BY <1>1 DEF Word
<1> HIDE DEF i, addr
<1>6. ASSUME NEW b \in InWordAddr(addr) .. InWordAddr(addr) + req.unit - 1
      PROVE  req.data[i + b - InWordAddr(addr)] \in Byte
  <2>1. i + b - InWordAddr(addr) \in 0 .. req.n - 1
    BY <1>1, <1>3 DEF InWord
  <2> QED  BY <2>1, <1>2
<1>7. WordWith(req, MemOffset(addr)) \in Word
  BY <1>4, <1>5, <1>6 DEF Word
<1> QED  BY <1>7 DEF i, addr

(***************************************************************************)
(* Type correctness, one lemma per part of a step.                         *)
(***************************************************************************)

LEMMA RequestsStart ==
  ASSUME NEW a \in Accesses, NEW data \in Bytes(a[2])
  PROVE  /\ a[1] \in Nat /\ a[2] \in Sizes /\ a[2] \in {1, 2, 4, 8}
         /\ \A executable \in BOOLEAN : RequestOK(ReadRequest(a[1], a[2], executable))
         /\ RequestOK(WriteRequest(a[1], a[2], data))
<1>1. /\ a[1] \in Nat /\ a[2] \in Sizes /\ a[2] \in {1, 2, 4, 8}
      /\ a[1] + a[2] <= Size
  <2>1. a[1] \in 0 .. Size - 1 /\ a[2] \in Sizes /\ a[1] + a[2] <= Size
    BY DEF Accesses
  <2>2. Size \in Nat  BY SizeAssumption
  <2>3. a[1] \in Nat  BY <2>1, <2>2
  <2> QED  BY <2>1, <2>3, SizesAssumption
<1>2. Unit(a[1], a[2]) \in 1 .. a[2]
  BY <1>1 DEF Unit
<1>3. [i \in 0 .. a[2] - 1 |-> 0] \in Bytes(a[2])
  BY ByteAssumption DEF Bytes
<1>4. \A d \in Bytes(a[2]) : d \in UNION {Bytes(n) : n \in Sizes}
  BY <1>1
<1> HIDE DEF Bytes, Unit
<1>5. ASSUME NEW executable \in BOOLEAN
      PROVE  RequestOK(ReadRequest(a[1], a[2], executable))
  BY <1>1, <1>2, <1>3, <1>4 DEF RequestOK, ReadRequest
<1>6. RequestOK(WriteRequest(a[1], a[2], data))
  BY <1>1, <1>2, <1>4 DEF RequestOK, WriteRequest
<1> QED  BY <1>1, <1>5, <1>6

\* a record with two of its fields replaced
LEMMA RecordUpdate ==
  ASSUME NEW Op, NEW N, NEW D,
         NEW r \in [op : Op, addr : Nat, n : N, executable : BOOLEAN,
                    unit : Nat, done : Nat, data : D],
         NEW d \in Nat, NEW x \in D
  PROVE  LET s == [r EXCEPT !.done = d, !.data = x]
         IN  /\ s \in [op : Op, addr : Nat, n : N, executable : BOOLEAN,
                       unit : Nat, done : Nat, data : D]
             /\ s.op = r.op /\ s.addr = r.addr /\ s.n = r.n
             /\ s.unit = r.unit /\ s.done = d /\ s.data = x
OBVIOUS

LEMMA ReceivedType ==
  ASSUME RequestOK(request), NEW word \in Word, Received(word),
         \/ result \in {NoResult, WriteResult}
         \/ \E n \in Sizes : \E data \in Bytes(n) : result = ReadResult(data)
  PROVE  /\ request' = Idle \/ RequestOK(request')
         /\ \/ result' \in {NoResult, WriteResult}
            \/ \E n \in Sizes : \E data \in Bytes(n) : result' = ReadResult(data)
<1>1. DataWith(request, word) \in Bytes(request.n)
  BY DataWithType
<1>2. request.n \in Sizes /\ request.n \in {1, 2, 4, 8}
  BY SizesAssumption DEF RequestOK
<1>3. CASE IsLastAccess(request)
  BY <1>1, <1>2, <1>3 DEF Received
<1>4. CASE ~ IsLastAccess(request)
  <2>1. /\ request' = [request EXCEPT !.done = @ + request.unit,
                                      !.data = DataWith(request, word)]
        /\ UNCHANGED result
    BY <1>4 DEF Received
  <2>2. request.unit = request.n \/ request.unit = 1
    BY DEF RequestOK, Unit
  <2>3. /\ request.done \in Nat /\ request.unit \in Nat
        /\ request.done + request.unit < request.n
    BY <1>2, <1>4, <2>2 DEF RequestOK, IsLastAccess
  <2>4. request.done + request.unit + request.unit <= request.n
    BY <1>2, <2>2, <2>3
  <2>5. DataWith(request, word) \in UNION {Bytes(n) : n \in Sizes}
    BY <1>1, <1>2
  <2>6. /\ request' \in [op : {"read", "write"}, addr : Nat, n : Sizes,
                          executable : BOOLEAN, unit : Nat, done : Nat,
                          data : UNION {Bytes(n) : n \in Sizes}]
        /\ request'.addr = request.addr /\ request'.n = request.n
        /\ request'.unit = request.unit
        /\ request'.done = request.done + request.unit
        /\ request'.data = DataWith(request, word)
    <3>1. request.done + request.unit \in Nat  BY <2>3
    <3> QED  BY <2>1, <2>5, <3>1, RecordUpdate DEF RequestOK
  <2>7. RequestOK(request')
    BY <1>1, <2>4, <2>6 DEF RequestOK
  <2> QED  BY <2>1, <2>7
<1> QED  BY <1>3, <1>4

LEMMA MarkedType ==
  ASSUME NEW off \in Offset, status \in [Offset -> {Normal, Immutable, Mutable}]
  PROVE  /\ Marked(off) \in [Offset -> {Normal, Immutable, Mutable}]
         /\ Marked(off)[off] \in {Immutable, Mutable}
BY DEF Marked, Normal, Immutable, Mutable

LEMMA InitType == Init => TypeOK
<1> SUFFICES ASSUME Init PROVE TypeOK
  OBVIOUS
<1>1. mem \in [Offset -> Word]
  BY ByteAssumption DEF Init, Word
<1> QED  BY <1>1 DEF Init, TypeOK

LEMMA NextType == TypeOK /\ [Next]_vars => TypeOK'
<1> SUFFICES ASSUME TypeOK, [Next]_vars PROVE TypeOK'
  OBVIOUS
<1> USE DEF TypeOK
<1>1. ASSUME NEW a \in Accesses, NEW executable \in BOOLEAN,
             StartRead(a[1], a[2], executable)
      PROVE  TypeOK'
  <2>1. [i \in 0 .. a[2] - 1 |-> 0] \in Bytes(a[2])
    BY ByteAssumption DEF Bytes
  <2>2. RequestOK(request')
    BY <1>1, <2>1, RequestsStart DEF StartRead
  <2> QED  BY <1>1, <2>2 DEF StartRead, memVars
<1>2. ASSUME NEW a \in Accesses, NEW data \in Bytes(a[2]),
             StartWrite(a[1], a[2], data)
      PROVE  TypeOK'
  <2>1. RequestOK(request')
    BY <1>2, RequestsStart DEF StartWrite
  <2> QED  BY <1>2, <2>1 DEF StartWrite, memVars
<1>3. ASSUME request.op \in {"read", "write"}
      PROVE  RequestOK(request) /\ NextOffset \in Offset /\ mem[NextOffset] \in Word
  <2>1. RequestOK(request)  BY <1>3 DEF Idle
  <2>2. NextOffset \in Offset  BY <2>1, NextAccess DEF NextOffset
  <2> QED  BY <2>1, <2>2
<1>4. CASE ReadInterpreted
  <2>1. RequestOK(request) /\ NextOffset \in Offset /\ mem[NextOffset] \in Word
    BY <1>3, <1>4 DEF ReadInterpreted
  <2>2. Received(mem[NextOffset])  BY <1>4 DEF ReadInterpreted
  <2>3. status' \in [Offset -> {Normal, Immutable, Mutable}]
    BY <1>4, <2>1, MarkedType DEF ReadInterpreted, InterpretedRead
  <2>4. UNCHANGED <<mem, version, traces>>
    BY <1>4 DEF ReadInterpreted, InterpretedRead
  <2> QED  BY <2>1, <2>2, <2>3, <2>4, ReceivedType
<1>5. CASE ReadTraced
  <2>1. RequestOK(request) /\ NextOffset \in Offset /\ mem[NextOffset] \in Word
    BY <1>3, <1>5 DEF ReadTraced
  <2>2. Received(mem[NextOffset])  BY <1>5 DEF ReadTraced
  <2>3. Trace(NextOffset) \in [off : Offset, version : Nat,
                               status : {Immutable, Mutable}, data : Word]
    BY <2>1, MarkedType DEF Trace
  <2>4. /\ status' \in [Offset -> {Normal, Immutable, Mutable}]
        /\ traces' = traces \union {Trace(NextOffset)}
        /\ UNCHANGED <<mem, version>>
    BY <1>5, <2>1, MarkedType DEF ReadTraced, TracedRead
  <2> QED  BY <2>1, <2>2, <2>3, <2>4, ReceivedType
<1>6. ASSUME NEW t \in traces, ReadCompiled(t)
      PROVE  TypeOK'
  <2>1. RequestOK(request) /\ NextOffset \in Offset
    BY <1>3, <1>6 DEF ReadCompiled
  <2>2. CompiledWord(t) \in Word  BY DEF CompiledWord
  <2>3. Received(CompiledWord(t)) /\ UNCHANGED <<mem, status, version, traces>>
    BY <1>6 DEF ReadCompiled, CompiledRead
  <2> QED  BY <2>1, <2>2, <2>3, ReceivedType
<1>7. CASE Write
  <2>1. RequestOK(request) /\ NextOffset \in Offset
    BY <1>3, <1>7 DEF Write
  <2>2. WordWith(request, NextOffset) \in Word
    BY <2>1, WordWithType DEF NextOffset
  <2>3. /\ mem' \in [Offset -> Word]
        /\ status' \in [Offset -> {Normal, Immutable, Mutable}]
        /\ version' \in Nat
        /\ UNCHANGED traces
    BY <1>7, <2>1, <2>2 DEF Write, WriteWord
  <2>4. CASE IsLastAccess(request)
    BY <1>7, <2>3, <2>4 DEF Write
  <2>5. CASE ~ IsLastAccess(request)
    <3>1. request' = [request EXCEPT !.done = @ + request.unit] /\ UNCHANGED result
      BY <1>7, <2>5 DEF Write
    <3>2. /\ request' \in [op : {"read", "write"}, addr : Nat, n : Sizes,
                          executable : BOOLEAN, unit : Nat, done : Nat,
                          data : UNION {Bytes(n) : n \in Sizes}]
          /\ request'.addr = request.addr /\ request'.n = request.n
          /\ request'.unit = request.unit /\ request'.data = request.data
          /\ request'.done = request.done + request.unit
      <4>1. request.done + request.unit \in Nat  BY <2>1 DEF RequestOK
      <4> QED  BY <2>1, <3>1, <4>1 DEF RequestOK
    <3>3. request.done + request.unit + request.unit <= request.n
      <4>1. /\ request.n \in {1, 2, 4, 8} /\ request.done \in Nat
            /\ request.unit = request.n \/ request.unit = 1
            /\ request.done + request.unit <= request.n
        BY <2>1, SizesAssumption DEF RequestOK, Unit
      <4> QED  BY <2>5, <4>1 DEF IsLastAccess
    <3>4. RequestOK(request')  BY <2>1, <3>2, <3>3 DEF RequestOK
    <3> QED  BY <2>3, <3>1, <3>4
  <2> QED  BY <2>4, <2>5
<1>8. CASE UNCHANGED vars
  BY <1>8 DEF vars, RequestOK
<1> QED  BY <1>1, <1>2, <1>4, <1>5, <1>6, <1>7, <1>8 DEF Next

\* Every reachable state of FlatMemory is well typed: no access leaves the
\* memory, and a word's status is one of the three of mem.py.
THEOREM TypeCorrect == Spec => []TypeOK
BY InitType, NextType, PTL DEF Spec

(***************************************************************************)
(* Compiled loops and the memory.                                          *)
(***************************************************************************)

\* what a step can do to the words, their statuses and the compiled loops
LEMMA MemorySteps ==
  ASSUME TypeOK, [Next]_vars
  PROVE  \/ UNCHANGED <<mem, status, version, traces>>
         \/ \E off \in Offset : \/ InterpretedRead(off, TRUE)
                                \/ TracedRead(off)
         \/ \E off \in Offset, word \in Word : WriteWord(off, word)
<1>1. ASSUME request.op \in {"read", "write"}
      PROVE  RequestOK(request) /\ NextOffset \in Offset
  <2>1. RequestOK(request)  BY <1>1 DEF Idle, TypeOK
  <2> QED  BY <2>1, NextAccess DEF NextOffset
<1>2. CASE ReadInterpreted
  <2>1. NextOffset \in Offset  BY <1>1, <1>2 DEF ReadInterpreted
  <2>2. request.executable \in BOOLEAN
    BY <1>1, <1>2 DEF ReadInterpreted, RequestOK
  <2> QED  BY <1>2, <2>1, <2>2 DEF ReadInterpreted, InterpretedRead
<1>3. CASE ReadTraced
  BY <1>1, <1>3 DEF ReadTraced
<1>4. CASE Write
  <2>1. RequestOK(request) /\ NextOffset \in Offset  BY <1>1, <1>4 DEF Write
  <2>2. WordWith(request, NextOffset) \in Word
    BY <2>1, WordWithType DEF NextOffset, TypeOK
  <2> QED  BY <1>4, <2>1, <2>2 DEF Write
<1>5. CASE /\ ~ ReadInterpreted /\ ~ ReadTraced /\ ~ Write
  BY <1>5 DEF Next, vars, memVars, StartRead, StartWrite, ReadCompiled, CompiledRead
<1> QED  BY <1>2, <1>3, <1>4, <1>5

\* TracesAgree is inductive together with: no loop saw a version from the
\* future, so a new version is one that no loop has seen
TracesInv ==
  /\ TracesAgree
  /\ \A t \in traces : t.version <= version

LEMMA NextTraces == TypeOK /\ TracesInv /\ [Next]_vars => TracesInv'
<1> SUFFICES ASSUME TypeOK, TracesInv, [Next]_vars PROVE TracesInv'
  OBVIOUS
<1> USE DEF TracesInv, TracesAgree
<1>1. /\ status \in [Offset -> {Normal, Immutable, Mutable}]
      /\ mem \in [Offset -> Word]
      /\ version \in Nat
      /\ \A t \in traces : /\ t.off \in Offset /\ t.version \in Nat
                           /\ t.status \in {Immutable, Mutable}
  BY DEF TypeOK
<1>2. ASSUME NEW off \in Offset, status' = Marked(off)
      PROVE  \A t \in traces : t.version = version =>
               status'[t.off] = t.status
  BY <1>1, <1>2 DEF Marked, Normal, Immutable, Mutable
<1>3. ASSUME NEW off \in Offset, InterpretedRead(off, TRUE)
      PROVE  TracesInv'
  BY <1>2, <1>3 DEF InterpretedRead
<1>4. ASSUME NEW off \in Offset, TracedRead(off)
      PROVE  TracesInv'
  <2>1. /\ Trace(off).off = off /\ Trace(off).version = version
        /\ Trace(off).status = status'[off] /\ Trace(off).data = mem[off]
    BY <1>4 DEF Trace, TracedRead
  <2> QED  BY <1>1, <1>2, <1>4, <2>1 DEF TracedRead
<1>5. ASSUME NEW off \in Offset, NEW word \in Word, WriteWord(off, word)
      PROVE  TracesInv'
  <2>1. CASE status[off] = Immutable /\ mem[off] # word
    <3>1. version' = version + 1 /\ traces' = traces
      BY <1>5, <2>1 DEF WriteWord
    <3>2. \A t \in traces : t.version # version' /\ t.version <= version'
      BY <1>1, <3>1
    <3> QED  BY <3>1, <3>2
  <2>2. CASE ~ (status[off] = Immutable /\ mem[off] # word)
    <3>1. /\ mem' = [mem EXCEPT ![off] = word]
          /\ UNCHANGED <<status, version, traces>>
      BY <1>5, <2>2 DEF WriteWord
    <3>2. \A o \in Offset : status[o] = Immutable => mem'[o] = mem[o]
      BY <1>1, <2>2, <3>1
    <3> QED  BY <1>1, <3>1, <3>2
  <2> QED  BY <2>1, <2>2
<1>6. CASE UNCHANGED <<mem, status, version, traces>>
  BY <1>6
<1> QED  BY <1>3, <1>4, <1>5, <1>6, MemorySteps

\* The JIT contract of mem.py: for every memory size and every interleaving
\* of writes, instruction fetches and tracing, a compiled loop that may still
\* be entered holds the word's current status and, if it folded the word,
\* the word's current contents.
THEOREM TracesCoherent == Spec => []TracesAgree
<1>1. Init => TracesInv  BY DEF Init, TracesInv, TracesAgree
<1>2. TracesInv => TracesAgree  BY DEF TracesInv
<1> QED  BY <1>1, <1>2, NextTraces, TypeCorrect, PTL DEF Spec

\* Words move only from NORMAL to IMMUTABLE to MUTABLE, and a word that may
\* have been folded changes only together with the version.
THEOREM StatusTransitionsCorrect == Spec => StatusTransitions
<1> DEFINE Transition ==
      /\ \A off \in Offset :
           \/ status'[off] = status[off]
           \/ status[off] = Normal /\ status'[off] = Immutable
           \/ status[off] = Immutable /\ status'[off] = Mutable
      /\ version' # version <=>
           \E off \in Offset : status[off] = Immutable /\ status'[off] = Mutable
      /\ \A off \in Offset :
           status[off] = Immutable /\ mem'[off] # mem[off] => version' # version
<1>1. TypeOK /\ [Next]_vars => Transition
  <2> SUFFICES ASSUME TypeOK, [Next]_vars PROVE Transition
    OBVIOUS
  <2>1. /\ status \in [Offset -> {Normal, Immutable, Mutable}]
        /\ mem \in [Offset -> Word]
        /\ version \in Nat
    BY DEF TypeOK
  <2> USE DEF Normal, Immutable, Mutable
  <2>2. ASSUME NEW off \in Offset, status' = Marked(off), UNCHANGED <<mem, version>>
        PROVE  Transition
    BY <2>1, <2>2 DEF Marked
  <2>3. ASSUME NEW off \in Offset, InterpretedRead(off, TRUE) \/ TracedRead(off)
        PROVE  Transition
    BY <2>2, <2>3 DEF InterpretedRead, TracedRead
  <2>4. ASSUME NEW off \in Offset, NEW word \in Word, WriteWord(off, word)
        PROVE  Transition
    BY <2>1, <2>4 DEF WriteWord
  <2>5. CASE UNCHANGED <<mem, status, version, traces>>
    BY <2>1, <2>5
  <2> QED  BY <2>3, <2>4, <2>5, MemorySteps
<1>2. [Transition]_vars <=> Transition \/ UNCHANGED vars
  OBVIOUS
<1>3. TypeOK /\ [Next]_vars => [Transition]_vars
  BY <1>1
<1> QED  BY <1>3, TypeCorrect, PTL DEF Spec, StatusTransitions

(***************************************************************************)
(* The number of versions.                                                 *)
(***************************************************************************)

MutableWords == {off \in Offset : status[off] = Mutable}

LEMMA NextVersions ==
  TypeOK /\ VersionsCountMutableWords /\ [Next]_vars => VersionsCountMutableWords'
<1> SUFFICES ASSUME TypeOK, VersionsCountMutableWords, [Next]_vars
             PROVE  version' = Cardinality(MutableWords')
  BY DEF VersionsCountMutableWords, MutableWords
<1>0. version = Cardinality(MutableWords)
  BY DEF VersionsCountMutableWords, MutableWords
<1>1. status \in [Offset -> {Normal, Immutable, Mutable}]
  BY DEF TypeOK
<1>2. IsFiniteSet(Offset)
  <2>1. 0 \in Int /\ (Size \div WordBytes) - 1 \in Int
    BY SizeAssumption, WordBytesAssumption
  <2> QED  BY <2>1, FS_Interval DEF Offset
<1>3. IsFiniteSet(MutableWords)
  BY <1>2, FS_Subset DEF MutableWords
<1>4. ASSUME NEW off \in Offset, InterpretedRead(off, TRUE) \/ TracedRead(off)
      PROVE  version' = version /\ MutableWords' = MutableWords
  BY <1>1, <1>4 DEF InterpretedRead, TracedRead, Marked, MutableWords,
                    Normal, Immutable, Mutable
<1>5. ASSUME NEW off \in Offset, NEW word \in Word, WriteWord(off, word)
      PROVE  version' = Cardinality(MutableWords')
  <2>1. CASE status[off] = Immutable /\ mem[off] # word
    <3>1. /\ MutableWords' = MutableWords \union {off}
          /\ off \notin MutableWords
          /\ version' = version + 1
      BY <1>1, <1>5, <2>1 DEF WriteWord, MutableWords, Immutable, Mutable
    <3> QED  BY <1>0, <1>3, <3>1, FS_AddElement
  <2>2. CASE ~ (status[off] = Immutable /\ mem[off] # word)
    BY <1>0, <1>5, <2>2 DEF WriteWord, MutableWords
  <2> QED  BY <2>1, <2>2
<1>6. CASE UNCHANGED <<mem, status, version, traces>>
  BY <1>0, <1>6 DEF MutableWords
<1> QED  BY <1>0, <1>4, <1>5, <1>6, MemorySteps

\* Compiled code is invalidated exactly once per word that became MUTABLE, so
\* never more often than there are words, however long the program runs.
THEOREM VersionsCount == Spec => []VersionsCountMutableWords
<1>1. Init => VersionsCountMutableWords
  <2> SUFFICES ASSUME Init PROVE VersionsCountMutableWords
    OBVIOUS
  <2>1. {off \in Offset : status[off] = Mutable} = {}
    BY DEF Init, Normal, Mutable
  <2> QED  BY <2>1, FS_EmptySet DEF Init, VersionsCountMutableWords
<1> QED  BY <1>1, NextVersions, TypeCorrect, PTL DEF Spec

-----------------------------------------------------------------------------
(***************************************************************************)
(* FlatMemory, with its statuses, versions, compiled loops and bytewise    *)
(* accesses, implements the plain byte memory of GuestMemory.              *)
(***************************************************************************)
MemByte(a) == mem[MemOffset(a)][InWordAddr(a)]

\* the bytes a read in progress has collected are the bytes in memory
ReadsAgree ==
  request.op = "read" =>
    \A i \in request.n - request.done .. request.n - 1 :
      request.data[i] = MemByte(request.addr + i)

RefinementInv == TypeOK /\ TracesInv /\ ReadsAgree

\* the word a read receives, interpreted or compiled, is the word in memory
LEMMA ReceivedWord ==
  ASSUME TracesInv, NEW t \in traces, ReadCompiled(t)
  PROVE  CompiledWord(t) = mem[NextOffset]
BY DEF TracesInv, TracesAgree, ReadCompiled, CompiledRead, CompiledWord

\* the bytes of a request's next access, as the memory holds them
LEMMA NextBytes ==
  ASSUME TypeOK, RequestOK(request)
  PROVE  \A i \in NextIndices(request) :
           /\ i \in 0 .. request.n - 1
           /\ MemOffset(request.addr + i) = NextOffset
           /\ InWordAddr(request.addr + i) =
                InWordAddr(request.addr + NextIndex(request))
                  + i - NextIndex(request)
<1> DEFINE first == NextIndex(request)
           addr == request.addr + first
<1>1. /\ request.n \in Nat /\ request.unit \in Nat /\ first \in Nat
      /\ first + request.unit <= request.n
      /\ \A j \in 0 .. request.unit - 1 :
           /\ MemOffset(addr + j) = MemOffset(addr)
           /\ InWordAddr(addr + j) = InWordAddr(addr) + j
      /\ InWordAddr(addr) \in Int
  BY NextAccess DEF InWord
<1>2. request.addr \in Nat  BY DEF RequestOK
<1>3. ASSUME NEW i \in NextIndices(request)
      PROVE  /\ i \in 0 .. request.n - 1
             /\ MemOffset(request.addr + i) = NextOffset
             /\ InWordAddr(request.addr + i) = InWordAddr(addr) + i - first
  <2> DEFINE j == i - first
  <2>1. j \in 0 .. request.unit - 1 /\ i \in 0 .. request.n - 1
    BY <1>1, <1>3 DEF NextIndices
  <2>2. addr + j = request.addr + i
    BY <1>1, <1>2, <2>1
  <2>3. InWordAddr(addr) + j = InWordAddr(addr) + i - first
    BY <1>1, <2>1
  <2> HIDE DEF j, addr, first
  <2> QED  BY <1>1, <2>1, <2>2, <2>3 DEF NextOffset, addr, first
<1> QED  BY <1>3

\* the data of a read after receiving the word in memory
LEMMA DataWithMemory ==
  ASSUME TypeOK, RequestOK(request), ReadsAgree, request.op = "read"
  PROVE  \A i \in request.n - request.done - request.unit .. request.n - 1 :
           DataWith(request, mem[NextOffset])[i] = MemByte(request.addr + i)
<1> DEFINE word == mem[NextOffset]
<1>1. /\ request.n \in Nat /\ request.unit \in Nat /\ request.done \in Nat
      /\ request.done + request.unit <= request.n
      /\ NextIndex(request) = request.n - request.done - request.unit
      /\ request.unit >= 1
  BY NextAccess, SizesAssumption DEF RequestOK, NextIndex
<1>2. DOMAIN request.data = 0 .. request.n - 1
  BY DEF RequestOK, Bytes
<1>3. ASSUME NEW i \in request.n - request.done - request.unit .. request.n - 1
      PROVE  DataWith(request, word)[i] = MemByte(request.addr + i)
  <2>1. i \in DOMAIN request.data
    BY <1>1, <1>2
  <2>2. CASE i \in NextIndices(request)
    <3>1. DataWith(request, word)[i] =
            word[InWordAddr(request.addr + NextIndex(request))
                   + i - NextIndex(request)]
      BY <2>1, <2>2 DEF DataWith
    <3> QED  BY <2>2, <3>1, NextBytes DEF MemByte
  <2>3. CASE i \notin NextIndices(request)
    <3>1. DataWith(request, word)[i] = request.data[i]
      BY <2>1, <2>3 DEF DataWith
    <3>2. i \in request.n - request.done .. request.n - 1
      BY <1>1, <2>3 DEF NextIndices
    <3> QED  BY <3>1, <3>2 DEF ReadsAgree
  <2> QED  BY <2>2, <2>3
<1> QED  BY <1>3

(***************************************************************************)
(* ReadsAgree is preserved.                                                *)
(***************************************************************************)

\* a read step changes no byte, and receives the word in memory
LEMMA ReadSteps ==
  ASSUME TypeOK, TracesInv,
         ReadInterpreted \/ ReadTraced \/ \E t \in traces : ReadCompiled(t)
  PROVE  /\ RequestOK(request) /\ request.op = "read"
         /\ mem' = mem
         /\ Received(mem[NextOffset])
<1>1. request.op = "read"
  BY DEF ReadInterpreted, ReadTraced, ReadCompiled
<1>2. RequestOK(request)
  BY <1>1 DEF TypeOK, Idle
<1> QED  BY <1>1, <1>2, ReceivedWord
         DEF ReadInterpreted, InterpretedRead, ReadTraced, TracedRead,
             ReadCompiled, CompiledRead

LEMMA NextReads == RefinementInv /\ [Next]_vars => ReadsAgree'
<1> SUFFICES ASSUME RefinementInv, [Next]_vars PROVE ReadsAgree'
  OBVIOUS
<1> USE DEF RefinementInv
<1>1. ASSUME NEW a \in Accesses, NEW executable \in BOOLEAN,
             StartRead(a[1], a[2], executable)
      PROVE  ReadsAgree'
  <2>1. a[2] \in Sizes  BY DEF Accesses
  <2>2. a[2] \in Nat
    <3>1. \A n \in Sizes : n \in Nat  BY SizesAssumption
    <3> QED  BY <2>1, <3>1
  <2>3. request'.n = a[2] /\ request'.done = 0
    BY <1>1 DEF StartRead, ReadRequest
  <2> QED  BY <2>2, <2>3 DEF ReadsAgree
<1>2. ASSUME request'.op # "read"
      PROVE  ReadsAgree'
  BY <1>2 DEF ReadsAgree
<1>3. ASSUME NEW a \in Accesses, NEW data \in Bytes(a[2]),
             StartWrite(a[1], a[2], data)
      PROVE  ReadsAgree'
  BY <1>2, <1>3 DEF StartWrite, WriteRequest
<1>4. CASE ReadInterpreted \/ ReadTraced \/ \E t \in traces : ReadCompiled(t)
  <2>1. /\ RequestOK(request) /\ request.op = "read" /\ mem' = mem
        /\ Received(mem[NextOffset])
    BY <1>4, ReadSteps
  <2>2. CASE IsLastAccess(request)
    BY <1>2, <2>1, <2>2 DEF Received, Idle
  <2>3. CASE ~ IsLastAccess(request)
    <3>1. request' = [request EXCEPT !.done = @ + request.unit,
                                     !.data = DataWith(request, mem[NextOffset])]
      BY <2>1, <2>3 DEF Received
    <3>2. /\ request'.n = request.n /\ request'.addr = request.addr
          /\ request'.done = request.done + request.unit
          /\ request'.data = DataWith(request, mem[NextOffset])
      <4>1. request.done \in Nat /\ request.unit \in Nat
        BY <2>1 DEF RequestOK
      <4> QED  BY <2>1, <3>1, <4>1 DEF RequestOK
    <3>3. \A i \in request.n - request.done - request.unit .. request.n - 1 :
            DataWith(request, mem[NextOffset])[i] = MemByte(request.addr + i)
      BY <2>1, DataWithMemory
    <3>4. request.n \in Nat /\ request.done \in Nat /\ request.unit \in Nat
      BY <2>1, SizesAssumption DEF RequestOK
    <3>5. request'.n - request'.done = request.n - request.done - request.unit
      BY <3>2, <3>4
    <3>6. \A i : MemByte(i)' = MemByte(i)
      BY <2>1 DEF MemByte
    <3> QED  BY <3>2, <3>3, <3>5, <3>6 DEF ReadsAgree, MemByte
  <2> QED  BY <2>2, <2>3
<1>5. CASE Write
  <2>1. RequestOK(request) /\ request.op = "write"
    BY <1>5 DEF Write, TypeOK, Idle
  <2>2. \/ request' = Idle
        \/ request' = [request EXCEPT !.done = @ + request.unit]
    BY <1>5 DEF Write
  <2>3. request'.op # "read"
    BY <2>1, <2>2 DEF Idle, RequestOK
  <2> QED  BY <1>2, <2>3
<1>6. CASE UNCHANGED vars
  BY <1>6 DEF vars, ReadsAgree, MemByte
<1> QED  BY <1>1, <1>3, <1>4, <1>5, <1>6 DEF Next

(***************************************************************************)
(* The simulation, one lemma per kind of step.                             *)
(***************************************************************************)

LEMMA AllBacked ==
  ASSUME NEW a \in Nat, NEW n \in Nat, a + n <= Size
  PROVE  /\ \A i \in 0 .. n - 1 : Guest!BackedUpTo(a, i)
         /\ Guest!BackedUpTo(a, n - 1)
BY SizeAssumption DEF Guest!BackedUpTo, FlatAt

LEMMA SimulateStartRead ==
  ASSUME RefinementInv, NEW a \in Accesses, NEW executable \in BOOLEAN,
         StartRead(a[1], a[2], executable)
  PROVE  Guest!StartRead(a[1], a[2])
<1>1. /\ request = Idle /\ result' = NoResult /\ mem' = mem
      /\ request' = ReadRequest(a[1], a[2], executable)
  BY DEF StartRead, memVars
<1>2. /\ request.op = "idle" /\ request'.op = "read" /\ request' # Idle
      /\ request'.addr = a[1] /\ request'.n = a[2]
  BY <1>1 DEF Idle, ReadRequest
<1>3. AbstractBytes' = AbstractBytes
  BY <1>1, <1>2 DEF AbstractBytes, InFlight
<1>4. /\ AbstractRequest = [op |-> "idle"]
      /\ AbstractRequest' = [op |-> "read", addr |-> a[1], n |-> a[2]]
  BY <1>1, <1>2 DEF AbstractRequest
<1> QED  BY <1>1, <1>3, <1>4 DEF Guest!StartRead, Guest!NoRequest, Guest!NoResult, NoResult

LEMMA SimulateStartWrite ==
  ASSUME RefinementInv, NEW a \in Accesses, NEW data \in Bytes(a[2]),
         StartWrite(a[1], a[2], data)
  PROVE  Guest!StartWrite(a[1], a[2], data)
<1>1. /\ request = Idle /\ result' = NoResult /\ mem' = mem
      /\ request' = WriteRequest(a[1], a[2], data)
  BY DEF StartWrite, memVars
<1>2. /\ request.op = "idle" /\ request'.op = "write" /\ request' # Idle
      /\ request'.addr = a[1] /\ request'.n = a[2] /\ request'.done = 0
      /\ request'.data = data
  BY <1>1 DEF Idle, WriteRequest
<1>3. /\ AbstractRequest = [op |-> "idle"]
      /\ AbstractRequest' = [op |-> "write", addr |-> a[1], n |-> a[2]]
  BY <1>1, <1>2 DEF AbstractRequest
<1>4. a[1] \in Nat /\ a[2] \in Nat /\ a[1] + a[2] <= Size
  BY RequestsStart, SizesAssumption DEF Accesses
<1>5. ASSUME NEW b \in 0 .. Size - 1
      PROVE  AbstractBytes'[b] = Guest!Stored(a[1], a[2], data)[b]
  <2>1. b \in Nat  BY SizeAssumption
  <2>2. AbstractBytes[b] = MemByte(b)
    BY <1>2 DEF AbstractBytes, InFlight, MemByte
  <2>3. CASE b \in a[1] .. a[1] + a[2] - 1
    <3>1. AbstractBytes'[b] = data[b - a[1]]
      BY <1>2, <1>4, <2>1, <2>3 DEF AbstractBytes, InFlight
    <3>2. /\ b - a[1] \in 0 .. a[2] - 1 /\ FlatAt(a[1], b - a[1]) = b
          /\ \A i \in 0 .. a[2] - 1 : FlatAt(a[1], i) = b => i = b - a[1]
      BY <1>4, <2>1, <2>3 DEF FlatAt
    <3>3. Guest!Stored(a[1], a[2], data)[b] = data[b - a[1]]
      BY <1>4, <3>2, AllBacked DEF Guest!Stored
    <3> QED  BY <3>1, <3>3
  <2>4. CASE b \notin a[1] .. a[1] + a[2] - 1
    <3>1. AbstractBytes'[b] = MemByte(b)
      BY <1>1, <1>2, <1>4, <2>1, <2>4 DEF AbstractBytes, InFlight, MemByte
    <3>2. ~ \E i \in 0 .. a[2] - 1 : FlatAt(a[1], i) = b
      BY <1>4, <2>1, <2>4 DEF FlatAt
    <3> QED  BY <2>2, <3>1, <3>2 DEF Guest!Stored
  <2> QED  BY <2>3, <2>4
<1>6. AbstractBytes' = Guest!Stored(a[1], a[2], data)
  BY <1>5 DEF AbstractBytes, Guest!Stored
<1> QED  BY <1>1, <1>3, <1>6 DEF Guest!StartWrite, Guest!NoRequest, Guest!NoResult, NoResult

\* a read changes nothing the program can see, until its last access returns
\* the bytes of the request
LEMMA SimulateRead ==
  ASSUME RefinementInv,
         ReadInterpreted \/ ReadTraced \/ \E t \in traces : ReadCompiled(t)
  PROVE  Guest!Finish \/ UNCHANGED Guest!vars
<1> USE DEF RefinementInv
<1>1. /\ RequestOK(request) /\ request.op = "read" /\ request # Idle
      /\ mem' = mem
      /\ Received(mem[NextOffset])
  BY ReadSteps DEF Idle
<1>2. /\ request.n \in Nat /\ request.addr \in Nat /\ request.unit \in Nat
      /\ request.done \in Nat /\ request.addr + request.n <= Size
      /\ request.n >= 1
  <2>1. request.n \in {1, 2, 4, 8}  BY <1>1, NextAccess
  <2> QED  BY <1>1, <2>1 DEF RequestOK
<1>3. AbstractBytes = [b \in 0 .. Size - 1 |-> MemByte(b)]
  BY <1>1 DEF AbstractBytes, InFlight, MemByte
<1>4. CASE IsLastAccess(request)
  <2>1. /\ request' = Idle
        /\ result' = ReadResult(DataWith(request, mem[NextOffset]))
    BY <1>1, <1>4 DEF Received
  <2>2. AbstractBytes' = AbstractBytes
    <3>1. request'.op # "write"  BY <2>1 DEF Idle
    <3> QED  BY <1>1, <1>3, <3>1 DEF AbstractBytes, InFlight, MemByte
  <2>3. /\ AbstractRequest = [op |-> "read", addr |-> request.addr, n |-> request.n]
        /\ AbstractRequest' = [op |-> "idle"]
    BY <1>1, <2>1 DEF AbstractRequest
  <2>4. DataWith(request, mem[NextOffset]) =
          [i \in 0 .. request.n - 1 |-> AbstractBytes[FlatAt(request.addr, i)]]
    <3>1. DataWith(request, mem[NextOffset]) =
            [i \in 0 .. request.n - 1 |->
               DataWith(request, mem[NextOffset])[i]]
      <4>1. DOMAIN request.data = 0 .. request.n - 1
        BY <1>1 DEF RequestOK, Bytes
      <4> QED  BY <4>1 DEF DataWith
    <3>2. ASSUME NEW i \in 0 .. request.n - 1
          PROVE  DataWith(request, mem[NextOffset])[i] =
                   AbstractBytes[FlatAt(request.addr, i)]
      <4>1. request.addr + i \in 0 .. Size - 1
        BY <1>2, SizeAssumption
      <4>2. i \in request.n - request.done - request.unit .. request.n - 1
        BY <1>2, <1>4 DEF IsLastAccess
      <4>3. DataWith(request, mem[NextOffset])[i] = MemByte(request.addr + i)
        BY <1>1, <4>2, DataWithMemory
      <4> QED  BY <1>3, <4>1, <4>3 DEF FlatAt
    <3> QED  BY <3>1, <3>2
  <2>5. Guest!BackedUpTo(request.addr, request.n - 1)
    BY <1>2, AllBacked
  <2>6. result' = ReadResult([i \in 0 .. request.n - 1 |->
                                AbstractBytes[FlatAt(request.addr, i)]])
    BY <2>1, <2>4
  <2> QED  BY <2>2, <2>3, <2>5, <2>6
           DEF Guest!Finish, Guest!NoRequest, Guest!ReadResult, ReadResult
<1>5. CASE ~ IsLastAccess(request)
  <2>1. request' = [request EXCEPT !.done = @ + request.unit,
                                   !.data = DataWith(request, mem[NextOffset])]
        /\ UNCHANGED result
    BY <1>1, <1>5 DEF Received
  <2>2. /\ request'.op = "read" /\ request'.addr = request.addr
        /\ request'.n = request.n
    BY <1>1, <2>1 DEF RequestOK
  <2>3. request' # Idle  BY <2>2 DEF Idle
  <2>4. AbstractBytes' = AbstractBytes
    BY <1>1, <1>3, <2>2 DEF AbstractBytes, InFlight, MemByte
  <2>5. AbstractRequest' = AbstractRequest
    BY <1>1, <2>2, <2>3 DEF AbstractRequest
  <2> QED  BY <2>1, <2>4, <2>5 DEF Guest!vars
<1> QED  BY <1>4, <1>5

\* the word stored by a write holds the bytes of the next access, and the old
\* bytes elsewhere
LEMMA StoredBytes ==
  ASSUME TypeOK, RequestOK(request), Write, NEW b \in 0 .. Size - 1
  PROVE  MemByte(b)' =
           IF \E i \in NextIndices(request) : b = request.addr + i
           THEN request.data[b - request.addr]
           ELSE MemByte(b)
<1> DEFINE first == NextIndex(request)
           addr == request.addr + first
           start == InWordAddr(addr)
<1>1. /\ request.n \in Nat /\ request.unit \in Nat /\ first \in Nat
      /\ NextOffset \in Offset /\ addr \in 0 .. Size - 1
      /\ start \in InWord
      /\ first + request.unit <= request.n
      /\ start + request.unit <= WordBytes
  BY NextAccess DEF NextOffset
<1>2. request.addr \in Nat  BY DEF RequestOK
<1>3. mem' = [mem EXCEPT ![NextOffset] = WordWith(request, NextOffset)]
  BY DEF Write, WriteWord
<1>4. mem \in [Offset -> Word]  BY DEF TypeOK
<1>5. MemOffset(b) \in Offset /\ InWordAddr(b) \in InWord
      /\ b = MemOffset(b) * WordBytes + InWordAddr(b)
  BY WordsAreWhole
<1>6. addr = NextOffset * WordBytes + start
  BY <1>1, WordsAreWhole DEF NextOffset
<1>7. MemByte(b)' = IF MemOffset(b) = NextOffset
                    THEN WordWith(request, NextOffset)[InWordAddr(b)]
                    ELSE MemByte(b)
  BY <1>1, <1>3, <1>4, <1>5 DEF MemByte
<1>8. ASSUME NEW i \in NextIndices(request), b = request.addr + i
      PROVE  MemByte(b)' = request.data[b - request.addr]
  <2>1. /\ MemOffset(b) = NextOffset
        /\ InWordAddr(b) = start + i - first
    BY <1>8, NextBytes
  <2>2. InWordAddr(b) \in start .. start + request.unit - 1
    BY <1>1, <2>1 DEF NextIndices, InWord
  <2>3. WordWith(request, NextOffset)[InWordAddr(b)] =
          request.data[first + InWordAddr(b) - start]
    BY <1>5, <2>2 DEF WordWith
  <2>4. first + InWordAddr(b) - start = b - request.addr
    <3>1. i \in Int /\ start \in Int  BY <1>1 DEF NextIndices, InWord
    <3> QED  BY <1>1, <1>2, <1>8, <2>1, <3>1
  <2> HIDE DEF first, start, addr
  <2> QED  BY <1>7, <2>1, <2>3, <2>4
<1>9. ASSUME ~ \E i \in NextIndices(request) : b = request.addr + i
      PROVE  MemByte(b)' = MemByte(b)
  <2>1. CASE MemOffset(b) # NextOffset  BY <1>7, <2>1
  <2>2. CASE MemOffset(b) = NextOffset
    <3>1. b = addr - start + InWordAddr(b)
      <4> HIDE DEF addr, start
      <4>1. NextOffset \in Int /\ start \in Int /\ InWordAddr(b) \in Int
        BY <1>1, <1>5 DEF InWord, Offset
      <4>2. WordBytes \in Int  BY WordBytesAssumption
      <4> DEFINE w == NextOffset * WordBytes
      <4>3. w \in Int  BY <4>1, <4>2
      <4>4. b = w + InWordAddr(b) /\ addr = w + start
        BY <1>5, <1>6, <2>2
      <4> HIDE DEF w
      <4> QED  BY <4>1, <4>3, <4>4
    <3>2. InWordAddr(b) \notin start .. start + request.unit - 1
      <4>1. SUFFICES ASSUME InWordAddr(b) \in start .. start + request.unit - 1
                     PROVE  FALSE
        OBVIOUS
      <4> DEFINE i == first + InWordAddr(b) - start
      <4>2. start \in Int /\ InWordAddr(b) \in Int
        BY <1>1, <1>5 DEF InWord
      <4>3. i \in NextIndices(request) /\ b = request.addr + i
        BY <1>1, <1>2, <3>1, <4>1, <4>2 DEF NextIndices
      <4> QED  BY <1>9, <4>3
    <3>3. WordWith(request, NextOffset)[InWordAddr(b)]
            = mem[NextOffset][InWordAddr(b)]
      BY <1>5, <3>2 DEF WordWith
    <3> QED  BY <1>7, <2>2, <3>3 DEF MemByte
  <2> QED  BY <2>1, <2>2
<1> QED  BY <1>8, <1>9

\* a write step moves bytes that already counted as stored into the memory
LEMMA SimulateWrite ==
  ASSUME RefinementInv, Write
  PROVE  Guest!Finish \/ UNCHANGED Guest!vars
<1> USE DEF RefinementInv
<1>1. RequestOK(request) /\ request.op = "write" /\ request # Idle
  BY DEF Write, TypeOK, Idle
<1>2. /\ request.n \in Nat /\ request.addr \in Nat /\ request.unit \in Nat
      /\ request.done \in Nat /\ request.addr + request.n <= Size
      /\ request.done + request.unit <= request.n
  BY <1>1, NextAccess DEF RequestOK
<1>3. NextIndices(request) = request.done .. request.done + request.unit - 1
  BY <1>1 DEF NextIndices, NextIndex
<1>4. ASSUME NEW b \in 0 .. Size - 1
      PROVE  /\ b \in request.addr + request.done + request.unit
                        .. request.addr + request.n - 1
                  => AbstractBytes[b] = request.data[b - request.addr]
             /\ b \notin request.addr + request.done + request.unit
                           .. request.addr + request.n - 1
                  => AbstractBytes[b] = MemByte(b)'
  <2>1. b \in Nat  BY SizeAssumption
  <2>2. (\E i \in NextIndices(request) : b = request.addr + i)
          <=> b \in request.addr + request.done
                      .. request.addr + request.done + request.unit - 1
    <3>1. ASSUME b \in request.addr + request.done
                         .. request.addr + request.done + request.unit - 1
          PROVE  \E i \in NextIndices(request) : b = request.addr + i
      <4>1. b - request.addr \in NextIndices(request)
        BY <1>2, <1>3, <2>1, <3>1
      <4>2. b = request.addr + (b - request.addr)
        BY <1>2, <2>1
      <4> QED  BY <4>1, <4>2
    <3>2. ASSUME NEW i \in NextIndices(request), b = request.addr + i
          PROVE  b \in request.addr + request.done
                         .. request.addr + request.done + request.unit - 1
      BY <1>2, <1>3, <2>1, <3>2
    <3> QED  BY <3>1, <3>2
  <2>3. AbstractBytes[b] =
          IF b \in request.addr + request.done .. request.addr + request.n - 1
          THEN request.data[b - request.addr] ELSE MemByte(b)
    BY <1>1 DEF AbstractBytes, InFlight, MemByte
  <2>4. MemByte(b)' =
          IF b \in request.addr + request.done
                     .. request.addr + request.done + request.unit - 1
          THEN request.data[b - request.addr] ELSE MemByte(b)
    BY <1>1, <2>2, StoredBytes
  <2> QED  BY <1>2, <2>1, <2>3, <2>4
<1>5. CASE IsLastAccess(request)
  <2>1. request' = Idle /\ result' = WriteResult
    BY <1>5 DEF Write
  <2>2. AbstractBytes' = [b \in 0 .. Size - 1 |-> MemByte(b)']
    <3>1. request'.op # "write"  BY <2>1 DEF Idle
    <3> QED  BY <3>1 DEF AbstractBytes, InFlight, MemByte
  <2>3. AbstractBytes' = AbstractBytes
    <3>1. ASSUME NEW b \in 0 .. Size - 1
          PROVE  AbstractBytes[b] = MemByte(b)'
      <4>1. b \notin request.addr + request.done + request.unit
                       .. request.addr + request.n - 1
        BY <1>2, <1>5, SizeAssumption DEF IsLastAccess
      <4> QED  BY <1>4, <4>1
    <3> QED  BY <2>2, <3>1 DEF AbstractBytes
  <2>4. /\ AbstractRequest = [op |-> "write", addr |-> request.addr, n |-> request.n]
        /\ AbstractRequest' = [op |-> "idle"]
    BY <1>1, <2>1 DEF AbstractRequest
  <2>5. Guest!BackedUpTo(request.addr, request.n - 1)
    BY <1>2, AllBacked
  <2> QED  BY <2>1, <2>3, <2>4, <2>5
           DEF Guest!Finish, Guest!NoRequest, Guest!WriteResult, WriteResult
<1>6. CASE ~ IsLastAccess(request)
  <2>1. request' = [request EXCEPT !.done = @ + request.unit] /\ UNCHANGED result
    BY <1>6 DEF Write
  <2>2. /\ request'.op = "write" /\ request'.addr = request.addr
        /\ request'.n = request.n /\ request'.data = request.data
        /\ request'.done = request.done + request.unit
    <3>1. request.done + request.unit \in Nat  BY <1>2
    <3> QED  BY <1>1, <2>1, <3>1 DEF RequestOK
  <2>3. request' # Idle  BY <2>2 DEF Idle
  <2>4. AbstractBytes' =
          [b \in 0 .. Size - 1 |->
             IF b \in request.addr + (request.done + request.unit)
                        .. request.addr + request.n - 1
             THEN request.data[b - request.addr] ELSE MemByte(b)']
    BY <2>2 DEF AbstractBytes, InFlight, MemByte
  <2>5. AbstractBytes' = AbstractBytes
    <3>1. request.addr + (request.done + request.unit)
            = request.addr + request.done + request.unit
      BY <1>2
    <3> QED  BY <1>4, <2>4, <3>1 DEF AbstractBytes
  <2>6. AbstractRequest' = AbstractRequest
    BY <1>1, <2>2, <2>3 DEF AbstractRequest
  <2> QED  BY <2>1, <2>5, <2>6 DEF Guest!vars
<1> QED  BY <1>5, <1>6

(***************************************************************************)
(* The refinement.                                                         *)
(***************************************************************************)

LEMMA InitRefines == Init => RefinementInv /\ Guest!Init
<1> SUFFICES ASSUME Init PROVE RefinementInv /\ Guest!Init
  OBVIOUS
<1>1. RefinementInv
  BY InitType DEF Init, RefinementInv, TracesInv, TracesAgree, ReadsAgree, Idle
<1>2. AbstractBytes = [b \in 0 .. Size - 1 |-> 0]
  <2>1. request.op # "write"  BY DEF Init, Idle
  <2>2. ASSUME NEW b \in 0 .. Size - 1
        PROVE  mem[MemOffset(b)][InWordAddr(b)] = 0
    BY WordsAreWhole DEF Init
  <2> QED  BY <2>1, <2>2 DEF AbstractBytes, InFlight
<1>3. AbstractRequest = [op |-> "idle"] /\ result = NoResult
  BY DEF Init, AbstractRequest
<1> QED  BY <1>1, <1>2, <1>3 DEF Guest!Init, Guest!NoRequest, Guest!NoResult, NoResult

LEMMA NextRefines == RefinementInv /\ [Next]_vars => [Guest!Next]_(Guest!vars)
<1> SUFFICES ASSUME RefinementInv, [Next]_vars
             PROVE  Guest!Next \/ UNCHANGED Guest!vars
  OBVIOUS
<1>1. ASSUME NEW a \in Accesses, NEW executable \in BOOLEAN,
             StartRead(a[1], a[2], executable)
      PROVE  Guest!Next
  BY <1>1, SimulateStartRead DEF Guest!Next
<1>2. ASSUME NEW a \in Accesses, NEW data \in Bytes(a[2]),
             StartWrite(a[1], a[2], data)
      PROVE  Guest!Next
  <2>1. data \in Guest!Bytes(a[2])  BY DEF Bytes, Guest!Bytes
  <2> QED  BY <1>2, <2>1, SimulateStartWrite DEF Guest!Next
<1>3. CASE ReadInterpreted \/ ReadTraced \/ \E t \in traces : ReadCompiled(t)
  BY <1>3, SimulateRead DEF Guest!Next
<1>4. CASE Write
  BY <1>4, SimulateWrite DEF Guest!Next
<1>5. CASE UNCHANGED vars
  BY <1>5 DEF vars, Guest!vars, AbstractBytes, InFlight, AbstractRequest
<1> QED  BY <1>1, <1>2, <1>3, <1>4, <1>5 DEF Next

\* FlatMemory is a plain byte memory for the program that uses it, for every
\* size, whatever the JIT has compiled and whenever it runs the compiled code.
THEOREM FlatMemoryImplementsGuestMemory == Spec => ImplementsGuestMemory
<1>1. RefinementInv /\ [Next]_vars => RefinementInv'
  BY NextType, NextTraces, NextReads DEF RefinementInv
<1> QED  BY <1>1, InitRefines, NextRefines, PTL
         DEF Spec, ImplementsGuestMemory, Guest!Spec
=============================================================================
