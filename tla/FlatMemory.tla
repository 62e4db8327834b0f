----------------------------- MODULE FlatMemory -----------------------------
(***************************************************************************)
(* FlatMemory of pydrofoil/mem.py: guest memory as one array of words,     *)
(* with the per-word status that lets the tracing JIT treat words that are *)
(* executed, and not written, as constants.                                *)
(*                                                                         *)
(* The JIT belongs to RPython and is modelled by what mem.py relies on:    *)
(*  - a call of an elidable function with constant arguments may be        *)
(*    replaced by the result it had when the loop was traced; here such a  *)
(*    loop is a record in traces, and any number of them may exist;        *)
(*  - a loop that read the quasi-immutable field version is entered only   *)
(*    while version is still the object it saw;                            *)
(*  - a call marked not_in_trace happens in the interpreter and during     *)
(*    tracing, but not in the compiled loop.                               *)
(***************************************************************************)
EXTENDS MemBase, FiniteSets

CONSTANTS
  Size,       \* bytes of memory; a multiple of WordBytes
  WordBytes,  \* bytes in a word; the code has 8
  MaxTraces   \* bound: how many compiled loops are kept

ASSUME WordBytesAssumption == WordBytes \in {2, 4, 8}
ASSUME SizesFitAssumption == \A n \in Sizes : n <= WordBytes
ASSUME SizeAssumption == Size \in Nat \ {0} /\ Size % WordBytes = 0
ASSUME MaxTracesAssumption == MaxTraces \in Nat

VARIABLES
  mem,      \* the words
  status,   \* the status of each word
  version,  \* the identity of the current Version object
  traces,   \* the compiled loops: what each of them folded
  request,  \* the request in progress, or Idle
  result    \* what the last finished request returned

memVars == <<mem, status, version>>
vars == <<mem, status, version, traces, request, result>>

Normal == "n"
Immutable == "i"
Mutable == "m"

Offset == 0 .. (Size \div WordBytes) - 1
InWord == 0 .. WordBytes - 1
Word == [InWord -> Byte]

\* the word and the byte in the word of an address
MemOffset(addr) == addr \div WordBytes
InWordAddr(addr) == addr % WordBytes

Accesses == {a \in (0 .. Size - 1) \X Sizes : a[1] + a[2] <= Size}

-----------------------------------------------------------------------------
(***************************************************************************)
(* One aligned access, at the word it falls in.                            *)
(***************************************************************************)

\* mutant of Marked: a MUTABLE word becomes IMMUTABLE again
MarkedAgain(off) == [status EXCEPT ![off] = Immutable]

\* mark_word_immutable: a word that is executed stops being NORMAL
Marked(off) ==
  [status EXCEPT ![off] = IF @ = Normal THEN Immutable ELSE @]

\* what a loop compiled from an instruction fetch at off has folded
Trace(off) ==
  [off |-> off, version |-> version, status |-> Marked(off)[off],
   data |-> mem[off]]

\* a read by the interpreter
InterpretedRead(off, executable) ==
  /\ status' = IF executable THEN Marked(off) ELSE status
  /\ UNCHANGED <<mem, version, traces>>

\* an instruction fetch while a loop is being traced
TracedRead(off) ==
  /\ Cardinality(traces) < MaxTraces
  /\ status' = Marked(off)
  /\ traces' = traces \union {Trace(off)}
  /\ UNCHANGED <<mem, version>>

\* the word an instruction fetch sees inside the compiled loop t: the folded
\* constant if the status folded to IMMUTABLE; otherwise the word is loaded
\* (and compared with the traced one: the loop is left when they differ)
CompiledWord(t) == IF t.status = Immutable THEN t.data ELSE mem[t.off]

CompiledRead(t) ==
  /\ t.version = version
  /\ UNCHANGED <<mem, status, version, traces>>

\* mutant of WriteWord: the version is kept
WriteWordKeepsVersion(off, word) ==
  /\ mem' = [mem EXCEPT ![off] = word]
  /\ status' = [status EXCEPT ![off] = IF @ = Immutable THEN Mutable ELSE @]
  /\ UNCHANGED <<version, traces>>

\* mutant of WriteWord: the status is not looked at
WriteWordInvalidatesAll(off, word) ==
  /\ mem' = [mem EXCEPT ![off] = word]
  /\ IF mem[off] # word
     THEN /\ status' = [status EXCEPT ![off] = Mutable]
          /\ version' = version + 1
     ELSE UNCHANGED <<status, version>>
  /\ UNCHANGED traces

\* _write_word with _invalidate
WriteWord(off, word) ==
  /\ mem' = [mem EXCEPT ![off] = word]
  /\ IF status[off] = Immutable /\ mem[off] # word
     THEN /\ status' = [status EXCEPT ![off] = Mutable]
          /\ version' = version + 1
     ELSE UNCHANGED <<status, version>>
  /\ UNCHANGED traces

\* mutant of WordWith: the rest of the word is not read first
WordWithZeros(req, off) ==
  LET addr == req.addr + NextIndex(req)
  IN  [b \in InWord |->
         IF b \in InWordAddr(addr) .. InWordAddr(addr) + req.unit - 1
         THEN req.data[NextIndex(req) + b - InWordAddr(addr)]
         ELSE 0]

\* the word at off with the bytes of the request's next access put in
WordWith(req, off) ==
  LET addr == req.addr + NextIndex(req)
  IN  [b \in InWord |->
         IF b \in InWordAddr(addr) .. InWordAddr(addr) + req.unit - 1
         THEN req.data[NextIndex(req) + b - InWordAddr(addr)]
         ELSE mem[off][b]]

\* the request's data with the bytes of its next access taken from word
DataWith(req, word) ==
  LET addr == req.addr + NextIndex(req)
  IN  [i \in DOMAIN req.data |->
         IF i \in NextIndices(req)
         THEN word[InWordAddr(addr) + i - NextIndex(req)]
         ELSE req.data[i]]

-----------------------------------------------------------------------------
(***************************************************************************)
(* read and write of MemBase on top of the aligned accesses.               *)
(***************************************************************************)

Init ==
  /\ mem = [off \in Offset |-> [b \in InWord |-> 0]]
  /\ status = [off \in Offset |-> Normal]
  /\ version = 0
  /\ traces = {}
  /\ request = Idle
  /\ result = NoResult

StartRead(addr, n, executable) ==
  /\ request = Idle
  /\ request' = ReadRequest(addr, n, executable)
  /\ result' = NoResult
  /\ UNCHANGED <<memVars, traces>>

StartWrite(addr, n, data) ==
  /\ request = Idle
  /\ request' = WriteRequest(addr, n, data)
  /\ result' = NoResult
  /\ UNCHANGED <<memVars, traces>>

NextOffset == MemOffset(request.addr + NextIndex(request))

\* the access returned word: go on with the next byte or return the value
Received(word) ==
  IF IsLastAccess(request)
  THEN /\ request' = Idle
       /\ result' = ReadResult(DataWith(request, word))
  ELSE /\ request' = [request EXCEPT !.done = @ + request.unit,
                                     !.data = DataWith(request, word)]
       /\ UNCHANGED result

ReadInterpreted ==
  /\ request.op = "read"
  /\ InterpretedRead(NextOffset, request.executable)
  /\ Received(mem[NextOffset])

ReadTraced ==
  /\ request.op = "read"
  /\ request.executable
  /\ TracedRead(NextOffset)
  /\ Received(mem[NextOffset])

ReadCompiled(t) ==
  /\ request.op = "read"
  /\ request.executable
  /\ t.off = NextOffset
  /\ CompiledRead(t)
  /\ Received(CompiledWord(t))

Write ==
  /\ request.op = "write"
  /\ WriteWord(NextOffset, WordWith(request, NextOffset))
  /\ IF IsLastAccess(request)
     THEN request' = Idle /\ result' = WriteResult
     ELSE /\ request' = [request EXCEPT !.done = @ + request.unit]
          /\ UNCHANGED result

Next ==
  \/ \E a \in Accesses, executable \in BOOLEAN :
       StartRead(a[1], a[2], executable)
  \/ \E a \in Accesses : \E data \in Bytes(a[2]) : StartWrite(a[1], a[2], data)
  \/ ReadInterpreted
  \/ ReadTraced
  \/ \E t \in traces : ReadCompiled(t)
  \/ Write

Spec == Init /\ [][Next]_vars

-----------------------------------------------------------------------------
(***************************************************************************)
(* Properties.                                                             *)
(***************************************************************************)

\* a request in progress stays inside the memory
RequestOK(req) ==
  /\ req \in [op : {"read", "write"}, addr : Nat, n : Sizes,
              executable : BOOLEAN, unit : Nat, done : Nat,
              data : UNION {Bytes(n) : n \in Sizes}]
  /\ req.addr + req.n <= Size
  /\ req.unit = Unit(req.addr, req.n)
  /\ req.done + req.unit <= req.n
  /\ req.data \in Bytes(req.n)

\* The type invariant of the memory of mem.py: every word has one of the
\* three statuses, and the request in progress stays inside the memory.
TypeOK ==
  /\ mem \in [Offset -> Word]
  /\ status \in [Offset -> {Normal, Immutable, Mutable}]
  /\ version \in Nat
  /\ traces \subseteq [off : Offset, version : Nat,
                       status : {Immutable, Mutable}, data : Word]
  /\ request = Idle \/ RequestOK(request)
  /\ \/ result \in {NoResult, WriteResult}
     \/ \E n \in Sizes : \E data \in Bytes(n) : result = ReadResult(data)

\* A loop the JIT may still enter agrees with the memory: the status it
\* folded is the word's status, and if it folded the word's contents they are
\* the word's contents (the contract of the two elidable functions
\* _immutable_read and _get_status_word, per offset and version).
TracesAgree ==
  \A t \in traces :
    t.version = version =>
      /\ status[t.off] = t.status
      /\ t.status = Immutable => t.data = mem[t.off]

\* Compiled code is thrown away at most once per word: versions are used up
\* only by words that have become MUTABLE, which they stay (mem.py:57-60).
VersionsCountMutableWords ==
  version = Cardinality({off \in Offset : status[off] = Mutable})

\* The transitions of mem.py:57-60: a word only moves NORMAL -> IMMUTABLE ->
\* MUTABLE, the version changes exactly when a word leaves IMMUTABLE, and a
\* word's contents change without a new version only if it is not IMMUTABLE.
StatusTransitions ==
  [][ /\ \A off \in Offset :
           \/ status'[off] = status[off]
           \/ status[off] = Normal /\ status'[off] = Immutable
           \/ status[off] = Immutable /\ status'[off] = Mutable
      /\ version' # version <=>
           \E off \in Offset : status[off] = Immutable /\ status'[off] = Mutable
      /\ \A off \in Offset :
           status[off] = Immutable /\ mem'[off] # mem[off] => version' # version
    ]_vars

(***************************************************************************)
(* Refinement: the abstract write happens when the request starts, so the  *)
(* bytes still to be written already count as stored.                      *)
(***************************************************************************)

InFlight(a) ==
  /\ request.op = "write"
  /\ a \in request.addr + request.done .. request.addr + request.n - 1

AbstractBytes ==
  [a \in 0 .. Size - 1 |->
     IF InFlight(a) THEN request.data[a - request.addr]
                    ELSE mem[MemOffset(a)][InWordAddr(a)]]

AbstractRequest ==
  IF request = Idle THEN [op |-> "idle"]
  ELSE [op |-> request.op, addr |-> request.addr, n |-> request.n]

FlatAt(addr, i) == addr + i

Guest == INSTANCE GuestMemory WITH
           Backed <- 0 .. Size - 1, Requests <- Accesses, At <- FlatAt,
           bytes <- AbstractBytes, request <- AbstractRequest, result <- result

\* FlatMemory is a plain byte memory: statuses, versions, folded loads and
\* bytewise accesses are invisible to the program (test_mem.py checks this
\* for the interpreter only).
ImplementsGuestMemory == Guest!Spec
=============================================================================
