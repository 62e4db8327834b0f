---------------------------- MODULE SplitMemory ----------------------------
(***************************************************************************)
(* SplitMemory of pydrofoil/mem.py: an address space backed by two         *)
(* FlatMemory segments (the RISC-V emulator puts its ROM and its RAM       *)
(* there).  An access is routed by the address it starts at, and fails     *)
(* with ValueError if no segment claims that address; an unaligned request *)
(* is routed byte by byte, so it may be served by both segments, and may   *)
(* fail after some of its bytes were accessed.                             *)
(*                                                                         *)
(* Addresses are machine words: they wrap around, and those with the       *)
(* highest bit set ("huge") belong to no segment.                          *)
(***************************************************************************)
EXTENDS MemBase, FiniteSets

CONSTANTS
  AddressBits,  \* width of an address; the code has 64
  WordBytes,    \* bytes in a word; the code has 8
  Size1, Size2, \* bytes in the two segments
  Base1, Base2  \* where the segments start

HugeAddr == 2 ^ (AddressBits - 1)
Addr == 0 .. 2 * HugeAddr - 1

ASSUME AddressBitsAssumption == AddressBits \in Nat \ {0}
ASSUME WordBytesAssumption ==
  WordBytes \in {2, 4, 8} /\ \A n \in Sizes : n <= WordBytes
\* the assertions of __init__
ASSUME SegmentsAssumption ==
  /\ {Base1, Size1, Base2, Size2} \subseteq Nat
  /\ Base1 % WordBytes = 0 /\ Size1 % WordBytes = 0 /\ Base1 + Size1 < HugeAddr
  /\ Base2 % WordBytes = 0 /\ Size2 % WordBytes = 0 /\ Base2 + Size2 < HugeAddr

VARIABLES
  mem1, status1, version1,
  mem2, status2, version2,
  request,
  result

vars == <<mem1, status1, version1, mem2, status2, version2,
          request, result>>
segment1Vars == <<mem1, status1, version1>>
segment2Vars == <<mem2, status2, version2>>

\* the segments; what the JIT folds is the subject of FlatMemory alone
Mem1 == INSTANCE FlatMemory WITH
          Size <- Size1, MaxTraces <- 0, mem <- mem1, status <- status1,
          version <- version1, traces <- {}
Mem2 == INSTANCE FlatMemory WITH
          Size <- Size2, MaxTraces <- 0, mem <- mem2, status <- status2,
          version <- version2, traces <- {}

At(addr, i) == (addr + i) % (2 * HugeAddr)

NextAddr == At(request.addr, NextIndex(request))

-----------------------------------------------------------------------------
(***************************************************************************)
(* Routing.                                                                *)
(***************************************************************************)

NotHuge(addr) == addr < HugeAddr

\* check_mem1, or check_mem1_fast when the segment starts at address 0
InMem1(addr) ==
  /\ NotHuge(addr)
  /\ Base1 # 0 => Base1 <= addr
  /\ addr < Base1 + Size1

\* check_mem2, which is asked only when the first segment declined
InMem2(addr) ==
  /\ ~ InMem1(addr)
  /\ NotHuge(addr)
  /\ Base2 <= addr
  /\ addr < Base2 + Size2

\* the request with its next access at the address the segment sees
Local(base) == [request EXCEPT !.addr = NextAddr - base - NextIndex(request)]
LocalOffset(base) == (NextAddr - base) \div WordBytes

-----------------------------------------------------------------------------
Init ==
  /\ Mem1!Init
  /\ Mem2!Init

StartRead(addr, n, executable) ==
  /\ request = Idle
  /\ request' = ReadRequest(addr, n, executable)
  /\ result' = NoResult
  /\ UNCHANGED <<segment1Vars, segment2Vars>>

StartWrite(addr, n, data) ==
  /\ request = Idle
  /\ request' = WriteRequest(addr, n, data)
  /\ result' = NoResult
  /\ UNCHANGED <<segment1Vars, segment2Vars>>

\* the access was served and returned data: next byte, or return to the caller
Served(data, finished) ==
  IF IsLastAccess(request)
  THEN request' = Idle /\ result' = finished
  ELSE /\ request' = [request EXCEPT !.done = @ + request.unit, !.data = data]
       /\ UNCHANGED result

ReadMem1 ==
  LET off == LocalOffset(Base1)
      data == Mem1!DataWith(Local(Base1), mem1[off])
  IN  /\ request.op = "read"
      /\ InMem1(NextAddr)
      /\ Mem1!InterpretedRead(off, request.executable)
      /\ Served(data, ReadResult(data))
      /\ UNCHANGED segment2Vars

ReadMem2 ==
  LET off == LocalOffset(Base2)
      data == Mem2!DataWith(Local(Base2), mem2[off])
  IN  /\ request.op = "read"
      /\ InMem2(NextAddr)
      /\ Mem2!InterpretedRead(off, request.executable)
      /\ Served(data, ReadResult(data))
      /\ UNCHANGED segment1Vars

WriteMem1 ==
  LET off == LocalOffset(Base1)
  IN  /\ request.op = "write"
      /\ InMem1(NextAddr)
      /\ Mem1!WriteWord(off, Mem1!WordWith(Local(Base1), off))
      /\ Served(request.data, WriteResult)
      /\ UNCHANGED segment2Vars

WriteMem2 ==
  LET off == LocalOffset(Base2)
  IN  /\ request.op = "write"
      /\ InMem2(NextAddr)
      /\ Mem2!WriteWord(off, Mem2!WordWith(Local(Base2), off))
      /\ Served(request.data, WriteResult)
      /\ UNCHANGED segment1Vars

\* mutant of AccessFault: the error is swallowed
AccessFaultIgnored ==
  /\ request # Idle
  /\ ~ InMem1(NextAddr)
  /\ ~ InMem2(NextAddr)
  /\ request' = Idle
  /\ result' = WriteResult
  /\ UNCHANGED <<segment1Vars, segment2Vars>>

\* raise ValueError: nothing is undone
AccessFault ==
  /\ request # Idle
  /\ ~ InMem1(NextAddr)
  /\ ~ InMem2(NextAddr)
  /\ request' = Idle
  /\ result' = Fault
  /\ UNCHANGED <<segment1Vars, segment2Vars>>

Next ==
  \/ \E addr \in Addr, n \in Sizes, executable \in BOOLEAN :
       StartRead(addr, n, executable)
  \/ \E addr \in Addr, n \in Sizes : \E data \in Bytes(n) :
       StartWrite(addr, n, data)
  \/ ReadMem1
  \/ ReadMem2
  \/ WriteMem1
  \/ WriteMem2
  \/ AccessFault

Spec == Init /\ [][Next]_vars

-----------------------------------------------------------------------------
(***************************************************************************)
(* Properties.                                                             *)
(***************************************************************************)

\* An access that a segment accepted, because its first byte is inside, is
\* inside the segment with all its bytes: FlatMemory checks no bounds itself.
AccessesStayInside ==
  request # Idle =>
    LET accessed == {NextAddr + i : i \in 0 .. request.unit - 1}
    IN  /\ InMem1(NextAddr) => accessed \subseteq Base1 .. Base1 + Size1 - 1
        /\ InMem2(NextAddr) => accessed \subseteq Base2 .. Base2 + Size2 - 1

(***************************************************************************)
(* Refinement.                                                             *)
(***************************************************************************)

\* the byte that a segment holds for an address
SegmentByte(a) ==
  IF InMem1(a)
  THEN mem1[Mem1!MemOffset(a - Base1)][Mem1!InWordAddr(a - Base1)]
  ELSE mem2[Mem2!MemOffset(a - Base2)][Mem2!InWordAddr(a - Base2)]

Backed == {a \in Addr : InMem1(a) \/ InMem2(a)}

\* a byte that a write in progress has yet to store, and will reach
InFlight(a, i) ==
  /\ request.op = "write"
  /\ i \in request.done .. request.n - 1
  /\ At(request.addr, i) = a
  /\ \A j \in 0 .. i : At(request.addr, j) \in Backed

AbstractBytes ==
  [a \in Backed |->
     IF request # Idle /\ \E i \in 0 .. request.n - 1 : InFlight(a, i)
     THEN request.data[CHOOSE i \in 0 .. request.n - 1 : InFlight(a, i)]
     ELSE SegmentByte(a)]

AbstractRequest ==
  IF request = Idle THEN [op |-> "idle"]
  ELSE [op |-> request.op, addr |-> request.addr, n |-> request.n]

Guest == INSTANCE GuestMemory WITH
           Requests <- Addr \X Sizes, bytes <- AbstractBytes,
           request <- AbstractRequest

\* SplitMemory is a byte memory with holes: routing, requests that straddle
\* two segments, wrap around or run into a hole included.
ImplementsGuestMemory == Guest!Spec
=============================================================================
