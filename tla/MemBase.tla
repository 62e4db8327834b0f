------------------------------ MODULE MemBase ------------------------------
(***************************************************************************)
(* What pydrofoil's memories have in common (class MemBase of mem.py): a   *)
(* request is either naturally aligned, and served by one aligned access   *)
(* of its whole width, or it is broken into one-byte accesses.             *)
(*                                                                         *)
(* A request in progress is a record.  data holds the bytes to write, or   *)
(* the bytes read so far; done counts the bytes already accessed; unit is  *)
(* the width of one access.  The machine is single threaded, so there is   *)
(* at most one request in progress, but a request that faults half way, or *)
(* that invalidates compiled code half way, is observable.                 *)
(***************************************************************************)
EXTENDS Integers

CONSTANTS
  Byte,    \* the values of a byte; the code has 0 .. 255
  Sizes    \* the widths of an access, in bytes; the code has {1, 2, 4, 8}

ASSUME ByteAssumption == 0 \in Byte
ASSUME SizesAssumption == Sizes \subseteq {1, 2, 4, 8} /\ 1 \in Sizes

\* little endian: index 0 is the byte at the lowest address
Bytes(n) == [0 .. n - 1 -> Byte]

IsAligned(addr, n) == addr % n = 0

\* mutant of Unit: unaligned requests are not broken into bytes
UnitUnchecked(addr, n) == n

Unit(addr, n) == IF IsAligned(addr, n) THEN n ELSE 1

Idle == [op |-> "idle"]

\* mutant of ReadRequest: the first access is skipped
ReadRequestSkips(addr, n, executable) ==
  [op |-> "read", addr |-> addr, n |-> n, executable |-> executable,
   unit |-> Unit(addr, n), done |-> Unit(addr, n),
   data |-> [i \in 0 .. n - 1 |-> 0]]

ReadRequest(addr, n, executable) ==
  [op |-> "read", addr |-> addr, n |-> n, executable |-> executable,
   unit |-> Unit(addr, n), done |-> 0, data |-> [i \in 0 .. n - 1 |-> 0]]

WriteRequest(addr, n, data) ==
  [op |-> "write", addr |-> addr, n |-> n, executable |-> FALSE,
   unit |-> Unit(addr, n), done |-> 0, data |-> data]

\* reads go from the highest byte down, writes from the lowest byte up
NextIndex(req) ==
  IF req.op = "read" THEN req.n - req.done - req.unit ELSE req.done

\* the indices of the bytes the next access of the request touches
NextIndices(req) == NextIndex(req) .. NextIndex(req) + req.unit - 1

IsLastAccess(req) == req.done + req.unit = req.n

\* the result register: what the last finished request returned
NoResult == [kind |-> "none"]
ReadResult(data) == [kind |-> "value", data |-> data]
WriteResult == [kind |-> "written"]
Fault == [kind |-> "ValueError"]
=============================================================================
