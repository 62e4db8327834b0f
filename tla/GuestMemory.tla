---------------------------- MODULE GuestMemory ----------------------------
(***************************************************************************)
(* What every pydrofoil memory promises to the emulated machine: a plain   *)
(* array of bytes.  A read returns the bytes that were last written, in    *)
(* whatever way it is split, cached, or compiled away by the JIT.  A       *)
(* request that reaches an address that no segment backs fails with        *)
(* ValueError, and such a write has stored the bytes below the first       *)
(* unbacked one and nothing else.                                          *)
(*                                                                         *)
(* The detailed memories are shown to implement this specification; it is  *)
(* instantiated and not checked by itself.                                 *)
(***************************************************************************)
EXTENDS MemBase

CONSTANTS
  Backed,     \* the byte addresses that hold data
  Requests,   \* the <<address, width>> pairs a program may ask for
  At(_, _)    \* At(addr, i) is the address of byte i of an access at addr

VARIABLES
  bytes,      \* the contents of the backed addresses
  request,    \* the request in progress, or NoRequest
  result      \* the result of the last finished request

vars == <<bytes, request, result>>

NoRequest == [op |-> "idle"]

Init ==
  /\ bytes = [a \in Backed |-> 0]
  /\ request = NoRequest
  /\ result = NoResult

\* every byte of the access below index i, and byte i itself, is backed
BackedUpTo(addr, i) == \A j \in 0 .. i : At(addr, j) \in Backed

\* memory after storing the bytes of data below the first unbacked address
Stored(addr, n, data) ==
  [a \in Backed |->
     IF \E i \in 0 .. n - 1 : At(addr, i) = a /\ BackedUpTo(addr, i)
     THEN data[CHOOSE i \in 0 .. n - 1 : At(addr, i) = a]
     ELSE bytes[a]]

StartRead(addr, n) ==
  /\ request = NoRequest
  /\ request' = [op |-> "read", addr |-> addr, n |-> n]
  /\ result' = NoResult
  /\ UNCHANGED bytes

StartWrite(addr, n, data) ==
  /\ request = NoRequest
  /\ request' = [op |-> "write", addr |-> addr, n |-> n]
  /\ bytes' = Stored(addr, n, data)
  /\ result' = NoResult

Finish ==
  /\ request # NoRequest
  /\ request' = NoRequest
  /\ result' =
       IF ~ BackedUpTo(request.addr, request.n - 1) THEN Fault
       ELSE IF request.op = "write" THEN WriteResult
       ELSE ReadResult([i \in 0 .. request.n - 1 |->
                          bytes[At(request.addr, i)]])
  /\ UNCHANGED bytes

Next ==
  \/ \E r \in Requests : StartRead(r[1], r[2])
  \/ \E r \in Requests : \E data \in Bytes(r[2]) : StartWrite(r[1], r[2], data)
  \/ Finish

Spec == Init /\ [][Next]_vars
=============================================================================
