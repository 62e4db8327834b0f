------------------------- MODULE SplitMemoryProofs -------------------------
(***************************************************************************)
(* Proofs about SplitMemory, for every width of an address, every word     *)
(* width and every two segments that its constructor accepts.              *)
(***************************************************************************)
EXTENDS SplitMemory, TLAPS

\* what routing relies on of a request in progress
RequestInv ==
  request # Idle =>
    /\ DOMAIN request = {"op", "addr", "n", "executable", "unit", "done", "data"}
    /\ request.op \in {"read", "write"}
    /\ request.addr \in Addr /\ request.n \in Sizes
    /\ request.unit = Unit(request.addr, request.n)
    /\ request.done \in Nat
    /\ request.done + request.unit <= request.n

LEMMA Constants ==
  /\ {Base1, Size1, Base2, Size2} \subseteq Nat
  /\ HugeAddr \in Nat \ {0}
  /\ WordBytes \in {2, 4, 8}
  /\ \A n \in Sizes : n \in {1, 2, 4, 8} /\ n <= WordBytes
<1>1. HugeAddr \in Int
  BY AddressBitsAssumption DEF HugeAddr
<1> HIDE DEF HugeAddr
<1>2. {Base1, Size1} \subseteq Nat /\ Base1 + Size1 < HugeAddr
  BY SegmentsAssumption
<1>3. HugeAddr \in Nat \ {0}
  BY <1>1, <1>2
<1> QED
  BY <1>3, SegmentsAssumption, WordBytesAssumption, SizesAssumption

\* an aligned access that starts before the end of a segment ends before it
LEMMA AlignedEndsInside ==
  ASSUME NEW a \in Nat, NEW n \in Sizes, a % n = 0,
         NEW end \in Nat, end % WordBytes = 0, a < end
  PROVE  a + n <= end
<1>0. n \in {1, 2, 4, 8} /\ n <= WordBytes /\ WordBytes \in {2, 4, 8}
  BY Constants
<1>1. CASE WordBytes = 2  BY <1>0, <1>1
<1>2. CASE WordBytes = 4  BY <1>0, <1>2
<1>3. CASE WordBytes = 8  BY <1>0, <1>3
<1> QED  BY <1>0, <1>1, <1>2, <1>3

\* the end of a segment is the end of a word
LEMMA SegmentsEndOnWords ==
  /\ (Base1 + Size1) % WordBytes = 0
  /\ (Base2 + Size2) % WordBytes = 0
<1>0. /\ Base1 \in Nat /\ Size1 \in Nat /\ Base2 \in Nat /\ Size2 \in Nat
      /\ Base1 % WordBytes = 0 /\ Size1 % WordBytes = 0
      /\ Base2 % WordBytes = 0 /\ Size2 % WordBytes = 0
  BY SegmentsAssumption
<1>1. CASE WordBytes = 2  BY <1>0, <1>1
<1>2. CASE WordBytes = 4  BY <1>0, <1>2
<1>3. CASE WordBytes = 8  BY <1>0, <1>3
<1> QED  BY <1>1, <1>2, <1>3, Constants

\* the address of an access, and that an access of several bytes is aligned
LEMMA NextAccess ==
  ASSUME RequestInv, request # Idle
  PROVE  /\ NextAddr \in Nat
         /\ \/ request.unit = 1
            \/ request.unit \in Sizes /\ NextAddr % request.unit = 0
<1>1. /\ request.addr \in Addr /\ request.n \in Sizes
      /\ request.n \in {1, 2, 4, 8}
      /\ request.unit = Unit(request.addr, request.n)
      /\ request.done \in Nat
      /\ request.done + request.unit <= request.n
  BY Constants DEF RequestInv
<1>2. request.unit = 1 \/ (request.unit = request.n /\ request.addr % request.n = 0)
  BY <1>1 DEF Unit, IsAligned
<1>3. NextIndex(request) \in Nat
  BY <1>1, <1>2 DEF NextIndex
<1>4. request.addr \in Nat /\ request.addr < 2 * HugeAddr /\ HugeAddr \in Nat \ {0}
  <2>1. HugeAddr \in Nat \ {0}  BY Constants
  <2> HIDE DEF HugeAddr
  <2> QED  BY <1>1, <2>1 DEF Addr
<1> HIDE DEF HugeAddr
<1>5. NextAddr \in Nat
  BY <1>3, <1>4 DEF NextAddr, At
<1>6. CASE request.unit # 1
  <2>1. request.unit = request.n /\ request.addr % request.n = 0
    BY <1>2, <1>6
  <2>2. NextIndex(request) = 0
    BY <1>1, <2>1 DEF NextIndex
  <2>3. NextAddr = request.addr
    BY <1>4, <2>2 DEF NextAddr, At
  <2> QED  BY <1>1, <1>5, <2>1, <2>3
<1> QED  BY <1>5, <1>6

LEMMA InvInside == RequestInv => AccessesStayInside
<1> SUFFICES ASSUME RequestInv, request # Idle
             PROVE  \A i \in 0 .. request.unit - 1 :
                      /\ InMem1(NextAddr) => NextAddr + i \in Base1 .. Base1 + Size1 - 1
                      /\ InMem2(NextAddr) => NextAddr + i \in Base2 .. Base2 + Size2 - 1
  BY DEF AccessesStayInside
<1> TAKE i \in 0 .. request.unit - 1
<1>0. /\ Base1 \in Nat /\ Size1 \in Nat /\ Base2 \in Nat /\ Size2 \in Nat
  BY Constants
<1>1. NextAddr \in Nat
  BY NextAccess
<1>2. ASSUME NEW end \in Nat, end % WordBytes = 0, NextAddr < end
      PROVE  i \in Nat /\ NextAddr + i < end
  <2>1. CASE request.unit = 1
    BY <1>1, <1>2, <2>1
  <2>2. CASE request.unit \in Sizes /\ NextAddr % request.unit = 0
    <3>1. NextAddr + request.unit <= end
      BY <1>1, <1>2, <2>2, AlignedEndsInside
    <3>2. request.unit \in Nat
      BY <2>2, Constants
    <3> QED  BY <1>1, <3>1, <3>2
  <2> QED  BY <2>1, <2>2, NextAccess
<1>3. ASSUME InMem1(NextAddr)
      PROVE  NextAddr + i \in Base1 .. Base1 + Size1 - 1
  <2>1. Base1 <= NextAddr /\ NextAddr < Base1 + Size1
    BY <1>0, <1>1, <1>3 DEF InMem1
  <2>2. i \in Nat /\ NextAddr + i < Base1 + Size1
    BY <1>0, <1>2, <2>1, SegmentsEndOnWords
  <2> QED  BY <1>0, <1>1, <2>1, <2>2
<1>4. ASSUME InMem2(NextAddr)
      PROVE  NextAddr + i \in Base2 .. Base2 + Size2 - 1
  <2>1. Base2 <= NextAddr /\ NextAddr < Base2 + Size2
    BY <1>4 DEF InMem2
  <2>2. i \in Nat /\ NextAddr + i < Base2 + Size2
    BY <1>0, <1>2, <2>1, SegmentsEndOnWords
  <2> QED  BY <1>0, <1>1, <2>1, <2>2
<1> QED  BY <1>3, <1>4

\* a request that was just broken into accesses
LEMMA StartInv ==
  ASSUME NEW addr \in Addr, NEW n \in Sizes, NEW executable, NEW data,
         \/ request' = ReadRequest(addr, n, executable)
         \/ request' = WriteRequest(addr, n, data)
  PROVE  RequestInv'
<1>1. n \in {1, 2, 4, 8}
  BY Constants
<1>2. Unit(addr, n) \in 1 .. n
  BY <1>1 DEF Unit
<1>3. /\ DOMAIN request' = {"op", "addr", "n", "executable", "unit", "done", "data"}
      /\ request'.op \in {"read", "write"}
      /\ request'.addr = addr /\ request'.n = n
      /\ request'.unit = Unit(addr, n) /\ request'.done = 0
  BY DEF ReadRequest, WriteRequest
<1>4. 0 + Unit(addr, n) <= n
  BY <1>1, <1>2
<1> QED  BY <1>3, <1>4 DEF RequestInv

\* one access of a request: what is left of it is within the request
LEMMA ServedInv ==
  ASSUME RequestInv, request # Idle, NEW data, NEW finished, Served(data, finished)
  PROVE  RequestInv'
<1>1. /\ DOMAIN request = {"op", "addr", "n", "executable", "unit", "done", "data"}
      /\ request.op \in {"read", "write"}
      /\ request.addr \in Addr /\ request.n \in Sizes /\ request.n \in {1, 2, 4, 8}
      /\ request.unit = Unit(request.addr, request.n)
      /\ request.unit = request.n \/ request.unit = 1
      /\ request.done \in Nat
      /\ request.done + request.unit <= request.n
  BY Constants DEF RequestInv, Unit
<1>2. CASE IsLastAccess(request)
  BY <1>2 DEF Served, RequestInv
<1>3. CASE ~ IsLastAccess(request)
  <2>1. request' = [request EXCEPT !.done = @ + request.unit, !.data = data]
    BY <1>3 DEF Served
  <2>2. /\ DOMAIN request' = DOMAIN request
        /\ request'.op = request.op /\ request'.addr = request.addr
        /\ request'.n = request.n /\ request'.unit = request.unit
        /\ request'.done = request.done + request.unit
    BY <1>1, <2>1
  <2>3. /\ request.done + request.unit \in Nat
        /\ request.done + request.unit + request.unit <= request.n
    BY <1>1, <1>3 DEF IsLastAccess
  <2> QED  BY <1>1, <2>2, <2>3 DEF RequestInv
<1> QED  BY <1>2, <1>3

LEMMA NextInv == RequestInv /\ [Next]_vars => RequestInv'
<1> SUFFICES ASSUME RequestInv, [Next]_vars PROVE RequestInv'
  OBVIOUS
<1>1. ASSUME NEW addr \in Addr, NEW n \in Sizes, NEW executable \in BOOLEAN,
             StartRead(addr, n, executable)
      PROVE  RequestInv'
  BY <1>1, StartInv DEF StartRead
<1>2. ASSUME NEW addr \in Addr, NEW n \in Sizes, NEW data \in Bytes(n),
             StartWrite(addr, n, data)
      PROVE  RequestInv'
  BY <1>2, StartInv DEF StartWrite
<1>3. CASE ReadMem1
  <2>1. request # Idle  BY <1>3 DEF ReadMem1, Idle
  <2>2. PICK data, finished : Served(data, finished)  BY <1>3 DEF ReadMem1
  <2> QED  BY <2>1, <2>2, ServedInv
<1>4. CASE ReadMem2
  <2>1. request # Idle  BY <1>4 DEF ReadMem2, Idle
  <2>2. PICK data, finished : Served(data, finished)  BY <1>4 DEF ReadMem2
  <2> QED  BY <2>1, <2>2, ServedInv
<1>5. CASE WriteMem1
  <2>1. request # Idle  BY <1>5 DEF WriteMem1, Idle
  <2> QED  BY <1>5, <2>1, ServedInv DEF WriteMem1
<1>6. CASE WriteMem2
  <2>1. request # Idle  BY <1>6 DEF WriteMem2, Idle
  <2> QED  BY <1>6, <2>1, ServedInv DEF WriteMem2
<1>7. CASE AccessFault
  BY <1>7 DEF AccessFault, RequestInv
<1>8. CASE UNCHANGED vars
  BY <1>8 DEF vars, RequestInv, Unit, IsAligned
<1> QED  BY <1>1, <1>2, <1>3, <1>4, <1>5, <1>6, <1>7, <1>8 DEF Next

\* For every two aligned segments: an access that SplitMemory routes to a
\* segment because its first byte is inside has all its bytes inside, so the
\* FlatMemory that gets it, which checks no bounds, is never left.
THEOREM RoutedAccessesInside == Spec => []AccessesStayInside
<1>1. Init => RequestInv
  BY DEF Init, Mem1!Init, Mem1!Idle, Idle, RequestInv
<1> QED  BY <1>1, NextInv, InvInside, PTL DEF Spec

-----------------------------------------------------------------------------
(***************************************************************************)
(* SplitMemory, with its routing, its requests in pieces and its faults,   *)
(* implements the byte memory of GuestMemory.                              *)
(***************************************************************************)
\* the byte that words hold for address a, if the first of them is at base
ByteIn(words, base, a) == words[(a - base) \div WordBytes][(a - base) % WordBytes]

(***************************************************************************)
(* The addresses of a request.                                             *)
(***************************************************************************)

LEMMA Wrapping ==
  ASSUME NEW m \in Nat \ {0}, NEW x \in 0 .. m - 1, NEW i \in 0 .. m - 1
  PROVE  (x + i) % m = IF x + i < m THEN x + i ELSE x + i - m
OBVIOUS

LEMMA InMem1Is ==
  ASSUME NEW a \in Nat
  PROVE  InMem1(a) <=> a \in Base1 .. Base1 + Size1 - 1
<1>1. /\ Base1 \in Nat /\ Size1 \in Nat /\ HugeAddr \in Nat
      /\ Base1 + Size1 < HugeAddr
  BY Constants, SegmentsAssumption
<1> HIDE DEF HugeAddr
<1> QED  BY <1>1 DEF InMem1, NotHuge

LEMMA InMem2Is ==
  ASSUME NEW a \in Nat
  PROVE  InMem2(a) <=> ~ InMem1(a) /\ a \in Base2 .. Base2 + Size2 - 1
<1>1. /\ Base2 \in Nat /\ Size2 \in Nat /\ HugeAddr \in Nat
      /\ Base2 + Size2 < HugeAddr
  BY Constants, SegmentsAssumption
<1> HIDE DEF HugeAddr
<1> QED  BY <1>1 DEF InMem2, NotHuge

\* a segment that holds a byte is longer than an access, and two bytes of an
\* access have different addresses
LEMMA DifferentAddresses ==
  ASSUME NEW addr \in Addr, NEW n \in Sizes, Backed # {},
         NEW i \in 0 .. n - 1, NEW j \in 0 .. n - 1, At(addr, i) = At(addr, j)
  PROVE  i = j
<1>1. /\ Base1 \in Nat /\ Size1 \in Nat /\ Base2 \in Nat /\ Size2 \in Nat
      /\ HugeAddr \in Nat \ {0} /\ n \in {1, 2, 4, 8} /\ n <= WordBytes
      /\ WordBytes \in {2, 4, 8}
      /\ Size1 % WordBytes = 0 /\ Base1 + Size1 < HugeAddr
      /\ Size2 % WordBytes = 0 /\ Base2 + Size2 < HugeAddr
  BY Constants, SegmentsAssumption
<1>2. Size1 > 0 \/ Size2 > 0
  <2>1. PICK a \in Addr : InMem1(a) \/ InMem2(a)
    BY DEF Backed
  <2> HIDE DEF HugeAddr
  <2>2. a \in Nat
    BY <1>1 DEF Addr
  <2>3. a \in Base1 .. Base1 + Size1 - 1 \/ a \in Base2 .. Base2 + Size2 - 1
    BY <2>1, <2>2, InMem1Is, InMem2Is
  <2> QED  BY <1>1, <2>3
<1> HIDE DEF HugeAddr
<1>3. WordBytes < HugeAddr
  <2>1. CASE WordBytes = 2  BY <1>1, <1>2, <2>1
  <2>2. CASE WordBytes = 4  BY <1>1, <1>2, <2>2
  <2>3. CASE WordBytes = 8  BY <1>1, <1>2, <2>3
  <2> QED  BY <1>1, <2>1, <2>2, <2>3
<1> DEFINE m == 2 * HugeAddr
<1>4. /\ m \in Nat \ {0} /\ addr \in 0 .. m - 1
      /\ i \in 0 .. m - 1 /\ j \in 0 .. m - 1
  BY <1>1, <1>3 DEF Addr
<1>5. At(addr, i) = (addr + i) % m /\ At(addr, j) = (addr + j) % m
  BY DEF At
<1> HIDE DEF m
<1>6. /\ At(addr, i) = IF addr + i < m THEN addr + i ELSE addr + i - m
      /\ At(addr, j) = IF addr + j < m THEN addr + j ELSE addr + j - m
  BY <1>4, <1>5, Wrapping
<1>7. addr \in Int /\ i \in Int /\ j \in Int
  BY <1>4
<1>8. (IF addr + i < m THEN addr + i ELSE addr + i - m)
        = (IF addr + j < m THEN addr + j ELSE addr + j - m)
  BY <1>6
<1> QED  BY <1>4, <1>7, <1>8

\* an aligned access is on one side of the end of a word
LEMMA AlignedOnOneSide ==
  ASSUME NEW x \in Nat, NEW u \in Sizes, x % u = 0, NEW j \in 0 .. u - 1,
         NEW end \in Nat, end % WordBytes = 0
  PROVE  x + j < end <=> x < end
<1>1. u \in {1, 2, 4, 8}
  BY Constants
<1>2. x < end => x + u <= end
  BY AlignedEndsInside
<1> QED  BY <1>1, <1>2

LEMMA WholeAccess ==
  ASSUME NEW x \in Nat, NEW u \in Sizes, x % u = 0, NEW j \in 0 .. u - 1
  PROVE  /\ InMem1(x + j) <=> InMem1(x)
         /\ InMem2(x + j) <=> InMem2(x)
<1>1. /\ Base1 \in Nat /\ Size1 \in Nat /\ Base2 \in Nat /\ Size2 \in Nat
      /\ Base1 % WordBytes = 0 /\ Base2 % WordBytes = 0
      /\ (Base1 + Size1) % WordBytes = 0 /\ (Base2 + Size2) % WordBytes = 0
      /\ u \in {1, 2, 4, 8}
  BY Constants, SegmentsAssumption, SegmentsEndOnWords
<1>2. x + j \in Nat
  BY <1>1
<1>3. /\ x + j < Base1 <=> x < Base1
      /\ x + j < Base1 + Size1 <=> x < Base1 + Size1
      /\ x + j < Base2 <=> x < Base2
      /\ x + j < Base2 + Size2 <=> x < Base2 + Size2
  <2>1. Base1 + Size1 \in Nat /\ Base2 + Size2 \in Nat  BY <1>1
  <2> QED  BY <1>1, <2>1, AlignedOnOneSide
<1>4. /\ x + j \in Base1 .. Base1 + Size1 - 1 <=> x \in Base1 .. Base1 + Size1 - 1
      /\ x + j \in Base2 .. Base2 + Size2 - 1 <=> x \in Base2 .. Base2 + Size2 - 1
  BY <1>1, <1>2, <1>3
<1> QED  BY <1>2, <1>4, InMem1Is, InMem2Is

\* the bytes of an access in the word it is made to
LEMMA BytesOfWord ==
  ASSUME NEW x \in Nat, NEW u \in Sizes, x % u = 0, NEW base \in Nat,
         base % WordBytes = 0, base <= x, NEW a \in Nat, base <= a
  PROVE  /\ (a - base) % WordBytes \in 0 .. WordBytes - 1
         /\ (x - base) % WordBytes \in 0 .. WordBytes - 1
         /\ a \in x .. x + u - 1 <=>
              /\ (a - base) \div WordBytes = (x - base) \div WordBytes
              /\ (a - base) % WordBytes \in
                   (x - base) % WordBytes .. ((x - base) % WordBytes) + u - 1
         /\ a \in x .. x + u - 1 =>
              (a - base) % WordBytes = ((x - base) % WordBytes) + (a - x)
<1>1. u \in {1, 2, 4, 8} /\ u <= WordBytes /\ WordBytes \in {2, 4, 8}
  BY Constants
<1>2. CASE u = 1
  <2>1. CASE WordBytes = 2  BY <1>2, <2>1
  <2>2. CASE WordBytes = 4  BY <1>2, <2>2
  <2>3. CASE WordBytes = 8  BY <1>2, <2>3
  <2> QED  BY <1>1, <2>1, <2>2, <2>3
<1>3. CASE u = 2
  <2>1. CASE WordBytes = 2  BY <1>3, <2>1
  <2>2. CASE WordBytes = 4  BY <1>3, <2>2
  <2>3. CASE WordBytes = 8  BY <1>3, <2>3
  <2> QED  BY <1>1, <2>1, <2>2, <2>3
<1>4. CASE u = 4
  <2>1. CASE WordBytes = 4  BY <1>4, <2>1
  <2>2. CASE WordBytes = 8  BY <1>4, <2>2
  <2> QED  BY <1>1, <1>4, <2>1, <2>2
<1>5. CASE u = 8
  <2>1. WordBytes = 8  BY <1>1, <1>5
  <2> QED  BY <1>5, <2>1
<1> QED  BY <1>1, <1>2, <1>3, <1>4, <1>5

LEMMA AddressType ==
  ASSUME NEW addr \in Addr, NEW i \in Nat
  PROVE  At(addr, i) \in Addr /\ At(addr, i) \in Nat
<1>1. HugeAddr \in Nat \ {0}
  BY Constants
<1> HIDE DEF HugeAddr
<1> QED  BY <1>1 DEF Addr, At

(***************************************************************************)
(* The next access of a request.                                           *)
(***************************************************************************)

\* what RequestInv says of numbers
LEMMA RequestNumbers ==
  ASSUME RequestInv, request # Idle
  PROVE  /\ request.op \in {"read", "write"}
         /\ request.addr \in Addr /\ request.n \in Sizes /\ request.n \in {1, 2, 4, 8}
         /\ request.done \in Nat /\ request.unit \in Nat /\ request.unit >= 1
         /\ request.done + request.unit <= request.n
         /\ request.unit \in Sizes /\ NextAddr % request.unit = 0 /\ NextAddr \in Nat
         /\ NextIndex(request) \in 0 .. request.n - 1
         /\ NextIndex(request) + request.unit <= request.n
<1>1. /\ request.op \in {"read", "write"}
      /\ request.addr \in Addr /\ request.n \in Sizes /\ request.n \in {1, 2, 4, 8}
      /\ request.done \in Nat
      /\ request.done + request.unit <= request.n
      /\ request.unit = request.n \/ request.unit = 1
  BY Constants DEF RequestInv, Unit
<1>2. /\ NextAddr \in Nat
      /\ request.unit = 1 \/ (request.unit \in Sizes /\ NextAddr % request.unit = 0)
  BY NextAccess
<1>3. request.unit \in Sizes /\ NextAddr % request.unit = 0
  BY <1>2, SizesAssumption
<1>5. request.unit \in Nat /\ request.unit >= 1
  BY <1>1
<1>4. /\ NextIndex(request) \in 0 .. request.n - 1
      /\ NextIndex(request) + request.unit <= request.n
  <2>1. request.unit \in Nat /\ request.unit >= 1 /\ request.n \in Nat
    BY <1>1
  <2>2. CASE request.op = "read"
    BY <1>1, <2>1, <2>2 DEF NextIndex
  <2>3. CASE request.op # "read"
    BY <1>1, <2>1, <2>3 DEF NextIndex
  <2> QED  BY <2>2, <2>3
<1> QED  BY <1>1, <1>2, <1>3, <1>4, <1>5

\* the bytes of the next access follow each other, and all are backed by the
\* segment it is routed to
LEMMA NextBytes ==
  ASSUME RequestInv, request # Idle, InMem1(NextAddr) \/ InMem2(NextAddr),
         NEW i \in NextIndices(request)
  PROVE  /\ i \in 0 .. request.n - 1
         /\ At(request.addr, i) = NextAddr + (i - NextIndex(request))
         /\ i - NextIndex(request) \in 0 .. request.unit - 1
         /\ At(request.addr, i) \in Backed
<1> DEFINE first == NextIndex(request)
           j == i - first
<1>1. /\ request.addr \in Addr /\ request.n \in {1, 2, 4, 8}
      /\ request.unit \in Nat /\ request.unit >= 1
      /\ request.unit \in Sizes /\ NextAddr % request.unit = 0
      /\ NextAddr \in Nat
      /\ first \in 0 .. request.n - 1 /\ first + request.unit <= request.n
  BY RequestNumbers
<1>2. j \in 0 .. request.unit - 1 /\ i \in 0 .. request.n - 1 /\ i \in Nat
  <2>1. i \in first .. first + request.unit - 1
    BY DEF NextIndices
  <2> HIDE DEF first
  <2> QED  BY <1>1, <2>1
<1>3. /\ InMem1(NextAddr + j) <=> InMem1(NextAddr)
      /\ InMem2(NextAddr + j) <=> InMem2(NextAddr)
  BY <1>1, <1>2, WholeAccess
<1>4. At(request.addr, i) = NextAddr + j
  <2>1. CASE request.unit = 1
    <3>1. i = first /\ j = 0
      BY <1>1, <1>2, <2>1
    <3> QED  BY <1>1, <3>1 DEF NextAddr
  <2>2. CASE request.unit # 1
    <3>1. request.unit = request.n
      BY <2>2 DEF RequestInv, Unit
    <3>2. first = 0 /\ j = i
      BY <1>1, <1>2, <3>1
    <3>3. HugeAddr \in Nat \ {0}
      BY Constants
    <3>4. NextAddr + j < HugeAddr
      BY <1>3 DEF InMem1, InMem2, NotHuge
    <3> HIDE DEF HugeAddr, first, j
    <3>5. request.addr \in Nat /\ request.addr < 2 * HugeAddr
      BY <1>1, <3>3 DEF Addr
    <3>6. NextAddr = request.addr
      BY <3>2, <3>3, <3>5 DEF NextAddr, At, first
    <3>7. request.addr + i < 2 * HugeAddr /\ request.addr + i \in Nat
      BY <1>2, <3>2, <3>3, <3>4, <3>5, <3>6
    <3> QED  BY <3>2, <3>3, <3>6, <3>7 DEF At
  <2> QED  BY <2>1, <2>2
<1>5. At(request.addr, i) \in Addr
  BY <1>1, <1>2, AddressType
<1> HIDE DEF j, first
<1>6. At(request.addr, i) \in Backed
  BY <1>3, <1>4, <1>5 DEF Backed
<1> QED  BY <1>2, <1>4, <1>6 DEF j, first

(***************************************************************************)
(* What the segments hold.                                                 *)
(***************************************************************************)

LEMMA SegmentByteIs ==
  ASSUME NEW a \in Nat
  PROVE  /\ InMem1(a) => /\ SegmentByte(a) = ByteIn(mem1, Base1, a)
                         /\ SegmentByte(a)' = ByteIn(mem1', Base1, a)
         /\ InMem2(a) => /\ SegmentByte(a) = ByteIn(mem2, Base2, a)
                         /\ SegmentByte(a)' = ByteIn(mem2', Base2, a)
BY DEF SegmentByte, ByteIn, InMem2, Mem1!MemOffset, Mem1!InWordAddr,
       Mem2!MemOffset, Mem2!InWordAddr

\* a segment that starts at base: the request as it sees it
LEMMA LocalIs ==
  ASSUME RequestInv, request # Idle, NEW base \in Nat, base <= NextAddr
  PROVE  /\ Local(base).op = request.op /\ Local(base).unit = request.unit
         /\ Local(base).data = request.data
         /\ NextIndex(Local(base)) = NextIndex(request)
         /\ NextIndices(Local(base)) = NextIndices(request)
         /\ Local(base).addr + NextIndex(Local(base)) = NextAddr - base
<1>1. /\ Local(base).op = request.op /\ Local(base).unit = request.unit
      /\ Local(base).data = request.data /\ Local(base).n = request.n
      /\ Local(base).done = request.done
      /\ Local(base).addr = NextAddr - base - NextIndex(request)
  BY DEF Local, RequestInv
<1>2. NextIndex(Local(base)) = NextIndex(request)
  BY <1>1 DEF NextIndex
<1>3. NextIndices(Local(base)) = NextIndices(request)
  BY <1>1, <1>2 DEF NextIndices
<1>4. NextAddr \in Nat /\ NextIndex(request) \in Nat
  BY RequestNumbers
<1>5. NextAddr - base - NextIndex(request) + NextIndex(request) = NextAddr - base
  BY <1>4
<1> QED  BY <1>1, <1>2, <1>3, <1>5

\* a word with u bytes of data, from index first on, put in at start
Overwritten(word, start, u, first, data) ==
  [b \in 0 .. WordBytes - 1 |->
     IF b \in start .. start + u - 1 THEN data[first + (b - start)] ELSE word[b]]

\* words that start at base, after u bytes were put in at address x
Rewritten(words, base, x, u, first, data) ==
  [words EXCEPT ![(x - base) \div WordBytes] =
     Overwritten(words[(x - base) \div WordBytes], (x - base) % WordBytes, u, first, data)]

\* and the byte for address a afterwards
ByteAfter(words, base, x, u, first, data, a) ==
  IF a \in x .. x + u - 1 THEN data[first + (a - x)] ELSE ByteIn(words, base, a)

\* u bytes at x and a byte at a, in words that start at base
InWords(words, base, x, u, a) ==
  /\ x \in Nat /\ u \in Sizes /\ x % u = 0
  /\ base \in Nat /\ base % WordBytes = 0 /\ base <= x
  /\ a \in Nat /\ base <= a /\ (a - base) \div WordBytes \in DOMAIN words

LEMMA WordStored ==
  ASSUME NEW words, NEW base, NEW x, NEW u, NEW a, InWords(words, base, x, u, a),
         NEW first \in Nat, NEW data
  PROVE  ByteIn(Rewritten(words, base, x, u, first, data), base, a) =
           ByteAfter(words, base, x, u, first, data, a)
<1>0. /\ x \in Nat /\ u \in Sizes /\ x % u = 0
      /\ base \in Nat /\ base % WordBytes = 0 /\ base <= x
      /\ a \in Nat /\ base <= a /\ (a - base) \div WordBytes \in DOMAIN words
  BY DEF InWords
<1> DEFINE off == (x - base) \div WordBytes
           start == (x - base) % WordBytes
           here == (a - base) \div WordBytes
           at == (a - base) % WordBytes
           new == Rewritten(words, base, x, u, first, data)
<1>1. /\ at \in 0 .. WordBytes - 1 /\ start \in 0 .. WordBytes - 1
      /\ a \in x .. x + u - 1 <=> here = off /\ at \in start .. start + u - 1
      /\ a \in x .. x + u - 1 => at = start + (a - x)
  BY <1>0, BytesOfWord
<1>2. u \in Nat /\ WordBytes \in Nat
  BY <1>0, Constants
<1> HIDE DEF off, start, here, at
<1> DEFINE word == Overwritten(words[off], start, u, first, data)
<1>3. new = [words EXCEPT ![off] = word]
  BY DEF off, start, Rewritten
<1>4. word[at] = IF at \in start .. start + u - 1
                 THEN data[first + (at - start)] ELSE words[off][at]
  BY <1>1 DEF Overwritten
<1> HIDE DEF word, new
<1>5. new[here] = IF here = off THEN word ELSE words[here]
  BY <1>0, <1>3 DEF here
<1>6. ByteIn(new, base, a) = new[here][at] /\ ByteIn(words, base, a) = words[here][at]
  BY DEF ByteIn, here, at
<1>7. CASE a \in x .. x + u - 1
  <2>1. ByteIn(new, base, a) = data[first + (at - start)]
    <3>1. here = off /\ at \in start .. start + u - 1
      BY <1>1, <1>7
    <3> QED  BY <1>4, <1>5, <1>6, <3>1
  <2>2. at - start = a - x
    <3>1. start \in Int /\ at = start + (a - x)
      BY <1>0, <1>1, <1>2, <1>7
    <3> QED  BY <1>0, <3>1
  <2> QED  BY <1>7, <2>1, <2>2 DEF new, ByteAfter
<1>8. CASE a \notin x .. x + u - 1
  <2>1. here # off \/ at \notin start .. start + u - 1
    BY <1>1, <1>8
  <2>2. ByteIn(new, base, a) = ByteIn(words, base, a)
    BY <1>4, <1>5, <1>6, <2>1
  <2> QED  BY <1>8, <2>2 DEF new, ByteAfter
<1> QED  BY <1>7, <1>8

\* the word of a byte is one of the segment's
LEMMA WordOfByte ==
  ASSUME NEW base \in Nat, NEW size \in Nat, size % WordBytes = 0,
         NEW a \in base .. base + size - 1
  PROVE  (a - base) \div WordBytes \in 0 .. (size \div WordBytes) - 1
<1>1. CASE WordBytes = 2  BY <1>1
<1>2. CASE WordBytes = 4  BY <1>2
<1>3. CASE WordBytes = 8  BY <1>3
<1> QED  BY <1>1, <1>2, <1>3, WordBytesAssumption

\* the segments and the data of a request are arrays
ArraysOK ==
  /\ DOMAIN mem1 = 0 .. (Size1 \div WordBytes) - 1
  /\ DOMAIN mem2 = 0 .. (Size2 \div WordBytes) - 1
  /\ request # Idle => DOMAIN request.data = 0 .. request.n - 1

\* one access of a write stores its bytes and no others
Stores ==
  \A a \in Backed :
    /\ \A i \in NextIndices(request) :
         At(request.addr, i) = a => SegmentByte(a)' = request.data[i]
    /\ (\A i \in NextIndices(request) : At(request.addr, i) # a)
         => SegmentByte(a)' = SegmentByte(a)

\* a store to a segment, which starts at base and is as large as size
LEMMA StoredAt ==
  ASSUME RequestInv, request # Idle, InMem1(NextAddr) \/ InMem2(NextAddr),
         NEW base \in Nat, NEW size \in Nat, base % WordBytes = 0, size % WordBytes = 0,
         base <= NextAddr, NEW words, DOMAIN words = 0 .. (size \div WordBytes) - 1,
         NEW new,
         new = Rewritten(words, base, NextAddr, request.unit, NextIndex(request), request.data),
         NEW a \in base .. base + size - 1
  PROVE  /\ \A i \in NextIndices(request) :
              At(request.addr, i) = a => ByteIn(new, base, a) = request.data[i]
         /\ (\A i \in NextIndices(request) : At(request.addr, i) # a)
              => ByteIn(new, base, a) = ByteIn(words, base, a)
<1> DEFINE first == NextIndex(request)
<1>1. /\ NextAddr \in Nat /\ request.unit \in Sizes /\ NextAddr % request.unit = 0
      /\ request.unit \in Nat /\ first \in Nat
  BY RequestNumbers
<1>2. a \in Nat /\ base <= a
  OBVIOUS
<1>3. (a - base) \div WordBytes \in DOMAIN words
  BY WordOfByte
<1>4. ByteIn(new, base, a) =
        IF a \in NextAddr .. NextAddr + request.unit - 1
        THEN request.data[first + (a - NextAddr)] ELSE ByteIn(words, base, a)
  <2> HIDE DEF first
  <2>1. new = Rewritten(words, base, NextAddr, request.unit, first, request.data)
    BY DEF first
  <2> DEFINE x == NextAddr  u == request.unit  data == request.data
  <2>2. /\ x \in Nat /\ u \in Sizes /\ x % u = 0 /\ base \in Nat
        /\ base % WordBytes = 0 /\ base <= x /\ a \in Nat /\ base <= a
        /\ (a - base) \div WordBytes \in DOMAIN words /\ first \in Nat
    BY <1>1, <1>2, <1>3
  <2> HIDE DEF x, u, data
  <2>3. ByteIn(Rewritten(words, base, x, u, first, data), base, a) =
          ByteAfter(words, base, x, u, first, data, a)
    <3>1. InWords(words, base, x, u, a) /\ first \in Nat
      BY <2>2 DEF InWords
    <3> QED  BY <3>1, WordStored
  <2> QED  BY <2>1, <2>3 DEF x, u, data, ByteAfter
<1>5. ASSUME NEW i \in NextIndices(request), At(request.addr, i) = a
      PROVE  ByteIn(new, base, a) = request.data[i]
  <2>1. /\ a = NextAddr + (i - first) /\ i - first \in 0 .. request.unit - 1
        /\ i \in 0 .. request.n - 1
    BY <1>5, NextBytes
  <2> HIDE DEF first
  <2>2. i \in Int
    BY <2>1
  <2>3. a \in NextAddr .. NextAddr + request.unit - 1 /\ first + (a - NextAddr) = i
    BY <1>1, <2>1, <2>2
  <2> QED  BY <1>4, <2>3
<1>6. ASSUME \A i \in NextIndices(request) : At(request.addr, i) # a
      PROVE  ByteIn(new, base, a) = ByteIn(words, base, a)
  <2>1. ASSUME a \in NextAddr .. NextAddr + request.unit - 1
        PROVE  FALSE
    <3> DEFINE i == first + (a - NextAddr)
    <3>1. i \in first .. first + request.unit - 1
      <4> HIDE DEF first
      <4> QED  BY <1>1, <1>2, <2>1
    <3>2. i \in NextIndices(request)
      BY <3>1 DEF NextIndices
    <3>3. At(request.addr, i) = NextAddr + (i - first)
      BY <3>2, NextBytes
    <3>4. NextAddr + (i - first) = a
      <4> HIDE DEF first
      <4> QED  BY <1>1, <1>2
    <3> HIDE DEF i, first
    <3> QED  BY <1>6, <3>2, <3>3, <3>4 DEF first
  <2> QED  BY <1>4, <2>1
<1> QED  BY <1>5, <1>6

LEMMA StoresInMem1 ==
  ASSUME RequestInv, ArraysOK, WriteMem1
  PROVE  Stores
<1>1. request # Idle /\ request.op = "write" /\ InMem1(NextAddr) /\ mem2' = mem2
  BY DEF WriteMem1, Idle, segment2Vars
<1>2. /\ Base1 \in Nat /\ Size1 \in Nat /\ Base1 % WordBytes = 0
      /\ Size1 % WordBytes = 0 /\ NextAddr \in Nat
  BY <1>1, SegmentsAssumption, RequestNumbers
<1>3. Base1 <= NextAddr
  BY <1>1, <1>2, InMem1Is
<1>4. mem1' = Rewritten(mem1, Base1, NextAddr, request.unit, NextIndex(request), request.data)
  <2>1. /\ Local(Base1).unit = request.unit /\ Local(Base1).data = request.data
        /\ NextIndex(Local(Base1)) = NextIndex(request)
        /\ Local(Base1).addr + NextIndex(Local(Base1)) = NextAddr - Base1
    BY <1>1, <1>2, <1>3, LocalIs
  <2> DEFINE start == (NextAddr - Base1) % WordBytes
             first == NextIndex(request)
  <2>2. \A b \in 0 .. WordBytes - 1 : first + b - start = first + (b - start)
    <3>1. first \in Int /\ start \in Int
      BY <1>1, <1>2, RequestNumbers, Constants
    <3> QED  BY <3>1, Constants
  <2>3. Mem1!WordWith(Local(Base1), LocalOffset(Base1)) =
          Overwritten(mem1[LocalOffset(Base1)], start, request.unit, first, request.data)
    BY <2>1, <2>2 DEF Overwritten, Mem1!WordWith, Mem1!InWord, Mem1!InWordAddr,
                      Mem1!NextIndex, NextIndex
  <2> QED  BY <2>3 DEF WriteMem1, Mem1!WriteWord, Rewritten, LocalOffset
<1>6. ASSUME NEW a \in Backed
      PROVE  /\ \A i \in NextIndices(request) :
                  At(request.addr, i) = a => SegmentByte(a)' = request.data[i]
             /\ (\A i \in NextIndices(request) : At(request.addr, i) # a)
                  => SegmentByte(a)' = SegmentByte(a)
  <2>1. a \in Nat /\ (InMem1(a) \/ InMem2(a))
    <3>1. HugeAddr \in Nat  BY Constants
    <3> HIDE DEF HugeAddr
    <3> QED  BY <3>1 DEF Backed, Addr
  <2>2. CASE InMem1(a)
    <3>1. a \in Base1 .. Base1 + Size1 - 1
      BY <2>1, <2>2, InMem1Is
    <3>2. DOMAIN mem1 = 0 .. (Size1 \div WordBytes) - 1
      BY DEF ArraysOK
    <3>3. /\ \A i \in NextIndices(request) :
               At(request.addr, i) = a => ByteIn(mem1', Base1, a) = request.data[i]
          /\ (\A i \in NextIndices(request) : At(request.addr, i) # a)
               => ByteIn(mem1', Base1, a) = ByteIn(mem1, Base1, a)
      BY <1>1, <1>2, <1>3, <1>4, <3>1, <3>2, StoredAt
    <3> QED  BY <2>1, <2>2, <3>3, SegmentByteIs
  <2>3. CASE InMem2(a)
    <3>1. ASSUME NEW i \in NextIndices(request), At(request.addr, i) = a
          PROVE  FALSE
      <4>1. /\ a = NextAddr + (i - NextIndex(request))
            /\ i - NextIndex(request) \in 0 .. request.unit - 1
        BY <1>1, <3>1, NextBytes
      <4>2. InMem1(a)
        BY <1>1, <1>2, <4>1, RequestNumbers, WholeAccess
      <4> QED  BY <2>3, <4>2 DEF InMem2
    <3>2. SegmentByte(a)' = SegmentByte(a)
      BY <1>1, <2>1, <2>3, SegmentByteIs
    <3> QED  BY <3>1, <3>2
  <2> QED  BY <2>1, <2>2, <2>3
<1> QED  BY <1>6 DEF Stores

LEMMA StoresInMem2 ==
  ASSUME RequestInv, ArraysOK, WriteMem2
  PROVE  Stores
<1>1. request # Idle /\ request.op = "write" /\ InMem2(NextAddr) /\ mem1' = mem1
  BY DEF WriteMem2, Idle, segment1Vars
<1>2. /\ Base2 \in Nat /\ Size2 \in Nat /\ Base2 % WordBytes = 0
      /\ Size2 % WordBytes = 0 /\ NextAddr \in Nat
  BY <1>1, SegmentsAssumption, RequestNumbers
<1>3. Base2 <= NextAddr
  BY <1>1, <1>2, InMem2Is
<1>4. mem2' = Rewritten(mem2, Base2, NextAddr, request.unit, NextIndex(request), request.data)
  <2>1. /\ Local(Base2).unit = request.unit /\ Local(Base2).data = request.data
        /\ NextIndex(Local(Base2)) = NextIndex(request)
        /\ Local(Base2).addr + NextIndex(Local(Base2)) = NextAddr - Base2
    BY <1>1, <1>2, <1>3, LocalIs
  <2> DEFINE start == (NextAddr - Base2) % WordBytes
             first == NextIndex(request)
  <2>2. \A b \in 0 .. WordBytes - 1 : first + b - start = first + (b - start)
    <3>1. first \in Int /\ start \in Int
      BY <1>1, <1>2, RequestNumbers, Constants
    <3> QED  BY <3>1, Constants
  <2>3. Mem2!WordWith(Local(Base2), LocalOffset(Base2)) =
          Overwritten(mem2[LocalOffset(Base2)], start, request.unit, first, request.data)
    BY <2>1, <2>2 DEF Overwritten, Mem2!WordWith, Mem2!InWord, Mem2!InWordAddr,
                      Mem2!NextIndex, NextIndex
  <2> QED  BY <2>3 DEF WriteMem2, Mem2!WriteWord, Rewritten, LocalOffset
<1>6. ASSUME NEW a \in Backed
      PROVE  /\ \A i \in NextIndices(request) :
                  At(request.addr, i) = a => SegmentByte(a)' = request.data[i]
             /\ (\A i \in NextIndices(request) : At(request.addr, i) # a)
                  => SegmentByte(a)' = SegmentByte(a)
  <2>1. a \in Nat /\ (InMem2(a) \/ InMem1(a))
    <3>1. HugeAddr \in Nat  BY Constants
    <3> HIDE DEF HugeAddr
    <3> QED  BY <3>1 DEF Backed, Addr
  <2>2. CASE InMem2(a)
    <3>1. a \in Base2 .. Base2 + Size2 - 1
      BY <2>1, <2>2, InMem2Is
    <3>2. DOMAIN mem2 = 0 .. (Size2 \div WordBytes) - 1
      BY DEF ArraysOK
    <3>3. /\ \A i \in NextIndices(request) :
               At(request.addr, i) = a => ByteIn(mem2', Base2, a) = request.data[i]
          /\ (\A i \in NextIndices(request) : At(request.addr, i) # a)
               => ByteIn(mem2', Base2, a) = ByteIn(mem2, Base2, a)
      BY <1>1, <1>2, <1>3, <1>4, <3>1, <3>2, StoredAt
    <3> QED  BY <2>1, <2>2, <3>3, SegmentByteIs
  <2>3. CASE InMem1(a)
    <3>1. ASSUME NEW i \in NextIndices(request), At(request.addr, i) = a
          PROVE  FALSE
      <4>1. /\ a = NextAddr + (i - NextIndex(request))
            /\ i - NextIndex(request) \in 0 .. request.unit - 1
        BY <1>1, <3>1, NextBytes
      <4>2. InMem2(a)
        BY <1>1, <1>2, <4>1, RequestNumbers, WholeAccess
      <4> QED  BY <2>3, <4>2 DEF InMem2
    <3>2. SegmentByte(a)' = SegmentByte(a)
      BY <1>1, <2>1, <2>3, SegmentByteIs
    <3> QED  BY <3>1, <3>2
  <2> QED  BY <2>1, <2>2, <2>3
<1> QED  BY <1>6 DEF Stores

\* one access of a read adds the bytes of the memory to the data
Reads(data) ==
  /\ data = [i \in DOMAIN request.data |-> data[i]]
  /\ \A i \in DOMAIN request.data :
       data[i] = IF i \in NextIndices(request) THEN SegmentByte(At(request.addr, i))
                                               ELSE request.data[i]

\* the bytes of the next access are in one word of the segment
LEMMA NextWord ==
  ASSUME RequestInv, request # Idle, InMem1(NextAddr) \/ InMem2(NextAddr),
         NEW base \in Nat, base % WordBytes = 0, base <= NextAddr, NEW words,
         NEW i \in NextIndices(request)
  PROVE  words[LocalOffset(base)][((NextAddr - base) % WordBytes) + (i - NextIndex(request))]
           = ByteIn(words, base, At(request.addr, i))
<1> DEFINE j == i - NextIndex(request)
           a == NextAddr + j
           start == (NextAddr - base) % WordBytes
           at == (a - base) % WordBytes
<1>1. /\ NextAddr \in Nat /\ request.unit \in Sizes /\ NextAddr % request.unit = 0
      /\ request.unit \in Nat
  BY RequestNumbers
<1>2. At(request.addr, i) = a /\ j \in 0 .. request.unit - 1
  BY NextBytes
<1> HIDE DEF j
<1>3. a \in NextAddr .. NextAddr + request.unit - 1 /\ a \in Nat /\ base <= a /\ a - NextAddr = j
  BY <1>1, <1>2
<1> HIDE DEF a
<1>4. /\ (a - base) \div WordBytes = LocalOffset(base)
      /\ at = start + (a - NextAddr)
  BY <1>1, <1>3, BytesOfWord DEF LocalOffset
<1> HIDE DEF at, start
<1>5. at = start + j
  BY <1>3, <1>4
<1>6. ByteIn(words, base, a) = words[(a - base) \div WordBytes][at]
  BY DEF ByteIn, at
<1>7. words[LocalOffset(base)][start + j] = ByteIn(words, base, a)
  BY <1>4, <1>5, <1>6
<1> QED  BY <1>2, <1>7 DEF j, start

LEMMA ReadsInMem1 ==
  ASSUME RequestInv, request # Idle, InMem1(NextAddr)
  PROVE  Reads(Mem1!DataWith(Local(Base1), mem1[LocalOffset(Base1)]))
<1>1. Base1 \in Nat /\ Base1 % WordBytes = 0 /\ NextAddr \in Nat
  BY SegmentsAssumption, RequestNumbers
<1>2. Base1 <= NextAddr
  <2>1. Size1 \in Nat  BY SegmentsAssumption
  <2> QED  BY <1>1, <2>1, InMem1Is
<1> DEFINE start == (NextAddr - Base1) % WordBytes
           first == NextIndex(request)
           word == mem1[LocalOffset(Base1)]
           data == Mem1!DataWith(Local(Base1), word)
<1>3. data = [i \in DOMAIN request.data |->
                IF i \in NextIndices(request) THEN word[start + i - first]
                                              ELSE request.data[i]]
  <2>1. /\ Local(Base1).data = request.data
        /\ NextIndex(Local(Base1)) = NextIndex(request)
        /\ NextIndices(Local(Base1)) = NextIndices(request)
        /\ Local(Base1).addr + NextIndex(Local(Base1)) = NextAddr - Base1
    BY <1>1, <1>2, LocalIs
  <2> QED  BY <2>1 DEF Mem1!DataWith, Mem1!InWordAddr, Mem1!NextIndex, NextIndex,
                       Mem1!NextIndices, NextIndices
<1>4. ASSUME NEW i \in NextIndices(request)
      PROVE  word[start + i - first] = SegmentByte(At(request.addr, i))
  <2>1. start + i - first = start + (i - first)
    <3>1. first \in Int /\ request.unit \in Int
      BY RequestNumbers
    <3>2. i \in first .. first + request.unit - 1
      BY DEF NextIndices
    <3>3. start \in Int
      BY <1>1, Constants
    <3> HIDE DEF first, start
    <3> QED  BY <3>1, <3>2, <3>3
  <2>2. word[start + (i - first)] = ByteIn(mem1, Base1, At(request.addr, i))
    BY <1>1, <1>2, NextWord
  <2>3. InMem1(At(request.addr, i)) /\ At(request.addr, i) \in Nat
    <3>1. /\ At(request.addr, i) = NextAddr + (i - first)
          /\ i - first \in 0 .. request.unit - 1
      BY NextBytes
    <3>2. request.unit \in Sizes /\ NextAddr % request.unit = 0 /\ request.unit \in Nat
      BY RequestNumbers
    <3> HIDE DEF first
    <3> QED  BY <1>1, <3>1, <3>2, WholeAccess
  <2>4. SegmentByte(At(request.addr, i)) = ByteIn(mem1, Base1, At(request.addr, i))
    BY <2>3, SegmentByteIs
  <2> QED  BY <2>1, <2>2, <2>4
<1> HIDE DEF start, first, word, data
<1> QED  BY <1>3, <1>4 DEF Reads, data, word

LEMMA ReadsInMem2 ==
  ASSUME RequestInv, request # Idle, InMem2(NextAddr)
  PROVE  Reads(Mem2!DataWith(Local(Base2), mem2[LocalOffset(Base2)]))
<1>1. Base2 \in Nat /\ Base2 % WordBytes = 0 /\ NextAddr \in Nat
  BY SegmentsAssumption, RequestNumbers
<1>2. Base2 <= NextAddr
  <2>1. Size2 \in Nat  BY SegmentsAssumption
  <2> QED  BY <1>1, <2>1, InMem2Is
<1> DEFINE start == (NextAddr - Base2) % WordBytes
           first == NextIndex(request)
           word == mem2[LocalOffset(Base2)]
           data == Mem2!DataWith(Local(Base2), word)
<1>3. data = [i \in DOMAIN request.data |->
                IF i \in NextIndices(request) THEN word[start + i - first]
                                              ELSE request.data[i]]
  <2>1. /\ Local(Base2).data = request.data
        /\ NextIndex(Local(Base2)) = NextIndex(request)
        /\ NextIndices(Local(Base2)) = NextIndices(request)
        /\ Local(Base2).addr + NextIndex(Local(Base2)) = NextAddr - Base2
    BY <1>1, <1>2, LocalIs
  <2> QED  BY <2>1 DEF Mem2!DataWith, Mem2!InWordAddr, Mem2!NextIndex, NextIndex,
                       Mem2!NextIndices, NextIndices
<1>4. ASSUME NEW i \in NextIndices(request)
      PROVE  word[start + i - first] = SegmentByte(At(request.addr, i))
  <2>1. start + i - first = start + (i - first)
    <3>1. first \in Int /\ request.unit \in Int
      BY RequestNumbers
    <3>2. i \in first .. first + request.unit - 1
      BY DEF NextIndices
    <3>3. start \in Int
      BY <1>1, Constants
    <3> HIDE DEF first, start
    <3> QED  BY <3>1, <3>2, <3>3
  <2>2. word[start + (i - first)] = ByteIn(mem2, Base2, At(request.addr, i))
    BY <1>1, <1>2, NextWord
  <2>3. InMem2(At(request.addr, i)) /\ At(request.addr, i) \in Nat
    <3>1. /\ At(request.addr, i) = NextAddr + (i - first)
          /\ i - first \in 0 .. request.unit - 1
      BY NextBytes
    <3>2. request.unit \in Sizes /\ NextAddr % request.unit = 0 /\ request.unit \in Nat
      BY RequestNumbers
    <3> HIDE DEF first
    <3> QED  BY <1>1, <3>1, <3>2, WholeAccess
  <2>4. SegmentByte(At(request.addr, i)) = ByteIn(mem2, Base2, At(request.addr, i))
    BY <2>3, SegmentByteIs
  <2> QED  BY <2>1, <2>2, <2>4
<1> HIDE DEF start, first, word, data
<1> QED  BY <1>3, <1>4 DEF Reads, data, word

\* an access that is routed to a segment, whichever
LEMMA ReadPiece ==
  ASSUME RequestInv, ReadMem1 \/ ReadMem2
  PROVE  /\ request # Idle /\ request.op = "read"
         /\ (InMem1(NextAddr) \/ InMem2(NextAddr))
         /\ mem1' = mem1 /\ mem2' = mem2
         /\ \E data : Reads(data) /\ Served(data, ReadResult(data))
<1>1. CASE ReadMem1
  <2>1. request # Idle /\ request.op = "read" /\ InMem1(NextAddr)
    BY <1>1 DEF ReadMem1, Idle
  <2>2. mem1' = mem1 /\ mem2' = mem2
    BY <1>1 DEF ReadMem1, Mem1!InterpretedRead, segment2Vars
  <2> DEFINE data == Mem1!DataWith(Local(Base1), mem1[LocalOffset(Base1)])
  <2>3. Served(data, ReadResult(data))
    BY <1>1 DEF ReadMem1
  <2>4. Reads(data)
    BY <2>1, ReadsInMem1
  <2> HIDE DEF data
  <2> QED  BY <2>1, <2>2, <2>3, <2>4
<1>2. CASE ReadMem2
  <2>1. request # Idle /\ request.op = "read" /\ InMem2(NextAddr)
    BY <1>2 DEF ReadMem2, Idle
  <2>2. mem1' = mem1 /\ mem2' = mem2
    BY <1>2 DEF ReadMem2, Mem2!InterpretedRead, segment1Vars
  <2> DEFINE data == Mem2!DataWith(Local(Base2), mem2[LocalOffset(Base2)])
  <2>3. Served(data, ReadResult(data))
    BY <1>2 DEF ReadMem2
  <2>4. Reads(data)
    BY <2>1, ReadsInMem2
  <2> HIDE DEF data
  <2> QED  BY <2>1, <2>2, <2>3, <2>4
<1> QED  BY <1>1, <1>2

LEMMA WritePiece ==
  ASSUME RequestInv, ArraysOK, WriteMem1 \/ WriteMem2
  PROVE  /\ request # Idle /\ request.op = "write"
         /\ (InMem1(NextAddr) \/ InMem2(NextAddr))
         /\ DOMAIN mem1' = DOMAIN mem1 /\ DOMAIN mem2' = DOMAIN mem2
         /\ Stores
         /\ Served(request.data, WriteResult)
<1>1. CASE WriteMem1
  BY <1>1, StoresInMem1 DEF WriteMem1, Mem1!WriteWord, segment2Vars, Idle
<1>2. CASE WriteMem2
  BY <1>2, StoresInMem2 DEF WriteMem2, Mem2!WriteWord, segment1Vars, Idle
<1> QED  BY <1>1, <1>2

(***************************************************************************)
(* The invariant of the refinement: what was read so far is what the       *)
(* memory holds, and a request has met no hole as long as it goes on.      *)
(***************************************************************************)

DoneIndices(req) ==
  IF req.op = "read" THEN req.n - req.done .. req.n - 1 ELSE 0 .. req.done - 1

Progress ==
  request # Idle =>
    \A i \in DoneIndices(request) :
      /\ At(request.addr, i) \in Backed
      /\ request.op = "read" => request.data[i] = SegmentByte(At(request.addr, i))

RefinementInv == RequestInv /\ ArraysOK /\ Progress

\* the indices that are done after one more access, and those that are not
LEMMA DoneNext ==
  ASSUME RequestInv, request # Idle, NEW data, NEW finished, Served(data, finished),
         ~ IsLastAccess(request)
  PROVE  /\ request' # Idle
         /\ request'.op = request.op /\ request'.addr = request.addr
         /\ request'.n = request.n /\ request'.data = data
         /\ request'.done = request.done + request.unit
         /\ DoneIndices(request') = DoneIndices(request) \union NextIndices(request)
         /\ result' = result
<1>1. request' = [request EXCEPT !.done = @ + request.unit, !.data = data] /\ result' = result
  BY DEF Served
<1>2. DOMAIN request = {"op", "addr", "n", "executable", "unit", "done", "data"}
  BY DEF RequestInv
<1>3. /\ request'.op = request.op /\ request'.addr = request.addr
      /\ request'.n = request.n /\ request'.data = data
      /\ request'.done = request.done + request.unit
  BY <1>1, <1>2
<1>4. request.op # "idle"
  BY RequestNumbers
<1>5. request' # Idle
  BY <1>3, <1>4 DEF Idle
<1>6. /\ request.n \in Nat /\ request.done \in Nat /\ request.unit \in Nat
      /\ request.unit >= 1 /\ request.done + request.unit <= request.n
  BY RequestNumbers
<1>7. CASE request.op = "read"
  <2>1. DoneIndices(request') = request.n - (request.done + request.unit) .. request.n - 1
    BY <1>3, <1>7 DEF DoneIndices
  <2>2. DoneIndices(request) = request.n - request.done .. request.n - 1
    BY <1>7 DEF DoneIndices
  <2>3. NextIndices(request) = request.n - request.done - request.unit
                                 .. request.n - request.done - 1
    BY <1>6, <1>7 DEF NextIndices, NextIndex
  <2>4. request.n - (request.done + request.unit) .. request.n - 1
          = (request.n - request.done .. request.n - 1)
              \union (request.n - request.done - request.unit .. request.n - request.done - 1)
    BY <1>6
  <2> QED  BY <1>1, <1>3, <1>5, <2>1, <2>2, <2>3, <2>4
<1>8. CASE request.op # "read"
  <2>1. DoneIndices(request') = 0 .. request.done + request.unit - 1
    <3>1. DoneIndices(request') = 0 .. request'.done - 1
      BY <1>3, <1>8 DEF DoneIndices
    <3> QED  BY <1>3, <1>6, <3>1
  <2>2. DoneIndices(request) = 0 .. request.done - 1
    BY <1>8 DEF DoneIndices
  <2>3. NextIndices(request) = request.done .. request.done + request.unit - 1
    BY <1>8 DEF NextIndices, NextIndex
  <2>4. 0 .. request.done + request.unit - 1
          = (0 .. request.done - 1) \union (request.done .. request.done + request.unit - 1)
    BY <1>6
  <2> QED  BY <1>1, <1>3, <1>5, <2>1, <2>2, <2>3, <2>4
<1> QED  BY <1>7, <1>8

\* when the last access is made, all bytes have been
LEMMA AllDone ==
  ASSUME RequestInv, request # Idle, IsLastAccess(request)
  PROVE  0 .. request.n - 1 = DoneIndices(request) \union NextIndices(request)
<1>1. /\ request.n \in Nat /\ request.done \in Nat /\ request.unit \in Nat
      /\ request.unit >= 1 /\ request.done + request.unit = request.n
  BY RequestNumbers DEF IsLastAccess
<1>2. CASE request.op = "read"
  BY <1>1, <1>2 DEF DoneIndices, NextIndices, NextIndex
<1>3. CASE request.op # "read"
  BY <1>1, <1>3 DEF DoneIndices, NextIndices, NextIndex
<1> QED  BY <1>2, <1>3

LEMMA NextArrays == RefinementInv /\ [Next]_vars => ArraysOK'
<1> SUFFICES ASSUME RefinementInv, [Next]_vars PROVE ArraysOK'
  OBVIOUS
<1> USE DEF RefinementInv
<1>1. ASSUME NEW addr \in Addr, NEW n \in Sizes, NEW executable \in BOOLEAN,
             StartRead(addr, n, executable)
      PROVE  ArraysOK'
  BY <1>1 DEF StartRead, ReadRequest, ArraysOK, segment1Vars, segment2Vars
<1>2. ASSUME NEW addr \in Addr, NEW n \in Sizes, NEW data \in Bytes(n),
             StartWrite(addr, n, data)
      PROVE  ArraysOK'
  BY <1>2 DEF StartWrite, WriteRequest, ArraysOK, segment1Vars, segment2Vars, Bytes
<1>3. ASSUME NEW data, NEW finished, Served(data, finished), request # Idle,
             DOMAIN data = DOMAIN request.data,
             DOMAIN mem1' = DOMAIN mem1, DOMAIN mem2' = DOMAIN mem2
      PROVE  ArraysOK'
  <2>1. CASE IsLastAccess(request)
    BY <1>3, <2>1 DEF Served, ArraysOK
  <2>2. CASE ~ IsLastAccess(request)
    <3>1. request' # Idle /\ request'.n = request.n /\ request'.data = data
      BY <1>3, <2>2, DoneNext
    <3> QED  BY <1>3, <3>1 DEF ArraysOK
  <2> QED  BY <2>1, <2>2
<1>4. CASE ReadMem1 \/ ReadMem2
  <2>1. PICK data : Reads(data) /\ Served(data, ReadResult(data))
    BY <1>4, ReadPiece
  <2>2. DOMAIN data = DOMAIN request.data
    BY <2>1 DEF Reads
  <2>3. request # Idle /\ mem1' = mem1 /\ mem2' = mem2
    BY <1>4, ReadPiece
  <2> QED  BY <1>3, <2>1, <2>2, <2>3
<1>5. CASE WriteMem1 \/ WriteMem2
  BY <1>3, <1>5, WritePiece
<1>6. CASE AccessFault
  BY <1>6 DEF AccessFault, ArraysOK, segment1Vars, segment2Vars
<1>7. CASE UNCHANGED vars
  BY <1>7 DEF vars, ArraysOK
<1> QED  BY <1>1, <1>2, <1>4, <1>5, <1>6, <1>7 DEF Next

LEMMA NextProgress == RefinementInv /\ [Next]_vars => Progress'
<1> SUFFICES ASSUME RefinementInv, [Next]_vars PROVE Progress'
  OBVIOUS
<1> USE DEF RefinementInv
<1>1. ASSUME NEW addr \in Addr, NEW n \in Sizes, NEW executable \in BOOLEAN,
             StartRead(addr, n, executable)
      PROVE  Progress'
  <2>1. request'.op = "read" /\ request'.n = n /\ request'.done = 0
    BY <1>1 DEF StartRead, ReadRequest
  <2>2. n \in Nat
    BY Constants
  <2>3. DoneIndices(request') = {}
    BY <2>1, <2>2 DEF DoneIndices
  <2> QED  BY <2>3 DEF Progress
<1>2. ASSUME NEW addr \in Addr, NEW n \in Sizes, NEW data \in Bytes(n),
             StartWrite(addr, n, data)
      PROVE  Progress'
  <2>1. request'.op = "write" /\ request'.done = 0
    BY <1>2 DEF StartWrite, WriteRequest
  <2>2. DoneIndices(request') = {}
    BY <2>1 DEF DoneIndices
  <2> QED  BY <2>2 DEF Progress
<1>3. CASE ReadMem1 \/ ReadMem2
  <2>1. /\ request # Idle /\ request.op = "read" /\ (InMem1(NextAddr) \/ InMem2(NextAddr))
        /\ mem1' = mem1 /\ mem2' = mem2
    BY <1>3, ReadPiece
  <2>2. PICK data : Reads(data) /\ Served(data, ReadResult(data))
    BY <1>3, ReadPiece
  <2>3. CASE IsLastAccess(request)
    BY <2>2, <2>3 DEF Served, Progress
  <2>4. CASE ~ IsLastAccess(request)
    <3>1. /\ request'.op = "read" /\ request'.addr = request.addr /\ request'.data = data
          /\ DoneIndices(request') = DoneIndices(request) \union NextIndices(request)
      BY <2>1, <2>2, <2>4, DoneNext
    <3>2. \A a : SegmentByte(a)' = SegmentByte(a)
      BY <2>1 DEF SegmentByte
    <3>3. ASSUME NEW i \in DoneIndices(request')
          PROVE  /\ At(request.addr, i) \in Backed
                 /\ data[i] = SegmentByte(At(request.addr, i))
      <4>1. i \in DOMAIN request.data
        <5>1. /\ request.n \in Nat /\ request.done \in Nat /\ request.unit \in Nat
              /\ request.done + request.unit <= request.n
          BY <2>1, RequestNumbers
        <5>2. DOMAIN request.data = 0 .. request.n - 1
          BY <2>1 DEF ArraysOK
        <5>3. ASSUME i \in NextIndices(request)
              PROVE  i \in 0 .. request.n - 1
          BY <2>1, <5>3, NextBytes
        <5>4. ASSUME i \in DoneIndices(request)
              PROVE  i \in 0 .. request.n - 1
          BY <2>1, <5>1, <5>4 DEF DoneIndices
        <5> QED  BY <3>1, <5>2, <5>3, <5>4
      <4>2. CASE i \in NextIndices(request)
        BY <2>1, <2>2, <4>1, <4>2, NextBytes DEF Reads
      <4>3. CASE i \notin NextIndices(request)
        <5>1. i \in DoneIndices(request)
          BY <3>1, <4>3
        <5> QED  BY <2>1, <2>2, <4>1, <4>3, <5>1 DEF Reads, Progress
      <4> QED  BY <4>2, <4>3
    <3> QED  BY <3>1, <3>2, <3>3 DEF Progress
  <2> QED  BY <2>3, <2>4
<1>4. CASE WriteMem1 \/ WriteMem2
  <2>1. /\ request # Idle /\ request.op = "write" /\ (InMem1(NextAddr) \/ InMem2(NextAddr))
        /\ Served(request.data, WriteResult)
    BY <1>4, WritePiece
  <2>2. CASE IsLastAccess(request)
    BY <2>1, <2>2 DEF Served, Progress
  <2>3. CASE ~ IsLastAccess(request)
    <3>1. /\ request'.op = "write" /\ request'.addr = request.addr
          /\ DoneIndices(request') = DoneIndices(request) \union NextIndices(request)
      BY <2>1, <2>3, DoneNext
    <3>2. ASSUME NEW i \in DoneIndices(request')
          PROVE  At(request.addr, i) \in Backed
      BY <2>1, <3>1, <3>2, NextBytes DEF Progress
    <3> QED  BY <3>1, <3>2 DEF Progress
  <2> QED  BY <2>2, <2>3
<1>5. CASE AccessFault
  BY <1>5 DEF AccessFault, Progress
<1>6. CASE UNCHANGED vars
  BY <1>6 DEF vars, Progress, DoneIndices, SegmentByte
<1> QED  BY <1>1, <1>2, <1>3, <1>4, <1>5, <1>6 DEF Next

(***************************************************************************)
(* The simulation, one lemma per kind of step.                             *)
(***************************************************************************)

\* the bytes of the abstract memory
LEMMA AbstractByte ==
  ASSUME NEW a \in Backed
  PROVE  /\ request = Idle => AbstractBytes[a] = SegmentByte(a)
         /\ request.op # "write" => AbstractBytes[a] = SegmentByte(a)
         /\ (\A i \in 0 .. request.n - 1 : ~ InFlight(a, i))
              => AbstractBytes[a] = SegmentByte(a)
         /\ \A i \in 0 .. request.n - 1 :
              /\ request # Idle /\ InFlight(a, i)
              /\ \A j \in 0 .. request.n - 1 : InFlight(a, j) => j = i
              => AbstractBytes[a] = request.data[i]
<1>1. AbstractBytes[a] =
        IF request # Idle /\ \E i \in 0 .. request.n - 1 : InFlight(a, i)
        THEN request.data[CHOOSE i \in 0 .. request.n - 1 : InFlight(a, i)]
        ELSE SegmentByte(a)
  BY DEF AbstractBytes
<1>2. ASSUME request.op # "write"
      PROVE  AbstractBytes[a] = SegmentByte(a)
  BY <1>1, <1>2 DEF InFlight
<1>3. ASSUME NEW i \in 0 .. request.n - 1, request # Idle, InFlight(a, i),
             \A j \in 0 .. request.n - 1 : InFlight(a, j) => j = i
      PROVE  AbstractBytes[a] = request.data[i]
  <2>1. (CHOOSE j \in 0 .. request.n - 1 : InFlight(a, j)) = i
    BY <1>3
  <2> QED  BY <1>1, <1>3, <2>1
<1> QED  BY <1>1, <1>2, <1>3

LEMMA SimulateStartRead ==
  ASSUME NEW addr \in Addr, NEW n \in Sizes, NEW executable \in BOOLEAN,
         StartRead(addr, n, executable)
  PROVE  Guest!StartRead(addr, n)
<1>1. /\ request = Idle /\ result' = NoResult /\ mem1' = mem1 /\ mem2' = mem2
      /\ request' = ReadRequest(addr, n, executable)
  BY DEF StartRead, segment1Vars, segment2Vars
<1>2. /\ request'.op = "read" /\ request' # Idle
      /\ request'.addr = addr /\ request'.n = n
  BY <1>1 DEF Idle, ReadRequest
<1>3. AbstractBytes' = AbstractBytes
  BY <1>1, <1>2 DEF AbstractBytes, InFlight, SegmentByte
<1>4. /\ AbstractRequest = [op |-> "idle"]
      /\ AbstractRequest' = [op |-> "read", addr |-> addr, n |-> n]
  BY <1>1, <1>2 DEF AbstractRequest
<1> QED  BY <1>1, <1>3, <1>4 DEF Guest!StartRead, Guest!NoRequest, Guest!NoResult, NoResult

LEMMA SimulateStartWrite ==
  ASSUME NEW addr \in Addr, NEW n \in Sizes, NEW data \in Bytes(n),
         StartWrite(addr, n, data)
  PROVE  Guest!StartWrite(addr, n, data)
<1>1. /\ request = Idle /\ result' = NoResult /\ mem1' = mem1 /\ mem2' = mem2
      /\ request' = WriteRequest(addr, n, data)
  BY DEF StartWrite, segment1Vars, segment2Vars
<1>2. /\ request'.op = "write" /\ request' # Idle /\ request'.done = 0
      /\ request'.addr = addr /\ request'.n = n /\ request'.data = data
  BY <1>1 DEF Idle, WriteRequest
<1>3. /\ AbstractRequest = [op |-> "idle"]
      /\ AbstractRequest' = [op |-> "write", addr |-> addr, n |-> n]
  BY <1>1, <1>2 DEF AbstractRequest
<1>4. ASSUME NEW a \in Backed
      PROVE  AbstractBytes'[a] = Guest!Stored(addr, n, data)[a]
  <2>1. AbstractBytes[a] = SegmentByte(a)
    BY <1>1, AbstractByte
  <2>2. SegmentByte(a)' = SegmentByte(a)
    BY <1>1 DEF SegmentByte
  <2> DEFINE reaches(i) == At(addr, i) = a /\ Guest!BackedUpTo(addr, i)
  <2>3. \A i \in 0 .. n - 1 : InFlight(a, i)' <=> reaches(i)
    BY <1>2 DEF InFlight, Guest!BackedUpTo
  <2>4. AbstractBytes'[a] =
          IF \E i \in 0 .. n - 1 : InFlight(a, i)'
          THEN data[CHOOSE i \in 0 .. n - 1 : InFlight(a, i)']
          ELSE SegmentByte(a)
    BY <1>2, <2>2 DEF AbstractBytes
  <2>5. Guest!Stored(addr, n, data)[a] =
          IF \E i \in 0 .. n - 1 : reaches(i)
          THEN data[CHOOSE i \in 0 .. n - 1 : At(addr, i) = a]
          ELSE AbstractBytes[a]
    BY DEF Guest!Stored
  <2>6. CASE \E i \in 0 .. n - 1 : reaches(i)
    <3>1. PICK i \in 0 .. n - 1 : reaches(i)
      BY <2>6
    <3>2. \A j \in 0 .. n - 1 : At(addr, j) = a => j = i
      BY <3>1, DifferentAddresses
    <3>3. (CHOOSE j \in 0 .. n - 1 : At(addr, j) = a) = i
      BY <3>1, <3>2
    <3>4. (CHOOSE j \in 0 .. n - 1 : InFlight(a, j)') = i
      BY <2>3, <3>1, <3>2
    <3> QED  BY <2>3, <2>4, <2>5, <3>1, <3>3, <3>4
  <2>7. CASE ~ \E i \in 0 .. n - 1 : reaches(i)
    BY <2>1, <2>3, <2>4, <2>5, <2>7
  <2> QED  BY <2>6, <2>7
<1>5. AbstractBytes' = Guest!Stored(addr, n, data)
  <2>1. AbstractBytes' = [a \in Backed |-> AbstractBytes'[a]]
    BY DEF AbstractBytes
  <2>2. Guest!Stored(addr, n, data) = [a \in Backed |-> Guest!Stored(addr, n, data)[a]]
    BY DEF Guest!Stored
  <2> QED  BY <1>4, <2>1, <2>2
<1> QED  BY <1>1, <1>3, <1>5 DEF Guest!StartWrite, Guest!NoRequest, Guest!NoResult, NoResult

\* a request that is served to its end meets no hole
LEMMA NoHole ==
  ASSUME RefinementInv, request # Idle, IsLastAccess(request),
         InMem1(NextAddr) \/ InMem2(NextAddr)
  PROVE  Guest!BackedUpTo(request.addr, request.n - 1)
<1> SUFFICES ASSUME NEW i \in 0 .. request.n - 1
             PROVE  At(request.addr, i) \in Backed
  BY DEF Guest!BackedUpTo
<1>1. i \in DoneIndices(request) \union NextIndices(request)
  BY AllDone DEF RefinementInv
<1>2. CASE i \in DoneIndices(request)
  BY <1>2 DEF RefinementInv, Progress
<1>3. CASE i \in NextIndices(request)
  BY <1>3, NextBytes DEF RefinementInv
<1> QED  BY <1>1, <1>2, <1>3

LEMMA SimulateRead ==
  ASSUME RefinementInv, ReadMem1 \/ ReadMem2
  PROVE  Guest!Finish \/ UNCHANGED Guest!vars
<1> USE DEF RefinementInv
<1>1. /\ request # Idle /\ request.op = "read" /\ (InMem1(NextAddr) \/ InMem2(NextAddr))
      /\ mem1' = mem1 /\ mem2' = mem2
  BY ReadPiece
<1>2. PICK data : Reads(data) /\ Served(data, ReadResult(data))
  BY ReadPiece
<1>3. \A a : SegmentByte(a)' = SegmentByte(a)
  BY <1>1 DEF SegmentByte
<1>4. AbstractBytes = [a \in Backed |-> SegmentByte(a)]
  BY <1>1 DEF AbstractBytes, InFlight
<1>5. CASE IsLastAccess(request)
  <2>1. request' = Idle /\ result' = ReadResult(data)
    BY <1>2, <1>5 DEF Served
  <2>2. request'.op # "write"
    BY <2>1 DEF Idle
  <2>3. AbstractBytes' = AbstractBytes
    BY <1>3, <1>4, <2>2 DEF AbstractBytes, InFlight
  <2>4. /\ AbstractRequest = [op |-> "read", addr |-> request.addr, n |-> request.n]
        /\ AbstractRequest' = [op |-> "idle"]
    BY <1>1, <2>1 DEF AbstractRequest
  <2>5. Guest!BackedUpTo(request.addr, request.n - 1)
    BY <1>1, <1>5, NoHole
  <2>6. DOMAIN request.data = 0 .. request.n - 1
    BY <1>1 DEF ArraysOK
  <2>7. ASSUME NEW i \in 0 .. request.n - 1
        PROVE  data[i] = AbstractBytes[At(request.addr, i)]
    <3>1. At(request.addr, i) \in Backed
      BY <2>5 DEF Guest!BackedUpTo
    <3>2. CASE i \in NextIndices(request)
      BY <1>2, <1>4, <2>6, <3>1, <3>2 DEF Reads
    <3>3. CASE i \notin NextIndices(request)
      <4>1. i \in DoneIndices(request)
        BY <1>1, <1>5, <3>3, AllDone
      <4> QED  BY <1>1, <1>2, <1>4, <2>6, <3>1, <3>3, <4>1 DEF Reads, Progress
    <3> QED  BY <3>2, <3>3
  <2>8. data = [i \in 0 .. request.n - 1 |-> AbstractBytes[At(request.addr, i)]]
    <3>1. data = [i \in 0 .. request.n - 1 |-> data[i]]
      BY <1>2, <2>6 DEF Reads
    <3> HIDE DEF AbstractBytes
    <3> QED  BY <2>7, <3>1
  <2> HIDE DEF RefinementInv, AbstractBytes
  <2> QED  BY <2>1, <2>3, <2>4, <2>5, <2>8
           DEF Guest!Finish, Guest!NoRequest, Guest!ReadResult, ReadResult
<1>6. CASE ~ IsLastAccess(request)
  <2>1. /\ request' # Idle /\ request'.op = "read" /\ request'.addr = request.addr
        /\ request'.n = request.n /\ result' = result
    BY <1>1, <1>2, <1>6, DoneNext
  <2>2. AbstractBytes' = AbstractBytes
    BY <1>3, <1>4, <2>1 DEF AbstractBytes, InFlight
  <2>3. AbstractRequest' = AbstractRequest
    BY <1>1, <2>1 DEF AbstractRequest
  <2> QED  BY <2>1, <2>2, <2>3 DEF Guest!vars
<1> QED  BY <1>5, <1>6

\* a byte that a write will reach after its next access
Pending(a, i) ==
  /\ i \in request.done + request.unit .. request.n - 1
  /\ At(request.addr, i) = a
  /\ \A j \in 0 .. i : At(request.addr, j) \in Backed

LEMMA InFlightSplits ==
  ASSUME RefinementInv, request # Idle, request.op = "write",
         InMem1(NextAddr) \/ InMem2(NextAddr),
         NEW a \in Backed, NEW i \in 0 .. request.n - 1
  PROVE  InFlight(a, i) <=> \/ Pending(a, i)
                            \/ i \in NextIndices(request) /\ At(request.addr, i) = a
<1> USE DEF RefinementInv
<1>1. /\ request.done \in Nat /\ request.unit \in Nat /\ request.unit >= 1
      /\ request.n \in Nat /\ request.done + request.unit <= request.n
  BY RequestNumbers
<1>2. NextIndices(request) = request.done .. request.done + request.unit - 1
  BY DEF NextIndices, NextIndex
<1>3. request.done .. request.n - 1
        = NextIndices(request) \union (request.done + request.unit .. request.n - 1)
  BY <1>1, <1>2
<1>4. ASSUME i \in NextIndices(request), NEW j \in 0 .. i
      PROVE  At(request.addr, j) \in Backed
  <2>1. j \in 0 .. request.done - 1 \/ j \in NextIndices(request)
    BY <1>1, <1>2, <1>4
  <2>2. CASE j \in 0 .. request.done - 1
    BY <2>2 DEF Progress, DoneIndices
  <2>3. CASE j \in NextIndices(request)
    BY <2>3, NextBytes
  <2> QED  BY <2>1, <2>2, <2>3
<1> QED  BY <1>3, <1>4 DEF InFlight, Pending

\* what the abstract memory holds, seen from the memory after the access
LEMMA AfterWrite ==
  ASSUME RefinementInv, request # Idle, request.op = "write",
         InMem1(NextAddr) \/ InMem2(NextAddr), Stores, NEW a \in Backed
  PROVE  AbstractBytes[a] =
           IF \E i \in 0 .. request.n - 1 : Pending(a, i)
           THEN request.data[CHOOSE i \in 0 .. request.n - 1 : Pending(a, i)]
           ELSE SegmentByte(a)'
<1> DEFINE I == 0 .. request.n - 1
<1>1. request.addr \in Addr /\ request.n \in Sizes
  BY RequestNumbers DEF RefinementInv
<1>2. \A i, j \in I : At(request.addr, i) = a /\ At(request.addr, j) = a => i = j
  BY <1>1, DifferentAddresses
<1>3. \A i \in I : InFlight(a, i) <=> \/ Pending(a, i)
                                      \/ i \in NextIndices(request) /\ At(request.addr, i) = a
  BY InFlightSplits
<1>4. \A i \in I : InFlight(a, i) \/ Pending(a, i) => At(request.addr, i) = a
  BY DEF InFlight, Pending
<1>5. \A i \in NextIndices(request) : i \in I
  BY NextBytes DEF RefinementInv
<1>6. CASE \E i \in I : Pending(a, i)
  <2>1. PICK i \in I : Pending(a, i)
    BY <1>6
  <2>2. (CHOOSE j \in I : Pending(a, j)) = i
    BY <1>2, <1>4, <2>1
  <2>3. InFlight(a, i) /\ \A j \in I : InFlight(a, j) => j = i
    BY <1>2, <1>3, <1>4, <2>1
  <2>4. AbstractBytes[a] = request.data[i]
    BY <2>3, AbstractByte
  <2> QED  BY <1>6, <2>2, <2>4
<1>7. CASE /\ ~ \E i \in I : Pending(a, i)
           /\ \E i \in NextIndices(request) : At(request.addr, i) = a
  <2>1. PICK i \in NextIndices(request) : At(request.addr, i) = a
    BY <1>7
  <2>2. InFlight(a, i) /\ \A j \in I : InFlight(a, j) => j = i
    BY <1>2, <1>3, <1>4, <1>5, <2>1
  <2>3. AbstractBytes[a] = request.data[i]
    BY <1>5, <2>2, AbstractByte
  <2>4. SegmentByte(a)' = request.data[i]
    BY <2>1 DEF Stores
  <2> QED  BY <1>7, <2>3, <2>4
<1>8. CASE /\ ~ \E i \in I : Pending(a, i)
           /\ ~ \E i \in NextIndices(request) : At(request.addr, i) = a
  <2>1. SegmentByte(a)' = SegmentByte(a)
    BY <1>8 DEF Stores
  <2>2. AbstractBytes[a] = SegmentByte(a)
    BY <1>3, <1>8, AbstractByte
  <2> QED  BY <1>8, <2>1, <2>2
<1> QED  BY <1>6, <1>7, <1>8

LEMMA SimulateWrite ==
  ASSUME RefinementInv, WriteMem1 \/ WriteMem2
  PROVE  Guest!Finish \/ UNCHANGED Guest!vars
<1>1. /\ request # Idle /\ request.op = "write" /\ (InMem1(NextAddr) \/ InMem2(NextAddr))
      /\ Stores /\ Served(request.data, WriteResult)
  BY WritePiece DEF RefinementInv
<1>2. ASSUME NEW a \in Backed
      PROVE  AbstractBytes[a] =
               IF \E i \in 0 .. request.n - 1 : Pending(a, i)
               THEN request.data[CHOOSE i \in 0 .. request.n - 1 : Pending(a, i)]
               ELSE SegmentByte(a)'
  BY <1>1, AfterWrite
<1>3. /\ AbstractBytes = [a \in Backed |-> AbstractBytes[a]]
      /\ AbstractBytes' = [a \in Backed |-> AbstractBytes'[a]]
  BY DEF AbstractBytes
<1>4. /\ request.done \in Nat /\ request.unit \in Nat /\ request.n \in Nat
      /\ request.done + request.unit <= request.n
  BY <1>1, RequestNumbers DEF RefinementInv
<1>5. CASE IsLastAccess(request)
  <2>1. request' = Idle /\ result' = WriteResult
    BY <1>1, <1>5 DEF Served
  <2>2. request'.op # "write"
    BY <2>1 DEF Idle
  <2>3. ASSUME NEW a \in Backed
        PROVE  AbstractBytes'[a] = AbstractBytes[a]
    <3>1. AbstractBytes'[a] = SegmentByte(a)'
      BY <2>2 DEF AbstractBytes, InFlight
    <3>2. \A i : ~ Pending(a, i)
      BY <1>4, <1>5 DEF Pending, IsLastAccess
    <3> QED  BY <1>2, <3>1, <3>2
  <2>4. AbstractBytes' = AbstractBytes
    BY <1>3, <2>3
  <2>5. /\ AbstractRequest = [op |-> "write", addr |-> request.addr, n |-> request.n]
        /\ AbstractRequest' = [op |-> "idle"]
    BY <1>1, <2>1 DEF AbstractRequest
  <2>6. Guest!BackedUpTo(request.addr, request.n - 1)
    BY <1>1, <1>5, NoHole
  <2> QED  BY <2>1, <2>4, <2>5, <2>6
           DEF Guest!Finish, Guest!NoRequest, Guest!WriteResult, WriteResult
<1>6. CASE ~ IsLastAccess(request)
  <2>1. /\ request' # Idle /\ request'.op = "write" /\ request'.addr = request.addr
        /\ request'.n = request.n /\ request'.data = request.data
        /\ request'.done = request.done + request.unit /\ result' = result
    BY <1>1, <1>6, DoneNext DEF RefinementInv
  <2>2. ASSUME NEW a \in Backed
        PROVE  AbstractBytes'[a] = AbstractBytes[a]
    <3>1. \A i : InFlight(a, i)' <=> Pending(a, i)
      BY <2>1 DEF InFlight, Pending
    <3>2. AbstractBytes'[a] =
            IF \E i \in 0 .. request.n - 1 : InFlight(a, i)'
            THEN request.data[CHOOSE i \in 0 .. request.n - 1 : InFlight(a, i)']
            ELSE SegmentByte(a)'
      BY <2>1 DEF AbstractBytes
    <3> QED  BY <1>2, <3>1, <3>2
  <2>3. AbstractBytes' = AbstractBytes
    BY <1>3, <2>2
  <2>4. AbstractRequest' = AbstractRequest
    BY <1>1, <2>1 DEF AbstractRequest
  <2> QED  BY <2>1, <2>3, <2>4 DEF Guest!vars
<1> QED  BY <1>5, <1>6

LEMMA SimulateFault ==
  ASSUME RefinementInv, AccessFault
  PROVE  Guest!Finish
<1>1. /\ request # Idle /\ ~ InMem1(NextAddr) /\ ~ InMem2(NextAddr)
      /\ request' = Idle /\ result' = Fault /\ mem1' = mem1 /\ mem2' = mem2
  BY DEF AccessFault, segment1Vars, segment2Vars
<1>2. /\ request.op \in {"read", "write"} /\ request.done \in Nat
      /\ NextIndex(request) \in 0 .. request.n - 1
  BY <1>1, RequestNumbers DEF RefinementInv
<1>3. At(request.addr, NextIndex(request)) \notin Backed
  BY <1>1 DEF Backed, NextAddr
<1>4. ~ Guest!BackedUpTo(request.addr, request.n - 1)
  BY <1>2, <1>3 DEF Guest!BackedUpTo
<1>5. ASSUME NEW a, NEW i, InFlight(a, i)
      PROVE  FALSE
  <2>1. /\ request.op = "write" /\ i \in request.done .. request.n - 1
        /\ \A j \in 0 .. i : At(request.addr, j) \in Backed
    BY <1>5 DEF InFlight
  <2>2. NextIndex(request) \in 0 .. i
    BY <1>2, <2>1 DEF NextIndex
  <2> QED  BY <1>3, <2>1, <2>2
<1>6. AbstractBytes' = AbstractBytes
  <2>1. request'.op # "write"
    BY <1>1 DEF Idle
  <2>2. AbstractBytes' = [a \in Backed |-> SegmentByte(a)']
    BY <2>1 DEF AbstractBytes, InFlight
  <2>3. \A a : SegmentByte(a)' = SegmentByte(a)
    BY <1>1 DEF SegmentByte
  <2>4. AbstractBytes = [a \in Backed |-> SegmentByte(a)]
    BY <1>5 DEF AbstractBytes
  <2> QED  BY <2>2, <2>3, <2>4
<1>7. /\ AbstractRequest = [op |-> request.op, addr |-> request.addr, n |-> request.n]
      /\ AbstractRequest' = [op |-> "idle"]
  BY <1>1 DEF AbstractRequest
<1>8. request.op # "idle"
  BY <1>2
<1> QED  BY <1>1, <1>4, <1>6, <1>7, <1>8 DEF Guest!Finish, Guest!NoRequest, Guest!Fault, Fault

(***************************************************************************)
(* The refinement.                                                         *)
(***************************************************************************)

\* the words of a new segment, which starts at base, hold 0
LEMMA NewSegment ==
  ASSUME NEW base \in Nat, NEW size \in Nat, size % WordBytes = 0,
         NEW a \in base .. base + size - 1
  PROVE  ByteIn([off \in 0 .. (size \div WordBytes) - 1 |->
                   [b \in 0 .. WordBytes - 1 |-> 0]], base, a) = 0
<1>1. (a - base) \div WordBytes \in 0 .. (size \div WordBytes) - 1
  BY WordOfByte
<1>2. (a - base) % WordBytes \in 0 .. WordBytes - 1
  <2>1. CASE WordBytes = 2  BY <2>1
  <2>2. CASE WordBytes = 4  BY <2>2
  <2>3. CASE WordBytes = 8  BY <2>3
  <2> QED  BY <2>1, <2>2, <2>3, Constants
<1> QED  BY <1>1, <1>2 DEF ByteIn

LEMMA InitRefines == Init => RefinementInv /\ Guest!Init
<1> SUFFICES ASSUME Init PROVE RefinementInv /\ Guest!Init
  OBVIOUS
<1>1. /\ mem1 = [off \in 0 .. (Size1 \div WordBytes) - 1 |-> [b \in 0 .. WordBytes - 1 |-> 0]]
      /\ mem2 = [off \in 0 .. (Size2 \div WordBytes) - 1 |-> [b \in 0 .. WordBytes - 1 |-> 0]]
      /\ request = Idle /\ result = NoResult
  BY DEF Init, Mem1!Init, Mem2!Init, Mem1!Offset, Mem2!Offset, Mem1!InWord, Mem2!InWord,
         Mem1!Idle, Idle, Mem1!NoResult, NoResult
<1>2. RefinementInv
  BY <1>1 DEF RefinementInv, RequestInv, ArraysOK, Progress
<1>3. ASSUME NEW a \in Backed
      PROVE  AbstractBytes[a] = 0
  <2>1. a \in Nat /\ (InMem1(a) \/ InMem2(a))
    <3>1. HugeAddr \in Nat  BY Constants
    <3> HIDE DEF HugeAddr
    <3> QED  BY <3>1 DEF Backed, Addr
  <2>2. /\ Base1 \in Nat /\ Size1 \in Nat /\ Size1 % WordBytes = 0
        /\ Base2 \in Nat /\ Size2 \in Nat /\ Size2 % WordBytes = 0
    BY SegmentsAssumption
  <2>3. AbstractBytes[a] = SegmentByte(a)
    BY <1>1, AbstractByte
  <2>4. CASE InMem1(a)
    <3>1. a \in Base1 .. Base1 + Size1 - 1
      BY <2>1, <2>4, InMem1Is
    <3>2. ByteIn(mem1, Base1, a) = 0
      BY <1>1, <2>2, <3>1, NewSegment
    <3> QED  BY <2>1, <2>3, <2>4, <3>2, SegmentByteIs
  <2>5. CASE InMem2(a)
    <3>1. a \in Base2 .. Base2 + Size2 - 1
      BY <2>1, <2>5, InMem2Is
    <3>2. ByteIn(mem2, Base2, a) = 0
      BY <1>1, <2>2, <3>1, NewSegment
    <3> QED  BY <2>1, <2>3, <2>5, <3>2, SegmentByteIs
  <2> QED  BY <2>1, <2>4, <2>5
<1>4. AbstractBytes = [a \in Backed |-> 0]
  <2>1. AbstractBytes = [a \in Backed |-> AbstractBytes[a]]
    BY DEF AbstractBytes
  <2> HIDE DEF AbstractBytes
  <2> QED  BY <1>3, <2>1
<1>5. AbstractRequest = [op |-> "idle"]
  BY <1>1 DEF AbstractRequest
<1> QED  BY <1>1, <1>2, <1>4, <1>5 DEF Guest!Init, Guest!NoRequest, Guest!NoResult, NoResult

LEMMA NextRefines == RefinementInv /\ [Next]_vars => [Guest!Next]_(Guest!vars)
<1> SUFFICES ASSUME RefinementInv, [Next]_vars
             PROVE  Guest!Next \/ UNCHANGED Guest!vars
  OBVIOUS
<1>1. ASSUME NEW addr \in Addr, NEW n \in Sizes, NEW executable \in BOOLEAN,
             StartRead(addr, n, executable)
      PROVE  Guest!Next
  <2>1. Guest!StartRead(addr, n)
    BY <1>1, SimulateStartRead
  <2>2. <<addr, n>> \in Addr \X Sizes
    OBVIOUS
  <2> QED  BY <2>1, <2>2 DEF Guest!Next
<1>2. ASSUME NEW addr \in Addr, NEW n \in Sizes, NEW data \in Bytes(n),
             StartWrite(addr, n, data)
      PROVE  Guest!Next
  <2>1. Guest!StartWrite(addr, n, data)
    BY <1>2, SimulateStartWrite
  <2>2. <<addr, n>> \in Addr \X Sizes
    OBVIOUS
  <2>3. data \in Guest!Bytes(n)
    BY DEF Bytes, Guest!Bytes
  <2> QED  BY <2>1, <2>2, <2>3 DEF Guest!Next
<1>3. CASE ReadMem1 \/ ReadMem2
  BY <1>3, SimulateRead DEF Guest!Next
<1>4. CASE WriteMem1 \/ WriteMem2
  BY <1>4, SimulateWrite DEF Guest!Next
<1>5. CASE AccessFault
  BY <1>5, SimulateFault DEF Guest!Next
<1>6. CASE UNCHANGED vars
  BY <1>6 DEF vars, Guest!vars, AbstractBytes, InFlight, SegmentByte, AbstractRequest
<1> QED  BY <1>1, <1>2, <1>3, <1>4, <1>5, <1>6 DEF Next

\* For every width of an address and every two aligned segments, SplitMemory is
\* a byte memory with holes for the program that uses it: a request is routed,
\* straddles two segments, wraps around or runs into a hole, and what it
\* returns and leaves behind is what the byte memory would.
THEOREM SplitMemoryImplementsGuestMemory == Spec => ImplementsGuestMemory
<1>1. RefinementInv /\ [Next]_vars => RefinementInv'
  BY NextInv, NextArrays, NextProgress DEF RefinementInv
<1> QED  BY <1>1, InitRefines, NextRefines, PTL
         DEF Spec, ImplementsGuestMemory, Guest!Spec
=============================================================================
