------------------------------ MODULE PODArray ------------------------------
(***************************************************************************)
(* The dynamic arrays of utils/PODArray.h: storage from libnuma, padded on *)
(* both sides, that grows by doubling and is moved between arrays.         *)
(*                                                                         *)
(* Pointers are kept as byte distances from c_start.  An element is a      *)
(* slot; slot -1 is the element before the first, which lives in the left  *)
(* padding.  One action is one call, with the reallocation it makes.  The  *)
(* arrays are used by one thread, as the code requires.  socket_id selects *)
(* the memory node and nothing else, and is left out.                      *)
(***************************************************************************)
EXTENDS Integers, Sequences, FiniteSets

CONSTANTS
  Arrays,     (* the array objects                                         *)
  Blocks,     (* the storage libnuma can hand out: 1 .. n                  *)
  Values,     (* the elements' values                                      *)
  Zero,       (* the element whose bytes are zero                          *)
  Layouts,    (* instantiations of the template                            *)
  MaxSize,    (* bound: elements in an array                               *)
  Gone        (* an array before its constructor and after its destructor  *)

ASSUME PODArrayAssumption ==
  /\ Zero \in Values
  /\ MaxSize \in Nat
  /\ IsFiniteSet(Arrays) /\ IsFiniteSet(Blocks)
  /\ Blocks = 1 .. Cardinality(Blocks)
  /\ Cardinality(Blocks) > Cardinality(Arrays)
  /\ Gone \notin [block : Nat, end : Nat, room : Nat]
  /\ \A l \in Layouts :
       /\ l.ELEMENT_SIZE \in Nat \ {0} /\ l.INITIAL_SIZE \in Nat \ {0}
       /\ l.pad_right_ \in Nat /\ l.pad_left_ \in Nat

VARIABLES
  layout,     (* the instantiation in use: never changes                   *)
  arr,        (* the members of each array: block, end, room               *)
  heap,       (* the bytes asked of libnuma for each block, 0 when free    *)
  mem,        (* the elements in each block                                *)
  value,      (* history: the elements each array should have, by what was *)
              (* called                                                    *)
  undefined   (* the undefined behaviour a call had, or "none"             *)

vars == <<layout, arr, heap, mem, value, undefined>>

NoBlock == 0                               \* c_start = null

Slots == -1 .. MaxSize

Inputs == UNION {[1 .. n -> Values] : n \in 0 .. MaxSize}

(* What a caller expects of a sequence: that it is cut or filled up to n   *)
(* elements, and that xs replaces `cut` elements from slot p on.           *)
Filled(s, n, v) == [i \in 1 .. n |-> IF i <= Len(s) THEN s[i] ELSE v]

Spliced(s, p, cut, xs) == SubSeq(s, 1, p) \o xs \o SubSeq(s, p + cut + 1, Len(s))

----------------------------------------------------------------------------
(* Sizes *)

integerRoundUp(v, dividend) == ((v + dividend - 1) \div dividend) * dividend

(* Every divisor but 1 is even. *)
PowerOfTwo(p) == \A d \in 2 .. p : p % d = 0 => d % 2 = 0

(* The sizes are small enough not to wrap. *)
roundUpToPowerOfTwoOrZero(n) ==
  IF n = 0 THEN 0 ELSE CHOOSE p \in n .. 2 * n - 1 : PowerOfTwo(p)

E == layout.ELEMENT_SIZE

pad_right == integerRoundUp(layout.pad_right_, E)

pad_left == integerRoundUp(integerRoundUp(layout.pad_left_, E), 16)

(* Fault: the storage has no room for the padding. *)
UnpaddedMinimum(n) == n * E

minimum_memory_for_elements(n) == n * E + pad_right + pad_left

size(o) == o.end \div E

capacity(o) == o.room \div E

(* Fault: the left padding is not given back. *)
AllocatedWithoutLeft(o) == o.room + pad_right

allocated_bytes(o) == o.room + pad_right + pad_left

Live == {a \in Arrays : arr[a] # Gone}

Content(a) ==
  IF a \in Live THEN [i \in 1 .. size(arr[a]) |-> mem[arr[a].block][i - 1]] ELSE Gone

----------------------------------------------------------------------------
(* Memory.  A call works on a record of the array's members, the heap, the *)
(* memory and whether all it touched was its own storage.                  *)

Null == [block |-> NoBlock, end |-> 0, room |-> 0]

Working(o) == [o |-> o, heap |-> heap, mem |-> mem, inside |-> TRUE]

(* numa_alloc_*: a fresh zeroed mapping, or null when no bytes are asked.  *)
alloc(r, bytes) ==
  LET b == CHOOSE b \in Blocks : r.heap[b] = 0 /\ \A c \in Blocks : c < b => r.heap[c] # 0
  IN  IF bytes = 0 THEN r
      ELSE [r EXCEPT !.o = [block |-> b, end |-> 0, room |-> bytes - pad_right - pad_left],
                     !.heap[b] = bytes,
                     !.mem[b] = [i \in Slots |-> Zero]]

(* numa_realloc keeps what was there; the mapping may move.                *)
realloc(r, bytes) ==
  IF r.o.block = NoBlock THEN alloc(r, bytes)
  ELSE [r EXCEPT !.o.room = bytes - pad_right - pad_left, !.heap[r.o.block] = bytes]

reserveForNextSize(r) ==
  LET first == integerRoundUp(layout.INITIAL_SIZE, E)
      least == minimum_memory_for_elements(1)
  IN  realloc(r, IF size(r.o) # 0 THEN 2 * allocated_bytes(r.o)
                 ELSE IF first > least THEN first ELSE least)

(* Fault: an array grows when it is full to its capacity. *)
ReserveEarly(r, n) ==
  IF n >= capacity(r.o) THEN realloc(r, roundUpToPowerOfTwoOrZero(minimum_memory_for_elements(n)))
  ELSE r

reserve(r, n) ==
  IF n > capacity(r.o) THEN realloc(r, roundUpToPowerOfTwoOrZero(minimum_memory_for_elements(n)))
  ELSE r

(* Fault: it is left to the caller to reserve. *)
AssumeReserved(r, required) == r

(* Used by insert and assign, which round twice.                           *)
insertPrepare(r, required) ==
  IF required > capacity(r.o) THEN reserve(r, roundUpToPowerOfTwoOrZero(required)) ELSE r

(* The elements xs are written from slot at on, by code that touches the   *)
(* bytes up to `reach`.                                                    *)
Write(r, at, xs, reach) ==
  IF xs = <<>> THEN r
  ELSE IF r.o.block = NoBlock THEN [r EXCEPT !.inside = FALSE]
  ELSE [r EXCEPT !.mem[r.o.block] = [i \in Slots |-> IF at <= i /\ i < at + Len(xs)
                                                     THEN xs[i - at + 1] ELSE @[i]],
                 !.inside = @ /\ reach <= r.heap[r.o.block] - pad_left]

memcpy(r, at, xs) == Write(r, at, xs, (at + Len(xs)) * E)

SetSize(r, n) == [r EXCEPT !.o.end = n * E]

(* The call ends; the caller expects array a to have the elements s.       *)
Commit(a, r, s) ==
  /\ arr' = [arr EXCEPT ![a] = r.o]
  /\ heap' = r.heap
  /\ mem' = r.mem
  /\ value' = [value EXCEPT ![a] = s]
  /\ undefined' = IF r.inside THEN "none" ELSE "outside"
  /\ UNCHANGED layout

(* Nothing is known of the program from here on. *)
Undefined(why) == undefined' = why /\ UNCHANGED <<layout, arr, heap, mem, value>>

Members == [block : Blocks \cup {NoBlock}, end : Nat, room : Nat]

TypeOK ==
  /\ layout \in Layouts
  /\ arr \in [Arrays -> Members \cup {Gone}]
  /\ heap \in [Blocks -> Nat]
  /\ mem \in [Blocks -> [Slots -> Values]]
  /\ \A a \in Live : value[a] \in Inputs
  /\ undefined \in {"none", "outside", "left", "stale", "overlap"}

Init ==
  /\ layout \in Layouts
  /\ arr = [a \in Arrays |-> Gone]
  /\ heap = [b \in Blocks |-> 0]
  /\ mem = [b \in Blocks |-> [i \in Slots |-> Zero]]
  /\ value = [a \in Arrays |-> Gone]
  /\ undefined = "none"

----------------------------------------------------------------------------
(* Constructors and the destructor *)

Construct(a) == arr[a] = Gone /\ Commit(a, Working(Null), <<>>)

alloc_for_num_elements(r, n) == alloc(r, roundUpToPowerOfTwoOrZero(minimum_memory_for_elements(n)))

(* PODArray(n, socket_id): the elements are what the fresh mapping holds.  *)
ConstructSized(a, n) ==
  /\ arr[a] = Gone
  /\ Commit(a, SetSize(alloc_for_num_elements(Working(Null), n), n), Filled(<<>>, n, Zero))

(* insert(from, to): at the end. *)
insert(r, xs) ==
  LET n == size(r.o)
  IN  SetSize(memcpy(insertPrepare(r, n + Len(xs)), n, xs), n + Len(xs))

ConstructRange(a, xs) ==
  arr[a] = Gone /\ Commit(a, insert(alloc_for_num_elements(Working(Null), Len(xs)), xs), xs)

(* The freed mapping's content is gone. *)
Destroy(a) ==
  LET b == arr[a].block
  IN  /\ arr[a] # Gone
      /\ Commit(a, IF b = NoBlock THEN Working(Gone)
                   ELSE [Working(Gone) EXCEPT !.heap[b] = 0, !.mem[b] = [i \in Slots |-> Zero]],
                Gone)

isInitialized(o) == o.block # NoBlock

(* Fault: arrays are left as they are when one of them has no storage. *)
SwappedIfBoth(o, p) == IF ~isInitialized(o) \/ ~isInitialized(p) THEN <<o, p>> ELSE <<p, o>>

(* What swap makes of two arrays' members. *)
Swapped(o, p) == IF ~isInitialized(o) /\ ~isInitialized(p) THEN <<o, p>> ELSE <<p, o>>

(* swap, which is also the move assignment. *)
Swap(a, c) ==
  /\ arr[a] # Gone /\ arr[c] # Gone
  /\ arr' = [arr EXCEPT ![a] = Swapped(arr[a], arr[c])[1], ![c] = Swapped(arr[a], arr[c])[2]]
  /\ value' = [value EXCEPT ![a] = value[c], ![c] = value[a]]
  /\ UNCHANGED <<layout, heap, mem, undefined>>

(* PODArray(PODArray &&other) *)
MoveConstruct(a, c) ==
  /\ arr[a] = Gone /\ arr[c] # Gone
  /\ arr' = [arr EXCEPT ![a] = Swapped(Null, arr[c])[1], ![c] = Swapped(Null, arr[c])[2]]
  /\ value' = [value EXCEPT ![a] = value[c], ![c] = <<>>]
  /\ UNCHANGED <<layout, heap, mem, undefined>>

(* assign(from, to) *)
assign(r, xs) == SetSize(memcpy(insertPrepare(r, Len(xs)), 0, xs), Len(xs))

(* a is constructed from c.clone().  It also copies the element before the *)
(* first, which is outside the storage when there is no left padding.      *)
Clone(a, c) ==
  LET n == size(arr[c])
      copied == assign(SetSize(alloc_for_num_elements(Working(Null), n), n), Content(c))
  IN  /\ arr[a] = Gone /\ arr[c] # Gone
      /\ IF n # 0 /\ pad_left = 0 THEN Undefined("left")
         ELSE Commit(a, IF n = 0 THEN copied
                        ELSE Write(copied, -1, <<mem[arr[c].block][-1]>>, 0), value[c])

----------------------------------------------------------------------------
(* Operations on one array.  A value passed by reference may be an element *)
(* of the array itself (own): it is gone when the call moves the storage.  *)

CommitUnlessStale(a, r, own, s) ==
  IF own /\ r.heap # heap THEN Undefined("stale") ELSE Commit(a, r, s)

Mine(a, v, own) == a \in Live /\ (own => \E i \in DOMAIN Content(a) : Content(a)[i] = v)

Clear(a) == a \in Live /\ Commit(a, SetSize(Working(arr[a]), 0), <<>>)

Reserve(a, n) == a \in Live /\ Commit(a, reserve(Working(arr[a]), n), value[a])

(* The elements it adds are whatever is there. *)
Resize(a, n) ==
  LET r == SetSize(reserve(Working(arr[a]), n), n)
  IN  /\ a \in Live
      /\ Commit(a, r, [i \in 1 .. n |-> IF i <= Len(value[a]) THEN value[a][i]
                                        ELSE r.mem[r.o.block][i - 1]])

(* resize_fill(n), which adds zeros, and resize_fill(n, v). *)
ResizeFill(a, n, v, own) ==
  LET old == size(arr[a])
      fill == [i \in 1 .. n - old |-> v]
      r == IF n > old THEN memcpy(reserve(Working(arr[a]), n), old, fill) ELSE Working(arr[a])
  IN  Mine(a, v, own) /\ CommitUnlessStale(a, SetSize(r, n), own, Filled(value[a], n, v))

(* push_back, emplace_back and push_back_raw *)
PushBack(a, v, own) ==
  LET o == arr[a]
      r == IF o.end = o.room THEN reserveForNextSize(Working(o)) ELSE Working(o)
  IN  /\ Mine(a, v, own)
      /\ size(o) < MaxSize
      /\ CommitUnlessStale(a, SetSize(memcpy(r, size(o), <<v>>), size(o) + 1), own,
                           Append(value[a], v))

PopBack(a) ==
  /\ a \in Live /\ size(arr[a]) > 0
  /\ Commit(a, SetSize(Working(arr[a]), size(arr[a]) - 1), Spliced(value[a], size(arr[a]) - 1, 1, <<>>))

Insert(a, xs) ==
  /\ a \in Live /\ size(arr[a]) + Len(xs) <= MaxSize
  /\ Commit(a, insert(Working(arr[a]), xs), value[a] \o xs)

(* Copies in steps of 16 bytes: what follows the elements is overwritten.  *)
InsertSmallAllowReadWriteOverflow15(a, xs) ==
  LET n == size(arr[a])
      copied == integerRoundUp(Len(xs) * E, 16)
  IN  /\ a \in Live /\ n + Len(xs) <= MaxSize /\ layout.pad_right_ >= 15
      /\ \E junk \in [1 .. (copied + E - 1) \div E - Len(xs) -> Values] :
           LET r == Write(insertPrepare(Working(arr[a]), n + Len(xs)), n, xs \o junk, n * E + copied)
           IN  Commit(a, SetSize(r, n + Len(xs)), value[a] \o xs)

(* insert(it, from, to), it pointing to slot p.  The tail is measured from *)
(* `it` after insertPrepare may have moved the storage, and moved by a     *)
(* memcpy whose source and destination overlap when it is longer than xs.  *)
InsertAt(a, p, xs) ==
  LET n == size(arr[a])
      tail == SubSeq(Content(a), p + 1, n)
      r == insertPrepare(Working(arr[a]), n + Len(xs))
  IN  /\ a \in Live /\ p <= n /\ n + Len(xs) <= MaxSize
      /\ IF r.heap # heap THEN Undefined("stale")
         ELSE IF Len(xs) < Len(tail) THEN Undefined("overlap")
         ELSE Commit(a, SetSize(memcpy(memcpy(r, p + Len(xs), tail), p, xs), n + Len(xs)),
                     Spliced(value[a], p, 0, xs))

AssignFill(a, n, v, own) ==
  LET r == reserve(Working(arr[a]), n)
      fill == Filled(<<>>, n, v)
  IN  Mine(a, v, own) /\ CommitUnlessStale(a, SetSize(memcpy(r, 0, fill), n), own, fill)

(* assign(from, to) and assign(from), the range being another's elements.  *)
Assign(a, xs) == a \in Live /\ Commit(a, assign(Working(arr[a]), xs), xs)

(* a[i] = v; the element before the first may be written when it exists.   *)
SetElement(a, i, v) ==
  /\ a \in Live /\ i < size(arr[a]) /\ (i = -1 => pad_left > 0 /\ arr[a].block # NoBlock)
  /\ Commit(a, Write(Working(arr[a]), i, <<v>>, (i + 1) * E),
            IF i = -1 THEN value[a] ELSE [value[a] EXCEPT ![i + 1] = v])

----------------------------------------------------------------------------
Sizes == 0 .. MaxSize

OnOne(a) ==
  \/ Construct(a) \/ Destroy(a) \/ Clear(a) \/ PopBack(a)
  \/ \E n \in Sizes : ConstructSized(a, n) \/ Reserve(a, n) \/ Resize(a, n)
  \/ \E v \in Values, own \in BOOLEAN :
       PushBack(a, v, own) \/ \E n \in Sizes : ResizeFill(a, n, v, own) \/ AssignFill(a, n, v, own)
  \/ \E i \in -1 .. MaxSize - 1, v \in Values : SetElement(a, i, v)
  \/ \E xs \in Inputs :
       \/ ConstructRange(a, xs) \/ Insert(a, xs) \/ Assign(a, xs)
       \/ InsertSmallAllowReadWriteOverflow15(a, xs)
       \/ \E p \in Sizes : InsertAt(a, p, xs)

Next ==
  /\ undefined = "none"
  /\ \/ \E a \in Arrays : OnOne(a)
     \/ \E a, c \in Arrays : Swap(a, c) \/ MoveConstruct(a, c) \/ Clone(a, c)

Spec == Init /\ [][Next]_vars

----------------------------------------------------------------------------
(* Properties *)

(* Every block handed out belongs to exactly one array, which knows its    *)
(* size to the byte: numa_free and numa_realloc are told how much there is *)
(* to free or move, and nothing is lost or freed twice by swap, move and   *)
(* clone (PODArrayBase::dealloc, realloc, allocated_bytes).                *)
StorageOwned ==
  undefined = "none" =>
    /\ \A b \in Blocks : heap[b] # 0 =>
         \E a \in Live : arr[a].block = b /\ heap[b] = allocated_bytes(arr[a])
    /\ \A a \in Live : arr[a].block # NoBlock => heap[arr[a].block] # 0
    /\ \A a, c \in Live : a # c /\ arr[a].block # NoBlock => arr[a].block # arr[c].block

(* "Padding is enough to read and write xmm-register at the address of the *)
(* last element", as the comment on Vector says (PODArray.h:424).          *)
PaddingEnough ==
  \A a \in Live :
    layout.pad_right_ >= 15 /\ size(arr[a]) > 0 =>
      /\ arr[a].block # NoBlock
      /\ arr[a].end - E + 16 <= heap[arr[a].block] - pad_left

(* No operation touches bytes beyond the storage, and only clone touches   *)
(* bytes before it (push_back's test for a full array, reserve's rounding, *)
(* the 16-byte copies).                                                    *)
InsideStorage == undefined # "outside"

(* A call whose result fits in the capacity, reserve itself aside, leaves  *)
(* the storage where it is: that is what makes references and iterators    *)
(* into a reserved array safe (reserve, insertPrepare, push_back).         *)
StaysPut ==
  [][\A a \in Live :
       /\ arr'[a] # Gone
       /\ arr'[a].block = arr[a].block
       /\ size(arr'[a]) <= capacity(arr[a])
       /\ ~ \E n \in Sizes : Reserve(a, n)
       => arr'[a].room = arr[a].room]_vars

(* Unless a call had undefined behaviour, the elements of every array are  *)
(* those the calls so far put there, whatever growing, swapping, moving    *)
(* and cloning did to the storage.                                         *)
ContentAsCalled == undefined = "none" => value = [a \in Arrays |-> Content(a)]

(* What the members o of an array say of its storage in heap h.  Only when *)
(* elements have a size that is a power of two does the storage end with   *)
(* one, so that push_back's test finds it full.                            *)
Fits(o, h) ==
  /\ IF o.block = NoBlock THEN o = Null
     ELSE h[o.block] = allocated_bytes(o) /\ h[o.block] # 0
  /\ o.end % E = 0
  /\ PowerOfTwo(E) => o.room % E = 0 /\ o.end <= o.room

(* Every block handed out is in exactly one array, which fits it. *)
HeapOK ==
  /\ \A a \in Live : Fits(arr[a], heap)
  /\ \A b \in Blocks : heap[b] # 0 => \E a \in Live : arr[a].block = b
  /\ \A a, c \in Live : a # c /\ arr[a].block # NoBlock => arr[a].block # arr[c].block

(* The inductive invariant: the members agree with the storage, which      *)
(* holds what was called for (all of PODArray).                            *)
Inv ==
  /\ TypeOK /\ HeapOK
  /\ value = [a \in Arrays |-> Content(a)]
  /\ PowerOfTwo(E) => InsideStorage
============================================================================
