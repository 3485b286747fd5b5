------------------------------ MODULE RowTable ------------------------------
(***************************************************************************)
(* The struct-array convention: write_rows(), which every table export of  *)
(* the library goes through, and the macro by which a host decides which   *)
(* fields of a returned row it may read (BWAPI_HAS_FIELD).                 *)
(*                                                                         *)
(* The host and the DLL need not have been compiled against the same       *)
(* header.  The host's array has rows of its own size, its stride, which   *)
(* it stores in the size word of element zero; the DLL has rows of         *)
(* RowBytes bytes.  Memory is an array of cells, one per byte, and a cell  *)
(* says where its content came from.                                       *)
(*                                                                         *)
(* fill() runs BWAPI code and may throw: guard() then returns 0 with some  *)
(* rows already written, so a call is one step per row.                    *)
(***************************************************************************)
EXTENDS Integers

CONSTANTS
    Word,       \* bytes of an int32_t, the type of the size word and of a field
    Fields,     \* int32_t fields of the DLL's row, the size word included
    Align,      \* the alignment of the DLL's row: 1, or more when it holds a double
    Total,      \* rows the table has
    MemBytes,   \* bytes of the memory modelled, from the host's array on
    Strides,    \* what the host may store in the size word of element zero
    Caps        \* the caps the host may pass

ASSUME WordAssumption == Word \in Nat \ {0}
ASSUME FieldsAssumption == Fields \in Nat \ {0}
ASSUME AlignAssumption == Align \in Nat \ {0}
ASSUME TotalAssumption == Total \in Nat
ASSUME MemAssumption == MemBytes \in Nat /\ Word <= MemBytes
ASSUME HostAssumption == Strides \subseteq Int /\ Caps \subseteq Int

Smaller(a, b) == IF a <= b THEN a ELSE b

\* sizeof(Row): the fields, rounded up to the alignment.  The bytes between
\* the last field and this are padding.
RowBytes == ((Fields * Word + Align - 1) \div Align) * Align

Addr == 0 .. MemBytes - 1

\* What a byte may hold: what the host left, a zero of memset(), a byte of a
\* size word, a byte of row r's fields, or padding of the DLL's row.
HostByte == <<"host">>
ZeroByte == <<"zero">>
PadByte == <<"pad">>
SizeByte(size) == <<"size", size>>
FieldByte(r, off) == <<"row", r, off>>

Codes == {"none", "BAD_BUFFER", "EXCEPTION"}

VARIABLES
    mem,      \* the host's memory
    own,      \* the row size of the host's header
    pc,       \* "host": the host runs; "filling": write_rows() is in its loop
    cap,      \* the argument of the call
    stride,   \* out[0].size, read once
    i, dst,   \* the loop's row and the byte its destination starts at
    ret,      \* what the last call returned
    code,     \* what the last call latched
    before    \* the memory when the last call was made, to state properties with

vars == <<mem, own, pc, cap, stride, i, dst, ret, code, before>>

\* The int32_t at the start of the array.
SizeWord == mem[0][2]

Rows == Smaller(cap, Total)

\* The bytes of a row write_rows() copies, and sets as the row's size.
Filled == Smaller(stride, RowBytes)

----------------------------------------------------------------------------

Init ==
    /\ mem = [a \in Addr |-> IF a < Word THEN SizeByte(0) ELSE HostByte]
    /\ before = mem
    /\ own = 0
    /\ pc = "host"
    /\ cap = 0 /\ stride = 0 /\ i = 0 /\ dst = 0
    /\ ret = 0 /\ code = "none"

\* The host takes an array and stores the size of its rows in element zero.
Prepare(s) ==
    /\ pc = "host"
    /\ mem' = [a \in Addr |-> IF a < Word THEN SizeByte(s) ELSE HostByte]
    /\ before' = mem'
    /\ own' = s
    /\ cap' = 0 /\ ret' = 0 /\ code' = "none"
    /\ UNCHANGED <<pc, stride, i, dst>>

\* The host is about to call again with the same array and stores its row size in
\* element zero again, as a host newer than the DLL must; the rest stays.
StoreSize ==
    /\ pc = "host"
    /\ mem' = [a \in Addr |-> IF a < Word THEN SizeByte(own) ELSE mem[a]]
    /\ before' = mem'
    /\ cap' = 0 /\ ret' = 0 /\ code' = "none"
    /\ UNCHANGED <<own, pc, stride, i, dst>>

\* check_buffer().
BufferOk(null, c) == ~ (c < 0 \/ (null /\ c # 0))

StrideOk(s) == s >= Word

Refuse(c, r, e) ==
    /\ cap' = 0 /\ ret' = r /\ code' = e /\ before' = mem
    /\ UNCHANGED <<mem, own, pc, stride, i, dst>>

\* A table call up to write_rows()' loop.  A host that asks for rows owns cap
\* of them and their size is in element zero, as the header asks: the host has
\* stored it, or finds it there because the last call left it.
Call(null, c) ==
    /\ pc = "host"
    /\ \/ ~ BufferOk(null, c) /\ Refuse(c, 0, "BAD_BUFFER")
       \/ BufferOk(null, c) /\ c <= 0 /\ Refuse(c, Total, "none")
       \/ /\ BufferOk(null, c) /\ c > 0
          /\ SizeWord = own /\ c * own <= MemBytes
          /\ \/ ~ StrideOk(SizeWord) /\ Refuse(c, 0, "BAD_BUFFER")
             \/ /\ StrideOk(SizeWord)
                /\ pc' = "filling"
                /\ cap' = c /\ stride' = SizeWord
                /\ i' = 0 /\ dst' = 0
                /\ before' = mem
                /\ ret' = 0 /\ code' = "none"
                /\ UNCHANGED <<mem, own>>

\* The byte at offset off of row r after memset() and memcpy().
\* Mutant: no memset(): the rest of the caller's stride keeps its bytes.
NoZeroFill(r, off) ==
    CASE off >= Filled -> HostByte
      [] off < Word -> SizeByte(Filled)
      [] off >= Word /\ off < Filled /\ off < Fields * Word -> FieldByte(r, off)
      [] OTHER -> PadByte
\* Mutant: the size written back is the DLL's row, also in a shorter stride.
WritesOwnSize(r, off) ==
    CASE off >= Filled -> ZeroByte
      [] off < Word -> SizeByte(RowBytes)
      [] off >= Word /\ off < Filled /\ off < Fields * Word -> FieldByte(r, off)
      [] OTHER -> PadByte
RowByte(r, off) ==
    CASE off >= Filled -> ZeroByte
      [] off < Word -> SizeByte(Filled)
      [] off >= Word /\ off < Filled /\ off < Fields * Word -> FieldByte(r, off)
      [] OTHER -> PadByte

\* The last address a row's memset() and memcpy() reach, plus one.
\* Mutant: memcpy() copies sizeof(Row) whatever the stride.
CopiesWholeRow == dst + IF stride < RowBytes THEN RowBytes ELSE stride
RowEnd == dst + stride

\* One iteration: fill() returned, the row is written.
FillRow ==
    /\ pc = "filling" /\ i < Rows
    /\ mem' = [a \in Addr |-> IF dst <= a /\ a < RowEnd
                                THEN RowByte(i, a - dst) ELSE mem[a]]
    /\ i' = i + 1 /\ dst' = dst + stride
    /\ UNCHANGED <<own, pc, cap, stride, ret, code, before>>

\* fill() threw: guard() latches and returns the neutral value.
FillThrows ==
    /\ pc = "filling" /\ i < Rows
    /\ pc' = "host" /\ ret' = 0 /\ code' = "EXCEPTION"
    /\ UNCHANGED <<mem, own, cap, stride, i, dst, before>>

Return ==
    /\ pc = "filling" /\ i = Rows
    /\ pc' = "host" /\ ret' = Total
    /\ UNCHANGED <<mem, own, cap, stride, i, dst, code, before>>

Next ==
    \/ \E s \in Strides : Prepare(s)
    \/ StoreSize
    \/ \E null \in BOOLEAN, c \in Caps : Call(null, c)
    \/ FillRow
    \/ FillThrows
    \/ Return

Spec == Init /\ [][Next]_vars

----------------------------------------------------------------------------

\* Every variable keeps its type.
TypeOK ==
    /\ DOMAIN mem = Addr /\ DOMAIN before = Addr
    /\ own \in Int /\ cap \in Nat /\ stride \in Int
    /\ i \in Nat /\ dst \in Nat
    /\ pc \in {"host", "filling"}
    /\ ret \in Nat /\ code \in Codes

\* No call writes past the rows it was given: past the host's cap, past the
\* rows the table has, or, with a stride other than the DLL's row, past the
\* end of the last one.  A refused or sizing call (cap is 0 then) writes
\* nothing at all.
NoOverrun ==
    \A a \in Addr : cap = 0 \/ a >= Rows * stride => mem[a] = before[a]

\* At every moment, between two rows and after fill() threw, the rows already
\* filled are whole and the others are exactly as the host left them: no row
\* is torn, and none is written before its turn.
RowsWhole ==
    cap > 0 =>
        \A r \in 0 .. Rows - 1 : \A off \in 0 .. stride - 1 :
            mem[r * stride + off] =
                IF r < i THEN RowByte(r, off) ELSE before[r * stride + off]

\* The two together, at every moment of every call and whatever fill() does:
\* all that has changed in the host's memory are the rows written so far, and
\* each of these is whole.
OnlyWholeRows == NoOverrun /\ RowsWhole

\* BWAPI_HAS_FIELD for the k-th int32_t of a header, counted from 0.
HasField(k, size) == (k + 1) * Word <= size

\* What the host reads in the size word of its row r.
SizeOfRow(r) == mem[r * own][2]

\* A call that returned rows.
Answered == pc = "host" /\ cap > 0 /\ code = "none" /\ ret > 0

\* What a host compiled against any header reads: the size word of each of
\* its own rows is whole and within its stride; each field of the DLL's that
\* BWAPI_HAS_FIELD grants holds that field of that row; and every byte the
\* size does not cover is zero.
ConsumerView ==
    Answered =>
        \A r \in 0 .. Rows - 1 :
            LET At(off) == mem[r * own + off]
            IN  /\ \A off \in 0 .. Word - 1 : At(off) = SizeByte(SizeOfRow(r))
                /\ SizeOfRow(r) <= own
                /\ \A k \in 1 .. Fields - 1 : HasField(k, SizeOfRow(r)) =>
                      \A off \in k * Word .. (k + 1) * Word - 1 :
                          At(off) = FieldByte(r, off)
                /\ \A off \in 0 .. own - 1 : off >= SizeOfRow(r) => At(off) = ZeroByte

\* No field is withheld: a field the DLL has and the host's row has room for
\* is one BWAPI_HAS_FIELD grants.
NothingWithheld ==
    Answered =>
        \A r \in 0 .. Rows - 1, k \in 0 .. Fields - 1 :
            HasField(k, own) => HasField(k, SizeOfRow(r))

\* A host whose header is not newer than the DLL may call again with the same
\* array, and whatever calls came before: element zero still says the host's
\* stride, not the DLL's. (A newer host finds the DLL's size there, and must
\* store its own.)
Reusable ==
    Answered /\ own <= RowBytes => SizeWord = own

\* types.h:157: BWAPI_HAS_FIELD is true when a row "as filled by the DLL
\* actually loaded, includes the field": for no field the DLL does not have.
HasFieldTruthful ==
    Answered =>
        \A r \in 0 .. Rows - 1 : \A k \in Fields .. MemBytes :
            ~ HasField(k, SizeOfRow(r))

=============================================================================
