--------------------------- MODULE RowTableProofs ---------------------------
(***************************************************************************)
(* What a host may rely on for every row size on either side, every table  *)
(* and every memory: no write past its array, no torn row, and fields that *)
(* are what BWAPI_HAS_FIELD says they are.                                 *)
(*                                                                         *)
(* TLC checks these for one row layout; the arithmetic of r * stride + off *)
(* is what the proofs add.                                                 *)
(***************************************************************************)
EXTENDS RowTable, TLAPS

USE WordAssumption, FieldsAssumption, AlignAssumption, TotalAssumption,
    MemAssumption, HostAssumption

----------------------------------------------------------------------------
(* Arithmetic.                                                             *)

\* A row ends where the next one starts, or before a later one does.
LEMMA RowsApart ==
    ASSUME NEW s \in Nat, NEW a \in Int, NEW b \in Int, a < b
    PROVE  a * s + s <= b * s
  <1>1. PICK d \in Nat : b = a + 1 + d
    BY a + 1 + (b - a - 1) = b, b - a - 1 \in Nat
  <1>2. b * s = a * s + s + d * s
    BY <1>1
  <1>3. d * s >= 0
    BY <1>1
  <1> QED BY <1>2, <1>3

\* Rounding a row up to its alignment loses none of its fields.
LEMMA RowHoldsFields == RowBytes \in Nat /\ Fields * Word <= RowBytes /\ Word <= RowBytes
  <1> DEFINE y == Fields * Word + Align - 1
             q == y \div Align
  <1>1. Fields * Word \in Nat /\ Word <= Fields * Word
    <2>1. 0 * Word + Word <= Fields * Word
      BY RowsApart
    <2> QED BY <2>1
  <1>2. y \in Nat /\ y = Align * q + (y % Align) /\ y % Align \in 0 .. Align - 1 /\ q \in Int
    BY <1>1
  <1>3. Align * q >= y - (Align - 1)
    BY <1>1, <1>2
  <1>4. RowBytes = q * Align
    BY DEF RowBytes
  <1> QED BY <1>1, <1>2, <1>3, <1>4

----------------------------------------------------------------------------
(* The inductive invariant.                                                *)

\* While a call has rows to write, and until the next one: the stride it read
\* is the host's row, the array is inside the memory, and dst is at row i.
Placed ==
    cap > 0 =>
        /\ stride = own /\ stride >= Word
        /\ cap * stride <= MemBytes
        /\ i <= Rows /\ dst = i * stride

\* A call that returned wrote all the rows it had room for.
Complete == cap > 0 /\ pc = "host" /\ code = "none" => i = Rows /\ ret = Total

\* A call with no rows to write is not in the loop.
Looping == pc = "filling" => cap > 0 /\ ret = 0

IInv == TypeOK /\ Placed /\ Complete /\ Looping /\ NoOverrun /\ RowsWhole

\* TypeOK and the shape of the loop hold initially.
LEMMA InitInv == Init => IInv
  BY DEF Init, IInv, TypeOK, Placed, Complete, Looping, NoOverrun, RowsWhole,
         Addr, Codes, Rows, Smaller

\* A call that is refused, or only asks for the total, leaves cap at 0.
LEMMA RefuseInv ==
    ASSUME IInv, NEW c, NEW r \in Nat, NEW e \in Codes, Refuse(c, r, e), pc = "host"
    PROVE  IInv'
  BY DEF IInv, Refuse, TypeOK, Placed, Complete, Looping, NoOverrun, RowsWhole,
         Rows, Smaller

LEMMA PrepareInv ==
    ASSUME IInv, NEW s \in Strides, Prepare(s)
    PROVE  IInv'
  <1>1. s \in Int
    OBVIOUS
  <1> QED
    BY <1>1 DEF IInv, Prepare, TypeOK, Placed, Complete, Looping, NoOverrun, RowsWhole,
           Rows, Smaller, Addr, Codes

LEMMA StoreSizeInv ==
    ASSUME IInv, StoreSize
    PROVE  IInv'
  BY DEF IInv, StoreSize, TypeOK, Placed, Complete, Looping, NoOverrun, RowsWhole,
         Rows, Smaller, Addr, Codes

LEMMA CallInv ==
    ASSUME IInv, NEW null \in BOOLEAN, NEW c \in Caps, Call(null, c)
    PROVE  IInv'
  <1>1. CASE Refuse(c, 0, "BAD_BUFFER")
    BY <1>1, RefuseInv DEF Call, Codes
  <1>2. CASE Refuse(c, Total, "none")
    BY <1>2, RefuseInv DEF Call, Codes
  <1>3. CASE /\ c > 0 /\ SizeWord = own /\ c * own <= MemBytes
             /\ StrideOk(SizeWord)
             /\ pc' = "filling"
             /\ cap' = c /\ stride' = SizeWord
             /\ i' = 0 /\ dst' = 0
             /\ before' = mem
             /\ ret' = 0 /\ code' = "none"
             /\ UNCHANGED <<mem, own>>
    <2>1. c \in Nat /\ own \in Int /\ 0 * own = 0
      BY <1>3 DEF IInv, TypeOK
    <2>2. TypeOK' /\ Complete' /\ Looping'
      BY <1>3, <2>1 DEF IInv, TypeOK, Complete, Looping, Codes
    <2>3. Placed'
      BY <1>3, <2>1 DEF Placed, StrideOk, Rows, Smaller
    <2>4. NoOverrun' /\ RowsWhole'
      <3>1. ~ \E r \in Int : r >= 0 /\ r < i'
        BY <1>3
      <3> QED BY <1>3, <3>1 DEF NoOverrun, RowsWhole, Rows, Smaller
    <2> QED BY <2>2, <2>3, <2>4 DEF IInv
  <1> QED BY <1>1, <1>2, <1>3 DEF Call

\* The loop writes row i and nothing else.
LEMMA FillRowInv ==
    ASSUME IInv, FillRow
    PROVE  IInv'
  <1>1. /\ cap > 0 /\ cap \in Nat /\ stride \in Nat /\ stride >= Word /\ stride = own
        /\ cap * stride <= MemBytes
        /\ Rows \in Nat /\ i \in Nat /\ i < Rows /\ dst = i * stride
        /\ Rows <= cap /\ pc = "filling"
    BY DEF IInv, FillRow, TypeOK, Placed, Looping, Rows, Smaller
  <1>2. i' = i + 1 /\ dst' = dst + stride /\ UNCHANGED <<own, pc, cap, stride, ret, code, before>>
    BY DEF FillRow
  <1>3. Rows' = Rows
    BY <1>2 DEF Rows
  <1>4. mem' = [a \in Addr |-> IF dst <= a /\ a < dst + stride
                                 THEN RowByte(i, a - dst) ELSE mem[a]]
    BY DEF FillRow, RowEnd
  <1>5. dst + stride = (i + 1) * stride /\ dst + stride \in Nat
    BY <1>1
  <1>6. TypeOK' /\ Looping' /\ Complete'
    BY <1>1, <1>2, <1>4, <1>5 DEF IInv, TypeOK, Looping, Complete
  <1>7. Placed'
    BY <1>1, <1>2, <1>3, <1>5 DEF IInv, Placed
  <1>8. NoOverrun'
    <2>1. dst + stride <= Rows * stride
      BY <1>1, RowsApart
    <2>2. \A a \in Addr : a >= Rows * stride => mem'[a] = mem[a]
      BY <1>1, <1>4, <2>1 DEF Addr
    <2> QED BY <1>1, <1>2, <1>3, <2>2 DEF IInv, NoOverrun
  <1>9. RowsWhole'
    <2> SUFFICES ASSUME NEW r \in 0 .. Rows - 1, NEW off \in 0 .. stride - 1
                 PROVE  mem'[r * stride + off] =
                          IF r < i + 1 THEN RowByte(r, off) ELSE before[r * stride + off]
      <3>1. \A r, off : RowByte(r, off)' = RowByte(r, off)
        BY <1>2 DEF RowByte, Filled, Smaller, RowBytes, ZeroByte, SizeByte, FieldByte, PadByte
      <3> QED BY <1>2, <1>3, <3>1 DEF RowsWhole
    <2>1. mem[r * stride + off] =
             IF r < i THEN RowByte(r, off) ELSE before[r * stride + off]
      BY <1>1 DEF IInv, RowsWhole
    <2>2. r * stride + off \in Addr
      <3>1. r * stride + stride <= cap * stride
        BY <1>1, RowsApart
      <3>2. r * stride \in Nat
        BY <1>1
      <3> QED BY <1>1, <3>1, <3>2 DEF Addr
    <2>3. CASE r = i
      <3>1. dst <= r * stride + off /\ r * stride + off < dst + stride /\ (r * stride + off) - dst = off
        BY <1>1, <2>3
      <3> QED BY <1>4, <2>2, <2>3, <3>1, <1>1
    <2>4. CASE r < i
      <3>1. r * stride + stride <= i * stride
        BY <1>1, <2>4, RowsApart
      <3>2. r * stride + off < dst
        BY <1>1, <3>1
      <3> QED BY <1>1, <1>4, <2>1, <2>2, <2>4, <3>2
    <2>5. CASE i < r
      <3>1. i * stride + stride <= r * stride
        BY <1>1, <2>5, RowsApart
      <3>2. r * stride + off >= dst + stride
        BY <1>1, <3>1
      <3> QED BY <1>1, <1>4, <2>1, <2>2, <2>5, <3>2
    <2> QED BY <1>1, <2>3, <2>4, <2>5
  <1> QED BY <1>6, <1>7, <1>8, <1>9 DEF IInv

\* A step that leaves the memory and the loop alone keeps the rows as they are.
LEMMA SameRows ==
    ASSUME IInv, UNCHANGED <<mem, own, cap, stride, i, dst, before>>
    PROVE  Placed' /\ NoOverrun' /\ RowsWhole'
  <1>1. \A r, off : RowByte(r, off)' = RowByte(r, off)
    BY DEF RowByte, Filled, Smaller, RowBytes, ZeroByte, SizeByte, FieldByte, PadByte
  <1>2. Rows' = Rows
    BY DEF Rows
  <1> QED BY <1>1, <1>2 DEF IInv, Placed, NoOverrun, RowsWhole

LEMMA EndInv ==
    ASSUME IInv, FillThrows \/ Return
    PROVE  IInv'
  <1>1. UNCHANGED <<mem, own, cap, stride, i, dst, before>> /\ Rows' = Rows
    BY DEF FillThrows, Return, Rows
  <1>2. TypeOK' /\ Complete' /\ Looping'
    BY <1>1 DEF IInv, TypeOK, Complete, Looping, FillThrows, Return, Codes
  <1> QED BY <1>1, <1>2, SameRows DEF IInv

LEMMA StutterInv ==
    ASSUME IInv, UNCHANGED vars
    PROVE  IInv'
  <1>1. UNCHANGED <<mem, own, cap, stride, i, dst, before>> /\ Rows' = Rows
    BY DEF vars, Rows
  <1>2. TypeOK' /\ Complete' /\ Looping'
    BY <1>1 DEF vars, IInv, TypeOK, Complete, Looping
  <1> QED BY <1>1, <1>2, SameRows DEF IInv

\* The invariant holds in every reachable state.
THEOREM Invariance == Spec => []IInv
  <1>1. IInv /\ [Next]_vars => IInv'
    BY PrepareInv, StoreSizeInv, CallInv, FillRowInv, EndInv, StutterInv DEF Next
  <1> QED BY InitInv, <1>1, PTL DEF Spec

----------------------------------------------------------------------------
(* What it gives the host.                                                 *)

\* For every stride, cap and table: the loop is at a row the host's array has, and
\* its destination has advanced by whole strides, inside that array.
InPlace ==
    pc = "filling" =>
        /\ stride = own /\ i \in 0 .. Rows
        /\ dst = i * stride /\ dst <= cap * stride /\ cap * stride <= MemBytes

THEOREM AdvancesByStrides == Spec => []InPlace
  <1>1. IInv => InPlace
    <2> SUFFICES ASSUME IInv, pc = "filling" PROVE InPlace
      BY DEF InPlace
    <2>1. /\ cap \in Nat /\ cap > 0 /\ stride \in Nat /\ stride = own /\ Rows \in Nat /\ i \in Nat
          /\ i <= Rows /\ Rows <= cap /\ dst = i * stride /\ cap * stride <= MemBytes
      BY DEF IInv, TypeOK, Placed, Looping, Rows, Smaller
    <2>2. i = cap \/ i * stride + stride <= cap * stride
      BY <2>1, RowsApart
    <2>3. i * stride <= cap * stride
      BY <2>1, <2>2
    <2> QED BY <2>1, <2>3 DEF InPlace
  <1> QED BY Invariance, <1>1, PTL

\* For every stride, cap and table, also after fill() threw: no call writes
\* past the host's rows, each row is wholly the DLL's or wholly as the host
\* left it, and a call that is refused or only sizes the table writes nothing.
THEOREM NeverTears == Spec => []OnlyWholeRows
  BY Invariance, PTL DEF IInv, OnlyWholeRows

\* The size word of a row that was returned is the bytes copied into it.
LEMMA SizeRead ==
    ASSUME IInv, Answered
    PROVE  /\ own = stride /\ Filled \in Nat /\ Word <= Filled
           /\ Filled <= own /\ Filled <= RowBytes
           /\ Rows \in Nat /\ stride \in Nat
           /\ \A r \in 0 .. Rows - 1 : \A off \in 0 .. own - 1 :
                 mem[r * own + off] = RowByte(r, off)
           /\ \A r \in 0 .. Rows - 1 : SizeOfRow(r) = Filled
  <1>1. /\ cap > 0 /\ cap \in Nat /\ stride = own /\ stride \in Nat /\ stride >= Word
        /\ i = Rows /\ Rows \in Nat
    BY DEF IInv, Answered, TypeOK, Placed, Complete, Rows, Smaller
  <1>2. Filled \in Nat /\ Word <= Filled /\ Filled <= own /\ Filled <= RowBytes
    BY <1>1, RowHoldsFields DEF Filled, Smaller
  <1>3. \A r \in 0 .. Rows - 1 : \A off \in 0 .. own - 1 :
           mem[r * own + off] = RowByte(r, off)
    BY <1>1 DEF IInv, RowsWhole
  <1>4. ASSUME NEW r \in 0 .. Rows - 1
        PROVE  SizeOfRow(r) = Filled
    <2>1. 0 \in 0 .. own - 1 /\ r * own + 0 = r * own
      BY <1>1
    <2>2. mem[r * own] = RowByte(r, 0)
      BY <1>3, <2>1
    <2>3. RowByte(r, 0) = SizeByte(Filled)
      BY <1>2 DEF RowByte
    <2> QED BY <2>2, <2>3 DEF SizeOfRow, SizeByte
  <1> QED BY <1>1, <1>2, <1>3, <1>4

\* A field lies wholly after the size word and before the next field.
LEMMA FieldSpan ==
    ASSUME NEW k \in 1 .. Fields - 1
    PROVE  Word <= k * Word /\ (k + 1) * Word <= Fields * Word
  <1>1. 0 * Word + Word <= k * Word
    BY RowsApart
  <1>2. k * Word + Word <= Fields * Word
    BY RowsApart
  <1> QED BY <1>1, <1>2

LEMMA ViewHolds == IInv => ConsumerView
  <1> SUFFICES ASSUME IInv, Answered, NEW r \in 0 .. Rows - 1
               PROVE  /\ \A off \in 0 .. Word - 1 :
                            mem[r * own + off] = SizeByte(SizeOfRow(r))
                      /\ SizeOfRow(r) <= own
                      /\ \A k \in 1 .. Fields - 1 : HasField(k, SizeOfRow(r)) =>
                            \A off \in k * Word .. (k + 1) * Word - 1 :
                                mem[r * own + off] = FieldByte(r, off)
                      /\ \A off \in 0 .. own - 1 : off >= SizeOfRow(r) =>
                            mem[r * own + off] = ZeroByte
    BY DEF ConsumerView
  <1>1. SizeOfRow(r) = Filled /\ Filled \in Nat /\ Word <= Filled /\ Filled <= own /\ own \in Nat
    BY SizeRead
  <1>2. \A off \in 0 .. own - 1 : mem[r * own + off] = RowByte(r, off)
    BY SizeRead
  <1>3. ASSUME NEW off \in 0 .. Word - 1
        PROVE  mem[r * own + off] = SizeByte(SizeOfRow(r))
    <2>1. RowByte(r, off) = SizeByte(Filled)
      BY <1>1 DEF RowByte
    <2> QED BY <1>1, <1>2, <2>1
  <1>4. ASSUME NEW k \in 1 .. Fields - 1, HasField(k, SizeOfRow(r)),
               NEW off \in k * Word .. (k + 1) * Word - 1
        PROVE  mem[r * own + off] = FieldByte(r, off)
    <2>1. /\ k * Word \in Int /\ (k + 1) * Word \in Int /\ Fields * Word \in Int
          /\ Word <= k * Word /\ (k + 1) * Word <= Fields * Word
      BY FieldSpan
    <2>2. off \in Int /\ Word <= off /\ off < Fields * Word /\ off < Filled
      BY <1>1, <1>4, <2>1 DEF HasField
    <2>3. RowByte(r, off) = FieldByte(r, off)
      BY <1>1, <2>2 DEF RowByte
    <2> QED BY <1>1, <1>2, <2>2, <2>3
  <1>5. ASSUME NEW off \in 0 .. own - 1, off >= SizeOfRow(r)
        PROVE  mem[r * own + off] = ZeroByte
    <2>1. RowByte(r, off) = ZeroByte
      BY <1>1, <1>5 DEF RowByte
    <2> QED BY <1>2, <2>1
  <1> QED BY <1>1, <1>3, <1>4, <1>5

\* For hosts and DLLs of any two headers: what BWAPI_HAS_FIELD grants of the
\* DLL's fields is that row's field, and what the size leaves out is zero.
THEOREM ConsumerSees == Spec => []ConsumerView
  BY Invariance, ViewHolds, PTL

\* For any two headers: no field both sides have is withheld.
THEOREM NeverWithholds == Spec => []NothingWithheld
  <1>1. IInv => NothingWithheld
    <2> SUFFICES ASSUME IInv, Answered, NEW r \in 0 .. Rows - 1,
                        NEW k \in 0 .. Fields - 1, HasField(k, own)
                 PROVE  HasField(k, SizeOfRow(r))
      BY DEF NothingWithheld
    <2>1. SizeOfRow(r) = Filled /\ own = stride /\ stride \in Nat
      BY SizeRead
    <2>2. k * Word + Word <= Fields * Word
      BY RowsApart
    <2>3. (k + 1) * Word = k * Word + Word /\ k * Word \in Nat /\ Fields * Word \in Nat
      OBVIOUS
    <2>4. (k + 1) * Word <= RowBytes
      BY <2>2, <2>3, RowHoldsFields
    <2> QED BY <2>1, <2>3, <2>4, RowHoldsFields DEF HasField, Filled, Smaller
  <1> QED BY Invariance, <1>1, PTL

\* For any host no newer than the DLL: its stride survives a call.
THEOREM StrideSurvives == Spec => []Reusable
  <1>1. IInv => Reusable
    <2> SUFFICES ASSUME IInv, Answered, own <= RowBytes
                 PROVE  SizeWord = own
      BY DEF Reusable
    <2>1. 0 \in 0 .. Rows - 1
      BY DEF IInv, Answered, TypeOK, Rows, Smaller, Complete
    <2>2. SizeOfRow(0) = Filled /\ own = stride /\ stride \in Nat /\ 0 * own = 0
      BY <2>1, SizeRead
    <2>3. Filled = own
      BY <2>2, RowHoldsFields DEF Filled, Smaller
    <2> QED BY <2>2, <2>3 DEF SizeWord, SizeOfRow
  <1> QED BY Invariance, <1>1, PTL

\* When the DLL's row ends in no padding, BWAPI_HAS_FIELD grants no field the
\* DLL does not have.
THEOREM TruthfulWithoutPadding == RowBytes = Fields * Word => (Spec => []HasFieldTruthful)
  <1> SUFFICES ASSUME RowBytes = Fields * Word
               PROVE  Spec => []HasFieldTruthful
    OBVIOUS
  <1>1. IInv => HasFieldTruthful
    <2> SUFFICES ASSUME IInv, Answered, NEW r \in 0 .. Rows - 1, NEW k \in Fields .. MemBytes
                 PROVE  ~ HasField(k, SizeOfRow(r))
      BY DEF HasFieldTruthful
    <2>1. SizeOfRow(r) = Filled /\ Filled <= Fields * Word /\ Filled \in Nat
      BY SizeRead
    <2>2. Fields * Word + Word <= (k + 1) * Word
      BY RowsApart
    <2> QED BY <2>1, <2>2 DEF HasField
  <1> QED BY Invariance, <1>1, PTL

=============================================================================
