------------------------- MODULE MessageBuffer_proofs -------------------------
(***************************************************************************)
(* For every size of a buffer and every width of the data: the type        *)
(* invariant of a message buffer, and that it is a stream of bytes.  The   *)
(* loops over arrays are recursive functions; what they leave behind is    *)
(* proved by induction over the elements, from the least counterexample.   *)
(***************************************************************************)
EXTENDS MessageBuffer, TLAPS, SequenceTheorems, WellFoundedInduction

(***************************************************************************)
(* Numbers.                                                                *)
(***************************************************************************)

\* A set of numbers that is not empty has a least element.
LEMMA LeastNumber ==
  ASSUME NEW T \in SUBSET Nat, T # {}
  PROVE  \E x \in T : \A y \in T : ~ (y < x)
  <1> DEFINE R == OpToRel(<, Nat)
  <1>1. IsWellFoundedOn(R, Nat)
    BY NatLessThanWellFounded
  <1>2. \A m, n \in Nat : m < n => <<m, n>> \in R
    BY DEF OpToRel
  <1> HIDE DEF R
  <1>3. PICK x \in T : \A y \in T : ~ (<<y, x>> \in R)
    BY <1>1, WFMin
  <1> QED
    BY <1>2, <1>3

\* A function that is given by its value at 0 and the step from each number to
\* the next.
LEMMA SameRecursion ==
  ASSUME NEW n \in Nat, NEW f, NEW g, f[0] = g[0],
         \A i \in 1 .. n : f[i - 1] = g[i - 1] => f[i] = g[i]
  PROVE  f[n] = g[n]
  <1> DEFINE T == {i \in 0 .. n : f[i] # g[i]}
  <1> SUFFICES ASSUME f[n] # g[n] PROVE FALSE
    OBVIOUS
  <1>1. T \in SUBSET Nat /\ T # {}
    OBVIOUS
  <1>2. PICK x \in T : \A y \in T : ~ (y < x)
    BY <1>1, LeastNumber
  <1>3. x \in 1 .. n
    BY <1>2
  <1>4. x - 1 \in 0 .. n /\ x - 1 < x
    BY <1>3
  <1>5. x - 1 \notin T
    BY <1>1, <1>2, <1>4
  <1> QED
    BY <1>2, <1>3, <1>4, <1>5

\* The smaller of two numbers.
LEMMA MinOfTwo ==
  ASSUME NEW m \in Int, NEW n \in Int
  PROVE  Min({m, n}) = IF m <= n THEN m ELSE n
  BY DEF Min

\* A part of a sequence that is not empty.
LEMMA SubSeqIs ==
  ASSUME NEW Cell, NEW s \in Seq(Cell), NEW n \in Nat, NEW m \in Nat, n < m, m <= Len(s)
  PROVE  /\ SubSeq(s, n + 1, m) \in Seq(Cell)
         /\ Len(SubSeq(s, n + 1, m)) = m - n
         /\ \A i \in 1 .. m - n : SubSeq(s, n + 1, m)[i] = s[n + i]
  <1>1. \A i \in n + 1 .. m : s[i] \in Cell
    OBVIOUS
  <1>2. n + 1 \in Int /\ m \in Int /\ m - (n + 1) + 1 = m - n /\ n + 1 <= m
    OBVIOUS
  <1>3. /\ SubSeq(s, n + 1, m) \in Seq(Cell)
        /\ Len(SubSeq(s, n + 1, m)) = IF n + 1 <= m THEN m - (n + 1) + 1 ELSE 0
        /\ \A i \in 1 .. m - (n + 1) + 1 : SubSeq(s, n + 1, m)[i] = s[n + 1 + i - 1]
    BY <1>1, <1>2, SubSeqProperties
  <1>4. \A i \in Int : n + 1 + i - 1 = n + i
    OBVIOUS
  <1> QED
    BY <1>2, <1>3, <1>4

\* One element more of a width.
LEMMA Products ==
  ASSUME NEW w \in Nat \ {0}, NEW i \in Nat \ {0}
  PROVE  /\ i * w \in Nat /\ (i - 1) * w \in Nat
         /\ i * w = (i - 1) * w + w
         /\ (i - 1) * w = 0 <=> i = 1
  <1>1. i * w \in Nat /\ (i - 1) * w \in Nat /\ i * w = (i - 1) * w + w
    OBVIOUS
  <1>2. (i - 1) * w = 0 <=> i = 1
    OBVIOUS
  <1> QED
    BY <1>1, <1>2

\* More elements are not shorter.
LEMMA Monotone ==
  ASSUME NEW w \in Nat \ {0}, NEW i \in Nat, NEW n \in Nat, i <= n
  PROVE  i * w <= n * w
  OBVIOUS

(***************************************************************************)
(* Appending.                                                              *)
(***************************************************************************)

\* The fields that an operation works on.
Errors == {"kNoError", "kMessageBufferOverflow", "kMessageBufferUnderflow"}

Fields(Cell) ==
  [length : 0 .. Size, position : 0 .. Size, data : [0 .. Size - 1 -> Cell],
   err : Errors, bytes : Seq(Cell)]

\* A record with those fields.
HasFields(r, Cell, length, position, data, err, bytes) ==
  /\ r \in Fields(Cell)
  /\ r.length = length /\ r.position = position /\ r.data = data
  /\ r.err = err /\ r.bytes = bytes

\* Its fields are all of it.
LEMMA SameFields ==
  ASSUME NEW Cell, NEW length, NEW position, NEW data, NEW err, NEW bytes, NEW r, NEW q,
         HasFields(r, Cell, length, position, data, err, bytes),
         HasFields(q, Cell, length, position, data, err, bytes)
  PROVE  r = q
  BY DEF HasFields, Fields

\* What its fields are.
LEMMA FieldTypes ==
  ASSUME NEW Cell, NEW b \in Fields(Cell)
  PROVE  /\ b.length \in 0 .. Size /\ b.position \in 0 .. Size
         /\ b.data \in [0 .. Size - 1 -> Cell] /\ b.err \in Errors /\ b.bytes \in Seq(Cell)
  BY DEF Fields

\* The updates of the operations.
LEMMA PutErr ==
  ASSUME NEW Cell, NEW b \in Fields(Cell), NEW err \in Errors
  PROVE  HasFields([b EXCEPT !.err = err], Cell,
                   b.length, b.position, b.data, err, b.bytes)
  BY DEF HasFields, Fields

\* A block is put, with its error.
LEMMA PutBlock ==
  ASSUME NEW Cell, NEW b \in Fields(Cell), NEW data \in [0 .. Size - 1 -> Cell],
         NEW err \in Errors
  PROVE  HasFields([b EXCEPT !.data = data, !.err = err], Cell,
                   b.length, b.position, data, err, b.bytes)
  BY DEF HasFields, Fields

\* The position and the length are put.
LEMMA PutEnd ==
  ASSUME NEW Cell, NEW b \in Fields(Cell), NEW position \in 0 .. Size,
         NEW length \in 0 .. Size
  PROVE  HasFields([b EXCEPT !.position = position, !.length = length], Cell,
                   length, position, b.data, b.err, b.bytes)
  BY DEF HasFields, Fields

\* A byte is put, with the position and the length.
LEMMA PutByte ==
  ASSUME NEW Cell, NEW b \in Fields(Cell), NEW position \in 0 .. Size,
         NEW length \in 0 .. Size, NEW i \in 0 .. Size - 1, NEW byte \in Cell
  PROVE  HasFields([b EXCEPT !.data[i] = byte, !.position = position, !.length = length],
                   Cell, length, position, [b.data EXCEPT ![i] = byte], b.err, b.bytes)
  BY DEF HasFields, Fields

\* Bytes are taken, with the error.
LEMMA PutRead ==
  ASSUME NEW Cell, NEW b \in Fields(Cell), NEW position \in 0 .. Size,
         NEW bytes \in Seq(Cell), NEW err \in Errors
  PROVE  HasFields([b EXCEPT !.position = position, !.bytes = bytes, !.err = err], Cell,
                   b.length, position, b.data, err, bytes)
  BY DEF HasFields, Fields

\* b with the first n bytes of an array behind its data, or as many of them as
\* fit.
Fitting(b, n) == IF n <= Size - b.position THEN n ELSE Size - b.position

DataWith(b, array, n) ==
  [i \in 0 .. Size - 1 |-> IF i - b.position \in 0 .. n - 1
                           THEN array[i - b.position + 1] ELSE b.data[i]]

AppendErr(b, n) ==
  IF n <= Size - b.position THEN "kNoError" ELSE "kMessageBufferOverflow"

With(b, array, n) ==
  [length |-> b.position + Fitting(b, n),
   position |-> b.position + Fitting(b, n),
   data |-> DataWith(b, array, Fitting(b, n)),
   err |-> AppendErr(b, n),
   bytes |-> b.bytes]

\* The types of what an append leaves behind.
LEMMA WithType ==
  ASSUME NEW Cell, NEW b \in Fields(Cell), NEW array \in Seq(Cell), NEW n \in 0 .. Len(array)
  PROVE  /\ Fitting(b, n) \in 0 .. n /\ b.position + Fitting(b, n) \in 0 .. Size
         /\ DataWith(b, array, Fitting(b, n)) \in [0 .. Size - 1 -> Cell]
         /\ AppendErr(b, n) \in Errors
         /\ HasFields(With(b, array, n), Cell,
              b.position + Fitting(b, n), b.position + Fitting(b, n),
              DataWith(b, array, Fitting(b, n)), AppendErr(b, n), b.bytes)
  <1>1. b.position \in 0 .. Size /\ b.data \in [0 .. Size - 1 -> Cell] /\ b.bytes \in Seq(Cell)
    BY FieldTypes
  <1>2. Fitting(b, n) \in 0 .. n /\ b.position + Fitting(b, n) \in 0 .. Size
    BY <1>1, BufferAssumption DEF Fitting
  <1>3. DataWith(b, array, Fitting(b, n)) \in [0 .. Size - 1 -> Cell]
    BY <1>1, <1>2, BufferAssumption DEF DataWith
  <1>4. AppendErr(b, n) \in Errors
    BY DEF AppendErr, Errors
  <1> QED
    BY <1>1, <1>2, <1>3, <1>4 DEF HasFields, Fields, With

\* What a block append leaves behind.
LEMMA BlockIs ==
  ASSUME NEW Cell, NEW b \in Fields(Cell), b.position = b.length, b.err = "kNoError",
         NEW block \in Seq(Cell)
  PROVE  AppendBuffer(b, block) = With(b, block, Len(block))
  <1> DEFINE n == Len(block)
             k == Min({Size - b.position, n})
  <1> SUFFICES AppendBuffer(b, block) = With(b, block, n)
    OBVIOUS
  <1>1. b.position \in 0 .. Size /\ Size \in Nat /\ n \in Nat
        /\ b.data \in [0 .. Size - 1 -> Cell]
    BY BufferAssumption, FieldTypes
  <1>2. k = Fitting(b, n)
    BY <1>1, MinOfTwo DEF Fitting
  <1>3. /\ k \in 0 .. n /\ b.position + k \in 0 .. Size
        /\ DataWith(b, block, k) \in [0 .. Size - 1 -> Cell]
        /\ AppendErr(b, n) \in Errors
        /\ HasFields(With(b, block, n), Cell, b.position + k, b.position + k,
              DataWith(b, block, k), AppendErr(b, n), b.bytes)
    BY <1>1, <1>2, WithType
  <1>4. CASE block = <<>>
    <2>1. n = 0 /\ k = 0 /\ n <= Size - b.position /\ b.position + k = b.position
      BY <1>1, <1>2, <1>4 DEF Fitting
    <2>2. DataWith(b, block, 0) = b.data
      <3>1. \A i \in 0 .. Size - 1 : ~ (i - b.position \in 0 .. 0 - 1)
        BY <1>1
      <3>2. DataWith(b, block, 0) = [i \in 0 .. Size - 1 |-> b.data[i]]
        BY <3>1 DEF DataWith
      <3> QED
        BY <1>1, <3>2
    <2>3. AppendErr(b, n) = b.err
      BY <2>1 DEF AppendErr
    <2>4. HasFields(b, Cell, b.position + k, b.position + k,
                    DataWith(b, block, k), AppendErr(b, n), b.bytes)
      BY <2>1, <2>2, <2>3 DEF HasFields
    <2>5. AppendBuffer(b, block) = b
      BY <1>4 DEF AppendBuffer
    <2> HIDE DEF k, n
    <2> QED
      BY <1>3, <2>4, <2>5, SameFields
  <1>5. CASE block # <<>>
    <2> DEFINE put == [i \in DOMAIN b.data |->
                         IF i - b.position \in 0 .. k - 1
                         THEN block[i - b.position + 1] ELSE b.data[i]]
               err == IF Size - b.position < n THEN "kMessageBufferOverflow" ELSE "kNoError"
    <2>1. AppendBuffer(b, block) = [Extended(b, k) EXCEPT !.data = put, !.err = err]
      BY <1>5, Zenon DEF AppendBuffer
    <2>2. HasFields(Extended(b, k), Cell, b.position + k, b.position + k,
                    b.data, b.err, b.bytes)
      BY <1>3, PutEnd DEF Extended
    <2>3. put = DataWith(b, block, k)
      BY <1>1 DEF DataWith
    <2>4. err = AppendErr(b, n)
      BY <1>1 DEF AppendErr
    <2> DEFINE c == Extended(b, k)
    <2> HIDE DEF put, err, k, n, c
    <2>5. HasFields([c EXCEPT !.data = put, !.err = err], Cell,
                    b.position + k, b.position + k, put, err, b.bytes)
      <3>1. /\ c \in Fields(Cell) /\ c.length = b.position + k
            /\ c.position = b.position + k /\ c.bytes = b.bytes
        BY <2>2 DEF c, HasFields
      <3>2. put \in [0 .. Size - 1 -> Cell] /\ err \in Errors
        BY <1>3, <2>3, <2>4
      <3>3. HasFields([c EXCEPT !.data = put, !.err = err], Cell,
                      c.length, c.position, put, err, c.bytes)
        BY <3>1, <3>2, PutBlock
      <3> QED
        BY <3>1, <3>3
    <2> QED
      BY <1>3, <2>1, <2>3, <2>4, <2>5, SameFields DEF c
  <1> QED
    BY <1>4, <1>5

\* One more value of an array.
LEMMA OneMoreValue ==
  ASSUME NEW Cell, NEW b \in Fields(Cell), b.position = b.length,
         NEW array \in Seq(Cell), NEW n \in 0 .. Len(array), NEW m \in n + 1 .. Len(array),
         With(b, array, n).err = "kNoError"
  PROVE  TRKAppendBuffer1(With(b, array, n), SubSeq(array, n + 1, m)) = With(b, array, m)
  <1> DEFINE c == With(b, array, n)
             value == SubSeq(array, n + 1, m)
             p == b.position
  <1> SUFFICES TRKAppendBuffer1(c, value) = With(b, array, m)
    OBVIOUS
  <1>1. p \in 0 .. Size /\ Size \in Nat /\ n \in Nat /\ m \in Nat /\ n < m
        /\ Len(array) \in Nat
    BY BufferAssumption, FieldTypes
  <1>2. n <= Size - p
    BY DEF With, AppendErr
  <1>3. Fitting(b, n) = n
    BY <1>2 DEF Fitting
  <1>4. HasFields(c, Cell, p + n, p + n, DataWith(b, array, n), "kNoError", b.bytes)
    BY <1>3, WithType DEF HasFields
  <1>5. HasFields(With(b, array, m), Cell, p + Fitting(b, m), p + Fitting(b, m),
                  DataWith(b, array, Fitting(b, m)), AppendErr(b, m), b.bytes)
    BY <1>1, WithType
  <1>6. value \in Seq(Cell) /\ Len(value) = m - n
    BY <1>1, SubSeqIs
  <1>7. \A i \in 1 .. m - n : value[i] = array[n + i]
    BY <1>1, SubSeqIs
  <1>8. /\ c \in Fields(Cell) /\ c.position = p + n /\ c.length = p + n
        /\ c.data = DataWith(b, array, n) /\ c.err = "kNoError" /\ c.bytes = b.bytes
    BY <1>4 DEF HasFields
  <1> HIDE DEF c, value, p
  <1>9. CASE Len(value) = 1
    <2>1. m = n + 1
      <3>1. m - n = 1
        BY <1>6, <1>9
      <3> QED
        BY <1>1, <3>1
    <2>2. value[1] = array[m] /\ array[m] \in Cell
      BY <1>1, <1>7, <2>1
    <2>3. CASE p + n >= Size
      <3>1. TRKAppendBuffer1(c, value) = [c EXCEPT !.err = "kMessageBufferOverflow"]
        BY <1>8, <1>9, <2>3 DEF TRKAppendBuffer1, TRKAppendBuffer1_ui8
      <3>2. n = Size - p /\ ~ (m <= Size - p)
        BY <1>1, <1>2, <2>1, <2>3
      <3>3. Fitting(b, m) = n /\ AppendErr(b, m) = "kMessageBufferOverflow"
        BY <3>2 DEF Fitting, AppendErr, p
      <3>4. HasFields([c EXCEPT !.err = "kMessageBufferOverflow"], Cell,
                      p + n, p + n, DataWith(b, array, n), "kMessageBufferOverflow", b.bytes)
        BY <1>8, PutErr DEF Errors, HasFields
      <3> QED
        BY <1>5, <3>1, <3>3, <3>4, SameFields
    <2>4. CASE ~ (p + n >= Size)
      <3>1. TRKAppendBuffer1(c, value)
              = [c EXCEPT !.data[p + n] = array[m], !.position = p + n + 1, !.length = p + n + 1]
        BY <1>8, <1>9, <2>2, <2>4, Zenon DEF TRKAppendBuffer1, TRKAppendBuffer1_ui8
      <3>2. m <= Size - p /\ p + n \in 0 .. Size - 1 /\ p + n + 1 = p + m /\ p + m \in 0 .. Size
        BY <1>1, <1>2, <2>1, <2>4
      <3>3. Fitting(b, m) = m /\ AppendErr(b, m) = "kNoError"
        BY <3>2 DEF Fitting, AppendErr, p
      <3>4. [c.data EXCEPT ![p + n] = array[m]] = DataWith(b, array, m)
        <4>1. ASSUME NEW i \in 0 .. Size - 1, i = p + n
              PROVE  i - p \in 0 .. m - 1 /\ i - p + 1 = m
          BY <1>1, <2>1, <4>1
        <4>2. ASSUME NEW i \in 0 .. Size - 1, i # p + n
              PROVE  i - p \in 0 .. m - 1 <=> i - p \in 0 .. n - 1
          BY <1>1, <2>1, <4>2
        <4>3. DataWith(b, array, m) =
                [i \in 0 .. Size - 1 |-> IF i = p + n THEN array[m] ELSE c.data[i]]
          BY <1>8, <4>1, <4>2 DEF DataWith, p
        <4>4. c.data \in [0 .. Size - 1 -> Cell]
          BY <1>8, FieldTypes
        <4> QED
          BY <4>3, <4>4
      <3>5. HasFields([c EXCEPT !.data[p + n] = array[m], !.position = p + n + 1,
                                !.length = p + n + 1],
                      Cell, p + m, p + m, DataWith(b, array, m), "kNoError", b.bytes)
        <4>1. HasFields([c EXCEPT !.data[p + n] = array[m], !.position = p + m,
                                  !.length = p + m],
                        Cell, p + m, p + m, [c.data EXCEPT ![p + n] = array[m]],
                        c.err, c.bytes)
          BY <1>8, <2>2, <3>2, PutByte
        <4> QED
          BY <1>8, <3>2, <3>4, <4>1
      <3> QED
        BY <1>5, <3>1, <3>3, <3>5, SameFields
    <2> QED
      BY <2>3, <2>4
  <1>10. CASE Len(value) # 1
    <2> DEFINE k == Fitting(c, m - n)
    <2>1. TRKAppendBuffer1(c, value) = With(c, value, m - n)
      BY <1>6, <1>8, <1>10, BlockIs DEF TRKAppendBuffer1
    <2>2. /\ k + n = Fitting(b, m) /\ k \in 0 .. m - n
          /\ p + n + k = p + Fitting(b, m)
          /\ AppendErr(c, m - n) = AppendErr(b, m)
      <3>1. m - n <= Size - (p + n) <=> m <= Size - p
        BY <1>1
      <3>2. k = IF m - n <= Size - (p + n) THEN m - n ELSE Size - (p + n)
        BY <1>8 DEF Fitting
      <3>3. Fitting(b, m) = IF m <= Size - p THEN m ELSE Size - p
        BY DEF Fitting, p
      <3>4. AppendErr(c, m - n) = AppendErr(b, m)
        BY <1>8, <3>1 DEF AppendErr, p
      <3> HIDE DEF k
      <3> QED
        BY <1>1, <1>2, <3>1, <3>2, <3>3, <3>4
    <2>3. HasFields(With(c, value, m - n), Cell, p + n + k, p + n + k,
                    DataWith(c, value, k), AppendErr(c, m - n), b.bytes)
      <3>1. m - n \in 0 .. Len(value)
        BY <1>1, <1>6
      <3>2. HasFields(With(c, value, m - n), Cell, c.position + k, c.position + k,
                      DataWith(c, value, k), AppendErr(c, m - n), c.bytes)
        BY <1>6, <1>8, <3>1, WithType
      <3> HIDE DEF k
      <3> QED
        BY <1>8, <3>2
    <2> HIDE DEF k
    <2>4. DataWith(c, value, k) = DataWith(b, array, k + n)
      <3>1. ASSUME NEW i \in 0 .. Size - 1
            PROVE  (IF i - (p + n) \in 0 .. k - 1
                    THEN value[i - (p + n) + 1] ELSE DataWith(b, array, n)[i])
                   = IF i - p \in 0 .. (k + n) - 1 THEN array[i - p + 1] ELSE b.data[i]
        <4>1. CASE i - (p + n) \in 0 .. k - 1
          <5>1. i - (p + n) + 1 \in 1 .. m - n /\ i - p \in 0 .. (k + n) - 1
                /\ n + (i - (p + n) + 1) = i - p + 1
            BY <1>1, <2>2, <4>1
          <5> QED
            BY <1>7, <4>1, <5>1
        <4>2. CASE ~ (i - (p + n) \in 0 .. k - 1)
          <5>1. i - p \in 0 .. (k + n) - 1 <=> i - p \in 0 .. n - 1
            BY <1>1, <2>2, <4>2
          <5> QED
            BY <4>2, <5>1 DEF DataWith, p
        <4> QED
          BY <4>1, <4>2
      <3>2. DataWith(c, value, k) =
              [i \in 0 .. Size - 1 |-> IF i - (p + n) \in 0 .. k - 1
                                       THEN value[i - (p + n) + 1]
                                       ELSE DataWith(b, array, n)[i]]
        BY <1>8 DEF DataWith
      <3>3. DataWith(b, array, k + n) =
              [i \in 0 .. Size - 1 |-> IF i - p \in 0 .. (k + n) - 1
                                       THEN array[i - p + 1] ELSE b.data[i]]
        BY DEF DataWith, p
      <3> QED
        BY <3>1, <3>2, <3>3
    <2> QED
      BY <1>5, <2>1, <2>2, <2>3, <2>4, SameFields
  <1> QED
    BY <1>9, <1>10

\* What did not fit does not come later.
LEMMA NothingMoreFits ==
  ASSUME NEW Cell, NEW b \in Fields(Cell), NEW array \in Seq(Cell),
         NEW n \in 0 .. Len(array), NEW m \in n .. Len(array),
         With(b, array, n).err # "kNoError"
  PROVE  With(b, array, m) = With(b, array, n)
  <1>1. b.position \in 0 .. Size /\ Size \in Nat /\ ~ (n <= Size - b.position)
    BY BufferAssumption, FieldTypes DEF With, AppendErr
  <1>2. Fitting(b, m) = Fitting(b, n) /\ AppendErr(b, m) = AppendErr(b, n)
    BY <1>1 DEF Fitting, AppendErr
  <1> QED
    BY <1>1, <1>2 DEF With

\* The loop over an array stops at the first value that does not fit; what it
\* leaves behind is what the bytes of the array leave, appended at once.
LEMMA ArrayIsBlock ==
  ASSUME NEW Cell, NEW b \in Fields(Cell), b.position = b.length, b.err = "kNoError",
         NEW width \in Nat \ {0}, NEW count \in Nat,
         NEW array \in Seq(Cell), Len(array) = count * width
  PROVE  AppendEach(b, array, width, count) = With(b, array, Len(array))
  <1> DEFINE Body(f) ==
               [i \in 0 .. count |->
                  IF i = 0 THEN b
                  ELSE IF f[i - 1].err # "kNoError" THEN f[i - 1]
                  ELSE TRKAppendBuffer1(f[i - 1], Element(array, width, i))]
             after == CHOOSE f : f = Body(f)
             g == [i \in 0 .. count |-> With(b, array, i * width)]
  <1>1. With(b, array, 0) = b
    <2>1. <<>> \in Seq(Cell) /\ Len(<<>>) = 0 /\ AppendBuffer(b, <<>>) = b
      BY DEF AppendBuffer
    <2>2. With(b, <<>>, 0) = b
      BY <2>1, BlockIs
    <2>3. b.position \in 0 .. Size /\ Size \in Nat
      BY BufferAssumption, FieldTypes
    <2>4. Fitting(b, 0) = 0
      BY <2>3 DEF Fitting
    <2>5. DataWith(b, array, 0) = DataWith(b, <<>>, 0)
      <3>1. \A i \in 0 .. Size - 1 : ~ (i - b.position \in 0 .. 0 - 1)
        BY <2>3
      <3> QED
        BY <3>1 DEF DataWith
    <2>6. With(b, array, 0) = With(b, <<>>, 0)
      BY <2>4, <2>5 DEF With
    <2> QED
      BY <2>2, <2>6
  <1>2. ASSUME NEW i \in 1 .. count
        PROVE  With(b, array, i * width)
                 = IF With(b, array, (i - 1) * width).err # "kNoError"
                   THEN With(b, array, (i - 1) * width)
                   ELSE TRKAppendBuffer1(With(b, array, (i - 1) * width),
                                         Element(array, width, i))
    <2> DEFINE n == (i - 1) * width
               m == i * width
    <2>1. n \in Nat /\ m \in Nat /\ m = n + width
      BY Products
    <2>2. m <= Len(array)
      BY Monotone
    <2>3. Len(array) \in Nat
      OBVIOUS
    <2> HIDE DEF n, m
    <2>4. n \in 0 .. Len(array) /\ m \in n + 1 .. Len(array) /\ m \in n .. Len(array)
      BY <2>1, <2>2, <2>3
    <2>5. Element(array, width, i) = SubSeq(array, n + 1, m)
      BY DEF Element, n, m
    <2>6. CASE With(b, array, n).err # "kNoError"
      BY <2>4, <2>6, NothingMoreFits DEF n, m
    <2>7. CASE With(b, array, n).err = "kNoError"
      BY <2>4, <2>5, <2>7, OneMoreValue DEF n, m
    <2> QED
      BY <2>6, <2>7 DEF n, m
  <1>3. \A i \in 1 .. count : i \in 0 .. count /\ i - 1 \in 0 .. count /\ i # 0
    OBVIOUS
  <1>4. 0 \in 0 .. count /\ count \in 0 .. count /\ 0 * width = 0
    OBVIOUS
  <1>5. g = Body(g)
    <2>1. ASSUME NEW i \in 0 .. count
          PROVE  g[i] = Body(g)[i]
      <3>1. CASE i = 0
        BY <1>1, <1>4, <3>1
      <3>2. CASE i # 0
        <4>1. i \in 1 .. count
          BY <3>2
        <4>2. i - 1 \in 0 .. count
          BY <1>3, <4>1
        <4>3. g[i] = With(b, array, i * width)
          OBVIOUS
        <4>4. g[i - 1] = With(b, array, (i - 1) * width)
          BY <4>2
        <4>5. Body(g)[i] = IF g[i - 1].err # "kNoError" THEN g[i - 1]
                           ELSE TRKAppendBuffer1(g[i - 1], Element(array, width, i))
          BY <3>2
        <4> HIDE DEF g, Body
        <4> QED
          BY <1>2, <4>1, <4>3, <4>4, <4>5
      <3> QED
        BY <3>1, <3>2
    <2> QED
      BY <2>1
  <1>6. after = Body(after)
    <2> HIDE DEF g, Body
    <2> QED
      BY <1>5
  <1>7. AppendEach(b, array, width, count) = after[count]
    BY Zenon DEF AppendEach
  <1>8. after[0] = b /\ g[0] = b
    <2>1. Body(after)[0] = b /\ Body(g)[0] = b
      BY <1>4
    <2> HIDE DEF after, g, Body
    <2> QED
      BY <1>5, <1>6, <2>1
  <1>9. ASSUME NEW i \in 1 .. count, after[i - 1] = g[i - 1]
        PROVE  after[i] = g[i]
    <2>1. /\ Body(after)[i] = IF after[i - 1].err # "kNoError" THEN after[i - 1]
                      ELSE TRKAppendBuffer1(after[i - 1], Element(array, width, i))
          /\ Body(g)[i] = IF g[i - 1].err # "kNoError" THEN g[i - 1]
                      ELSE TRKAppendBuffer1(g[i - 1], Element(array, width, i))
      <3> HIDE DEF after, g
      <3> QED
        BY <1>3
    <2> HIDE DEF after, g, Body
    <2>2. Body(after)[i] = Body(g)[i]
      BY <1>9, <2>1
    <2> QED
      BY <1>5, <1>6, <2>2
  <1>10. after[count] = g[count]
    <2> HIDE DEF after, g, Body
    <2> QED
      BY <1>8, <1>9, SameRecursion
  <1>11. g[count] = With(b, array, Len(array))
    BY <1>4
  <1> QED
    BY <1>7, <1>10, <1>11

(***************************************************************************)
(* Reading.                                                                *)
(***************************************************************************)

\* b when n bytes have been read of it, or as many as there are.
Left(b, n) == IF n <= b.length - b.position THEN n ELSE b.length - b.position

ReadErr(b, n) ==
  IF n <= b.length - b.position THEN "kNoError" ELSE "kMessageBufferUnderflow"

Part(b, n) == [i \in 1 .. n |-> b.data[b.position + i - 1]]

ReadUp(b, n) ==
  [length |-> b.length, position |-> b.position + Left(b, n), data |-> b.data,
   err |-> ReadErr(b, n), bytes |-> Part(b, Left(b, n))]

\* The types of what a read leaves behind.
LEMMA ReadUpType ==
  ASSUME NEW Cell, NEW b \in Fields(Cell), b.position <= b.length, NEW n \in Nat
  PROVE  /\ Left(b, n) \in 0 .. n /\ Left(b, n) \in 0 .. b.length - b.position
         /\ b.position + Left(b, n) \in 0 .. Size
         /\ Part(b, Left(b, n)) \in Seq(Cell) /\ Len(Part(b, Left(b, n))) = Left(b, n)
         /\ ReadErr(b, n) \in Errors
         /\ HasFields(ReadUp(b, n), Cell, b.length, b.position + Left(b, n), b.data,
                      ReadErr(b, n), Part(b, Left(b, n)))
  <1>1. b.length \in 0 .. Size /\ b.position \in 0 .. Size /\ Size \in Nat
        /\ b.data \in [0 .. Size - 1 -> Cell]
    BY BufferAssumption, FieldTypes
  <1>2. /\ Left(b, n) \in 0 .. n /\ Left(b, n) \in 0 .. b.length - b.position
        /\ b.position + Left(b, n) \in 0 .. Size
    BY <1>1 DEF Left
  <1>3. \A i \in 1 .. Left(b, n) : b.position + i - 1 \in 0 .. Size - 1
    BY <1>1, <1>2
  <1>4. Part(b, Left(b, n)) \in [1 .. Left(b, n) -> Cell]
    BY <1>1, <1>3 DEF Part
  <1>5. Part(b, Left(b, n)) \in Seq(Cell) /\ Len(Part(b, Left(b, n))) = Left(b, n)
    BY <1>2, <1>4
  <1>6. ReadErr(b, n) \in Errors
    BY DEF ReadErr, Errors
  <1> QED
    BY <1>1, <1>2, <1>5, <1>6 DEF HasFields, Fields, ReadUp

\* What a read of n bytes does, n not zero.
LEMMA ReadStep ==
  ASSUME NEW Cell, NEW b \in Fields(Cell), b.position <= b.length, NEW n \in Nat \ {0}
  PROVE  HasFields(ReadBuffer(b, n), Cell, b.length, b.position + Left(b, n), b.data,
                   ReadErr(b, n), b.bytes \o Part(b, Left(b, n)))
  <1> DEFINE k == Min({n, b.length - b.position})
             err == IF n > b.length - b.position THEN "kMessageBufferUnderflow"
                    ELSE "kNoError"
  <1>1. b.length \in 0 .. Size /\ b.position \in 0 .. Size /\ Size \in Nat
        /\ b.bytes \in Seq(Cell)
    BY BufferAssumption, FieldTypes
  <1>2. k = Left(b, n)
    BY <1>1, MinOfTwo DEF Left
  <1>3. err = ReadErr(b, n)
    BY <1>1 DEF ReadErr
  <1>4. ReadBuffer(b, n) = [b EXCEPT !.position = b.position + k,
                                     !.bytes = b.bytes \o Part(b, k), !.err = err]
    BY Zenon DEF ReadBuffer, Part
  <1> HIDE DEF k, err
  <1>5. b.bytes \o Part(b, Left(b, n)) \in Seq(Cell)
    BY <1>1, ReadUpType, ConcatProperties
  <1>6. b.position + k \in 0 .. Size /\ err \in Errors
    BY <1>2, <1>3, ReadUpType
  <1>7. HasFields([b EXCEPT !.position = b.position + k, !.bytes = b.bytes \o Part(b, k),
                            !.err = err], Cell,
                  b.length, b.position + k, b.data, err, b.bytes \o Part(b, k))
    BY <1>2, <1>5, <1>6, PutRead
  <1> QED
    BY <1>2, <1>3, <1>4, <1>7

\* A read of nothing changes nothing.
LEMMA NothingRead ==
  ASSUME NEW Cell, NEW b \in Fields(Cell), b.position <= b.length, b.err = "kNoError",
         b.bytes = <<>>
  PROVE  ReadUp(b, 0) = b
  <1>1. b.length \in 0 .. Size /\ b.position \in 0 .. Size /\ Size \in Nat
    BY BufferAssumption, FieldTypes
  <1>2. Left(b, 0) = 0 /\ ReadErr(b, 0) = "kNoError" /\ b.position + 0 = b.position
    BY <1>1 DEF Left, ReadErr
  <1>3. Part(b, 0) = <<>>
    BY DEF Part
  <1>4. HasFields(ReadUp(b, 0), Cell, b.length, b.position, b.data, b.err, b.bytes)
    <2>1. HasFields(ReadUp(b, 0), Cell, b.length, b.position + Left(b, 0), b.data,
                    ReadErr(b, 0), Part(b, Left(b, 0)))
      BY ReadUpType
    <2> QED
      BY <1>2, <1>3, <2>1
  <1>5. HasFields(b, Cell, b.length, b.position, b.data, b.err, b.bytes)
    BY DEF HasFields
  <1> QED
    BY <1>4, <1>5, SameFields

\* What a read of a block leaves behind.
LEMMA ReadIs ==
  ASSUME NEW Cell, NEW b \in Fields(Cell), b.position <= b.length, b.err = "kNoError",
         b.bytes = <<>>, NEW n \in Nat
  PROVE  ReadBuffer(b, n) = ReadUp(b, n)
  <1>1. CASE n = 0
    BY <1>1, NothingRead DEF ReadBuffer
  <1>2. CASE n # 0
    <2>1. Part(b, Left(b, n)) \in Seq(Cell)
      BY ReadUpType
    <2>2. b.bytes \o Part(b, Left(b, n)) = Part(b, Left(b, n))
      BY <2>1, ConcatEmptySeq
    <2>3. HasFields(ReadBuffer(b, n), Cell, b.length, b.position + Left(b, n), b.data,
                    ReadErr(b, n), b.bytes \o Part(b, Left(b, n)))
      BY <1>2, ReadStep
    <2> QED
      BY <2>2, <2>3, ReadUpType, SameFields
  <1> QED
    BY <1>1, <1>2

\* One more value of an array.
LEMMA OneMoreRead ==
  ASSUME NEW Cell, NEW b \in Fields(Cell), b.position <= b.length,
         NEW n \in Nat, NEW width \in Nat \ {0}, ReadUp(b, n).err = "kNoError"
  PROVE  ReadBuffer(ReadUp(b, n), width) = ReadUp(b, n + width)
  <1> DEFINE c == ReadUp(b, n)
             k == Left(c, width)
  <1>1. b.length \in 0 .. Size /\ b.position \in 0 .. Size /\ Size \in Nat
        /\ b.data \in [0 .. Size - 1 -> Cell]
    BY BufferAssumption, FieldTypes
  <1>2. n <= b.length - b.position
    BY DEF ReadUp, ReadErr
  <1>3. Left(b, n) = n
    BY <1>2 DEF Left
  <1>4. HasFields(c, Cell, b.length, b.position + n, b.data, "kNoError", Part(b, n))
        /\ Part(b, n) \in Seq(Cell) /\ Len(Part(b, n)) = n
    <2>1. /\ HasFields(c, Cell, b.length, b.position + Left(b, n), b.data,
                       ReadErr(b, n), Part(b, Left(b, n)))
          /\ Part(b, Left(b, n)) \in Seq(Cell)
          /\ Len(Part(b, Left(b, n))) = Left(b, n)
      BY ReadUpType
    <2>2. ReadErr(b, n) = "kNoError"
      BY <1>2, <1>1 DEF ReadErr
    <2> QED
      BY <1>3, <2>1, <2>2
  <1>5. /\ c \in Fields(Cell) /\ c.length = b.length /\ c.position = b.position + n
        /\ c.data = b.data /\ c.bytes = Part(b, n)
    BY <1>4 DEF HasFields
  <1>6. c.position <= c.length
    BY <1>1, <1>2, <1>5
  <1> HIDE DEF c
  <1>7. HasFields(ReadBuffer(c, width), Cell, b.length, b.position + n + k, b.data,
                  ReadErr(c, width), Part(b, n) \o Part(c, k))
    BY <1>5, <1>6, ReadStep
  <1>8. /\ Part(c, k) \in Seq(Cell) /\ Len(Part(c, k)) = k /\ k \in Nat
    <2>1. /\ k \in 0 .. width /\ Part(c, k) \in Seq(Cell) /\ Len(Part(c, k)) = k
      BY <1>5, <1>6, ReadUpType
    <2> HIDE DEF k
    <2> QED
      BY <2>1
  <1>9. n + k = Left(b, n + width) /\ ReadErr(c, width) = ReadErr(b, n + width)
    <2>1. n + width <= b.length - b.position <=> width <= b.length - (b.position + n)
      BY <1>1
    <2>2. k = IF width <= b.length - (b.position + n) THEN width
              ELSE b.length - (b.position + n)
      BY <1>5 DEF Left
    <2>3. ReadErr(c, width) = ReadErr(b, n + width)
      BY <1>5, <2>1 DEF ReadErr
    <2>4. n + k = Left(b, n + width)
      <3> HIDE DEF k
      <3> QED
        BY <1>1, <2>1, <2>2 DEF Left
    <2> QED
      BY <2>3, <2>4
  <1> HIDE DEF k
  <1>10. Part(b, n) \o Part(c, k) = Part(b, n + k)
    <2>1. Part(b, n) \o Part(c, k) \in Seq(Cell) /\ Len(Part(b, n) \o Part(c, k)) = n + k
          /\ \A i \in 1 .. n + k : (Part(b, n) \o Part(c, k))[i] =
               IF i <= n THEN Part(b, n)[i] ELSE Part(c, k)[i - n]
      <3> DEFINE s == Part(b, n)
                 t == Part(c, k)
      <3>1. s \in Seq(Cell) /\ t \in Seq(Cell) /\ Len(s) = n /\ Len(t) = k
        BY <1>4, <1>8
      <3> HIDE DEF s, t
      <3>2. s \o t \in Seq(Cell) /\ Len(s \o t) = Len(s) + Len(t)
            /\ \A i \in 1 .. Len(s) + Len(t) : (s \o t)[i] =
                 IF i <= Len(s) THEN s[i] ELSE t[i - Len(s)]
        BY <3>1, ConcatProperties
      <3>3. s \o t \in Seq(Cell) /\ Len(s \o t) = n + k
            /\ \A i \in 1 .. n + k : (s \o t)[i] = IF i <= n THEN s[i] ELSE t[i - n]
        BY <3>1, <3>2
      <3> QED
        BY <3>3 DEF s, t
    <2>2. Part(b, n + k) \in Seq(Cell) /\ Len(Part(b, n + k)) = n + k
      <3>1. n + width \in Nat
        OBVIOUS
      <3> QED
        BY <1>9, <3>1, ReadUpType
    <2>3. ASSUME NEW i \in 1 .. n + k
          PROVE  (Part(b, n) \o Part(c, k))[i] = Part(b, n + k)[i]
      <3>1. CASE i <= n
        BY <2>1, <3>1 DEF Part
      <3>2. CASE ~ (i <= n)
        <4>1. i - n \in 1 .. k /\ b.position + n + (i - n) - 1 = b.position + i - 1
          <5>1. b.position \in Int /\ n \in Int /\ i \in Int /\ k \in Nat
            BY <1>1, <1>8
          <5>2. i - n \in 1 .. k
            BY <1>8, <3>2, <5>1
          <5>3. b.position + n + (i - n) - 1 = b.position + i - 1
            BY <5>1
          <5> QED
            BY <5>2, <5>3
        <4>2. Part(c, k)[i - n] = b.data[b.position + n + (i - n) - 1]
          BY <1>5, <4>1 DEF Part
        <4>3. Part(b, n + k)[i] = b.data[b.position + i - 1]
          BY DEF Part
        <4> QED
          BY <2>1, <3>2, <4>1, <4>2, <4>3
      <3> QED
        BY <3>1, <3>2
    <2> QED
      BY <2>1, <2>2, <2>3, SeqEqual
  <1>11. HasFields(ReadUp(b, n + width), Cell, b.length,
                   b.position + Left(b, n + width), b.data, ReadErr(b, n + width),
                   Part(b, Left(b, n + width)))
    BY ReadUpType
  <1>12. b.position + n + k = b.position + Left(b, n + width)
    BY <1>1, <1>8, <1>9
  <1> QED
    BY <1>7, <1>9, <1>10, <1>11, <1>12, SameFields DEF c

\* After an error nothing more is read.
LEMMA NothingMoreLeft ==
  ASSUME NEW Cell, NEW b \in Fields(Cell), NEW n \in Nat, NEW m \in Nat, n <= m,
         ReadUp(b, n).err # "kNoError"
  PROVE  ReadUp(b, m) = ReadUp(b, n)
  <1>1. b.length \in 0 .. Size /\ b.position \in 0 .. Size /\ Size \in Nat
        /\ ~ (n <= b.length - b.position)
    BY BufferAssumption, FieldTypes DEF ReadUp, ReadErr
  <1>2. Left(b, m) = Left(b, n) /\ ReadErr(b, m) = ReadErr(b, n)
    BY <1>1 DEF Left, ReadErr
  <1> QED
    BY <1>2 DEF ReadUp

\* A loop of reads takes what one read of all the bytes takes.
LEMMA ArrayIsRead ==
  ASSUME NEW Cell, NEW b \in Fields(Cell), b.position <= b.length, b.err = "kNoError",
         b.bytes = <<>>, NEW width \in Nat \ {0}, NEW count \in Nat
  PROVE  ReadEach(b, width, count) = ReadUp(b, count * width)
  <1> DEFINE Body(f) ==
               [i \in 0 .. count |->
                  IF i = 0 THEN b
                  ELSE IF f[i - 1].err # "kNoError" THEN f[i - 1]
                  ELSE ReadBuffer(f[i - 1], width)]
             after == CHOOSE f : f = Body(f)
             g == [i \in 0 .. count |-> ReadUp(b, i * width)]
  <1>1. ReadUp(b, 0) = b
    BY NothingRead
  <1>2. ASSUME NEW i \in 1 .. count
        PROVE  ReadUp(b, i * width)
                 = IF ReadUp(b, (i - 1) * width).err # "kNoError"
                   THEN ReadUp(b, (i - 1) * width)
                   ELSE ReadBuffer(ReadUp(b, (i - 1) * width), width)
    <2> DEFINE n == (i - 1) * width
               m == i * width
    <2>1. n \in Nat /\ m \in Nat /\ m = n + width
      BY Products
    <2> HIDE DEF n, m
    <2>2. n <= m
      BY <2>1
    <2>3. CASE ReadUp(b, n).err # "kNoError"
      BY <2>1, <2>2, <2>3, NothingMoreLeft DEF n, m
    <2>4. CASE ReadUp(b, n).err = "kNoError"
      <3>1. ReadBuffer(ReadUp(b, n), width) = ReadUp(b, n + width)
        BY <2>1, <2>4, OneMoreRead
      <3> QED
        BY <2>1, <2>4, <3>1 DEF n, m
    <2> QED
      BY <2>3, <2>4 DEF n, m
  <1>3. \A i \in 1 .. count : i \in 0 .. count /\ i - 1 \in 0 .. count /\ i # 0
    OBVIOUS
  <1>4. 0 \in 0 .. count /\ count \in 0 .. count /\ 0 * width = 0
    OBVIOUS
  <1>5. g = Body(g)
    <2>1. ASSUME NEW i \in 0 .. count
          PROVE  g[i] = Body(g)[i]
      <3>1. CASE i = 0
        BY <1>1, <1>4, <3>1
      <3>2. CASE i # 0
        <4>1. i \in 1 .. count
          BY <3>2
        <4>2. i - 1 \in 0 .. count
          BY <1>3, <4>1
        <4>3. g[i] = ReadUp(b, i * width)
          OBVIOUS
        <4>4. g[i - 1] = ReadUp(b, (i - 1) * width)
          BY <4>2
        <4>5. Body(g)[i] = IF g[i - 1].err # "kNoError" THEN g[i - 1]
                           ELSE ReadBuffer(g[i - 1], width)
          BY <3>2
        <4> HIDE DEF g, Body
        <4> QED
          BY <1>2, <4>1, <4>3, <4>4, <4>5
      <3> QED
        BY <3>1, <3>2
    <2> QED
      BY <2>1
  <1>6. after = Body(after)
    <2> HIDE DEF g, Body
    <2> QED
      BY <1>5
  <1>7. ReadEach(b, width, count) = after[count]
    BY Zenon DEF ReadEach
  <1>8. after[0] = b /\ g[0] = b
    <2>1. Body(after)[0] = b /\ Body(g)[0] = b
      BY <1>4
    <2> HIDE DEF after, g, Body
    <2> QED
      BY <1>5, <1>6, <2>1
  <1>9. ASSUME NEW i \in 1 .. count, after[i - 1] = g[i - 1]
        PROVE  after[i] = g[i]
    <2>1. /\ Body(after)[i] = IF after[i - 1].err # "kNoError" THEN after[i - 1]
                              ELSE ReadBuffer(after[i - 1], width)
          /\ Body(g)[i] = IF g[i - 1].err # "kNoError" THEN g[i - 1]
                          ELSE ReadBuffer(g[i - 1], width)
      <3> HIDE DEF after, g
      <3> QED
        BY <1>3
    <2> HIDE DEF after, g, Body
    <2>2. Body(after)[i] = Body(g)[i]
      BY <1>9, <2>1
    <2> QED
      BY <1>5, <1>6, <2>2
  <1>10. after[count] = g[count]
    <2> HIDE DEF after, g, Body
    <2> QED
      BY <1>8, <1>9, SameRecursion
  <1>11. g[count] = ReadUp(b, count * width)
    BY <1>4
  <1> QED
    BY <1>7, <1>10, <1>11

(***************************************************************************)
(* The type invariant.                                                     *)
(***************************************************************************)

\* What a byte of the buffer may be, and of a message.
Cells == Bytes \cup ({"number"} \X (0 .. MaxNumber)) \cup {Stale, <<"zero", 0>>}
Sent == Bytes \cup ({"number"} \X (1 .. MaxNumber))

\* What a message has may be in a buffer.
LEMMA SentAreCells == Sent \subseteq Cells /\ Bytes \subseteq Sent
  BY BufferAssumption DEF Sent, Cells

\* The fields of the buffer, as a call finds them.
LEMMA BufferType ==
  ASSUME TypeOK
  PROVE  /\ Buffer \in Fields(Cells)
         /\ Buffer.length = fLength /\ Buffer.position = fPosition /\ Buffer.data = fData
         /\ Buffer.err = "kNoError" /\ Buffer.bytes = <<>>
  <1>1. fLength \in 0 .. Size /\ fPosition \in 0 .. Size /\ fData \in [0 .. Size - 1 -> Cells]
    BY BufferAssumption DEF TypeOK, Cells
  <1>2. <<>> \in Seq(Cells) /\ "kNoError" \in Errors
    BY DEF Errors
  <1> QED
    BY <1>1, <1>2 DEF Buffer, Fields

\* A block is a sequence of bytes.
LEMMA BlockType ==
  ASSUME NEW length \in Nat, NEW array \in Block(length)
  PROVE  array \in Seq(Bytes) /\ array \in Seq(Cells) /\ Len(array) = length
  <1>1. Bytes \subseteq Cells
    BY SentAreCells
  <1> QED
    BY <1>1 DEF Block

\* The length of an array.
LEMMA Lengths ==
  ASSUME NEW width \in Widths, NEW count \in 0 .. MaxCount
  PROVE  width \in Nat \ {0} /\ count \in Nat /\ count * width \in Nat
         /\ count * width \in ArrayLengths
  <1>1. width \in Nat \ {0} /\ count \in Nat
    BY BufferAssumption
  <1>2. count * width \in Nat
    BY <1>1
  <1>3. count * width \in ArrayLengths
    BY DEF ArrayLengths
  <1> QED
    BY <1>1, <1>2, <1>3

\* What the appends of a block and of an array do.
Appended(array) ==
  LET k == Fitting(Buffer, Len(array)) IN
  /\ fLength' = fLength + k /\ fPosition' = fLength + k
  /\ fData' = [i \in 0 .. Size - 1 |-> IF i - fLength \in 0 .. k - 1
                                       THEN array[i - fLength + 1] ELSE fData[i]]
  /\ result' = [err |-> AppendErr(Buffer, Len(array)), asked |-> Len(array), bytes |-> <<>>]
  /\ UNCHANGED gPacketSeq

\* What an append does to the variables.
LEMMA AppendedIs ==
  ASSUME TypeOK, fPosition = fLength, NEW array, Leaves(With(Buffer, array, Len(array)), Len(array))
  PROVE  Appended(array)
  <1> USE BufferType
  <1>1. fLength' = Buffer.position + Fitting(Buffer, Len(array))
    BY DEF Leaves, With
  <1>2. fPosition' = Buffer.position + Fitting(Buffer, Len(array))
    BY DEF Leaves, With
  <1>3. fData' = DataWith(Buffer, array, Fitting(Buffer, Len(array)))
    BY DEF Leaves, With
  <1>4. result' = [err |-> AppendErr(Buffer, Len(array)), asked |-> Len(array), bytes |-> <<>>]
    BY DEF Leaves, With
  <1>5. UNCHANGED gPacketSeq
    BY DEF Leaves
  <1> QED
    BY <1>1, <1>2, <1>3, <1>4, <1>5 DEF Appended, DataWith

\* A block is appended as a whole.
LEMMA BlockAppends ==
  ASSUME TypeOK, NEW length \in Nat, NEW data \in Block(length), TRK_AppendBuffer(data)
  PROVE  fPosition = fLength /\ Appended(data)
  <1>1. fPosition = fLength /\ Leaves(AppendBuffer(Buffer, data), Len(data))
    BY DEF TRK_AppendBuffer
  <1>2. AppendBuffer(Buffer, data) = With(Buffer, data, Len(data))
    BY <1>1, BufferType, BlockType, BlockIs
  <1> QED
    BY <1>1, <1>2, AppendedIs

\* An array is appended as if it were a block.
LEMMA ArrayAppends ==
  ASSUME TypeOK, NEW width \in Widths, NEW count \in 0 .. MaxCount,
         NEW array \in Block(count * width), TRKAppendBuffer(array, width, count)
  PROVE  fPosition = fLength /\ Appended(array)
  <1>1. fPosition = fLength /\ Leaves(AppendEach(Buffer, array, width, count), Len(array))
    BY DEF TRKAppendBuffer
  <1>2. /\ array \in Seq(Cells) /\ Len(array) = count * width
        /\ width \in Nat \ {0} /\ count \in Nat
    BY Lengths, BlockType
  <1>3. AppendEach(Buffer, array, width, count) = With(Buffer, array, Len(array))
    BY <1>1, <1>2, BufferType, ArrayIsBlock
  <1> QED
    BY <1>1, <1>3, AppendedIs

\* How much of n bytes fits.
LEMMA FittingIs ==
  ASSUME TypeOK, fPosition = fLength, NEW n \in Nat
  PROVE  /\ Fitting(Buffer, n) = IF n <= Size - fLength THEN n ELSE Size - fLength
         /\ Fitting(Buffer, n) \in 0 .. n /\ fLength + Fitting(Buffer, n) \in 0 .. Size
  <1>1. fLength \in 0 .. Size /\ Size \in Nat
    BY BufferAssumption DEF TypeOK
  <1>2. Fitting(Buffer, n) = IF n <= Size - fLength THEN n ELSE Size - fLength
    BY BufferType DEF Fitting
  <1> QED
    BY <1>1, <1>2

\* An append of bytes keeps the type invariant.
LEMMA AppendedType ==
  ASSUME TypeOK, fPosition = fLength, NEW array \in Seq(Bytes), Appended(array)
  PROVE  TypeOK'
  <1> DEFINE n == Len(array)
             k == Fitting(Buffer, n)
  <1>1. n \in Nat /\ \A i \in 1 .. n : array[i] \in Sent
    BY SentAreCells
  <1>2. k \in 0 .. n /\ fLength + k \in 0 .. Size /\ fLength \in Nat /\ Size \in Nat
    BY <1>1, FittingIs, BufferAssumption DEF TypeOK
  <1>3. /\ fLength' = fLength + k /\ fPosition' = fLength + k
        /\ fData' = [i \in 0 .. Size - 1 |-> IF i - fLength \in 0 .. k - 1
                                             THEN array[i - fLength + 1] ELSE fData[i]]
        /\ gPacketSeq' = gPacketSeq
    BY DEF Appended
  <1> HIDE DEF n, k
  <1>4. fData \in [0 .. Size - 1 -> Cells] /\ \A i \in 0 .. fLength - 1 : fData[i] \in Sent
    BY DEF TypeOK, Cells, Sent
  <1>5. \A i \in 0 .. Size - 1 : i - fLength \in 0 .. k - 1 => i - fLength + 1 \in 1 .. n
    <2>1. n \in Nat /\ k \in Nat /\ k <= n /\ fLength \in Nat /\ Size \in Nat
      BY <1>1, <1>2
    <2> QED
      BY <2>1
  <1>6. fData' \in [0 .. Size - 1 -> Cells]
    BY <1>1, <1>3, <1>4, <1>5, SentAreCells
  <1>7. ASSUME NEW i \in 0 .. (fLength + k) - 1
        PROVE  fData'[i] \in Sent
    <2>1. i \in 0 .. Size - 1
      BY <1>2
    <2>2. CASE i - fLength \in 0 .. k - 1
      BY <1>1, <1>3, <1>5, <2>1, <2>2
    <2>3. CASE ~ (i - fLength \in 0 .. k - 1)
      <3>1. i \in 0 .. fLength - 1
        BY <1>2, <2>3
      <3> QED
        BY <1>3, <1>4, <2>1, <2>3, <3>1
    <2> QED
      BY <2>2, <2>3
  <1>8. gPacketSeq' \in 0 .. MaxNumber
    BY <1>3 DEF TypeOK
  <1>9. fLength' \in 0 .. Size /\ fPosition' \in 0 .. fLength'
    BY <1>2, <1>3
  <1>10. \A i \in 0 .. fLength' - 1 : fData'[i] \in Sent
    BY <1>2, <1>3, <1>7
  <1> QED
    BY <1>6, <1>8, <1>9, <1>10 DEF TypeOK, Cells, Sent

\* What the reads do.
Read(n) ==
  LET k == Left(Buffer, n) IN
  /\ fPosition' = fPosition + k
  /\ result' = [err |-> ReadErr(Buffer, n), asked |-> n,
                bytes |-> [i \in 1 .. k |-> fData[fPosition + i - 1]]]
  /\ UNCHANGED <<fLength, fData, gPacketSeq>>

\* What a read does to the variables.
LEMMA ReadsUp ==
  ASSUME TypeOK, NEW n, Leaves(ReadUp(Buffer, n), n)
  PROVE  Read(n)
  <1> USE BufferType
  <1>1. fLength' = fLength /\ fData' = fData /\ gPacketSeq' = gPacketSeq
    BY DEF Leaves, ReadUp
  <1>2. fPosition' = fPosition + Left(Buffer, n)
    BY DEF Leaves, ReadUp
  <1>3. result' = [err |-> ReadErr(Buffer, n), asked |-> n, bytes |-> Part(Buffer, Left(Buffer, n))]
    BY DEF Leaves, ReadUp
  <1> QED
    BY <1>1, <1>2, <1>3 DEF Read, Part

\* A block is read as a whole.
LEMMA BlockReads ==
  ASSUME TypeOK, NEW length \in Nat, TRK_ReadBuffer(length)
  PROVE  Read(length)
  <1>1. Buffer.position <= Buffer.length
    BY BufferType, BufferAssumption DEF TypeOK
  <1>2. ReadBuffer(Buffer, length) = ReadUp(Buffer, length)
    BY <1>1, BufferType, ReadIs
  <1> QED
    BY <1>2, ReadsUp DEF TRK_ReadBuffer

\* An array is read as if it were a block.
LEMMA ArrayReads ==
  ASSUME TypeOK, NEW width \in Widths, NEW count \in 0 .. MaxCount, TRKReadBuffer(width, count)
  PROVE  Read(count * width)
  <1>1. Buffer.position <= Buffer.length
    BY BufferType, BufferAssumption DEF TypeOK
  <1>2. ReadEach(Buffer, width, count) = ReadUp(Buffer, count * width)
    BY <1>1, BufferType, Lengths, ArrayIsRead
  <1> QED
    BY <1>2, ReadsUp DEF TRKReadBuffer

\* How much of n bytes there is.
LEMMA LeftIs ==
  ASSUME TypeOK, NEW n \in Nat
  PROVE  /\ Left(Buffer, n) = IF n <= fLength - fPosition THEN n ELSE fLength - fPosition
         /\ Left(Buffer, n) \in 0 .. n /\ fPosition + Left(Buffer, n) \in 0 .. fLength
  <1>1. fLength \in 0 .. Size /\ fPosition \in 0 .. fLength /\ Size \in Nat
    BY BufferAssumption DEF TypeOK
  <1>2. Left(Buffer, n) = IF n <= fLength - fPosition THEN n ELSE fLength - fPosition
    BY BufferType DEF Left
  <1> QED
    BY <1>1, <1>2

\* A read keeps the type invariant.
LEMMA ReadKeepsType ==
  ASSUME TypeOK, NEW n \in Nat, Read(n)
  PROVE  TypeOK'
  <1>1. fPosition' \in 0 .. fLength
    BY LeftIs DEF Read
  <1>2. UNCHANGED <<fLength, fData, gPacketSeq>>
    BY DEF Read
  <1> QED
    BY <1>1, <1>2 DEF TypeOK

\* The number of a message is not zero, and the next one is in its range.
LEMMA SequenceType ==
  ASSUME TypeOK
  PROVE  /\ CurrentSequence \in 1 .. MaxNumber
         /\ (CurrentSequence + 1) % (MaxNumber + 1)
              = IF CurrentSequence = MaxNumber THEN 0 ELSE CurrentSequence + 1
  <1>1. CurrentSequence \in 1 .. MaxNumber /\ MaxNumber \in Nat \ {0}
    BY BufferAssumption DEF TypeOK, CurrentSequence
  <1>2. CASE CurrentSequence = MaxNumber
    <2>1. (MaxNumber + 1) % (MaxNumber + 1) = 0
      BY <1>1
    <2> QED
      BY <1>1, <1>2, <2>1
  <1>3. CASE CurrentSequence # MaxNumber
    <2>1. CurrentSequence + 1 \in 0 .. MaxNumber
      BY <1>1, <1>3
    <2>2. \A i \in 0 .. MaxNumber : i % (MaxNumber + 1) = i
      BY <1>1
    <2> QED
      BY <1>1, <1>3, <2>1, <2>2
  <1> QED
    BY <1>2, <1>3

\* A send keeps the type invariant.
LEMMA SendKeepsType ==
  ASSUME TypeOK, TRK_MessageSend
  PROVE  TypeOK'
  <1>1. fData' = [fData EXCEPT ![NumberAt] = <<"number", CurrentSequence>>]
        /\ gPacketSeq' = (CurrentSequence + 1) % (MaxNumber + 1)
        /\ UNCHANGED <<fLength, fPosition>>
    BY DEF TRK_MessageSend
  <1>2. <<"number", CurrentSequence>> \in Sent
    BY SequenceType DEF Sent
  <1>3. fData \in [0 .. Size - 1 -> Cells] /\ \A i \in 0 .. fLength - 1 : fData[i] \in Sent
    BY DEF TypeOK, Cells, Sent
  <1>4. fData' \in [0 .. Size - 1 -> Cells]
    BY <1>1, <1>2, <1>3, SentAreCells
  <1>5. fLength \in 0 .. Size /\ Size \in Nat
    BY BufferAssumption DEF TypeOK
  <1>6. ASSUME NEW i \in 0 .. fLength - 1 PROVE fData'[i] \in Sent
    <2>1. i \in 0 .. Size - 1
      BY <1>5
    <2> QED
      BY <1>1, <1>2, <1>3, <2>1
  <1>7. gPacketSeq' \in 0 .. MaxNumber
    BY <1>1, SequenceType, BufferAssumption
  <1> QED
    BY <1>1, <1>4, <1>6, <1>7 DEF TypeOK, Cells, Sent

\* The length and the position stay in the buffer, for every size and all data;
\* and what lies before the length was appended or is the number of a message.
THEOREM BufferIsSound == Spec => []TypeOK
  <1>1. Init => TypeOK
    BY BufferAssumption DEF Init, TypeOK
  <1>2. TypeOK /\ [Next]_vars => TypeOK'
    <2> SUFFICES ASSUME TypeOK, [Next]_vars PROVE TypeOK'
      OBVIOUS
    <2>1. ASSUME NEW zero \in BOOLEAN, TRKResetBuffer(zero) PROVE TypeOK'
      <3>1. /\ fLength' = 0 /\ fPosition' = 0 /\ gPacketSeq' = gPacketSeq
            /\ fData' = IF zero THEN [i \in DOMAIN fData |-> <<"zero", 0>>] ELSE fData
        BY <2>1 DEF TRKResetBuffer, Leaves, Buffer
      <3>2. fData' \in [0 .. Size - 1 -> Cells]
        BY <3>1 DEF TypeOK, Cells
      <3> QED
        BY <3>1, <3>2, BufferAssumption DEF TypeOK, Cells
    <2>2. ASSUME NEW position \in {0, Header}, TRK_SetBufferPosition(position) PROVE TypeOK'
      <3>1. /\ position <= fLength /\ fPosition' = position /\ fLength' = fLength
            /\ fData' = fData /\ gPacketSeq' = gPacketSeq
        <4>1. position <= fLength /\ ~ (position > fLength)
          BY <2>2, BufferAssumption DEF TRK_SetBufferPosition, TypeOK
        <4> QED
          BY <2>2, <4>1 DEF TRK_SetBufferPosition, Leaves, Buffer
      <3>2. fPosition' \in 0 .. fLength
        BY <3>1, BufferAssumption DEF TypeOK
      <3> QED
        BY <3>1, <3>2 DEF TypeOK
    <2>3. ASSUME NEW length \in {0, Header}, NEW data \in Block(length), TRK_AppendBuffer(data)
          PROVE  TypeOK'
      <3>1. length \in Nat
        BY BufferAssumption
      <3> QED
        BY <2>3, <3>1, BlockType, BlockAppends, AppendedType
    <2>4. ASSUME NEW width \in Widths, NEW count \in 0 .. MaxCount,
                 NEW array \in Block(count * width), TRKAppendBuffer(array, width, count)
          PROVE  TypeOK'
      BY <2>4, Lengths, BlockType, ArrayAppends, AppendedType
    <2>5. ASSUME NEW length \in 0 .. Size, TRK_ReadBuffer(length) PROVE TypeOK'
      <3>1. length \in Nat
        BY BufferAssumption
      <3> QED
        BY <2>5, <3>1, BlockReads, ReadKeepsType
    <2>6. ASSUME NEW width \in Widths, NEW count \in 0 .. MaxCount, TRKReadBuffer(width, count)
          PROVE  TypeOK'
      BY <2>6, Lengths, ArrayReads, ReadKeepsType
    <2>7. CASE TRK_MessageSend
      BY <2>7, SendKeepsType
    <2>8. CASE UNCHANGED vars
      BY <2>8 DEF vars, TypeOK
    <2> QED
      BY <2>1, <2>2, <2>3, <2>4, <2>5, <2>6, <2>7, <2>8 DEF Next
  <1> QED
    BY <1>1, <1>2, PTL DEF Spec

(***************************************************************************)
(* The buffer is a stream of bytes.                                        *)
(***************************************************************************)

\* What the stream and the number of the last message are.
Text == [i \in 1 .. fLength |-> fData[i - 1]]
Number == IF gPacketSeq = 0 THEN MaxNumber ELSE gPacketSeq - 1

\* The stream has the bytes before the length.
LEMMA TextType ==
  ASSUME TypeOK
  PROVE  Text \in Seq(Cells) /\ Len(Text) = fLength /\ fLength \in Nat
  <1>1. fLength \in Nat /\ \A i \in 1 .. fLength : i - 1 \in 0 .. Size - 1
    BY BufferAssumption DEF TypeOK
  <1>2. fData \in [0 .. Size - 1 -> Cells]
    BY DEF TypeOK, Cells
  <1>3. Text \in [1 .. fLength -> Cells]
    BY <1>1, <1>2 DEF Text
  <1> QED
    BY <1>1, <1>3

\* The stream takes its minimum from the same module.
LEMMA StreamMin == \A S : Stream!Min(S) = Min(S)
  BY DEF Stream!Min, Min

\* An append is a Put of all its bytes.
LEMMA AppendIsPut ==
  ASSUME TypeOK, TypeOK', fPosition = fLength, NEW array \in Seq(Cells), Appended(array)
  PROVE  Stream!Put(array)
  <1> DEFINE n == Len(array)
             k == Fitting(Buffer, n)
             all == Text \o array
  <1>1. n \in Nat /\ Size \in Nat /\ fLength \in 0 .. Size
    BY BufferAssumption DEF TypeOK
  <1>2. /\ k = IF n <= Size - fLength THEN n ELSE Size - fLength
        /\ k \in 0 .. n /\ fLength + k \in 0 .. Size
    BY <1>1, FittingIs
  <1>3. /\ fLength' = fLength + k /\ fPosition' = fLength + k
        /\ fData' = [i \in 0 .. Size - 1 |-> IF i - fLength \in 0 .. k - 1
                                             THEN array[i - fLength + 1] ELSE fData[i]]
        /\ result' = [err |-> AppendErr(Buffer, n), asked |-> n, bytes |-> <<>>]
        /\ gPacketSeq' = gPacketSeq
    BY DEF Appended
  <1>4. /\ all \in Seq(Cells) /\ Len(all) = fLength + n
        /\ \A i \in 1 .. fLength + n : all[i] = IF i <= fLength THEN Text[i]
                                                ELSE array[i - fLength]
    <2> DEFINE t == Text
    <2>1. t \in Seq(Cells) /\ Len(t) = fLength
      BY TextType
    <2> HIDE DEF t
    <2>2. /\ t \o array \in Seq(Cells) /\ Len(t \o array) = Len(t) + Len(array)
          /\ \A i \in 1 .. Len(t) + Len(array) :
               (t \o array)[i] = IF i <= Len(t) THEN t[i] ELSE array[i - Len(t)]
      BY <2>1, ConcatProperties
    <2> QED
      BY <2>1, <2>2 DEF t
  <1> HIDE DEF n, k, all
  <1>5. Min({Size, Len(all)}) = fLength + k
    <2>1. Min({Size, fLength + n}) = IF Size <= fLength + n THEN Size ELSE fLength + n
      BY <1>1, MinOfTwo
    <2> QED
      BY <1>1, <1>2, <1>4, <2>1
  <1>6. /\ SubSeq(all, 1, fLength + k) \in Seq(Cells)
        /\ Len(SubSeq(all, 1, fLength + k)) = fLength + k
        /\ \A i \in 1 .. fLength + k : SubSeq(all, 1, fLength + k)[i] = all[i]
    <2> DEFINE m == fLength + k
    <2>1. m \in Nat /\ m <= Len(all)
      BY <1>1, <1>2, <1>4
    <2> HIDE DEF m
    <2>2. \A i \in 1 .. m : all[i] \in Cells
      BY <1>4, <2>1
    <2>3. /\ SubSeq(all, 1, m) \in Seq(Cells)
          /\ Len(SubSeq(all, 1, m)) = IF 1 <= m THEN m - 1 + 1 ELSE 0
          /\ \A i \in 1 .. m - 1 + 1 : SubSeq(all, 1, m)[i] = all[1 + i - 1]
      BY <2>1, <2>2, SubSeqProperties
    <2>4. m - 1 + 1 = m /\ (IF 1 <= m THEN m - 1 + 1 ELSE 0) = m
          /\ \A i \in 1 .. m : 1 + i - 1 = i
      BY <2>1
    <2>5. /\ SubSeq(all, 1, m) \in Seq(Cells) /\ Len(SubSeq(all, 1, m)) = m
          /\ \A i \in 1 .. m : SubSeq(all, 1, m)[i] = all[i]
      BY <2>3, <2>4
    <2> QED
      BY <2>5 DEF m
  <1>7. Text' \in Seq(Cells) /\ Len(Text') = fLength + k
    <2>1. Text' \in Seq(Cells) /\ Len(Text') = fLength'
      <3>1. fLength' \in Nat /\ \A i \in 1 .. fLength' : i - 1 \in 0 .. Size - 1
        BY BufferAssumption DEF TypeOK
      <3>2. fData' \in [0 .. Size - 1 -> Cells]
        BY DEF TypeOK, Cells
      <3>3. Text' \in [1 .. fLength' -> Cells]
        BY <3>1, <3>2 DEF Text
      <3> QED
        BY <3>1, <3>3
    <2> QED
      BY <1>3, <2>1
  <1>8. ASSUME NEW i \in 1 .. fLength + k
        PROVE  Text'[i] = all[i]
    <2>1. Text'[i] = fData'[i - 1] /\ i - 1 \in 0 .. Size - 1
      BY <1>1, <1>2, <1>3 DEF Text
    <2>2. i \in 1 .. fLength + n
      BY <1>1, <1>2
    <2>3. CASE i <= fLength
      <3>1. ~ (i - 1 - fLength \in 0 .. k - 1) /\ i \in 1 .. fLength
        BY <1>1, <2>3
      <3>2. fData'[i - 1] = fData[i - 1]
        BY <1>3, <2>1, <3>1
      <3>3. Text[i] = fData[i - 1]
        BY <3>1 DEF Text
      <3> QED
        BY <1>4, <2>1, <2>2, <2>3, <3>2, <3>3
    <2>4. CASE ~ (i <= fLength)
      <3>1. i - 1 - fLength \in 0 .. k - 1 /\ i - 1 - fLength + 1 = i - fLength
        BY <1>1, <1>2, <2>4
      <3>2. fData'[i - 1] = array[i - 1 - fLength + 1]
        BY <1>3, <2>1, <3>1
      <3> QED
        BY <1>4, <2>1, <2>2, <2>4, <3>1, <3>2
    <2> QED
      BY <2>3, <2>4
  <1>9. Text' = SubSeq(all, 1, Min({Size, Len(all)}))
    <2>1. \A i \in 1 .. Len(Text') : Text'[i] = SubSeq(all, 1, fLength + k)[i]
      BY <1>6, <1>7, <1>8
    <2>2. Text' = SubSeq(all, 1, fLength + k)
      BY <1>6, <1>7, <2>1, SeqEqual
    <2> QED
      BY <1>5, <2>2
  <1>10. AppendErr(Buffer, n) = IF Len(all) <= Size THEN "kNoError" ELSE "kMessageBufferOverflow"
    <2>1. n <= Size - fLength <=> fLength + n <= Size
      BY <1>1
    <2>2. Buffer.position = fLength
      BY BufferType
    <2> QED
      BY <1>4, <2>1, <2>2 DEF AppendErr
  <1>11. fPosition' = Len(Text')
    BY <1>3, <1>7
  <1>12. Number' = Number
    BY <1>3 DEF Number
  <1>13. result' = [err |-> IF Len(all) <= Size THEN "kNoError" ELSE "kMessageBufferOverflow",
                    asked |-> n, bytes |-> <<>>]
    BY <1>3, <1>10
  <1> QED
    BY <1>9, <1>11, <1>12, <1>13, StreamMin, Zenon
       DEF Stream!Put, Stream!Return, Text, Number, all, n

\* A read is a Take.
LEMMA ReadIsTake ==
  ASSUME TypeOK, NEW n \in Nat, Read(n)
  PROVE  Stream!Take(n)
  <1> DEFINE k == Left(Buffer, n)
             end == Min({fPosition + n, Len(Text)})
  <1>1. fLength \in 0 .. Size /\ fPosition \in 0 .. fLength /\ Size \in Nat
        /\ Len(Text) = fLength
    BY TextType, BufferAssumption DEF TypeOK
  <1>2. /\ k = IF n <= fLength - fPosition THEN n ELSE fLength - fPosition
        /\ k \in 0 .. n /\ fPosition + k \in 0 .. fLength
    BY LeftIs
  <1>3. /\ fPosition' = fPosition + k
        /\ result' = [err |-> ReadErr(Buffer, n), asked |-> n,
                      bytes |-> [i \in 1 .. k |-> fData[fPosition + i - 1]]]
        /\ fLength' = fLength /\ fData' = fData /\ gPacketSeq' = gPacketSeq
    BY DEF Read
  <1>4. end = fPosition + k
    <2>1. Min({fPosition + n, fLength})
            = IF fPosition + n <= fLength THEN fPosition + n ELSE fLength
      BY <1>1, MinOfTwo
    <2> HIDE DEF k
    <2> QED
      BY <1>1, <1>2, <2>1
  <1> HIDE DEF k, end
  <1>5. SubSeq(Text, fPosition + 1, end) = [i \in 1 .. k |-> fData[fPosition + i - 1]]
    <2>1. SubSeq(Text, fPosition + 1, fPosition + k)
            = [i \in 1 .. k |-> Text[fPosition + i]]
      <3>1. fPosition + 1 \in 1 .. Len(Text) + 1 /\ fPosition + k \in fPosition .. Len(Text)
            /\ fPosition + k - (fPosition + 1) + 1 = k /\ k \in Nat
        BY <1>1, <1>2
      <3>2. CASE k = 0
        <4>1. fPosition + k < fPosition + 1 /\ fPosition + 1 \in Int /\ fPosition + k \in Int
          BY <1>1, <3>2
        <4>2. SubSeq(Text, fPosition + 1, fPosition + k) = <<>>
          BY <4>1, SubSeqEmpty
        <4> QED
          BY <3>2, <4>2
      <3>3. CASE k # 0
        <4> DEFINE m == fPosition + k
        <4>1. m \in Nat /\ fPosition \in Nat /\ fPosition < m /\ m <= Len(Text) /\ m - fPosition = k
          BY <1>1, <3>1, <3>3
        <4>2. Text \in Seq(Cells)
          BY TextType
        <4> HIDE DEF m
        <4>3. /\ SubSeq(Text, fPosition + 1, m) \in Seq(Cells)
              /\ Len(SubSeq(Text, fPosition + 1, m)) = m - fPosition
              /\ \A i \in 1 .. m - fPosition : SubSeq(Text, fPosition + 1, m)[i] = Text[fPosition + i]
          BY <4>1, <4>2, SubSeqIs
        <4>4. SubSeq(Text, fPosition + 1, m) = [i \in 1 .. k |-> Text[fPosition + i]]
          BY <4>1, <4>3
        <4> QED
          BY <4>4 DEF m
      <3> QED
        BY <3>2, <3>3
    <2>2. \A i \in 1 .. k : Text[fPosition + i] = fData[fPosition + i - 1]
      <3>1. ASSUME NEW i \in 1 .. k
            PROVE  /\ fPosition + i \in 1 .. fLength
                   /\ (fPosition + i) - 1 = fPosition + i - 1
        BY <1>1, <1>2
      <3>2. \A j \in 1 .. fLength : Text[j] = fData[j - 1]
        BY DEF Text
      <3> QED
        BY <3>1, <3>2
    <2> QED
      BY <1>4, <2>1, <2>2
  <1>6. ReadErr(Buffer, n) = IF fPosition + n <= Len(Text) THEN "kNoError"
                             ELSE "kMessageBufferUnderflow"
    <2>1. n <= fLength - fPosition <=> fPosition + n <= fLength
      BY <1>1
    <2>2. Buffer.position = fPosition /\ Buffer.length = fLength
      BY BufferType
    <2> QED
      BY <1>1, <2>1, <2>2 DEF ReadErr
  <1>7. fPosition' = end /\ Text' = Text /\ Number' = Number
    BY <1>3, <1>4 DEF Text, Number
  <1>8. result' = [err |-> IF fPosition + n <= Len(Text) THEN "kNoError"
                           ELSE "kMessageBufferUnderflow",
                   asked |-> n, bytes |-> SubSeq(Text, fPosition + 1, end)]
    BY <1>3, <1>5, <1>6
  <1> QED
    BY <1>7, <1>8, StreamMin, Zenon DEF Stream!Take, Stream!Return, Text, Number, end

\* A send is a Send.
LEMMA SendIsSend ==
  ASSUME TypeOK, TRK_MessageSend
  PROVE  Stream!Send
  <1> DEFINE data == [fData EXCEPT ![NumberAt] = <<"number", CurrentSequence>>]
  <1>1. /\ fData' = data /\ gPacketSeq' = (CurrentSequence + 1) % (MaxNumber + 1)
        /\ result' = [err |-> "kNoError", asked |-> 0,
                      bytes |-> [i \in 1 .. fLength |-> data[i - 1]]]
        /\ fLength' = fLength /\ fPosition' = fPosition
    BY DEF TRK_MessageSend
  <1>2. fLength \in 0 .. Size /\ Size \in Nat /\ NumberAt \in Nat /\ Len(Text) = fLength
        /\ MaxNumber \in Nat \ {0} /\ gPacketSeq \in 0 .. MaxNumber
        /\ fData \in [0 .. Size - 1 -> Cells]
    BY TextType, BufferAssumption DEF TypeOK, Cells
  <1>3. Number' = CurrentSequence
    <2>1. CurrentSequence \in 1 .. MaxNumber
      BY SequenceType
    <2>2. gPacketSeq' = IF CurrentSequence = MaxNumber THEN 0 ELSE CurrentSequence + 1
      BY <1>1, SequenceType
    <2>3. Number' = IF gPacketSeq' = 0 THEN MaxNumber ELSE gPacketSeq' - 1
      BY DEF Number
    <2> QED
      BY <1>2, <2>1, <2>2, <2>3
  <1>4. (Number % MaxNumber) + 1 = CurrentSequence
    <2>1. CASE gPacketSeq = 0
      <3>1. MaxNumber % MaxNumber = 0
        BY <1>2
      <3> QED
        BY <1>2, <2>1, <3>1 DEF Number, CurrentSequence
    <2>2. CASE gPacketSeq # 0
      <3>1. gPacketSeq - 1 \in 0 .. MaxNumber - 1
        BY <1>2, <2>2
      <3>2. \A i \in 0 .. MaxNumber - 1 : i % MaxNumber = i
        BY <1>2
      <3>3. (gPacketSeq - 1) % MaxNumber = gPacketSeq - 1
        BY <3>1, <3>2
      <3> QED
        BY <1>2, <2>2, <3>3 DEF Number, CurrentSequence
    <2> QED
      BY <2>1, <2>2
  <1>5. Text' = [i \in 1 .. fLength |-> data[i - 1]]
    BY <1>1 DEF Text
  <1>6. CASE NumberAt < Len(Text)
    <2>1. [Text EXCEPT ![NumberAt + 1] = <<"number", CurrentSequence>>]
            = [i \in 1 .. fLength |-> data[i - 1]]
      <3>1. ASSUME NEW i \in 1 .. fLength
            PROVE  (IF i = NumberAt + 1 THEN <<"number", CurrentSequence>> ELSE fData[i - 1])
                     = data[i - 1]
        <4>1. i - 1 \in 0 .. Size - 1 /\ (i = NumberAt + 1 <=> i - 1 = NumberAt)
          BY <1>2
        <4> QED
          BY <1>2, <4>1
      <3>2. [Text EXCEPT ![NumberAt + 1] = <<"number", CurrentSequence>>]
              = [i \in 1 .. fLength |-> IF i = NumberAt + 1 THEN <<"number", CurrentSequence>>
                                        ELSE fData[i - 1]]
        BY DEF Text
      <3> QED
        BY <3>1, <3>2
    <2> QED
      BY <1>5, <1>6, <2>1, <1>1, <1>3, <1>4, Zenon
         DEF Stream!Send, Stream!Return, Text, Number
  <1>7. CASE ~ (NumberAt < Len(Text))
    <2>1. Text = [i \in 1 .. fLength |-> data[i - 1]]
      <3>1. \A i \in 1 .. fLength : i - 1 # NumberAt /\ i - 1 \in 0 .. Size - 1
        BY <1>2, <1>7
      <3> QED
        BY <1>2, <3>1 DEF Text
    <2> QED
      BY <1>5, <1>7, <2>1, <1>1, <1>3, <1>4, Zenon
         DEF Stream!Send, Stream!Return, Text, Number
  <1> QED
    BY <1>6, <1>7

\* A reset leaves an empty stream, whether the data are cleared or not.
LEMMA ResetIsReset ==
  ASSUME NEW zero, TRKResetBuffer(zero)
  PROVE  Stream!Reset
  <1>1. /\ fLength' = 0 /\ fPosition' = 0 /\ gPacketSeq' = gPacketSeq
        /\ result' = [err |-> "kNoError", asked |-> 0, bytes |-> <<>>]
    BY DEF TRKResetBuffer, Leaves, Buffer
  <1>2. Text' = <<>>
    <2>1. Text' = [i \in 1 .. fLength' |-> fData'[i - 1]]
      BY DEF Text
    <2>2. Text' = [i \in {} |-> fData'[i - 1]]
      BY <1>1, <2>1
    <2> QED
      BY <2>2
  <1>3. Number' = Number
    BY <1>1 DEF Number
  <1> QED
    BY <1>1, <1>2, <1>3, Zenon DEF Stream!Reset, Stream!Return, Text, Number

\* The new position is never behind the data.
LEMMA SetPositionIsSeek ==
  ASSUME TypeOK, NEW position \in {0, Header}, TRK_SetBufferPosition(position)
  PROVE  Stream!Seek(position)
  <1>1. position <= fLength /\ ~ (position > fLength)
    BY BufferAssumption DEF TRK_SetBufferPosition, TypeOK
  <1>2. /\ fPosition' = position /\ fLength' = fLength /\ fData' = fData
        /\ gPacketSeq' = gPacketSeq
        /\ result' = [err |-> "kNoError", asked |-> 0, bytes |-> <<>>]
    BY <1>1 DEF TRK_SetBufferPosition, Leaves, Buffer
  <1>3. position <= Len(Text) /\ Text' = Text /\ Number' = Number
    BY <1>1, <1>2, TextType DEF Text, Number
  <1> QED
    BY <1>2, <1>3, Zenon DEF Stream!Seek, Stream!Return, Text, Number

\* Values of any width, one by one, in arrays or as a block, are put at the end of
\* the stream and taken from it in this order, for every size of a buffer.
THEOREM BufferIsStream == Spec => StreamSpec
  <1> DEFINE positions == {0, Header}
             blocks == UNION {Block(length) : length \in ArrayLengths \cup {0, Header}}
             lengths == ArrayLengths \cup 0 .. Size
  <1>1. Init => Stream!StreamInit
    <2> SUFFICES ASSUME Init PROVE Stream!StreamInit
      OBVIOUS
    <2>1. fLength = 0 /\ fPosition = 0 /\ gPacketSeq = 0
          /\ result = [err |-> "kNoError", asked |-> 0, bytes |-> <<>>]
      BY DEF Init
    <2>2. [i \in 1 .. fLength |-> fData[i - 1]] = <<>>
      BY <2>1
    <2> QED
      BY <2>1, <2>2, Zenon DEF Stream!StreamInit
  <1>2. TypeOK /\ TypeOK' /\ [Next]_vars => [Stream!StreamNext(positions, blocks, lengths)]_vars
    <2> SUFFICES ASSUME TypeOK, TypeOK', Next
                 PROVE  Stream!StreamNext(positions, blocks, lengths)
      OBVIOUS
    <2>1. ASSUME NEW zero \in BOOLEAN, TRKResetBuffer(zero) PROVE Stream!Reset
      BY <2>1, ResetIsReset
    <2>2. ASSUME NEW position \in {0, Header}, TRK_SetBufferPosition(position)
          PROVE  \E p \in positions : Stream!Seek(p)
      BY <2>2, SetPositionIsSeek
    <2>3. ASSUME NEW length \in {0, Header}, NEW data \in Block(length), TRK_AppendBuffer(data)
          PROVE  \E bytes \in blocks : Stream!Put(bytes)
      <3>1. length \in Nat
        BY BufferAssumption
      <3>2. data \in Seq(Cells) /\ fPosition = fLength /\ Appended(data)
        BY <2>3, <3>1, BlockType, BlockAppends
      <3>3. Stream!Put(data)
        BY <3>2, AppendIsPut
      <3>4. data \in blocks
        OBVIOUS
      <3> QED
        BY <3>3, <3>4
    <2>4. ASSUME NEW width \in Widths, NEW count \in 0 .. MaxCount,
                 NEW array \in Block(count * width), TRKAppendBuffer(array, width, count)
          PROVE  \E bytes \in blocks : Stream!Put(bytes)
      <3>1. count * width \in Nat /\ count * width \in ArrayLengths
        BY Lengths
      <3>2. array \in Seq(Cells) /\ fPosition = fLength /\ Appended(array)
        BY <2>4, <3>1, BlockType, ArrayAppends
      <3>3. Stream!Put(array)
        BY <3>2, AppendIsPut
      <3>4. array \in blocks
        BY <3>1
      <3> QED
        BY <3>3, <3>4
    <2>5. ASSUME NEW length \in 0 .. Size, TRK_ReadBuffer(length)
          PROVE  \E n \in lengths : Stream!Take(n)
      <3>1. length \in Nat
        BY BufferAssumption
      <3>2. Stream!Take(length)
        BY <2>5, <3>1, BlockReads, ReadIsTake
      <3> QED
        BY <3>2
    <2>6. ASSUME NEW width \in Widths, NEW count \in 0 .. MaxCount, TRKReadBuffer(width, count)
          PROVE  \E n \in lengths : Stream!Take(n)
      <3>1. count * width \in Nat /\ count * width \in lengths
        BY Lengths
      <3>2. Stream!Take(count * width)
        BY <2>6, <3>1, ArrayReads, ReadIsTake
      <3> QED
        BY <3>1, <3>2
    <2>7. ASSUME TRK_MessageSend PROVE Stream!Send
      BY <2>7, SendIsSend
    <2> HIDE DEF positions, blocks, lengths
    <2> QED
      BY <2>1, <2>2, <2>3, <2>4, <2>5, <2>6, <2>7, Zenon DEF Next, Stream!StreamNext
  <1> QED
    BY <1>1, <1>2, BufferIsSound, PTL DEF Spec, StreamSpec
===============================================================================
