-------------------------- MODULE StringListProofs --------------------------
(* Theorems about StringList: its pointers stay live, and it implements    *)
(* AbstractList, for any strings, any capacities and any addresses malloc  *)
(* answers with.                                                           *)
EXTENDS StringList, TLAPS

Bytes == (Words \cup {Garbage}) \X Nat
Blocks(cap) == [base : Nat \ {NULL}, bytes : [Offsets(cap) -> Bytes]]

(* The n strings cs, packed at the offsets off in the first sz bytes.      *)
Layout(n, off, cs, sz) ==
  /\ off \in [1..n -> Nat] /\ cs \in [1..n -> Words] /\ sz \in Nat
  /\ \A i \in 1..n : off[i] + Width[cs[i]] <= sz
  /\ \A i, j \in 1..n : i < j => off[i] + Width[cs[i]] <= off[j]
  /\ \A i, j \in 1..n : j = i + 1 => off[j] = off[i] + Width[cs[i]]
  /\ \A i \in 1..n : i = 1 => off[i] = 0
  /\ \A i \in 1..n : i = n => off[i] + Width[cs[i]] = sz

(* They are there in block b.                                              *)
Stored(b, n, off, cs) ==
  \A i \in 1..n : \A k \in 1..Width[cs[i]] :
    /\ off[i] + k - 1 \in DOMAIN b.bytes
    /\ b.bytes[off[i] + k - 1] = <<cs[i], k>>

(* Pointers to those offsets of b.                                         *)
Pointers(b, n, off) == [i \in 1..n |-> b.base + off[i]]
-----------------------------------------------------------------------------
LEMMA WidthType == \A w \in Words : Width[w] \in Nat /\ Width[w] >= 1
BY StringListAssumption

(* What a pointer points to is determined by the bytes there.              *)
LEMMA StringAtIs ==
  ASSUME NEW b, NEW p, NEW w \in Words, Holds(b, p, w)
  PROVE  StringAt(b, p) = w
<1>1. 1 \in 1..Width[w]
  BY WidthType
<1>2. b.bytes[p - b.base + 1 - 1] = <<w, 1>>
  BY <1>1 DEF Holds
<1>3. ASSUME NEW v \in Words, Holds(b, p, v) PROVE v = w
  <2>1. 1 \in 1..Width[v]
    BY WidthType
  <2>2. b.bytes[p - b.base + 1 - 1] = <<v, 1>>
    BY <2>1, <1>3 DEF Holds
  <2> QED
    BY <2>2, <1>2
<1> QED
  BY <1>3 DEF StringAt

(* No block begins at NULL, so no string does.                             *)
LEMMA NothingAtNull ==
  ASSUME NEW cap, NEW b \in Blocks(cap)
  PROVE  StringAt(b, NULL) = Garbage
<1>1. ASSUME NEW w \in Words PROVE ~Holds(b, NULL, w)
  <2>1. 1 \in 1..Width[w]
    BY WidthType
  <2>2. DOMAIN b.bytes = Offsets(cap) /\ b.base \in Nat /\ b.base # 0
    BY DEF Blocks, NULL
  <2>3. NULL - b.base + 1 - 1 \notin Offsets(cap)
    BY <2>2 DEF NULL, Offsets
  <2> QED
    BY <2>1, <2>2, <2>3 DEF Holds
<1> QED
  BY <1>1 DEF StringAt

(* A string stored at an offset is read through the pointer to it.         *)
LEMMA StoredHolds ==
  ASSUME NEW b, b.base \in Nat, NEW n \in Nat, NEW off, NEW cs, NEW sz,
         Layout(n, off, cs, sz), Stored(b, n, off, cs), NEW i \in 1..n
  PROVE  Holds(b, b.base + off[i], cs[i]) /\ StringAt(b, b.base + off[i]) = cs[i]
<1>1. off[i] \in Nat /\ cs[i] \in Words
  BY DEF Layout
<1>2. ASSUME NEW k \in 1..Width[cs[i]]
      PROVE  (b.base + off[i]) - b.base + k - 1 = off[i] + k - 1
  <2>1. k \in Int
    BY <1>1, WidthType
  <2> QED
    BY <1>1, <2>1
<1>3. Holds(b, b.base + off[i], cs[i])
  BY <1>2 DEF Holds, Stored
<1> QED
  BY <1>1, <1>3, StringAtIs

LEMMA PointersType ==
  ASSUME NEW b, b.base \in Nat, NEW n \in Nat, NEW off \in [1..n -> Nat]
  PROVE  Pointers(b, n, off) \in Seq(Nat) /\ Len(Pointers(b, n, off)) = n
<1>1. Pointers(b, n, off) \in [1..n -> Nat]
  BY DEF Pointers
<1> QED
  BY <1>1

(* The strings aos_string_at reads are those laid out.                     *)
LEMMA ContentsAre ==
  ASSUME NEW b, b.base \in Nat, NEW n \in Nat, NEW off, NEW cs, NEW sz,
         Layout(n, off, cs, sz), Stored(b, n, off, cs),
         NEW s, s = Pointers(b, n, off)
  PROVE  /\ s \in Seq(Nat) /\ Len(s) = n
         /\ [i \in 1..Len(s) |-> StringAt(b, s[i])] = cs
         /\ cs \in Seq(Words) /\ Len(cs) = n
<1>1. s \in Seq(Nat) /\ Len(s) = n
  BY PointersType DEF Layout
<1>2. \A i \in 1..n : StringAt(b, s[i]) = cs[i]
  BY StoredHolds DEF Pointers
<1>3. cs \in [1..n -> Words]
  BY DEF Layout
<1> QED
  BY <1>1, <1>2, <1>3
-----------------------------------------------------------------------------
(* reallocarray: what is stored stays so, at the same offsets.             *)
LEMMA ResizedStored ==
  ASSUME NEW a \in Nat \ {NULL}, NEW cap, NEW newcap, cap \in Nat, newcap \in Nat, cap <= newcap,
         block \in Blocks(cap),
         NEW n \in Nat, NEW off, NEW cs, Stored(block, n, off, cs)
  PROVE  /\ Resized(a, newcap) \in Blocks(newcap)
         /\ Stored(Resized(a, newcap), n, off, cs)
<1> DEFINE c == Resized(a, newcap)
<1>1. /\ block.base \in Nat \ {NULL} /\ block.bytes \in [Offsets(cap) -> Bytes]
      /\ UnsetByte \in Bytes
  BY DEF Blocks, UnsetByte, Bytes
<1>2. /\ c.base = a
      /\ c.bytes \in [Offsets(newcap) -> Bytes]
      /\ \A o \in Offsets(newcap) : o \in Offsets(cap) => c.bytes[o] = block.bytes[o]
      /\ c = [base |-> c.base, bytes |-> c.bytes]
  BY <1>1 DEF Resized
<1>3. Offsets(cap) \subseteq Offsets(newcap)
  BY DEF Offsets
<1>4. c \in Blocks(newcap)
  BY <1>2 DEF Blocks
<1>5. Stored(c, n, off, cs)
  <2> HIDE DEF c
  <2> QED
    BY <1>1, <1>2, <1>3 DEF Stored
<1> QED
  BY <1>4, <1>5

(* A string pushed goes where the last one ends.                           *)
Extended(f, n, v) == [i \in 1..(n + 1) |-> IF i = n + 1 THEN v ELSE f[i]]

LEMMA AppendExtends ==
  ASSUME NEW S, NEW q \in Seq(S), NEW v \in S, NEW n, n = Len(q)
  PROVE  Append(q, v) = Extended(q, n, v)
<1> DEFINE r == Append(q, v)
<1>1. r \in Seq(S) /\ Len(r) = n + 1 /\ n \in Nat
  OBVIOUS
<1>2. \A i \in 1..(n + 1) : r[i] = IF i = n + 1 THEN v ELSE q[i]
  OBVIOUS
<1> HIDE DEF r
<1>3. r \in [1..(n + 1) -> S]
  BY <1>1
<1>4. r = [i \in 1..(n + 1) |-> r[i]]
  BY <1>3
<1>5. r = Extended(q, n, v)
  BY <1>2, <1>4 DEF Extended
<1> QED
  BY <1>5 DEF r

LEMMA LayoutPush ==
  ASSUME NEW n \in Nat, NEW off, NEW cs, NEW sz, Layout(n, off, cs, sz),
         n = 0 => sz = 0, NEW w \in Words
  PROVE  Layout(n + 1, Extended(off, n, sz), Extended(cs, n, w), sz + Width[w])
<1> DEFINE off2 == Extended(off, n, sz)
           cs2 == Extended(cs, n, w)
<1>1. /\ off \in [1..n -> Nat] /\ cs \in [1..n -> Words] /\ sz \in Nat
      /\ Width[w] \in Nat /\ Width[w] >= 1
      /\ \A i \in 1..n : Width[cs[i]] \in Nat
  BY WidthType DEF Layout
<1>2. off2 \in [1..(n + 1) -> Nat] /\ cs2 \in [1..(n + 1) -> Words]
  BY <1>1 DEF Extended
<1>3. /\ off2[n + 1] = sz /\ cs2[n + 1] = w
      /\ \A i \in 1..n : i \in 1..(n + 1) /\ off2[i] = off[i] /\ cs2[i] = cs[i]
      /\ \A i \in 1..(n + 1) : i = n + 1 \/ i \in 1..n
  BY DEF Extended
<1> HIDE DEF off2, cs2
<1>4. ASSUME NEW i \in 1..n PROVE off[i] + Width[cs[i]] <= sz
  BY DEF Layout
<1>5. ASSUME NEW i \in 1..(n + 1) PROVE off2[i] + Width[cs2[i]] <= sz + Width[w]
  <2>1. CASE i = n + 1
    BY <2>1, <1>1, <1>3
  <2>2. CASE i \in 1..n
    <3>1. off[i] \in Nat /\ Width[cs[i]] \in Nat /\ off[i] + Width[cs[i]] <= sz
      BY <2>2, <1>1, <1>4
    <3> QED
      BY <3>1, <2>2, <1>1, <1>3
  <2> QED
    BY <2>1, <2>2, <1>3
<1>6. ASSUME NEW i \in 1..(n + 1), NEW j \in 1..(n + 1), i < j
      PROVE  off2[i] + Width[cs2[i]] <= off2[j]
  <2>1. i \in 1..n
    BY <1>6, <1>3
  <2>2. CASE j = n + 1
    BY <2>1, <2>2, <1>3, <1>4
  <2>3. CASE j \in 1..n
    BY <2>1, <2>3, <1>3, <1>6 DEF Layout
  <2> QED
    BY <2>2, <2>3, <1>3
<1>7. ASSUME NEW i \in 1..(n + 1), NEW j \in 1..(n + 1), j = i + 1
      PROVE  off2[j] = off2[i] + Width[cs2[i]]
  <2>1. i \in 1..n
    BY <1>7, <1>3
  <2>2. CASE j = n + 1
    <3>1. i = n
      BY <2>2, <1>7
    <3>2. off[i] + Width[cs[i]] = sz
      BY <2>1, <3>1 DEF Layout
    <3> QED
      BY <2>1, <2>2, <3>2, <1>3
  <2>3. CASE j \in 1..n
    BY <2>1, <2>3, <1>3, <1>7 DEF Layout
  <2> QED
    BY <2>2, <2>3, <1>3
<1>8. ASSUME NEW i \in 1..(n + 1), i = 1 PROVE off2[i] = 0
  <2>1. CASE n = 0
    BY <2>1, <1>3, <1>8
  <2>2. CASE n # 0
    <3>1. i \in 1..n
      BY <2>2, <1>8
    <3> QED
      BY <3>1, <1>3, <1>8 DEF Layout
  <2> QED
    BY <2>1, <2>2
<1>9. ASSUME NEW i \in 1..(n + 1), i = n + 1 PROVE off2[i] + Width[cs2[i]] = sz + Width[w]
  BY <1>9, <1>3
<1>10. sz + Width[w] \in Nat
  BY <1>1
<1> QED
  BY <1>2, <1>5, <1>6, <1>7, <1>8, <1>9, <1>10 DEF Layout, off2, cs2

LEMMA WrittenStored ==
  ASSUME NEW cap, cap \in Nat, block \in Blocks(cap),
         NEW n \in Nat, NEW off, NEW cs, NEW sz, Layout(n, off, cs, sz),
         Stored(block, n, off, cs), NEW w \in Words, sz + Width[w] <= cap
  PROVE  /\ Written(sz, w) \in Blocks(cap) /\ Written(sz, w).base = block.base
         /\ Stored(Written(sz, w), n + 1, Extended(off, n, sz), Extended(cs, n, w))
<1> DEFINE c == Written(sz, w)
<1>1. /\ block.base \in Nat \ {NULL} /\ block.bytes \in [Offsets(cap) -> Bytes]
      /\ block = [base |-> block.base, bytes |-> block.bytes]
      /\ sz \in Nat /\ Width[w] \in Nat /\ Width[w] >= 1
      /\ \A i \in 1..n : off[i] \in Nat /\ Width[cs[i]] \in Nat
  BY WidthType DEF Blocks, Layout
<1>2. c = [base |-> block.base,
           bytes |-> [o \in Offsets(cap) |->
             IF o \in sz..(sz + Width[w] - 1) THEN <<w, o - sz + 1>> ELSE block.bytes[o]]]
  BY <1>1 DEF Written
<1>3. ASSUME NEW o \in Offsets(cap), o \in sz..(sz + Width[w] - 1)
      PROVE  <<w, o - sz + 1>> \in Bytes
  <2>1. o - sz + 1 \in Nat
    BY <1>1, <1>3
  <2> QED
    BY <2>1 DEF Bytes
<1>4. c.base = block.base /\ c.bytes \in [Offsets(cap) -> Bytes]
  BY <1>1, <1>2, <1>3
<1>5. c \in Blocks(cap)
  BY <1>1, <1>2, <1>4 DEF Blocks
<1>6. \A o \in Offsets(cap) :
        /\ o < sz => c.bytes[o] = block.bytes[o]
        /\ o \in sz..(sz + Width[w] - 1) => c.bytes[o] = <<w, o - sz + 1>>
  <2> TAKE o \in Offsets(cap)
  <2>1. o \in Int
    BY DEF Offsets
  <2> QED
    BY <2>1, <1>1, <1>2
<1> HIDE DEF c
<1>7. ASSUME NEW i \in 1..n, NEW k \in 1..Width[cs[i]]
      PROVE  /\ off[i] + k - 1 \in DOMAIN c.bytes
             /\ c.bytes[off[i] + k - 1] = <<cs[i], k>>
  <2>1. /\ off[i] + k - 1 \in Offsets(cap)
        /\ block.bytes[off[i] + k - 1] = <<cs[i], k>>
    BY <1>1 DEF Stored
  <2>2. /\ off[i] \in Nat /\ k \in Int /\ k <= Width[cs[i]] /\ Width[cs[i]] \in Nat
        /\ sz \in Nat
    BY <1>1
  <2>3. off[i] + Width[cs[i]] <= sz
    BY DEF Layout
  <2>4. off[i] + k - 1 < sz
    BY <2>2, <2>3
  <2> QED
    BY <2>1, <2>4, <1>4, <1>6
<1>8. ASSUME NEW k \in 1..Width[w]
      PROVE  sz + k - 1 \in DOMAIN c.bytes /\ c.bytes[sz + k - 1] = <<w, k>>
  <2>1. /\ sz + k - 1 \in sz..(sz + Width[w] - 1) /\ sz + k - 1 \in Offsets(cap)
        /\ (sz + k - 1) - sz + 1 = k
    BY <1>1 DEF Offsets
  <2> QED
    BY <2>1, <1>4, <1>6
<1>9. /\ Extended(off, n, sz)[n + 1] = sz /\ Extended(cs, n, w)[n + 1] = w
      /\ \A i \in 1..(n + 1) : i = n + 1 \/ i \in 1..n
      /\ \A i \in 1..n : Extended(off, n, sz)[i] = off[i] /\ Extended(cs, n, w)[i] = cs[i]
  BY DEF Extended
<1>10. Stored(c, n + 1, Extended(off, n, sz), Extended(cs, n, w))
  BY <1>7, <1>8, <1>9 DEF Stored
<1> QED
  BY <1>4, <1>5, <1>10 DEF c

(* aos_pop_string leaves the others where they are.                        *)
LEMMA LayoutPop ==
  ASSUME NEW n \in Nat, NEW m \in Nat, n = m + 1,
         NEW b, NEW off, NEW cs, NEW sz,
         Layout(n, off, cs, sz), Stored(b, n, off, cs)
  PROVE  /\ Layout(m, [i \in 1..m |-> off[i]], [i \in 1..m |-> cs[i]], sz - Width[cs[n]])
         /\ Stored(b, m, [i \in 1..m |-> off[i]], [i \in 1..m |-> cs[i]])
         /\ m = 0 => sz - Width[cs[n]] = 0
<1> DEFINE off2 == [i \in 1..m |-> off[i]]
           cs2 == [i \in 1..m |-> cs[i]]
<1>1. /\ off \in [1..n -> Nat] /\ cs \in [1..n -> Words] /\ sz \in Nat
      /\ n \in 1..n /\ \A i \in 1..m : i \in 1..n /\ i < n
      /\ \A i \in 1..n : Width[cs[i]] \in Nat /\ off[i] \in Nat
  BY WidthType DEF Layout
<1>2. off[n] + Width[cs[n]] = sz
  BY <1>1 DEF Layout
<1>3. sz - Width[cs[n]] = off[n]
  BY <1>1, <1>2
<1>4. /\ off2 \in [1..m -> Nat] /\ cs2 \in [1..m -> Words]
      /\ \A i \in 1..m : off2[i] = off[i] /\ cs2[i] = cs[i]
  BY <1>1
<1> HIDE DEF off2, cs2
<1>5. ASSUME NEW i \in 1..m PROVE off[i] + Width[cs[i]] <= off[n]
  BY <1>1 DEF Layout
<1>6. ASSUME NEW i \in 1..m, i = m PROVE off[i] + Width[cs[i]] = off[n]
  <2>1. n = i + 1 /\ i \in 1..n
    BY <1>1, <1>6
  <2> QED
    BY <2>1, <1>1 DEF Layout
<1>7. m = 0 => off[n] = 0
  BY <1>1 DEF Layout
<1>8. Layout(m, off2, cs2, off[n])
  <2>1. \A i \in 1..m : off2[i] + Width[cs2[i]] <= off[n]
    BY <1>4, <1>5
  <2>2. \A i, j \in 1..m : i < j => off2[i] + Width[cs2[i]] <= off2[j]
    BY <1>1, <1>4 DEF Layout
  <2>3. \A i, j \in 1..m : j = i + 1 => off2[j] = off2[i] + Width[cs2[i]]
    BY <1>1, <1>4 DEF Layout
  <2>4. \A i \in 1..m : i = 1 => off2[i] = 0
    BY <1>1, <1>4 DEF Layout
  <2>5. \A i \in 1..m : i = m => off2[i] + Width[cs2[i]] = off[n]
    BY <1>4, <1>6
  <2>6. off[n] \in Nat
    BY <1>1
  <2> QED
    BY <2>1, <2>2, <2>3, <2>4, <2>5, <2>6, <1>4 DEF Layout
<1>9. Stored(b, m, off2, cs2)
  BY <1>1, <1>4 DEF Stored
<1> QED
  BY <1>3, <1>7, <1>8, <1>9 DEF off2, cs2
-----------------------------------------------------------------------------
(* The inductive invariant: the strings are laid out without gaps at some  *)
(* offsets, which no push changes, and every pointer is to its offset.     *)

LTypes ==
  /\ data \in Nat /\ capacity \in Nat /\ size \in Nat
  /\ strings_cap \in Nat
  /\ strings \in Seq(Nat) /\ pending \in Seq(Words)
  /\ block \in Blocks(capacity)
  /\ error \in {"ERR_OK", "ERR_OUT_OF_MEMORY", "undefined"}

LaidOut(b, s, sz, n, off, cs) ==
  /\ n = Len(s)
  /\ Layout(n, off, cs, sz)
  /\ Stored(b, n, off, cs)
  /\ s = Pointers(b, n, off)

SomeLayout ==
  error # "undefined" =>
    TableLost \/ \E off, cs : LaidOut(block, strings, size, Len(strings), off, cs)

UpToDate == error = "ERR_OK" => data = block.base /\ (strings = <<>> => size = 0)

LInv == LTypes /\ SomeLayout /\ UpToDate

LEMMA FreshBlock ==
  ASSUME NEW a \in Nat \ {NULL}, NEW cap, cap \in Nat
  PROVE  Fresh(a, cap) \in Blocks(cap) /\ Fresh(a, cap).base = a
BY DEF Fresh, Blocks, UnsetByte, Bytes

LEMMA NothingLaidOut ==
  ASSUME NEW b, NEW sz, sz \in Nat
  PROVE  \E off, cs : LaidOut(b, <<>>, sz, Len(<<>>), off, cs)
<1>1. Layout(0, <<>>, <<>>, sz) /\ Stored(b, 0, <<>>, <<>>) /\ <<>> = Pointers(b, 0, <<>>)
  BY DEF Layout, Stored, Pointers
<1> QED
  BY <1>1 DEF LaidOut

LEMMA InitInv == LInit => LInv
<1> SUFFICES ASSUME LInit PROVE LInv
  OBVIOUS
<1>1. PICK a \in Addresses :
        /\ data = a /\ block = Fresh(a, InitialCap)
        /\ capacity = InitialCap /\ size = 0
        /\ strings = <<>> /\ strings_cap = InitialCount
        /\ pending = <<>> /\ error = "ERR_OK"
  BY DEF LInit
<1>2. a \in Nat \ {NULL} /\ InitialCap \in Nat /\ InitialCount \in Nat
  BY StringListAssumption
<1>3. block \in Blocks(capacity) /\ block.base = a
  BY <1>1, <1>2, FreshBlock
<1>4. LTypes
  BY <1>1, <1>2, <1>3 DEF LTypes
<1>5. SomeLayout
  BY <1>1, NothingLaidOut DEF SomeLayout
<1> QED
  BY <1>1, <1>3, <1>4, <1>5 DEF LInv, UpToDate

(* A step that changes neither block nor table.                            *)
LEMMA Untouched ==
  ASSUME LInv, UNCHANGED <<data, block, capacity, size, strings>>,
         UNCHANGED error \/ error' = "undefined",
         strings_cap' \in Nat, pending' \in Seq(Words),
         error' \in {"ERR_OK", "ERR_OUT_OF_MEMORY", "undefined"}
  PROVE  LInv' /\ contents' = contents
BY DEF LInv, LTypes, SomeLayout, TableLost, NullTable, UpToDate, contents

(* A step that leaves no strings.                                          *)
LEMMA Emptied ==
  ASSUME LTypes', strings' = <<>>, error' = "ERR_OK" => data' = block'.base /\ size' = 0
  PROVE  LInv' /\ contents' = <<>>
<1>1. SomeLayout'
  BY NothingLaidOut DEF SomeLayout, LTypes
<1>2. contents' = <<>>
  BY DEF contents
<1> QED
  BY <1>1, <1>2 DEF LInv, UpToDate

(* What the entries of strings[] stand for before a step of a push.        *)
LEMMA Before ==
  ASSUME LInv, error = "ERR_OK"
  PROVE  \E off, cs :
           /\ Layout(Len(strings), off, cs, size) /\ Stored(block, Len(strings), off, cs)
           /\ strings = Pointers(block, Len(strings), off)
           /\ contents = cs /\ cs \in Seq(Words) /\ Len(cs) = Len(strings)
<1>1. PICK off, cs : LaidOut(block, strings, size, Len(strings), off, cs)
  BY DEF LInv, SomeLayout, TableLost
<1>2. Len(strings) \in Nat /\ block.base \in Nat
  BY DEF LInv, LTypes, Blocks
<1>3. contents = cs /\ cs \in Seq(Words) /\ Len(cs) = Len(strings)
  BY <1>1, <1>2, ContentsAre DEF contents, LaidOut
<1> QED
  BY <1>1, <1>3 DEF LaidOut

(* And after it.                                                           *)
LEMMA After ==
  ASSUME LTypes', NEW n \in Nat, NEW off, NEW cs,
         Layout(n, off, cs, size'), Stored(block', n, off, cs),
         strings' = Pointers(block', n, off),
         error' = "ERR_OK" => data' = block'.base /\ (n = 0 => size' = 0)
  PROVE  LInv' /\ contents' = cs
<1>1. block'.base \in Nat
  BY DEF LTypes, Blocks
<1>2. /\ Len(strings') = n
      /\ [i \in 1..Len(strings') |-> StringAt(block', strings'[i])] = cs
  BY <1>1, ContentsAre
<1>3. SomeLayout'
  BY <1>2 DEF SomeLayout, LaidOut
<1>4. strings' = <<>> => n = 0
  BY <1>2
<1> QED
  BY <1>2, <1>3, <1>4 DEF LInv, UpToDate, contents
-----------------------------------------------------------------------------
LEMMA GrowBlockStep ==
  ASSUME LInv, GrowBlock
  PROVE  LInv' /\ contents' = contents
<1>1. PICK a \in Addresses :
        data' = a /\ block' = Resized(a, capacity') /\ strings' = Moved(a)
  BY DEF GrowBlock
<1>2. error = "ERR_OK" /\ UNCHANGED <<size, strings_cap, pending, error>>
  BY DEF GrowBlock, Pushing
<1>3. PICK off, cs :
        /\ Layout(Len(strings), off, cs, size) /\ Stored(block, Len(strings), off, cs)
        /\ strings = Pointers(block, Len(strings), off)
        /\ contents = cs
  BY <1>2, Before
<1> DEFINE n == Len(strings)
<1>4. /\ a \in Nat \ {NULL} /\ n \in Nat /\ block.base = data /\ data \in Nat
      /\ capacity \in Nat /\ block \in Blocks(capacity)
  BY <1>2, StringListAssumption DEF LInv, LTypes, UpToDate
<1>5. capacity' \in Nat /\ capacity <= capacity'
  BY <1>4, StringListAssumption DEF GrowBlock, Doubled
<1>6. block' \in Blocks(capacity') /\ Stored(block', n, off, cs)
  BY <1>1, <1>3, <1>4, <1>5, ResizedStored
<1>7. block'.base = a
  BY <1>1 DEF Resized
<1>8. strings' = Pointers(block', n, off)
  <2>1. ASSUME NEW i \in 1..n PROVE strings[i] + (a - data) = a + off[i]
    <3>1. strings[i] = data + off[i] /\ off[i] \in Nat
      BY <1>3, <1>4 DEF Pointers, Layout
    <3> QED
      BY <3>1, <1>4
  <2> QED
    BY <2>1, <1>1, <1>7 DEF Moved, Pointers
<1>9. strings' \in Seq(Nat)
  BY <1>3, <1>4, <1>7, <1>8, PointersType DEF Layout
<1>10. LTypes'
  BY <1>1, <1>2, <1>4, <1>5, <1>6, <1>9 DEF LTypes, LInv
<1>11. n = 0 => size = 0
  BY <1>2, <1>4 DEF LInv, LTypes, UpToDate
<1> QED
  BY <1>1, <1>2, <1>3, <1>4, <1>6, <1>7, <1>8, <1>10, <1>11, After

LEMMA StoreStringStep ==
  ASSUME LInv, StoreString
  PROVE  LInv' /\ contents' = Append(contents, Head(pending)) /\ Head(pending) \in Words
<1> DEFINE n == Len(strings)
           w == Head(pending)
<1>1. /\ error = "ERR_OK" /\ pending # <<>> /\ Fits(w)
      /\ block' = Written(size, w) /\ strings' = Append(strings, data + size)
      /\ size' = size + Width[w] /\ pending' = Tail(pending)
      /\ UNCHANGED <<data, capacity, strings_cap, error>>
  BY DEF StoreString, Pushing
<1>2. PICK off, cs :
        /\ Layout(Len(strings), off, cs, size) /\ Stored(block, Len(strings), off, cs)
        /\ strings = Pointers(block, Len(strings), off)
        /\ contents = cs /\ cs \in Seq(Words) /\ Len(cs) = Len(strings)
  BY <1>1, Before
<1>3. /\ n \in Nat /\ block.base = data /\ data \in Nat /\ size \in Nat
      /\ capacity \in Nat /\ block \in Blocks(capacity)
      /\ w \in Words /\ Tail(pending) \in Seq(Words)
  BY <1>1 DEF LInv, LTypes, UpToDate
<1>4. n = 0 => size = 0
  BY <1>1, <1>3 DEF LInv, LTypes, UpToDate
<1>5. size + Width[w] <= capacity
  BY <1>1 DEF Fits
<1>6. /\ block' \in Blocks(capacity) /\ block'.base = block.base
      /\ Stored(block', n + 1, Extended(off, n, size), Extended(cs, n, w))
  <2>1. /\ Written(size, w) \in Blocks(capacity) /\ Written(size, w).base = block.base
        /\ Stored(Written(size, w), n + 1, Extended(off, n, size), Extended(cs, n, w))
    <3> HIDE DEF n, w
    <3> QED
      BY <1>2, <1>3, <1>5, WrittenStored DEF n
  <2> QED
    BY <2>1, <1>1
<1>7. Layout(n + 1, Extended(off, n, size), Extended(cs, n, w), size')
  BY <1>1, <1>2, <1>3, <1>4, LayoutPush
<1>8. strings' = Pointers(block', n + 1, Extended(off, n, size))
  <2>1. Append(strings, data + size) = Extended(strings, n, data + size)
    <3>1. strings \in Seq(Nat) /\ data + size \in Nat
      BY <1>3 DEF LInv, LTypes
    <3> QED
      BY <3>1, AppendExtends
  <2>2. \A i \in 1..n : strings[i] = data + off[i]
    BY <1>2, <1>3 DEF Pointers
  <2>3. Extended(strings, n, data + size)
          = [i \in 1..(n + 1) |-> data + Extended(off, n, size)[i]]
    BY <1>3, <2>2 DEF Extended
  <2> QED
    BY <2>1, <2>3, <1>1, <1>3, <1>6 DEF Pointers
<1>9. Append(cs, w) = Extended(cs, n, w)
  BY <1>2, <1>3, AppendExtends
<1>10. LTypes'
  <2>1. size + Width[w] \in Nat /\ Append(strings, data + size) \in Seq(Nat)
    BY <1>3, WidthType DEF LInv, LTypes
  <2> QED
    BY <2>1, <1>1, <1>3, <1>6 DEF LTypes, LInv
<1>11. LInv' /\ contents' = Extended(cs, n, w)
  <2>1. n + 1 \in Nat /\ n + 1 # 0
    BY <1>3
  <2> QED
    BY <2>1, <1>1, <1>3, <1>6, <1>7, <1>8, <1>10, After
<1> QED
  BY <1>2, <1>3, <1>9, <1>11

LEMMA PopStep ==
  ASSUME LInv, Pop
  PROVE  /\ LInv' /\ contents # <<>>
         /\ contents' = SubSeq(contents, 1, Len(contents) - 1)
<1> DEFINE n == Len(strings)
           m == Len(strings) - 1
<1>1. /\ error = "ERR_OK" /\ pending = <<>> /\ strings # <<>>
      /\ size' = size - Width[Last_str]
      /\ strings' = SubSeq(strings, 1, Len(strings) - 1)
      /\ UNCHANGED <<data, block, capacity, strings_cap, pending, error>>
  BY DEF Pop, Idle
<1>2. PICK off, cs :
        /\ Layout(Len(strings), off, cs, size) /\ Stored(block, Len(strings), off, cs)
        /\ strings = Pointers(block, Len(strings), off)
        /\ contents = cs /\ cs \in Seq(Words) /\ Len(cs) = Len(strings)
  BY <1>1, Before
<1>3. /\ n \in Nat /\ m \in Nat /\ n = m + 1 /\ n \in 1..n
      /\ block.base = data /\ data \in Nat
  BY <1>1 DEF LInv, LTypes, UpToDate
<1>4. Last_str = cs[n]
  BY <1>2, <1>3, StoredHolds DEF Last_str, Pointers
<1>5. /\ Layout(m, [i \in 1..m |-> off[i]], [i \in 1..m |-> cs[i]], size')
      /\ Stored(block', m, [i \in 1..m |-> off[i]], [i \in 1..m |-> cs[i]])
      /\ m = 0 => size' = 0
  BY <1>1, <1>2, <1>3, <1>4, LayoutPop
<1>6. /\ SubSeq(strings, 1, m) = [i \in 1..m |-> strings[i]]
      /\ SubSeq(cs, 1, m) = [i \in 1..m |-> cs[i]]
  BY <1>2, <1>3
<1>7. strings' = Pointers(block', m, [i \in 1..m |-> off[i]])
  <2>1. \A i \in 1..m : strings[i] = block.base + off[i]
    BY <1>2, <1>3 DEF Pointers
  <2> QED
    BY <2>1, <1>1, <1>6 DEF Pointers
<1>8. LTypes'
  <2>1. SubSeq(strings, 1, m) \in Seq(Nat)
    BY <1>3 DEF LInv, LTypes
  <2>2. size' \in Nat
    BY <1>5 DEF Layout
  <2> QED
    BY <2>1, <2>2, <1>1 DEF LTypes, LInv
<1>9. LInv' /\ contents' = [i \in 1..m |-> cs[i]]
  BY <1>1, <1>3, <1>5, <1>7, <1>8, After
<1> QED
  BY <1>2, <1>3, <1>6, <1>9
-----------------------------------------------------------------------------
(* Each step keeps the invariant and is a step of the abstract list, or    *)
(* changes nothing the abstract list has.                                  *)
LEMMA StepFacts ==
  ASSUME LInv, [LNext]_lvars
  PROVE  LInv' /\ (A!ListNext \/ UNCHANGED <<contents, error>>)
<1>1. ASSUME NEW w \in Words, CallPush(w) PROVE LInv' /\ UNCHANGED <<contents, error>>
  <2>1. <<w>> \in Seq(Words) /\ strings_cap \in Nat
    BY DEF LInv, LTypes
  <2> QED
    BY <2>1, <1>1, Untouched DEF CallPush, Idle
<1>2. ASSUME NEW ws \in UNION {[1..n -> Words] : n \in 0..MaxCount}, CallAppend(ws)
      PROVE  LInv' /\ UNCHANGED <<contents, error>>
  <2>1. PICK n \in 0..MaxCount : ws \in [1..n -> Words]
    OBVIOUS
  <2>2. ws \in Seq(Words) /\ strings_cap \in Nat
    BY <2>1, StringListAssumption DEF LInv, LTypes
  <2> QED
    BY <2>2, <1>2, Untouched DEF CallAppend, Idle
<1>3. ASSUME GrowTable PROVE LInv' /\ UNCHANGED <<contents, error>>
  <2>1. strings_cap' \in Nat /\ pending \in Seq(Words)
    BY <1>3, StringListAssumption DEF GrowTable, Doubled, LInv, LTypes
  <2> QED
    BY <2>1, <1>3, Untouched DEF GrowTable, Pushing
<1>4. ASSUME GrowTableFails PROVE LInv' /\ A!ListNext
  <2>1. /\ error = "ERR_OK" /\ error' = "ERR_OUT_OF_MEMORY"
        /\ strings' = NullTable /\ pending' = Tail(pending) /\ pending # <<>>
        /\ UNCHANGED <<data, block, capacity, size, strings_cap>>
    BY <1>4 DEF GrowTableFails, Pushing
  <2>2. /\ NullTable \in Seq(Nat) /\ Len(NullTable) = Len(strings)
        /\ \A i \in 1..Len(strings) : NullTable[i] = NULL
    BY DEF LInv, LTypes, NullTable, NULL
  <2>3. LTypes'
    BY <2>1, <2>2 DEF LInv, LTypes
  <2>4. TableLost'
    BY <2>1, <2>2 DEF TableLost, NullTable
  <2>5. StringAt(block, NULL) = Garbage
    BY NothingAtNull DEF LInv, LTypes
  <2>6. contents' = [i \in DOMAIN contents |-> Garbage]
    BY <2>1, <2>2, <2>5 DEF contents
  <2> QED
    BY <2>1, <2>3, <2>4, <2>6 DEF LInv, SomeLayout, UpToDate, A!ListNext, A!ListFail
<1>5. ASSUME GrowBlock PROVE LInv' /\ UNCHANGED <<contents, error>>
  BY <1>5, GrowBlockStep DEF GrowBlock
<1>6. ASSUME GrowBlockFails PROVE LInv' /\ A!ListNext
  <2>1. /\ error = "ERR_OK" /\ error' = "ERR_OUT_OF_MEMORY"
        /\ data' = NULL /\ pending' = Tail(pending) /\ pending # <<>>
        /\ UNCHANGED <<block, capacity, size, strings, strings_cap>>
    BY <1>6 DEF GrowBlockFails, Pushing
  <2>2. LTypes'
    BY <2>1 DEF LInv, LTypes, NULL
  <2>3. LInv' /\ contents' = contents
    BY <2>1, <2>2 DEF LInv, SomeLayout, TableLost, UpToDate, contents
  <2> QED
    BY <2>1, <2>3 DEF A!ListNext, A!ListFail
<1>7. ASSUME StoreString PROVE LInv' /\ A!ListNext
  BY <1>7, StoreStringStep DEF StoreString, Pushing, A!ListNext, A!ListPush
<1>8. ASSUME UseAfterFailure PROVE LInv' /\ A!ListNext
  <2>1. strings_cap' \in Nat /\ pending' \in Seq(Words)
    BY <1>8 DEF UseAfterFailure, LInv, LTypes
  <2>2. LInv' /\ contents' = contents
    BY <2>1, <1>8, Untouched DEF UseAfterFailure
  <2> QED
    BY <2>2, <1>8 DEF UseAfterFailure, A!ListNext, A!ListMisuse
<1>9. ASSUME Pop PROVE LInv' /\ A!ListNext
  BY <1>9, PopStep DEF Pop, Idle, A!ListNext, A!ListPop
<1>10. ASSUME Reset PROVE LInv' /\ A!ListNext
  <2>1. PICK a \in Addresses : data' = a /\ block' = Fresh(a, InitialCap)
    BY <1>10 DEF Reset
  <2>2. a \in Nat \ {NULL} /\ InitialCap \in Nat /\ InitialCount \in Nat
    BY StringListAssumption
  <2>3. block' \in Blocks(InitialCap) /\ block'.base = a
    BY <2>1, <2>2, FreshBlock
  <2>4. LTypes'
    BY <2>1, <2>2, <2>3, <1>10 DEF Reset, LInv, LTypes
  <2>5. LInv' /\ contents' = <<>>
    BY <2>1, <2>3, <2>4, <1>10, Emptied DEF Reset
  <2> QED
    BY <2>5, <1>10 DEF Reset, Idle, A!ListNext, A!ListReset
<1>11. ASSUME UNCHANGED lvars PROVE LInv' /\ UNCHANGED <<contents, error>>
  <2>1. strings_cap' \in Nat /\ pending' \in Seq(Words)
        /\ error' \in {"ERR_OK", "ERR_OUT_OF_MEMORY", "undefined"}
    BY <1>11 DEF lvars, LInv, LTypes
  <2> QED
    BY <2>1, <1>11, Untouched DEF lvars
<1> QED
  BY <1>1, <1>2, <1>3, <1>4, <1>5, <1>6, <1>7, <1>8, <1>9, <1>10, <1>11
  DEF LNext, Push

(* The invariant holds in every state.                                     *)
THEOREM LayoutInvariant == LSpec => []LInv
BY InitInv, StepFacts, PTL DEF LSpec

(* Types, of the block's bytes too, as array->capacity changes.            *)
THEOREM StringListTypes == LSpec => []LTypeOK
<1>1. LInv => LTypeOK
  BY DEF LInv, LTypes, LTypeOK, Blocks
<1> QED
  BY <1>1, LayoutInvariant, PTL

(* Every pointer in strings[] is to a whole string of the block in use,    *)
(* without gaps, however often aos_push_string moved it; or all are gone,  *)
(* the count kept, because the table could not be grown.                   *)
THEOREM PointersStayLive == LSpec => []StringsLive
<1>1. ASSUME LInv, error # "undefined", ~TableLost PROVE StringsLive
  <2>1. PICK off, cs : LaidOut(block, strings, size, Len(strings), off, cs)
    BY <1>1 DEF LInv, SomeLayout
  <2> DEFINE n == Len(strings)
  <2>2. /\ n \in Nat /\ block.base \in Nat /\ size \in Nat
        /\ Layout(n, off, cs, size) /\ Stored(block, n, off, cs)
        /\ strings = Pointers(block, n, off)
    BY <1>1, <2>1 DEF LInv, LTypes, Blocks, LaidOut
  <2> HIDE DEF n
  <2>3. ASSUME NEW i \in 1..n
        PROVE  /\ strings[i] = block.base + off[i]
               /\ off[i] \in Nat /\ Width[cs[i]] \in Nat /\ cs[i] \in Words
               /\ Holds(block, strings[i], cs[i])
               /\ EndOf(i) = block.base + off[i] + Width[cs[i]]
    <3>1. strings[i] = block.base + off[i]
      BY <2>2 DEF Pointers
    <3>2. Holds(block, strings[i], cs[i]) /\ StringAt(block, strings[i]) = cs[i]
      BY <3>1, <2>2, StoredHolds
    <3>3. off[i] \in Nat /\ Width[cs[i]] \in Nat /\ cs[i] \in Words
      BY <2>2, WidthType DEF Layout
    <3> QED
      BY <3>1, <3>2, <3>3 DEF EndOf
  <2>4. ASSUME NEW i \in 1..(n - 1) PROVE strings[i + 1] = EndOf(i)
    <3>1. i \in 1..n /\ i + 1 \in 1..n
      BY <2>2
    <3>2. off[i + 1] = off[i] + Width[cs[i]]
      BY <3>1, <2>2 DEF Layout
    <3> QED
      BY <3>1, <3>2, <2>2, <2>3
  <2>5. ASSUME NEW i \in 1..n, i = 1 PROVE strings[i] = block.base
    <3>1. off[i] = 0
      BY <2>2, <2>5 DEF Layout
    <3> QED
      BY <3>1, <2>2, <2>3
  <2>6. ASSUME NEW i \in 1..n, i = n PROVE EndOf(i) = block.base + size
    <3>1. off[i] + Width[cs[i]] = size
      BY <2>2, <2>6 DEF Layout
    <3> QED
      BY <3>1, <2>2, <2>3
  <2>7. strings # <<>> => 1 \in 1..n /\ n \in 1..n
    BY <1>1 DEF n, LInv, LTypes
  <2> QED
    BY <2>3, <2>4, <2>5, <2>6, <2>7 DEF StringsLive, n
<1>2. LInv => StringsLive
  BY <1>1 DEF StringsLive
<1> QED
  BY <1>2, LayoutInvariant, PTL

(* dyn_aos.c implements a sequence of strings.                             *)
THEOREM ListImplemented == LSpec => ImplementsList
<1>1. LInit => A!ListInit
  BY DEF LInit, A!ListInit, contents
<1>2. LInv /\ [LNext]_lvars => [A!ListNext]_<<contents, error>>
  BY StepFacts
<1> QED
  BY <1>1, <1>2, LayoutInvariant, PTL DEF LSpec, ImplementsList, A!ListSpec
=============================================================================
