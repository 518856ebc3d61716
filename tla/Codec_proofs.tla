---------------------------- MODULE Codec_proofs ----------------------------
(***************************************************************************)
(* What reader and writer of the map messages do to each other's work, for *)
(* every message.                                                          *)
(***************************************************************************)
EXTENDS Codec, FiniteSetTheorems, SequenceTheorems, WellFoundedInduction, TLAPS

-----------------------------------------------------------------------------
(* Induction over the natural numbers, from the least element of a set.    *)

\* A set of numbers that is not empty has a least one.
LEMMA LeastElement ==
  ASSUME NEW T \in SUBSET Nat, T # {}
  PROVE  \E n \in T : \A m \in T : n <= m
<1>1. IsWellFoundedOn(OpToRel(<, Nat), Nat)
  BY NatLessThanWellFounded
<1>2. PICK n \in T : \A m \in T : <<m, n>> \notin OpToRel(<, Nat)
  BY <1>1, WFMin
<1>3. \A m \in T : ~(m < n)
  BY <1>2 DEF OpToRel
<1> QED
  BY <1>3

\* What holds of 0 and goes from each number to the next holds of all.
LEMMA Induction ==
  ASSUME NEW T \in SUBSET Nat, 0 \in T, \A n \in T : n + 1 \in T
  PROVE  T = Nat
<1>1. SUFFICES ASSUME Nat \ T # {} PROVE FALSE
  OBVIOUS
<1>2. PICK n \in Nat \ T : \A m \in Nat \ T : n <= m
  BY <1>1, LeastElement
<1>3. n - 1 \in T
  BY <1>2
<1> QED
  BY <1>2, <1>3

-----------------------------------------------------------------------------
(* The runs of reader and writer, step by step.                            *)

ReadRunTo(g, n, l, buf) ==
  g = [i \in 0..n |-> IF i = 0 THEN ReadStart(l) ELSE TakeDatum(g[i - 1], buf[i])]

\* There is a run of the reader over any number of data.
LEMMA ReadRunExists ==
  ASSUME NEW l, NEW buf, NEW m \in Nat
  PROVE  \E g : ReadRunTo(g, m, l, buf)
<1> DEFINE Run(g, n) == ReadRunTo(g, n, l, buf)
           T == {n \in Nat : \E g : Run(g, n)}
<1>1. 0 \in T
  <2>1. Run([i \in 0..0 |-> ReadStart(l)], 0)
    BY DEF ReadRunTo
  <2> QED
    BY <2>1
<1>2. ASSUME NEW n \in T PROVE n + 1 \in T
  <2>1. PICK g : Run(g, n)
    BY <1>2
  <2> DEFINE h == [i \in 0..(n + 1) |-> IF i = n + 1 THEN TakeDatum(g[n], buf[n + 1]) ELSE g[i]]
  <2>2. n \in Nat
    BY <1>2
  <2>3. \A i \in 0..n : g[i] = IF i = 0 THEN ReadStart(l) ELSE TakeDatum(g[i - 1], buf[i])
    BY <2>1 DEF ReadRunTo
  <2> HIDE DEF Run
  <2>4. ASSUME NEW i \in 0..(n + 1)
        PROVE  h[i] = IF i = 0 THEN ReadStart(l) ELSE TakeDatum(h[i - 1], buf[i])
    BY <2>2, <2>3
  <2>5. h = [i \in 0..(n + 1) |-> IF i = 0 THEN ReadStart(l) ELSE TakeDatum(h[i - 1], buf[i])]
    <3> DEFINE r == [i \in 0..(n + 1) |-> IF i = 0 THEN ReadStart(l) ELSE TakeDatum(h[i - 1], buf[i])]
    <3>1. \A i \in 0..(n + 1) : h[i] = r[i]
      BY <2>4
    <3>2. h = [i \in 0..(n + 1) |-> h[i]]
      OBVIOUS
    <3>3. r = [i \in 0..(n + 1) |-> r[i]]
      OBVIOUS
    <3> HIDE DEF h, r
    <3>4. h = r
      BY <3>1, <3>2, <3>3
    <3> QED
      BY <3>4 DEF r
  <2>6. Run(h, n + 1)
    BY <2>5 DEF Run, ReadRunTo
  <2> HIDE DEF h
  <2>7. \E k : Run(k, n + 1)
    BY <2>6
  <2> QED
    BY <2>2, <2>7
<1>3. T = Nat
  <2> HIDE DEF T
  <2>1. T \in SUBSET Nat
    BY DEF T
  <2> QED
    BY <1>1, <1>2, <2>1, Induction
<1> QED
  BY <1>3

\* The reader goes from the start through the buffer, datum by datum.
LEMMA ReadRuns ==
  ASSUME NEW l, NEW buf, Len(buf) \in Nat
  PROVE  /\ ReadRun(l, buf)[0] = ReadStart(l)
         /\ \A i \in 1..Len(buf) : ReadRun(l, buf)[i] = TakeDatum(ReadRun(l, buf)[i - 1], buf[i])
<1> DEFINE Run(g) == ReadRunTo(g, Len(buf), l, buf)
           r == ReadRun(l, buf)
<1>0. Run(r)
  <2>1. \E g : Run(g)
    BY ReadRunExists
  <2>2. r = CHOOSE g : Run(g)
    BY DEF ReadRun, ReadRunTo
  <2> HIDE DEF Run, r
  <2> QED
    BY <2>1, <2>2
<1> HIDE DEF r
<1>1. r = [i \in 0..Len(buf) |-> IF i = 0 THEN ReadStart(l) ELSE TakeDatum(r[i - 1], buf[i])]
  BY <1>0 DEF ReadRunTo
<1>2. \A i \in 0..Len(buf) : r[i] = IF i = 0 THEN ReadStart(l) ELSE TakeDatum(r[i - 1], buf[i])
  BY <1>1
<1>3. r[0] = ReadStart(l) /\ \A i \in 1..Len(buf) : r[i] = TakeDatum(r[i - 1], buf[i])
  BY <1>2
<1> QED
  BY <1>3 DEF r

WriteRunTo(g, n, l, v) ==
  g = [i \in 0..n |-> IF i = 0 THEN WriteStart(l) ELSE PutDatum(g[i - 1], v)]

\* There is a run of the writer over any number of data.
LEMMA WriteRunExists ==
  ASSUME NEW l, NEW v, NEW m \in Nat
  PROVE  \E g : WriteRunTo(g, m, l, v)
<1> DEFINE Run(g, n) == WriteRunTo(g, n, l, v)
           T == {n \in Nat : \E g : Run(g, n)}
<1>1. 0 \in T
  <2>1. Run([i \in 0..0 |-> WriteStart(l)], 0)
    BY DEF WriteRunTo
  <2> QED
    BY <2>1
<1>2. ASSUME NEW n \in T PROVE n + 1 \in T
  <2>1. PICK g : Run(g, n)
    BY <1>2
  <2> DEFINE h == [i \in 0..(n + 1) |-> IF i = n + 1 THEN PutDatum(g[n], v) ELSE g[i]]
  <2>2. n \in Nat
    BY <1>2
  <2>3. \A i \in 0..n : g[i] = IF i = 0 THEN WriteStart(l) ELSE PutDatum(g[i - 1], v)
    BY <2>1 DEF WriteRunTo
  <2> HIDE DEF Run
  <2>4. ASSUME NEW i \in 0..(n + 1)
        PROVE  h[i] = IF i = 0 THEN WriteStart(l) ELSE PutDatum(h[i - 1], v)
    BY <2>2, <2>3
  <2>5. h = [i \in 0..(n + 1) |-> IF i = 0 THEN WriteStart(l) ELSE PutDatum(h[i - 1], v)]
    <3> DEFINE r == [i \in 0..(n + 1) |-> IF i = 0 THEN WriteStart(l) ELSE PutDatum(h[i - 1], v)]
    <3>1. \A i \in 0..(n + 1) : h[i] = r[i]
      BY <2>4
    <3>2. h = [i \in 0..(n + 1) |-> h[i]]
      OBVIOUS
    <3>3. r = [i \in 0..(n + 1) |-> r[i]]
      OBVIOUS
    <3> HIDE DEF h, r
    <3>4. h = r
      BY <3>1, <3>2, <3>3
    <3> QED
      BY <3>4 DEF r
  <2>6. Run(h, n + 1)
    BY <2>5 DEF Run, WriteRunTo
  <2> HIDE DEF h
  <2>7. \E k : Run(k, n + 1)
    BY <2>6
  <2> QED
    BY <2>2, <2>7
<1>3. T = Nat
  <2> HIDE DEF T
  <2>1. T \in SUBSET Nat
    BY DEF T
  <2> QED
    BY <1>1, <1>2, <2>1, Induction
<1> QED
  BY <1>3

\* The writer goes from the start through what is there, field by field.
LEMMA WriteRuns ==
  ASSUME NEW l, NEW v, Cardinality(DOMAIN v) \in Nat
  PROVE  /\ WriteRun(l, v)[0] = WriteStart(l)
         /\ \A i \in 1..Cardinality(DOMAIN v) : WriteRun(l, v)[i] = PutDatum(WriteRun(l, v)[i - 1], v)
<1> DEFINE Run(g) == WriteRunTo(g, Cardinality(DOMAIN v), l, v)
           r == WriteRun(l, v)
<1>0. Run(r)
  <2>1. \E g : Run(g)
    BY WriteRunExists
  <2>2. r = CHOOSE g : Run(g)
    BY DEF WriteRun, WriteRunTo
  <2> HIDE DEF Run, r
  <2> QED
    BY <2>1, <2>2
<1> HIDE DEF r
<1>1. r = [i \in 0..Cardinality(DOMAIN v) |-> IF i = 0 THEN WriteStart(l) ELSE PutDatum(r[i - 1], v)]
  BY <1>0 DEF WriteRunTo
<1>2. \A i \in 0..Cardinality(DOMAIN v) : r[i] = IF i = 0 THEN WriteStart(l) ELSE PutDatum(r[i - 1], v)
  BY <1>1
<1>3. r[0] = WriteStart(l) /\ \A i \in 1..Cardinality(DOMAIN v) : r[i] = PutDatum(r[i - 1], v)
  BY <1>2
<1> QED
  BY <1>3 DEF r

-----------------------------------------------------------------------------
(* Layouts.  What the fields of the server's structs have in common.       *)

\* The structs that are called by a flag or a count.
Structs == {WaypointDecode, BlockDecode, ItemDecode, ZoneLayout, TerrainDecode}

\* Their names there.
Callers == {"waypoint", "zones", "blocks", "items", "terrains", "block", "item"}

Proper(f) ==
  /\ f = Field(f.n, f.k, f.w, f.l)
  /\ f.k \in {"flagged", "counted"} => f.n \in Callers
  /\ f.k \in {"num", "bool", "checked", "raw", "flagged", "counted", "mark", "opaque", "none",
             "optional"}
  /\ f.k \in {"mark", "optional"} => f.n \in Marks
  /\ f.k = "mark" => f.n # "TRNs"
  /\ f.k = "optional" => f.n = "TRNs"
  /\ f.l \in Structs \cup {<<>>}

\* Each field has a name of its own.
Distinct(l) == \A i, j \in 1..Len(l) : l[i].n = l[j].n => i = j

Plain(f) == Proper(f) /\ f.k # "optional"

ProperStruct(l) == Len(l) \in Nat /\ Distinct(l) /\ \A i \in 1..Len(l) : Plain(l[i])

\* The message's own struct may have an optional part, at its end.
ProperRoot(l) ==
  /\ Len(l) \in Nat /\ Distinct(l)
  /\ \A i \in 1..Len(l) :
       \/ Plain(l[i])
       \/ /\ Proper(l[i]) /\ l[i].k = "optional"
          /\ i = Len(l) - 1 /\ l[i + 1].k = "counted"

\* Every field that the layouts are built from is a proper one.
LEMMA PlainFields ==
  /\ \A n, w : Plain(N(n, w)) /\ Plain(Raw(n)) /\ Plain(Checked(n)) /\ Plain(Bool(n))
  /\ \A n, w : Plain(Opaque(n)) /\ Plain(NoneOf(n))
  /\ \A n \in Callers, l \in Structs : \A w : Plain(Flagged(n, l)) /\ Plain(Counted(n, w, l))
  /\ \A n \in Marks \ {"TRNs"} : Plain(Marked(n))
  /\ Proper(Optional("TRNs")) /\ Optional("TRNs").k = "optional"
BY DEF Plain, Proper, Marks, Field, N, Raw, Checked, Bool, Opaque, NoneOf, Flagged, Counted,
       Marked, Optional

\* The structs that are called have proper fields, none optional, with names of
\* their own.
LEMMA ProperStructs == \A l \in Structs \cup {<<>>} : ProperStruct(l)
<1> USE DEF ProperStruct
<1>0. WaypointDecode \in Structs /\ ZoneLayout \in Structs /\ {"waypoint", "zones"} \subseteq Callers
  BY DEF Structs, Callers
<1>1. ProperStruct(WaypointDecode)
  <2>1. Distinct(WaypointDecode)
    BY DEF Distinct, WaypointDecode, Field, N, Raw
  <2> QED
    BY <2>1, PlainFields DEF WaypointDecode
<1>2. ProperStruct(BlockDecode)
  <2>1. Distinct(BlockDecode)
    BY SMTT(60) DEF Distinct, BlockDecode, Field, N, Raw, Flagged
  <2> QED
    BY <1>0, <2>1, PlainFields DEF BlockDecode
<1>3. ProperStruct(ItemDecode)
  <2>1. Distinct(ItemDecode)
    BY SMTT(60) DEF Distinct, ItemDecode, Field, N, Raw, Flagged
  <2> QED
    BY <1>0, <2>1, PlainFields DEF ItemDecode
<1>4. ProperStruct(ZoneLayout)
  <2>1. Distinct(ZoneLayout)
    BY DEF Distinct, ZoneLayout, Field, N, Checked
  <2> QED
    BY <2>1, PlainFields DEF ZoneLayout
<1>5. ProperStruct(TerrainDecode)
  <2>1. Distinct(TerrainDecode)
    BY DEF Distinct, TerrainDecode, Field, N, Counted
  <2> QED
    BY <1>0, <2>1, PlainFields DEF TerrainDecode
<1>6. ProperStruct(<<>>)
  BY DEF Distinct
<1> QED
  BY <1>1, <1>2, <1>3, <1>4, <1>5, <1>6 DEF Structs

\* So have the messages' own structs, but for terrains at the end of a macroblock.
LEMMA ProperRoots == \A ty \in DOMAIN ReadLayout : ProperRoot(ReadLayout[ty])
<1> USE PlainFields DEF ProperRoot
<1>0. /\ {WaypointDecode, BlockDecode, ItemDecode, TerrainDecode} \subseteq Structs
      /\ {"waypoint", "blocks", "items", "terrains", "block", "item"} \subseteq Callers
      /\ {"BLKs", "SKNs", "ITMs"} \subseteq Marks \ {"TRNs"}
  BY DEF Structs, Callers, Marks
<1>1. ProperRoot(MacroblockDecode)
  <2>1. Distinct(MacroblockDecode)
    BY DEF Distinct, MacroblockDecode, Field, Marked, Counted, NoneOf, Optional
  <2>2. Counted("terrains", 2, TerrainDecode).k = "counted"
    BY DEF Counted, Field
  <2> QED
    BY <1>0, <2>1, <2>2 DEF MacroblockDecode
<1>2. ProperRoot(SetSkinDecode)
  <2>1. Distinct(SetSkinDecode)
    BY DEF Distinct, SetSkinDecode, Field, Checked, Flagged
  <2> QED
    BY <1>0, <2>1 DEF SetSkinDecode
<1>3. ProperRoot(WaypointDecode)
  BY <1>0, ProperStructs DEF ProperStruct
<1>4. ProperRoot(CamCursorDecode)
  <2>1. Distinct(CamCursorDecode)
    BY DEF Distinct, CamCursorDecode, Field, N, Checked
  <2> QED
    BY <2>1 DEF CamCursorDecode
<1>5. ProperRoot(VehiclePosLayout)
  BY DEF Distinct, VehiclePosLayout, Field, N
<1>6. ProperRoot(TestModeLayout)
  <2>1. Distinct(TestModeLayout)
    BY DEF Distinct, TestModeLayout, Field, Bool, Checked
  <2> QED
    BY <2>1 DEF TestModeLayout
<1>7. ProperRoot(<<Opaque("bytes")>>)
  BY DEF Distinct
<1>8. ProperRoot(<<N("limit", 4)>>) /\ ProperRoot(<<N("players", 4)>>)
  BY DEF Distinct
<1>9. ProperRoot(<<N("unused", 4), Raw("key"), Raw("value")>>)
  <2>1. Distinct(<<N("unused", 4), Raw("key"), Raw("value")>>)
    BY DEF Distinct, Field, N, Raw
  <2> QED
    BY <2>1
<1>10. ProperRoot(<<N("ty", 1), Raw("msg")>>)
  <2>1. Distinct(<<N("ty", 1), Raw("msg")>>)
    BY DEF Distinct, Field, N, Raw
  <2> QED
    BY <2>1
<1> HIDE DEF ProperRoot
<1> QED
  BY <1>1, <1>2, <1>3, <1>4, <1>5, <1>6, <1>7, <1>8, <1>9, <1>10 DEF ReadLayout

\* Two fields of the same name and datum: both readers of texts check them, one
\* of the writers does.
Alike(f, g) ==
  /\ g.n = f.n /\ g.l = f.l
  /\ g.k = f.k \/ {f.k, g.k} = {"raw", "checked"}

AlikeLayouts(l, w) == Len(w) = Len(l) /\ \A i \in 1..Len(l) : Alike(l[i], w[i])

\* What write_action writes in another form than read_map_msg reads.
Other == {"SetVariable", "SetRoomPlayerLimit"}

\* But for the messages in Other, what is read and what is written have the same
\* fields in the same order: only the check of a text may differ.
LEMMA LayoutsAgree ==
  ASSUME NEW ty \in DOMAIN ReadLayout \ Other
  PROVE  ty \in DOMAIN WriteLayout /\ AlikeLayouts(ReadLayout[ty], WriteLayout[ty])
<1>1. \A l : AlikeLayouts(l, l)
  <2>1. \A f : Alike(f, f)
    BY DEF Alike
  <2> QED
    BY <2>1 DEF AlikeLayouts
<1>2. /\ MacroblockEncode = MacroblockDecode /\ SetSkinEncode = SetSkinDecode
      /\ WaypointEncode = WaypointDecode /\ CamCursorEncode = CamCursorDecode
  BY DEF MacroblockEncode, MacroblockDecode, SetSkinEncode, SetSkinDecode, WaypointEncode,
         WaypointDecode, CamCursorEncode, CamCursorDecode, BlockEncode, BlockDecode,
         ItemEncode, ItemDecode, TerrainEncode, TerrainDecode
<1>3. AlikeLayouts(<<N("ty", 1), Raw("msg")>>, <<N("ty", 1), Checked("msg")>>)
  <2>1. Alike(N("ty", 1), N("ty", 1)) /\ Alike(Raw("msg"), Checked("msg"))
    BY DEF Alike, Raw, Checked, Field
  <2> QED
    BY <2>1 DEF AlikeLayouts
<1>4. Len(ReadLayout[ty]) \in Nat
  BY ProperRoots DEF ProperRoot
<1>5. ty \in DOMAIN WriteLayout
  BY DEF ReadLayout, WriteLayout, Other
<1>6. CASE ty = "ChatMsg"
  BY <1>3, <1>5, <1>6 DEF ReadLayout, WriteLayout
<1>7. CASE ty # "ChatMsg"
  <2>1. WriteLayout[ty] = ReadLayout[ty]
    BY <1>2, <1>7 DEF ReadLayout, WriteLayout, Other
  <2> QED
    BY <1>1, <1>4, <1>5, <2>1
<1> QED
  BY <1>6, <1>7

-----------------------------------------------------------------------------
(* Fields that are due.                                                    *)

\* A number is determined by quotient and remainder.
LEMMA DivMod ==
  ASSUME NEW m \in Nat, m > 0, NEW i \in Nat, NEW j \in Nat
  PROVE  /\ i % m \in 0..(m - 1) /\ i \div m \in Int
         /\ i % m = j % m /\ i \div m = j \div m => i = j
<1>1. /\ i % m \in 0..(m - 1) /\ i \div m \in Int
      /\ i = m * (i \div m) + (i % m)
  OBVIOUS
<1>2. j = m * (j \div m) + (j % m)
  OBVIOUS
<1> QED
  BY <1>1, <1>2

\* A product of numbers is one, and positive only if both are.
LEMMA Times == \A n, m \in Nat : n * m \in Nat /\ (n * m > 0 => m > 0)
<1>1. TAKE n, m \in Nat
<1>2. n * m \in Int
  OBVIOUS
<1>3. n * m >= 0
  OBVIOUS
<1>4. m = 0 => n * m = 0
  OBVIOUS
<1> QED
  BY <1>2, <1>3, <1>4

\* The message's own structs, and all fields of layouts.
Roots == {ReadLayout[ty] : ty \in DOMAIN ReadLayout}
FieldsOf(l) == {l[i] : i \in 1..Len(l)}
Fields == UNION {FieldsOf(l) : l \in Structs \cup {<<>>} \cup Roots}
Places == Seq(Callers \X Int)
Slots == [f : Fields, at : Places]

\* Every field that can ever be due is proper.
LEMMA ProperFields == \A f \in Fields : Proper(f)
BY ProperStructs, ProperRoots DEF Fields, FieldsOf, Roots, ProperStruct, ProperRoot, Plain

\* Field q is in a struct that field n of the struct at place at has called.
Under(at, n, b) ==
  /\ Len(b) > Len(at) /\ b[Len(at) + 1][1] = n
  /\ \A i \in 1..Len(at) : b[i] = at[i]

\* The fields a datum calls are in structs one level below it, each with a key
\* of its own.
LEMMA CalledSlots ==
  ASSUME NEW d \in Slots, NEW t, t.v \in Nat
  PROVE  LET c == Called(d, t)
         IN  /\ c \in Seq(Slots)
             /\ \A i \in 1..Len(c) :
                  /\ c[i].f.k # "optional"
                  /\ Len(c[i].at) = Len(d.at) + 1
                  /\ Under(d.at, d.f.n, c[i].at)
             /\ \A i, j \in 1..Len(c) : Key(c[i]) = Key(c[j]) => i = j
             /\ (d.f.k \notin {"flagged", "counted"} \/ t.v = 0) => c = <<>>
<1> DEFINE n == IF d.f.k = "counted" THEN t.v ELSE IF d.f.k = "flagged" /\ t.v # 0 THEN 1 ELSE 0
           l == d.f.l
           m == Len(l)
           ix(j) == ((j - 1) % m) + 1
           no(j) == ((j - 1) \div m) + 1
           c == Called(d, t)
<1>1. Proper(d.f) /\ d.at \in Places
  BY ProperFields DEF Slots
<1>2. n \in Nat
  OBVIOUS
<1>3. l \in Structs \cup {<<>>} /\ ProperStruct(l) /\ m \in Nat /\ m = Len(l)
  BY <1>1, ProperStructs DEF Proper, ProperStruct
<1>4. c = [j \in 1..(n * m) |-> Slot(l[ix(j)], Append(d.at, <<d.f.n, no(j)>>))]
  BY DEF Called
<1> HIDE DEF n, l, m, c
<1>5. n * m \in Nat /\ Len(c) = n * m /\ DOMAIN c = 1..(n * m)
  BY <1>2, <1>3, <1>4, Times
<1>6. ASSUME NEW j \in 1..(n * m)
      PROVE  ix(j) \in 1..m /\ no(j) \in Int
  <2>1. m > 0 /\ j - 1 \in Nat
    BY <1>2, <1>3, <1>5, <1>6, Times
  <2> QED
    BY <1>3, <2>1, DivMod
<1>7. ASSUME NEW i \in 1..(n * m), NEW j \in 1..(n * m), ix(i) = ix(j), no(i) = no(j)
      PROVE  i = j
  <2>1. m > 0 /\ i - 1 \in Nat /\ j - 1 \in Nat
    BY <1>2, <1>3, <1>5, <1>7, Times
  <2>2. (i - 1) % m = (j - 1) % m /\ (i - 1) \div m = (j - 1) \div m
    BY <1>3, <1>7, <2>1, DivMod
  <2>3. i - 1 = j - 1
    BY <1>3, <2>1, <2>2, DivMod
  <2> QED
    BY <1>5, <2>3
<1> HIDE DEF ix, no
<1>8. ASSUME NEW j \in 1..(n * m)
      PROVE  /\ c[j].f = l[ix(j)] /\ Plain(c[j].f) /\ c[j].f \in Fields
             /\ d.f.n \in Callers
             /\ c[j].at = Append(d.at, <<d.f.n, no(j)>>)
             /\ c[j].at \in Places /\ Len(c[j].at) = Len(d.at) + 1
             /\ c[j].at[Len(d.at) + 1] = <<d.f.n, no(j)>>
             /\ \A i \in 1..Len(d.at) : c[j].at[i] = d.at[i]
             /\ c[j] \in Slots
  <2>1. c[j] = Slot(l[ix(j)], Append(d.at, <<d.f.n, no(j)>>))
    BY <1>4, <1>8
  <2>2. c[j].f = l[ix(j)] /\ c[j].at = Append(d.at, <<d.f.n, no(j)>>)
    BY <2>1 DEF Slot
  <2>3. Plain(l[ix(j)]) /\ l[ix(j)] \in Fields
    BY <1>3, <1>6 DEF ProperStruct, Fields, FieldsOf
  <2>4. d.f.k \in {"flagged", "counted"}
    <3>1. n # 0
      BY <1>5, <1>3
    <3> QED
      BY <3>1 DEF n
  <2>5. d.f.n \in Callers
    BY <1>1, <2>4 DEF Proper
  <2>6. <<d.f.n, no(j)>> \in Callers \X Int
    BY <1>6, <2>5
  <2>7. /\ Append(d.at, <<d.f.n, no(j)>>) \in Places
        /\ Len(Append(d.at, <<d.f.n, no(j)>>)) = Len(d.at) + 1
        /\ Append(d.at, <<d.f.n, no(j)>>)[Len(d.at) + 1] = <<d.f.n, no(j)>>
        /\ \A i \in 1..Len(d.at) : Append(d.at, <<d.f.n, no(j)>>)[i] = d.at[i]
    BY <1>1, <2>6 DEF Places
  <2>8. c[j] \in Slots
    BY <2>1, <2>3, <2>7 DEF Slots, Slot
  <2> QED
    BY <2>2, <2>3, <2>5, <2>7, <2>8
<1>9. c \in Seq(Slots)
  <2>1. c \in [1..(n * m) -> Slots]
    BY <1>4, <1>8
  <2> QED
    BY <1>5, <2>1
<1>10. ASSUME NEW i \in 1..Len(c)
       PROVE  /\ c[i].f.k # "optional"
              /\ Len(c[i].at) = Len(d.at) + 1
              /\ Under(d.at, d.f.n, c[i].at)
  <2>1. Len(d.at) \in Nat
    BY <1>1 DEF Places
  <2> QED
    BY <1>5, <1>8, <2>1 DEF Under, Plain
<1>11. ASSUME NEW i \in 1..Len(c), NEW j \in 1..Len(c), Key(c[i]) = Key(c[j])
       PROVE  i = j
  <2>1. c[i].at = c[j].at /\ c[i].f.n = c[j].f.n
    BY <1>11 DEF Key
  <2>2. no(i) = no(j)
    BY <1>5, <1>8, <2>1
  <2>3. ix(i) = ix(j)
    BY <1>3, <1>5, <1>6, <1>8, <2>1 DEF ProperStruct, Distinct
  <2> QED
    BY <1>5, <1>7, <2>2, <2>3
<1>12. ASSUME d.f.k \notin {"flagged", "counted"} \/ t.v = 0
       PROVE  c = <<>>
  <2>1. n = 0
    BY <1>12 DEF n
  <2>2. n * m = 0
    BY <1>3, <2>1
  <2> QED
    BY <1>9, <1>5, <2>2
<1> QED
  BY <1>9, <1>10, <1>11, <1>12 DEF c

-----------------------------------------------------------------------------
(* The reader.                                                             *)

\* The fields called come in front of what was due after the first.
LEMMA Spliced ==
  ASSUME NEW S, NEW c \in Seq(S), NEW s \in Seq(S), s # <<>>
  PROVE  /\ c \o Tail(s) \in Seq(S)
         /\ Len(c \o Tail(s)) = Len(c) + Len(s) - 1
         /\ \A i \in 1..Len(c) : (c \o Tail(s))[i] = c[i]
         /\ \A i \in 2..Len(s) : (c \o Tail(s))[Len(c) + i - 1] = s[i]
         /\ \A i \in 1..Len(c \o Tail(s)) :
              \/ i \in 1..Len(c)
              \/ \E j \in 2..Len(s) : i = Len(c) + j - 1
<1>1. Tail(s) \in Seq(S) /\ Len(Tail(s)) = Len(s) - 1 /\ Len(s) \in Nat \ {0}
  OBVIOUS
<1>2. \A i \in 2..Len(s) : Tail(s)[i - 1] = s[i]
  OBVIOUS
<1>3. c \o Tail(s) \in Seq(S) /\ Len(c \o Tail(s)) = Len(c) + Len(s) - 1
  BY <1>1
<1>4. \A i \in 1..Len(c) : (c \o Tail(s))[i] = c[i]
  BY <1>1
<1>5. ASSUME NEW i \in 2..Len(s) PROVE (c \o Tail(s))[Len(c) + i - 1] = s[i]
  <2>1. (c \o Tail(s))[Len(c) + (i - 1)] = Tail(s)[i - 1]
    BY <1>1
  <2> QED
    BY <1>1, <1>2, <2>1
<1>6. ASSUME NEW i \in 1..Len(c \o Tail(s)), i \notin 1..Len(c)
      PROVE  \E j \in 2..Len(s) : i = Len(c) + j - 1
  <2>1. (i - Len(c)) + 1 \in 2..Len(s) /\ i = Len(c) + ((i - Len(c)) + 1) - 1
    BY <1>1, <1>3, <1>6
  <2> QED
    BY <2>1
<1> QED
  BY <1>3, <1>4, <1>5, <1>6

\* What is in a struct under a field of a called struct is under the caller too.
LEMMA UnderBelow ==
  ASSUME NEW at \in Places, NEW n, NEW b \in Places, NEW m, NEW e \in Places,
         Len(b) = Len(at) + 1, Under(at, n, b), Under(b, m, e)
  PROVE  Under(at, n, e)
<1>1. Len(at) \in Nat /\ Len(b) \in Nat /\ Len(e) \in Nat
  BY DEF Places
<1>2. Len(e) > Len(b) /\ \A i \in 1..Len(b) : e[i] = b[i]
  BY DEF Under
<1>3. e[Len(at) + 1] = b[Len(at) + 1] /\ \A i \in 1..Len(at) : e[i] = b[i]
  BY <1>1, <1>2
<1> QED
  BY <1>1, <1>2, <1>3 DEF Under

\* A called struct is only under its caller and what its caller is under.
LEMMA UnderAbove ==
  ASSUME NEW at \in Places, NEW n, NEW b \in Places, NEW m, NEW e \in Places,
         Len(b) = Len(at) + 1, Under(at, n, b), Under(e, m, b)
  PROVE  (e = at /\ m = n) \/ Under(e, m, at)
<1>1. Len(at) \in Nat /\ Len(e) \in Nat /\ Len(e) <= Len(at)
  BY DEF Under, Places
<1>2. CASE Len(e) = Len(at)
  <2>1. m = n /\ \A i \in 1..Len(e) : e[i] = at[i]
    BY <1>1, <1>2 DEF Under
  <2>2. e = at
    <3>1. e \in Seq(Callers \X Int) /\ at \in Seq(Callers \X Int)
      BY DEF Places
    <3> QED
      BY <1>2, <2>1, <3>1, SeqEqual
  <2> QED
    BY <2>1, <2>2
<1>3. CASE Len(e) < Len(at)
  BY <1>1, <1>3 DEF Under
<1> QED
  BY <1>1, <1>2, <1>3

\* The fields that are due are not read yet, nor is anything of the structs
\* that they may call.
Neat(due, v) ==
  /\ due \in Seq(Slots)
  /\ \A i, j \in 1..Len(due) : Key(due[i]) = Key(due[j]) => i = j
  /\ \A i, j \in 1..Len(due) : ~Under(due[i].at, due[i].f.n, due[j].at)
  /\ \A q \in DOMAIN v :
       /\ q[1] \in Places
       /\ \A i \in 1..Len(due) : Key(due[i]) # q /\ ~Under(due[i].at, due[i].f.n, q[1])
  /\ \A i \in 1..Len(due) :
       due[i].f.k = "optional" => i = Len(due) - 1 /\ due[i + 1].f.k = "counted"

\* Reading a datum keeps due and read fields apart, and the optional part at the end.
LEMMA NeatStep ==
  ASSUME NEW due, NEW v, NEW t, Neat(due, v), due # <<>>, t.v \in Nat
  PROVE  Neat(Called(Head(due), t) \o Tail(due), With(v, Key(Head(due)), t))
<1> DEFINE d == Head(due)
           c == Called(d, t)
           new == c \o Tail(due)
           w == With(v, Key(d), t)
<1>1. due \in Seq(Slots) /\ Len(due) \in Nat \ {0} /\ d = due[1] /\ d \in Slots
  BY DEF Neat
<1>2. /\ c \in Seq(Slots)
      /\ \A i \in 1..Len(c) :
           /\ c[i].f.k # "optional" /\ Len(c[i].at) = Len(d.at) + 1
           /\ Under(d.at, d.f.n, c[i].at)
      /\ \A i, j \in 1..Len(c) : Key(c[i]) = Key(c[j]) => i = j
  BY <1>1, CalledSlots
<1>3. /\ new \in Seq(Slots) /\ Len(new) = Len(c) + Len(due) - 1
      /\ \A i \in 1..Len(c) : new[i] = c[i]
      /\ \A i \in 2..Len(due) : new[Len(c) + i - 1] = due[i]
      /\ \A i \in 1..Len(new) : i \in 1..Len(c) \/ \E j \in 2..Len(due) : i = Len(c) + j - 1
  BY <1>1, <1>2, Spliced
<1>4. DOMAIN w = DOMAIN v \cup {Key(d)}
  BY DEF With
<1>5. /\ \A i \in 1..Len(due) : due[i] \in Slots /\ due[i].at \in Places
      /\ \A i \in 1..Len(c) : c[i] \in Slots /\ c[i].at \in Places
      /\ Len(c) \in Nat /\ d.at \in Places /\ Len(d.at) \in Nat
  <2> HIDE DEF c, new, w, d
  <2>1. \A i \in 1..Len(due) : due[i] \in Slots
    BY <1>1
  <2>2. \A i \in 1..Len(c) : c[i] \in Slots
    BY <1>2
  <2>3. \A s \in Slots : s.at \in Places /\ Len(s.at) \in Nat
    BY DEF Slots, Places
  <2>4. Len(c) \in Nat
    BY <1>2
  <2> QED
    BY <1>1, <2>1, <2>2, <2>3, <2>4
<1> HIDE DEF c, new, w, d
<1>6. ASSUME NEW i \in 1..Len(c), NEW j \in 2..Len(due)
      PROVE  /\ Key(c[i]) # Key(due[j])
             /\ ~Under(c[i].at, c[i].f.n, due[j].at)
             /\ ~Under(due[j].at, due[j].f.n, c[i].at)
  <2>1. ~Under(d.at, d.f.n, due[j].at) /\ ~Under(due[j].at, due[j].f.n, d.at)
        /\ Key(due[j]) # Key(d)
    BY <1>1 DEF Neat
  <2>2. Key(c[i]) # Key(due[j])
    BY <1>2, <2>1 DEF Key
  <2>3. ~Under(c[i].at, c[i].f.n, due[j].at)
    BY <1>1, <1>2, <1>5, <2>1, UnderBelow
  <2>4. ~Under(due[j].at, due[j].f.n, c[i].at)
    <3>1. c[i].at \in Places /\ due[j].at \in Places /\ d.at \in Places
      BY <1>5
    <3>2. Len(c[i].at) = Len(d.at) + 1 /\ Under(d.at, d.f.n, c[i].at)
      BY <1>2
    <3>3. ~(due[j].at = d.at /\ due[j].f.n = d.f.n)
      BY <2>1 DEF Key
    <3> QED
      BY <2>1, <3>1, <3>2, <3>3, UnderAbove
  <2> QED
    BY <2>2, <2>3, <2>4
<1>7. ASSUME NEW i \in 1..Len(c), NEW j \in 1..Len(c)
      PROVE  ~Under(c[i].at, c[i].f.n, c[j].at)
  BY <1>2, <1>5 DEF Under
<1>8. ASSUME NEW i \in 2..Len(due), NEW j \in 2..Len(due)
      PROVE  /\ Key(due[i]) = Key(due[j]) => i = j
             /\ ~Under(due[i].at, due[i].f.n, due[j].at)
  BY <1>1 DEF Neat
<1>9. ASSUME NEW i \in 1..Len(new), NEW j \in 1..Len(new)
      PROVE  /\ Key(new[i]) = Key(new[j]) => i = j
             /\ ~Under(new[i].at, new[i].f.n, new[j].at)
  <2>1. CASE i \in 1..Len(c) /\ j \in 1..Len(c)
    BY <1>2, <1>3, <1>7, <2>1
  <2>2. ASSUME NEW b \in 2..Len(due), j = Len(c) + b - 1, i \in 1..Len(c)
        PROVE  /\ Key(new[i]) # Key(new[j])
               /\ ~Under(new[i].at, new[i].f.n, new[j].at)
    BY <1>3, <1>6, <2>2
  <2>3. ASSUME NEW a \in 2..Len(due), i = Len(c) + a - 1, j \in 1..Len(c)
        PROVE  /\ Key(new[i]) # Key(new[j])
               /\ ~Under(new[i].at, new[i].f.n, new[j].at)
    BY <1>3, <1>6, <2>3
  <2>4. ASSUME NEW a \in 2..Len(due), i = Len(c) + a - 1, NEW b \in 2..Len(due), j = Len(c) + b - 1
        PROVE  /\ Key(new[i]) = Key(new[j]) => i = j
               /\ ~Under(new[i].at, new[i].f.n, new[j].at)
    <3>1. new[i] = due[a] /\ new[j] = due[b]
      BY <1>3, <2>4
    <3>2. /\ Key(due[a]) = Key(due[b]) => a = b
          /\ ~Under(due[a].at, due[a].f.n, due[b].at)
      BY <1>8
    <3> QED
      BY <2>4, <3>1, <3>2
  <2> QED
    BY <1>3, <2>1, <2>2, <2>3, <2>4
<1>10. ASSUME NEW q \in DOMAIN w
       PROVE  /\ q[1] \in Places
              /\ \A i \in 1..Len(new) : Key(new[i]) # q /\ ~Under(new[i].at, new[i].f.n, q[1])
  <2>1. ASSUME q \in DOMAIN v, NEW i \in 1..Len(c)
        PROVE  Key(c[i]) # q /\ ~Under(c[i].at, c[i].f.n, q[1])
    <3>1. q[1] \in Places /\ ~Under(d.at, d.f.n, q[1])
      BY <1>1, <2>1 DEF Neat
    <3>2. Key(c[i]) # q
      BY <1>2, <3>1 DEF Key
    <3>3. ~Under(c[i].at, c[i].f.n, q[1])
      BY <1>1, <1>2, <1>5, <3>1, UnderBelow
    <3> QED
      BY <3>2, <3>3
  <2>2. ASSUME q \in DOMAIN v, NEW i \in 2..Len(due)
        PROVE  Key(due[i]) # q /\ ~Under(due[i].at, due[i].f.n, q[1])
    BY <2>2 DEF Neat
  <2>3. ASSUME q = Key(d), NEW i \in 1..Len(c)
        PROVE  Key(c[i]) # q /\ ~Under(c[i].at, c[i].f.n, q[1])
    BY <1>2, <1>5, <2>3 DEF Key, Under
  <2>4. ASSUME q = Key(d), NEW i \in 2..Len(due)
        PROVE  Key(due[i]) # q /\ ~Under(due[i].at, due[i].f.n, q[1])
    BY <1>1, <2>4 DEF Neat, Key
  <2>5. q[1] \in Places
    BY <1>1, <1>4, <1>5 DEF Neat, Key
  <2>6. ASSUME NEW i \in 1..Len(new)
        PROVE  Key(new[i]) # q /\ ~Under(new[i].at, new[i].f.n, q[1])
    <3>1. CASE i \in 1..Len(c)
      BY <1>3, <1>4, <2>1, <2>3, <3>1
    <3>2. ASSUME NEW a \in 2..Len(due), i = Len(c) + a - 1
          PROVE  Key(new[i]) # q /\ ~Under(new[i].at, new[i].f.n, q[1])
      <4>1. new[i] = due[a]
        BY <1>3, <3>2
      <4> QED
        BY <1>4, <2>2, <2>4, <4>1
    <3> QED
      BY <1>3, <3>1, <3>2
  <2> QED
    BY <2>5, <2>6
<1>11. ASSUME NEW i \in 1..Len(new), new[i].f.k = "optional"
       PROVE  i = Len(new) - 1 /\ new[i + 1].f.k = "counted"
  <2>1. PICK a \in 2..Len(due) : i = Len(c) + a - 1
    BY <1>2, <1>3, <1>11
  <2>2. a = Len(due) - 1 /\ due[a + 1].f.k = "counted"
    <3>1. due[a].f.k = "optional" /\ a \in 1..Len(due)
      <4>1. new[i] = due[a]
        BY <1>3, <2>1
      <4>2. new[i].f.k = "optional" /\ a \in 1..Len(due)
        BY <1>1, <1>11, <2>1
      <4> QED
        BY <4>1, <4>2
    <3>2. \A b \in 1..Len(due) :
            due[b].f.k = "optional" => b = Len(due) - 1 /\ due[b + 1].f.k = "counted"
      BY DEF Neat
    <3> QED
      BY <3>1, <3>2
  <2>3. new[Len(c) + (a + 1) - 1] = due[a + 1]
    BY <1>1, <1>3, <2>1, <2>2
  <2> QED
    BY <1>1, <1>3, <1>5, <2>1, <2>2, <2>3
<1>12. Neat(new, w)
  BY <1>3, <1>9, <1>10, <1>11 DEF Neat
<1> QED
  BY <1>12 DEF new, w, c, d

\* What is kept of a datum is of the same kind, and changed only if flag or text.
LEMMA KeptData ==
  ASSUME NEW t \in Data
  PROVE  /\ Kept(t).v \in Nat /\ Kept(t).k = t.k
         /\ t.k \in {"num", "bytes"} => Kept(t) = t
         /\ t.k = "txt" => Kept(t) = Lossy(t)
         /\ t.k \in Marks => Kept(t) = t /\ t = Mark(t.k)
BY DEF Data, Kept, Lossy, Txt, TextLen, Flag, Marks, Mark

\* At the start the fields of the message's own struct are due.
LEMMA NeatStart ==
  ASSUME NEW l \in Roots
  PROVE  /\ Neat(ReadStart(l).due, <<>>)
         /\ Len(ReadStart(l).due) = Len(l)
         /\ \A i \in 1..Len(l) : ReadStart(l).due[i] = Slot(l[i], <<>>)
<1> DEFINE due == [i \in 1..Len(l) |-> Slot(l[i], <<>>)]
<1>1. ProperRoot(l) /\ Len(l) \in Nat
  BY ProperRoots DEF Roots, ProperRoot
<1>2. Len(due) = Len(l) /\ \A i \in 1..Len(l) : due[i] = Slot(l[i], <<>>)
  BY <1>1
<1>3. \A i \in 1..Len(l) : due[i].f = l[i] /\ due[i].at = <<>>
  BY <1>2 DEF Slot
<1>4. <<>> \in Places
  BY DEF Places
<1>5. ASSUME NEW i \in 1..Len(l) PROVE due[i] \in Slots
  <2>1. l[i] \in Fields
    BY DEF Fields, FieldsOf
  <2> QED
    BY <1>2, <1>4, <2>1 DEF Slots, Slot
<1>6. due \in Seq(Slots)
  <2>1. due \in [1..Len(l) -> Slots]
    BY <1>5
  <2> QED
    BY <1>1, <2>1
<1> HIDE DEF due
<1>7. \A i, j \in 1..Len(due) : Key(due[i]) = Key(due[j]) => i = j
  BY <1>1, <1>2, <1>3 DEF Key, ProperRoot, Distinct
<1>8. \A i, j \in 1..Len(due) : ~Under(due[i].at, due[i].f.n, due[j].at)
  BY <1>2, <1>3 DEF Under
<1>9. \A i \in 1..Len(due) :
        due[i].f.k = "optional" => i = Len(due) - 1 /\ due[i + 1].f.k = "counted"
  <2>1. TAKE i \in 1..Len(due)
  <2>2. HAVE due[i].f.k = "optional"
  <2>3. i = Len(l) - 1 /\ l[i + 1].k = "counted"
    BY <1>1, <1>2, <1>3, <2>2 DEF ProperRoot, Plain
  <2> QED
    BY <1>1, <1>2, <1>3, <2>3
<1>10. DOMAIN <<>> = {}
  OBVIOUS
<1>11. Neat(due, <<>>)
  BY <1>6, <1>7, <1>8, <1>9, <1>10 DEF Neat
<1>12. ReadStart(l).due = due
  BY DEF ReadStart, due
<1> QED
  BY <1>2, <1>11, <1>12

\* The field that the j-th datum was read into.
DueAt(l, body, j) == Head(ReadRun(l, body)[j - 1].due)

\* The j-th datum has been read into a field of its own, and is kept there in v.
Took(l, body, j, v) ==
  LET r == ReadRun(l, body)
      d == DueAt(l, body, j)
  IN  /\ r[j - 1].due # <<>> /\ Neat(r[j - 1].due, r[j - 1].v)
      /\ Fits(d.f, body[j])
      /\ r[j].due = Called(d, Kept(body[j])) \o Tail(r[j - 1].due)
      /\ Key(d) \in DOMAIN v /\ v[Key(d)] = Kept(body[j])

\* The state that i data of the body have led to.
Reading(l, body, i) ==
  LET r == ReadRun(l, body)
      s == r[i]
  IN  /\ Neat(s.due, s.v)
      /\ s.n \in 0..i
      /\ s.due # <<>> => s.n = i
      /\ r[s.n] = s
      /\ IsFiniteSet(DOMAIN s.v)
      /\ Cardinality(DOMAIN s.v) = s.n
      /\ \A j \in 1..s.n : Took(l, body, j, s.v)

\* At the start nothing has been read.
LEMMA ReadingStart ==
  ASSUME NEW l \in Roots, NEW body \in Seq(Data)
  PROVE  Reading(l, body, 0)
<1> DEFINE r == ReadRun(l, body)
<1>1. r[0] = ReadStart(l)
  BY ReadRuns
<1>2. r[0].v = <<>> /\ r[0].n = 0 /\ r[0].due = ReadStart(l).due
  BY <1>1 DEF ReadStart
<1> HIDE DEF r
<1>3. DOMAIN <<>> = {} /\ IsFiniteSet({}) /\ Cardinality({}) = 0
  BY FS_EmptySet
<1>5. Neat(r[0].due, r[0].v)
  BY <1>2, NeatStart
<1> QED
  BY <1>2, <1>3, <1>5 DEF Reading, r

\* Each datum that the reader takes goes into a field of its own.
LEMMA ReadingStep ==
  ASSUME NEW l \in Roots, NEW body \in Seq(Data), NEW i \in Nat, i + 1 <= Len(body),
         Reading(l, body, i), ReadRun(l, body)[i].ok, ReadRun(l, body)[i + 1].ok
  PROVE  Reading(l, body, i + 1)
<1> DEFINE r == ReadRun(l, body)
           s == r[i]
           u == r[i + 1]
           t == body[i + 1]
           d == Head(s.due)
<1>1. u = TakeDatum(s, t)
  <2>1. \A j \in 1..Len(body) : r[j] = TakeDatum(r[j - 1], body[j])
    BY ReadRuns
  <2>2. i + 1 \in 1..Len(body) /\ (i + 1) - 1 = i
    OBVIOUS
  <2> HIDE DEF r
  <2> QED
    BY <2>1, <2>2
<1>2. s.ok /\ u.ok
  OBVIOUS
<1>3. t \in Data
  OBVIOUS
<1>4. /\ Neat(s.due, s.v) /\ s.n \in 0..i /\ (s.due # <<>> => s.n = i) /\ r[s.n] = s
      /\ IsFiniteSet(DOMAIN s.v) /\ Cardinality(DOMAIN s.v) = s.n
      /\ \A j \in 1..s.n : Took(l, body, j, s.v)
  BY Zenon DEF Reading
<1> HIDE DEF t
<1>5. CASE s.due = <<>>
  <2>1. u = s
    BY <1>1, <1>5 DEF TakeDatum
  <2>2. s.n \in 0..(i + 1)
    BY <1>4
  <2> HIDE DEF r
  <2> QED
    BY <1>4, <1>5, <2>1, <2>2 DEF Reading, r
<1>6. CASE s.due # <<>>
  <2>1. Fits(d.f, t)
    BY <1>1, <1>2, <1>6 DEF TakeDatum
  <2>2. u = [due |-> Called(d, Kept(t)) \o Tail(s.due), v |-> With(s.v, Key(d), Kept(t)),
             n |-> s.n + 1, ok |-> TRUE]
    BY <1>1, <1>2, <1>6, <2>1 DEF TakeDatum
  <2>3. d = DueAt(l, body, i + 1) /\ r[(i + 1) - 1] = s
    BY DEF DueAt
  <2> HIDE DEF r, s, u, d
  <2>4. /\ u.n = i + 1 /\ u.v = With(s.v, Key(d), Kept(t))
        /\ u.due = Called(d, Kept(t)) \o Tail(s.due)
    BY <1>4, <1>6, <2>2
  <2>5. Kept(t).v \in Nat
    BY <1>3, KeptData
  <2>6. s.due \in Seq(Slots) /\ d = s.due[1] /\ Len(s.due) \in Nat \ {0}
    BY <1>4, <1>6 DEF Neat, d
  <2>7. Neat(u.due, u.v)
    BY <1>4, <1>6, <2>4, <2>5, NeatStep DEF d
  <2>8. Key(d) \notin DOMAIN s.v
    BY <1>4, <2>6 DEF Neat
  <2>9. DOMAIN u.v = DOMAIN s.v \cup {Key(d)} /\ u.v[Key(d)] = Kept(t)
        /\ \A q \in DOMAIN s.v : u.v[q] = s.v[q]
    BY <2>4, <2>8 DEF With
  <2>10. IsFiniteSet(DOMAIN u.v) /\ Cardinality(DOMAIN u.v) = i + 1
    <3>1. Cardinality(DOMAIN s.v) = i
      BY <1>4, <1>6
    <3>2. IsFiniteSet(DOMAIN s.v)
      BY <1>4
    <3>3. /\ IsFiniteSet(DOMAIN s.v \cup {Key(d)})
          /\ Cardinality(DOMAIN s.v \cup {Key(d)}) = Cardinality(DOMAIN s.v) + 1
      BY <2>8, <3>2, FS_AddElement, Zenon
    <3> QED
      BY <2>9, <3>1, <3>3
  <2>11. ASSUME NEW j \in 1..(i + 1) PROVE Took(l, body, j, u.v)
    <3>1. CASE j \in 1..i
      <4>1. Took(l, body, j, s.v)
        BY <1>4, <1>6, <3>1
      <4> QED
        BY <2>9, <4>1 DEF Took
    <3>2. CASE j = i + 1
      <4>1. r[j] = u /\ body[j] = t /\ r[j - 1] = s /\ DueAt(l, body, j) = d
        BY <2>3, <3>2 DEF u, t
      <4>2. Key(d) \in DOMAIN u.v
        BY <2>9
      <4> QED
        BY <1>4, <1>6, <2>1, <2>4, <2>9, <4>1, <4>2 DEF Took, r
    <3> QED
      BY <3>1, <3>2
  <2>14. u.n \in 0..(i + 1) /\ (u.due # <<>> => u.n = i + 1) /\ r[u.n] = u
    BY <2>4 DEF u
  <2> QED
    BY <1>4, <2>4, <2>7, <2>10, <2>11, <2>14 DEF Reading, r, u
<1> QED
  BY <1>5, <1>6

\* A reader without an error has read every datum it took into a field of its own.
LEMMA ReadToTheEnd ==
  ASSUME NEW l \in Roots, NEW body \in Seq(Data), Decode(l, body).ok
  PROVE  /\ Reading(l, body, Len(body))
         /\ ReadRun(l, body)[Len(body)] = Decode(l, body)
<1> DEFINE r == ReadRun(l, body)
           T == {i \in Nat : i <= Len(body) /\ r[i].ok => Reading(l, body, i)}
<1>1. 0 \in T
  BY ReadingStart
<1>2. ASSUME NEW i \in T PROVE i + 1 \in T
  <2>1. SUFFICES ASSUME i + 1 <= Len(body), r[i + 1].ok PROVE Reading(l, body, i + 1)
    OBVIOUS
  <2>2. i \in Nat /\ i + 1 \in 1..Len(body) /\ (i + 1) - 1 = i
    BY <2>1
  <2>3. r[i + 1] = TakeDatum(r[i], body[i + 1])
    <3>1. \A j \in 1..Len(body) : r[j] = TakeDatum(r[j - 1], body[j])
      BY ReadRuns
    <3> HIDE DEF r
    <3> QED
      BY <2>2, <3>1
  <2>4. r[i].ok
    BY <2>1, <2>3 DEF TakeDatum
  <2>5. Reading(l, body, i)
    BY <1>2, <2>2, <2>4
  <2> QED
    BY <2>1, <2>2, <2>4, <2>5, ReadingStep
<1>3. T = Nat
  <2> HIDE DEF T
  <2>1. T \in SUBSET Nat
    BY DEF T
  <2> QED
    BY <1>1, <1>2, <2>1, Induction
<1>4. Len(body) \in Nat /\ r[Len(body)] = Decode(l, body)
  BY DEF Decode
<1> QED
  BY <1>3, <1>4

-----------------------------------------------------------------------------
(* The writer, beside the reader.                                          *)

\* A text that was short enough as it came, and is not as UTF-8.
Swollen(t) == t.k = "txt" /\ t.v > 0 /\ TooLong(Lossy(t))

\* Datum x is written where t was read.
Renders(t, x) == x = Kept(t) \/ (x = Panic /\ Swollen(t))

\* What is written of a datum that was read is the datum cleaned, or a panic at a
\* text that has outgrown the bound.
LEMMA WrittenRenders ==
  ASSUME NEW f, NEW g, NEW t \in Data, Proper(f), Alike(f, g), Fits(f, t)
  PROVE  LET x == Written(g, Kept(t))
         IN  Renders(t, x) /\ (x # Kept(t) => f.k \in {"raw", "checked"})
<1>1. CASE g.k = "checked"
  <2>1. f.k \in {"raw", "checked"}
    BY <1>1 DEF Alike
  <2>2. t.k = "txt" /\ ~TooLong(t)
    BY <2>1 DEF Fits, Acceptable
  <2>3. t.v = 0 => Lossy(t) = t
    <3>1. t \in [k : {"num", "txt", "bytes"}, w : Nat, v : Nat]
      BY <2>2 DEF Data, Marks
    <3>2. t = [k |-> t.k, w |-> t.w, v |-> t.v] /\ t.w \in Nat
      BY <3>1
    <3> QED
      BY <2>2, <3>2 DEF Lossy, Txt, TextLen
  <2>4. t.v \in Nat /\ Kept(t) = Lossy(t)
    BY <2>2, KeptData DEF Data, Marks
  <2>5. Written(g, Kept(t)) = IF TooLong(Kept(t)) THEN Panic ELSE Kept(t)
    BY <1>1 DEF Written
  <2> QED
    BY <2>1, <2>2, <2>3, <2>4, <2>5 DEF Renders, Swollen
<1>2. CASE g.k \in {"mark", "optional"}
  <2>1. f.k = g.k /\ f.n = g.n /\ f.n \in Marks
    BY <1>2 DEF Alike, Proper
  <2>2. t = Mark(f.n) /\ Kept(t) = t
    BY <1>2, <2>1, KeptData DEF Fits
  <2>3. Written(g, Kept(t)) = Mark(g.n)
    BY <1>2 DEF Written
  <2> QED
    BY <2>1, <2>2, <2>3 DEF Renders
<1>3. CASE g.k = "none"
  <2>1. f.k = "none"
    BY <1>3 DEF Alike
  <2>2. t = Num(2, 0)
    BY <2>1 DEF Fits
  <2>3. Kept(t) = t
    BY <2>2, KeptData DEF Num
  <2>4. Written(g, Kept(t)) = Num(2, 0)
    BY <1>3 DEF Written
  <2> QED
    BY <2>2, <2>3, <2>4 DEF Renders
<1>4. CASE g.k \notin {"checked", "mark", "optional", "none"}
  BY <1>4 DEF Written, Renders
<1> QED
  BY <1>1, <1>2, <1>3, <1>4

\* Reader and writer call the same fields.
LEMMA CalledAlike ==
  ASSUME NEW d, NEW e, NEW t, NEW x, e.at = d.at, Alike(d.f, e.f),
         x # t => d.f.k \in {"raw", "checked"}
  PROVE  Called(e, x) = Called(d, t)
<1>1. e.f.l = d.f.l /\ e.f.n = d.f.n
  BY DEF Alike
<1>2. CASE x = t /\ e.f.k = d.f.k
  BY <1>1, <1>2 DEF Called
<1>3. CASE d.f.k \in {"raw", "checked"} /\ e.f.k \in {"raw", "checked"}
  BY <1>1, <1>3 DEF Called
<1> QED
  BY <1>2, <1>3 DEF Alike

WriterSlots ==
  [f : Fields \cup UNION {FieldsOf(WriteLayout[ty]) : ty \in DOMAIN WriteLayout}, at : Places]

\* The writer's fields that are due are the reader's.
SameDue(due, e) ==
  /\ e \in Seq(WriterSlots) /\ Len(e) = Len(due)
  /\ \A a \in 1..Len(due) : e[a].at = due[a].at /\ Alike(due[a].f, e[a].f)

\* After j data the writer is where the reader was.
Beside(l, w, body, v, j) ==
  LET r == ReadRun(l, body)
      s == WriteRun(w, v)[j]
  IN  /\ SameDue(r[j].due, s.due)
      /\ Len(s.out) = j
      /\ s.out \in Seq(Data \cup {Panic})
      /\ \A i \in 1..j : Renders(body[i], s.out[i])

\* What is written is a datum or a panic.
LEMMA RenderedData ==
  ASSUME NEW t \in Data, NEW x, Renders(t, x)
  PROVE  x \in Data \cup {Panic}
<1>1. Kept(t) \in Data
  BY DEF Data, Kept, Lossy, Txt, TextLen, Flag, Marks
<1> QED
  BY <1>1 DEF Renders

\* At the start the writer has the reader's fields due.
LEMMA BesideStart ==
  ASSUME NEW ty \in DOMAIN ReadLayout \ Other, NEW body \in Seq(Data), NEW v,
         Cardinality(DOMAIN v) \in Nat
  PROVE  Beside(ReadLayout[ty], WriteLayout[ty], body, v, 0)
<1> DEFINE l == ReadLayout[ty]
           w == WriteLayout[ty]
           e == [i \in 1..Len(w) |-> Slot(w[i], <<>>)]
<1>1. l \in Roots /\ Len(l) \in Nat /\ ty \in DOMAIN WriteLayout /\ AlikeLayouts(l, w)
  BY LayoutsAgree, ProperRoots DEF Roots, ProperRoot
<1> HIDE DEF l, w
<1>2. Len(w) = Len(l) /\ \A i \in 1..Len(l) : Alike(l[i], w[i])
  BY <1>1 DEF AlikeLayouts
<1>3. e \in Seq(WriterSlots) /\ Len(e) = Len(l)
  <2>1. ASSUME NEW i \in 1..Len(w) PROVE Slot(w[i], <<>>) \in WriterSlots
    <3>1. w[i] \in FieldsOf(WriteLayout[ty])
      BY DEF FieldsOf, w
    <3>2. <<>> \in Places
      BY DEF Places
    <3> QED
      BY <1>1, <3>1, <3>2 DEF WriterSlots, Slot
  <2>2. e \in [1..Len(w) -> WriterSlots]
    BY <2>1
  <2> QED
    BY <1>1, <1>2, <2>2
<1>4. /\ Len(ReadStart(l).due) = Len(l)
      /\ \A i \in 1..Len(l) : ReadStart(l).due[i] = Slot(l[i], <<>>)
  BY <1>1, NeatStart
<1>5. SameDue(ReadStart(l).due, e)
  <2>1. ASSUME NEW a \in 1..Len(l)
        PROVE  e[a].at = ReadStart(l).due[a].at /\ Alike(ReadStart(l).due[a].f, e[a].f)
    <3>1. e[a].f = w[a] /\ e[a].at = <<>>
      BY <1>2 DEF Slot
    <3>2. ReadStart(l).due[a].f = l[a] /\ ReadStart(l).due[a].at = <<>>
      <4>1. ReadStart(l).due[a] = Slot(l[a], <<>>)
        BY <1>4
      <4>2. Slot(l[a], <<>>).f = l[a] /\ Slot(l[a], <<>>).at = <<>>
        BY DEF Slot
      <4> QED
        BY <4>1, <4>2
    <3>3. Alike(l[a], w[a])
      BY <1>2
    <3> HIDE DEF e
    <3> QED
      BY <3>1, <3>2, <3>3
  <2> HIDE DEF e
  <2> QED
    BY <1>3, <1>4, <2>1 DEF SameDue
<1>6. ReadRun(l, body)[0] = ReadStart(l) /\ WriteRun(w, v)[0] = WriteStart(w)
  BY ReadRuns, WriteRuns
<1>7. WriteStart(w).due = e /\ WriteStart(w).out = <<>>
  BY DEF WriteStart
<1> HIDE DEF e
<1>8. Len(<<>>) = 0 /\ <<>> \in Seq(Data \cup {Panic})
  OBVIOUS
<1>9. Beside(l, w, body, v, 0)
  BY <1>5, <1>6, <1>7, <1>8 DEF Beside
<1> QED
  BY <1>9 DEF l, w

\* Where the reader read the next datum into a field, the writer writes it from there.
LEMMA BesideStep ==
  ASSUME NEW l \in Roots, NEW w, NEW body \in Seq(Data), NEW v, NEW n \in Nat,
         n <= Len(body), Cardinality(DOMAIN v) = n,
         NEW j \in Nat, j + 1 <= n, Took(l, body, j + 1, v),
         Beside(l, w, body, v, j), ~Ended(WriteRun(w, v)[j], v)
  PROVE  Beside(l, w, body, v, j + 1)
<1> DEFINE r == ReadRun(l, body)
           p == WriteRun(w, v)
           t == body[j + 1]
           due == r[j].due
           d == Head(due)
           e == Head(p[j].due)
           x == Written(e.f, v[Key(e)])
<1>1. p[j + 1] = PutDatum(p[j], v)
  <2>1. \A i \in 1..n : p[i] = PutDatum(p[i - 1], v)
    BY WriteRuns
  <2>2. j + 1 \in 1..n /\ (j + 1) - 1 = j
    OBVIOUS
  <2> HIDE DEF p
  <2> QED
    BY <2>1, <2>2
<1>2. DueAt(l, body, j + 1) = d /\ (j + 1) - 1 = j
  BY DEF DueAt
<1>3. /\ due # <<>> /\ Neat(due, r[j].v) /\ Fits(d.f, t)
      /\ r[j + 1].due = Called(d, Kept(t)) \o Tail(due)
      /\ v[Key(d)] = Kept(t)
  BY <1>2, Zenon DEF Took
<1>4. t \in Data
  OBVIOUS
<1> HIDE DEF r, t
<1>5. /\ SameDue(due, p[j].due) /\ Len(p[j].out) = j
      /\ p[j].out \in Seq(Data \cup {Panic})
      /\ \A i \in 1..j : Renders(body[i], p[j].out[i])
  BY Zenon DEF Beside, r
<1>6. p[j + 1] = [due |-> Called(e, x) \o Tail(p[j].due), out |-> Append(p[j].out, x)]
  BY <1>1 DEF PutDatum
<1> HIDE DEF p
<1>7. due \in Seq(Slots) /\ Len(due) \in Nat \ {0} /\ d = due[1] /\ d \in Slots
  BY <1>3 DEF Neat
<1>8. /\ p[j].due \in Seq(WriterSlots) /\ Len(p[j].due) = Len(due) /\ e = p[j].due[1]
      /\ p[j].due # <<>>
  BY <1>5, <1>7 DEF SameDue
<1>9. e.at = d.at /\ Alike(d.f, e.f) /\ Key(e) = Key(d)
  <2>1. \A a \in 1..Len(due) : p[j].due[a].at = due[a].at /\ Alike(due[a].f, p[j].due[a].f)
    BY <1>5 DEF SameDue
  <2>2. 1 \in 1..Len(due)
    BY <1>7
  <2> HIDE DEF due, d, e
  <2>3. e.at = d.at /\ Alike(d.f, e.f)
    BY <1>7, <1>8, <2>1, <2>2
  <2> QED
    BY <2>3 DEF Alike, Key
<1>10. Proper(d.f)
  BY <1>7, ProperFields DEF Slots
<1> HIDE DEF due, d, e
<1>11. Renders(t, x) /\ (x # Kept(t) => d.f.k \in {"raw", "checked"})
  BY <1>3, <1>4, <1>9, <1>10, WrittenRenders
<1>12. Called(e, x) = Called(d, Kept(t))
  BY <1>9, <1>11, CalledAlike
<1>13. x \in Data \cup {Panic}
  BY <1>4, <1>11, RenderedData
<1> HIDE DEF x
<1>14. SameDue(r[j + 1].due, p[j + 1].due)
  <2> DEFINE c == Called(d, Kept(t))
  <2>1. c \in Seq(Slots)
    BY <1>4, <1>7, KeptData, CalledSlots
  <2> HIDE DEF c
  <2>2. c \in Seq(WriterSlots) /\ Len(c) \in Nat
    <3>1. Slots \subseteq WriterSlots
      BY DEF Slots, WriterSlots
    <3> QED
      BY <2>1, <3>1
  <2>3. r[j + 1].due = c \o Tail(due) /\ p[j + 1].due = c \o Tail(p[j].due)
    <3>1. r[j + 1].due = c \o Tail(due)
      BY <1>3, Zenon DEF c
    <3>2. p[j + 1].due = Called(e, x) \o Tail(p[j].due)
      <4>1. \A a, b : [due |-> a, out |-> b].due = a
        OBVIOUS
      <4> QED
        BY <1>6, <4>1, Zenon
    <3> QED
      BY <1>12, <3>1, <3>2 DEF c
  <2>4. /\ Len(r[j + 1].due) = Len(c) + Len(due) - 1
        /\ \A i \in 1..Len(c) : r[j + 1].due[i] = c[i]
        /\ \A i \in 2..Len(due) : r[j + 1].due[Len(c) + i - 1] = due[i]
        /\ \A i \in 1..Len(r[j + 1].due) :
             i \in 1..Len(c) \/ \E a \in 2..Len(due) : i = Len(c) + a - 1
    <3>1. /\ Len(c \o Tail(due)) = Len(c) + Len(due) - 1
          /\ \A i \in 1..Len(c) : (c \o Tail(due))[i] = c[i]
          /\ \A i \in 2..Len(due) : (c \o Tail(due))[Len(c) + i - 1] = due[i]
          /\ \A i \in 1..Len(c \o Tail(due)) :
               i \in 1..Len(c) \/ \E a \in 2..Len(due) : i = Len(c) + a - 1
      BY <1>3, <1>7, <2>1, Spliced
    <3> QED
      BY <2>3, <3>1
  <2>5. /\ p[j + 1].due \in Seq(WriterSlots)
        /\ Len(p[j + 1].due) = Len(c) + Len(due) - 1
        /\ \A i \in 1..Len(c) : p[j + 1].due[i] = c[i]
        /\ \A i \in 2..Len(due) : p[j + 1].due[Len(c) + i - 1] = p[j].due[i]
    <3> DEFINE q == p[j].due
    <3>1. q \in Seq(WriterSlots) /\ q # <<>> /\ Len(q) = Len(due)
      BY <1>8
    <3>2. p[j + 1].due = c \o Tail(q)
      BY <2>3
    <3> HIDE DEF q
    <3>3. /\ c \o Tail(q) \in Seq(WriterSlots)
          /\ Len(c \o Tail(q)) = Len(c) + Len(q) - 1
          /\ \A i \in 1..Len(c) : (c \o Tail(q))[i] = c[i]
          /\ \A i \in 2..Len(q) : (c \o Tail(q))[Len(c) + i - 1] = q[i]
      <4>1. c \in Seq(WriterSlots)
        BY <2>2
      <4> QED
        <5>1. c \o Tail(q) \in Seq(WriterSlots)
          BY <3>1, <4>1, Spliced
        <5>2. Len(c \o Tail(q)) = Len(c) + Len(q) - 1
          BY <3>1, <4>1, Spliced
        <5>3. \A i \in 1..Len(c) : (c \o Tail(q))[i] = c[i]
          BY <3>1, <4>1, Spliced
        <5>4. \A i \in 2..Len(q) : (c \o Tail(q))[Len(c) + i - 1] = q[i]
          BY <3>1, <4>1, Spliced
        <5> QED
          BY <5>1, <5>2, <5>3, <5>4
    <3> QED
      BY <3>1, <3>2, <3>3 DEF q
  <2>6. ASSUME NEW a \in 1..Len(r[j + 1].due)
        PROVE  /\ p[j + 1].due[a].at = r[j + 1].due[a].at
               /\ Alike(r[j + 1].due[a].f, p[j + 1].due[a].f)
    <3>1. CASE a \in 1..Len(c)
      BY <2>4, <2>5, <3>1 DEF Alike
    <3>2. ASSUME NEW b \in 2..Len(due), a = Len(c) + b - 1
          PROVE  /\ p[j + 1].due[a].at = r[j + 1].due[a].at
                 /\ Alike(r[j + 1].due[a].f, p[j + 1].due[a].f)
      <4>1. r[j + 1].due[a] = due[b] /\ p[j + 1].due[a] = p[j].due[b]
        BY <2>4, <2>5, <3>2
      <4>2. b \in 1..Len(due)
        BY <1>7
      <4> QED
        BY <1>5, <4>1, <4>2 DEF SameDue
    <3> QED
      BY <2>4, <3>1, <3>2
  <2> QED
    BY <2>4, <2>5, <2>6 DEF SameDue
<1>15. p[j + 1].out = Append(p[j].out, x)
  BY <1>6
<1>16. /\ Len(p[j + 1].out) = j + 1 /\ p[j + 1].out \in Seq(Data \cup {Panic})
       /\ p[j + 1].out[j + 1] = x
       /\ \A i \in 1..j : p[j + 1].out[i] = p[j].out[i]
  BY <1>5, <1>13, <1>15
<1>17. ASSUME NEW i \in 1..(j + 1) PROVE Renders(body[i], p[j + 1].out[i])
  <2>1. CASE i \in 1..j
    BY <1>5, <1>16, <2>1
  <2>2. CASE i = j + 1
    BY <1>11, <1>16, <2>2 DEF t
  <2> QED
    BY <2>1, <2>2
<1> QED
  BY <1>14, <1>16, <1>17 DEF Beside, r, p

\* A sequence of two, by its elements.
LEMMA Pair ==
  ASSUME NEW S, NEW s \in Seq(S), Len(s) = 2
  PROVE  Head(s) = s[1] /\ s[1] \in S /\ s[2] \in S /\ Tail(s) = <<s[2]>>
<1>1. 1 \in 1..Len(s) /\ 2 \in 1..Len(s) /\ s # <<>>
  OBVIOUS
<1>2. s[1] \in S /\ s[2] \in S
  BY <1>1, ElementOfSeq
<1>3. Tail(s) \in Seq(S) /\ Len(Tail(s)) = 1 /\ Tail(s)[1] = s[2]
  BY <1>1, HeadTailProperties
<1>4. <<s[2]>> \in Seq(S) /\ Len(<<s[2]>>) = 1 /\ <<s[2]>>[1] = s[2]
  BY <1>2
<1>5. Tail(s) = <<s[2]>>
  <2> DEFINE a == Tail(s)
             b == <<s[2]>>
  <2>1. a \in Seq(S) /\ b \in Seq(S) /\ Len(a) = Len(b) /\ Len(a) = 1 /\ a[1] = b[1]
    BY <1>3, <1>4
  <2> HIDE DEF a, b
  <2>2. \A i \in 1..Len(a) : a[i] = b[i]
    BY <2>1
  <2>3. a = b
    BY <2>1, <2>2, SeqEqual
  <2> QED
    BY <2>3 DEF a, b
<1>6. Head(s) = s[1]
  BY <1>1
<1> QED
  BY <1>2, <1>5, <1>6

\* When the optional part is due, a count is what comes after, and nothing else.
LEMMA OptionalPart ==
  ASSUME NEW due, NEW v, NEW t, t.v \in Nat, Neat(due, v), due # <<>>,
         Head(due).f.k = "optional"
  PROVE  /\ Len(due) = 2 /\ due[2] \in Slots /\ due[2].f.k = "counted"
         /\ Called(Head(due), t) \o Tail(due) = <<due[2]>>
<1>1. due \in Seq(Slots) /\ Len(due) \in Nat \ {0} /\ Head(due) = due[1]
  BY DEF Neat
<1>2. Len(due) = 2 /\ due[2].f.k = "counted"
  <2>1. 1 \in 1..Len(due)
    BY <1>1
  <2>2. 1 = Len(due) - 1 /\ due[1 + 1].f.k = "counted"
    BY <1>1, <2>1 DEF Neat
  <2> QED
    BY <1>1, <2>2
<1>3. Head(due) \in Slots /\ due[2] \in Slots /\ Tail(due) = <<due[2]>>
  BY <1>1, <1>2, Pair
<1>4. Called(Head(due), t) = <<>>
  BY <1>3, CalledSlots
<1>5. <<>> \o <<due[2]>> = <<due[2]>>
  OBVIOUS
<1> QED
  BY <1>2, <1>3, <1>4, <1>5

\* The reader has been through the body, to its state s.
Through(l, body, s) ==
  /\ s.n \in 0..Len(body) /\ ReadRun(l, body)[s.n] = s
  /\ Neat(s.due, s.v)
  /\ s.due = <<>> \/ Head(s.due).f.k = "optional"
  /\ Cardinality(DOMAIN s.v) = s.n
  /\ \A j \in 1..s.n : Took(l, body, j, s.v)

\* A body that decodes has been read to the end of its layout.
LEMMA GoneThrough ==
  ASSUME NEW l \in Roots, NEW body \in Seq(Data), Decodes(l, body)
  PROVE  Through(l, body, Decode(l, body))
<1> DEFINE s == Decode(l, body)
<1>1. s.ok /\ (s.due = <<>> \/ Head(s.due).f.k = "optional")
  BY DEF Decodes
<1>2. Reading(l, body, Len(body)) /\ ReadRun(l, body)[Len(body)] = s
  BY <1>1, ReadToTheEnd
<1> HIDE DEF s
<1>3. /\ s.n \in 0..Len(body) /\ ReadRun(l, body)[s.n] = s /\ Neat(s.due, s.v)
      /\ Cardinality(DOMAIN s.v) = s.n /\ \A j \in 1..s.n : Took(l, body, j, s.v)
  BY <1>2, Zenon DEF Reading
<1>4. Through(l, body, s)
  BY <1>1, <1>3 DEF Through, s
<1> QED
  BY <1>4 DEF s

\* Where there are fields due to the reader, there are as many to the writer.
LEMMA DueBeside ==
  ASSUME NEW due, NEW e, SameDue(due, e), due \in Seq(Slots)
  PROVE  /\ due = <<>> <=> e = <<>>
         /\ due # <<>> => (Head(e).f.k = "optional" <=> Head(due).f.k = "optional")
         /\ Len(due) = 2 => Key(e[2]) = Key(due[2])
<1>1. e \in Seq(WriterSlots) /\ Len(e) = Len(due) /\ Len(due) \in Nat
  BY DEF SameDue
<1>2. due = <<>> <=> e = <<>>
  BY <1>1
<1>3. ASSUME due # <<>> PROVE Head(e).f.k = "optional" <=> Head(due).f.k = "optional"
  <2>1. 1 \in 1..Len(due) /\ Head(e) = e[1] /\ Head(due) = due[1]
    BY <1>1, <1>2, <1>3
  <2>2. Alike(due[1].f, e[1].f)
    BY <2>1 DEF SameDue
  <2> QED
    BY <2>1, <2>2 DEF Alike
<1>4. ASSUME Len(due) = 2 PROVE Key(e[2]) = Key(due[2])
  <2>1. e[2].at = due[2].at /\ Alike(due[2].f, e[2].f)
    BY <1>4 DEF SameDue
  <2> QED
    BY <2>1 DEF Alike, Key
<1> QED
  BY <1>2, <1>3, <1>4

\* After the mark of an optional part, the reader has read a count.
LEMMA CountRead ==
  ASSUME NEW l \in Roots, NEW body \in Seq(Data), NEW s, Through(l, body, s),
         NEW j \in Nat, j < s.n, Head(ReadRun(l, body)[j].due).f.k = "optional"
  PROVE  LET due == ReadRun(l, body)[j].due
         IN  /\ j + 2 <= s.n /\ Len(due) = 2
             /\ body[j + 1] = Mark("TRNs")
             /\ Key(due[2]) \in DOMAIN s.v /\ s.v[Key(due[2])] = body[j + 2]
             /\ body[j + 2].v = 0 => j + 2 = s.n
<1> DEFINE r == ReadRun(l, body)
           due == r[j].due
           d == due[2]
<1>0. s.n \in Nat /\ s.n <= Len(body) /\ Len(body) \in Nat
  BY DEF Through
<1>1. \A i \in 1..s.n : body[i] \in Data /\ Kept(body[i]).v \in Nat
  BY <1>0, KeptData
<1>2. Took(l, body, j + 1, s.v) /\ (j + 1) - 1 = j /\ j + 1 \in 1..s.n
  BY <1>0 DEF Through
<1>3. /\ due # <<>> /\ Neat(due, r[j].v) /\ Fits(Head(due).f, body[j + 1])
      /\ r[j + 1].due = Called(Head(due), Kept(body[j + 1])) \o Tail(due)
  BY <1>2 DEF Took, DueAt
<1>4. Len(due) = 2 /\ d \in Slots /\ d.f.k = "counted" /\ r[j + 1].due = <<d>>
  BY <1>1, <1>2, <1>3, OptionalPart
<1>5. body[j + 1] = Mark("TRNs")
  <2>1. Head(due) \in Slots
    <3>1. due \in Seq(Slots)
      BY <1>3 DEF Neat
    <3> QED
      BY <1>4, <3>1, Pair
  <2>2. Proper(Head(due).f)
    BY <2>1, ProperFields DEF Slots
  <2>3. body[j + 1].k = "TRNs"
    BY <1>3, <2>2 DEF Fits, Proper
  <2> QED
    BY <1>1, <1>2, <2>3, KeptData DEF Marks
<1>6. Head(<<d>>) = d /\ <<d>> # <<>> /\ Tail(<<d>>) = <<>>
  OBVIOUS
<1>7. j + 2 <= s.n
  <2>1. ASSUME j + 1 = s.n PROVE FALSE
    <3>1. r[j + 1] = s
      BY <2>1 DEF Through
    <3> HIDE DEF r
    <3>2. s.due = <<d>>
      BY <1>4, <3>1
    <3>3. Head(s.due).f.k = "optional"
      BY <1>6, <3>2 DEF Through
    <3> QED
      BY <1>4, <1>6, <3>2, <3>3
  <2> QED
    BY <1>0, <2>1
<1>8. Took(l, body, j + 2, s.v) /\ (j + 2) - 1 = j + 1 /\ j + 2 \in 1..s.n
  BY <1>0, <1>7 DEF Through
<1>9. DueAt(l, body, j + 2) = d
  BY <1>4, <1>6, <1>8 DEF DueAt
<1>10. /\ Fits(d.f, body[j + 2]) /\ Key(d) \in DOMAIN s.v /\ s.v[Key(d)] = Kept(body[j + 2])
       /\ r[j + 2].due = Called(d, Kept(body[j + 2])) \o Tail(<<d>>)
  <2> HIDE DEF r, d
  <2> QED
    BY <1>4, <1>8, <1>9 DEF Took, r
<1>11. Kept(body[j + 2]) = body[j + 2]
  <2>1. body[j + 2].k = "num"
    BY <1>4, <1>10 DEF Fits
  <2> QED
    BY <1>1, <1>8, <2>1, KeptData
<1>12. ASSUME body[j + 2].v = 0 PROVE j + 2 = s.n
  <2>1. Called(d, Kept(body[j + 2])) = <<>>
    BY <1>4, <1>11, <1>12, CalledSlots
  <2>2. r[j + 2].due = <<>>
    BY <1>6, <1>10, <2>1
  <2>3. ASSUME j + 3 <= s.n PROVE FALSE
    <3>1. Took(l, body, j + 3, s.v) /\ (j + 3) - 1 = j + 2
      BY <1>0, <2>3 DEF Through
    <3> QED
      BY <2>2, <3>1 DEF Took
  <2> QED
    BY <1>0, <1>7, <2>3
<1> QED
  BY <1>4, <1>5, <1>7, <1>10, <1>11, <1>12

\* The writer ends only where the reader has read all that is told.
LEMMA EndedOnlyThere ==
  ASSUME NEW l \in Roots, NEW w, NEW body \in Seq(Data), NEW s, Through(l, body, s),
         NEW j \in 0..s.n, Beside(l, w, body, s.v, j), Ended(WriteRun(w, s.v)[j], s.v)
  PROVE  j = s.n \/ (j = s.n - 2 /\ body[s.n - 1] = Mark("TRNs") /\ body[s.n].v = 0)
<1> DEFINE due == ReadRun(l, body)[j].due
           e == WriteRun(w, s.v)[j].due
<1>0. s.n \in Nat /\ s.n <= Len(body) /\ Len(body) \in Nat
  BY DEF Through
<1>1. SUFFICES ASSUME j # s.n
               PROVE  j = s.n - 2 /\ body[s.n - 1] = Mark("TRNs") /\ body[s.n].v = 0
  OBVIOUS
<1>2. Took(l, body, j + 1, s.v) /\ (j + 1) - 1 = j
  BY <1>0, <1>1 DEF Through
<1>3. due # <<>> /\ due \in Seq(Slots)
  BY <1>2 DEF Took, Neat
<1>4. SameDue(due, e)
  BY DEF Beside
<1>5. e = <<>> \/ (Head(e).f.k = "optional" /\ Absent(Key(e[2]), s.v))
  BY DEF Ended
<1> HIDE DEF due, e
<1>6. Head(due).f.k = "optional" /\ Absent(Key(e[2]), s.v)
  BY <1>3, <1>4, <1>5, DueBeside
<1>7. /\ j + 2 <= s.n /\ Len(due) = 2 /\ body[j + 1] = Mark("TRNs")
      /\ Key(due[2]) \in DOMAIN s.v /\ s.v[Key(due[2])] = body[j + 2]
      /\ body[j + 2].v = 0 => j + 2 = s.n
  BY <1>0, <1>1, <1>6, CountRead DEF due
<1>8. Key(e[2]) = Key(due[2])
  BY <1>3, <1>4, <1>7, DueBeside
<1>9. body[j + 2].v = 0
  BY <1>6, <1>7, <1>8 DEF Absent
<1>10. j = s.n - 2 /\ s.n - 1 = j + 1
  BY <1>0, <1>7, <1>9
<1> QED
  BY <1>7, <1>9, <1>10

\* And there it does end.
LEMMA EndedThere ==
  ASSUME NEW l \in Roots, NEW w, NEW body \in Seq(Data), NEW s, Through(l, body, s),
         NEW j \in 0..s.n, Beside(l, w, body, s.v, j),
         j = s.n \/ (j = s.n - 2 /\ body[s.n - 1] = Mark("TRNs") /\ body[s.n].v = 0)
  PROVE  Ended(WriteRun(w, s.v)[j], s.v)
<1> DEFINE due == ReadRun(l, body)[j].due
           e == WriteRun(w, s.v)[j].due
<1>0. s.n \in Nat /\ s.n <= Len(body) /\ Len(body) \in Nat
  BY DEF Through
<1>1. SameDue(due, e)
  BY DEF Beside
<1>2. CASE j = s.n
  <2>1. due = s.due /\ Neat(s.due, s.v) /\ (s.due = <<>> \/ Head(s.due).f.k = "optional")
    BY <1>2 DEF Through
  <2>2. due \in Seq(Slots)
    BY <2>1 DEF Neat
  <2> HIDE DEF due, e
  <2>3. CASE due = <<>>
    <3>1. e = <<>>
      BY <1>1, <2>2, <2>3, DueBeside
    <3> QED
      BY <3>1 DEF Ended, e
  <2>4. CASE due # <<>> /\ Head(due).f.k = "optional"
    <3>1. Len(due) = 2
      <4>1. Num(2, 0).v \in Nat
        BY DEF Num
      <4> QED
        BY <2>1, <2>4, <4>1, OptionalPart
    <3>2. Key(due[2]) \notin DOMAIN s.v
      BY <2>1, <3>1 DEF Neat
    <3>3. Key(e[2]) = Key(due[2]) /\ Head(e).f.k = "optional"
      BY <1>1, <2>2, <2>4, <3>1, DueBeside
    <3> QED
      BY <3>2, <3>3 DEF Ended, Absent, e
  <2> QED
    BY <2>1, <2>3, <2>4
<1>3. CASE j = s.n - 2 /\ body[s.n - 1] = Mark("TRNs") /\ body[s.n].v = 0
  <2>1. j < s.n /\ j \in Nat /\ s.n - 1 = j + 1 /\ s.n = j + 2
    BY <1>0, <1>3
  <2>2. Took(l, body, j + 1, s.v) /\ (j + 1) - 1 = j
    BY <1>0, <2>1 DEF Through
  <2>3. due # <<>> /\ due \in Seq(Slots) /\ Fits(Head(due).f, Mark("TRNs"))
    <3>1. /\ ReadRun(l, body)[(j + 1) - 1].due # <<>>
          /\ Neat(ReadRun(l, body)[(j + 1) - 1].due, ReadRun(l, body)[(j + 1) - 1].v)
          /\ Fits(DueAt(l, body, j + 1).f, body[j + 1])
      BY <2>2, Zenon DEF Took
    <3>2. due # <<>> /\ due \in Seq(Slots)
      BY <2>2, <3>1 DEF Neat
    <3>3. DueAt(l, body, j + 1) = Head(due)
      BY <2>2 DEF DueAt
    <3>4. body[j + 1] = Mark("TRNs")
      BY <1>3, <2>1
    <3> QED
      BY <3>1, <3>2, <3>3, <3>4
  <2>4. Proper(Head(due).f)
    <3> HIDE DEF due
    <3>1. Head(due) \in Slots
      BY <2>3, HeadTailProperties
    <3> QED
      BY <3>1, ProperFields DEF Slots
  <2>5. Head(due).f.k = "optional"
    BY <2>3, <2>4 DEF Fits, Mark, Num, Proper
  <2>6. Len(due) = 2 /\ s.v[Key(due[2])] = body[j + 2]
    BY <2>1, <2>5, CountRead
  <2> HIDE DEF due, e
  <2>7. Key(e[2]) = Key(due[2]) /\ Head(e).f.k = "optional"
    BY <1>1, <2>3, <2>5, <2>6, DueBeside
  <2> QED
    BY <1>3, <2>1, <2>6, <2>7 DEF Ended, Absent, e
<1> QED
  BY <1>2, <1>3

\* What has been read and is written again is what was told, datum by datum.
THEOREM RoundTrip ==
  ASSUME NEW ty \in DOMAIN ReadLayout \ Other, NEW body \in Seq(Data),
         Decodes(ReadLayout[ty], body)
  PROVE  LET out == Encode(WriteLayout[ty], Decode(ReadLayout[ty], body).v)
             m == Told(ReadLayout[ty], body)
         IN  /\ m \in 0..Len(body) /\ Len(out) = m
             /\ out \in Seq(Data \cup {Panic})
             /\ \A i \in 1..m : Renders(body[i], out[i])
<1> DEFINE l == ReadLayout[ty]
           w == WriteLayout[ty]
           s == Decode(l, body)
           p == WriteRun(w, s.v)
           n == s.n
           m == Told(l, body)
<1>1. l \in Roots
  BY DEF Roots
<1>2. Through(l, body, s)
  BY <1>1, GoneThrough
<1>3. /\ n \in Nat /\ n <= Len(body) /\ Len(body) \in Nat /\ Cardinality(DOMAIN s.v) = n
      /\ \A j \in 1..n : Took(l, body, j, s.v)
  BY <1>2 DEF Through
<1>4. m = IF n > 1 /\ body[n - 1] = Mark("TRNs") /\ body[n].v = 0 THEN n - 2 ELSE n
  BY DEF Told
<1>5. Beside(l, w, body, s.v, 0)
  BY <1>3, BesideStart
<1>6. Encode(w, s.v) = p[n].out
  BY <1>3 DEF Encode
<1>7. \A i \in 1..n : p[i] = PutDatum(p[i - 1], s.v)
  BY <1>3, WriteRuns
<1> HIDE DEF l, w, s, p, n, m
<1>8. m \in 0..n
  BY <1>3, <1>4
<1> DEFINE T == {j \in Nat : j <= m => Beside(l, w, body, s.v, j)}
<1>9. T = Nat
  <2>1. 0 \in T
    BY <1>5
  <2>2. ASSUME NEW j \in T PROVE j + 1 \in T
    <3>1. SUFFICES ASSUME j + 1 <= m PROVE Beside(l, w, body, s.v, j + 1)
      OBVIOUS
    <3>2. j \in Nat /\ j < m /\ Beside(l, w, body, s.v, j)
      BY <1>8, <3>1
    <3>3. ~Ended(p[j], s.v)
      <4>1. ASSUME Ended(p[j], s.v) PROVE FALSE
        <5>1. j \in 0..n /\ j # n
          BY <1>3, <1>8, <3>2
        <5>2. j = n - 2 /\ body[n - 1] = Mark("TRNs") /\ body[n].v = 0
          BY <1>1, <1>2, <3>2, <4>1, <5>1, EndedOnlyThere DEF n, p
        <5> QED
          BY <1>3, <1>4, <3>2, <5>2
      <4> QED
        BY <4>1
    <3>4. j + 1 <= n /\ Took(l, body, j + 1, s.v)
      BY <1>3, <1>8, <3>1, <3>2
    <3> QED
      BY <1>1, <1>3, <3>2, <3>3, <3>4, BesideStep DEF p
  <2> HIDE DEF T
  <2>3. T \in SUBSET Nat
    BY DEF T
  <2> QED
    BY <2>1, <2>2, <2>3, Induction
<1>10. Beside(l, w, body, s.v, m)
  BY <1>3, <1>8, <1>9
<1>11. Ended(p[m], s.v)
  <2>1. m = n \/ (m = n - 2 /\ body[n - 1] = Mark("TRNs") /\ body[n].v = 0)
    BY <1>4
  <2> QED
    BY <1>1, <1>2, <1>8, <1>10, <2>1, EndedThere DEF n, p
<1> DEFINE U == {j \in Nat : m + j <= n => p[m + j] = p[m]}
<1>12. U = Nat
  <2>1. 0 \in U
    BY <1>8
  <2>2. ASSUME NEW j \in U PROVE j + 1 \in U
    <3>1. SUFFICES ASSUME m + (j + 1) <= n PROVE p[m + (j + 1)] = p[m]
      OBVIOUS
    <3>2. j \in Nat /\ m + (j + 1) \in 1..n /\ (m + (j + 1)) - 1 = m + j /\ m + j <= n
      BY <1>3, <1>8, <3>1
    <3>3. p[m + j] = p[m]
      BY <3>2
    <3>4. p[m + (j + 1)] = PutDatum(p[m], s.v)
      BY <1>7, <3>2, <3>3
    <3> QED
      BY <1>11, <3>4 DEF PutDatum
  <2> HIDE DEF U
  <2>3. U \in SUBSET Nat
    BY DEF U
  <2> QED
    BY <2>1, <2>2, <2>3, Induction
<1>13. p[n] = p[m]
  <2>1. n - m \in Nat /\ m + (n - m) = n
    BY <1>3, <1>8
  <2>2. n - m \in U
    BY <1>12, <2>1, Zenon
  <2> QED
    BY <1>3, <2>1, <2>2
<1>14. /\ Len(p[m].out) = m /\ p[m].out \in Seq(Data \cup {Panic})
       /\ \A i \in 1..m : Renders(body[i], p[m].out[i])
  BY <1>10 DEF Beside, p
<1>15. m \in 0..Len(body)
  BY <1>3, <1>8
<1> QED
  BY <1>6, <1>13, <1>14, <1>15 DEF l, w, s, m

-----------------------------------------------------------------------------
(* Variables of a room, which the server writes without what it reads      *)
(* before them.                                                            *)

\* Numbers and texts call no fields.
LEMMA NothingCalled ==
  ASSUME NEW d, NEW t, d.f.k \in {"num", "raw", "checked"}
  PROVE  Called(d, t) = <<>>
<1> DEFINE m == Len(d.f.l)
           g(j) == Slot(d.f.l[((j - 1) % m) + 1], Append(d.at, <<d.f.n, ((j - 1) \div m) + 1>>))
<1>1. Called(d, t) = [j \in 1..(0 * m) |-> g(j)]
  BY DEF Called
<1>2. m \in Int
  OBVIOUS
<1> HIDE DEF m, g
<1>3. 0 * m = 0
  BY <1>2
<1>4. [j \in 1..0 |-> g(j)] = <<>>
  OBVIOUS
<1> QED
  BY <1>1, <1>3, <1>4

\* Heads and tails of short sequences.
LEMMA Tails ==
  \A a, b, c : /\ Head(<<a, b, c>>) = a /\ Tail(<<a, b, c>>) = <<b, c>> /\ <<a, b, c>> # <<>>
              /\ Head(<<a, b>>) = a /\ Tail(<<a, b>>) = <<b>> /\ <<a, b>> # <<>>
              /\ Head(<<a>>) = a /\ Tail(<<a>>) = <<>> /\ <<a>> # <<>>
              /\ Append(<<>>, a) = <<a>> /\ Append(<<a>>, b) = <<a, b>>
<1>1. TAKE a, b, c
<1>2. Head(<<a, b, c>>) = a /\ <<a, b, c>> # <<>>
  OBVIOUS
<1>3. Head(<<a, b>>) = a /\ <<a, b>> # <<>>
  OBVIOUS
<1>4. Head(<<a>>) = a /\ <<a>> # <<>>
  OBVIOUS
<1>5. Tail(<<a, b, c>>) = <<b, c>>
  OBVIOUS
<1>6. Tail(<<a, b>>) = <<b>>
  OBVIOUS
<1>7. Tail(<<a>>) = <<>>
  OBVIOUS
<1>8. Append(<<>>, a) = <<a>>
  OBVIOUS
<1>9. Append(<<a>>, b) = <<a, b>>
  <2> DEFINE p == Append(<<a>>, b)
             q == <<a, b>>
  <2>1. <<a>> \in Seq({a, b}) /\ Len(<<a>>) = 1 /\ <<a>>[1] = a
    OBVIOUS
  <2>2. p \in Seq({a, b}) /\ Len(p) = 2 /\ p[1] = a /\ p[2] = b
    BY <2>1, AppendProperties
  <2>3. q \in Seq({a, b}) /\ Len(q) = 2 /\ q[1] = a /\ q[2] = b
    OBVIOUS
  <2> HIDE DEF p, q
  <2>4. \A i \in 1..Len(p) : p[i] = q[i]
    BY <2>2, <2>3
  <2>5. p = q
    BY <2>2, <2>3, <2>4, SeqEqual
  <2> QED
    BY <2>5 DEF p, q
<1> QED
  BY <1>2, <1>3, <1>4, <1>5, <1>6, <1>7, <1>8, <1>9

\* The reader has read three data of a variable, its key and its value last.
LEMMA VariableRead ==
  ASSUME NEW body \in Seq(Data), Decodes(ReadLayout["SetVariable"], body)
  PROVE  LET v == Decode(ReadLayout["SetVariable"], body).v
         IN  /\ Cardinality(DOMAIN v) = 3 /\ Len(body) \in Nat /\ Len(body) >= 3
             /\ v[Top("key")] = Kept(body[2]) /\ Fits(Raw("key"), body[2])
             /\ v[Top("value")] = Kept(body[3]) /\ Fits(Raw("value"), body[3])
<1> DEFINE l == ReadLayout["SetVariable"]
           s == Decode(l, body)
           r == ReadRun(l, body)
           one == Slot(N("unused", 4), <<>>)
           two == Slot(Raw("key"), <<>>)
           three == Slot(Raw("value"), <<>>)
<1>1. l \in Roots /\ l = <<N("unused", 4), Raw("key"), Raw("value")>>
  BY DEF Roots, ReadLayout
<1> HIDE DEF l
<1>2. Through(l, body, s)
  BY <1>1, GoneThrough DEF l
<1>3. r[0].due = <<one, two, three>>
  <2>1. ReadRun(l, body)[0] = ReadStart(l)
    BY ReadRuns
  <2>2. ReadStart(l).due = [i \in 1..Len(l) |-> Slot(l[i], <<>>)]
    BY DEF ReadStart
  <2>3. Len(l) = 3
    BY <1>1
  <2>4. ReadStart(l).due = [i \in 1..3 |-> Slot(l[i], <<>>)]
    BY <2>2, <2>3
  <2>5. [i \in 1..3 |-> Slot(l[i], <<>>)] = <<one, two, three>>
    <3>1. l[1] = N("unused", 4) /\ l[2] = Raw("key") /\ l[3] = Raw("value")
      BY <1>1
    <3> QED
      BY <3>1
  <2> QED
    BY <2>1, <2>4, <2>5
<1>4. /\ s.n \in Nat /\ s.n <= Len(body) /\ Len(body) \in Nat /\ r[s.n] = s
      /\ s.due = <<>> \/ Head(s.due).f.k = "optional"
      /\ Cardinality(DOMAIN s.v) = s.n
      /\ \A j \in 1..s.n : Took(l, body, j, s.v)
  BY <1>2 DEF Through
<1>5. /\ one.f = N("unused", 4) /\ two.f = Raw("key") /\ three.f = Raw("value")
      /\ Key(two) = Top("key") /\ Key(three) = Top("value")
      /\ one.f.k = "num" /\ two.f.k = "raw" /\ three.f.k = "raw"
  BY DEF Slot, Key, Top, N, Raw, Field
<1> HIDE DEF s, one, two, three
<1>7. ASSUME NEW j \in 1..s.n, Head(r[j - 1].due).f.k \in {"num", "raw"},
             Tail(r[j - 1].due) \in Seq({two, three})
      PROVE  /\ Fits(Head(r[j - 1].due).f, body[j]) /\ r[j].due = Tail(r[j - 1].due)
             /\ s.v[Key(Head(r[j - 1].due))] = Kept(body[j])
  <2>1. /\ Fits(DueAt(l, body, j).f, body[j])
        /\ r[j].due = Called(DueAt(l, body, j), Kept(body[j])) \o Tail(r[j - 1].due)
        /\ s.v[Key(DueAt(l, body, j))] = Kept(body[j])
    BY <1>4, Zenon DEF Took
  <2>2. DueAt(l, body, j) = Head(r[j - 1].due)
    BY DEF DueAt
  <2> HIDE DEF r
  <2>3. <<>> \o Tail(r[j - 1].due) = Tail(r[j - 1].due)
    BY <1>7
  <2>4. Called(DueAt(l, body, j), Kept(body[j])) = <<>>
    BY <1>7, <2>2, NothingCalled
  <2> QED
    BY <1>7, <2>1, <2>2, <2>3, <2>4
<1> HIDE DEF r
<1>8. /\ <<two, three>> \in Seq({two, three}) /\ <<three>> \in Seq({two, three})
      /\ <<>> \in Seq({two, three})
  OBVIOUS
<1>9. /\ Head(<<one, two, three>>) = one /\ Head(<<two, three>>) = two /\ Head(<<three>>) = three
      /\ Tail(<<one, two, three>>) = <<two, three>> /\ Tail(<<two, three>>) = <<three>>
      /\ Tail(<<three>>) = <<>>
      /\ <<one, two, three>> # <<>> /\ <<two, three>> # <<>> /\ <<three>> # <<>>
  BY Tails
<1>10. r[s.n].due # <<>> => Head(r[s.n].due).f.k = "optional"
  BY <1>4
<1>11. s.n >= 1 /\ r[1].due = <<two, three>>
  <2>1. s.n # 0
    BY <1>3, <1>5, <1>9, <1>10
  <2>2. 1 \in 1..s.n /\ r[1 - 1].due = <<one, two, three>>
    BY <1>3, <1>4, <2>1
  <2>3. Head(r[1 - 1].due) = one /\ Tail(r[1 - 1].due) = <<two, three>>
    BY <1>9, <2>2
  <2>4. Head(r[1 - 1].due).f.k \in {"num", "raw"} /\ Tail(r[1 - 1].due) \in Seq({two, three})
    BY <1>5, <1>8, <2>3
  <2>5. /\ Fits(one.f, body[1]) /\ r[1].due = <<two, three>> /\ s.v[Key(one)] = Kept(body[1])
    BY <1>7, <2>2, <2>3, <2>4
  <2> QED
    BY <1>4, <2>1, <2>5
<1>12. /\ s.n >= 2 /\ r[2].due = <<three>>
       /\ Fits(two.f, body[2]) /\ s.v[Key(two)] = Kept(body[2])
  <2>1. s.n # 1
    BY <1>5, <1>9, <1>10, <1>11
  <2>2. 2 \in 1..s.n /\ r[2 - 1].due = <<two, three>>
    BY <1>3, <1>4, <1>11, <2>1
  <2>3. Head(r[2 - 1].due) = two /\ Tail(r[2 - 1].due) = <<three>>
    BY <1>9, <2>2
  <2>4. Head(r[2 - 1].due).f.k \in {"num", "raw"} /\ Tail(r[2 - 1].due) \in Seq({two, three})
    BY <1>5, <1>8, <2>3
  <2>5. /\ Fits(two.f, body[2]) /\ r[2].due = <<three>> /\ s.v[Key(two)] = Kept(body[2])
    BY <1>7, <2>2, <2>3, <2>4
  <2> QED
    BY <1>4, <1>11, <2>1, <2>5
<1>13. /\ s.n >= 3 /\ r[3].due = <<>>
       /\ Fits(three.f, body[3]) /\ s.v[Key(three)] = Kept(body[3])
  <2>1. s.n # 2
    BY <1>5, <1>9, <1>10, <1>12
  <2>2. 3 \in 1..s.n /\ r[3 - 1].due = <<three>>
    BY <1>3, <1>4, <1>12, <2>1
  <2>3. Head(r[3 - 1].due) = three /\ Tail(r[3 - 1].due) = <<>>
    BY <1>9, <2>2
  <2>4. Head(r[3 - 1].due).f.k \in {"num", "raw"} /\ Tail(r[3 - 1].due) \in Seq({two, three})
    BY <1>5, <1>8, <2>3
  <2>5. /\ Fits(three.f, body[3]) /\ r[3].due = <<>> /\ s.v[Key(three)] = Kept(body[3])
    BY <1>7, <2>2, <2>3, <2>4
  <2> QED
    BY <1>4, <1>12, <2>1, <2>5
<1>14. s.n = 3
  <2>1. ASSUME s.n >= 4 PROVE FALSE
    <3>1. Took(l, body, 4, s.v) /\ 4 - 1 = 3
      BY <1>4, <2>1
    <3> QED
      BY <1>13, <3>1 DEF Took, r
  <2> QED
    BY <1>4, <1>13, <2>1
<1> QED
  BY <1>4, <1>5, <1>12, <1>13, <1>14 DEF s, l

\* What is written of a variable is its key and its value.
LEMMA VariableWritten ==
  ASSUME NEW v, Cardinality(DOMAIN v) = 3
  PROVE  Encode(WriteLayout["SetVariable"], v)
           = <<Written(Checked("key"), v[Top("key")]), Written(Checked("value"), v[Top("value")])>>
<1> DEFINE w == WriteLayout["SetVariable"]
           p == WriteRun(w, v)
           one == Slot(Checked("key"), <<>>)
           two == Slot(Checked("value"), <<>>)
           x == Written(Checked("key"), v[Top("key")])
           y == Written(Checked("value"), v[Top("value")])
<1>1. w = <<Checked("key"), Checked("value")>>
  BY DEF WriteLayout
<1>2. /\ p[0] = WriteStart(w)
      /\ \A i \in 1..3 : p[i] = PutDatum(p[i - 1], v)
  BY WriteRuns
<1>3. Encode(w, v) = p[3].out
  BY DEF Encode
<1> HIDE DEF w, p
<1>4. p[0] = [due |-> <<one, two>>, out |-> <<>>]
  <2>1. WriteStart(w) = [due |-> [i \in 1..Len(w) |-> Slot(w[i], <<>>)], out |-> <<>>]
    BY DEF WriteStart
  <2>2. Len(w) = 2 /\ w[1] = Checked("key") /\ w[2] = Checked("value")
    BY <1>1
  <2>3. [i \in 1..2 |-> Slot(w[i], <<>>)] = <<one, two>>
    BY <2>2
  <2> QED
    BY <1>2, <2>1, <2>2, <2>3
<1>5. /\ one.f = Checked("key") /\ two.f = Checked("value")
      /\ one.f.k = "checked" /\ two.f.k = "checked"
      /\ Key(one) = Top("key") /\ Key(two) = Top("value")
  BY DEF Slot, Key, Top, Checked, Field
<1> HIDE DEF one, two
<1>7. p[1] = [due |-> <<two>>, out |-> <<x>>]
  <2>1. p[1] = PutDatum(p[0], v)
    BY <1>2
  <2>3. ~Ended(p[0], v)
    BY Tails, <1>4, <1>5 DEF Ended
  <2>4. Head(p[0].due) = one /\ Tail(p[0].due) = <<two>> /\ p[0].out = <<>>
    BY Tails, <1>4
  <2>5. p[1] = [due |-> Called(one, x) \o <<two>>, out |-> Append(<<>>, x)]
    BY <1>5, <2>1, <2>3, <2>4 DEF PutDatum
  <2>6. <<>> \o <<two>> = <<two>>
    OBVIOUS
  <2> HIDE DEF x
  <2> QED
    BY Tails, NothingCalled, <1>5, <2>5, <2>6
<1>8. p[2] = [due |-> <<>>, out |-> <<x, y>>]
  <2>1. p[2] = PutDatum(p[1], v)
    BY <1>2
  <2>3. ~Ended(p[1], v)
    BY Tails, <1>5, <1>7 DEF Ended
  <2>4. Head(p[1].due) = two /\ Tail(p[1].due) = <<>> /\ p[1].out = <<x>>
    BY Tails, <1>7
  <2>5. p[2] = [due |-> Called(two, y) \o <<>>, out |-> Append(<<x>>, y)]
    BY <1>5, <2>1, <2>3, <2>4 DEF PutDatum
  <2>6. <<>> \o <<>> = <<>>
    OBVIOUS
  <2> HIDE DEF x, y
  <2> QED
    BY Tails, NothingCalled, <1>5, <2>5, <2>6
<1>9. p[3] = p[2]
  <2>1. p[3] = PutDatum(p[2], v)
    BY <1>2
  <2> QED
    BY <1>8, <2>1 DEF PutDatum, Ended
<1> QED
  BY <1>3, <1>8, <1>9 DEF w

\* A variable is written as its key and its value were read.
LEMMA VariableKept ==
  ASSUME NEW body \in Seq(Data), Decodes(ReadLayout["SetVariable"], body)
  PROVE  \E x, y : /\ Encode(WriteLayout["SetVariable"], Decode(ReadLayout["SetVariable"], body).v)
                        = <<x, y>>
                   /\ Len(body) \in Nat /\ Len(body) >= 3
                   /\ Renders(body[2], x) /\ Renders(body[3], y)
<1> DEFINE v == Decode(ReadLayout["SetVariable"], body).v
           x == Written(Checked("key"), v[Top("key")])
           y == Written(Checked("value"), v[Top("value")])
<1>1. /\ Cardinality(DOMAIN v) = 3 /\ Len(body) \in Nat /\ Len(body) >= 3
      /\ v[Top("key")] = Kept(body[2]) /\ Fits(Raw("key"), body[2])
      /\ v[Top("value")] = Kept(body[3]) /\ Fits(Raw("value"), body[3])
  BY VariableRead
<1> HIDE DEF v
<1>2. Encode(WriteLayout["SetVariable"], v) = <<x, y>>
  BY <1>1, VariableWritten
<1>3. ASSUME NEW n PROVE Proper(Raw(n)) /\ Alike(Raw(n), Checked(n))
  <2>1. Proper(Raw(n))
    BY PlainFields DEF Plain
  <2>2. Alike(Raw(n), Checked(n))
    BY DEF Alike, Raw, Checked, Field
  <2> QED
    BY <2>1, <2>2
<1>4. 2 \in 1..Len(body) /\ 3 \in 1..Len(body)
  BY <1>1
<1>5. body[2] \in Data /\ body[3] \in Data
  BY <1>4
<1>6. Renders(body[2], x)
  <2>1. Renders(body[2], Written(Checked("key"), Kept(body[2])))
    BY <1>1, <1>3, <1>5, WrittenRenders
  <2> QED
    BY <1>1, <2>1
<1>7. Renders(body[3], y)
  <2>1. Renders(body[3], Written(Checked("value"), Kept(body[3])))
    BY <1>1, <1>3, <1>5, WrittenRenders
  <2> QED
    BY <1>1, <2>1
<1> HIDE DEF x, y
<1> QED
  BY <1>1, <1>2, <1>6, <1>7 DEF v

\* The limit of players is the one number of its message.
LEMMA LimitRead ==
  ASSUME NEW body \in Seq(Data), Decodes(ReadLayout["SetRoomPlayerLimit"], body)
  PROVE  Decode(ReadLayout["SetRoomPlayerLimit"], body).v[Top("limit")] = body[1]
<1> DEFINE l == ReadLayout["SetRoomPlayerLimit"]
           s == Decode(l, body)
           r == ReadRun(l, body)
           one == Slot(N("limit", 4), <<>>)
<1>1. l \in Roots /\ l = <<N("limit", 4)>>
  BY DEF Roots, ReadLayout
<1> HIDE DEF l
<1>2. Through(l, body, s)
  BY <1>1, GoneThrough DEF l
<1>3. r[0].due = <<one>>
  <2>1. ReadRun(l, body)[0] = ReadStart(l)
    BY ReadRuns
  <2>2. ReadStart(l).due = [i \in 1..Len(l) |-> Slot(l[i], <<>>)]
    BY DEF ReadStart
  <2>3. Len(l) = 1 /\ l[1] = N("limit", 4)
    BY <1>1
  <2>4. ReadStart(l).due = [i \in 1..1 |-> Slot(l[i], <<>>)]
    BY <2>2, <2>3
  <2>5. [i \in 1..1 |-> Slot(l[i], <<>>)] = <<one>>
    BY <2>3
  <2> QED
    BY <2>1, <2>4, <2>5
<1>4. /\ s.n \in Nat /\ s.n <= Len(body) /\ Len(body) \in Nat /\ r[s.n] = s
      /\ s.due = <<>> \/ Head(s.due).f.k = "optional"
      /\ \A j \in 1..s.n : Took(l, body, j, s.v)
  BY <1>2 DEF Through
<1>5. one.f.k = "num" /\ Key(one) = Top("limit") /\ Head(<<one>>) = one /\ <<one>> # <<>>
  BY Tails DEF Slot, Key, Top, N, Field
<1> HIDE DEF s, one
<1>6. s.n # 0
  BY <1>3, <1>4, <1>5
<1>7. 1 \in 1..s.n /\ 1 \in 1..Len(body)
  BY <1>4, <1>6
<1>8. /\ Fits(DueAt(l, body, 1).f, body[1])
      /\ s.v[Key(DueAt(l, body, 1))] = Kept(body[1])
  <2>1. Took(l, body, 1, s.v)
    BY <1>4, <1>7
  <2> QED
    BY <2>1, Zenon DEF Took
<1>9. DueAt(l, body, 1) = one
  <2>1. DueAt(l, body, 1) = Head(r[0].due)
    BY DEF DueAt
  <2> QED
    BY <1>3, <1>5, <2>1
<1>10. body[1] \in Data /\ body[1].k = "num"
  <2>1. body[1] \in Data
    BY <1>7, ElementOfSeq
  <2>2. body[1].k = "num"
    BY <1>5, <1>8, <1>9 DEF Fits
  <2> QED
    BY <2>1, <2>2
<1>11. Kept(body[1]) = body[1]
  BY <1>10, KeptData
<1> QED
  BY <1>5, <1>8, <1>9, <1>11 DEF s, l

-----------------------------------------------------------------------------
(* Messages.                                                               *)

\* Two sequences, one after the other.
LEMMA After ==
  ASSUME NEW S, NEW p \in Seq(S), NEW q \in Seq(S)
  PROVE  /\ p \o q \in Seq(S) /\ Len(p \o q) = Len(p) + Len(q)
         /\ \A i \in 1..Len(p) : (p \o q)[i] = p[i]
         /\ \A i \in 1..Len(q) : (p \o q)[Len(p) + i] = q[i]
<1>1. Len(p) \in Nat /\ Len(q) \in Nat
  OBVIOUS
<1>2. /\ p \o q \in Seq(S) /\ Len(p \o q) = Len(p) + Len(q)
      /\ \A i \in 1..(Len(p) + Len(q)) :
           (p \o q)[i] = IF i <= Len(p) THEN p[i] ELSE q[i - Len(p)]
  BY ConcatProperties
<1>3. \A i \in 1..Len(p) : (p \o q)[i] = p[i]
  BY <1>1, <1>2
<1>4. ASSUME NEW i \in 1..Len(q) PROVE (p \o q)[Len(p) + i] = q[i]
  <2>1. Len(p) + i \in 1..(Len(p) + Len(q)) /\ ~(Len(p) + i <= Len(p)) /\ (Len(p) + i) - Len(p) = i
    BY <1>1
  <2> QED
    BY <1>2, <2>1
<1> QED
  BY <1>2, <1>3, <1>4

\* Two data, one after the other.
LEMMA Joint == \A a, b : <<a>> \o <<b>> = <<a, b>>
<1>1. TAKE a, b
<1> DEFINE p == <<a>> \o <<b>>
           q == <<a, b>>
<1>2. /\ <<a>> \in Seq({a, b}) /\ Len(<<a>>) = 1 /\ <<a>>[1] = a
      /\ <<b>> \in Seq({a, b}) /\ Len(<<b>>) = 1 /\ <<b>>[1] = b
  OBVIOUS
<1>3. p \in Seq({a, b}) /\ Len(p) = 2 /\ p[1] = a /\ p[1 + 1] = b
  BY <1>2, After
<1>4. q \in Seq({a, b}) /\ Len(q) = 2 /\ q[1] = a /\ q[2] = b
  OBVIOUS
<1> HIDE DEF p, q
<1>5. \A i \in 1..Len(p) : p[i] = q[i]
  BY <1>3, <1>4
<1>6. p = q
  BY <1>3, <1>4, <1>5, SeqEqual
<1> QED
  BY <1>6 DEF p, q

\* No datum that was read is a panic.
LEMMA NoPanic == \A t \in Data : Kept(t) # Panic
BY KeptData DEF Data, Marks, Panic, Mark

\* A sequence after one element.
LEMMA AfterOne ==
  ASSUME NEW T, NEW a \in T, NEW t \in Seq(T)
  PROVE  /\ Len(<<a>> \o t) = 1 + Len(t) /\ <<a>> \o t \in Seq(T)
         /\ \A i \in 1..Len(t) : (<<a>> \o t)[1 + i] = t[i]
<1>1. <<a>> \in Seq(T) /\ Len(<<a>>) = 1
  OBVIOUS
<1>2. <<a>> \o t \in Seq(T) /\ Len(<<a>> \o t) = Len(<<a>>) + Len(t)
  BY <1>1, After
<1>3. \A i \in 1..Len(t) : (<<a>> \o t)[Len(<<a>>) + i] = t[i]
  BY <1>1, After
<1> QED
  BY <1>1, <1>2, <1>3

\* A sequence after two elements.
LEMMA AfterTwo ==
  ASSUME NEW T, NEW a \in T, NEW b \in T, NEW t \in Seq(T)
  PROVE  /\ Len(<<a, b>> \o t) = 2 + Len(t)
         /\ (<<a, b>> \o t)[1] = a /\ (<<a, b>> \o t)[2] = b
         /\ \A i \in 1..Len(t) : (<<a, b>> \o t)[2 + i] = t[i]
<1> DEFINE p == <<a, b>>
<1>1. p \in Seq(T) /\ Len(p) = 2 /\ p[1] = a /\ p[2] = b
  OBVIOUS
<1> HIDE DEF p
<1>2. Len(p \o t) = Len(p) + Len(t)
  BY <1>1, After
<1>3. \A i \in 1..Len(p) : (p \o t)[i] = p[i]
  BY <1>1, After
<1>4. \A i \in 1..Len(t) : (p \o t)[Len(p) + i] = t[i]
  <2>1. p \in Seq(T)
    BY <1>1
  <2> QED
    BY <2>1, After
<1>5. 1 \in 1..Len(p) /\ 2 \in 1..Len(p)
  BY <1>1
<1>6. /\ Len(p \o t) = 2 + Len(t) /\ (p \o t)[1] = a /\ (p \o t)[2] = b
      /\ \A i \in 1..Len(t) : (p \o t)[2 + i] = t[i]
  BY <1>1, <1>2, <1>3, <1>4, <1>5
<1> QED
  BY <1>6 DEF p

\* A framed body: type and length, and the body after them.
LEMMA FramedBody ==
  ASSUME NEW ty, NEW S, NEW out \in Seq(S)
  PROVE  LET all == Framed(ty, out)
         IN  /\ Len(all) = 2 + Len(out)
             /\ all[1] = Type(ty) /\ all[2] = Num(4, Size(out))
             /\ \A i \in 1..Len(out) : all[2 + i] = out[i]
<1>1. out \in Seq(S \cup {Type(ty), Num(4, Size(out))})
  OBVIOUS
<1>2. Framed(ty, out) = <<Type(ty), Num(4, Size(out))>> \o out
  BY DEF Framed
<1>3. /\ Type(ty) \in S \cup {Type(ty), Num(4, Size(out))}
      /\ Num(4, Size(out)) \in S \cup {Type(ty), Num(4, Size(out))}
  OBVIOUS
<1> QED
  BY <1>1, <1>2, <1>3, AfterTwo

\* Only the body of a message with its length in front can panic.
LEMMA FramedPanics ==
  ASSUME NEW ty, NEW S, NEW out \in Seq(S)
  PROVE  Panics(Framed(ty, out)) <=> \E i \in 1..Len(out) : out[i] = Panic
<1> DEFINE all == Framed(ty, out)
<1>1. Type(ty) # Panic /\ Num(4, Size(out)) # Panic
  BY DEF Type, Num, Panic, Mark
<1>2. /\ Len(all) = 2 + Len(out) /\ Len(out) \in Nat
      /\ all[1] = Type(ty) /\ all[2] = Num(4, Size(out))
      /\ \A i \in 1..Len(out) : all[2 + i] = out[i]
  BY FramedBody
<1> HIDE DEF all
<1>3. ASSUME NEW i \in 1..Len(all), all[i] = Panic
      PROVE  \E j \in 1..Len(out) : out[j] = Panic
  <2>1. i # 1 /\ i # 2
    BY <1>1, <1>2, <1>3
  <2>2. i - 2 \in 1..Len(out) /\ 2 + (i - 2) = i
    BY <1>2, <2>1
  <2>3. out[i - 2] = Panic
    BY <1>2, <1>3, <2>2
  <2> QED
    BY <2>2, <2>3
<1>4. ASSUME NEW j \in 1..Len(out), out[j] = Panic
      PROVE  \E i \in 1..Len(all) : all[i] = Panic
  <2>1. 2 + j \in 1..Len(all) /\ all[2 + j] = Panic
    BY <1>2, <1>4
  <2> QED
    BY <2>1
<1>5. Panics(all) <=> \E i \in 1..Len(all) : all[i] = Panic
  BY DEF Panics
<1> QED
  BY <1>3, <1>4, <1>5 DEF all

\* The body of a complete message is data.
LEMMA BodyOf ==
  ASSUME NEW buf, Message(buf), Len(buf) > 1
  PROVE  LET body == SubSeq(buf, 3, Len(buf))
         IN  /\ body \in Seq(Data) /\ Len(buf) \in Nat /\ Len(body) = Len(buf) - 2
             /\ \A i \in 1..Len(body) : i + 2 \in 1..Len(buf) /\ body[i] = buf[i + 2]
<1> DEFINE t == Tail(buf)
           body == SubSeq(buf, 3, Len(buf))
           T == Data \cup {Type(buf[1].k)}
<1>1. t \in Seq(Data) /\ buf = <<Type(buf[1].k)>> \o t
  BY DEF Message
<1> HIDE DEF t
<1>2. Len(t) \in Nat
  BY <1>1
<1>3. /\ buf \in Seq(T) /\ Len(buf) = 1 + Len(t)
      /\ \A i \in 1..Len(t) : buf[1 + i] = t[i]
  <2> DEFINE a == Type(buf[1].k)
             c == <<a>> \o t
  <2>1. t \in Seq(T) /\ a \in T
    BY <1>1
  <2> HIDE DEF T, a
  <2>2. c \in Seq(T) /\ Len(c) = 1 + Len(t) /\ \A i \in 1..Len(t) : c[1 + i] = t[i]
    BY <2>1, AfterOne
  <2>3. buf = c
    BY <1>1 DEF a
  <2> HIDE DEF c
  <2> QED
    BY <2>2, <2>3
<1> HIDE DEF T
<1>4. Len(buf) \in Nat /\ Len(buf) >= 2
  BY <1>2, <1>3
<1>5. /\ body \in Seq(T) /\ Len(body) = Len(buf) - 2
      /\ \A i \in 1..Len(body) : body[i] = buf[i + 2]
  <2>1. 3 \in 1..(Len(buf) + 1) /\ Len(buf) \in 2..Len(buf)
    BY <1>4
  <2>2. body = [i \in 1..((Len(buf) - 3) + 1) |-> buf[(3 + i) - 1]]
    OBVIOUS
  <2>3. (Len(buf) - 3) + 1 = Len(buf) - 2 /\ Len(buf) - 2 \in Nat
    BY <1>4
  <2>4. body = [i \in 1..(Len(buf) - 2) |-> buf[(3 + i) - 1]]
    BY <2>2, <2>3
  <2> HIDE DEF body
  <2>5. Len(body) = Len(buf) - 2 /\ DOMAIN body = 1..(Len(buf) - 2)
    BY <2>3, <2>4
  <2>6. ASSUME NEW i \in 1..(Len(buf) - 2)
        PROVE  body[i] = buf[i + 2] /\ body[i] \in T
    <3>1. (3 + i) - 1 = i + 2 /\ i + 2 \in 1..Len(buf)
      BY <1>4
    <3>2. body[i] = buf[i + 2]
      BY <2>4, <3>1
    <3>3. buf[i + 2] \in T
      BY <1>3, <3>1, ElementOfSeq
    <3> QED
      BY <3>2, <3>3
  <2>7. body \in Seq(T)
    <3>1. body \in [1..(Len(buf) - 2) -> T]
      BY <2>4, <2>5, <2>6
    <3> QED
      BY <2>3, <3>1
  <2> QED
    BY <2>5, <2>6, <2>7
<1> HIDE DEF body
<1>6. ASSUME NEW i \in 1..Len(body) PROVE i + 2 \in 1..Len(buf) /\ body[i] \in Data
  <2>1. i + 2 \in 1..Len(buf) /\ i + 1 \in 1..Len(t) /\ 1 + (i + 1) = i + 2
    BY <1>3, <1>4, <1>5
  <2>2. body[i] = t[i + 1]
    BY <1>3, <1>5, <2>1
  <2>3. t[i + 1] \in Data
    BY <1>1, <2>1, ElementOfSeq
  <2> QED
    BY <2>1, <2>2, <2>3
<1>7. body \in Seq(Data)
  <2>1. body = [i \in 1..Len(body) |-> body[i]] /\ Len(body) \in Nat
    BY <1>5
  <2>2. body \in [1..Len(body) -> Data]
    BY <1>6, <2>1
  <2> QED
    BY <2>1, <2>2
<1> QED
  BY <1>4, <1>5, <1>6, <1>7 DEF body

\* What read_map_msg makes of a message: an action of the message's type.
LEMMA TypeRead ==
  ASSUME NEW buf, Message(buf), ReadMapMsg(buf) # Bad
  PROVE  LET ty == buf[1].k
             a == Head(ReadMapMsg(buf))
             body == SubSeq(buf, 3, Len(buf))
         IN  /\ a.ty = ty
             /\ \/ ty \in Bare
                \/ /\ ty = "SetMapName" /\ buf = <<Type(ty), buf[2]>> /\ Kept(buf[2]) = buf[2]
                   /\ buf[2] \in Data /\ a.v = One("name", buf[2])
                \/ /\ ty \in DOMAIN ReadLayout /\ Len(buf) > 1
                   /\ Decodes(ReadLayout[ty], body) /\ a.v = Decode(ReadLayout[ty], body).v
<1> DEFINE ty == buf[1].k
           a == Head(ReadMapMsg(buf))
           body == SubSeq(buf, 3, Len(buf))
           s == Decode(ReadLayout[ty], body)
<1>0. /\ Bare \cap DOMAIN ReadLayout = {}
      /\ "SetMapName" \notin Bare /\ "SetMapName" \notin DOMAIN ReadLayout
  BY DEF ReadLayout, Bare
<1>1. \A b : Head(Good(b)) = b
  BY Tails DEF Good
<1>2. \A t, v : Act(t, v).ty = t /\ Act(t, v).v = v
  BY DEF Act
<1>3. CASE ty \in Bare
  <2>1. ReadMapMsg(buf) = Good(Act(ty, <<>>))
    BY <1>0, <1>3, Zenon DEF ReadMapMsg
  <2> QED
    BY <1>1, <1>2, <1>3, <2>1
<1>4. CASE ty = "SetMapName"
  <2>1. ReadMapMsg(buf) = ReadMapName(buf[2])
    BY <1>0, <1>4, Zenon DEF ReadMapMsg
  <2>2. /\ buf[2].k = "txt" /\ ~(buf[2].v > 0)
        /\ ReadMapMsg(buf) = Good(Act("SetMapName", One("name", buf[2])))
    BY <2>1 DEF ReadMapName
  <2>3. buf = <<Type(ty), buf[2]>> /\ buf[2] \in Data
    <3> DEFINE t == Tail(buf)
    <3>1. t \in Seq(Data) /\ buf = <<Type(ty)>> \o t /\ Len(buf) = 2
      BY <1>4 DEF Message
    <3> HIDE DEF t
    <3>3. /\ Len(<<Type(ty)>> \o t) = 1 + Len(t) /\ Len(t) \in Nat
          /\ \A i \in 1..Len(t) : (<<Type(ty)>> \o t)[1 + i] = t[i]
      <4> DEFINE a1 == Type(ty)
                 T == Data \cup {a1}
      <4>1. t \in Seq(T) /\ a1 \in T /\ Len(t) \in Nat
        BY <3>1
      <4> HIDE DEF T, a1
      <4>2. Len(<<a1>> \o t) = 1 + Len(t) /\ \A i \in 1..Len(t) : (<<a1>> \o t)[1 + i] = t[i]
        BY <4>1, AfterOne
      <4> QED
        BY <4>1, <4>2 DEF a1
    <3>4. Len(t) = 1 /\ buf[2] = t[1]
      <4> HIDE DEF ty, a, body, s
      <4>1. Len(t) = 1
        BY <3>1, <3>3
      <4>2. 1 \in 1..Len(t) /\ 1 + 1 = 2
        BY <4>1
      <4> QED
        BY <3>1, <3>3, <4>1, <4>2
    <3>5. t[1] \in Data /\ t = <<t[1]>>
      BY <3>1, <3>4
    <3>6. <<Type(ty)>> \o <<t[1]>> = <<Type(ty), t[1]>>
      BY Joint
    <3> QED
      BY <3>1, <3>4, <3>5, <3>6
  <2>4. Kept(buf[2]) = buf[2]
    <3>1. buf[2] = [k |-> "txt", w |-> buf[2].w, v |-> buf[2].v] /\ buf[2].w \in Nat /\ buf[2].v = 0
      BY <2>2, <2>3 DEF Data, Marks
    <3> QED
      BY <2>2, <3>1 DEF Kept, Lossy, Txt, TextLen
  <2> QED
    BY <1>1, <1>2, <1>4, <2>2, <2>3, <2>4
<1>5. CASE ty \in DOMAIN ReadLayout
  <2>1. ty \notin Bare /\ ty # "SetMapName"
    BY <1>5 DEF ReadLayout, Bare
  <2>2. ReadMapMsg(buf) = ReadFramed(ty, buf)
    BY <1>5, <2>1 DEF ReadMapMsg
  <2>3. Decodes(ReadLayout[ty], body) /\ ReadMapMsg(buf) = Good(Act(ty, s.v))
    BY <2>2 DEF ReadFramed
  <2>4. Len(buf) > 1
    BY <1>5 DEF Message
  <2> HIDE DEF s
  <2>5. a.ty = ty /\ a.v = s.v
    BY <1>1, <1>2, <2>3
  <2> QED
    BY <1>5, <2>3, <2>4, <2>5 DEF s
<1>6. ty \in Bare \/ ty = "SetMapName" \/ ty \in DOMAIN ReadLayout
  BY DEF ReadMapMsg
<1> HIDE DEF ty, a, body, s
<1> QED
  BY <1>3, <1>4, <1>5, <1>6 DEF ty, a, body, s

\* What is written of a message that has been read (write_action after
\* read_map_msg) is the message as others should get it, or the writer panics at
\* a text that has outgrown the bound.
THEOREM MessageFaithful ==
  ASSUME NEW buf, Message(buf), ReadMapMsg(buf) # Bad
  PROVE  LET a == Head(ReadMapMsg(buf))
             w == WriteAction(a)
         IN  IF Panics(w) THEN \E i \in 1..Len(buf) : Swollen(buf[i]) ELSE w = Clean(buf)
<1> DEFINE ty == buf[1].k
           a == Head(ReadMapMsg(buf))
           w == WriteAction(a)
           body == SubSeq(buf, 3, Len(buf))
           l == ReadLayout[ty]
           Goal == IF Panics(w) THEN \E i \in 1..Len(buf) : Swollen(buf[i])
                   ELSE w = Clean(buf)
<1>0. /\ Bare \cap DOMAIN ReadLayout = {} /\ Other \subseteq DOMAIN ReadLayout
      /\ "SetMapName" \notin Bare /\ "SetMapName" \notin DOMAIN ReadLayout
      /\ "SetRoomPlayerLimit" \notin Bare /\ "SetMapName" # "SetRoomPlayerLimit"
  BY DEF ReadLayout, Bare, Other
<1>1. a.ty = ty
  BY TypeRead
<1>2. CASE ty \in Bare
  <2>1. w = <<>>
    <3> HIDE DEF a, ty
    <3>1. a.ty \in Bare /\ a.ty # "SetMapName" /\ a.ty # "SetRoomPlayerLimit"
      BY <1>0, <1>1, <1>2
    <3> QED
      BY <3>1 DEF WriteAction
  <2>2. ~Panics(<<>>)
    BY DEF Panics
  <2>3. Clean(buf) = <<>>
    BY <1>0, <1>2 DEF Clean
  <2> QED
    BY <2>1, <2>2, <2>3
<1>3. CASE ty = "SetMapName"
  <2> DEFINE t == buf[2]
  <2>1. buf = <<Type(ty), t>> /\ Kept(t) = t /\ t \in Data /\ a.v = One("name", t)
    BY <1>0, <1>3, TypeRead
  <2>2. w = <<Type(ty), a.v[Top("name")]>>
    <3> HIDE DEF a, ty
    <3>1. a.ty \notin Bare /\ a.ty = ty /\ a.ty = "SetMapName" /\ a.ty # "SetRoomPlayerLimit"
      BY <1>0, <1>1, <1>3
    <3> QED
      BY <3>1 DEF WriteAction
  <2>3. a.v[Top("name")] = t
    BY <2>1 DEF One
  <2> HIDE DEF t, w, a
  <2>4. w = buf
    BY <2>1, <2>2, <2>3
  <2>5. Len(buf) = 2 /\ buf[1] = Type(ty) /\ buf[2] = t
    BY <2>1
  <2>6. ~Panics(w)
    <3>1. Type(ty) # Panic
      BY DEF Type, Panic, Mark
    <3>2. t # Panic
      BY <2>1, NoPanic
    <3> QED
      BY <2>4, <2>5, <3>1, <3>2 DEF Panics
  <2>7. Clean(buf) = w
    <3>1. Kept(Type(ty)) = Type(ty)
      BY <1>3 DEF Kept, Type
    <3>2. Clean(buf) = [i \in 1..2 |-> Kept(buf[i])]
      <4>1. Clean(buf) = [i \in 1..Len(buf) |-> Kept(buf[i])]
        BY <1>0, <1>3 DEF Clean
      <4> QED
        BY <2>5, <4>1
    <3>3. [i \in 1..2 |-> Kept(buf[i])] = <<Type(ty), t>>
      <4>1. Kept(buf[1]) = Type(ty) /\ Kept(buf[2]) = t
        BY <2>1, <2>5, <3>1
      <4> HIDE DEF ty
      <4> QED
        BY <4>1
    <3> QED
      BY <2>1, <2>4, <3>2, <3>3
  <2> QED
    BY <2>6, <2>7 DEF w, a
<1>4. ASSUME ty \in DOMAIN ReadLayout PROVE Goal
  <2>1. Len(buf) > 1 /\ Decodes(l, body) /\ a.v = Decode(l, body).v
    BY <1>0, <1>4, TypeRead
  <2>2. /\ body \in Seq(Data) /\ Len(buf) \in Nat /\ Len(body) = Len(buf) - 2
        /\ \A i \in 1..Len(body) : i + 2 \in 1..Len(buf) /\ body[i] = buf[i + 2]
    BY <2>1, BodyOf
  <2>3. ASSUME NEW i \in 1..Len(body), Renders(body[i], Panic)
        PROVE  \E j \in 1..Len(buf) : Swollen(buf[j])
    <3>1. body[i] \in Data
      BY <2>2, <2>3, ElementOfSeq
    <3>2. Swollen(body[i])
      BY <2>3, <3>1, NoPanic DEF Renders
    <3> QED
      BY <2>2, <2>3, <3>2
  <2> DEFINE out == Encode(WriteLayout[ty], a.v)
  <2>7. Clean(buf) = Framed(ty, CleanBody(ty, body))
    <3>1. ty \notin Bare
      BY <1>0, <1>4
    <3> QED
      BY <1>4, <3>1 DEF Clean
  <2>4. CASE ty \notin Other
    <3> DEFINE m == Told(l, body)
    <3>1. w = Framed(ty, out)
      BY <1>0, <1>1, <1>4, <2>4 DEF WriteAction, Other
    <3>2. /\ m \in 0..Len(body) /\ Len(out) = m /\ out \in Seq(Data \cup {Panic})
          /\ \A i \in 1..m : Renders(body[i], out[i])
      BY <1>4, <2>1, <2>2, <2>4, RoundTrip
    <3>3. Clean(buf) = Framed(ty, [i \in 1..m |-> Kept(body[i])])
      <4>1. CleanBody(ty, body) = [i \in 1..m |-> Kept(body[i])]
        <5>1. ty # "SetVariable" /\ ty # "SetRoomPlayerLimit"
          BY <2>4 DEF Other
        <5> HIDE DEF ty, body
        <5> QED
          BY <5>1 DEF CleanBody
      <4> QED
        BY <2>7, <4>1
    <3> HIDE DEF out, m, w, a, body, ty, Goal
    <3>4. CASE \E i \in 1..m : out[i] = Panic
      <4>1. PICK i \in 1..m : out[i] = Panic
        BY <3>4
      <4>2. \E j \in 1..Len(buf) : Swollen(buf[j])
        BY <2>2, <2>3, <3>2, <4>1
      <4>3. Panics(w)
        <5>1. Panics(Framed(ty, out)) <=> \E j \in 1..Len(out) : out[j] = Panic
          BY <3>2, FramedPanics
        <5> QED
          BY <3>1, <3>2, <4>1, <5>1
      <4> QED
        BY <4>2, <4>3 DEF Goal
    <3>5. CASE \A i \in 1..m : out[i] # Panic
      <4>1. ~Panics(w)
        <5>1. Panics(Framed(ty, out)) <=> \E i \in 1..Len(out) : out[i] = Panic
          BY <3>2, FramedPanics
        <5> QED
          BY <3>1, <3>2, <3>5, <5>1
      <4>2. \A i \in 1..m : out[i] = Kept(body[i])
        BY <3>2, <3>5 DEF Renders
      <4>3. out = [i \in 1..m |-> out[i]]
        BY <3>2
      <4>4. out = [i \in 1..m |-> Kept(body[i])]
        BY <4>2, <4>3
      <4>5. w = Clean(buf)
        BY <3>1, <3>3, <4>4
      <4> QED
        BY <4>1, <4>5 DEF Goal
    <3> QED
      BY <3>4, <3>5
  <2>5. CASE ty = "SetRoomPlayerLimit"
    <3> DEFINE x == Num(2, a.v[Top("limit")].v % 65536)
    <3>1. w = Framed(ty, <<x>>)
      BY <1>0, <1>1, <1>4, <2>5 DEF WriteAction
    <3>2. <<x>> \in Seq({x}) /\ Len(<<x>>) = 1 /\ <<x>>[1] = x
      OBVIOUS
    <3>3. x # Panic
      BY DEF Num, Panic, Mark
    <3>4. Clean(buf) = Framed(ty, <<x>>)
      <4>1. CleanBody(ty, body) = <<Num(2, body[1].v % 65536)>>
        <5>1. ty = "SetRoomPlayerLimit" /\ ty # "SetVariable"
          BY <2>5
        <5> HIDE DEF ty, body
        <5> QED
          BY <5>1 DEF CleanBody
      <4>2. Decodes(ReadLayout["SetRoomPlayerLimit"], body)
        BY <2>1, <2>5
      <4>3. a.v[Top("limit")] = body[1]
        BY <2>1, <2>2, <2>5, <4>2, LimitRead
      <4> HIDE DEF body, a, ty
      <4> QED
        BY <2>7, <4>1, <4>3
    <3> HIDE DEF x, w, a, ty
    <3>5. ~Panics(w)
      <4>1. Panics(Framed(ty, <<x>>)) <=> \E i \in 1..Len(<<x>>) : <<x>>[i] = Panic
        BY <3>2, FramedPanics
      <4>2. \A i \in 1..Len(<<x>>) : <<x>>[i] = x
        BY <3>2
      <4> QED
        BY <3>1, <3>3, <4>1, <4>2
    <3> QED
      BY <3>1, <3>4, <3>5
  <2>6. CASE ty = "SetVariable"
    <3>1. w = Framed(ty, out)
      BY <1>0, <1>1, <1>4, <2>6 DEF WriteAction
    <3>2. Decodes(ReadLayout["SetVariable"], body)
      BY <2>1, <2>6
    <3>3. PICK x, y : /\ Encode(WriteLayout["SetVariable"], Decode(ReadLayout["SetVariable"], body).v)
                            = <<x, y>>
                      /\ Len(body) \in Nat /\ Len(body) >= 3
                      /\ Renders(body[2], x) /\ Renders(body[3], y)
      BY <2>2, <3>2, VariableKept
    <3>4. out = <<x, y>>
      BY <2>1, <2>6, <3>3
    <3>5. Clean(buf) = Framed(ty, <<Kept(body[2]), Kept(body[3])>>)
      <4>1. CleanBody(ty, body) = <<Kept(body[2]), Kept(body[3])>>
        <5>1. ty = "SetVariable" /\ ty # "SetRoomPlayerLimit"
          BY <2>6
        <5> HIDE DEF ty, body
        <5> QED
          BY <5>1 DEF CleanBody
      <4> QED
        BY <2>7, <4>1
    <3> HIDE DEF out, w, a, ty, body, Goal
    <3>6. ASSUME Panics(w) PROVE \E i \in 1..Len(buf) : Swollen(buf[i])
      <4>1. <<x, y>> \in Seq({x, y}) /\ Len(<<x, y>>) = 2 /\ <<x, y>>[1] = x /\ <<x, y>>[2] = y
        OBVIOUS
      <4>2. x = Panic \/ y = Panic
        <5>1. Panics(Framed(ty, <<x, y>>)) <=> \E i \in 1..Len(<<x, y>>) : <<x, y>>[i] = Panic
          BY <4>1, FramedPanics
        <5>2. PICK i \in 1..2 : <<x, y>>[i] = Panic
          BY <3>1, <3>4, <3>6, <4>1, <5>1
        <5> QED
          BY <4>1, <5>2
      <4>3. 2 \in 1..Len(body) /\ 3 \in 1..Len(body)
        BY <3>3
      <4> QED
        BY <2>3, <3>3, <4>2, <4>3
    <3>7. ASSUME ~Panics(w) PROVE w = Clean(buf)
      <4>1. <<x, y>> \in Seq({x, y}) /\ Len(<<x, y>>) = 2 /\ <<x, y>>[1] = x /\ <<x, y>>[2] = y
        OBVIOUS
      <4>2. x # Panic /\ y # Panic
        <5>1. Panics(Framed(ty, <<x, y>>)) <=> \E i \in 1..Len(<<x, y>>) : <<x, y>>[i] = Panic
          BY <4>1, FramedPanics
        <5>2. \A i \in 1..2 : <<x, y>>[i] # Panic
          BY <3>1, <3>4, <3>7, <4>1, <5>1
        <5> QED
          BY <4>1, <5>2
      <4>3. x = Kept(body[2]) /\ y = Kept(body[3])
        BY <3>3, <4>2 DEF Renders
      <4> QED
        BY <3>1, <3>4, <3>5, <4>3
    <3> QED
      BY <3>6, <3>7 DEF Goal
  <2> QED
    BY <2>4, <2>5, <2>6 DEF Other
<1>5. ty \in Bare \/ ty = "SetMapName" \/ ty \in DOMAIN ReadLayout
  BY TypeRead
<1> QED
  BY <1>2, <1>3, <1>4, <1>5

=============================================================================
