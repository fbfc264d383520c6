--------------------------- MODULE ExampleProofs ----------------------------
(***************************************************************************)
(* Proofs about EngineExample for every table, every data file size and any *)
(* number of kills: IInv is inductive, and Read and Range follow from it.   *)
(***************************************************************************)
EXTENDS EngineExample, Induction

\* What the theorems are about: one process has the engine at a time, and an
\* append fails only before it has written anything.
Settings ==
  /\ KeysAssumption /\ SizesAssumption /\ HashAssumption /\ NullAssumption
  /\ ShortWrites = FALSE /\ Overlap = FALSE

-----------------------------------------------------------------------------
(* Probes.                                                                  *)

\* The first place on the path of k that is in S.
FirstPlace(S, k) ==
  LET places == {j \in Doors : Probe(k, j) \in S}
  IN  IF places = {} THEN -1 ELSE Probe(k, Min(places))

\* Where the probes of k may stop.
Stops(k) == {i \in Doors : ItemTryPlace(i, k)}

LEMMA ProbeInTable ==
  ASSUME Settings, NEW k \in Key, NEW j \in Doors
  PROVE  Probe(k, j) \in Doors
<1>1. kMaxDoorCnt \in Nat \ {0} /\ StrHash[k] \in Nat /\ j \in Nat
  BY DEF Settings, HashAssumption, Doors
<1>2. (StrHash[k] + j) % kMaxDoorCnt \in 0 .. kMaxDoorCnt - 1
  BY <1>1
<1> QED BY <1>2 DEF Probe, Doors

LEMMA IndexIsFirst ==
  ASSUME Settings, NEW k \in Key
  PROVE  CalcIndex(k) = FirstPlace(Stops(k), k) /\ CalcIndex(k)' = FirstPlace(Stops(k)', k)
<1>1. {j \in 0 .. kMaxDoorCnt - 1 : ItemTryPlace(Probe(k, j), k)}
        = {j \in Doors : Probe(k, j) \in Stops(k)}
  BY ProbeInTable DEF Stops, Doors
<1>2. {j \in 0 .. kMaxDoorCnt - 1 : ItemTryPlace(Probe(k, j), k)'}
        = {j \in Doors : Probe(k, j) \in Stops(k)'}
  BY ProbeInTable DEF Stops, Doors
<1>3. CalcIndex(k) = FirstPlace(Stops(k), k)
  BY <1>1 DEF CalcIndex, FirstPlace
<1>4. CalcIndex(k)' = FirstPlace(Stops(k)', k)
  BY <1>2 DEF CalcIndex, FirstPlace, Probe
<1> QED BY <1>3, <1>4

LEMMA FirstIs ==
  ASSUME Settings, NEW k \in Key, NEW S \in SUBSET Doors
  PROVE  \/ FirstPlace(S, k) = -1 /\ \A j \in Doors : Probe(k, j) \notin S
         \/ \E j \in Doors : /\ FirstPlace(S, k) = Probe(k, j)
                             /\ Probe(k, j) \in S
                             /\ \A m \in Doors : Probe(k, m) \in S => j <= m
<1> DEFINE places == {j \in Doors : Probe(k, j) \in S}
<1>1. CASE places = {}
  BY <1>1 DEF FirstPlace
<1>2. CASE places # {}
  <2>1. places \in SUBSET Nat
    BY DEF Doors
  <2>2. \E j \in places : \A m \in places : j <= m
    <3> HIDE DEF places
    <3> QED BY <2>1, <1>2, LeastElement
  <2>3. Min(places) \in places /\ \A m \in places : Min(places) <= m
    <3> HIDE DEF places
    <3> QED BY <2>2 DEF Min
  <2>4. FirstPlace(S, k) = Probe(k, Min(places))
    BY <1>2 DEF FirstPlace
  <2> QED BY <2>3, <2>4
<1> QED BY <1>1, <1>2

\* The search stops where it may, or nowhere.
LEMMA IndexStops ==
  ASSUME Settings, NEW k \in Key
  PROVE  /\ CalcIndex(k) \in Doors \/ CalcIndex(k) = -1
         /\ CalcIndex(k) \in Doors => ItemTryPlace(CalcIndex(k), k)
         /\ ~ (CalcIndex(k) < 0) => CalcIndex(k) \in Doors
<1>1. CalcIndex(k) = -1 \/ CalcIndex(k) \in Stops(k)
  <2>1. Stops(k) \in SUBSET Doors
    BY DEF Stops
  <2> QED BY <2>1, IndexIsFirst, FirstIs
<1>2. Stops(k) \subseteq Doors /\ -1 \notin Doors
  BY DEF Stops, Doors
<1> QED BY <1>1, <1>2 DEF Stops

\* When places are taken by others, but not the one that the search found, it
\* still finds it.
LEMMA IndexKept ==
  ASSUME Settings, NEW k \in Key, NEW i \in Doors, CalcIndex(k) = i,
         \A q \in Doors : ItemTryPlace(q, k)' => ItemTryPlace(q, k),
         ItemTryPlace(i, k)'
  PROVE  CalcIndex(k)' = i
<1> DEFINE S == Stops(k)
           T == Stops(k)'
<1>0. -1 \notin Doors /\ Doors \subseteq Int
  BY DEF Doors
<1>1. S \in SUBSET Doors /\ T \in SUBSET Doors /\ T \subseteq S /\ i \in T
  BY DEF Stops
<1>3. i = FirstPlace(S, k) /\ CalcIndex(k)' = FirstPlace(T, k)
  BY IndexIsFirst
<1> HIDE DEF S, T
<1>4. PICK j \in Doors : /\ i = Probe(k, j) /\ Probe(k, j) \in S
                         /\ \A m \in Doors : Probe(k, m) \in S => j <= m
  BY <1>0, <1>1, <1>3, FirstIs
<1>5. PICK l \in Doors : /\ FirstPlace(T, k) = Probe(k, l) /\ Probe(k, l) \in T
                         /\ \A m \in Doors : Probe(k, m) \in T => l <= m
  BY <1>1, <1>4, FirstIs
<1>6. j <= l /\ l <= j /\ j \in Int /\ l \in Int
  <2>1. Probe(k, l) \in S /\ Probe(k, j) \in T
    BY <1>1, <1>4, <1>5
  <2> QED BY <2>1, <1>4, <1>5, <1>0
<1>7. j = l
  BY <1>6
<1> QED BY <1>3, <1>4, <1>5, <1>7

-----------------------------------------------------------------------------
(* Each part of the invariant.                                              *)

Steps(p) ==
  \/ OpenPlate(p) \/ FormatPlate(p) \/ OpenStore(p) \/ LockDb(p) \/ Close(p)
  \/ Fault(p) \/ Write(p) \/ WriteStep(p) \/ Kill(p)

LEMMA NowhereType ==
  /\ Nowhere \in Location
  /\ NoCall \in [key : Key \cup {null}, value : Value \cup {null},
                 location : Location, left : Seq(Cell)]
  BY DEF Nowhere, Location, NoCall

\* An item, an item with one thing changed, a new one.
LEMMA ItemType ==
  ASSUME Settings
  PROVE  /\ Zeroed \in Item
         /\ \A r \in Item, j \in 1 .. kMaxKeyLen, b \in Byte : [r EXCEPT !.key[j] = b] \in Item
         /\ \A r \in Item, n \in 0 .. kMaxKeyLen : [r EXCEPT !.key_size = n] \in Item
         /\ \A r \in Item : [r EXCEPT !.in_use = TRUE] \in Item
         /\ \A r \in Item, l \in Location : [r EXCEPT !.location = l] \in Item
<1>1. kMaxKeyLen \in Nat
  BY DEF Settings, KeysAssumption
<1>2. Zeroed \in Item
  BY <1>1, NowhereType DEF Zeroed, Item
<1>3. ASSUME NEW r \in Item, NEW j \in 1 .. kMaxKeyLen, NEW b \in Byte
      PROVE  [r EXCEPT !.key[j] = b] \in Item
  <2>1. [r.key EXCEPT ![j] = b] \in [1 .. kMaxKeyLen -> Byte \cup {null}]
    BY <1>3 DEF Item
  <2> QED BY <2>1 DEF Item
<1>4. \A r \in Item, n \in 0 .. kMaxKeyLen : [r EXCEPT !.key_size = n] \in Item
  BY DEF Item
<1>5. \A r \in Item : [r EXCEPT !.in_use = TRUE] \in Item
  BY DEF Item
<1>6. \A r \in Item, l \in Location : [r EXCEPT !.location = l] \in Item
  BY DEF Item
<1> QED BY <1>2, <1>3, <1>4, <1>5, <1>6

LEMMA KeyType ==
  ASSUME Settings, NEW k \in Key
  PROVE  /\ k \in Seq(Byte) /\ Len(k) \in Nat /\ Len(k) \in 0 .. kMaxKeyLen /\ Len(k) # 0
         /\ \A j \in 1 .. Len(k) : j \in 1 .. kMaxKeyLen /\ k[j] \in Byte
<1>1. kMaxKeyLen \in Nat /\ k \in Seq(Byte) /\ Len(k) \in 1 .. kMaxKeyLen
  BY DEF Settings, KeysAssumption
<1> QED BY <1>1

\* A location on the way to another one.
LEMMA WordType ==
  ASSUME NEW l \in Location, NEW to \in Location
  PROVE  /\ NextWord(l, to) \in Location
         /\ NextWord(l, to) = to \/ NextWord(l, to).len = l.len
BY DEF NextWord, Location

LEMMA CellsType ==
  ASSUME Settings, NEW v \in Value
  PROVE  /\ Size[v] \in Nat /\ Size[v] >= 1 /\ Cells(v) \in Seq(Cell) /\ Len(Cells(v)) = Size[v]
         /\ \A i \in 1 .. Size[v] : Cells(v)[i] = <<v, i>>
<1>1. Size[v] \in Nat /\ Size[v] >= 1
  BY DEF Settings, SizesAssumption
<1> QED BY <1>1 DEF Cells, Cell

\* The data file that a Write appends to.
LEMMA LastFile ==
  ASSUME Settings, IInv, NEW p \in Proc, pc[p] \in {"store", "open"} \cup Writing
  PROVE  /\ next_location[p].file_no = Last /\ Last + 1 \in 1 .. Len(files) /\ Len(files) \in Nat
         /\ next_location[p] \in Location
         /\ files[Last + 1] \in Seq(Cell) /\ Len(files[Last + 1]) \in Nat
         /\ next_location[p].offset \in Nat
<1>1. files # <<>> /\ next_location[p].file_no = Last
  BY DEF IInv, AppendInv
<1>2. files \in Seq(Seq(Cell)) /\ next_location[p] \in Location
  BY DEF IInv, TypeOK
<1>3. Len(files) \in Nat /\ Len(files) # 0
  BY <1>1, <1>2
<1>4. Last + 1 \in 1 .. Len(files)
  BY <1>3 DEF Last
<1>5. files[Last + 1] \in Seq(Cell)
  BY <1>2, <1>4
<1> QED BY <1>1, <1>2, <1>3, <1>4, <1>5 DEF Location

LEMMA CallType ==
  ASSUME Settings, IInv, NEW p \in Proc, pc[p] \in Writing
  PROVE  /\ call[p].key \in Key /\ call[p].value \in Value /\ call[p].left \in Seq(Cell)
         /\ call[p].location \in Location
         /\ Size[call[p].value] \in Nat /\ Size[call[p].value] >= 1
BY CellsType DEF IInv, AppendInv, TypeOK

LEMMA TypeStep ==
  ASSUME Settings, IInv, NEW p \in Proc, Steps(p)
  PROVE  TypeOK'
<1> USE DEF disk, Goto, Gone, Return, Writing, Placing
<1>0. TypeOK
  BY DEF IInv
<1>1. CASE OpenPlate(p)
  BY <1>0, <1>1 DEF TypeOK, OpenPlate
<1>2. CASE FormatPlate(p)
  <2>1. items' \in [Doors -> Item]
    BY <1>0, <1>2, ItemType DEF TypeOK, FormatPlate
  <2> QED BY <2>1, <1>0, <1>2 DEF TypeOK, FormatPlate
<1>3. CASE OpenStore(p)
  <2> DEFINE last == IF files = <<>> THEN 0 ELSE Len(files) - 1
  <2>1. files' \in Seq(Seq(Cell)) /\ last \in Nat /\ last + 1 \in 1 .. Len(files')
    <3>1. CASE files = <<>>
      <4>1. files' = << <<>> >>
        BY <3>1, <1>3 DEF OpenStore
      <4> QED BY <4>1, <3>1
    <3>2. CASE files # <<>>
      <4>1. files' = files /\ Len(files) \in Nat /\ Len(files) # 0
        BY <3>2, <1>0, <1>3 DEF OpenStore, TypeOK
      <4> QED BY <4>1, <3>2, <1>0 DEF TypeOK
    <3> QED BY <3>1, <3>2
  <2>2. files'[last + 1] \in Seq(Cell)
    BY <2>1
  <2>3. Len(files'[last + 1]) \in Nat
    BY <2>2
  <2>4. next_location' = [next_location EXCEPT ![p] =
              [file_no |-> last, offset |-> Len(files'[last + 1]), len |-> 0]]
    BY <1>3 DEF OpenStore
  <2> HIDE DEF last
  <2>5. [file_no |-> last, offset |-> Len(files'[last + 1]), len |-> 0] \in Location
    BY <2>1, <2>3 DEF Location
  <2>6. next_location' \in [Proc -> Location]
    BY <2>4, <2>5, <1>0 DEF TypeOK
  <2> QED BY <2>1, <2>6, <1>0, <1>3 DEF TypeOK, OpenStore
<1>4. CASE LockDb(p) \/ Close(p) \/ Fault(p)
  BY <1>0, <1>4, NowhereType DEF TypeOK, LockDb, Close, Fault
<1>5. CASE Write(p)
  <2>1. PICK k \in Key, v \in Value :
           /\ call' = [call EXCEPT ![p] = [key |-> k, value |-> v, location |-> Nowhere, left |-> Cells(v)]]
           /\ \E to \in {"switch", "append"} : Goto(p, to)
           /\ UNCHANGED <<disk, lock, next_location, allowed, interrupted, kills>>
    BY <1>5 DEF Write
  <2>2. call' \in [Proc -> [key : Key \cup {null}, value : Value \cup {null},
                            location : Location, left : Seq(Cell)]]
    BY <2>1, <1>0, CellsType, NowhereType DEF TypeOK
  <2> QED BY <2>1, <2>2, <1>0 DEF TypeOK
<1>6. CASE SwitchFile(p)
  <2>1. next_location[p].file_no \in Nat
    BY <1>6, LastFile, <1>0 DEF SwitchFile, Location, TypeOK
  <2>2. [file_no |-> next_location[p].file_no + 1, offset |-> 0, len |-> 0] \in Location
    BY <2>1 DEF Location
  <2>3. next_location' \in [Proc -> Location]
    BY <2>2, <1>0, <1>6 DEF TypeOK, SwitchFile
  <2>4. files' \in Seq(Seq(Cell))
    BY <1>0, <1>6 DEF TypeOK, SwitchFile
  <2> QED BY <2>3, <2>4, <1>0, <1>6 DEF TypeOK, SwitchFile
<1>7. CASE AppendCell(p)
  <2>1. pc[p] \in Writing /\ call[p].left # <<>>
    BY <1>7 DEF AppendCell
  <2>2. call[p].left \in Seq(Cell) /\ Head(call[p].left) \in Cell /\ Tail(call[p].left) \in Seq(Cell)
    BY <2>1, CallType
  <2>3. Append(files[Last + 1], Head(call[p].left)) \in Seq(Cell)
    BY <2>1, <2>2, LastFile
  <2>4. files' = [files EXCEPT ![Last + 1] = Append(files[Last + 1], Head(call[p].left))]
    BY <1>7, <2>1, LastFile DEF AppendCell
  <2>5. files' \in Seq(Seq(Cell))
    BY <2>3, <2>4, <2>1, LastFile, <1>0 DEF TypeOK
  <2>6. call' \in [Proc -> [key : Key \cup {null}, value : Value \cup {null},
                            location : Location, left : Seq(Cell)]]
    BY <1>7, <2>2, <1>0 DEF TypeOK, AppendCell
  <2> QED BY <2>5, <2>6, <1>0, <1>7 DEF TypeOK, AppendCell
<1>8. CASE AppendFails(p)
  BY <1>0, <1>8, NowhereType DEF TypeOK, AppendFails
<1>9. CASE Appended(p)
  <2>1. /\ Size[call[p].value] \in Nat /\ next_location[p] \in Location
    BY <1>9, CallType, LastFile DEF Appended
  <2>2. /\ [next_location[p] EXCEPT !.len = Size[call[p].value]] \in Location
        /\ [next_location[p] EXCEPT !.offset = @ + Size[call[p].value]] \in Location
    BY <2>1 DEF Location
  <2>3. next_location' \in [Proc -> Location]
    BY <2>2, <1>0, <1>9 DEF TypeOK, Appended
  <2>4. call' \in [Proc -> [key : Key \cup {null}, value : Value \cup {null},
                            location : Location, left : Seq(Cell)]]
    BY <2>2, <1>0, <1>9 DEF TypeOK, Appended
  <2> QED BY <2>3, <2>4, <1>0, <1>9 DEF TypeOK, Appended
<1>10. CASE Place(p)
  <2>1. call' \in [Proc -> [key : Key \cup {null}, value : Value \cup {null},
                            location : Location, left : Seq(Cell)]]
    BY <1>0, <1>10, NowhereType DEF TypeOK, Place
  <2>2. pc' \in [Proc -> {"closed", "format", "plate", "store", "open"} \cup Writing]
    BY <1>0, <1>10 DEF TypeOK, Place
  <2> QED BY <2>1, <2>2, <1>0, <1>10 DEF TypeOK, Place
<1>11. CASE CopyByte(p) \/ SetKeySize(p) \/ Use(p) \/ LocateWord(p)
  <2> DEFINE i == CalcIndex(call[p].key)
  <2>1. call[p].key \in Key /\ call[p].location \in Location
    BY <1>11, CallType DEF CopyByte, SetKeySize, Use, LocateWord
  <2>2. items \in [Doors -> Item]
    BY <1>0 DEF TypeOK
  <2>3. items' \in [Doors -> Item]
    <3>1. CASE i \notin Doors
      <4> HIDE DEF i
      <4>1. \E r : items' = [items EXCEPT ![i] = r]
        BY <1>11 DEF CopyByte, SetKeySize, Use, LocateWord, i
      <4> HIDE DEF Item
      <4> QED BY <4>1, <3>1, <2>2
    <3>2. CASE i \in Doors
      <4>0. items[i] \in Item
        BY <3>2, <2>2
      <4>1. \E r \in Item : items' = [items EXCEPT ![i] = r]
        <5>1. CASE CopyByte(p)
          <6>1. PICK j \in 1 .. Len(call[p].key) : items' = [items EXCEPT ![i].key[j] = call[p].key[j]]
            BY <5>1 DEF CopyByte
          <6>2. j \in 1 .. kMaxKeyLen /\ call[p].key[j] \in Byte
            BY <2>1, KeyType
          <6>3. PICK b \in Byte : b = call[p].key[j]
            BY <6>2
          <6> HIDE DEF i
          <6>4. items' = [items EXCEPT ![i] = [items[i] EXCEPT !.key[j] = b]]
            BY <6>1, <6>3, <3>2, <2>2
          <6> QED BY <6>2, <6>4, <4>0, ItemType
        <5>2. CASE SetKeySize(p)
          <6>1. items' = [items EXCEPT ![i] = [items[i] EXCEPT !.key_size = Len(call[p].key)]]
            BY <5>2, <3>2, <2>2 DEF SetKeySize
          <6> QED BY <6>1, <2>1, <4>0, KeyType, ItemType
        <5>3. CASE Use(p)
          <6>1. items' = [items EXCEPT ![i] = [items[i] EXCEPT !.in_use = TRUE]]
            BY <5>3, <3>2, <2>2 DEF Use
          <6> QED BY <6>1, <4>0, ItemType
        <5>4. CASE LocateWord(p)
          <6>1. items' = [items EXCEPT ![i] =
                   [items[i] EXCEPT !.location = NextWord(items[i].location, call[p].location)]]
            BY <5>4, <3>2, <2>2 DEF LocateWord
          <6>2. NextWord(items[i].location, call[p].location) \in Location
            BY <2>1, <4>0, WordType DEF Item
          <6> QED BY <6>1, <6>2, <4>0, ItemType
        <5> QED BY <1>11, <5>1, <5>2, <5>3, <5>4
      <4> HIDE DEF i
      <4> QED BY <4>1, <2>2
    <3> QED BY <3>1, <3>2
  <2>4. allowed' \in [Key -> SUBSET (Value \cup {Absent, NoCells, Mixed})]
    <3>1. CASE LocateWord(p)
      BY <2>1, <1>0, <3>1 DEF TypeOK, LocateWord
    <3>2. CASE ~ LocateWord(p)
      BY <3>2, <1>0, <1>11 DEF TypeOK, CopyByte, SetKeySize, Use
    <3> QED BY <3>1, <3>2
  <2>5. pc' \in [Proc -> {"closed", "format", "plate", "store", "open"} \cup Writing]
    BY <1>0, <1>11 DEF TypeOK, CopyByte, SetKeySize, Use, LocateWord
  <2>6. UNCHANGED <<meta, files, next_location, call, interrupted>>
    BY <1>11 DEF CopyByte, SetKeySize, Use, LocateWord
  <2> QED BY <2>3, <2>4, <2>5, <2>6, <1>0 DEF TypeOK
<1>13. CASE Located(p)
  <2>1. call[p].key \in Key /\ call[p].value \in Value
    BY <1>13, CallType DEF Located
  <2>3. call' \in [Proc -> [key : Key \cup {null}, value : Value \cup {null},
                            location : Location, left : Seq(Cell)]]
    BY <1>0, <1>13, NowhereType DEF TypeOK, Located
  <2>4. allowed' \in [Key -> SUBSET (Value \cup {Absent, NoCells, Mixed})]
    BY <2>1, <1>0, <1>13 DEF TypeOK, Located
  <2> QED BY <2>3, <2>4, <1>0, <1>13 DEF TypeOK, Located
<1>12. CASE Kill(p)
  <2>1. allowed' \in [Key -> SUBSET (Value \cup {Absent, NoCells, Mixed})]
    <3>1. CASE call[p].key = null
      BY <3>1, <1>0, <1>12 DEF TypeOK, Kill
    <3>2. CASE call[p].key # null
      <4>1. call[p].value \in Value
        <5>1. pc[p] \in Writing
          <6>1. pc[p] \notin Writing => call[p] = NoCall
            BY DEF IInv, AppendInv
          <6> QED BY <6>1, <3>2 DEF NoCall
        <5> QED BY <5>1, CallType
      <4> QED BY <4>1, <3>2, <1>0, <1>12 DEF TypeOK, Kill
    <3> QED BY <3>1, <3>2
  <2>2. call' \in [Proc -> [key : Key \cup {null}, value : Value \cup {null},
                            location : Location, left : Seq(Cell)]]
    BY <1>0, <1>12, NowhereType DEF TypeOK, Kill
  <2>3. next_location' \in [Proc -> Location]
    BY <1>0, <1>12, NowhereType DEF TypeOK, Kill
  <2>4. interrupted' \in SUBSET Key
    <3>1. pc[p] \in {"key", "use"} => call[p].key \in Key
      BY CallType
    <3> QED BY <3>1, <1>0, <1>12 DEF TypeOK, Kill
  <2> QED BY <2>1, <2>2, <2>3, <2>4, <1>0, <1>12 DEF TypeOK, Kill
<1> QED BY <1>1, <1>2, <1>3, <1>4, <1>5, <1>6, <1>7, <1>8, <1>9, <1>10, <1>11, <1>12, <1>13
        DEF Steps, WriteStep

LEMMA OneStep ==
  ASSUME Settings, IInv, NEW p \in Proc, Steps(p)
  PROVE  /\ \A q \in Proc : q # p =>
              /\ pc[q] = "closed" /\ pc'[q] = "closed" /\ call'[q] = call[q]
              /\ next_location'[q] = next_location[q]
         /\ OneProcess'
<1> USE DEF Goto, Gone, Return, Writing, Placing
<1>0. /\ pc \in [Proc -> {"closed", "format", "plate", "store", "open"} \cup Writing]
      /\ next_location \in [Proc -> Location]
      /\ call \in [Proc -> [key : Key \cup {null}, value : Value \cup {null},
                            location : Location, left : Seq(Cell)]]
  BY DEF IInv, TypeOK
<1>1. ASSUME NEW q \in Proc, q # p
      PROVE  /\ pc[q] = "closed" /\ pc'[q] = pc[q] /\ call'[q] = call[q]
             /\ next_location'[q] = next_location[q]
  <2>1. pc[q] = "closed"
    <3>1. CASE OpenPlate(p)
      BY <3>1 DEF Settings, OpenPlate
    <3>2. CASE ~ OpenPlate(p)
      <4>1. pc[p] # "closed"
        BY <3>2 DEF Steps, FormatPlate, OpenStore, LockDb, Close, Fault, Write, WriteStep,
             SwitchFile, AppendCell, AppendFails, Appended, Place, CopyByte, SetKeySize, Use,
     LocateWord, Located, Kill
      <4> QED BY <4>1, <1>1 DEF IInv, OneProcess
    <3> QED BY <3>1, <3>2
  <2>2. pc'[q] = pc[q] /\ (\E to : pc' = [pc EXCEPT ![p] = to])
    BY <1>0, <1>1 DEF Steps, OpenPlate, FormatPlate, OpenStore, LockDb, Close, Fault, Write,
       WriteStep, SwitchFile, AppendCell, AppendFails, Appended, Place, CopyByte, SetKeySize, Use,
     LocateWord, Located, Kill
  <2>3. call'[q] = call[q]
    BY <1>0, <1>1 DEF Steps, OpenPlate, FormatPlate, OpenStore, LockDb, Close, Fault, Write,
       WriteStep, SwitchFile, AppendCell, AppendFails, Appended, Place, CopyByte, SetKeySize, Use,
     LocateWord, Located, Kill
  <2>4. next_location'[q] = next_location[q]
    BY <1>0, <1>1 DEF Steps, OpenPlate, FormatPlate, OpenStore, LockDb, Close, Fault, Write,
       WriteStep, SwitchFile, AppendCell, AppendFails, Appended, Place, CopyByte, SetKeySize, Use,
     LocateWord, Located, Kill
  <2> QED BY <2>1, <2>2, <2>3, <2>4
<1>2. OneProcess'
  BY <1>1 DEF OneProcess
<1> QED BY <1>1, <1>2

LEMMA MetaStep ==
  ASSUME Settings, IInv, NEW p \in Proc, Steps(p)
  PROVE  MetaInv'
<1> USE DEF Goto, Gone, Return, Writing, Placing, disk
<1>0. /\ pc \in [Proc -> {"closed", "format", "plate", "store", "open"} \cup Writing]
      /\ items \in [Doors -> Item]
  BY DEF IInv, TypeOK
<1>1. /\ meta # "ready" => \A i \in Doors : items[i] = Zeroed
      /\ pc[p] = "format" => meta = "empty"
      /\ pc[p] \in Writing => meta = "ready"
  BY DEF IInv, MetaInv
<1>2. meta' # "ready" => \A i \in Doors : items'[i] = Zeroed
  BY <1>0, <1>1 DEF Steps, OpenPlate, FormatPlate, OpenStore, LockDb, Close, Fault, Write,
     WriteStep, SwitchFile, AppendCell, AppendFails, Appended, Place, CopyByte, SetKeySize, Use,
     LocateWord, Located, Kill
<1>3. /\ pc'[p] = "format" => meta' = "empty"
      /\ pc'[p] \in Writing => meta' = "ready"
  BY <1>0, <1>1 DEF Steps, OpenPlate, FormatPlate, OpenStore, LockDb, Close, Fault, Write,
     WriteStep, SwitchFile, AppendCell, AppendFails, Appended, Place, CopyByte, SetKeySize, Use,
     LocateWord, Located, Kill
<1>4. \A q \in Proc : /\ pc'[q] = "format" => meta' = "empty"
                      /\ pc'[q] \in Writing => meta' = "ready"
  BY <1>3, OneStep
<1> QED BY <1>2, <1>4 DEF MetaInv

-----------------------------------------------------------------------------
(* The data files only grow.                                                *)

Grown ==
  /\ Len(files) <= Len(files')
  /\ \A n \in 1 .. Len(files) :
       /\ Len(files[n]) <= Len(files'[n])
       /\ \A i \in 1 .. Len(files[n]) : files'[n][i] = files[n][i]

LEMMA FilesGrow ==
  ASSUME Settings, IInv, NEW p \in Proc, Steps(p)
  PROVE  Grown
<1>0. files \in Seq(Seq(Cell)) /\ files' \in Seq(Seq(Cell))
  BY TypeStep DEF IInv, TypeOK
<1>1. \A n \in 1 .. Len(files) : files[n] \in Seq(Cell) /\ Len(files[n]) \in Nat
  BY <1>0
<1>2. CASE files' = files
  BY <1>0, <1>1, <1>2 DEF Grown
<1>3. CASE OpenStore(p)
  BY <1>0, <1>1, <1>2, <1>3 DEF OpenStore, Grown
<1>4. CASE SwitchFile(p)
  BY <1>0, <1>1, <1>2, <1>4 DEF SwitchFile, Grown
<1>5. CASE AppendCell(p)
  <2>1. pc[p] \in Writing
    BY <1>5 DEF AppendCell, Writing
  <2>2. files' = [files EXCEPT ![Last + 1] = Append(files[Last + 1], Head(call[p].left))]
    BY <1>5, <2>1, LastFile DEF AppendCell
  <2>3. /\ Last + 1 \in 1 .. Len(files) /\ files[Last + 1] \in Seq(Cell)
        /\ Head(call[p].left) \in Cell
    <3>1. call[p].left \in Seq(Cell) /\ call[p].left # <<>>
      BY <1>5, <2>1, CallType DEF AppendCell
    <3> QED BY <3>1, <2>1, LastFile
  <2> DEFINE m == Last + 1
             c == Head(call[p].left)
  <2>4. /\ Len(files') = Len(files)
        /\ files'[m] = Append(files[m], c)
        /\ \A n \in 1 .. Len(files) : n # m => files'[n] = files[n]
    BY <2>2, <2>3, <1>0
  <2> HIDE DEF m, c
  <2>5. Len(Append(files[m], c)) = Len(files[m]) + 1 /\
        \A i \in 1 .. Len(files[m]) : Append(files[m], c)[i] = files[m][i]
    BY <2>3 DEF m, c
  <2>6. m \in 1 .. Len(files) /\ Len(files) \in Nat /\ \A n \in 1 .. Len(files) : Len(files[n]) \in Nat
    BY <2>3, <1>0, <1>1 DEF m
  <2>7. /\ Len(files[m]) <= Len(files'[m])
        /\ \A i \in 1 .. Len(files[m]) : files'[m][i] = files[m][i]
    BY <2>4, <2>5, <2>6
  <2>8. ASSUME NEW n \in 1 .. Len(files)
        PROVE  /\ Len(files[n]) <= Len(files'[n])
               /\ \A i \in 1 .. Len(files[n]) : files'[n][i] = files[n][i]
    <3>1. CASE n = m
      BY <3>1, <2>7
    <3>2. CASE n # m
      <4>1. files'[n] = files[n] /\ Len(files[n]) \in Nat
        BY <3>2, <2>4, <2>6
      <4> QED BY <4>1
    <3> QED BY <3>1, <3>2
  <2> QED BY <2>4, <2>6, <2>8 DEF Grown
<1> QED BY <1>2, <1>3, <1>4, <1>5 DEF Steps, OpenPlate, FormatPlate, LockDb, Close, Fault, Write,
     WriteStep, AppendFails, Appended, Place, CopyByte, SetKeySize, Use,
     LocateWord, Located, Kill, disk

LEMMA HoldsKept ==
  ASSUME Settings, TypeOK, TypeOK', Grown, NEW l \in Location, NEW v \in Value, Holds(l, v)
  PROVE  Holds(l, v)'
<1>1. l.file_no \in Nat /\ l.offset \in Nat /\ l.len \in Nat /\ files \in Seq(Seq(Cell))
  BY DEF Location, TypeOK
<1>2. l.file_no + 1 \in 1 .. Len(files) /\ Len(files) \in Nat
  BY <1>1 DEF Holds
<1>3. files[l.file_no + 1] \in Seq(Cell)
  BY <1>1, <1>2
<1>4. Size[v] \in Nat
  BY CellsType
<1>5. \A i \in 1 .. Size[v] : l.offset + i \in 1 .. Len(files[l.file_no + 1])
  BY <1>1, <1>3, <1>4, SMTT(30) DEF Holds
<1> DEFINE n == l.file_no + 1
<1>6. /\ Len(files) <= Len(files') /\ Len(files[n]) <= Len(files'[n])
      /\ \A i \in 1 .. Len(files[n]) : files'[n][i] = files[n][i]
  BY <1>2 DEF Grown
<1>7. Len(files') \in Nat /\ n \in 1 .. Len(files') /\ files' \in Seq(Seq(Cell))
  BY <1>2, <1>6 DEF TypeOK
<1>8. files'[n] \in Seq(Cell) /\ Len(files'[n]) \in Nat
  BY <1>7
<1>9. l.file_no < Len(files')
  BY <1>1, <1>7
<1>10. l.offset + l.len <= Len(files'[n])
  <2>1. l.offset + l.len <= Len(files[n]) /\ Len(files[n]) \in Nat
    BY <1>3 DEF Holds
  <2> QED BY <2>1, <1>1, <1>6, <1>8
<1>11. \A i \in 1 .. Size[v] : files'[n][l.offset + i] = <<v, i>>
  BY <1>5, <1>6 DEF Holds
<1>12. l.len = Size[v]
  BY DEF Holds
<1> HIDE DEF n
<1> QED BY <1>9, <1>10, <1>11, <1>12 DEF Holds, n

LEMMA AppendOthers ==
  ASSUME Settings, IInv, NEW p \in Proc, Steps(p), NEW q \in Proc, q # p
  PROVE  AppendInv(q)'
<1>1. pc'[q] = "closed" /\ pc[q] = "closed" /\ call'[q] = call[q]
  BY OneStep
<1>2. call'[q] = NoCall
  BY <1>1 DEF IInv, AppendInv, Writing, Placing
<1> QED BY <1>1, <1>2 DEF AppendInv, Writing, Placing

LEMMA AppendStep ==
  ASSUME Settings, IInv, NEW p \in Proc, Steps(p)
  PROVE  AppendInv(p)'
<1> DEFINE c == call[p]
           l == next_location[p]
           f == files[Last + 1]
           written == Size[c.value] - Len(c.left)
<1> USE DEF Goto, Gone, Return, Writing, Placing, disk
<1>0. /\ pc \in [Proc -> {"closed", "format", "plate", "store", "open"} \cup Writing]
      /\ next_location \in [Proc -> Location]
      /\ call \in [Proc -> [key : Key \cup {null}, value : Value \cup {null},
                            location : Location, left : Seq(Cell)]]
      /\ files \in Seq(Seq(Cell))
  BY DEF IInv, TypeOK
<1>a. TypeOK /\ TypeOK' /\ Grown
  BY TypeStep, FilesGrow DEF IInv
<1>b. AppendInv(p)
  BY DEF IInv
<1>c. pc[p] \notin Writing => call[p] = NoCall
  BY <1>b DEF AppendInv
<1>1. CASE OpenPlate(p) \/ FormatPlate(p)
  BY <1>0, <1>1, <1>c DEF AppendInv, OpenPlate, FormatPlate
<1>2. CASE Kill(p)
  BY <1>0, <1>2 DEF AppendInv, Kill
<1>3. CASE Close(p) \/ Fault(p)
  BY <1>0, <1>3, <1>c DEF AppendInv, Close, Fault
<1>4. CASE LockDb(p)
  <2>1. pc'[p] \in {"open", "closed"} /\ call' = call /\ files' = files
    BY <1>0, <1>4 DEF LockDb
  <2>2. pc[p] = "store" /\ (pc'[p] = "open" => next_location' = next_location)
    BY <1>0, <1>4 DEF LockDb
  <2> QED BY <2>1, <2>2, <1>b, <1>c DEF AppendInv, Last
<1>5. CASE OpenStore(p)
  <2>1. pc[p] = "plate" /\ pc'[p] = "store" /\ call' = call
    BY <1>0, <1>5 DEF OpenStore
  <2>2. files' # <<>> /\ (IF files = <<>> THEN 0 ELSE Len(files) - 1) = Len(files') - 1
    <3>1. CASE files = <<>>
      <4>1. files' = << <<>> >>
        BY <1>5, <3>1 DEF OpenStore
      <4> QED BY <4>1, <3>1
    <3>2. CASE files # <<>>
      BY <1>5, <3>2 DEF OpenStore
    <3> QED BY <3>1, <3>2
  <2>3. /\ next_location'[p].file_no = Len(files') - 1
        /\ next_location'[p].offset = Len(files'[Len(files') - 1 + 1])
    BY <1>0, <1>5, <2>2 DEF OpenStore
  <2> QED BY <2>1, <2>2, <2>3, <1>c DEF AppendInv, Last
<1>6. CASE Write(p)
  <2>1. PICK k \in Key, v \in Value :
           /\ call' = [call EXCEPT ![p] = [key |-> k, value |-> v, location |-> Nowhere, left |-> Cells(v)]]
           /\ \E to \in {"switch", "append"} : Goto(p, to)
    BY <1>6 DEF Write
  <2>2. /\ pc[p] = "open" /\ pc'[p] \in {"switch", "append"}
        /\ files' = files /\ next_location' = next_location
    BY <1>0, <1>6, <2>1 DEF Write
  <2>3. call'[p] = [key |-> k, value |-> v, location |-> Nowhere, left |-> Cells(v)]
    BY <2>1, <1>0
  <2>4. Last' = Last /\ l.file_no = Last /\ l.offset = Len(f) /\ files # <<>> /\ l.offset \in Nat
    BY <2>2, <1>b, LastFile DEF AppendInv, Last
  <2>5. /\ Len(Cells(v)) = Size[v] /\ Size[v] \in Nat
        /\ \A i \in 1 .. Size[v] : Cells(v)[i] = <<v, i>>
    BY CellsType
  <2>6. Size[v] - Len(Cells(v)) = 0
    BY <2>5
  <2>7. /\ pc'[p] = "switch" \/ pc'[p] = "append"
        /\ Last' = Last /\ next_location'[p].file_no = Last /\ next_location'[p].offset = Len(files'[Last + 1])
        /\ call'[p].key = k /\ call'[p].value = v /\ call'[p].left = Cells(v)
    BY <2>2, <2>3, <2>4
  <2>8. CASE pc'[p] = "switch"
    BY <2>2, <2>4, <2>7, <2>8 DEF AppendInv
  <2>9. CASE pc'[p] = "append"
    <3>1. Size[v] - Len(Cells(v)) >= 0 /\ next_location'[p].offset + (Size[v] - Len(Cells(v))) = Len(files'[Last + 1])
      BY <2>4, <2>6, <2>7
    <3>2. \A j \in 1 .. Size[v] - Len(Cells(v)) : files'[Last + 1][next_location'[p].offset + j] = <<v, j>>
      BY <2>6
    <3>3. \A j \in 1 .. Len(Cells(v)) : Cells(v)[j] = <<v, (Size[v] - Len(Cells(v))) + j>>
      BY <2>5, <2>6
    <3> QED BY <2>2, <2>4, <2>7, <2>9, <3>1, <3>2, <3>3 DEF AppendInv
  <2> QED BY <2>2, <2>8, <2>9
<1>7. CASE SwitchFile(p)
  <2>1. /\ pc[p] = "switch" /\ pc'[p] = "append" /\ call' = call
        /\ next_location'[p] = [file_no |-> l.file_no + 1, offset |-> 0, len |-> 0]
        /\ files' = IF l.file_no + 1 < Len(files) THEN files ELSE Append(files, <<>>)
    BY <1>0, <1>7 DEF SwitchFile
  <2>2. l.file_no = Last /\ Len(files) \in Nat
    BY <2>1, LastFile
  <2>3. files' = Append(files, <<>>)
    BY <2>1, <2>2 DEF Last
  <2>4. Len(files') = Len(files) + 1 /\ files' # <<>> /\ files'[Len(files) + 1] = <<>>
    <3>1. files \in Seq(Seq(Cell)) /\ <<>> \in Seq(Cell)
      BY <1>0
    <3> DEFINE S == Seq(Cell)
    <3> HIDE DEF S
    <3>2. Len(Append(files, <<>>)) = Len(files) + 1 /\ Append(files, <<>>)[Len(files) + 1] = <<>>
      BY <3>1 DEF S
    <3>3. Append(files, <<>>) # <<>>
      BY <3>2, <2>2
    <3> QED BY <3>2, <3>3, <2>3
  <2>5. Last' = Len(files) /\ next_location'[p].file_no = Last' /\ Len(files'[Last' + 1]) = 0
    BY <2>1, <2>2, <2>4 DEF Last
  <2>6. c.key \in Key /\ c.value \in Value /\ c.left = Cells(c.value)
    BY <2>1, <1>b DEF AppendInv
  <2>7. /\ Len(c.left) = Size[c.value] /\ Size[c.value] \in Nat
        /\ \A i \in 1 .. Size[c.value] : c.left[i] = <<c.value, i>>
    BY <2>6, CellsType
  <2>8. Size[c.value] - Len(c.left) = 0
    BY <2>7
  <2> QED BY <2>1, <2>4, <2>5, <2>6, <2>7, <2>8 DEF AppendInv
<1>8. CASE AppendCell(p)
  <2>1. pc[p] = "append" /\ pc'[p] = "append" /\ c.left # <<>> /\ next_location' = next_location
        /\ call'[p] = [c EXCEPT !.left = Tail(c.left)]
    BY <1>0, <1>8 DEF AppendCell
  <2>2. /\ l.file_no = Last /\ Last + 1 \in 1 .. Len(files) /\ f \in Seq(Cell) /\ files # <<>>
        /\ l.offset \in Nat /\ Len(f) \in Nat
    BY <2>1, <1>b, LastFile DEF AppendInv
  <2>3. files' = [files EXCEPT ![Last + 1] = Append(f, Head(c.left))]
    BY <1>8, <2>2 DEF AppendCell
  <2>4. /\ c.key \in Key /\ c.value \in Value /\ c.left \in Seq(Cell) /\ Size[c.value] \in Nat
    BY <2>1, CallType
  <2>5. /\ written >= 0 /\ l.offset + written = Len(f)
        /\ \A i \in 1 .. written : f[l.offset + i] = <<c.value, i>>
        /\ \A i \in 1 .. Len(c.left) : c.left[i] = <<c.value, written + i>>
    BY <2>1, <1>b DEF AppendInv
  <2> DEFINE t == Tail(c.left)
             h == Head(c.left)
             g == Append(f, h)
  <2>6. /\ Len(files') = Len(files) /\ files' # <<>> /\ files'[Last + 1] = g /\ Last' = Last
    BY <2>2, <2>3, <1>0 DEF Last
  <2>7. /\ Len(t) = Len(c.left) - 1 /\ Len(t) \in Nat /\ h = c.left[1] /\ Len(c.left) \in Nat
        /\ Len(c.left) >= 1
        /\ \A i \in 1 .. Len(t) : t[i] = c.left[i + 1]
    BY <2>1, <2>4
  <2>8. /\ Len(g) = Len(f) + 1 /\ g[Len(f) + 1] = h
        /\ \A i \in 1 .. Len(f) : g[i] = f[i]
    <3>1. h \in Cell
      BY <2>1, <2>4
    <3> QED BY <3>1, <2>2
  <2> HIDE DEF c, l, f, t, h, g
  <2>9. Size[c.value] - Len(t) = written + 1 /\ written \in Nat
    <3> PICK n \in Nat, m \in Nat, o \in Nat : n = Size[c.value] /\ m = Len(c.left) /\ o = Len(t)
      BY <2>4, <2>7
    <3>1. o = m - 1 /\ n - m >= 0
      BY <2>5, <2>7
    <3> QED BY <3>1
  <2> DEFINE w == Size[c.value] - Len(c.left)
  <2>10. w \in Nat /\ l.offset + w = Len(f) /\ Size[c.value] - Len(t) = w + 1
    BY <2>5, <2>9
  <2>11. \A i \in 1 .. w : f[l.offset + i] = <<c.value, i>>
    BY <2>5
  <2>12. \A i \in 1 .. Len(c.left) : c.left[i] = <<c.value, w + i>>
    BY <2>5
  <2> HIDE DEF w
  <2>13. \A i \in 1 .. w + 1 : g[l.offset + i] = <<c.value, i>>
    <3>1. TAKE i \in 1 .. w + 1
    <3>2. CASE i = w + 1
      <4>1. h = <<c.value, w + 1>>
        BY <2>7, <2>12
      <4>2. l.offset + i = Len(f) + 1
        BY <3>2, <2>10, <2>2
      <4> QED BY <4>1, <4>2, <3>2, <2>8
    <3>3. CASE i # w + 1
      <4>1. i \in 1 .. w /\ l.offset + i \in 1 .. Len(f)
        BY <3>3, <2>10, <2>2
      <4> QED BY <4>1, <2>8, <2>11
    <3> QED BY <3>2, <3>3
  <2>14. \A i \in 1 .. Len(t) : t[i] = <<c.value, (w + 1) + i>>
    <3>1. TAKE i \in 1 .. Len(t)
    <3>2. i + 1 \in 1 .. Len(c.left) /\ w + (i + 1) = (w + 1) + i
      BY <2>7, <2>10
    <3> QED BY <3>2, <2>7, <2>12
  <2>15. l.offset + (w + 1) = Len(g) /\ w + 1 >= 0
    <3>1. Len(g) = Len(f) + 1
      BY <2>8
    <3>2. l.offset \in Nat
      BY <2>2
    <3> QED BY <3>1, <3>2, <2>10
  <2>16. call'[p].key = c.key /\ call'[p].value = c.value /\ call'[p].left = t
    BY <2>1, <1>0 DEF c, t
  <2>17. next_location'[p] = l
    BY <2>1 DEF l
  <2> QED BY <2>1, <2>2, <2>4, <2>6, <2>10, <2>13, <2>14, <2>15, <2>16, <2>17, ZenonT(30) DEF AppendInv
<1>9. CASE AppendFails(p)
  <2>1. /\ pc[p] = "append" /\ pc'[p] = "open" /\ c.left = Cells(c.value)
        /\ next_location' = next_location /\ files' = files /\ call'[p] = NoCall
    BY <1>0, <1>9 DEF Settings, AppendFails
  <2>2. Last' = Last /\ l.file_no = Last /\ files # <<>> /\ l.offset \in Nat
    BY <2>1, <1>b, LastFile DEF AppendInv, Last
  <2>3. c.value \in Value /\ l.offset + written = Len(f)
    BY <2>1, <1>b DEF AppendInv
  <2>4. written = 0
    <3>1. Len(Cells(c.value)) = Size[c.value] /\ Size[c.value] \in Nat
      BY <2>3, CellsType
    <3>2. Len(c.left) = Size[c.value]
      BY <2>1, <3>1
    <3> QED BY <3>1, <3>2
  <2>5. l.offset = Len(f)
    BY <2>2, <2>3, <2>4
  <2> QED BY <2>1, <2>2, <2>5 DEF AppendInv
<1>10. CASE Appended(p)
  <2> DEFINE n == Size[c.value]
  <2>1. /\ pc[p] = "append" /\ pc'[p] = "place" /\ c.left = <<>> /\ files' = files
        /\ call'[p] = [c EXCEPT !.location = [l EXCEPT !.len = n]]
        /\ next_location'[p] = [l EXCEPT !.offset = @ + n]
    BY <1>0, <1>10 DEF Appended
  <2>2. /\ l \in Location /\ l.file_no = Last /\ files # <<>> /\ Last' = Last /\ Len(files) \in Nat
        /\ l.offset \in Nat /\ Len(f) \in Nat /\ Last + 1 \in 1 .. Len(files)
    BY <2>1, <1>b, LastFile DEF AppendInv, Last
  <2>3. c.key \in Key /\ c.value \in Value /\ n \in Nat /\ c \in
              [key : Key \cup {null}, value : Value \cup {null}, location : Location, left : Seq(Cell)]
    BY <2>1, <1>0, CallType
  <2>4. Len(c.left) = 0 /\ written = n
    BY <2>1, <2>3
  <2>5. /\ l.offset + n = Len(f)
        /\ \A i \in 1 .. n : f[l.offset + i] = <<c.value, i>>
    BY <2>1, <2>4, <1>b DEF AppendInv
  <2>6. PICK m : m = [l EXCEPT !.len = n]
    OBVIOUS
  <2>v. PICK v : v = c.value
    OBVIOUS
  <2>7. /\ m.file_no = Last /\ m.offset = l.offset /\ m.len = n
        /\ next_location'[p].file_no = Last /\ next_location'[p].offset = l.offset + n
    BY <2>1, <2>2, <2>6 DEF Location
  <2>8. call'[p].key = c.key /\ call'[p].value = v /\ call'[p].location = m
    BY <2>1, <2>3, <2>6, <2>v
  <2>9. Last < Len(files)
    BY <2>2 DEF Last
  <2>10. Holds(m, v)'
    <3> HIDE DEF n, f
    <3>1. m.len = Size[v] /\ m.file_no < Len(files')
      BY <2>1, <2>7, <2>9, <2>v DEF n
    <3>2. files'[m.file_no + 1] = f
      BY <2>1, <2>7 DEF f
    <3>3. m.offset + m.len <= Len(f)
      BY <2>2, <2>3, <2>5, <2>7
    <3>4. \A i \in 1 .. Size[v] : f[m.offset + i] = <<v, i>>
      BY <2>5, <2>7, <2>v DEF n
    <3> QED BY <3>1, <3>2, <3>3, <3>4 DEF Holds
  <2>11. Holds(call[p].location, call[p].value)'
    BY <2>8, <2>10 DEF Holds
  <2>12. next_location'[p].offset = Len(files'[Last' + 1])
    BY <2>1, <2>2, <2>5, <2>7
  <2>13. call'[p].key \in Key /\ call'[p].value \in Value
    BY <2>3, <2>8, <2>v
  <2>14. files' # <<>> /\ next_location'[p].file_no = Last' /\ pc'[p] = "place"
    BY <2>1, <2>2, <2>7
  <2> HIDE DEF c, l, f, n, written
  <2> QED BY <2>11, <2>12, <2>13, <2>14 DEF AppendInv
<1>11. CASE Place(p) \/ CopyByte(p) \/ SetKeySize(p) \/ Use(p) \/ LocateWord(p) \/ Located(p)
  <2>1. /\ pc[p] \in Placing /\ pc'[p] \in {"key", "use", "locate", "open"}
        /\ files' = files /\ next_location' = next_location
        /\ IF pc'[p] = "open" THEN call'[p] = NoCall ELSE call'[p] = c
    BY <1>0, <1>11 DEF Place, CopyByte, SetKeySize, Use, LocateWord, Located
  <2>2. Last' = Last
    BY <2>1 DEF Last
  <2>3. /\ files # <<>> /\ l.file_no = Last /\ l.offset = Len(f)
        /\ c.key \in Key /\ c.value \in Value /\ Holds(c.location, c.value)
    BY <2>1, <1>b DEF AppendInv
  <2>4. c.location \in Location
    BY <2>1, CallType
  <2>5. CASE pc'[p] = "open"
    BY <2>1, <2>2, <2>3, <2>5 DEF AppendInv
  <2>6. CASE pc'[p] # "open"
    <3>1. call'[p] = call[p]
      BY <2>1, <2>6
    <3>2. Holds(call[p].location, call[p].value)'
      BY <2>1, <2>3, <3>1 DEF Holds
    <3> QED BY <2>1, <2>2, <2>3, <2>6, <3>1, <3>2 DEF AppendInv
  <2> QED BY <2>5, <2>6
<1> QED BY <1>1, <1>2, <1>3, <1>4, <1>5, <1>6, <1>7, <1>8, <1>9, <1>10, <1>11
        DEF Steps, WriteStep

-----------------------------------------------------------------------------
(* The table.                                                               *)

\* Two keys that an item has are one.
LEMMA OneKey ==
  ASSUME Settings, NEW i, NEW k \in Key, NEW m \in Key
  PROVE  /\ ItemKeyMatch(i, k) /\ ItemKeyMatch(i, m) => k = m
         /\ ItemKeyMatch(i, k)' /\ ItemKeyMatch(i, m)' => k = m
<1>1. k \in Seq(Byte) /\ m \in Seq(Byte) /\ Len(k) \in Nat /\ Len(m) \in Nat
  BY KeyType
<1>2. Len(k) = Len(m) /\ (\A j \in 1 .. Len(k) : k[j] = m[j]) => k = m
  BY <1>1
<1>3. ItemKeyMatch(i, k) /\ ItemKeyMatch(i, m) => Len(k) = Len(m) /\ \A j \in 1 .. Len(k) : k[j] = m[j]
  BY DEF ItemKeyMatch, KeyCopied
<1>4. ItemKeyMatch(i, k)' /\ ItemKeyMatch(i, m)' => Len(k) = Len(m) /\ \A j \in 1 .. Len(k) : k[j] = m[j]
  BY DEF ItemKeyMatch, KeyCopied
<1> QED BY <1>2, <1>3, <1>4

LEMMA KeyOfItem ==
  ASSUME Settings, TypeOK, NEW i \in Doors, NEW k \in Key, ItemKeyMatch(i, k)
  PROVE  SubSeq(items[i].key, 1, items[i].key_size) = k
<1> DEFINE b == items[i].key
<1>1. k \in Seq(Byte) /\ Len(k) \in Nat /\ Len(k) \in 0 .. kMaxKeyLen /\ kMaxKeyLen \in Nat
  BY KeyType DEF Settings, KeysAssumption
<1>2. b \in [1 .. kMaxKeyLen -> Byte \cup {null}]
  BY DEF TypeOK, Item
<1>3. items[i].key_size = Len(k) /\ \A j \in 1 .. Len(k) : b[j] = k[j]
  BY DEF ItemKeyMatch, KeyCopied
<1> HIDE DEF b
<1>4. b \in Seq(Byte \cup {null}) /\ Len(b) = kMaxKeyLen
  BY <1>1, <1>2
<1>5. SubSeq(b, 1, Len(k)) = [j \in 1 .. Len(k) |-> b[j]]
  BY <1>1, <1>4
<1>6. [j \in 1 .. Len(k) |-> b[j]] = [j \in 1 .. Len(k) |-> k[j]]
  BY <1>3
<1>7. k = [j \in 1 .. Len(k) |-> k[j]]
  BY <1>1
<1> QED BY <1>3, <1>5, <1>6, <1>7 DEF b

LEMMA SameItem ==
  ASSUME NEW i, items'[i] = items[i], NEW k
  PROVE  (ItemKeyMatch(i, k)' <=> ItemKeyMatch(i, k)) /\ (ItemTryPlace(i, k)' <=> ItemTryPlace(i, k))
BY DEF ItemTryPlace, ItemKeyMatch, KeyCopied

LEMMA SameIndex ==
  ASSUME Settings, items' = items, NEW k
  PROVE  CalcIndex(k)' = CalcIndex(k) /\ \A i : ItemKeyMatch(i, k)' <=> ItemKeyMatch(i, k)
BY DEF CalcIndex, ItemTryPlace, ItemKeyMatch, KeyCopied, Probe

\* One item, i, is written, for a key k.
Stores(p) == CopyByte(p) \/ SetKeySize(p) \/ Use(p) \/ LocateWord(p)
Written(p, i, k) ==
  /\ \A j \in Doors : j # i => items'[j] = items[j]
  /\ items[i].in_use => items'[i].in_use
  /\ pc'[p] \in {"key", "use", "locate"} /\ (items'[i].in_use <=> pc'[p] = "locate")
  /\ pc'[p] # "key" => ItemKeyMatch(i, k)'
  /\ ~ items'[i].in_use => items'[i].location = Nowhere

\* What a step of p does to the table.
LEMMA TableSteps ==
  ASSUME Settings, IInv, NEW p \in Proc, Steps(p)
  PROVE  \/ /\ items' = items
            /\ pc[p] \notin {"key", "use", "locate"} \/ Kill(p) \/ Located(p)
            /\ pc'[p] \notin {"key", "use", "locate"} \/ Place(p)
            /\ interrupted' = interrupted \/ Kill(p)
            /\ allowed' = allowed \/ Kill(p) \/ Located(p)
         \/ Stores(p)
<1>0. pc \in [Proc -> {"closed", "format", "plate", "store", "open"} \cup Writing]
      /\ items \in [Doors -> Item]
  BY DEF IInv, TypeOK
<1>1. CASE FormatPlate(p)
  <2>1. pc[p] = "format" /\ pc'[p] = "plate" /\ allowed' = allowed /\ interrupted' = interrupted
    BY <1>0, <1>1 DEF FormatPlate, Goto
  <2>2. \A i \in Doors : items[i] = Zeroed
    BY <2>1 DEF IInv, MetaInv
  <2>3. items' = items
    BY <1>0, <1>1, <2>2 DEF FormatPlate
  <2> QED BY <2>1, <2>3
<1>2. CASE ~ FormatPlate(p)
  BY <1>0, <1>2 DEF Steps, Stores, OpenPlate, OpenStore, LockDb, Close, Fault, Write, Goto, Gone, Return,
     WriteStep, SwitchFile, AppendCell, AppendFails, Appended, Place, Located, Kill, disk
<1> QED BY <1>1, <1>2

\* The Write of p looks at item i.
LEMMA ItemOfCall ==
  ASSUME Settings, IInv, NEW p \in Proc, pc[p] \in Placing
  PROVE  LET k == call[p].key  i == CalcIndex(k) IN
         /\ k \in Key
         /\ i \in Doors \/ i = -1
         /\ i \in Doors /\ items[i].in_use => ItemKeyMatch(i, k)
         /\ pc[p] \in {"key", "use", "locate"} =>
              i \in Doors /\ (items[i].in_use <=> pc[p] = "locate") /\ (pc[p] # "key" => ItemKeyMatch(i, k))
<1> DEFINE k == call[p].key
           i == CalcIndex(k)
<1>1. k \in Key
  BY CallType DEF Writing
<1>2. /\ i \in Doors \/ i = -1
      /\ i \in Doors => (items[i].in_use => ItemKeyMatch(i, k))
  BY <1>1, IndexStops DEF ItemTryPlace
<1>3. pc[p] \in {"key", "use", "locate"} =>
        i \in Doors /\ (items[i].in_use <=> pc[p] = "locate") /\ (pc[p] # "key" => ItemKeyMatch(i, k))
  BY DEF IInv, PathInv
<1> HIDE DEF k, i
<1>4. /\ k \in Key
      /\ i \in Doors \/ i = -1
      /\ i \in Doors /\ items[i].in_use => ItemKeyMatch(i, k)
      /\ pc[p] \in {"key", "use", "locate"} =>
           i \in Doors /\ (items[i].in_use <=> pc[p] = "locate") /\ (pc[p] # "key" => ItemKeyMatch(i, k))
  BY <1>1, <1>2, <1>3
<1> QED BY <1>4 DEF k, i

LEMMA StoresIs ==
  ASSUME Settings, IInv, NEW p \in Proc, Stores(p)
  PROVE  \E k \in Key, i \in Doors :
         /\ k = call[p].key /\ i = CalcIndex(k) /\ Written(p, i, k)
         /\ call' = call /\ interrupted' = interrupted
         /\ items[i].in_use <=> LocateWord(p)
         /\ allowed' = allowed \/ LocateWord(p)
<1>0. /\ pc \in [Proc -> {"closed", "format", "plate", "store", "open"} \cup Writing]
      /\ items \in [Doors -> Item]
  BY DEF IInv, TypeOK
<1>1. /\ pc[p] \in {"key", "use", "locate"} /\ call' = call /\ interrupted' = interrupted
      /\ pc[p] = "locate" <=> LocateWord(p)
      /\ allowed' = allowed \/ LocateWord(p)
  BY DEF Stores, CopyByte, SetKeySize, Use, LocateWord
<1>2. PICK k \in Key, i \in Doors :
         /\ k = call[p].key /\ i = CalcIndex(k)
         /\ items[i].in_use <=> pc[p] = "locate"
         /\ pc[p] # "key" => ItemKeyMatch(i, k)
  BY <1>1, ItemOfCall DEF Placing
<1>3. items[i] \in Item /\ (~ items[i].in_use => items[i].location = Nowhere)
  BY <1>0, <1>2 DEF IInv, PathInv
<1>4. Written(p, i, k)
  <2>1. CASE CopyByte(p)
    <3>1. PICK j : items' = [items EXCEPT ![i].key[j] = k[j]]
      BY <2>1, <1>2 DEF CopyByte
    <3>2. pc[p] = "key" /\ pc' = pc
      BY <2>1 DEF CopyByte
    <3>3. items'[i].in_use = items[i].in_use /\ items'[i].location = items[i].location
      BY <3>1, <1>0, <1>2, <1>3 DEF Item
    <3>4. \A q \in Doors : q # i => items'[q] = items[q]
      BY <3>1, <1>0
    <3> QED BY <3>2, <3>3, <3>4, <1>2, <1>3 DEF Written
  <2>2. CASE SetKeySize(p)
    <3>1. /\ pc[p] = "key" /\ pc'[p] = "use" /\ KeyCopied(i, k)
          /\ items' = [items EXCEPT ![i].key_size = Len(k)]
      BY <2>2, <1>0, <1>2 DEF SetKeySize, Goto
    <3>2. /\ items'[i].in_use = items[i].in_use /\ items'[i].location = items[i].location
          /\ items'[i].key = items[i].key /\ items'[i].key_size = Len(k)
      BY <3>1, <1>0, <1>2, <1>3 DEF Item
    <3>3. \A q \in Doors : q # i => items'[q] = items[q]
      BY <3>1, <1>0
    <3>4. ItemKeyMatch(i, k)'
      BY <3>1, <3>2 DEF ItemKeyMatch, KeyCopied
    <3> QED BY <3>1, <3>2, <3>3, <3>4, <1>2, <1>3 DEF Written
  <2>3. CASE Use(p)
    <3>1. pc[p] = "use" /\ pc'[p] = "locate" /\ items' = [items EXCEPT ![i].in_use = TRUE]
      BY <2>3, <1>0, <1>2 DEF Use, Goto
    <3>2. /\ items'[i].in_use = TRUE
          /\ items'[i].key = items[i].key /\ items'[i].key_size = items[i].key_size
      BY <3>1, <1>0, <1>2, <1>3 DEF Item
    <3>3. \A q \in Doors : q # i => items'[q] = items[q]
      BY <3>1, <1>0
    <3>4. ItemKeyMatch(i, k)'
      BY <3>1, <3>2, <1>2 DEF ItemKeyMatch, KeyCopied
    <3> QED BY <3>1, <3>2, <3>3, <3>4 DEF Written
  <2>4. CASE LocateWord(p)
    <3>1. pc[p] = "locate" /\ pc' = pc /\ \E l : items' = [items EXCEPT ![i].location = l]
      BY <2>4, <1>2 DEF LocateWord
    <3>2. /\ items'[i].in_use = items[i].in_use
          /\ items'[i].key = items[i].key /\ items'[i].key_size = items[i].key_size
      BY <3>1, <1>0, <1>2, <1>3 DEF Item
    <3>3. \A q \in Doors : q # i => items'[q] = items[q]
      BY <3>1, <1>0
    <3>4. ItemKeyMatch(i, k)'
      BY <3>1, <3>2, <1>2 DEF ItemKeyMatch, KeyCopied
    <3> QED BY <3>1, <3>2, <3>3, <3>4, <1>2 DEF Written
  <2> QED BY <2>1, <2>2, <2>3, <2>4 DEF Stores
<1>5. items[i].in_use <=> LocateWord(p)
  BY <1>1, <1>2
<1> QED BY <1>1, <1>2, <1>4, <1>5

\* One item is written, for a key that is looked for there: every key in the
\* table is found where it was.
LEMMA PathKept ==
  ASSUME Settings, IInv, NEW p \in Proc, NEW k \in Key, NEW i \in Doors,
         CalcIndex(k) = i, Written(p, i, k)
  PROVE  /\ \A j \in Doors : items'[j].in_use => \E m \in Key : ItemKeyMatch(j, m)'
         /\ \A j \in Doors, m \in Key : items'[j].in_use /\ ItemKeyMatch(j, m)' => CalcIndex(m)' = j
         /\ \A j \in Doors : ~ items'[j].in_use => items'[j].location = Nowhere
         /\ CalcIndex(k)' = i
<1>0. PathInv
  BY DEF IInv
<1>1. /\ \A j \in Doors : j # i => items'[j] = items[j]
      /\ items[i].in_use => items'[i].in_use
      /\ items'[i].in_use => ItemKeyMatch(i, k)'
      /\ ~ items'[i].in_use => items'[i].location = Nowhere
  BY DEF Written
<1>2. ItemTryPlace(i, k) /\ ItemTryPlace(i, k)'
  <2>1. ItemTryPlace(i, k)
    BY IndexStops
  <2> QED BY <2>1, <1>1 DEF ItemTryPlace
<1>3. ASSUME NEW m \in Key, m # k, NEW q \in Doors, ItemTryPlace(q, m)'
      PROVE  ItemTryPlace(q, m)
  <2>1. CASE q = i
    <3>1. ~ items'[i].in_use
      BY <2>1, <1>1, <1>3, OneKey DEF ItemTryPlace
    <3>2. ~ items[i].in_use
      BY <3>1, <1>1
    <3> QED BY <3>2, <2>1 DEF ItemTryPlace
  <2>2. CASE q # i
    BY <2>2, <1>1, <1>3, SameItem
  <2> QED BY <2>1, <2>2
<1>4. \A q \in Doors : ItemTryPlace(q, k)' => ItemTryPlace(q, k)
  BY <1>1, <1>2, SameItem
<1>5. CalcIndex(k)' = i
  BY <1>2, <1>4, IndexKept
<1>6. ASSUME NEW j \in Doors, NEW m \in Key, items'[j].in_use, ItemKeyMatch(j, m)'
      PROVE  CalcIndex(m)' = j
  <2>1. CASE j = i
    <3>1. m = k
      BY <2>1, <1>1, <1>6, OneKey
    <3> QED BY <3>1, <2>1, <1>5
  <2>2. CASE j # i
    <3>1. items[j].in_use /\ ItemKeyMatch(j, m)
      BY <2>2, <1>1, <1>6, SameItem
    <3>2. CalcIndex(m) = j
      BY <3>1, <1>0 DEF PathInv
    <3>3. m # k
      BY <3>2, <2>2
    <3>4. ItemTryPlace(j, m)'
      BY <1>6 DEF ItemTryPlace
    <3>5. \A q \in Doors : ItemTryPlace(q, m)' => ItemTryPlace(q, m)
      BY <3>3, <1>3
    <3> QED BY <3>2, <3>4, <3>5, IndexKept
  <2> QED BY <2>1, <2>2
<1>7. ASSUME NEW j \in Doors, items'[j].in_use
      PROVE  \E m \in Key : ItemKeyMatch(j, m)'
  <2>1. CASE j = i
    BY <2>1, <1>1, <1>7
  <2>2. CASE j # i
    <3>1. PICK m \in Key : ItemKeyMatch(j, m)
      BY <2>2, <1>0, <1>1, <1>7 DEF PathInv
    <3> QED BY <3>1, <2>2, <1>1, SameItem
  <2> QED BY <2>1, <2>2
<1>8. \A j \in Doors : ~ items'[j].in_use => items'[j].location = Nowhere
  BY <1>0, <1>1 DEF PathInv
<1> QED BY <1>5, <1>6, <1>7, <1>8

LEMMA PathStep ==
  ASSUME Settings, IInv, NEW p \in Proc, Steps(p)
  PROVE  PathInv'
<1> DEFINE OfTable == /\ \A j \in Doors : items'[j].in_use => \E m \in Key : ItemKeyMatch(j, m)'
                      /\ \A j \in Doors, m \in Key :
                            items'[j].in_use /\ ItemKeyMatch(j, m)' => CalcIndex(m)' = j
                      /\ \A j \in Doors : ~ items'[j].in_use => items'[j].location = Nowhere
           OfCall == pc'[p] \in {"key", "use", "locate"} =>
                       \E j \in Doors : /\ CalcIndex(call[p].key)' = j
                                        /\ items'[j].in_use <=> pc'[p] = "locate"
                                        /\ pc'[p] # "key" => ItemKeyMatch(j, call[p].key)'
<1>a. PathInv
  BY DEF IInv
<1>b. pc \in [Proc -> {"closed", "format", "plate", "store", "open"} \cup Writing]
  BY DEF IInv, TypeOK
<1>c. \A q \in Proc : q # p => pc'[q] = "closed"
  BY OneStep
<1>d. OfTable /\ OfCall => PathInv'
  BY <1>c DEF PathInv
<1>1. CASE items' = items /\ (pc'[p] \notin {"key", "use", "locate"} \/ Place(p))
  <2>1. OfTable
    BY <1>1, <1>a, SameIndex DEF PathInv
  <2>2. CASE pc'[p] \notin {"key", "use", "locate"}
    BY <2>1, <2>2, <1>d
  <2>3. CASE Place(p) /\ pc'[p] \in {"key", "use", "locate"}
    <3>0. pc[p] \in Placing
      BY <2>3 DEF Place, Placing
    <3>1. PICK k : k = call[p].key
      OBVIOUS
    <3>2. PICK i : i = CalcIndex(k)
      OBVIOUS
    <3>3. ~ (i < 0) /\ call' = call /\ pc'[p] = (IF items[i].in_use THEN "locate" ELSE "key")
      BY <1>b, <2>3, <3>1, <3>2 DEF Place, Goto, Return
    <3>4. i \in Doors /\ (items[i].in_use => ItemKeyMatch(i, k))
      BY <3>0, <3>1, <3>2, <3>3, ItemOfCall
    <3>5. CalcIndex(k)' = i /\ (ItemKeyMatch(i, k) => ItemKeyMatch(i, k)')
      BY <1>1, <3>2, SameIndex
    <3>6. call'[p].key = k /\ items'[i].in_use = items[i].in_use
      BY <1>1, <3>1, <3>3
    <3>7. OfCall
      BY <3>3, <3>4, <3>5, <3>6
    <3> HIDE DEF OfTable, OfCall
    <3> QED BY <3>7, <2>1, <1>d
  <2> QED BY <1>1, <2>2, <2>3
<1>2. CASE Stores(p)
  <2>1. PICK k \in Key, i \in Doors :
           k = call[p].key /\ i = CalcIndex(k) /\ Written(p, i, k) /\ call' = call
    BY <1>2, StoresIs
  <2>2. OfTable /\ CalcIndex(k)' = i
    BY <2>1, PathKept
  <2>3. OfCall
    BY <2>1, <2>2 DEF Written
  <2> HIDE DEF OfTable, OfCall
  <2> QED BY <2>2, <2>3, <1>d
<1> HIDE DEF OfTable, OfCall
<1> QED BY <1>1, <1>2, TableSteps

-----------------------------------------------------------------------------
(* What kills leave in a free item.                                         *)

\* Where no item is written, or another one, a source stays one.
LEMMA SourceKept ==
  ASSUME Settings, IInv, NEW p \in Proc, Steps(p), NEW i \in Doors, NEW k \in Key, Source(i, k),
         ~ Stores(p) \/ CalcIndex(call[p].key) # i
  PROVE  Source(i, k)'
<1>0. \A q \in Proc : q # p => pc[q] = "closed"
  BY OneStep
<1>1. CASE k \in interrupted
  <2>1. interrupted \subseteq interrupted'
    <3>1. CASE Stores(p)
      BY <3>1, StoresIs
    <3>2. CASE ~ Stores(p)
      BY <3>2, TableSteps DEF Kill
    <3> QED BY <3>1, <3>2
  <2> QED BY <1>1, <2>1 DEF Source
<1>2. CASE k \notin interrupted
  <2>1. pc[p] \in {"key", "use"} /\ call[p].key = k /\ CalcIndex(k) = i
    BY <1>0, <1>2 DEF Source
  <2>2. ~ Stores(p) /\ ~ Located(p)
    BY <2>1 DEF Located
  <2>3. Kill(p)
    BY <2>1, <2>2, TableSteps
  <2> QED BY <2>1, <2>3 DEF Kill, Source
<1> QED BY <1>1, <1>2

\* FreeInv of one item.
FreeFits(i) ==
  ~items[i].in_use /\ items[i].key_size # 0 =>
     /\ \E k \in Key : Source(i, k) /\ Len(k) = items[i].key_size
     /\ \A j \in 1 .. items[i].key_size :
           \E k \in Key : Source(i, k) /\ j <= Len(k) /\ k[j] = items[i].key[j]

LEMMA FreeKept ==
  ASSUME Settings, IInv, NEW i \in Doors, items'[i] = items[i],
         \A k \in Key : Source(i, k) => Source(i, k)'
  PROVE  FreeFits(i)'
<1>1. FreeFits(i)
  BY DEF IInv, FreeInv, FreeFits
<1>2. SUFFICES ASSUME ~ items'[i].in_use, items'[i].key_size # 0
      PROVE  /\ \E k \in Key : Source(i, k)' /\ Len(k) = items'[i].key_size
             /\ \A j \in 1 .. items'[i].key_size :
                  \E k \in Key : Source(i, k)' /\ j <= Len(k) /\ k[j] = items'[i].key[j]
  BY DEF FreeFits
<1> QED BY <1>1, <1>2 DEF FreeFits

LEMMA FreeStep ==
  ASSUME Settings, IInv, NEW p \in Proc, Steps(p)
  PROVE  FreeInv'
<1>a. (\A i \in Doors : FreeFits(i)') => FreeInv'
  BY DEF FreeInv, FreeFits
<1>b. \A q \in Proc : q # p => pc[q] = "closed" /\ pc'[q] = "closed"
  BY OneStep
<1>1. CASE ~ Stores(p)
  <2>1. items' = items
    BY <1>1, TableSteps
  <2>2. \A i \in Doors : FreeFits(i)'
    BY <1>1, <2>1, SourceKept, FreeKept
  <2> QED BY <2>2, <1>a
<1>2. CASE Stores(p)
  <2>1. PICK k \in Key, i \in Doors :
           /\ k = call[p].key /\ i = CalcIndex(k) /\ Written(p, i, k)
           /\ call' = call /\ interrupted' = interrupted
    BY <1>2, StoresIs
  <2>2. ASSUME NEW j \in Doors, j # i
        PROVE  FreeFits(j)'
    <3>1. items'[j] = items[j]
      BY <2>1, <2>2 DEF Written
    <3>2. \A m \in Key : Source(j, m) => Source(j, m)'
      BY <2>1, <2>2, SourceKept
    <3> QED BY <3>1, <3>2, FreeKept
  <2>3. FreeFits(i)'
    <3>0. CalcIndex(k)' = i
      BY <2>1, PathKept
    <3>1. CASE pc'[p] = "locate"
      BY <3>1, <2>1 DEF FreeFits, Written
    <3>2. CASE pc'[p] = "use"
      <4>1. Source(i, k)'
        BY <3>0, <3>2, <2>1 DEF Source
      <4>2. items'[i].key_size = Len(k) /\ \A j \in 1 .. Len(k) : items'[i].key[j] = k[j]
        BY <3>2, <2>1 DEF Written, ItemKeyMatch, KeyCopied
      <4>3. \A j \in 1 .. Len(k) : j <= Len(k)
        BY KeyType
      <4>4. SUFFICES /\ \E m \in Key : Source(i, m)' /\ Len(m) = items'[i].key_size
                     /\ \A j \in 1 .. items'[i].key_size :
                          \E m \in Key : Source(i, m)' /\ j <= Len(m) /\ m[j] = items'[i].key[j]
        BY DEF FreeFits
      <4> QED BY <4>1, <4>2, <4>3
    <3>3. CASE pc'[p] = "key"
      <4>0. /\ pc \in [Proc -> {"closed", "format", "plate", "store", "open"} \cup Writing]
            /\ items \in [Doors -> Item]
        BY DEF IInv, TypeOK
      <4>1. CopyByte(p)
        BY <3>3, <4>0, <1>2 DEF Stores, SetKeySize, Use, LocateWord, Goto
      <4>2. Source(i, k)'
        BY <3>0, <3>3, <2>1 DEF Source
      <4>3. \A m \in Key : Source(i, m) => Source(i, m)'
        <5>1. SUFFICES ASSUME NEW m \in Key, Source(i, m) PROVE Source(i, m)'
          OBVIOUS
        <5>2. m \in interrupted \/ m = k
          BY <1>b, <2>1, <5>1 DEF Source
        <5> QED BY <5>2, <4>2, <2>1 DEF Source
      <4>4. PICK n \in 1 .. Len(k) : items' = [items EXCEPT ![i].key[n] = k[n]]
        BY <4>1, <2>1 DEF CopyByte
      <4>5. /\ items'[i].key_size = items[i].key_size /\ items'[i].in_use = items[i].in_use
            /\ \A j \in 1 .. kMaxKeyLen : items'[i].key[j] = IF j = n THEN k[n] ELSE items[i].key[j]
            /\ items[i].key_size \in 0 .. kMaxKeyLen
        BY <4>0, <4>4 DEF Item
      <4>6. FreeFits(i)
        BY DEF IInv, FreeInv, FreeFits
      <4>7. SUFFICES ASSUME ~ items'[i].in_use, items'[i].key_size # 0
            PROVE  /\ \E m \in Key : Source(i, m)' /\ Len(m) = items'[i].key_size
                   /\ \A j \in 1 .. items'[i].key_size :
                        \E m \in Key : Source(i, m)' /\ j <= Len(m) /\ m[j] = items'[i].key[j]
        BY DEF FreeFits
      <4>8. \E m \in Key : Source(i, m)' /\ Len(m) = items'[i].key_size
        BY <4>3, <4>5, <4>6, <4>7 DEF FreeFits
      <4>9. ASSUME NEW j \in 1 .. items'[i].key_size
            PROVE  \E m \in Key : Source(i, m)' /\ j <= Len(m) /\ m[j] = items'[i].key[j]
        <5>1. j \in 1 .. items[i].key_size /\ j \in 1 .. kMaxKeyLen
          <6>1. kMaxKeyLen \in Nat
            BY DEF Settings, KeysAssumption
          <6> QED BY <6>1, <4>5, <4>9
        <5>2. CASE j = n
          <6>1. n <= Len(k)
            BY KeyType
          <6> QED BY <5>1, <5>2, <6>1, <4>2, <4>5
        <5>3. CASE j # n
          <6>1. PICK m \in Key : Source(i, m) /\ j <= Len(m) /\ m[j] = items[i].key[j]
            BY <4>5, <4>6, <4>7, <5>1 DEF FreeFits
          <6> QED BY <5>1, <5>3, <6>1, <4>3, <4>5
        <5> QED BY <5>2, <5>3
      <4> QED BY <4>8, <4>9
    <3> QED BY <3>1, <3>2, <3>3, <2>1 DEF Written
  <2>4. \A j \in Doors : FreeFits(j)'
    BY <2>2, <2>3
  <2> QED BY <2>4, <1>a
<1> QED BY <1>1, <1>2

-----------------------------------------------------------------------------
(* What Read may return.                                                    *)

\* AllowedInv of one item in use, of one key.
Waits(k) == \E p \in Proc : Locating(k, p)
UsedFits(i, k) ==
  LET l == items[i].location IN
  \/ Mixed \in allowed[k]
  \/ \E v \in allowed[k] \cap Value : Holds(l, v)
  \/ \E p \in Proc : Locating(k, p) /\ l = call[p].location
  \/ l.len = 0 /\ (NoCells \in allowed[k] \/ (Absent \in allowed[k] /\ Waits(k)))

HasItem(i, k) == items[i].in_use /\ ItemKeyMatch(i, k)
Missing(k) == \A i \in Doors : ~ HasItem(i, k)

LEMMA AllowedIs ==
  AllowedInv <=>
    /\ \A i \in Doors, k \in Key : HasItem(i, k) => UsedFits(i, k)
    /\ \A k \in Key : Missing(k) => Absent \in allowed[k]
BY DEF AllowedInv, UsedFits, Missing, HasItem, Waits

LEMMA AllowedIsNext ==
  AllowedInv' <=>
    /\ \A i \in Doors, k \in Key : HasItem(i, k)' => UsedFits(i, k)'
    /\ \A k \in Key : Missing(k)' => Absent \in allowed'[k]
BY DEF AllowedInv, UsedFits, Missing, HasItem, Waits

\* Only the process that steps can be in a Write.
LEMMA LocatingIs ==
  ASSUME Settings, IInv, NEW p \in Proc, Steps(p), NEW k
  PROVE  /\ \A q \in Proc : Locating(k, q) => q = p
         /\ Waits(k) <=> pc[p] = "locate" /\ call[p].key = k
         /\ Waits(k)' <=> pc'[p] = "locate" /\ call'[p].key = k
<1>1. \A q \in Proc : q # p => pc[q] = "closed" /\ pc'[q] = "closed"
  BY OneStep
<1>2. Waits(k)' <=> \E q \in Proc : pc'[q] = "locate" /\ call'[q].key = k
  BY DEF Waits, Locating
<1> QED BY <1>1, <1>2 DEF Waits, Locating

\* An item that is left as it is still fits, when its key keeps what was allowed
\* and its Write does not end.
LEMMA UsedKept ==
  ASSUME Settings, IInv, NEW p \in Proc, Steps(p), NEW i \in Doors, NEW k \in Key,
         HasItem(i, k), items'[i] = items[i],
         allowed[k] \subseteq allowed'[k],
         ~ (pc[p] = "locate" /\ call[p].key = k)
  PROVE  UsedFits(i, k)'
<1>1. UsedFits(i, k) /\ TypeOK /\ TypeOK' /\ Grown
  BY AllowedIs, TypeStep, FilesGrow DEF IInv
<1>2. PICK l \in Location : l = items[i].location
  BY DEF IInv, TypeOK, Item
<1>3. items'[i].location = l
  BY <1>2
<1>4. ~ Waits(k) /\ \A q \in Proc : ~ Locating(k, q)
  BY LocatingIs DEF Locating
<1>5. CASE \E v \in allowed[k] \cap Value : Holds(l, v)
  <2>1. PICK v \in allowed[k] \cap Value : Holds(l, v)
    BY <1>5
  <2>2. Holds(l, v)'
    BY <1>1, <2>1, HoldsKept
  <2>3. v \in allowed'[k] \cap Value
    OBVIOUS
  <2>4. Holds(items[i].location, v)'
    BY <2>2, <1>3 DEF Holds
  <2> QED BY <2>3, <2>4, <1>3 DEF UsedFits
<1>6. CASE Mixed \in allowed[k]
  BY <1>6 DEF UsedFits
<1>7. CASE l.len = 0 /\ NoCells \in allowed[k]
  BY <1>3, <1>7 DEF UsedFits
<1> QED BY <1>1, <1>2, <1>4, <1>5, <1>6, <1>7 DEF UsedFits

LEMMA AllowedStep ==
  ASSUME Settings, IInv, NEW p \in Proc, Steps(p)
  PROVE  AllowedInv'
<1>a. /\ TypeOK /\ PathInv
      /\ allowed \in [Key -> SUBSET (Value \cup {Absent, NoCells, Mixed})]
      /\ pc \in [Proc -> {"closed", "format", "plate", "store", "open"} \cup Writing]
  BY DEF IInv, TypeOK
<1>b. \A i \in Doors, k \in Key : HasItem(i, k) => CalcIndex(k) = i /\ UsedFits(i, k)
  BY AllowedIs DEF IInv, PathInv, HasItem
<1>c. \A k \in Key : Missing(k) => Absent \in allowed[k]
  BY AllowedIs DEF IInv
<1>d. items' = items => \A i, k : HasItem(i, k)' <=> HasItem(i, k)
  BY SameIndex DEF HasItem
<1>1. CASE items' = items /\ allowed' = allowed /\ pc[p] # "locate"
  <2>1. ASSUME NEW i \in Doors, NEW k \in Key, HasItem(i, k)'
        PROVE  UsedFits(i, k)'
    BY <2>1, <1>1, <1>d, UsedKept
  <2>2. \A k \in Key : Missing(k)' => Absent \in allowed'[k]
    BY <1>1, <1>c, <1>d DEF Missing
  <2> QED BY <2>1, <2>2, AllowedIsNext
<1>2. CASE Kill(p)
  <2>1. items' = items /\ files' = files
    BY <1>2 DEF Kill, disk
  <2>2. \A k \in Key : allowed[k] \subseteq allowed'[k]
    BY <1>2, <1>a DEF Kill
  <2>3. ASSUME NEW i \in Doors, NEW k \in Key, HasItem(i, k)'
        PROVE  UsedFits(i, k)'
    <3>1. HasItem(i, k) /\ items'[i] = items[i] /\ UsedFits(i, k)
      BY <2>1, <2>3, <1>b, <1>d
    <3>2. CASE ~ (pc[p] = "locate" /\ call[p].key = k)
      BY <3>1, <3>2, <2>2, UsedKept
    <3>3. CASE pc[p] = "locate" /\ call[p].key = k
      <4>0. k # null
        BY DEF Settings, NullAssumption
      <4>1. allowed' = [allowed EXCEPT ![k] = @ \cup {call[p].value} \cup
                                                (IF Absent \in @ THEN {NoCells} ELSE {})]
        BY <1>2, <3>3, <4>0 DEF Kill
      <4>2. call[p].value \in Value /\ Holds(call[p].location, call[p].value)
        BY <3>3 DEF IInv, AppendInv, Writing, Placing
      <4> PICK l : l = items[i].location
        OBVIOUS
      <4>3. items'[i].location = l
        BY <3>1
      <4>4. \/ Mixed \in allowed[k]
            \/ \E v \in allowed[k] \cap Value : Holds(l, v)
            \/ l = call[p].location
            \/ l.len = 0 /\ (NoCells \in allowed[k] \/ Absent \in allowed[k])
        BY <3>1, LocatingIs DEF UsedFits
      <4>5. /\ \A x \in allowed[k] : x \in allowed'[k]
            /\ call[p].value \in allowed'[k]
            /\ Absent \in allowed[k] => NoCells \in allowed'[k]
        BY <4>1, <1>a
      <4>6. \A v : Holds(l, v) => Holds(l, v)'
        BY <2>1 DEF Holds
      <4>7. \/ Mixed \in allowed'[k]
            \/ \E v \in allowed'[k] \cap Value : Holds(l, v)'
            \/ l.len = 0 /\ NoCells \in allowed'[k]
        BY <4>2, <4>4, <4>5, <4>6
      <4>8. \A v : Holds(l, v)' <=> Holds(items[i].location, v)'
        BY <4>3 DEF Holds
      <4> QED BY <4>3, <4>7, <4>8 DEF UsedFits
    <3> QED BY <3>2, <3>3
  <2>4. \A k \in Key : Missing(k)' => Absent \in allowed'[k]
    BY <2>1, <2>2, <1>c, <1>d DEF Missing
  <2> QED BY <2>3, <2>4, AllowedIsNext
<1>3. CASE Located(p)
  <2>0. pc[p] = "locate" /\ pc[p] \in Placing
    BY <1>3 DEF Located, Placing
  <2> PICK k \in Key : k = call[p].key
    BY <2>0, ItemOfCall
  <2> PICK i \in Doors : i = CalcIndex(k)
    BY <2>0, ItemOfCall
  <2> PICK v \in Value : v = call[p].value
    BY <2>0, CallType DEF Writing
  <2>1. /\ items' = items /\ files' = files /\ allowed' = [allowed EXCEPT ![k] = {v}]
        /\ items[i].location = call[p].location
    BY <1>3 DEF Located, disk
  <2>2. allowed'[k] = {v} /\ \A m \in Key : m # k => allowed'[m] = allowed[m]
    BY <2>1, <1>a
  <2>3. HasItem(i, k) /\ Holds(items[i].location, v)'
    <3>1. HasItem(i, k)
      BY <2>0, ItemOfCall DEF HasItem
    <3>2. Holds(items[i].location, v)
      BY <2>0, <2>1 DEF IInv, AppendInv, Writing
    <3>3. Holds(items[i].location, v)'
      BY <3>2, <2>1 DEF Holds
    <3> QED BY <3>1, <3>3
  <2>4. ASSUME NEW j \in Doors, NEW m \in Key, HasItem(j, m)'
        PROVE  UsedFits(j, m)'
    <3>1. HasItem(j, m) /\ items'[j] = items[j] /\ CalcIndex(m) = j
      BY <2>1, <2>4, <1>b, <1>d
    <3>2. CASE m = k
      <4>1. j = i /\ v \in allowed'[m] \cap Value
        BY <3>1, <3>2, <2>2
      <4> QED BY <4>1, <2>3 DEF UsedFits
    <3>3. CASE m # k
      BY <3>1, <3>3, <2>2, UsedKept
    <3> QED BY <3>2, <3>3
  <2>5. \A m \in Key : Missing(m)' => Absent \in allowed'[m]
    BY <2>1, <2>2, <2>3, <1>c, <1>d DEF Missing
  <2> QED BY <2>4, <2>5, AllowedIsNext
<1>4. CASE Stores(p)
  <2>1. PICK k \in Key, i \in Doors :
           /\ k = call[p].key /\ i = CalcIndex(k) /\ Written(p, i, k) /\ call' = call
           /\ items[i].in_use <=> LocateWord(p)
           /\ allowed' = allowed \/ LocateWord(p)
    BY <1>4, StoresIs
  <2>2. pc[p] = "locate" <=> LocateWord(p)
    BY <1>4 DEF Stores, CopyByte, SetKeySize, Use, LocateWord
  <2>3. \A j \in Doors : j # i => items'[j] = items[j] /\ \A m : HasItem(j, m)' <=> HasItem(j, m)
    BY <2>1, SameItem DEF Written, HasItem
  <2>4. \A m \in Key : m # k => allowed'[m] = allowed[m]
    BY <2>1, <1>a DEF LocateWord
  <2>5. ASSUME NEW j \in Doors, j # i, NEW m \in Key, HasItem(j, m)'
        PROVE  UsedFits(j, m)'
    <3>1. HasItem(j, m) /\ items'[j] = items[j] /\ m # k
      BY <2>1, <2>3, <2>5, <1>b
    <3> QED BY <3>1, <2>1, <2>4, UsedKept
  <2>6. ASSUME NEW m \in Key, HasItem(i, m)'
        PROVE  UsedFits(i, m)'
    <3>1. pc'[p] = "locate" /\ m = k
      <4>1. pc'[p] = "locate" /\ ItemKeyMatch(i, k)'
        BY <2>1, <2>6 DEF Written, HasItem
      <4> QED BY <4>1, <2>6, OneKey DEF HasItem
    <3>w. Waits(k)'
      BY <3>1, <2>1, LocatingIs
    <3>2. CASE Use(p)
      <4>1. Missing(k)
        <5>1. ~ items[i].in_use
          BY <3>2, <2>1 DEF Use, LocateWord
        <5> QED BY <5>1, <2>1, <1>b DEF Missing, HasItem
      <4>2. Absent \in allowed'[k]
        BY <4>1, <1>c, <2>1, <3>2 DEF Use, LocateWord
      <4>3. items'[i].location = Nowhere
        <5>1. items \in [Doors -> Item] /\ items[i].location = Nowhere
          BY <1>a, <2>1, <3>2 DEF TypeOK, PathInv, Use, LocateWord
        <5>2. items' = [items EXCEPT ![i].in_use = TRUE]
          BY <3>2, <2>1 DEF Use
        <5> QED BY <5>1, <5>2 DEF Item
      <4>4. items'[i].location.len = 0
        BY <4>3 DEF Nowhere
      <4> QED BY <3>1, <3>w, <4>2, <4>4 DEF UsedFits
    <3>3. CASE LocateWord(p)
      <4> DEFINE c == call[p].location
                 l == items[i].location
                 next == NextWord(l, c)
      <4>0. pc[p] = "locate" /\ l # c
            /\ items' = [items EXCEPT ![i].location = next]
            /\ allowed' = [allowed EXCEPT ![k] = IF next = c THEN @ \ {Mixed}
                                                 ELSE IF l.len # 0 THEN @ \cup {Mixed} ELSE @]
        BY <3>3, <2>1 DEF LocateWord
      <4>1. l \in Location /\ c \in Location /\ items \in [Doors -> Item]
        BY <1>a, <4>0, CallType DEF TypeOK, Item, Writing, Placing
      <4>2. items'[i].location = next
        BY <4>0, <4>1 DEF Item
      <4>3. next = c \/ next.len = l.len
        BY <4>1, WordType
      <4>h. HasItem(i, k)
        BY <4>0, <2>1, ItemOfCall DEF HasItem, Placing
      <4> HIDE DEF c, l, next
      <4>4. CASE next = c
        <5>1. Locating(k, p)' /\ items'[i].location = call'[p].location
          BY <3>1, <4>2, <4>4, <2>1 DEF Locating, c
        <5> QED BY <5>1, <3>1 DEF UsedFits
      <4>5. CASE next # c /\ l.len # 0
        <5>1. Mixed \in allowed'[k]
          BY <4>0, <4>5, <1>a
        <5> QED BY <5>1, <3>1 DEF UsedFits
      <4>6. CASE next # c /\ l.len = 0
        <5>1. allowed'[k] = allowed[k]
          BY <4>0, <4>6, <1>a
        <5>2. \/ Mixed \in allowed[k]
              \/ \E v \in allowed[k] \cap Value : Holds(l, v)
              \/ l = c
              \/ l.len = 0 /\ (NoCells \in allowed[k] \/ Absent \in allowed[k])
          <6>1. UsedFits(i, k)
            BY <4>h, <1>b
          <6>2. \A q \in Proc : Locating(k, q) => q = p
            BY LocatingIs
          <6> QED BY <6>1, <6>2 DEF UsedFits, l, c
        <5>3. \A v \in Value : ~ Holds(l, v)
          BY <4>6, CellsType DEF Holds
        <5>4. Mixed \in allowed'[k] \/ NoCells \in allowed'[k] \/ Absent \in allowed'[k]
          BY <4>0, <5>1, <5>2, <5>3
        <5>5. items'[i].location.len = 0
          BY <4>2, <4>3, <4>6
        <5> QED BY <5>4, <5>5, <3>1, <3>w DEF UsedFits
      <4> QED BY <4>4, <4>5, <4>6
    <3>4. Use(p) \/ LocateWord(p)
      <4>1. pc'[p] # "locate" \/ Use(p) \/ LocateWord(p)
        BY <1>4, <1>a DEF Stores, CopyByte, SetKeySize, Goto
      <4> QED BY <4>1, <3>1
    <3> QED BY <3>2, <3>3, <3>4
  <2>7. ASSUME NEW m \in Key, Missing(m)'
        PROVE  Absent \in allowed'[m]
    <3>1. Missing(m)
      <4>1. ASSUME NEW j \in Doors, HasItem(j, m) PROVE FALSE
        <5>1. j = i
          BY <4>1, <2>3, <2>7 DEF Missing
        <5>2. CalcIndex(m) = i /\ items[i].in_use /\ ItemKeyMatch(i, m)
          BY <4>1, <5>1, <1>b DEF HasItem
        <5>3. LocateWord(p) /\ pc[p] = "locate"
          BY <5>2, <2>1, <2>2
        <5>4. ItemKeyMatch(i, k)
          BY <5>3, <2>1, ItemOfCall DEF Placing
        <5>5. m = k
          BY <5>2, <5>4, OneKey
        <5>6. items'[i].in_use /\ pc'[p] = "locate" /\ ItemKeyMatch(i, k)'
          BY <5>2, <2>1 DEF Written
        <5> QED BY <5>5, <5>6, <2>7 DEF Missing, HasItem
      <4> QED BY <4>1 DEF Missing
    <3>2. Absent \in allowed[m]
      BY <3>1, <1>c
    <3>3. Absent # Mixed
      BY DEF Absent, Mixed
    <3> QED BY <3>2, <3>3, <2>1, <1>a DEF LocateWord
  <2>8. \A j \in Doors, m \in Key : HasItem(j, m)' => UsedFits(j, m)'
    BY <2>5, <2>6
  <2> QED BY <2>7, <2>8, AllowedIsNext
<1>5. pc[p] = "locate" => Stores(p) \/ Located(p) \/ Kill(p)
  BY TableSteps
<1> QED BY <1>1, <1>2, <1>3, <1>4, <1>5, TableSteps

-----------------------------------------------------------------------------
(* The invariant.                                                           *)

LEMMA InvInit ==
  ASSUME Settings, Init
  PROVE  IInv
<1>a. kMaxDoorCnt \in Nat \ {0}
  BY DEF Settings, HashAssumption
<1>0. /\ DOMAIN items = Doors
      /\ \A i \in Doors : items[i] = Zeroed
  BY DEF Init, Doors
<1>1. TypeOK
  <2>1. items \in [Doors -> Item]
    BY ItemType DEF Init, Doors
  <2>2. files \in Seq(Seq(Cell)) /\ meta \in {"none", "empty", "ready"}
    BY DEF Init
  <2>3. /\ pc \in [Proc -> {"closed", "format", "plate", "store", "open"} \cup Writing]
        /\ allowed \in [Key -> SUBSET (Value \cup {Absent, NoCells, Mixed})]
        /\ interrupted \in SUBSET Key
    BY DEF Init
  <2>4. next_location \in [Proc -> Location]
    BY NowhereType DEF Init
  <2>5. call \in [Proc -> [key : Key \cup {null}, value : Value \cup {null},
                          location : Location, left : Seq(Cell)]]
    BY NowhereType, Zenon DEF Init
  <2> QED BY <2>1, <2>2, <2>3, <2>4, <2>5 DEF TypeOK
<1>2. OneProcess /\ MetaInv
  BY <1>0 DEF Init, OneProcess, MetaInv, Writing, Placing
<1>3. \A p \in Proc : AppendInv(p)
  BY DEF Init, AppendInv, Writing, Placing
<1>5. \A i \in Doors : ~ items[i].in_use /\ items[i].location = Nowhere /\ items[i].key_size = 0
  BY <1>0 DEF Zeroed
<1>6. PathInv /\ FreeInv
  BY <1>5 DEF Init, PathInv, FreeInv
<1>7. AllowedInv
  BY <1>5 DEF Init, AllowedInv
<1> QED BY <1>1, <1>2, <1>3, <1>6, <1>7 DEF IInv

LEMMA InvSame ==
  ASSUME Settings, IInv, UNCHANGED vars
  PROVE  IInv'
<1> USE DEF vars, disk
<1>0. \A k : CalcIndex(k)' = CalcIndex(k) /\ \A i : ItemKeyMatch(i, k)' <=> ItemKeyMatch(i, k)
  BY SameIndex
<1>1. TypeOK' /\ OneProcess' /\ MetaInv'
  BY DEF IInv, TypeOK, OneProcess, MetaInv
<1>2. \A p \in Proc : AppendInv(p)'
  BY DEF IInv, AppendInv, Last, Holds
<1>3. PathInv'
  BY <1>0 DEF IInv, PathInv
<1>4. FreeInv'
  <2>1. \A i, k : Source(i, k)' <=> Source(i, k)
    BY <1>0 DEF Source
  <2> QED BY <2>1 DEF IInv, FreeInv
<1>5. AllowedInv'
  <2>1. items' = items /\ allowed' = allowed /\ call' = call
    OBVIOUS
  <2>2. \A l, v : Holds(l, v)' <=> Holds(l, v)
    BY DEF Holds
  <2>3. \A k, p : Locating(k, p)' <=> Locating(k, p)
    BY DEF Locating
  <2>4. AllowedInv
    BY DEF IInv
  <2> QED BY <1>0, <2>1, <2>2, <2>3, <2>4 DEF AllowedInv
<1> QED BY <1>1, <1>2, <1>3, <1>4, <1>5 DEF IInv

LEMMA InvStep ==
  ASSUME Settings, IInv, [Next]_vars
  PROVE  IInv'
<1>1. CASE UNCHANGED vars
  BY <1>1, InvSame
<1>2. CASE Next
  <2>1. PICK p \in Proc : Steps(p)
    BY <1>2 DEF Next, Steps
  <2>2. \A q \in Proc : AppendInv(q)'
    BY <2>1, AppendStep, AppendOthers
  <2>3. TypeOK' /\ OneProcess' /\ MetaInv' /\ PathInv' /\ FreeInv' /\ AllowedInv'
    BY <2>1, TypeStep, OneStep, MetaStep, PathStep, FreeStep, AllowedStep
  <2> QED BY <2>2, <2>3 DEF IInv
<1> QED BY <1>1, <1>2

-----------------------------------------------------------------------------
(* Read and Range.                                                          *)

\* A place that holds a value reads as that value, and no other.
LEMMA HeldValue ==
  ASSUME Settings, TypeOK, NEW l \in Location, NEW v \in Value, Holds(l, v)
  PROVE  ValueAt(l) = v
<1> DEFINE f == files[l.file_no + 1]
           cells == SubSeq(f, l.offset + 1, l.offset + l.len)
<1>1. l.file_no \in Nat /\ l.offset \in Nat /\ l.len \in Nat /\ files \in Seq(Seq(Cell))
  BY DEF Location, TypeOK
<1>2. l.file_no + 1 \in 1 .. Len(files) /\ Len(files) \in Nat
  BY <1>1 DEF Holds
<1>3. f \in Seq(Cell) /\ Len(f) \in Nat
  BY <1>1, <1>2
<1>4. Size[v] \in Nat /\ Size[v] >= 1 /\ l.len = Size[v] /\ l.offset + l.len <= Len(f)
  BY CellsType DEF Holds
<1>5. cells = Cells(v)
  <2>1. \A i \in 1 .. Size[v] : f[l.offset + i] = <<v, i>>
    BY DEF Holds
  <2> HIDE DEF f
  <2>2. cells = [i \in 1 .. l.len |-> f[l.offset + i]]
    BY <1>1, <1>3, <1>4, SMTT(30)
  <2> QED BY <2>1, <2>2, <1>4 DEF Cells
<1>6. \A w \in Value : Cells(w) = cells => w = v
  <2> SUFFICES ASSUME NEW w \in Value, Cells(w) = Cells(v) PROVE w = v
    BY <1>5
  <2>1. 1 \in 1 .. Size[w] /\ 1 \in 1 .. Size[v]
    BY CellsType
  <2>2. Cells(w)[1] = <<w, 1>> /\ Cells(v)[1] = <<v, 1>>
    BY <2>1, CellsType
  <2> QED BY <2>2
<1>7. l.len # 0 /\ ~ (l.file_no >= Len(files)) /\ ~ (l.offset + l.len > Len(f))
  BY <1>1, <1>2, <1>3, <1>4
<1>8. ValueAt(l) = IF \E w \in Value : Cells(w) = cells THEN CHOOSE w \in Value : Cells(w) = cells ELSE Other
  BY <1>7 DEF ValueAt
<1> HIDE DEF f, cells
<1>9. (CHOOSE w \in Value : Cells(w) = cells) = v
  BY <1>5, <1>6
<1> QED BY <1>5, <1>8, <1>9

\* With no call in flight no item waits for its Write.
LEMMA NoneWaits ==
  ASSUME Settings, IInv, Quiet
  PROVE  \A p \in Proc : pc[p] \notin Writing
BY DEF Settings, NullAssumption, Quiet, IInv, AppendInv, NoCall

\* A lookup finds the item that its search stops at, if that has its key.
LEMMA Found ==
  ASSUME Settings, IInv, NEW k \in Key, NEW i \in Doors, CalcIndex(k) = i, ItemKeyMatch(i, k)
  PROVE  /\ Find(k) = items[i].location /\ Find(k) \in Location /\ Find(k) # null
         /\ Read(k) = ValueAt(items[i].location)
<1>2. items[i].location \in Location /\ null \notin Location
  BY DEF IInv, TypeOK, Item, Settings, NullAssumption
<1>3. ~ (i < 0)
  BY DEF Doors
<1>4. Find(k) = items[i].location
  BY <1>3 DEF Find
<1> QED BY <1>2, <1>4 DEF Read

LEMMA NotFound ==
  ASSUME Settings, IInv, NEW k \in Key, ~ (\E i \in Doors : CalcIndex(k) = i /\ ItemKeyMatch(i, k))
  PROVE  Read(k) = Absent
<1>1. CalcIndex(k) < 0 \/ ~ ItemKeyMatch(CalcIndex(k), k)
  BY IndexStops
<1>2. Find(k) = null
  BY <1>1 DEF Find
<1> QED BY <1>2 DEF Read

\* What the item of a key says is what Read may return.
LEMMA ItemAllowed ==
  ASSUME Settings, IInv, Quiet, NEW i \in Doors, NEW k \in Key, HasItem(i, k), Mixed \notin allowed[k]
  PROVE  ValueAt(items[i].location) \in allowed[k]
<1>1. UsedFits(i, k)
  BY AllowedIs DEF IInv
<1>2. \A p \in Proc : ~ Locating(k, p)
  BY NoneWaits DEF Locating, Writing, Placing
<1>3. CASE items[i].location.len = 0 /\ NoCells \in allowed[k]
  BY <1>3 DEF ValueAt
<1>4. CASE \E v \in allowed[k] \cap Value : Holds(items[i].location, v)
  <2>1. PICK v \in allowed[k] \cap Value : Holds(items[i].location, v)
    BY <1>4
  <2>2. items[i].location \in Location
    BY DEF IInv, TypeOK, Item
  <2>3. ValueAt(items[i].location) = v
    BY <2>1, <2>2, HeldValue DEF IInv
  <2> QED BY <2>1, <2>3
<1> QED BY <1>1, <1>2, <1>3, <1>4 DEF UsedFits, Waits

\* A free item has a key that was put together by kills.
LEMMA FreeComposed ==
  ASSUME Settings, IInv, Quiet, NEW i \in Doors, NEW k \in Key, ~ items[i].in_use, ItemKeyMatch(i, k)
  PROVE  Composed(k)
<1>1. \A m : Source(i, m) => m \in interrupted
  BY NoneWaits DEF Source, Writing, Placing
<1>2. items[i].key_size = Len(k) /\ \A j \in 1 .. Len(k) : items[i].key[j] = k[j]
  BY DEF ItemKeyMatch, KeyCopied
<1>3. Len(k) # 0
  BY KeyType
<1>4. /\ \E m \in Key : Source(i, m) /\ Len(m) = items[i].key_size
      /\ \A j \in 1 .. items[i].key_size :
            \E m \in Key : Source(i, m) /\ j <= Len(m) /\ m[j] = items[i].key[j]
  BY <1>2, <1>3 DEF IInv, FreeInv
<1> QED BY <1>1, <1>2, <1>4 DEF Composed

LEMMA ReadAllowed ==
  ASSUME Settings, IInv
  PROVE  ReadLatest
<1> SUFFICES ASSUME Quiet, NEW k \in Key, Mixed \notin allowed[k]
             PROVE  \/ Read(k) \in allowed[k]
                    \/ Read(k) = NoCells /\ Absent \in allowed[k] /\ Composed(k)
  BY DEF ReadLatest
<1>0. \A i \in Doors : HasItem(i, k) => CalcIndex(k) = i
  BY DEF IInv, PathInv, HasItem
<1>1. CASE \E i \in Doors : HasItem(i, k)
  BY <1>0, <1>1, Found, ItemAllowed DEF HasItem
<1>2. CASE Missing(k)
  <2>1. Absent \in allowed[k]
    BY <1>2, AllowedIs DEF IInv
  <2>2. CASE \E i \in Doors : CalcIndex(k) = i /\ ItemKeyMatch(i, k)
    <3>1. PICK i \in Doors : CalcIndex(k) = i /\ ItemKeyMatch(i, k)
      BY <2>2
    <3>2. ~ items[i].in_use
      BY <3>1, <1>2 DEF Missing, HasItem
    <3>3. items[i].location = Nowhere
      BY <3>2 DEF IInv, PathInv
    <3>4. Read(k) = NoCells
      BY <3>1, <3>3, Found DEF ValueAt, Nowhere
    <3>5. Composed(k)
      BY <3>1, <3>2, FreeComposed
    <3> QED BY <2>1, <3>4, <3>5
  <2>3. CASE ~ (\E i \in Doors : CalcIndex(k) = i /\ ItemKeyMatch(i, k))
    BY <2>1, <2>3, NotFound
  <2> QED BY <2>2, <2>3
<1> QED BY <1>1, <1>2 DEF Missing

\* What Range gives for an item.
Pair(i) == <<SubSeq(items[i].key, 1, items[i].key_size), ValueAt(items[i].location)>>

LEMMA RangeRead ==
  ASSUME Settings, IInv
  PROVE  RangeAgrees
<1> SUFFICES ASSUME Quiet
    PROVE  /\ \A r \in RangeAll : r[2] = Read(r[1])
           /\ \A k \in Key : Read(k) \notin {Absent, NoCells} => <<k, Read(k)>> \in RangeAll
           /\ Cardinality(RangeAll) = Cardinality({i \in DOMAIN items : items[i].in_use})
  BY DEF RangeAgrees
<1> DEFINE used == {i \in DOMAIN items : items[i].in_use}
<1>1. DOMAIN items = Doors
  BY DEF IInv, TypeOK
<1>2. RangeAll = {Pair(i) : i \in used}
  BY DEF RangeAll, Pair
<1>3. ASSUME NEW i \in used
      PROVE  \E k \in Key : /\ i \in Doors /\ items[i].in_use /\ ItemKeyMatch(i, k)
                            /\ Pair(i) = <<k, ValueAt(items[i].location)>>
  <2>1. i \in Doors /\ items[i].in_use
    BY <1>1
  <2>2. PICK k \in Key : ItemKeyMatch(i, k)
    BY <2>1 DEF IInv, PathInv
  <2>3. SubSeq(items[i].key, 1, items[i].key_size) = k
    BY <2>1, <2>2, KeyOfItem DEF IInv
  <2> QED BY <2>1, <2>2, <2>3 DEF Pair
<1>4. \A r \in RangeAll : r[2] = Read(r[1])
  <2> SUFFICES ASSUME NEW i \in used PROVE Pair(i)[2] = Read(Pair(i)[1])
    BY <1>2
  <2>1. PICK k \in Key : /\ i \in Doors /\ items[i].in_use /\ ItemKeyMatch(i, k)
                         /\ Pair(i) = <<k, ValueAt(items[i].location)>>
    BY <1>3
  <2>2. Read(k) = ValueAt(items[i].location)
    BY <2>1, Found DEF IInv, PathInv
  <2> QED BY <2>1, <2>2
<1>5. ASSUME NEW k \in Key, Read(k) \notin {Absent, NoCells}
      PROVE  <<k, Read(k)>> \in RangeAll
  <2>1. PICK i \in Doors : CalcIndex(k) = i /\ ItemKeyMatch(i, k)
    BY <1>5, NotFound
  <2>2. Read(k) = ValueAt(items[i].location)
    BY <2>1, Found
  <2>3. items[i].in_use
    <3>1. ~ items[i].in_use => items[i].location = Nowhere
      BY DEF IInv, PathInv
    <3>2. ValueAt(Nowhere) = NoCells
      BY DEF ValueAt, Nowhere
    <3> QED BY <3>1, <3>2, <1>5, <2>2
  <2>4. SubSeq(items[i].key, 1, items[i].key_size) = k
    BY <2>1, KeyOfItem DEF IInv
  <2>5. Pair(i) = <<k, Read(k)>>
    BY <2>2, <2>4 DEF Pair
  <2> QED BY <1>1, <1>2, <2>3, <2>5
<1>6. Cardinality(RangeAll) = Cardinality(used)
  <2> DEFINE f == [i \in used |-> Pair(i)]
  <2>1. IsFiniteSet(used)
    <3>1. IsFiniteSet(Doors)
      BY FS_Interval DEF Settings, HashAssumption, Doors
    <3> QED BY <3>1, <1>1, FS_Subset
  <2>2. ASSUME NEW i \in used, NEW j \in used, Pair(i) = Pair(j)
        PROVE  i = j
    <3>1. PICK k \in Key : /\ i \in Doors /\ items[i].in_use /\ ItemKeyMatch(i, k)
                           /\ Pair(i) = <<k, ValueAt(items[i].location)>>
      BY <1>3
    <3>2. PICK m \in Key : /\ j \in Doors /\ items[j].in_use /\ ItemKeyMatch(j, m)
                           /\ Pair(j) = <<m, ValueAt(items[j].location)>>
      BY <1>3
    <3>3. k = m
      BY <3>1, <3>2, <2>2
    <3>4. CalcIndex(k) = i /\ CalcIndex(k) = j
      BY <3>1, <3>2, <3>3 DEF IInv, PathInv
    <3> QED BY <3>4
  <2> HIDE DEF used
  <2>3. f \in [used -> RangeAll] /\ \A r \in RangeAll : \E i \in used : f[i] = r
    BY <1>2
  <2>4. \A i, j \in used : f[i] = f[j] => i = j
    BY <2>2
  <2> HIDE DEF f
  <2>5. f \in Bijection(used, RangeAll)
    BY <2>3, <2>4 DEF Bijection, Injection, Surjection, IsInjective
  <2>6. ExistsBijection(used, RangeAll)
    BY <2>5 DEF ExistsBijection
  <2> QED BY <2>1, <2>6, FS_Bijection
<1> QED BY <1>4, <1>5, <1>6

\* Whatever kill -9 interrupts, Read gives the value of the last Write of its
\* key that returned, or of one that was interrupted since, and nothing of a key
\* that no Write has placed (AddOrUpdate and Find of door_plate.cc); but for a
\* key whose location was left half stored, and one composed of others.
THEOREM ReadsLatest ==
  ASSUME Settings
  PROVE  Spec => []ReadLatest
<1>1. Init => IInv
  BY InvInit
<1>2. IInv /\ [Next]_vars => IInv'
  BY InvStep
<1>3. IInv => ReadLatest
  BY ReadAllowed
<1> QED BY <1>1, <1>2, <1>3, PTL DEF Spec

\* Range gives every key that Read finds once, with the value that Read gives.
THEOREM RangeAgreesWithRead ==
  ASSUME Settings
  PROVE  Spec => []RangeAgrees
<1>1. Init => IInv
  BY InvInit
<1>2. IInv /\ [Next]_vars => IInv'
  BY InvStep
<1>3. IInv => RangeAgrees
  BY RangeRead
<1> QED BY <1>1, <1>2, <1>3, PTL DEF Spec
=============================================================================
