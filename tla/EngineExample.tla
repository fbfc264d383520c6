--------------------------- MODULE EngineExample ---------------------------
(***************************************************************************)
(* The sample engine: EngineExample, its hash table DoorPlate in a mapped  *)
(* file, and its data files, DataStore.  mu_ is held for the whole of each *)
(* call, so that a process is in one call at a time; what a call leaves    *)
(* undone shows when the process is killed or when an append fails.  The   *)
(* bytes of a key and the words of a location reach the mapped file one by *)
(* one.  Read and Range change nothing: they are operators here.           *)
(***************************************************************************)
EXTENDS Integers, Sequences, FiniteSets, FiniteSetsExt

CONSTANTS Proc, Value,
          Key,              \* sequences of bytes
          Byte,
          kMaxKeyLen,
          StrHash,          \* of each key, modulo kMaxDoorCnt
          Size,             \* cells of each value
          kMaxDoorCnt,
          kSingleFileSize,  \* in cells
          MaxFiles,         \* bound: data files
          MaxKills,         \* bound: processes killed
          ShortWrites,      \* may an append fail when part of it is written?
          Overlap,          \* may a process open the engine while another one has it?
          null              \* nothing, and the byte of a new table
KeysAssumption == /\ kMaxKeyLen \in Nat
                  /\ \A k \in Key : k \in Seq(Byte) /\ Len(k) \in 1 .. kMaxKeyLen
SizesAssumption == kSingleFileSize \in Nat /\ Size \in [Value -> 1 .. kSingleFileSize]
HashAssumption == kMaxDoorCnt \in Nat \ {0} /\ StrHash \in [Key -> 0 .. kMaxDoorCnt - 1]

VARIABLES meta,        \* the META file: "none", "empty" or "ready"
          items,       \* what it holds
          files,       \* files[n + 1] is DATA_n: a sequence of cells
          lock,        \* who has LOCK
          pc,
          next_location,
          call,        \* key, value, its location, cells still to be written
          allowed,     \* history: what Read may return for each key
          interrupted, \* history: keys whose Write was killed before it took the item
          kills
disk == <<meta, items, files>>
vars == <<disk, lock, pc, next_location, call, allowed, interrupted, kills>>

Location == [file_no : Nat, offset : Nat, len : Nat]
NullAssumption == null \notin Key /\ null \notin Location
Nowhere == [file_no |-> 0, offset |-> 0, len |-> 0]
Zeroed == [key |-> [j \in 1 .. kMaxKeyLen |-> null], key_size |-> 0,
           in_use |-> FALSE, location |-> Nowhere]
NoCall == [key |-> null, value |-> null, location |-> Nowhere, left |-> <<>>]
Cells(v) == [i \in 1 .. Size[v] |-> <<v, i>>]
Absent == "not found"
NoCells == "empty"      \* the value of no cells
Other == "other"      \* bytes that nobody wrote as a value, or no answer at all
Mixed == "mixed"      \* whatever a location made of two is the place of

Init == /\ meta = "none"
        /\ items = [i \in 0 .. kMaxDoorCnt - 1 |-> Zeroed]
        /\ files = <<>>
        /\ lock = null
        /\ pc = [p \in Proc |-> "closed"]
        /\ next_location = [p \in Proc |-> Nowhere]
        /\ call = [p \in Proc |-> NoCall]
        /\ allowed = [k \in Key |-> {Absent}]
        /\ interrupted = {}
        /\ kills = 0

Goto(p, to) == pc' = [pc EXCEPT ![p] = to]
Gone(p) == Goto(p, "closed") /\ next_location' = [next_location EXCEPT ![p] = Nowhere]
Return(p) == Goto(p, "open") /\ call' = [call EXCEPT ![p] = NoCall]

(***************************************************************************)
(* DoorPlate                                                               *)
(***************************************************************************)
KeyCopied(i, k) == \A j \in 1 .. Len(k) : items[i].key[j] = k[j]
ItemKeyMatch(i, k) == items[i].key_size = Len(k) /\ KeyCopied(i, k)
ItemTryPlace(i, k) == ~items[i].in_use \/ ItemKeyMatch(i, k)
Probe(k, j) == (StrHash[k] + j) % kMaxDoorCnt

\* Wrong on purpose: the key may be further on.
CalcIndexFree(k) ==
    LET places == {j \in 0 .. kMaxDoorCnt - 1 : ~items[Probe(k, j)].in_use}
    IN  IF places = {} THEN -1 ELSE Probe(k, Min(places))

CalcIndex(k) ==
    LET places == {j \in 0 .. kMaxDoorCnt - 1 : ItemTryPlace(Probe(k, j), k)}
    IN  IF places = {} THEN -1 ELSE Probe(k, Min(places))

Find(k) == LET i == CalcIndex(k)
           IN  IF i < 0 \/ ~ItemKeyMatch(i, k) THEN null ELSE items[i].location

(***************************************************************************)
(* DataStore and EngineExample, Read and Range                             *)
(***************************************************************************)
\* Past the end of its file a Read never ends.
ValueAt(l) ==
    IF l.len = 0 THEN NoCells
    ELSE IF l.file_no >= Len(files) \/ l.offset + l.len > Len(files[l.file_no + 1]) THEN Other
    ELSE LET cells == SubSeq(files[l.file_no + 1], l.offset + 1, l.offset + l.len)
         IN  IF \E v \in Value : Cells(v) = cells THEN CHOOSE v \in Value : Cells(v) = cells ELSE Other

Read(k) == IF Find(k) = null THEN Absent ELSE ValueAt(Find(k))

\* Of the whole table: pairs of a key and a value.
RangeAll == {<<SubSeq(items[i].key, 1, items[i].key_size), ValueAt(items[i].location)>> : i \in {j \in DOMAIN items : items[j].in_use}}

(***************************************************************************)
(* EngineExample::Open                                                     *)
(***************************************************************************)
\* DoorPlate::Init makes the META file ...
OpenPlate(p) ==
    /\ pc[p] = "closed"
    /\ Overlap \/ \A q \in Proc : pc[q] = "closed"
    /\ IF meta = "none" THEN meta' = "empty" /\ Goto(p, "format") ELSE Goto(p, "plate") /\ UNCHANGED meta
    /\ UNCHANGED <<items, files, lock, next_location, call, allowed, interrupted, kills>>

\* ... and fills it with zeroes.
FormatPlate(p) ==
    /\ pc[p] = "format"
    /\ meta' = "ready"
    /\ items' = [i \in DOMAIN items |-> Zeroed]
    /\ Goto(p, "plate")
    /\ UNCHANGED <<files, lock, next_location, call, allowed, interrupted, kills>>

\* DataStore::Init: the end of the last file.
OpenStore(p) ==
    LET last == IF files = <<>> THEN 0 ELSE Len(files) - 1
    IN  /\ pc[p] = "plate"
        /\ files' = IF files = <<>> THEN <<<<>>>> ELSE files
        /\ next_location' = [next_location EXCEPT ![p] =
              [file_no |-> last, offset |-> Len(files'[last + 1]), len |-> 0]]
        /\ Goto(p, "store")
        /\ UNCHANGED <<meta, items, lock, call, allowed, interrupted, kills>>

LockDb(p) ==
    /\ pc[p] = "store"
    /\ IF lock = null THEN lock' = p /\ Goto(p, "open") /\ UNCHANGED next_location
       ELSE Gone(p) /\ UNCHANGED lock
    /\ UNCHANGED <<disk, call, allowed, interrupted, kills>>

Close(p) ==
    /\ pc[p] = "open"
    /\ lock' = null
    /\ Gone(p)
    /\ UNCHANGED <<disk, call, allowed, interrupted, kills>>

\* An access to a META file that was never filled: SIGBUS.
Fault(p) ==
    /\ pc[p] = "open" /\ meta = "empty"
    /\ lock' = null
    /\ Gone(p)
    /\ UNCHANGED <<disk, call, allowed, interrupted, kills>>

(***************************************************************************)
(* EngineExample::Write                                                    *)
(***************************************************************************)
Write(p) == \E k \in Key, v \in Value :
    /\ pc[p] = "open" /\ meta = "ready"
    /\ call' = [call EXCEPT ![p] = [key |-> k, value |-> v, location |-> Nowhere, left |-> Cells(v)]]
    /\ Goto(p, IF next_location[p].offset + Size[v] > kSingleFileSize THEN "switch" ELSE "append")
    /\ UNCHANGED <<disk, lock, next_location, allowed, interrupted, kills>>

\* Wrong on purpose: the offset goes on.
SwitchOnly(p) ==
    LET n == next_location[p].file_no + 1
    IN  /\ pc[p] = "switch" /\ n < MaxFiles
        /\ next_location' = [next_location EXCEPT ![p].file_no = n]
        /\ files' = IF n < Len(files) THEN files ELSE Append(files, <<>>)
        /\ Goto(p, "append")
        /\ UNCHANGED <<meta, items, lock, call, allowed, interrupted, kills>>

SwitchFile(p) ==
    LET n == next_location[p].file_no + 1
    IN  /\ pc[p] = "switch" /\ n < MaxFiles
        /\ next_location' = [next_location EXCEPT ![p] = [file_no |-> n, offset |-> 0, len |-> 0]]
        /\ files' = IF n < Len(files) THEN files ELSE Append(files, <<>>)
        /\ Goto(p, "append")
        /\ UNCHANGED <<meta, items, lock, call, allowed, interrupted, kills>>

\* FileAppend, a write(2) at a time, to the end of the file.
AppendCell(p) ==
    /\ pc[p] = "append" /\ call[p].left # <<>>
    /\ files' = [files EXCEPT ![next_location[p].file_no + 1] = Append(@, Head(call[p].left))]
    /\ call' = [call EXCEPT ![p].left = Tail(@)]
    /\ UNCHANGED <<meta, items, lock, pc, next_location, allowed, interrupted, kills>>

AppendFails(p) ==
    /\ pc[p] = "append" /\ call[p].left # <<>>
    /\ ShortWrites \/ call[p].left = Cells(call[p].value)
    /\ Return(p)
    /\ UNCHANGED <<disk, lock, next_location, allowed, interrupted, kills>>

Appended(p) ==
    LET n == Size[call[p].value]
    IN  /\ pc[p] = "append" /\ call[p].left = <<>>
        /\ call' = [call EXCEPT ![p].location = [next_location[p] EXCEPT !.len = n]]
        /\ next_location' = [next_location EXCEPT ![p].offset = @ + n]
        /\ Goto(p, "place")
        /\ UNCHANGED <<disk, lock, allowed, interrupted, kills>>

\* AddOrUpdate: into an item that is free, the bytes of the key, in any order ...
Place(p) ==
    LET i == CalcIndex(call[p].key)
    IN  /\ pc[p] = "place"
        /\ IF i < 0 THEN Return(p)
           ELSE Goto(p, IF items[i].in_use THEN "locate" ELSE "key") /\ UNCHANGED call
        /\ UNCHANGED <<disk, lock, next_location, allowed, interrupted, kills>>

CopyByte(p) ==
    LET k == call[p].key  i == CalcIndex(k)
    IN  /\ pc[p] = "key"
        /\ \E j \in 1 .. Len(k) : /\ items[i].key[j] # k[j]
                                  /\ items' = [items EXCEPT ![i].key[j] = k[j]]
        /\ UNCHANGED <<meta, files, lock, pc, next_location, call, allowed, interrupted, kills>>

\* ... then its size, in_use, and each word of the location that is another.
SetKeySize(p) ==
    LET k == call[p].key  i == CalcIndex(k)
    IN  /\ pc[p] = "key" /\ KeyCopied(i, k)
        /\ items' = [items EXCEPT ![i].key_size = Len(k)]
        /\ Goto(p, "use")
        /\ UNCHANGED <<meta, files, lock, next_location, call, allowed, interrupted, kills>>

Use(p) ==
    /\ pc[p] = "use"
    /\ items' = [items EXCEPT ![CalcIndex(call[p].key)].in_use = TRUE]
    /\ Goto(p, "locate")
    /\ UNCHANGED <<meta, files, lock, next_location, call, allowed, interrupted, kills>>

NextWord(from, to) ==
    IF from.file_no # to.file_no THEN [from EXCEPT !.file_no = to.file_no]
    ELSE IF from.offset # to.offset THEN [from EXCEPT !.offset = to.offset]
    ELSE to

LocateWord(p) ==
    LET k == call[p].key  i == CalcIndex(k)  l == items[i].location
        next == NextWord(l, call[p].location)
    IN  /\ pc[p] = "locate" /\ l # call[p].location
        /\ items' = [items EXCEPT ![i].location = next]
        /\ allowed' = [allowed EXCEPT ![k] = IF next = call[p].location THEN @ \ {Mixed}
                                             ELSE IF l.len # 0 THEN @ \cup {Mixed} ELSE @]
        /\ UNCHANGED <<meta, files, lock, pc, next_location, call, interrupted, kills>>

Located(p) ==
    LET k == call[p].key
    IN  /\ pc[p] = "locate" /\ items[CalcIndex(k)].location = call[p].location
        /\ allowed' = [allowed EXCEPT ![k] = {call[p].value}]
        /\ Return(p)
        /\ UNCHANGED <<disk, lock, next_location, interrupted, kills>>

WriteStep(p) == \/ SwitchFile(p) \/ AppendCell(p) \/ AppendFails(p) \/ Appended(p)
                \/ Place(p) \/ CopyByte(p) \/ SetKeySize(p) \/ Use(p) \/ LocateWord(p) \/ Located(p)

\* kill -9: what was written stays.  An interrupted Write may have happened or
\* not; the first one of a key may also have left it without a location.
Kill(p) ==
    LET k == call[p].key
    IN  /\ pc[p] # "closed" /\ kills < MaxKills
        /\ kills' = kills + 1
        /\ lock' = IF lock = p THEN null ELSE lock
        /\ allowed' = IF k = null THEN allowed
                      ELSE [allowed EXCEPT ![k] = @ \cup {call[p].value} \cup
                                              (IF Absent \in @ THEN {NoCells} ELSE {})]
        /\ interrupted' = IF pc[p] \in {"key", "use"} THEN interrupted \cup {k} ELSE interrupted
        /\ Gone(p) /\ call' = [call EXCEPT ![p] = NoCall]
        /\ UNCHANGED disk

Next == \E p \in Proc : \/ OpenPlate(p) \/ FormatPlate(p) \/ OpenStore(p) \/ LockDb(p) \/ Close(p)
                        \/ Fault(p) \/ Write(p) \/ WriteStep(p) \/ Kill(p)
Spec == Init /\ [][Next]_vars
-----------------------------------------------------------------------------
Quiet == \A p \in Proc : call[p] = NoCall

\* The size of the key of an interrupted Write, and each byte of one.
Composed(k) == /\ \E m \in interrupted : Len(m) = Len(k)
               /\ \A j \in 1 .. Len(k) : \E m \in interrupted : j <= Len(m) /\ m[j] = k[j]

(* Read returns what the last Write that returned kSucc stored, or, after a  *)
(* kill, what the interrupted Write of that key stored; a Write that failed  *)
(* has changed nothing.  Two things are left over by kills: of a key whose   *)
(* Write was killed between two words of its location nothing is known, and  *)
(* a key that nobody wrote reads as empty if it is composed of keys whose    *)
(* Writes were killed.                                                       *)
ReadLatest ==
    Quiet => \A k \in Key : \/ Read(k) \in allowed[k]
                            \/ Mixed \in allowed[k]
                            \/ Read(k) = NoCells /\ Absent \in allowed[k] /\ Composed(k)

(* Range gives each key that Read finds, once, with the value that Read      *)
(* returns; but for a key that reads as empty from an item not in use.       *)
RangeAgrees ==
    Quiet => /\ \A r \in RangeAll : r[2] = Read(r[1])
             /\ \A k \in Key : Read(k) \notin {Absent, NoCells} => <<k, Read(k)>> \in RangeAll
             /\ Cardinality(RangeAll) = Cardinality({i \in DOMAIN items : items[i].in_use})
-----------------------------------------------------------------------------
(* The inductive invariant behind both, without Overlap and ShortWrites.     *)

Doors == 0 .. kMaxDoorCnt - 1
Cell == Value \X Nat
Item == [key : [1 .. kMaxKeyLen -> Byte \cup {null}], key_size : 0 .. kMaxKeyLen,
         in_use : BOOLEAN, location : Location]
Placing == {"place", "key", "use", "locate"}
Writing == {"switch", "append"} \cup Placing
Last == Len(files) - 1

TypeOK ==
    /\ meta \in {"none", "empty", "ready"}
    /\ items \in [Doors -> Item]
    /\ files \in Seq(Seq(Cell))
    /\ pc \in [Proc -> {"closed", "format", "plate", "store", "open"} \cup Writing]
    /\ next_location \in [Proc -> Location]
    /\ call \in [Proc -> [key : Key \cup {null}, value : Value \cup {null},
                          location : Location, left : Seq(Cell)]]
    /\ allowed \in [Key -> SUBSET (Value \cup {Absent, NoCells, Mixed})]
    /\ interrupted \in SUBSET Key

\* LockFile lets one process in.
OneProcess == \A p, q \in Proc : pc[p] # "closed" /\ pc[q] # "closed" => p = q

\* Nothing is in a table that was not formatted yet.
MetaInv ==
    /\ meta # "ready" => \A i \in Doors : items[i] = Zeroed
    /\ \A p \in Proc : /\ pc[p] = "format" => meta = "empty"
                       /\ pc[p] \in Writing => meta = "ready"

\* The cells of v are at l, all of them.
Holds(l, v) ==
    /\ l.len = Size[v] /\ l.file_no < Len(files)
    /\ l.offset + l.len <= Len(files[l.file_no + 1])
    /\ \A i \in 1 .. Size[v] : files[l.file_no + 1][l.offset + i] = <<v, i>>

\* How far the Write of p has got with the data file.
AppendInv(p) ==
    LET c == call[p]
        l == next_location[p]
        written == Size[c.value] - Len(c.left)
    IN  /\ pc[p] \in {"store", "open"} \cup Writing => files # <<>> /\ l.file_no = Last
        /\ pc[p] \notin Writing => c = NoCall
        /\ pc[p] \in {"store", "open", "switch"} \cup Placing => l.offset = Len(files[Last + 1])
        /\ pc[p] \in Writing => c.key \in Key /\ c.value \in Value
        /\ pc[p] = "switch" => c.left = Cells(c.value)
        /\ pc[p] = "append" =>
             /\ written >= 0 /\ l.offset + written = Len(files[Last + 1])
             /\ \A i \in 1 .. written : files[Last + 1][l.offset + i] = <<c.value, i>>
             /\ \A i \in 1 .. Len(c.left) : c.left[i] = <<c.value, written + i>>
        /\ pc[p] \in Placing => Holds(c.location, c.value)

\* A key in the table is where its probes look; its Write finds its item again.
PathInv ==
    /\ \A i \in Doors : items[i].in_use => \E k \in Key : ItemKeyMatch(i, k)
    /\ \A i \in Doors, k \in Key : items[i].in_use /\ ItemKeyMatch(i, k) => CalcIndex(k) = i
    /\ \A i \in Doors : ~items[i].in_use => items[i].location = Nowhere
    /\ \A p \in Proc : pc[p] \in {"key", "use", "locate"} =>
          \E i \in Doors : /\ CalcIndex(call[p].key) = i
                           /\ items[i].in_use <=> pc[p] = "locate"
                           /\ pc[p] # "key" => ItemKeyMatch(i, call[p].key)

\* The bytes of a free item that its size covers are those of keys whose Writes
\* were killed, or of the one that is being placed there.
Source(i, k) == \/ k \in interrupted
                \/ \E p \in Proc : pc[p] \in {"key", "use"} /\ call[p].key = k /\ CalcIndex(k) = i
FreeInv ==
    \A i \in Doors : ~items[i].in_use /\ items[i].key_size # 0 =>
       /\ \E k \in Key : Source(i, k) /\ Len(k) = items[i].key_size
       /\ \A j \in 1 .. items[i].key_size :
             \E k \in Key : Source(i, k) /\ j <= Len(k) /\ k[j] = items[i].key[j]

\* The Write of k has come as far as its location.
Locating(k, p) == pc[p] = "locate" /\ call[p].key = k

\* What the table and the files say of a key is what Read may return.
AllowedInv ==
    /\ \A i \in Doors, k \in Key : items[i].in_use /\ ItemKeyMatch(i, k) =>
          LET l == items[i].location
          IN  \/ Mixed \in allowed[k]
              \/ \E v \in allowed[k] \cap Value : Holds(l, v)
              \/ \E p \in Proc : Locating(k, p) /\ l = call[p].location
              \/ l.len = 0 /\ (NoCells \in allowed[k] \/
                               (Absent \in allowed[k] /\ \E p \in Proc : Locating(k, p)))
    /\ \A k \in Key : (\A i \in Doors : ~(items[i].in_use /\ ItemKeyMatch(i, k))) => Absent \in allowed[k]

IInv ==
    /\ TypeOK
    /\ OneProcess
    /\ MetaInv
    /\ \A p \in Proc : AppendInv(p)
    /\ PathInv
    /\ FreeInv
    /\ AllowedInv
=============================================================================
