----------------------------- MODULE MCStores -----------------------------
(***************************************************************************)
(* The components that keep data, on small instances.  Each behaviour is   *)
(* one component's: store says whose.  The variables of the others are 0.  *)
(***************************************************************************)
EXTENDS RaceStore

CONSTANTS Proc, EKey, EValue, StrHash, Size, kMaxKeyLen, kMaxDoorCnt, kSingleFileSize, MaxFiles,
          MaxKills, ShortWrites, null, b1, b2, ev1, ev2,
          TValue,
          Map, MKey, MValue, k1, k2, k3, k4, AssignToEmptied, SaveErased, Empty, Erased

VARIABLES store,
          meta, items, dataFiles, lock, epc, next_location, call, allowed, interrupted, kills,
          groups, table_size, num_buckets, file, walk, row, col, array, gone, passed,
          tables, maps

E == INSTANCE EngineExample WITH
       Key <- EKey, Byte <- {b1, b2}, Value <- EValue, Overlap <- FALSE, files <- dataFiles, pc <- epc
T == INSTANCE SparseTable WITH
       SPP_GROUP_SIZE <- 16, Value <- TValue, TableSizes <- {16, 40}, Used <- {0, 2, 15, 37}
M == INSTANCE SparseHashtable WITH
       Table <- Map, Key <- MKey, Value <- MValue,
       Hash <- (k1 :> 1) @@ (k2 :> 5) @@ (k3 :> 3) @@ (k4 :> 4),
       HT_MIN_BUCKETS <- 4, HT_DEFAULT_STARTING_BUCKETS <- 4, Factors <- <<<<20, 50>>>>,
       Reserves <- {0, 3}, MaxDoublings <- 1
ASSUME ExampleAssumption == E!KeysAssumption /\ E!SizesAssumption /\ E!HashAssumption /\ E!NullAssumption
ASSUME T!SizingAssumption
ASSUME M!HashAssumption /\ M!FactorsAssumption

\* What the .cfg gives EKey, StrHash and Size: one key is made of the others.
MCKey == {<<b1, b1>>, <<b2>>, <<b2, b1>>}
MCStrHash == [k \in MCKey |-> 1]
MCSize == (ev1 :> 1) @@ (ev2 :> 2)

NoRace == /\ metaFile = 0 /\ valFile = 0 /\ keyFile = 0 /\ cnt = 0
          /\ valBuf = 0 /\ keyBuf = 0 /\ valLog = 0 /\ keyLog = 0
          /\ mode = 0 /\ closing = 0 /\ flushed = 0 /\ holder = 0 /\ pc = 0 /\ arg = 0
NoExample == /\ meta = 0 /\ items = 0 /\ dataFiles = 0 /\ lock = 0 /\ epc = 0
             /\ next_location = 0 /\ call = 0 /\ allowed = 0 /\ interrupted = 0 /\ kills = 0
NoTable == /\ groups = 0 /\ table_size = 0 /\ num_buckets = 0 /\ file = 0 /\ walk = 0
           /\ row = 0 /\ col = 0 /\ array = 0 /\ gone = 0 /\ passed = 0
NoMap == tables = 0 /\ maps = 0
exampleVars == <<meta, items, dataFiles, lock, epc, next_location, call, allowed, interrupted, kills>>
tableVars == <<groups, table_size, num_buckets, file, walk, row, col, array, gone, passed>>
mapVars == <<tables, maps>>
all == <<store, svars, exampleVars, tableVars, mapVars>>

StoresInit ==
  \/ store = "race" /\ SInit /\ NoExample /\ NoTable /\ NoMap
  \/ store = "example" /\ NoRace /\ index = 0 /\ E!Init /\ NoTable /\ NoMap
  \/ store = "table" /\ NoRace /\ index = 0 /\ NoExample /\ T!Init /\ NoMap
  \/ store = "map" /\ NoRace /\ index = 0 /\ NoExample /\ NoTable /\ M!Init

\* No process is left to use the sample engine.
Stopped == store = "example" /\ UNCHANGED all

StoresNext ==
  \/ store = "race" /\ SNext /\ UNCHANGED <<store, exampleVars, tableVars, mapVars>>
  \/ store = "example" /\ E!Next /\ UNCHANGED <<store, svars, tableVars, mapVars>>
  \/ store = "table" /\ T!Next /\ UNCHANGED <<store, svars, exampleVars, mapVars>>
  \/ store = "map" /\ M!Next /\ UNCHANGED <<store, svars, exampleVars, tableVars>>
  \/ Stopped

StoresSpec == StoresInit /\ [][StoresNext]_all

Symm == Permutations(Value) \cup Permutations(TValue) \cup Permutations(Map)

(* RaceStore: Read gives the newest counted value of a key.                 *)
RaceReadLatest == store = "race" => ReadLatest

(* RaceStore: a traversal visits every key once, in order, newest value.    *)
RaceRangeExact == store = "race" => RangeExact

(* EngineExample: after any kills, between any two stores, Read gives the   *)
(* last value written or the one that a killed Write was writing.  Excepted *)
(* are a key whose location is made of two, until its next Write, and an    *)
(* empty answer for a key composed of those that killed Writes placed.      *)
ExampleReadLatest == store = "example" => E!ReadLatest

(* EngineExample: what Range shows is what Read finds, key by key, but for  *)
(* a key that reads as empty from an item that is not in use.               *)
ExampleRangeAgrees == store = "example" => E!RangeAgrees

(* SparseTable: the packed groups hold what was stored, and remember what   *)
(* was erased.                                                              *)
TableExact == store = "table" => T!PackedExact /\ T!ErasedRemembered

(* SparseTable: a walk that erases or destroys misses no item, and stands   *)
(* on none that is gone.                                                    *)
WalkExact == store = "table" => T!WalkExact

(* SparseHashtable: lookups end, and find what was inserted; num_deleted     *)
(* counts the erased buckets.                                               *)
MapExact == store = "map" => M!ProbesEnd /\ M!LookupsAgree /\ M!DeletedExact

(* EngineExample, engine.h: "Read value of a key".  For the run in which an *)
(* append may fail when part of it is written.                              *)
ExampleReadAfterFailure == store = "example" => E!ReadLatest

(* sparsepp: "We compact before writing".  Every key of a table is in the   *)
(* table that is unserialized from it.                                      *)
SavedKeysFound == store = "map" => M!LookupsAgree
=============================================================================
