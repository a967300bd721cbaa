---------------------------- MODULE ResultCache -----------------------------
(***************************************************************************)
(* src/src/result_cache.py: a dictionary of results in insertion order,    *)
(* kept in memory under a lock and rewritten to one JSON file after every  *)
(* change.  This module holds its state and methods; Pipeline calls them.  *)
(*                                                                         *)
(* _save() opens the file for writing, which truncates it, and then dumps  *)
(* the dictionary: between the two the file holds no JSON.  The lock is    *)
(* held from the change to the end of the save.                            *)
(***************************************************************************)
EXTENDS Naturals, Sequences

CONSTANTS
  Keys,        \* claims that differ after strip()
  Runs,        \* runs of the pipeline, which produce the results
  Clears,      \* requests to DELETE /cache
  MaxSize,     \* MAX_CACHE_SIZE (500 in the code)
  DiskErrors,  \* whether the file system may refuse a write
  Nobody       \* the lock is free; a result no run has produced

ASSUME MaxSizeAssumption     == MaxSize \in Nat \ {0}
ASSUME CacheNobodyAssumption == Nobody \notin Runs \union Clears
ASSUME DiskErrorsAssumption  == DiskErrors \in BOOLEAN

VARIABLES
  cache,      \* _cache: its entries, oldest first
  file,       \* the JSON file
  cacheLock,  \* the thread that holds _lock, or Nobody
  saving      \* where _save() stands

cacheVars == <<cache, file, cacheLock, saving>>

(* The keys of a result that the properties tell apart. *)
Result ==
  [by: Runs, success: BOOLEAN, refused: BOOLEAN, fromCache: BOOLEAN]

Entry == [key: Keys, result: Result]
File  == [state: {"absent", "torn", "whole"}, held: Seq(Entry)]

CacheTypeOK ==
  /\ cache \in Seq(Entry)
  /\ file \in File
  /\ cacheLock \in Runs \union Clears \union {Nobody}
  /\ saving \in {"no", "opening", "dumping"}

CacheInit ==
  /\ cache = <<>>
  /\ file = [state |-> "absent", held |-> <<>>]
  /\ cacheLock = Nobody
  /\ saving = "no"

CacheFree == cacheLock = Nobody

Holds(k)    == \E i \in 1 .. Len(cache) : cache[i].key = k
Place(k)    == CHOOSE i \in 1 .. Len(cache) : cache[i].key = k
Found(k)    == cache[Place(k)].result
Without(q, i) == SubSeq(q, 1, i - 1) \o SubSeq(q, i + 1, Len(q))

-----------------------------------------------------------------------------
(* A mutant: get() returns the cached dictionary, not a copy of it, and    *)
(* run_pipeline() marks it from_cache.                                     *)
Get_NoCopy(k) ==
  /\ CacheFree
  /\ Holds(k)
  /\ cache' = [cache EXCEPT ![Place(k)].result.fromCache = TRUE]
  /\ UNCHANGED <<file, cacheLock, saving>>

(* get() of a key that is there: its place in the dictionary stays. *)
Get(k) ==
  /\ CacheFree
  /\ Holds(k)
  /\ UNCHANGED <<cache, file, cacheLock, saving>>

(* A mutant: the size is compared with > and not >=. *)
Room_OffByOne(k) ==
  IF Holds(k) THEN Without(cache, Place(k))
  ELSE IF Len(cache) > MaxSize THEN Tail(cache)
  ELSE cache

(* put() takes the key's old entry away, or the oldest one of a full cache. *)
Room(k) ==
  IF Holds(k) THEN Without(cache, Place(k))
  ELSE IF Len(cache) >= MaxSize THEN Tail(cache)
  ELSE cache

Put(r, k, result) ==
  /\ CacheFree
  /\ cache' = Append(Room(k), [key |-> k, result |-> result])
  /\ cacheLock' = r
  /\ saving' = "opening"
  /\ UNCHANGED file

(* A mutant: clear() empties the memory only. *)
Clear_NoSave(c) ==
  /\ CacheFree
  /\ cache' = <<>>
  /\ UNCHANGED <<file, cacheLock, saving>>

Clear(c) ==
  /\ CacheFree
  /\ cache' = <<>>
  /\ cacheLock' = c
  /\ saving' = "opening"
  /\ UNCHANGED file

(* _save(): open(..., "w") truncates the file, json.dump() fills it. *)
Truncate ==
  /\ saving = "opening"
  /\ file' = [state |-> "torn", held |-> <<>>]
  /\ saving' = "dumping"
  /\ UNCHANGED <<cache, cacheLock>>

Dump ==
  /\ saving = "dumping"
  /\ file' = [state |-> "whole", held |-> cache]
  /\ saving' = "no"
  /\ cacheLock' = Nobody
  /\ UNCHANGED cache

(* A mutant: an OSError leaves the method before the lock is released. *)
SaveFails_KeepsLock ==
  /\ DiskErrors
  /\ saving # "no"
  /\ saving' = "no"
  /\ UNCHANGED <<cache, file, cacheLock>>

(* OSError from mkdir(), open() or dump(): logged, and nothing undone. *)
SaveFails ==
  /\ DiskErrors
  /\ saving # "no"
  /\ saving' = "no"
  /\ cacheLock' = Nobody
  /\ UNCHANGED <<cache, file>>

(* _load(): a file that is missing or is no JSON counts as empty. *)
Loaded == IF file.state = "whole" THEN file.held ELSE <<>>

Load ==
  /\ cache' = Loaded
  /\ cacheLock' = Nobody
  /\ saving' = "no"
  /\ UNCHANGED file
=============================================================================
