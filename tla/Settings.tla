------------------------------ MODULE Settings ------------------------------
(* The settings store, system/settings: a map in RAM that several tasks read *)
(* and change, and the files it is saved to, at once or by a timer.          *)
(*                                                                           *)
(* Every function holds the mutex from its first access to its last, so it   *)
(* is one step; but dump_cache writes files, and power may be lost between   *)
(* any two of its writes.                                                    *)
EXTENDS Naturals, Sequences, FiniteSets

CONSTANTS Key,
          Value,    \* the values that the tasks give to settings
          User,     \* the tasks
          Setup,    \* the configurations: how saves are made, and where to
          MapSize,  \* CONFIG_SYSTEM_SETTINGS_MAP_SIZE
          MaxStorages  \* CONFIG_SYSTEM_SETTINGS_MAX_STORAGES

\* The texts a line of a file may have behind its `=': some for each case that
\* load_text tells apart, and what is left of them when they are cut short.
Word == {"w", "word", "t", "T", "f"}
Text == Word \cup {"", "/x", "true", "True", "false", "0", "1", "1x", "7", "007",
                   "12", "1.5", "0.000000", "1.500000", "10.0.0.1"}

\* A setting has one of five types; a string may be any text that has no `=',
\* no `;' and no end of line in it.
Val(type, val) == [type |-> type, val |-> val]
None == Val("EMPTY", "none")

Values ==
       {Val("STRING", text) : text \in Text}
  \cup {Val("BOOL", val) : val \in {"true", "false"}}
  \cup {Val("INT", val) : val \in {"0", "1", "7", "12"}}
  \cup {Val("FLOAT", val) : val \in {"0", "1.5", "1e-9"}}
  \cup {Val("IP_ADDR", "10.0.0.1")}

\* What save_text writes: a floating point number with six decimals.
Written(v) ==
  IF v.type # "FLOAT" THEN v.val
  ELSE IF v.val = "1.5" THEN "1.500000" ELSE "0.000000"

\* What load_text makes of it: a word is a boolean, whatever its case, or a
\* string; anything else is a number as far as it is one, or an address, or it is
\* not read at all.
Parse(text) ==
  CASE text \in Word                 -> Val("STRING", text)
    [] text \in {"true", "True"}     -> Val("BOOL", "true")
    [] text = "false"                -> Val("BOOL", "false")
    [] text = "0"                    -> Val("INT", "0")
    [] text \in {"1", "1x"}          -> Val("INT", "1")
    [] text \in {"7", "007"}         -> Val("INT", "7")
    [] text = "12"                   -> Val("INT", "12")
    [] text = "0.000000"             -> Val("FLOAT", "0")
    [] text \in {"1.5", "1.500000"}  -> Val("FLOAT", "1.5")
    [] text = "10.0.0.1"             -> Val("IP_ADDR", "10.0.0.1")
    [] text \in {"", "/x"}           -> None

\* What may be left of a text that is cut short.
Shorter(text) ==
  {""} \cup
  CASE text = "word"                              -> {"w"}
    [] text = "true"                              -> {"t"}
    [] text = "True"                              -> {"T"}
    [] text = "false"                             -> {"f"}
    [] text \in {"12", "1x", "1.5", "10.0.0.1"}   -> {"1"}
    [] text = "1.500000"                          -> {"1", "1.5"}
    [] text \in {"007", "0.000000"}               -> {"0"}
    [] OTHER                                      -> {}

ASSUME SettingsAssumption ==
  /\ IsFiniteSet(Key)
  /\ Value \subseteq Values
  /\ \A s \in Setup : /\ s.cached \in BOOLEAN /\ s.device \in BOOLEAN
                      /\ s.types \in Seq({"text", "bin"})
                      /\ Len(s.types) <= MaxStorages
  /\ MapSize \in Nat \ {0}

VARIABLES conf,    \* the configuration
          map,     \* the settings
          hash,    \* g_settings.hash: the map it was calculated from; the
                   \* checksum of a map without settings is zero
          wrpend,  \* g_settings.wrpend
          armed,   \* is the timer that saves armed?
          expired, \* has it expired, and dump_cache not got the mutex yet?
          stores,  \* the number of storages that are set
          dump,    \* the storage dump_cache is at and its next step there
          main,    \* each storage's file: absent, bad, or what it holds
          backup,  \* the file~ of a text storage
          user,    \* "wait" when a task waits for wrpend to be false
          \* The rest is what the properties are about:
          saved,   \* has dump_cache run since a storage was set?
          durable  \* the values each key may have after a restart, or {} if it
                   \* may have been created, or cleared, or neither

vars == <<conf, map, hash, wrpend, armed, expired, stores, dump, main, backup,
          user, saved, durable>>

Idle == [store |-> 0, step |-> "none"]

Storages == 1..Len(conf.types)
Empty == [k \in {} |-> None]

\* A file is absent, bad (it has no contents that are valid), being written, or
\* it holds its contents.
File(state, contents) == [is |-> state, holds |-> contents]

Absent  == File("absent", Empty)
Bad     == File("bad", Empty)
Partial == File("partial", Empty)
Holds(contents) == File("written", contents)

Look(m, k) == IF k \in DOMAIN m THEN m[k] ELSE None

\* Nothing has been written to the storages. A binary storage is a device,
\* which may be missing.
Init ==
  /\ conf \in Setup
  /\ main = [i \in Storages |-> IF conf.types[i] = "bin" /\ conf.device
                                THEN Bad ELSE Absent]
  /\ backup = [i \in Storages |-> Absent]
  /\ durable = [k \in Key |-> {None}]
  /\ map = Empty
  /\ hash = Empty
  /\ wrpend = FALSE /\ armed = FALSE /\ expired = FALSE
  /\ stores = 0
  /\ dump = Idle
  /\ user = [u \in User |-> "run"]
  /\ saved = FALSE

files == <<main, backup>>

-----------------------------------------------------------------------------
(* Loading and saving. *)

\* Mutant: new entries are added whether there is room for them or not.
Put_unbounded(m, c) ==
  {[k \in DOMAIN m \cup DOMAIN c |-> IF k \in DOMAIN c THEN c[k] ELSE m[k]]}

\* Entries replace those of the same key; new ones are added while there is
\* room for them, in the order of the file.
Put(m, c) ==
  LET new  == DOMAIN c \ DOMAIN m
      room == MapSize - Cardinality(DOMAIN m)
      fits == {n \in SUBSET new : /\ Cardinality(n) <= room
                                  /\ n # new => Cardinality(n) = room}
  IN  {[k \in DOMAIN m \cup n |-> IF k \in DOMAIN c THEN c[k] ELSE m[k]] :
         n \in fits}

save_text(m) == [k \in DOMAIN m |-> Written(m[k])]

load_text(lines) ==
  [k \in {j \in DOMAIN lines : Parse(lines[j]) # None} |-> Parse(lines[k])]

\* Mutant: load_text does not look for the backup.
Restored_main(i) == [main |-> main[i], backup |-> backup[i]]

\* load_text restores the backup when the file is missing.
Restored(i) ==
  IF conf.types[i] = "text" /\ main[i] = Absent
    THEN [main |-> backup[i], backup |-> Absent]
    ELSE [main |-> main[i], backup |-> backup[i]]

Readable(i) == Restored(i).main.is = "written"
Contents(i) == IF conf.types[i] = "text" THEN load_text(Restored(i).main.holds)
               ELSE Restored(i).main.holds

\* The maps that loading storage i over the map m may give.
LoadOne(i, m) == IF Readable(i) THEN Put(m, Contents(i)) ELSE {m}

LoadEach(i, maps) == UNION {LoadOne(i, m) : m \in maps}

\* Loading the first n storages in their order.
LoadFirst(n, m) ==
  LET loads[i \in 0..n] == IF i = 0 THEN {m} ELSE LoadEach(i, loads[i - 1])
  IN  loads[n]

LoadFailed == {i \in 1..stores : ~Readable(i)}

FirstStep(type) == IF type = "text" THEN "write" ELSE "truncate"

\* dump_cache at storage i of n.
AtStore(i, n) ==
  [store |-> i,
   step  |-> IF i <= n THEN FirstStep(conf.types[i]) ELSE "end"]

save(n) ==
  /\ wrpend' = TRUE
  /\ IF conf.cached
       THEN armed' = TRUE /\ UNCHANGED dump
       ELSE dump' = AtStore(1, n) /\ UNCHANGED armed
  /\ UNCHANGED expired

NoSave == UNCHANGED <<wrpend, armed, expired, dump>>

MutexFree == dump = Idle

-----------------------------------------------------------------------------
(* The functions of the settings store. *)

\* settings_setstorage: the storages are set one after the other, before, between
\* or after the other calls.
settings_setstorage ==
  /\ MutexFree
  /\ stores < Len(conf.types)
  /\ stores' = stores + 1
  /\ main' = [main EXCEPT ![stores'] = Restored(stores').main]
  /\ backup' = [backup EXCEPT ![stores'] = Restored(stores').backup]
  /\ map' \in LoadOne(stores', map)
  /\ hash' = map'
  /\ IF stores' > 1 /\ (map' # hash \/ main'[stores'] = Absent)
       THEN save(stores')
       ELSE NoSave
  /\ saved' = FALSE
  /\ UNCHANGED <<conf, user, durable>>

Ready(u) == MutexFree /\ user[u] = "run"

\* A setting that exists keeps its value, and a full map does not grow.
settings_create(u, k, v) ==
  /\ Ready(u)
  /\ k \notin DOMAIN map
  /\ Cardinality(DOMAIN map) < MapSize
  /\ map' = [j \in DOMAIN map \cup {k} |-> IF j = k THEN v ELSE map[j]]
  /\ hash' = map'
  /\ save(stores)
  /\ UNCHANGED <<conf, stores, main, backup, user, saved, durable>>

\* set_string, set_int, set_bool, set_float and set_ip refuse a setting of some
\* of the other types.
Accepts(old, new) ==
  old \in CASE new \in {"STRING", "IP_ADDR"} -> {"STRING", "IP_ADDR"}
            [] new = "INT"                   -> {"INT", "BOOL", "FLOAT"}
            [] new = "BOOL"                  -> {"BOOL", "INT"}
            [] new = "FLOAT"                 -> {"FLOAT", "INT"}

\* Mutant: settings_set does not save.
settings_set_unsaved(u, k, v) ==
  /\ Ready(u)
  /\ k \in DOMAIN map
  /\ Accepts(map[k].type, v.type)
  /\ map' = [map EXCEPT ![k] = v]
  /\ hash' = map'
  /\ NoSave
  /\ UNCHANGED <<conf, stores, main, backup, user, saved, durable>>

settings_set(u, k, v) ==
  /\ Ready(u)
  /\ k \in DOMAIN map
  /\ Accepts(map[k].type, v.type)
  /\ map' = [map EXCEPT ![k] = v]
  /\ IF map' # hash
       THEN hash' = map' /\ save(stores)
       ELSE UNCHANGED hash /\ NoSave
  /\ UNCHANGED <<conf, stores, main, backup, user, saved, durable>>

\* A task that is to wait polls wrpend after the mutex is released.
Waits(u, wait) == user' = IF wait THEN [user EXCEPT ![u] = "wait"] ELSE user

settings_sync(u, wait) ==
  /\ Ready(u)
  /\ main' = [i \in Storages |-> IF i <= stores THEN Restored(i).main ELSE main[i]]
  /\ backup' = [i \in Storages |-> IF i <= stores THEN Restored(i).backup ELSE backup[i]]
  /\ IF Cardinality(LoadFailed) >= MaxStorages
       THEN UNCHANGED <<map, hash, user>> /\ NoSave
       ELSE /\ map' \in LoadFirst(stores, map)
            /\ IF map' # hash
                 THEN hash' = map' /\ save(stores)
                 ELSE UNCHANGED hash /\ NoSave
            /\ Waits(u, wait /\ conf.cached)
  /\ UNCHANGED <<conf, stores, saved, durable>>

\* Mutant: settings_clear does not save.
settings_clear_unsaved(u) ==
  /\ Ready(u)
  /\ map' = Empty
  /\ hash' = Empty
  /\ NoSave
  /\ Waits(u, TRUE)
  /\ UNCHANGED <<conf, stores, main, backup, saved, durable>>

settings_clear(u) ==
  /\ Ready(u)
  /\ map' = Empty
  /\ hash' = Empty
  /\ save(stores)
  /\ Waits(u, TRUE)
  /\ UNCHANGED <<conf, stores, main, backup, saved, durable>>

Return(u) ==
  /\ user[u] = "wait"
  /\ ~wrpend
  /\ user' = [user EXCEPT ![u] = "run"]
  /\ NoSave
  /\ UNCHANGED <<conf, map, hash, stores, main, backup, saved, durable>>

-----------------------------------------------------------------------------
(* dump_cache, which holds the mutex while it writes one storage after the   *)
(* other.                                                                    *)

unchangedByDump == <<conf, map, hash, stores, user>>

TimerExpires ==
  /\ armed
  /\ armed' = FALSE /\ expired' = TRUE
  /\ UNCHANGED <<wrpend, dump, main, backup, saved, durable>>
  /\ UNCHANGED unchangedByDump

DumpStart ==
  /\ expired /\ MutexFree
  /\ expired' = FALSE
  /\ UNCHANGED <<wrpend, armed, main, backup, saved, durable>>
  /\ UNCHANGED unchangedByDump
  /\ dump' = AtStore(1, stores)

\* save_text writes file~, removes the file and renames file~; save_bin
\* truncates the device, if it is there, and writes it.
SaveStep ==
  LET i == dump.store
      Then(step) == dump' = [dump EXCEPT !.step = step]
      SetMain(c) == main' = [main EXCEPT ![i] = c]
      SetBackup(c) == backup' = [backup EXCEPT ![i] = c]
  IN  /\ UNCHANGED <<wrpend, armed, expired, saved, durable>>
      /\ UNCHANGED unchangedByDump
      /\ \/ /\ dump.step = "write"
            /\ SetBackup(Partial) /\ UNCHANGED main /\ Then("close")
         \/ /\ dump.step = "close"
            /\ SetBackup(Holds(save_text(map))) /\ UNCHANGED main /\ Then("remove")
         \/ /\ dump.step = "remove"
            /\ SetMain(Absent) /\ UNCHANGED backup /\ Then("rename")
         \/ /\ dump.step = "rename"
            /\ SetMain(backup[i]) /\ SetBackup(Absent)
            /\ dump' = AtStore(i + 1, stores)
         \/ /\ dump.step = "truncate" /\ main[i] = Absent
            /\ UNCHANGED files /\ dump' = AtStore(i + 1, stores)
         \/ /\ dump.step = "truncate" /\ main[i] # Absent
            /\ SetMain(Bad) /\ UNCHANGED backup /\ Then("fill")
         \/ /\ dump.step = "fill"
            /\ SetMain(Holds(map)) /\ UNCHANGED backup /\ dump' = AtStore(i + 1, stores)

\* Can storage i be written? Only a device may be missing.
There(i) == conf.types[i] = "text" \/ conf.device

\* The values that a key may have after a power loss at this time: while
\* dump_cache runs, also the one that it saves. A device alone is truncated
\* before it is written.
MayRestart(k) ==
  IF dump = Idle \/ stores = 0 \/ durable[k] = {} THEN durable[k]
  ELSE LET alone == \A i \in Storages : conf.types[i] = "bin"
           may   == durable[k] \cup {Look(map, k)} \cup (IF alone THEN {None} ELSE {})
       IN  IF None \in may /\ may # {None} THEN {} ELSE may

\* What is saved once dump_cache has written every storage.
Durable ==
  IF stores = Len(conf.types) /\ \E i \in Storages : There(i)
    THEN [k \in Key |-> {Look(map, k)}]
    ELSE [k \in Key |-> MayRestart(k)]

\* Mutant: dump_cache leaves wrpend set.
DumpEnd_pending ==
  /\ dump.step = "end"
  /\ dump' = Idle
  /\ saved' = TRUE
  /\ durable' = Durable
  /\ UNCHANGED <<wrpend, armed, expired, main, backup>>
  /\ UNCHANGED unchangedByDump

DumpEnd ==
  /\ dump.step = "end"
  /\ dump' = Idle
  /\ wrpend' = FALSE
  /\ saved' = TRUE
  /\ durable' = Durable
  /\ UNCHANGED <<armed, expired, main, backup>>
  /\ UNCHANGED unchangedByDump

\* What a restart, and settings_init, leave in RAM.
settings_init ==
  /\ map' = Empty
  /\ hash' = Empty
  /\ wrpend' = FALSE /\ armed' = FALSE /\ expired' = FALSE
  /\ stores' = 0
  /\ dump' = Idle
  /\ user' = [u \in User |-> "run"]
  /\ saved' = FALSE

\* The lines of the keys in kept, those in cut with the texts that short gives.
CutShort(kept, cut, short) ==
  [k \in kept |-> IF k \in cut THEN short[k] ELSE Written(map[k])]

\* The power is lost. A file~ that was being written holds some of its lines,
\* the last perhaps cut short.
PowerLoss ==
  /\ IF dump.step = "close"
       THEN \E kept \in SUBSET DOMAIN map : \E cut \in SUBSET kept :
              /\ Cardinality(cut) <= 1
              /\ \E short \in [cut -> Text] :
                   /\ \A k \in cut : short[k] \in Shorter(Written(map[k]))
                   /\ backup' = [backup EXCEPT ![dump.store] =
                        Holds(CutShort(kept, cut, short))]
       ELSE UNCHANGED backup
  /\ durable' = [k \in Key |-> MayRestart(k)]
  /\ settings_init
  /\ UNCHANGED <<conf, main>>

-----------------------------------------------------------------------------
Call(u) ==
  \/ \E k \in Key, v \in Value : settings_create(u, k, v) \/ settings_set(u, k, v)
  \/ \E wait \in BOOLEAN : settings_sync(u, wait)
  \/ settings_clear(u)

Dump == SaveStep \/ DumpEnd

Next ==
  \/ settings_setstorage
  \/ \E u \in User : Call(u) \/ Return(u)
  \/ TimerExpires
  \/ DumpStart
  \/ Dump
  \/ PowerLoss

Spec == Init /\ [][Next]_vars

\* The timer expires, the thread it starts gets the mutex and writes the files,
\* and a task that polls wrpend runs.
Fairness ==
  /\ WF_vars(TimerExpires) /\ WF_vars(DumpStart) /\ WF_vars(Dump)
  /\ \A u \in User : WF_vars(Return(u))

LiveSpec == Spec /\ Fairness

-----------------------------------------------------------------------------
(* Properties. *)

\* Every variable has a value of its type, and the map is within its size.
TypeOK ==
  /\ conf \in Setup
  /\ DOMAIN map \subseteq Key /\ (\A k \in DOMAIN map : map[k] \in Values)
  /\ Cardinality(DOMAIN map) <= MapSize
  /\ wrpend \in BOOLEAN /\ armed \in BOOLEAN /\ expired \in BOOLEAN
  /\ stores \in 0..Len(conf.types)
  /\ dump.store \in 0..(stores + 1)
  /\ user \in [User -> {"run", "wait"}]
  /\ durable \in [Key -> SUBSET (Values \cup {None})]

\* "All configured files are automatically synchronized whenever a value
\* changes": once dump_cache has run, when no save is pending or under way, the
\* file of every storage that is set holds what the map holds, but a device that
\* is missing.
FilesHoldMap ==
  saved /\ ~wrpend /\ MutexFree =>
    \A i \in 1..stores : There(i) =>
      main[i] = Holds(IF conf.types[i] = "text" THEN save_text(map) ELSE map)

\* What a restart that sets all storages would find if the power were lost now.
Recovered == LoadFirst(Len(conf.types), Empty)

\* The value itself, and what a text file makes of it: 007 becomes the number 7,
\* True a boolean, and an empty string or /x is not found at all.
Reread(v) == IF v = None THEN None ELSE Parse(Written(v))
AsSaved(v) == {v, Reread(v)}

\* A restart finds a setting that was saved with its value, or the value that
\* was being saved when the power was lost, as a text file gives it: neither has
\* the setting an older value nor is it lost, unless load_text does not read its
\* text, at whichever write of dump_cache it happens. A setting that
\* settings_clear purged does not come back.
SurvivesPowerLoss ==
  \A k \in Key : MayRestart(k) # {} =>
    \A r \in Recovered : \E v \in MayRestart(k) : Look(r, k) \in AsSaved(v)

\* settings_sync loads the files over the map. When no save is pending they are
\* up to date, so that no setting gets an older value, and none that was cleared
\* comes back: a value is at most turned into what a text file makes of it. With
\* cached saves a value whose save is pending is given up.
SyncAfterSave ==
  [][~wrpend /\ (\E u \in User, wait \in BOOLEAN : settings_sync(u, wait)) =>
       \A k \in Key : Look(map', k) \in AsSaved(Look(map, k))]_vars

\* When no function is called any more, the save that a task waits for in
\* settings_sync or settings_clear is made, and the task returns.
WaitersReturn ==
  <>[][~\E u \in User : Call(u)]_vars =>
    \A u \in User : user[u] = "wait" ~> user[u] = "run"
=============================================================================
