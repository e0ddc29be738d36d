--------------------------- MODULE SettingsProofs ---------------------------
(***************************************************************************)
(* Proofs about the settings store, for any number of keys, tasks and      *)
(* storages.                                                               *)
(***************************************************************************)
EXTENDS Settings, FiniteSetTheorems, WellFoundedInduction, NaturalsInduction, TLAPS

-----------------------------------------------------------------------------
(* The invariant. *)

Small == {m \in UNION {[D -> Values] : D \in SUBSET Key} :
            Cardinality(DOMAIN m) <= MapSize}
Lines == {c \in UNION {[D -> Text] : D \in SUBSET Key} :
            Cardinality(DOMAIN c) <= MapSize}

TextFile == {Absent, Partial} \cup {Holds(c) : c \in Lines}
BinFile  == {Absent, Bad} \cup {Holds(m) : m \in Small}

IsText(i) == conf.types[i] = "text"

\* What dump_cache writes to storage i.
Image(i) == Holds(IF IsText(i) THEN save_text(map) ELSE map)

StepsOf(i) == IF IsText(i) THEN {"write", "close", "remove", "rename"}
              ELSE {"truncate", "fill"}

At(i, step) == [store |-> i, step |-> step]

\* The places dump_cache can be at when n storages are set.
IsPlace(d, n) ==
  \/ d = Idle
  \/ d = At(n + 1, "end")
  \/ \E i \in 1..n : \E step \in StepsOf(i) : d = At(i, step)

FilesType ==
  /\ main = [i \in Storages |-> main[i]]
  /\ backup = [i \in Storages |-> backup[i]]
  /\ \A i \in Storages :
       IF IsText(i) THEN main[i] \in TextFile /\ backup[i] \in TextFile
       ELSE /\ main[i] \in BinFile /\ backup[i] = Absent
            /\ main[i] = Absent <=> ~conf.device

TypeInv ==
  /\ conf \in Setup
  /\ map \in Small
  /\ hash = map
  /\ wrpend \in BOOLEAN /\ armed \in BOOLEAN /\ expired \in BOOLEAN
  /\ stores \in 0..Len(conf.types)
  /\ IsPlace(dump, stores)
  /\ FilesType
  /\ user \in [User -> {"run", "wait"}]
  /\ saved \in BOOLEAN
  /\ durable \in [Key -> SUBSET (Values \cup {None})]

\* dump_cache has written the storages before the one it is at; the new file~
\* is complete when the file is removed; a device that is filled is there.
DumpInv ==
  /\ dump # Idle =>
       \A i \in 1..(dump.store - 1) : There(i) => main[i] = Image(i)
  /\ dump.step \in {"remove", "rename"} => backup[dump.store] = Image(dump.store)
  /\ dump.step = "fill" => conf.device

\* To load a file with the contents c over the map m changes no value, but for
\* what a text file makes of it.
Agrees(c, m) ==
  \A k \in DOMAIN c : IF k \in DOMAIN m THEN c[k] \in AsSaved(m[k])
                      ELSE Cardinality(DOMAIN m) = MapSize

\* The files agree with the map whenever no save is pending or under way.
AgreeInv ==
  ~wrpend /\ MutexFree =>
    \A i \in 1..stores : Readable(i) => Agrees(Contents(i), map)

\* The map m gives key k one of the values, unless there are none to expect.
Gives(m, k, values) ==
  values # {} => \E v \in values : Look(m, k) \in AsSaved(v)

FilesGive ==
  \A i \in Storages : Readable(i) =>
    \A k \in Key : Gives(Contents(i), k, MayRestart(k))

\* No setting is known to be saved.
NothingSaved == \A k \in Key : durable[k] \in {{}, {None}}

\* Once a setting is saved there is a text file that can be read, or its backup;
\* and the file of a storage that is set is only missing while its backup is
\* renamed.
TextKept ==
  /\ \A i \in Storages : IsText(i) /\ ~Readable(i) => NothingSaved
  /\ \A i \in 1..stores :
       IsText(i) /\ main[i] = Absent /\ dump # At(i, "rename") => NothingSaved

\* Unless dump_cache is writing, one of the storages can be read, be it only a
\* device.
SomeKept ==
  dump = Idle \/ stores = 0 => NothingSaved \/ \E i \in Storages : Readable(i)

SafeInv == FilesGive /\ TextKept /\ SomeKept

-----------------------------------------------------------------------------
(* Loading. *)

\* The maps after each of the first n storages have been loaded over m.
IsLoads(n, m, f) ==
  f = [i \in 0..n |-> IF i = 0 THEN {m} ELSE LoadEach(i, f[i - 1])]

\* The loads one after the other exist.
LEMMA LoadsExist == ASSUME NEW m, NEW n \in Nat PROVE \E f : IsLoads(n, m, f)
<1> DEFINE Missing == {k \in Nat : ~\E f : IsLoads(k, m, f)}
<1> SUFFICES ASSUME Missing # {} PROVE FALSE
  BY Zenon
<1>1. PICK k \in Missing : \A j \in Missing : ~(<<j, k>> \in OpToRel(<, Nat))
  <2>1. Missing \subseteq Nat
    BY Zenon
  <2> QED
    BY <2>1, WFMin, NatLessThanWellFounded, Zenon
<1>2. k \in Nat /\ ~\E f : IsLoads(k, m, f)
  BY Zenon
<1>3. CASE k = 0
  <2> DEFINE f == [i \in 0..0 |-> {m}]
  <2>1. f = [i \in 0..0 |-> IF i = 0 THEN {m} ELSE LoadEach(i, f[i - 1])]
    OBVIOUS
  <2> QED
    BY <1>2, <1>3, <2>1, Zenon DEF IsLoads
<1>4. CASE k # 0
  <2>1. k - 1 \in Nat /\ k - 1 < k
    BY <1>2, <1>4
  <2>2. k - 1 \notin Missing
    BY <1>1, <1>2, <2>1, Zenon DEF OpToRel
  <2>3. PICK f : IsLoads(k - 1, m, f)
    BY <2>1, <2>2, Zenon
  <2>4. \A i \in 0..(k - 1) : f[i] = IF i = 0 THEN {m} ELSE LoadEach(i, f[i - 1])
    BY <2>3, Zenon DEF IsLoads
  <2> DEFINE g == [i \in 0..k |-> IF i = k THEN LoadEach(k, f[k - 1]) ELSE f[i]]
  <2>5. ASSUME NEW i \in 0..k
        PROVE  g[i] = IF i = 0 THEN {m} ELSE LoadEach(i, g[i - 1])
    <3>1. CASE i = k
      BY <1>2, <1>4, <2>1, <3>1
    <3>2. CASE i # k
      <4>1. i \in 0..(k - 1) /\ g[i] = f[i] /\ (i # 0 => g[i - 1] = f[i - 1])
        BY <1>2, <3>2
      <4> QED
        BY <2>4, <4>1, Zenon
    <3> QED
      BY <3>1, <3>2, Zenon
  <2>6. g = [i \in 0..k |-> g[i]]
    BY Zenon
  <2> HIDE DEF g
  <2>7. IsLoads(k, m, g)
    BY <2>5, <2>6, Zenon DEF IsLoads
  <2> QED
    BY <1>2, <2>7, Zenon
<1> QED
  BY <1>3, <1>4, Zenon

\* LoadFirst is the last of them.
LEMMA LoadFirstLast ==
  ASSUME NEW m, NEW n \in Nat
  PROVE  \E f : IsLoads(n, m, f) /\ LoadFirst(n, m) = f[n]
<1> DEFINE loads == CHOOSE f : IsLoads(n, m, f)
<1>1. IsLoads(n, m, loads)
  BY LoadsExist, Zenon
<1>2. LoadFirst(n, m) = loads[n]
  BY Zenon DEF LoadFirst, IsLoads
<1> QED
  BY <1>1, <1>2, Zenon

\* What each load keeps, LoadFirst keeps: when m is in P[0] and storage i takes
\* a map of P[i - 1] to maps of P[i], the maps that are loaded are in P[n].
LEMMA LoadInduction ==
  ASSUME NEW m, NEW n \in Nat, NEW P, m \in P[0],
         \A i \in 1..n : \A l \in P[i - 1] : LoadOne(i, l) \subseteq P[i]
  PROVE  LoadFirst(n, m) \subseteq P[n]
<1>1. PICK f : IsLoads(n, m, f) /\ LoadFirst(n, m) = f[n]
  BY LoadFirstLast, Zenon
<1>2. \A i \in 0..n : f[i] = IF i = 0 THEN {m} ELSE LoadEach(i, f[i - 1])
  BY <1>1, Zenon DEF IsLoads
<1> DEFINE Wrong == {k \in Nat : k <= n /\ ~(f[k] \subseteq P[k])}
<1>3. Wrong = {}
  <2> SUFFICES ASSUME Wrong # {} PROVE FALSE
    BY Zenon
  <2>1. PICK k \in Wrong : \A j \in Wrong : ~(<<j, k>> \in OpToRel(<, Nat))
    <3>1. Wrong \subseteq Nat
      BY Zenon
    <3> QED
      BY <3>1, WFMin, NatLessThanWellFounded
  <2>2. k \in Nat /\ k <= n /\ ~(f[k] \subseteq P[k])
    BY Zenon
  <2>3. CASE k = 0
    BY <1>2, <2>2, <2>3
  <2>4. CASE k # 0
    <3>1. k - 1 \in Nat /\ k - 1 < k /\ k \in 1..n /\ k \in 0..n
      BY <2>2, <2>4
    <3>2. k - 1 \notin Wrong
      BY <2>1, <2>2, <3>1, Zenon DEF OpToRel
    <3>3. f[k - 1] \subseteq P[k - 1]
      BY <2>2, <3>1, <3>2
    <3>4. f[k] = LoadEach(k, f[k - 1])
      BY <1>2, <2>4, <3>1, Zenon
    <3>5. \A l \in f[k - 1] : LoadOne(k, l) \subseteq P[k]
      BY <3>1, <3>3, Zenon
    <3> QED
      BY <2>2, <3>4, <3>5, Zenon DEF LoadEach
  <2> QED
    BY <2>3, <2>4, Zenon
<1> QED
  BY <1>1, <1>3

-----------------------------------------------------------------------------
(* Texts, maps and files. *)

\* What a line is read as is a value, or nothing.
LEMMA ParseType == ASSUME NEW text \in Text PROVE Parse(text) \in Values \cup {None}
<1>1. CASE text \in Word
  <2>1. Parse(text) = Val("STRING", text)
    BY <1>1, Zenon DEF Parse, Word
  <2> QED
    BY <2>1, Zenon DEF Values
<1>2. CASE text \in {"true", "True"}
  <2>1. Parse(text) = Val("BOOL", "true")
    BY <1>2, Zenon DEF Parse, Word
  <2> QED
    BY <2>1, Zenon DEF Values
<1>3. CASE text \in {"false"}
  <2>1. Parse(text) = Val("BOOL", "false")
    BY <1>3, Zenon DEF Parse, Word
  <2> QED
    BY <2>1, Zenon DEF Values
<1>4. CASE text \in {"0"}
  <2>1. Parse(text) = Val("INT", "0")
    BY <1>4, Zenon DEF Parse, Word
  <2> QED
    BY <2>1, Zenon DEF Values
<1>5. CASE text \in {"1", "1x"}
  <2>1. Parse(text) = Val("INT", "1")
    BY <1>5, Zenon DEF Parse, Word
  <2> QED
    BY <2>1, Zenon DEF Values
<1>6. CASE text \in {"7", "007"}
  <2>1. Parse(text) = Val("INT", "7")
    BY <1>6, Zenon DEF Parse, Word
  <2> QED
    BY <2>1, Zenon DEF Values
<1>7. CASE text \in {"12"}
  <2>1. Parse(text) = Val("INT", "12")
    BY <1>7, Zenon DEF Parse, Word
  <2> QED
    BY <2>1, Zenon DEF Values
<1>8. CASE text \in {"0.000000"}
  <2>1. Parse(text) = Val("FLOAT", "0")
    BY <1>8, Zenon DEF Parse, Word
  <2> QED
    BY <2>1, Zenon DEF Values
<1>9. CASE text \in {"1.5", "1.500000"}
  <2>1. Parse(text) = Val("FLOAT", "1.5")
    BY <1>9, Zenon DEF Parse, Word
  <2> QED
    BY <2>1, Zenon DEF Values
<1>10. CASE text \in {"10.0.0.1"}
  <2>1. Parse(text) = Val("IP_ADDR", "10.0.0.1")
    BY <1>10, Zenon DEF Parse, Word
  <2> QED
    BY <2>1, Zenon DEF Values
<1>11. CASE text \in {"", "/x"}
  <2>1. Parse(text) = None
    BY <1>11, Zenon DEF Parse, Word
  <2> QED
    BY <2>1, Zenon DEF Values
<1> QED
  BY <1>1, <1>2, <1>3, <1>4, <1>5, <1>6, <1>7, <1>8, <1>9, <1>10, <1>11, Zenon DEF Text

\* Every value is written as a text, and is told from a setting that is not there.
LEMMA WrittenType == ASSUME NEW v \in Values PROVE Written(v) \in Text /\ v # None
<1>1. CASE \E text \in Text : v = Val("STRING", text)
  BY <1>1 DEF Written, Val, None
<1>2. CASE \E val \in {"true", "false"} : v = Val("BOOL", val)
  <2>1. v.type = "BOOL" /\ v.val \in {"true", "false"}
    BY <1>2 DEF Val
  <2>2. v # None
    BY <2>1 DEF Val, None
  <2> QED
    BY <2>1, <2>2, Zenon DEF Written, Text
<1>3. CASE \E val \in {"0", "1", "7", "12"} : v = Val("INT", val)
  <2>1. v.type = "INT" /\ v.val \in {"0", "1", "7", "12"}
    BY <1>3 DEF Val
  <2>2. v # None
    BY <2>1 DEF Val, None
  <2> QED
    BY <2>1, <2>2, Zenon DEF Written, Text
<1>4. CASE \E val \in {"0", "1.5", "1e-9"} : v = Val("FLOAT", val)
  BY <1>4 DEF Written, Val, None, Text
<1>5. CASE v = Val("IP_ADDR", "10.0.0.1")
  BY <1>5 DEF Written, Val, None, Text
<1> QED
  BY <1>1, <1>2, <1>3, <1>4, <1>5, Zenon DEF Values

\* What it is to be a map of settings, and the lines of a file.
LEMMA SmallIs ==
  ASSUME NEW m \in Small
  PROVE  /\ DOMAIN m \in SUBSET Key /\ m \in [DOMAIN m -> Values]
         /\ Cardinality(DOMAIN m) <= MapSize
BY Zenon DEF Small

LEMMA IsSmall ==
  ASSUME NEW D \in SUBSET Key, NEW m \in [D -> Values], Cardinality(D) <= MapSize
  PROVE  m \in Small
<1>1. m \in UNION {[E -> Values] : E \in SUBSET Key} /\ DOMAIN m = D
  BY Zenon
<1> QED
  BY <1>1, Zenon DEF Small

LEMMA LinesIs ==
  ASSUME NEW c \in Lines
  PROVE  /\ DOMAIN c \in SUBSET Key /\ c \in [DOMAIN c -> Text]
         /\ Cardinality(DOMAIN c) <= MapSize
BY Zenon DEF Lines

LEMMA IsLines ==
  ASSUME NEW D \in SUBSET Key, NEW c \in [D -> Text],
         Cardinality(D) <= MapSize
  PROVE  c \in Lines
<1>1. c \in UNION {[E -> Text] : E \in SUBSET Key} /\ DOMAIN c = D
  BY Zenon
<1> QED
  BY <1>1, Zenon DEF Lines

\* A subset of at most MapSize keys.
LEMMA FewerKeys ==
  ASSUME NEW D \in SUBSET Key, NEW E \in SUBSET D, Cardinality(D) <= MapSize
  PROVE  Cardinality(E) <= MapSize
<1>1. IsFiniteSet(D)
  BY SettingsAssumption, FS_Subset, Zenon
<1>2. Cardinality(E) <= Cardinality(D) /\ Cardinality(E) \in Nat /\ Cardinality(D) \in Nat
  BY <1>1, FS_Subset, FS_CardinalityType, Zenon
<1> QED
  BY <1>2, SettingsAssumption

LEMMA EmptySmall == Empty \in Small /\ DOMAIN Empty = {}
<1>1. Empty \in [{} -> Values] /\ DOMAIN Empty = {}
  BY Zenon DEF Empty
<1>2. Cardinality({}) <= MapSize
  BY FS_EmptySet, SettingsAssumption
<1> QED
  BY <1>1, <1>2, IsSmall, Zenon

\* save_text makes lines of every map, and load_text a map of all lines.
LEMMA SaveText ==
  ASSUME NEW m \in Small
  PROVE  /\ save_text(m) \in Lines
         /\ DOMAIN save_text(m) = DOMAIN m
         /\ \A k \in DOMAIN m : save_text(m)[k] = Written(m[k])
<1>1. /\ DOMAIN save_text(m) = DOMAIN m
      /\ \A k \in DOMAIN m : save_text(m)[k] = Written(m[k])
  BY Zenon DEF save_text
<1>2. \A k \in DOMAIN m : Written(m[k]) \in Text
  BY SmallIs, WrittenType, Zenon
<1>3. save_text(m) \in [DOMAIN m -> Text]
  BY <1>2, Zenon DEF save_text
<1> QED
  BY <1>1, <1>3, SmallIs, IsLines, Zenon

LEMMA LoadText ==
  ASSUME NEW c \in Lines
  PROVE  /\ load_text(c) \in Small
         /\ DOMAIN load_text(c) = {k \in DOMAIN c : Parse(c[k]) # None}
         /\ \A k \in DOMAIN load_text(c) : load_text(c)[k] = Parse(c[k])
<1> DEFINE D == {k \in DOMAIN c : Parse(c[k]) # None}
<1>1. load_text(c) = [k \in D |-> Parse(c[k])]
  BY Zenon DEF load_text
<1>2. \A k \in D : Parse(c[k]) \in Values
  BY LinesIs, ParseType, Zenon
<1>3. load_text(c) \in [D -> Values]
  BY <1>1, <1>2, Zenon
<1>4. D \in SUBSET Key /\ Cardinality(D) <= MapSize
  BY LinesIs, FewerKeys, Zenon
<1>5. load_text(c) \in Small
  BY <1>3, <1>4, IsSmall, Zenon
<1> QED
  BY <1>1, <1>5, Zenon

\* Every map that loading the contents c over the map m gives: what it holds,
\* and that a key of c is only missing when the map is full.
LEMMA PutIs ==
  ASSUME NEW m \in Small, NEW c \in Small, NEW r \in Put(m, c)
  PROVE  /\ r \in Small
         /\ DOMAIN m \subseteq DOMAIN r /\ DOMAIN r \subseteq DOMAIN m \cup DOMAIN c
         /\ \A k \in DOMAIN r : r[k] = IF k \in DOMAIN c THEN c[k] ELSE m[k]
         /\ DOMAIN c \subseteq DOMAIN r \/ Cardinality(DOMAIN r) = MapSize
<1> DEFINE new  == DOMAIN c \ DOMAIN m
           room == MapSize - Cardinality(DOMAIN m)
<1>1. PICK n \in SUBSET new :
        /\ Cardinality(n) <= room
        /\ n # new => Cardinality(n) = room
        /\ r = [k \in DOMAIN m \cup n |-> IF k \in DOMAIN c THEN c[k] ELSE m[k]]
  BY Zenon DEF Put
<1>2. DOMAIN m \in SUBSET Key /\ DOMAIN c \in SUBSET Key
  BY SmallIs, Zenon
<1>3. IsFiniteSet(DOMAIN m) /\ IsFiniteSet(n)
  BY <1>1, <1>2, SettingsAssumption, FS_Subset, Zenon
<1>4. DOMAIN m \cap n = {} /\ Cardinality({}) = 0
  BY <1>1, FS_EmptySet, Zenon
<1>5. /\ Cardinality(DOMAIN m) \in Nat /\ Cardinality(n) \in Nat
      /\ Cardinality(DOMAIN m \cup n) = Cardinality(DOMAIN m) + Cardinality(n)
  <2>1. Cardinality(DOMAIN m) \in Nat /\ Cardinality(n) \in Nat
    BY <1>3, FS_CardinalityType, Zenon
  <2>2. Cardinality(DOMAIN m \cup n) =
          Cardinality(DOMAIN m) + Cardinality(n) - Cardinality(DOMAIN m \cap n)
    BY <1>3, FS_Union, Zenon
  <2>3. Cardinality(DOMAIN m \cap n) = 0
    BY <1>4, Zenon
  <2> QED
    BY <2>1, <2>2, <2>3
<1>6. /\ Cardinality(DOMAIN m \cup n) <= MapSize
      /\ n # new => Cardinality(DOMAIN m \cup n) = MapSize
  BY <1>1, <1>5, SettingsAssumption
<1>7. r \in [DOMAIN m \cup n -> Values] /\ DOMAIN r = DOMAIN m \cup n
  <2>1. /\ \A k \in DOMAIN c : c[k] \in Values
        /\ \A k \in DOMAIN m : m[k] \in Values
    BY SmallIs, Zenon
  <2> QED
    BY <1>1, <2>1, Zenon
<1>8. r \in Small
  <2>1. DOMAIN m \cup n \in SUBSET Key
    BY <1>1, <1>2, Zenon
  <2> QED
    BY <1>6, <1>7, <2>1, IsSmall, Zenon
<1>9. \A k \in DOMAIN r : r[k] = IF k \in DOMAIN c THEN c[k] ELSE m[k]
  BY <1>1, Zenon
<1> QED
  BY <1>1, <1>6, <1>7, <1>8, <1>9, Zenon

\* The first file that is loaded is loaded as a whole.
LEMMA PutFirst ==
  ASSUME NEW c \in Small, NEW r \in Put(Empty, c)
  PROVE  DOMAIN r = DOMAIN c /\ \A k \in DOMAIN c : r[k] = c[k]
<1>1. /\ DOMAIN r \subseteq DOMAIN c
      /\ \A k \in DOMAIN r : r[k] = IF k \in DOMAIN c THEN c[k] ELSE Empty[k]
      /\ DOMAIN c \subseteq DOMAIN r \/ Cardinality(DOMAIN r) = MapSize
  BY PutIs, EmptySmall, Zenon
<1>2. IsFiniteSet(DOMAIN c) /\ Cardinality(DOMAIN c) <= MapSize
  BY SmallIs, SettingsAssumption, FS_Subset, Zenon
<1>3. CASE Cardinality(DOMAIN r) = MapSize
  <2>1. /\ Cardinality(DOMAIN r) <= Cardinality(DOMAIN c)
        /\ Cardinality(DOMAIN r) = Cardinality(DOMAIN c) => DOMAIN r = DOMAIN c
    BY <1>1, <1>2, FS_Subset, Zenon
  <2>2. Cardinality(DOMAIN c) \in Nat
    BY <1>2, FS_CardinalityType, Zenon
  <2> QED
    BY <1>1, <1>2, <1>3, <2>1, <2>2, SettingsAssumption
<1> QED
  BY <1>1, <1>3, Zenon

\* The files that can be read hold maps.
LEMMA ContentsSmall ==
  ASSUME TypeInv, NEW i \in Storages, Readable(i)
  PROVE  Contents(i) \in Small
<1>1. CASE IsText(i)
  <2>1. Restored(i).main \in TextFile
    BY <1>1, Zenon DEF TypeInv, FilesType, Restored, TextFile
  <2>2. PICK c \in Lines : Restored(i).main = Holds(c)
    BY <2>1 DEF TextFile, Readable, Absent, Partial, File
  <2>3. Contents(i) = load_text(c)
    BY <1>1, <2>2 DEF Contents, IsText, Holds, File
  <2> QED
    BY <2>3, LoadText, Zenon
<1>2. CASE ~IsText(i)
  <2>1. Restored(i).main = main[i] /\ main[i] \in BinFile
    BY <1>2, Zenon DEF TypeInv, FilesType, Restored, IsText
  <2>2. PICK m \in Small : main[i] = Holds(m)
    BY <2>1 DEF BinFile, Readable, Absent, Bad, File
  <2>3. Contents(i) = m
    BY <1>2, <2>1, <2>2 DEF Contents, IsText, Holds, File
  <2> QED
    BY <2>3, Zenon
<1> QED
  BY <1>1, <1>2, Zenon

\* A load gives maps of settings.
LEMMA LoadOneSmall ==
  ASSUME TypeInv, NEW i \in Storages, NEW m \in Small
  PROVE  LoadOne(i, m) \subseteq Small
BY ContentsSmall, PutIs, Zenon DEF LoadOne

LEMMA LoadFirstSmall ==
  ASSUME TypeInv, NEW n \in Nat, n <= Len(conf.types), NEW m \in Small
  PROVE  LoadFirst(n, m) \subseteq Small
<1> DEFINE P == [i \in 0..n |-> Small]
<1>1. Len(conf.types) \in Nat
  BY SettingsAssumption DEF TypeInv
<1>2. m \in P[0] /\ P[n] = Small
  OBVIOUS
<1>3. \A i \in 1..n : i \in Storages /\ P[i - 1] = Small /\ P[i] = Small
  BY <1>1 DEF Storages
<1>4. \A i \in 1..n : \A l \in P[i - 1] : LoadOne(i, l) \subseteq P[i]
  BY <1>3, LoadOneSmall, Zenon
<1> HIDE DEF P
<1>5. LoadFirst(n, m) \subseteq P[n]
  BY <1>2, <1>4, LoadInduction, Zenon
<1> QED
  BY <1>2, <1>5, Zenon

LEMMA StoragesType ==
  ASSUME TypeInv
  PROVE  /\ Len(conf.types) \in Nat /\ stores \in Nat
         /\ \A i \in Storages : i \in Nat /\ conf.types[i] \in {"text", "bin"}
         /\ \A i \in 1..stores : i \in Storages
<1>1. conf.types \in Seq({"text", "bin"}) /\ stores \in 0..Len(conf.types)
  BY SettingsAssumption, Zenon DEF TypeInv
<1> QED
  BY <1>1 DEF Storages

\* Restoring the backup keeps the files' types, and loses no contents.
LEMMA RestoredType ==
  ASSUME TypeInv, NEW i \in Storages
  PROVE  IF IsText(i)
           THEN Restored(i).main \in TextFile /\ Restored(i).backup \in TextFile
           ELSE Restored(i).main = main[i] /\ Restored(i).backup = backup[i]
BY Zenon DEF TypeInv, FilesType, Restored, TextFile, IsText

\* dump_cache starts at, and goes on to, one of its places.
LEMMA AtStorePlace ==
  ASSUME TypeInv, NEW n \in 0..Len(conf.types), NEW i \in 1..(n + 1)
  PROVE  /\ IsPlace(AtStore(i, n), n)
         /\ AtStore(i, n) # Idle
         /\ AtStore(i, n).store = i
         /\ AtStore(i, n).step \in {"write", "truncate", "end"}
<1>1. Len(conf.types) \in Nat
  BY StoragesType, Zenon
<1>2. CASE i <= n
  <2>1. i \in Storages /\ conf.types[i] \in {"text", "bin"} /\ i \in 1..n
    BY <1>1, <1>2, StoragesType DEF Storages
  <2>2. AtStore(i, n) = [store |-> i, step |-> FirstStep(conf.types[i])]
    BY <1>2, Zenon DEF AtStore
  <2>3. CASE conf.types[i] = "text"
    <3>1. AtStore(i, n) = [store |-> i, step |-> "write"]
      BY <2>2, <2>3, Zenon DEF FirstStep
    <3> QED
      BY <2>1, <2>3, <3>1 DEF IsPlace, At, StepsOf, IsText, Idle
  <2>4. CASE conf.types[i] = "bin"
    <3>1. AtStore(i, n) = [store |-> i, step |-> "truncate"]
      BY <2>2, <2>4, Zenon DEF FirstStep
    <3> QED
      BY <2>1, <2>4, <3>1 DEF IsPlace, At, StepsOf, IsText, Idle
  <2> QED
    BY <2>1, <2>3, <2>4, Zenon
<1>3. CASE ~(i <= n)
  <2>1. i = n + 1 /\ AtStore(i, n) = [store |-> n + 1, step |-> "end"]
    BY <1>1, <1>3 DEF AtStore
  <2> QED
    BY <1>1, <2>1 DEF IsPlace, At, Idle
<1> QED
  BY <1>2, <1>3, Zenon

\* To save is to be at the first storage, or to have the timer armed.
LEMMA SaveIs ==
  ASSUME TypeInv, NEW n \in 0..Len(conf.types), save(n), conf' = conf
  PROVE  /\ wrpend' = TRUE /\ armed' \in BOOLEAN /\ expired' = expired
         /\ conf.cached => dump' = dump
         /\ ~conf.cached => dump' = AtStore(1, n)
BY Zenon DEF save, TypeInv

\* The places do not depend on what the files hold.
LEMMA PlacePrime ==
  ASSUME conf' = conf, IsPlace(dump', stores')
  PROVE  IsPlace(dump, stores)'
BY Zenon DEF IsPlace, StepsOf, IsText

\* A function that ends with a save, or without one, leaves dump_cache at the
\* first storage, or not running.
LEMMA SaveOrNot ==
  ASSUME TypeInv, MutexFree, conf' = conf, stores' \in 0..Len(conf.types),
         save(stores') \/ NoSave
  PROVE  /\ wrpend' \in BOOLEAN /\ armed' \in BOOLEAN /\ expired' \in BOOLEAN
         /\ wrpend' = TRUE \/ (NoSave /\ wrpend' = wrpend)
         /\ dump' = Idle \/ (dump' = AtStore(1, stores') /\ dump' # Idle)
         /\ IsPlace(dump, stores)'
         /\ DumpInv'
<1>1. CASE save(stores')
  <2>1. /\ wrpend' = TRUE /\ armed' \in BOOLEAN /\ expired' = expired
        /\ dump' = Idle \/ dump' = AtStore(1, stores')
    BY <1>1, SaveIs, Zenon DEF MutexFree, TypeInv
  <2> QED
    <3>1. 1 \in 1..(stores' + 1)
      <4>1. Len(conf.types) \in Nat
        BY StoragesType, Zenon
      <4>2. \A n \in Nat : \A i \in 0..n : 1 \in 1..(i + 1)
        OBVIOUS
      <4> QED
        BY <4>1, <4>2, Zenon
    <3>2. /\ IsPlace(AtStore(1, stores'), stores')
          /\ AtStore(1, stores') # Idle
          /\ AtStore(1, stores').store = 1
          /\ AtStore(1, stores').step \in {"write", "truncate", "end"}
      BY <3>1, AtStorePlace, Zenon
    <3>3. IsPlace(dump', stores')
      BY <2>1, <3>2, Zenon DEF IsPlace
    <3>4. DumpInv'
      BY <2>1, <3>2 DEF DumpInv, Idle
    <3> QED
      BY <2>1, <3>2, <3>3, <3>4, PlacePrime, Zenon DEF TypeInv
<1>2. CASE NoSave
  <2>1. /\ wrpend' \in BOOLEAN /\ armed' \in BOOLEAN /\ expired' \in BOOLEAN
        /\ dump' = Idle /\ wrpend' = wrpend
    BY <1>2, Zenon DEF NoSave, TypeInv, MutexFree
  <2>2. IsPlace(dump', stores')
    BY <2>1, Zenon DEF IsPlace
  <2>3. DumpInv'
    BY <2>1, Zenon DEF DumpInv, Idle
  <2> QED
    BY <1>2, <2>1, <2>2, <2>3, PlacePrime, Zenon
<1> QED
  BY <1>1, <1>2, Zenon

LEMMA FilesTypeSame ==
  ASSUME FilesType, UNCHANGED <<conf, main, backup>>
  PROVE  FilesType'
BY Zenon DEF FilesType, IsText, Storages

\* Files that are as they were, or restored, have their types.
LEMMA FilesTypeRestored ==
  ASSUME TypeInv, conf' = conf,
         main' = [i \in Storages |-> main'[i]],
         backup' = [i \in Storages |-> backup'[i]],
         \A i \in Storages :
           \/ main'[i] = main[i] /\ backup'[i] = backup[i]
           \/ main'[i] = Restored(i).main /\ backup'[i] = Restored(i).backup
  PROVE  FilesType'
<1>1. Storages' = Storages /\ \A i \in Storages : IsText(i)' = IsText(i)
  BY Zenon DEF Storages, IsText
<1>2. ASSUME NEW i \in Storages
      PROVE  IF IsText(i) THEN main'[i] \in TextFile /\ backup'[i] \in TextFile
             ELSE /\ main'[i] \in BinFile /\ backup'[i] = Absent
                  /\ main'[i] = Absent <=> ~conf.device
  BY RestoredType, Zenon DEF TypeInv, FilesType
<1> QED
  BY <1>1, <1>2, Zenon DEF FilesType, IsText

BaseInv == TypeInv /\ DumpInv /\ FilesHoldMap

LEMMA BaseInit == Init => BaseInv
<1> SUFFICES ASSUME Init PROVE BaseInv
  BY Zenon
<1>1. Len(conf.types) \in Nat /\ \A i \in Storages : conf.types[i] \in {"text", "bin"}
  BY SettingsAssumption DEF Init, Storages
<1>2. FilesType
  <2>1. Bad # Absent
    BY Zenon DEF Bad, Absent, File
  <2>2. \A i \in Storages : IsText(i) => main[i] = Absent
    BY <1>1, Zenon DEF Init, IsText
  <2>3. \A i \in Storages : ~IsText(i) => main[i] = IF conf.device THEN Bad ELSE Absent
    BY <1>1, Zenon DEF Init, IsText
  <2>4. \A i \in Storages : backup[i] = Absent
    BY Zenon DEF Init
  <2>5. main = [i \in Storages |-> main[i]] /\ backup = [i \in Storages |-> backup[i]]
    BY Zenon DEF Init
  <2> QED
    BY <2>1, <2>2, <2>3, <2>4, <2>5, Zenon DEF FilesType, TextFile, BinFile
<1>3. TypeInv
  <2>1. stores \in 0..Len(conf.types) /\ IsPlace(dump, stores)
    BY <1>1 DEF Init, IsPlace
  <2>2. user \in [User -> {"run", "wait"}] /\ durable \in [Key -> SUBSET (Values \cup {None})]
    BY Zenon DEF Init
  <2> QED
    BY <1>2, <2>1, <2>2, EmptySmall, Zenon DEF Init, TypeInv
<1>4. DumpInv /\ FilesHoldMap
  BY Zenon DEF Init, DumpInv, FilesHoldMap, Idle
<1> QED
  BY <1>3, <1>4, Zenon DEF BaseInv

-----------------------------------------------------------------------------
(* Every step keeps the types, what dump_cache has written, and FilesHoldMap. *)

LEMMA SetstorageBase ==
  ASSUME BaseInv, settings_setstorage PROVE BaseInv'
<1> USE DEF BaseInv
<1>1. Len(conf.types) \in Nat /\ stores \in Nat
  BY StoragesType, Zenon
<1>2. stores' \in Storages /\ stores' \in 0..Len(conf.types) /\ conf' = conf
  BY <1>1 DEF settings_setstorage, Storages
<1>3. /\ wrpend' \in BOOLEAN /\ armed' \in BOOLEAN /\ expired' \in BOOLEAN
      /\ IsPlace(dump, stores)' /\ DumpInv'
  <2>1. save(stores') \/ NoSave
    BY Zenon DEF settings_setstorage
  <2> QED
    BY <1>2, <2>1, SaveOrNot, Zenon DEF settings_setstorage
<1>4. map' \in Small /\ hash' = map'
  BY <1>2, LoadOneSmall, Zenon DEF settings_setstorage, TypeInv
<1>5. FilesType'
  <2>1. /\ main' = [i \in Storages |-> IF i = stores' THEN Restored(i).main ELSE main[i]]
        /\ backup' = [i \in Storages |-> IF i = stores' THEN Restored(i).backup ELSE backup[i]]
    BY <1>2, Zenon DEF settings_setstorage, TypeInv, FilesType
  <2> QED
    BY <1>2, <2>1, FilesTypeRestored, Zenon
<1>6. TypeInv'
  BY <1>2, <1>3, <1>4, <1>5, Zenon DEF TypeInv, settings_setstorage
<1>7. FilesHoldMap'
  BY Zenon DEF settings_setstorage, FilesHoldMap
<1> QED
  BY <1>3, <1>6, <1>7, Zenon

\* FilesHoldMap says nothing after a step that starts a save.
LEMMA PendingSaves == wrpend' = TRUE => FilesHoldMap'
BY Zenon DEF FilesHoldMap

LEMMA CreateBase ==
  ASSUME BaseInv, NEW u \in User, NEW k \in Key, NEW v \in Value, settings_create(u, k, v)
  PROVE  BaseInv'
<1> USE DEF BaseInv
<1>1. /\ UNCHANGED <<conf, stores, main, backup, user, saved, durable>>
      /\ hash' = map' /\ save(stores) /\ MutexFree
  BY Zenon DEF settings_create, Ready
<1>2. stores' \in 0..Len(conf.types)
  BY <1>1, Zenon DEF TypeInv
<1>3. /\ wrpend' \in BOOLEAN /\ armed' \in BOOLEAN /\ expired' \in BOOLEAN
      /\ IsPlace(dump, stores)' /\ DumpInv' /\ wrpend' = TRUE
  BY <1>1, <1>2, SaveOrNot, Zenon DEF save
<1>4. map' \in Small
  <2>1. DOMAIN map \in SUBSET Key /\ map \in [DOMAIN map -> Values]
    BY SmallIs, Zenon DEF TypeInv
  <2>2. map' \in [DOMAIN map \cup {k} -> Values]
    BY <2>1, SettingsAssumption, Zenon DEF settings_create
  <2>3. IsFiniteSet(DOMAIN map)
    BY <2>1, SettingsAssumption, FS_Subset, Zenon
  <2>4. Cardinality(DOMAIN map \cup {k}) = Cardinality(DOMAIN map) + 1
    BY <2>3, FS_AddElement, Zenon DEF settings_create
  <2>5. Cardinality(DOMAIN map) \in Nat
    BY <2>3, FS_CardinalityType, Zenon
  <2>6. Cardinality(DOMAIN map \cup {k}) <= MapSize
    BY <2>4, <2>5, SettingsAssumption DEF settings_create
  <2> QED
    BY <2>1, <2>2, <2>6, IsSmall, Zenon
<1>5. FilesType'
  BY <1>1, FilesTypeSame, Zenon DEF TypeInv
<1>6. TypeInv'
  BY <1>1, <1>2, <1>3, <1>4, <1>5, Zenon DEF TypeInv
<1> QED
  BY <1>3, <1>6, PendingSaves, Zenon

LEMMA SetBase ==
  ASSUME BaseInv, NEW u \in User, NEW k \in Key, NEW v \in Value, settings_set(u, k, v)
  PROVE  BaseInv'
<1> USE DEF BaseInv
<1>1. /\ UNCHANGED <<conf, stores, main, backup, user, saved, durable>>
      /\ MutexFree
      /\ save(stores') \/ NoSave
      /\ hash' = map'
      /\ save(stores') \/ map' = map
  BY Zenon DEF settings_set, Ready, TypeInv
<1>2. stores' \in 0..Len(conf.types)
  BY <1>1, Zenon DEF TypeInv
<1>3. /\ wrpend' \in BOOLEAN /\ armed' \in BOOLEAN /\ expired' \in BOOLEAN
      /\ wrpend' = TRUE \/ (NoSave /\ wrpend' = wrpend)
      /\ IsPlace(dump, stores)' /\ DumpInv'
  BY <1>1, <1>2, SaveOrNot, Zenon
<1>4. map' \in Small
  <2>1. /\ DOMAIN map \in SUBSET Key /\ map \in [DOMAIN map -> Values]
        /\ Cardinality(DOMAIN map) <= MapSize
    BY SmallIs, Zenon DEF TypeInv
  <2>2. map' \in [DOMAIN map -> Values]
    BY <2>1, SettingsAssumption, Zenon DEF settings_set
  <2> QED
    BY <2>1, <2>2, IsSmall, Zenon
<1>5. FilesType'
  BY <1>1, FilesTypeSame, Zenon DEF TypeInv
<1>6. TypeInv'
  BY <1>1, <1>2, <1>3, <1>4, <1>5, Zenon DEF TypeInv
<1>7. FilesHoldMap'
  <2>1. CASE wrpend' = TRUE
    BY <2>1, PendingSaves, Zenon
  <2>2. CASE wrpend' # TRUE
    <3>1. map' = map /\ wrpend' = wrpend
      BY <1>1, <1>3, <2>2, Zenon DEF save
    <3> QED
      BY <1>1, <3>1, Zenon DEF FilesHoldMap, MutexFree, There
  <2> QED
    BY <2>1, <2>2, Zenon
<1> QED
  BY <1>3, <1>6, <1>7, Zenon

LEMMA WaitsType ==
  ASSUME TypeInv, NEW u \in User, NEW wait, Waits(u, wait)
  PROVE  user' \in [User -> {"run", "wait"}]
BY Zenon DEF TypeInv, Waits

LEMMA SyncBase ==
  ASSUME BaseInv, NEW u \in User, NEW wait \in BOOLEAN, settings_sync(u, wait)
  PROVE  BaseInv'
<1> USE DEF BaseInv
<1>1. /\ UNCHANGED <<conf, stores, saved, durable>>
      /\ MutexFree
      /\ main' = [i \in Storages |-> IF i <= stores THEN Restored(i).main ELSE main[i]]
      /\ backup' = [i \in Storages |-> IF i <= stores THEN Restored(i).backup ELSE backup[i]]
      /\ save(stores') \/ NoSave
      /\ map' = map \/ map' \in LoadFirst(stores, map)
      /\ hash' = map'
      /\ map' # map => save(stores')
  BY Zenon DEF settings_sync, Ready, TypeInv
<1>2. user' \in [User -> {"run", "wait"}]
  BY WaitsType, Zenon DEF settings_sync, TypeInv
<1>3. stores' \in 0..Len(conf.types)
  BY <1>1, Zenon DEF TypeInv
<1>4. /\ wrpend' \in BOOLEAN /\ armed' \in BOOLEAN /\ expired' \in BOOLEAN
      /\ wrpend' = TRUE \/ (NoSave /\ wrpend' = wrpend)
      /\ IsPlace(dump, stores)' /\ DumpInv'
  BY <1>1, <1>3, SaveOrNot, Zenon
<1>5. map' \in Small
  <2>1. stores \in Nat /\ stores <= Len(conf.types)
    BY StoragesType DEF TypeInv
  <2> QED
    BY <1>1, <2>1, LoadFirstSmall, Zenon DEF TypeInv
<1>6. FilesType'
  BY <1>1, FilesTypeRestored, Zenon
<1>7. TypeInv'
  BY <1>1, <1>2, <1>3, <1>4, <1>5, <1>6, Zenon DEF TypeInv
<1>8. FilesHoldMap'
  <2>1. CASE wrpend' = TRUE
    BY <2>1, PendingSaves, Zenon
  <2>2. CASE wrpend' # TRUE
    <3>1. map' = map /\ wrpend' = wrpend
      BY <1>1, <1>4, <2>2, Zenon DEF save
    <3>2. ASSUME saved, ~wrpend, NEW i \in 1..stores, There(i)
          PROVE  main'[i] = Image(i)
      <4>1. main[i] = Image(i) /\ i \in Storages
        BY <1>1, <3>2, StoragesType, Zenon DEF FilesHoldMap, Image, IsText
      <4>2. Restored(i).main = main[i] /\ i <= stores
        BY <3>2, <4>1, StoragesType DEF Restored, Image, Holds, Absent, File
      <4> QED
        BY <1>1, <4>1, <4>2, Zenon
    <3> QED
      BY <1>1, <3>1, <3>2, Zenon DEF FilesHoldMap, MutexFree, There, Image, IsText
  <2> QED
    BY <2>1, <2>2, Zenon
<1> QED
  BY <1>4, <1>7, <1>8, Zenon

LEMMA ClearBase ==
  ASSUME BaseInv, NEW u \in User, settings_clear(u)
  PROVE  BaseInv'
<1> USE DEF BaseInv
<1>1. /\ UNCHANGED <<conf, stores, main, backup, saved, durable>>
      /\ map' = Empty /\ hash' = map' /\ save(stores') /\ MutexFree
  BY Zenon DEF settings_clear, Ready
<1>2. stores' \in 0..Len(conf.types)
  BY <1>1, Zenon DEF TypeInv
<1>3. /\ wrpend' \in BOOLEAN /\ armed' \in BOOLEAN /\ expired' \in BOOLEAN
      /\ IsPlace(dump, stores)' /\ DumpInv' /\ wrpend' = TRUE
  BY <1>1, <1>2, SaveOrNot, Zenon DEF save
<1>4. user' \in [User -> {"run", "wait"}]
  BY WaitsType, Zenon DEF settings_clear
<1>5. FilesType'
  BY <1>1, FilesTypeSame, Zenon DEF TypeInv
<1>6. TypeInv'
  BY <1>1, <1>2, <1>3, <1>4, <1>5, EmptySmall, Zenon DEF TypeInv
<1> QED
  BY <1>3, <1>6, PendingSaves, Zenon

\* A step that changes neither the map nor the files nor where dump_cache is.
LEMMA SameBase ==
  ASSUME BaseInv,
         UNCHANGED <<conf, map, hash, stores, dump, main, backup, saved, durable>>,
         UNCHANGED wrpend, armed' \in BOOLEAN, expired' \in BOOLEAN,
         user' \in [User -> {"run", "wait"}]
  PROVE  BaseInv'
<1> USE DEF BaseInv
<1>1. FilesType' /\ IsPlace(dump, stores)'
  BY FilesTypeSame, PlacePrime, Zenon DEF TypeInv
<1>2. TypeInv'
  BY <1>1, Zenon DEF TypeInv
<1>3. DumpInv'
  BY Zenon DEF DumpInv, There, Image, IsText
<1>4. FilesHoldMap'
  BY Zenon DEF FilesHoldMap, MutexFree, There
<1> QED
  BY <1>2, <1>3, <1>4, Zenon

LEMMA ReturnBase == ASSUME BaseInv, NEW u \in User, Return(u) PROVE BaseInv'
<1>1. user' \in [User -> {"run", "wait"}] /\ armed' \in BOOLEAN /\ expired' \in BOOLEAN
  BY Zenon DEF BaseInv, TypeInv, Return, NoSave
<1> QED
  BY <1>1, SameBase, Zenon DEF Return, NoSave

LEMMA TimerBase == ASSUME BaseInv, TimerExpires PROVE BaseInv'
<1>1. user' \in [User -> {"run", "wait"}] /\ armed' \in BOOLEAN /\ expired' \in BOOLEAN
  BY Zenon DEF BaseInv, TypeInv, TimerExpires, unchangedByDump
<1> QED
  BY <1>1, SameBase, Zenon DEF TimerExpires, unchangedByDump

LEMMA DumpStartBase == ASSUME BaseInv, DumpStart PROVE BaseInv'
<1> USE DEF BaseInv
<1>1. /\ UNCHANGED <<conf, map, hash, stores, user, wrpend, armed, main, backup, saved, durable>>
      /\ expired' = FALSE /\ dump' = AtStore(1, stores)
  BY Zenon DEF DumpStart, unchangedByDump
<1>2. stores \in 0..Len(conf.types) /\ 1 \in 1..(stores + 1)
  BY StoragesType DEF TypeInv
<1>3. /\ IsPlace(dump', stores') /\ dump' # Idle /\ dump'.store = 1
      /\ dump'.step \in {"write", "truncate", "end"}
  BY <1>1, <1>2, AtStorePlace, Zenon
<1>4. FilesType' /\ IsPlace(dump, stores)'
  BY <1>1, <1>3, FilesTypeSame, PlacePrime, Zenon DEF TypeInv
<1>5. TypeInv'
  BY <1>1, <1>4, Zenon DEF TypeInv
<1>6. DumpInv'
  BY <1>3 DEF DumpInv
<1>7. FilesHoldMap'
  BY <1>3, Zenon DEF FilesHoldMap, MutexFree
<1> QED
  BY <1>5, <1>6, <1>7, Zenon

\* Where dump_cache is, by its step.
LEMMA PlaceIs ==
  ASSUME TypeInv
  PROVE  /\ dump.step \in {"write", "close", "remove", "rename"} =>
              /\ dump.store \in 1..stores /\ dump.store \in Storages
              /\ IsText(dump.store) /\ dump = At(dump.store, dump.step)
         /\ dump.step \in {"truncate", "fill"} =>
              /\ dump.store \in 1..stores /\ dump.store \in Storages
              /\ ~IsText(dump.store) /\ dump = At(dump.store, dump.step)
         /\ dump.step = "end" => dump = At(stores + 1, "end")
         /\ dump = Idle <=> dump.step = "none"
<1>1. CASE dump = Idle
  BY <1>1, Zenon DEF Idle
<1>2. CASE dump = At(stores + 1, "end")
  BY <1>2, Zenon DEF At, Idle
<1>3. ASSUME NEW i \in 1..stores, NEW step \in StepsOf(i), dump = At(i, step)
      PROVE  /\ dump.store = i /\ dump.step = step /\ i \in Storages
             /\ IF IsText(i) THEN step \in {"write", "close", "remove", "rename"}
                ELSE step \in {"truncate", "fill"}
  BY <1>3, StoragesType, Zenon DEF At, StepsOf
<1>4. ASSUME NEW i \in 1..stores, NEW step \in StepsOf(i), dump = At(i, step)
      PROVE  dump # Idle
  BY <1>3, <1>4 DEF Idle
<1> QED
  BY <1>1, <1>2, <1>3, <1>4, Zenon DEF TypeInv, IsPlace

\* What the files are after a step of dump_cache.
Wrote(m, b) == main' = [main EXCEPT ![dump.store] = m] /\ backup' = [backup EXCEPT ![dump.store] = b]

LEMMA SaveCases ==
  ASSUME TypeInv, SaveStep
  PROVE  /\ UNCHANGED <<wrpend, armed, expired, saved, durable, conf, map, hash, stores, user>>
         /\ dump.store \in 1..stores /\ dump.store \in Storages
         /\ dump = At(dump.store, dump.step) /\ dump # Idle
         /\ \/ /\ dump.step = "write" /\ dump' = At(dump.store, "close")
               /\ Wrote(main[dump.store], Partial)
            \/ /\ dump.step = "close" /\ dump' = At(dump.store, "remove")
               /\ Wrote(main[dump.store], Holds(save_text(map)))
            \/ /\ dump.step = "remove" /\ dump' = At(dump.store, "rename")
               /\ Wrote(Absent, backup[dump.store])
            \/ /\ dump.step = "rename" /\ dump' = AtStore(dump.store + 1, stores)
               /\ Wrote(backup[dump.store], Absent)
            \/ /\ dump.step = "truncate" /\ dump' = AtStore(dump.store + 1, stores)
               /\ Wrote(main[dump.store], backup[dump.store])
               /\ main[dump.store] = Absent
            \/ /\ dump.step = "truncate" /\ dump' = At(dump.store, "fill")
               /\ Wrote(Bad, backup[dump.store])
               /\ main[dump.store] # Absent
            \/ /\ dump.step = "fill" /\ dump' = AtStore(dump.store + 1, stores)
               /\ Wrote(Holds(map), backup[dump.store])
<1>1. UNCHANGED <<wrpend, armed, expired, saved, durable, conf, map, hash, stores, user>>
  BY Zenon DEF SaveStep, unchangedByDump
<1>2. dump.step \in {"write", "close", "remove", "rename", "truncate", "fill"}
  BY Zenon DEF SaveStep
<1>3. /\ dump.store \in 1..stores /\ dump.store \in Storages
      /\ dump = At(dump.store, dump.step) /\ dump # Idle
  BY <1>2, PlaceIs, Zenon
<1>4. \A step : [dump EXCEPT !.step = step] = At(dump.store, step)
  <2>1. \A i, s, step : [At(i, s) EXCEPT !.step = step] = At(i, step)
    BY DEF At
  <2> QED
    BY <1>3, <2>1
<1>5. /\ main = [main EXCEPT ![dump.store] = main[dump.store]]
      /\ backup = [backup EXCEPT ![dump.store] = backup[dump.store]]
  BY <1>3, Zenon DEF TypeInv, FilesType
<1> QED
  BY <1>1, <1>3, <1>4, <1>5, Zenon DEF SaveStep, Wrote, files

\* A storage's file of the right type.
FileOf(i, m, b) ==
  IF IsText(i) THEN m \in TextFile /\ b \in TextFile
  ELSE m \in BinFile /\ b = Absent /\ (m = Absent <=> ~conf.device)

LEMMA WroteType ==
  ASSUME TypeInv, conf' = conf, dump.store \in Storages, NEW m, NEW b, Wrote(m, b),
         FileOf(dump.store, m, b)
  PROVE  FilesType'
<1>1. Storages' = Storages /\ \A i \in Storages : IsText(i)' = IsText(i)
  BY Zenon DEF Storages, IsText
<1>2. /\ main' = [i \in Storages |-> IF i = dump.store THEN m ELSE main[i]]
      /\ backup' = [i \in Storages |-> IF i = dump.store THEN b ELSE backup[i]]
  BY Zenon DEF Wrote, TypeInv, FilesType
<1>3. \A i \in Storages :
        IF IsText(i) THEN main'[i] \in TextFile /\ backup'[i] \in TextFile
        ELSE main'[i] \in BinFile /\ backup'[i] = Absent /\ (main'[i] = Absent <=> ~conf.device)
  BY <1>2, Zenon DEF FileOf, TypeInv, FilesType
<1>4. main' = [i \in Storages |-> main'[i]] /\ backup' = [i \in Storages |-> backup'[i]]
  BY <1>2, Zenon
<1> QED
  BY <1>1, <1>3, <1>4, Zenon DEF FilesType, IsText

\* A storage's file once dump_cache has written it.
LEMMA ImageType ==
  ASSUME TypeInv, NEW i \in Storages
  PROVE  /\ IsText(i) => Image(i) = Holds(save_text(map)) /\ Image(i) \in TextFile
         /\ ~IsText(i) => Image(i) = Holds(map) /\ Image(i) \in BinFile
         /\ Image(i) # Absent
<1>1. map \in Small
  BY Zenon DEF TypeInv
<1>2. save_text(map) \in Lines
  BY <1>1, SaveText, Zenon
<1> QED
  BY <1>1, <1>2, Zenon DEF Image, TextFile, BinFile, Holds, Absent, File

LEMMA SaveStepBase == ASSUME BaseInv, SaveStep PROVE BaseInv'
<1> USE DEF BaseInv
<1> DEFINE i == dump.store
<1>1. /\ UNCHANGED <<wrpend, armed, expired, saved, durable, conf, map, hash, stores, user>>
      /\ i \in 1..stores /\ i \in Storages /\ dump = At(i, dump.step) /\ dump # Idle
  BY SaveCases, Zenon
<1>2. stores \in Nat /\ i \in Nat /\ i + 1 \in 1..(stores + 1) /\ stores \in 0..Len(conf.types)
  BY <1>1, StoragesType DEF TypeInv
<1>3. /\ IsPlace(AtStore(i + 1, stores), stores) /\ AtStore(i + 1, stores) # Idle
      /\ AtStore(i + 1, stores).store = i + 1
      /\ AtStore(i + 1, stores).step \in {"write", "truncate", "end"}
  BY <1>2, AtStorePlace, Zenon
<1>4. /\ IsText(i) => main[i] \in TextFile /\ backup[i] \in TextFile
      /\ ~IsText(i) => main[i] \in BinFile /\ backup[i] = Absent
                       /\ (main[i] = Absent <=> ~conf.device)
  BY <1>1, Zenon DEF TypeInv, FilesType
<1>5. \A j \in 1..(i - 1) : There(j) => main[j] = Image(j)
  BY <1>1, Zenon DEF DumpInv
<1>6. \A j : /\ IsText(j)' = IsText(j) /\ There(j)' = There(j) /\ Image(j)' = Image(j)
  BY <1>1, Zenon DEF There, Image, IsText
<1>7. \A m, b : Wrote(m, b) => /\ main'[i] = m /\ backup'[i] = b
                               /\ \A j \in 1..(i - 1) : main'[j] = main[j]
  BY <1>1, <1>2 DEF Wrote, TypeInv, FilesType
\* A step within a storage, and one that ends with it.
<1>8. ASSUME NEW m, NEW b, NEW step, Wrote(m, b), FileOf(i, m, b),
             dump' = At(i, step), step \in StepsOf(i),
             step \in {"remove", "rename"} => b = Image(i),
             step = "fill" => conf.device
      PROVE  TypeInv' /\ DumpInv'
  <2>1. IsPlace(dump', stores')
    BY <1>1, <1>8, Zenon DEF IsPlace
  <2>2. FilesType' /\ IsPlace(dump, stores)'
    BY <1>1, <1>8, <2>1, WroteType, PlacePrime, Zenon
  <2>3. TypeInv'
    BY <1>1, <2>2, Zenon DEF TypeInv
  <2>4. dump'.store = i /\ dump'.step = step
    BY <1>8, Zenon DEF At
  <2>5. \A j \in 1..(i - 1) : There(j)' => main'[j] = Image(j)'
    BY <1>5, <1>6, <1>7, <1>8, Zenon
  <2>6. step \in {"remove", "rename"} => backup'[i] = Image(i)
    BY <1>7, <1>8, Zenon
  <2>7. DumpInv'
    BY <1>1, <1>8, <2>4, <2>5, <2>6, Zenon DEF DumpInv, Image, IsText
  <2> QED
    BY <2>3, <2>7, Zenon
<1>9. ASSUME NEW m, NEW b, Wrote(m, b), FileOf(i, m, b),
             dump' = AtStore(i + 1, stores), There(i) => m = Image(i)
      PROVE  TypeInv' /\ DumpInv'
  <2>1. IsPlace(dump', stores')
    BY <1>1, <1>3, <1>9, Zenon
  <2>2. FilesType' /\ IsPlace(dump, stores)'
    BY <1>1, <1>9, <2>1, WroteType, PlacePrime, Zenon
  <2>3. TypeInv'
    BY <1>1, <2>2, Zenon DEF TypeInv
  <2>4. dump'.store = i + 1 /\ dump'.step \notin {"remove", "rename", "fill"}
    BY <1>3, <1>9, Zenon
  <2>5. \A j \in 1..((i + 1) - 1) : j = i \/ j \in 1..(i - 1)
    BY <1>2
  <2>6. \A j \in 1..((i + 1) - 1) : There(j)' => main'[j] = Image(j)'
    BY <1>5, <1>6, <1>7, <1>9, <2>5, Zenon
  <2>7. DumpInv'
    BY <2>4, <2>6, Zenon DEF DumpInv
  <2> QED
    BY <2>3, <2>7, Zenon
<1>10. TypeInv' /\ DumpInv'
  <2>1. CASE dump.step = "write"
    <3>1. IsText(i) /\ Wrote(main[i], Partial) /\ dump' = At(i, "close")
      BY <2>1, SaveCases, PlaceIs, Zenon
    <3>2. FileOf(i, main[i], Partial) /\ "close" \in StepsOf(i)
      BY <1>4, <3>1, Zenon DEF FileOf, TextFile, StepsOf
    <3> QED
      BY <1>8, <3>1, <3>2, Zenon
  <2>2. CASE dump.step = "close"
    <3>1. IsText(i) /\ Wrote(main[i], Image(i)) /\ dump' = At(i, "remove")
      BY <1>1, <2>2, SaveCases, PlaceIs, ImageType, Zenon
    <3>2. FileOf(i, main[i], Image(i)) /\ "remove" \in StepsOf(i)
      BY <1>1, <1>4, <3>1, ImageType, Zenon DEF FileOf, StepsOf
    <3> QED
      BY <1>8, <3>1, <3>2, Zenon
  <2>3. CASE dump.step = "remove"
    <3>1. IsText(i) /\ Wrote(Absent, backup[i]) /\ dump' = At(i, "rename")
      BY <2>3, SaveCases, PlaceIs, Zenon
    <3>2. FileOf(i, Absent, backup[i]) /\ "rename" \in StepsOf(i) /\ backup[i] = Image(i)
      BY <1>4, <2>3, <3>1, Zenon DEF FileOf, StepsOf, TextFile, DumpInv
    <3> QED
      BY <1>8, <3>1, <3>2, Zenon
  <2>4. CASE dump.step = "rename"
    <3>1. IsText(i) /\ Wrote(backup[i], Absent) /\ dump' = AtStore(i + 1, stores)
      BY <2>4, SaveCases, PlaceIs, Zenon
    <3>2. FileOf(i, backup[i], Absent) /\ backup[i] = Image(i)
      BY <1>4, <2>4, <3>1, Zenon DEF FileOf, TextFile, DumpInv
    <3> QED
      BY <1>9, <3>1, <3>2, Zenon
  <2>5. CASE dump.step = "truncate" /\ main[i] = Absent
    <3>1. /\ ~IsText(i) /\ Wrote(main[i], backup[i])
          /\ dump' = AtStore(i + 1, stores)
      BY <2>5, SaveCases, PlaceIs, Zenon
    <3>2. FileOf(i, main[i], backup[i]) /\ ~There(i)
      BY <1>4, <2>5, <3>1, Zenon DEF FileOf, There, IsText
    <3> QED
      BY <1>9, <3>1, <3>2, Zenon
  <2>6. CASE dump.step = "truncate" /\ main[i] # Absent
    <3>1. ~IsText(i) /\ Wrote(Bad, backup[i]) /\ dump' = At(i, "fill")
      BY <2>6, SaveCases, PlaceIs, Zenon
    <3>2. FileOf(i, Bad, backup[i]) /\ "fill" \in StepsOf(i) /\ conf.device
      BY <1>4, <2>6, <3>1, Zenon
      DEF FileOf, BinFile, StepsOf, Bad, Absent, File
    <3> QED
      BY <1>8, <3>1, <3>2, Zenon
  <2>7. CASE dump.step = "fill"
    <3>1. ~IsText(i) /\ Wrote(Image(i), backup[i]) /\ dump' = AtStore(i + 1, stores)
      BY <1>1, <2>7, SaveCases, PlaceIs, ImageType, Zenon
    <3>2. FileOf(i, Image(i), backup[i])
      BY <1>1, <1>4, <2>7, <3>1, ImageType, Zenon DEF FileOf, DumpInv
    <3> QED
      BY <1>9, <3>1, <3>2, Zenon
  <2> QED
    BY <2>1, <2>2, <2>3, <2>4, <2>5, <2>6, <2>7, SaveCases, Zenon
<1>11. FilesHoldMap'
  <2>1. dump' # Idle
    BY <1>1, <1>2, <1>3, SaveCases DEF At, Idle
  <2> QED
    BY <2>1, Zenon DEF FilesHoldMap, MutexFree
<1> QED
  BY <1>10, <1>11, Zenon

LEMMA LookType ==
  ASSUME NEW m \in Small, NEW k
  PROVE  /\ Look(m, k) \in Values \cup {None}
         /\ Look(m, k) = None <=> k \notin DOMAIN m
BY SmallIs, WrittenType, Zenon DEF Look

LEMMA MayRestartType ==
  ASSUME TypeInv, NEW k \in Key PROVE MayRestart(k) \subseteq Values \cup {None}
<1>1. Look(map, k) \in Values \cup {None} /\ durable[k] \subseteq Values \cup {None}
  BY LookType, Zenon DEF TypeInv
<1> QED
  BY <1>1, Zenon DEF MayRestart

LEMMA DumpEndBase == ASSUME BaseInv, DumpEnd PROVE BaseInv'
<1> USE DEF BaseInv
<1>1. /\ UNCHANGED <<conf, map, hash, stores, user, armed, expired, main, backup>>
      /\ dump.step = "end" /\ dump' = Idle /\ wrpend' = FALSE /\ saved' = TRUE
      /\ durable' = Durable
  BY Zenon DEF DumpEnd, unchangedByDump
<1>2. FilesType' /\ IsPlace(dump, stores)'
  <2>1. IsPlace(dump', stores')
    BY <1>1, Zenon DEF IsPlace
  <2> QED
    BY <1>1, <2>1, FilesTypeSame, PlacePrime, Zenon DEF TypeInv
<1>3. durable' \in [Key -> SUBSET (Values \cup {None})]
  <2>1. \A k \in Key : Look(map, k) \in Values \cup {None}
    BY LookType, Zenon DEF TypeInv
  <2> QED
    BY <1>1, <2>1, MayRestartType, Zenon DEF Durable
<1>4. TypeInv'
  BY <1>1, <1>2, <1>3, Zenon DEF TypeInv
<1>5. DumpInv'
  BY <1>1, Zenon DEF DumpInv, Idle
<1>6. FilesHoldMap'
  <2>1. dump.store = stores + 1 /\ dump # Idle /\ stores \in Nat
    BY <1>1, PlaceIs, StoragesType DEF At
  <2>2. (stores + 1) - 1 = stores
    BY <2>1
  <2>3. \A i \in 1..stores : There(i) => main[i] = Image(i)
    BY <2>1, <2>2, Zenon DEF DumpInv
  <2> QED
    BY <1>1, <2>3, Zenon DEF FilesHoldMap, There, Image, IsText
<1> QED
  BY <1>4, <1>5, <1>6, Zenon

\* What is left of a file~ that was being written.
LEMMA CutLines ==
  ASSUME TypeInv, NEW kept \in SUBSET DOMAIN map, NEW cut \in SUBSET kept,
         NEW short \in [cut -> Text]
  PROVE  LET left == CutShort(kept, cut, short)
         IN  left \in Lines /\ DOMAIN left = kept
<1> DEFINE left == CutShort(kept, cut, short)
<1>1. /\ DOMAIN map \in SUBSET Key /\ Cardinality(DOMAIN map) <= MapSize
      /\ \A k \in DOMAIN map : Written(map[k]) \in Text
  BY SmallIs, WrittenType, Zenon DEF TypeInv
<1>2. left \in [kept -> Text] /\ DOMAIN left = kept
  BY <1>1, Zenon DEF CutShort
<1>3. kept \in SUBSET Key /\ Cardinality(kept) <= MapSize
  BY <1>1, FewerKeys, Zenon
<1> QED
  BY <1>2, <1>3, IsLines, Zenon

\* The files after a loss of power: only a file~ that was being written changes.
LEMMA LossFiles ==
  ASSUME TypeInv, PowerLoss
  PROVE  /\ conf' = conf /\ main' = main
         /\ \/ backup' = backup
            \/ /\ dump.step = "close"
               /\ \E left \in Lines : /\ DOMAIN left \subseteq DOMAIN map
                                      /\ Wrote(main[dump.store], Holds(left))
<1>1. CASE dump.step = "close"
  <2> DEFINE Left(c) == backup' = [backup EXCEPT ![dump.store] = Holds(c)]
  <2>1. PICK kept \in SUBSET DOMAIN map : \E cut \in SUBSET kept :
          \E short \in [cut -> Text] : Left(CutShort(kept, cut, short))
    BY <1>1, Zenon DEF PowerLoss
  <2>2. PICK cut \in SUBSET kept :
          \E short \in [cut -> Text] : Left(CutShort(kept, cut, short))
    BY <2>1, Zenon
  <2>3. PICK short \in [cut -> Text] : Left(CutShort(kept, cut, short))
    BY <2>2, Zenon
  <2> DEFINE left == CutShort(kept, cut, short)
  <2>4. left \in Lines /\ DOMAIN left = kept
    BY CutLines, Zenon
  <2>5. main' = [main EXCEPT ![dump.store] = main[dump.store]]
    BY <1>1, PlaceIs, Zenon DEF PowerLoss, TypeInv, FilesType
  <2> QED
    BY <1>1, <2>3, <2>4, <2>5, Zenon DEF PowerLoss, Wrote
<1>2. CASE dump.step # "close"
  BY <1>2, Zenon DEF PowerLoss
<1> QED
  BY <1>1, <1>2, Zenon DEF PowerLoss

LEMMA PowerLossBase == ASSUME BaseInv, PowerLoss PROVE BaseInv'
<1> USE DEF BaseInv
<1>1. /\ conf' = conf /\ map' = Empty /\ hash' = Empty /\ dump' = Idle /\ stores' = 0
      /\ wrpend' = FALSE /\ armed' = FALSE /\ expired' = FALSE /\ saved' = FALSE
      /\ user' = [u \in User |-> "run"] /\ durable' = [k \in Key |-> MayRestart(k)]
  BY Zenon DEF PowerLoss, settings_init
<1>2. FilesType'
  <2>1. CASE backup' = backup
    BY <2>1, LossFiles, FilesTypeSame, Zenon DEF TypeInv
  <2>2. CASE backup' # backup
    <3>1. PICK left \in Lines : Wrote(main[dump.store], Holds(left)) /\ dump.step = "close"
      BY <2>2, LossFiles, Zenon
    <3>2. dump.store \in Storages /\ IsText(dump.store)
      BY <3>1, PlaceIs, Zenon
    <3>3. FileOf(dump.store, main[dump.store], Holds(left))
      BY <3>2, Zenon DEF FileOf, TypeInv, FilesType, TextFile
    <3> QED
      BY <1>1, <3>1, <3>2, <3>3, WroteType, Zenon
  <2> QED
    BY <2>1, <2>2, Zenon
<1>3. IsPlace(dump, stores)' /\ stores' \in 0..Len(conf'.types)
  <2>1. IsPlace(dump', stores')
    BY <1>1, Zenon DEF IsPlace
  <2> QED
    BY <1>1, <2>1, PlacePrime, StoragesType
<1>4. durable' \in [Key -> SUBSET (Values \cup {None})]
  BY <1>1, MayRestartType, Zenon
<1>5. user' \in [User -> {"run", "wait"}]
  BY <1>1, Zenon
<1>6. TypeInv'
  BY <1>1, <1>2, <1>3, <1>4, <1>5, EmptySmall, Zenon DEF TypeInv
<1>7. DumpInv' /\ FilesHoldMap'
  BY <1>1, Zenon DEF DumpInv, FilesHoldMap, Idle
<1> QED
  BY <1>6, <1>7, Zenon

LEMMA BaseNext == BaseInv /\ [Next]_vars => BaseInv'
<1> SUFFICES ASSUME BaseInv, [Next]_vars PROVE BaseInv'
  BY Zenon
<1>1. CASE settings_setstorage
  BY <1>1, SetstorageBase, Zenon
<1>2. ASSUME NEW u \in User, Call(u) PROVE BaseInv'
  BY <1>2, CreateBase, SetBase, SyncBase, ClearBase, Zenon DEF Call
<1>3. ASSUME NEW u \in User, Return(u) PROVE BaseInv'
  BY <1>3, ReturnBase, Zenon
<1>4. CASE TimerExpires
  BY <1>4, TimerBase, Zenon
<1>5. CASE DumpStart
  BY <1>5, DumpStartBase, Zenon
<1>6. CASE Dump
  BY <1>6, SaveStepBase, DumpEndBase, Zenon DEF Dump
<1>7. CASE PowerLoss
  BY <1>7, PowerLossBase, Zenon
<1>8. CASE UNCHANGED vars
  <2>1. user' \in [User -> {"run", "wait"}] /\ armed' \in BOOLEAN /\ expired' \in BOOLEAN
    BY <1>8, Zenon DEF BaseInv, TypeInv, vars
  <2> QED
    BY <1>8, <2>1, SameBase, Zenon DEF vars
<1> QED
  BY <1>1, <1>2, <1>3, <1>4, <1>5, <1>6, <1>7, <1>8, Zenon DEF Next

\* The types, what dump_cache has written so far, and what the files hold when
\* no save is pending, are an inductive invariant of the settings store.
THEOREM Saving == Spec => []BaseInv
<1>1. Init => BaseInv
  BY BaseInit, Zenon
<1>2. BaseInv /\ [Next]_vars => BaseInv'
  BY BaseNext, Zenon
<1> QED
  BY <1>1, <1>2, PTL DEF Spec

\* The map never holds more than CONFIG_SYSTEM_SETTINGS_MAP_SIZE settings, not
\* even when the files that are loaded hold different ones, and every variable
\* has its type.
THEOREM TypeCorrect == Spec => []TypeOK
<1>1. BaseInv => TypeOK
  <2> SUFFICES ASSUME TypeInv PROVE TypeOK
    BY Zenon DEF BaseInv
  <2>1. /\ DOMAIN map \subseteq Key /\ (\A k \in DOMAIN map : map[k] \in Values)
        /\ Cardinality(DOMAIN map) <= MapSize
    BY SmallIs, Zenon DEF TypeInv
  <2>2. dump.store \in 0..(stores + 1)
    BY StoragesType DEF TypeInv, IsPlace, At, Idle
  <2> QED
    BY <2>1, <2>2, Zenon DEF TypeInv, TypeOK
<1> QED
  BY <1>1, Saving, PTL

\* Once dump_cache has run, the file of every storage holds what the map holds
\* whenever no save is pending or under way, for any number of storages of
\* either kind in any order.
THEOREM FilesUpToDate == Spec => []FilesHoldMap
<1>1. BaseInv => FilesHoldMap
  BY Zenon DEF BaseInv
<1> QED
  BY <1>1, Saving, PTL

-----------------------------------------------------------------------------
(* settings_sync when no save is pending. *)

\* Restoring the backup does not change what is loaded.
LEMMA RestoredAgain ==
  ASSUME conf' = conf, NEW i \in Storages,
         \/ main'[i] = main[i] /\ backup'[i] = backup[i]
         \/ main'[i] = Restored(i).main /\ backup'[i] = Restored(i).backup
  PROVE  Readable(i)' = Readable(i) /\ Contents(i)' = Contents(i)
<1>1. (Restored(i).main)' = Restored(i).main
  BY Zenon DEF Restored
<1> QED
  BY <1>1, Zenon DEF Readable, Contents

\* The map m after it was saved to a file of either kind, with the contents c.
SavedAs(c, m) ==
  /\ \A k \in DOMAIN c : k \in DOMAIN m /\ c[k] \in AsSaved(m[k])
  /\ \A k : Look(c, k) \in AsSaved(Look(m, k))

\* What was saved is loaded as it was, or as load_text reads it.
LEMMA ReadsBack ==
  ASSUME NEW m \in Small, NEW c \in {m, load_text(save_text(m))}
  PROVE  SavedAs(c, m)
<1>1. CASE c = m
  BY <1>1, Zenon DEF SavedAs, AsSaved
<1>2. CASE c = load_text(save_text(m))
  <2>1. /\ save_text(m) \in Lines /\ DOMAIN save_text(m) = DOMAIN m
        /\ \A k \in DOMAIN m : save_text(m)[k] = Written(m[k])
    BY SaveText, Zenon
  <2>2. /\ DOMAIN c = {k \in DOMAIN save_text(m) : Parse(save_text(m)[k]) # None}
        /\ \A k \in DOMAIN c : c[k] = Parse(save_text(m)[k])
    BY <1>2, <2>1, LoadText, Zenon
  <2>3. \A k \in DOMAIN m : m[k] # None
    BY SmallIs, WrittenType, Zenon
  <2>4. \A k \in DOMAIN m : Reread(m[k]) = Parse(save_text(m)[k])
    BY <2>1, <2>3, Zenon DEF Reread
  <2>5. \A k \in DOMAIN c : k \in DOMAIN m /\ c[k] = Reread(m[k])
    BY <2>1, <2>2, <2>4, Zenon
  <2>6. \A k \in DOMAIN m : k \notin DOMAIN c => Reread(m[k]) = None
    BY <2>1, <2>2, <2>4, Zenon
  <2>7. \A k : Look(c, k) \in AsSaved(Look(m, k))
    BY <2>5, <2>6, Zenon DEF Look, AsSaved
  <2> QED
    BY <2>5, <2>7, Zenon DEF SavedAs, AsSaved
<1> QED
  BY <1>1, <1>2, Zenon

\* After dump_cache every file that can be read is loaded as the map.
LEMMA DumpedContents ==
  ASSUME BaseInv, dump.step = "end", NEW i \in 1..stores, Readable(i)
  PROVE  SavedAs(Contents(i), map)
<1> USE DEF BaseInv
<1>1. dump.store = stores + 1 /\ dump # Idle /\ stores \in Nat /\ i \in Storages
  BY PlaceIs, StoragesType DEF At
<1>2. (stores + 1) - 1 = stores
  BY <1>1
<1>3. There(i) => main[i] = Image(i)
  BY <1>1, <1>2, Zenon DEF DumpInv
<1>4. CASE There(i)
  <2>1. Restored(i).main = Image(i)
    BY <1>1, <1>3, <1>4, ImageType, Zenon DEF Restored
  <2>2. Contents(i) \in {map, load_text(save_text(map))}
    BY <2>1 DEF Contents, Image, Holds, File, IsText
  <2> QED
    BY <2>2, ReadsBack, Zenon DEF TypeInv
<1>5. CASE ~There(i)
  <2>1. main[i] = Absent /\ ~IsText(i)
    BY <1>1, <1>5, Zenon DEF There, IsText, TypeInv, FilesType
  <2>2. ~Readable(i)
    BY <2>1 DEF Readable, Restored, IsText, Absent, File
  <2> QED
    BY <2>2, Zenon
<1> QED
  BY <1>4, <1>5, Zenon

\* The contents that have been loaded agree with the map that they were loaded
\* over.
LEMMA PutAgrees ==
  ASSUME NEW m \in Small, NEW c \in Small, NEW r \in Put(m, c)
  PROVE  Agrees(c, r)
BY PutIs, Zenon DEF Agrees, AsSaved

\* A step after which a save is pending or under way, or one that changes neither
\* the map nor what is loaded.
LEMMA AgreeSame ==
  ASSUME TypeInv, AgreeInv, conf' = conf, stores' = stores,
         \/ dump' # Idle \/ wrpend' = TRUE
         \/ /\ dump = Idle /\ map' = map /\ wrpend' = wrpend
            /\ \A i \in Storages :
                 \/ main'[i] = main[i] /\ backup'[i] = backup[i]
                 \/ main'[i] = Restored(i).main /\ backup'[i] = Restored(i).backup
  PROVE  AgreeInv'
<1>1. CASE dump' # Idle \/ wrpend' = TRUE
  BY <1>1, Zenon DEF AgreeInv, MutexFree
<1>2. CASE ~(dump' # Idle \/ wrpend' = TRUE)
  <2>1. \A i \in 1..stores : Readable(i)' = Readable(i) /\ Contents(i)' = Contents(i)
    BY <1>2, RestoredAgain, StoragesType, Zenon
  <2>2. ASSUME ~wrpend', NEW i \in 1..stores, Readable(i)'
        PROVE  Agrees(Contents(i), map)'
    <3>1. Agrees(Contents(i), map) /\ Contents(i)' = Contents(i) /\ map' = map
      BY <1>2, <2>1, <2>2, Zenon DEF AgreeInv, MutexFree
    <3> QED
      BY <3>1, Zenon DEF Agrees
  <2> QED
    BY <2>2, Zenon DEF AgreeInv, MutexFree
<1> QED
  BY <1>1, <1>2, Zenon

LEMMA SetstorageAgree ==
  ASSUME BaseInv, AgreeInv, settings_setstorage PROVE AgreeInv'
<1> USE DEF BaseInv
<1>1. stores \in Nat /\ stores' = stores + 1 /\ conf' = conf /\ dump = Idle /\ stores' \in Storages
  BY StoragesType DEF settings_setstorage, MutexFree, Storages
<1>2. SUFFICES ASSUME ~wrpend', NEW i \in 1..stores', Readable(i)'
               PROVE  Agrees(Contents(i), map)'
  BY <1>1, Zenon DEF AgreeInv, MutexFree
<1>3. i \in Storages
  BY <1>1, StoragesType DEF Storages
<1>4. Readable(i)' = Readable(i) /\ Contents(i)' = Contents(i)
  <2>1. \/ main'[i] = main[i] /\ backup'[i] = backup[i]
        \/ main'[i] = Restored(i).main /\ backup'[i] = Restored(i).backup
    BY <1>1, <1>3, Zenon DEF settings_setstorage, TypeInv, FilesType
  <2> QED
    BY <1>1, <1>3, <2>1, RestoredAgain, Zenon
<1>5. Agrees(Contents(i), map')
  <2>1. CASE i = stores'
    <3>1. map' \in Put(map, Contents(i))
      BY <1>2, <1>4, <2>1, Zenon DEF settings_setstorage, LoadOne
    <3> QED
      BY <1>2, <1>3, <1>4, <3>1, ContentsSmall, PutAgrees, Zenon DEF TypeInv
  <2>2. CASE i # stores'
    <3>1. i \in 1..stores /\ stores' > 1
      BY <1>1, <2>2
    <3>2. map' = map /\ ~wrpend
      BY <1>2, <3>1, Zenon DEF settings_setstorage, TypeInv, save, NoSave
    <3> QED
      BY <1>1, <1>2, <1>4, <3>1, <3>2, Zenon DEF AgreeInv, MutexFree
  <2> QED
    BY <2>1, <2>2, Zenon
<1> QED
  BY <1>4, <1>5, Zenon DEF Agrees

LEMMA AgreeNext == BaseInv /\ AgreeInv /\ [Next]_vars => AgreeInv'
<1> SUFFICES ASSUME BaseInv, AgreeInv, [Next]_vars PROVE AgreeInv'
  BY Zenon
<1> USE DEF BaseInv
<1>1. CASE settings_setstorage
  BY <1>1, SetstorageAgree, Zenon
\* Every function ends with a save, or leaves the map as it was.
<1>2. ASSUME NEW u \in User, Call(u) PROVE AgreeInv'
  <2>1. /\ conf' = conf /\ stores' = stores /\ dump = Idle
        /\ wrpend' = TRUE \/ (wrpend' = wrpend /\ map' = map)
    <3>1. ASSUME NEW k \in Key, NEW v \in Value,
                 settings_create(u, k, v) \/ settings_set(u, k, v)
          PROVE  /\ conf' = conf /\ stores' = stores /\ dump = Idle
                 /\ wrpend' = TRUE \/ (wrpend' = wrpend /\ map' = map)
      BY <3>1, Zenon
      DEF settings_create, settings_set, Ready, MutexFree, save, NoSave, TypeInv
    <3>2. ASSUME NEW wait \in BOOLEAN, settings_sync(u, wait)
          PROVE  /\ conf' = conf /\ stores' = stores /\ dump = Idle
                 /\ wrpend' = TRUE \/ (wrpend' = wrpend /\ map' = map)
      BY <3>2, Zenon DEF settings_sync, Ready, MutexFree, save, NoSave, TypeInv
    <3>3. ASSUME settings_clear(u)
          PROVE  /\ conf' = conf /\ stores' = stores /\ dump = Idle /\ wrpend' = TRUE
      BY <3>3, Zenon DEF settings_clear, Ready, MutexFree, save
    <3> QED
      BY <1>2, <3>1, <3>2, <3>3, Zenon DEF Call
  <2>2. \A i \in Storages :
          \/ main'[i] = main[i] /\ backup'[i] = backup[i]
          \/ main'[i] = Restored(i).main /\ backup'[i] = Restored(i).backup
    BY <1>2, Zenon
    DEF Call, settings_create, settings_set, settings_sync, settings_clear
  <2> QED
    BY <2>1, <2>2, AgreeSame, Zenon
<1>3. ASSUME NEW u \in User, Return(u) PROVE AgreeInv'
  BY <1>3, AgreeSame, Zenon DEF Return, NoSave
<1>4. CASE TimerExpires
  BY <1>4, AgreeSame, Zenon DEF TimerExpires, unchangedByDump
<1>5. CASE DumpStart
  <2>1. stores \in 0..Len(conf.types) /\ 1 \in 1..(stores + 1)
    BY StoragesType DEF TypeInv
  <2>2. dump' # Idle
    BY <1>5, <2>1, AtStorePlace, Zenon DEF DumpStart
  <2> QED
    BY <1>5, <2>2, AgreeSame, Zenon DEF DumpStart, unchangedByDump
<1>6. CASE SaveStep
  <2>1. dump' # Idle
    <3>1. stores \in 0..Len(conf.types)
      BY StoragesType, Zenon DEF TypeInv
    <3>2. dump.store + 1 \in 1..(stores + 1) /\ dump.store # 0
      BY <1>6, <3>1, SaveCases
    <3> QED
      BY <1>6, <3>1, <3>2, SaveCases, AtStorePlace DEF At, Idle
  <2> QED
    BY <1>6, <2>1, AgreeSame, Zenon DEF SaveStep, unchangedByDump
<1>7. CASE DumpEnd
  <2>1. /\ UNCHANGED <<conf, map, stores, main, backup>> /\ dump.step = "end"
    BY <1>7, Zenon DEF DumpEnd, unchangedByDump
  <2>2. ASSUME NEW i \in 1..stores, Readable(i)' PROVE Agrees(Contents(i), map)'
    <3>1. Readable(i)' = Readable(i) /\ Contents(i)' = Contents(i)
      BY <2>1, RestoredAgain, StoragesType, Zenon
    <3>2. Agrees(Contents(i), map)
      BY <2>1, <2>2, <3>1, DumpedContents, Zenon DEF Agrees, SavedAs
    <3> QED
      BY <2>1, <3>1, <3>2, Zenon DEF Agrees
  <2> QED
    BY <2>1, <2>2, Zenon DEF AgreeInv
<1>8. CASE PowerLoss
  <2>1. stores' = 0
    BY <1>8, Zenon DEF PowerLoss, settings_init
  <2> QED
    BY <2>1 DEF AgreeInv
<1>9. CASE UNCHANGED vars
  <2>1. UNCHANGED <<conf, map, stores, main, backup, dump, wrpend>>
    BY <1>9, Zenon DEF vars
  <2> QED
    BY <2>1, AgreeSame, Zenon
<1> QED
  BY <1>1, <1>2, <1>3, <1>4, <1>5, <1>6, <1>7, <1>8, <1>9, Zenon DEF Next, Dump

\* To load files that agree with the map keeps every value, or makes of it what a
\* text file does.
LEMMA LoadAgreed ==
  ASSUME TypeInv, \A i \in 1..stores : Readable(i) => Agrees(Contents(i), map),
         NEW m \in LoadFirst(stores, map), NEW k
  PROVE  Look(m, k) \in AsSaved(Look(map, k))
<1> DEFINE Same == {l \in Small : /\ DOMAIN l = DOMAIN map
                                  /\ \A j \in DOMAIN map : l[j] \in AsSaved(map[j])}
           P == [i \in 0..stores |-> Same]
<1>1. stores \in Nat /\ \A i \in 1..stores : i \in Storages
  BY StoragesType, Zenon
<1>2. ASSUME NEW i \in 1..stores, NEW l \in Same, NEW r \in LoadOne(i, l)
      PROVE  r \in Same
  <2>1. CASE ~Readable(i)
    BY <1>2, <2>1, Zenon DEF LoadOne
  <2>2. CASE Readable(i)
    <3> DEFINE c == Contents(i)
    <3>1. c \in Small /\ Agrees(c, map) /\ r \in Put(l, c)
      BY <1>1, <1>2, <2>2, ContentsSmall, Zenon DEF LoadOne
    <3> HIDE DEF c
    <3>2. /\ r \in Small /\ DOMAIN l \subseteq DOMAIN r
          /\ DOMAIN r \subseteq DOMAIN l \cup DOMAIN c
          /\ \A j \in DOMAIN r : r[j] = IF j \in DOMAIN c THEN c[j] ELSE l[j]
      BY <1>2, <3>1, PutIs, Zenon
    <3>3. DOMAIN r = DOMAIN map
      <4> SUFFICES ASSUME NEW j \in DOMAIN r, j \notin DOMAIN map PROVE FALSE
        BY <1>2, <3>2, Zenon
      <4>1. Cardinality(DOMAIN map) = MapSize
        BY <1>2, <3>1, <3>2, Zenon DEF Agrees
      <4>2. /\ IsFiniteSet(DOMAIN r) /\ Cardinality(DOMAIN r) <= MapSize
            /\ DOMAIN map \in SUBSET DOMAIN r
        BY <1>2, <3>2, SmallIs, SettingsAssumption, FS_Subset, Zenon
      <4>3. /\ Cardinality(DOMAIN map) <= Cardinality(DOMAIN r)
            /\ Cardinality(DOMAIN r) = Cardinality(DOMAIN map) => DOMAIN r = DOMAIN map
        BY <4>2, FS_Subset, Zenon
      <4>4. Cardinality(DOMAIN r) \in Nat /\ MapSize \in Nat
        BY <4>2, FS_CardinalityType, SettingsAssumption, Zenon
      <4>5. Cardinality(DOMAIN r) = MapSize
        BY <4>1, <4>2, <4>3, <4>4
      <4> QED
        BY <4>1, <4>3, <4>5, Zenon
    <3>4. \A j \in DOMAIN map : r[j] \in AsSaved(map[j])
      BY <1>2, <3>1, <3>2, <3>3, Zenon DEF Agrees
    <3> QED
      BY <3>2, <3>3, <3>4, Zenon
  <2> QED
    BY <2>1, <2>2, Zenon
<1>3. map \in Same
  BY Zenon DEF TypeInv, AsSaved
<1> HIDE DEF Same
<1>4. /\ map \in P[0] /\ P[stores] = Same
      /\ \A i \in 1..stores : P[i - 1] = Same /\ P[i] = Same
  BY <1>1, <1>3
<1>5. \A i \in 1..stores : \A l \in P[i - 1] : LoadOne(i, l) \subseteq P[i]
  BY <1>2, <1>4, Zenon
<1> HIDE DEF P
<1>6. m \in Same
  BY <1>1, <1>4, <1>5, LoadInduction, Zenon
<1> QED
  BY <1>6, Zenon DEF Same, Look, AsSaved

LEMMA AgreeInit == Init => AgreeInv
BY DEF Init, AgreeInv

\* The files that can be read agree with the map whenever no save is pending or
\* under way.
THEOREM Agreement == Spec => [](BaseInv /\ AgreeInv)
<1>1. Init => BaseInv /\ AgreeInv
  BY BaseInit, AgreeInit, Zenon
<1>2. BaseInv /\ AgreeInv /\ [Next]_vars => BaseInv' /\ AgreeInv'
  BY BaseNext, AgreeNext, Zenon
<1> QED
  BY <1>1, <1>2, PTL DEF Spec

\* When no save is pending settings_sync gives no setting a value that is older
\* than the one in the map, and brings none back that was cleared, whichever
\* storages there are, however many of them can be read and whether saves are
\* cached or not: a value is kept, or becomes what load_text makes of its text.
THEOREM SyncKeepsValues == Spec => SyncAfterSave
<1> DEFINE Keeps == ~wrpend /\ (\E u \in User, wait \in BOOLEAN : settings_sync(u, wait)) =>
                      \A k \in Key : Look(map', k) \in AsSaved(Look(map, k))
<1>1. ASSUME BaseInv, AgreeInv, ~wrpend, NEW u \in User, NEW wait \in BOOLEAN,
             settings_sync(u, wait), NEW k \in Key
      PROVE  Look(map', k) \in AsSaved(Look(map, k))
  <2>1. map' = map \/ map' \in LoadFirst(stores, map)
    BY <1>1, Zenon DEF settings_sync
  <2>2. \A i \in 1..stores : Readable(i) => Agrees(Contents(i), map)
    BY <1>1, Zenon DEF AgreeInv, settings_sync, Ready
  <2>3. CASE map' = map
    BY <2>3, Zenon DEF AsSaved
  <2>4. CASE map' \in LoadFirst(stores, map)
    BY <1>1, <2>2, <2>4, LoadAgreed, Zenon DEF BaseInv
  <2> QED
    BY <2>1, <2>3, <2>4, Zenon
<1>2. BaseInv /\ AgreeInv /\ [Next]_vars => [Keeps]_vars
  BY <1>1, Zenon
<1> QED
  BY <1>2, Agreement, PTL DEF Spec, SyncAfterSave

-----------------------------------------------------------------------------
(* Loss of power. *)

\* Every storage is a device.
Alone == \A i \in Storages : conf.types[i] = "bin"

\* MayRestart, from the values that are durable, whether dump_cache writes
\* anything, and the value it saves.
May(values, idle, alone, v) ==
  LET may == values \cup {v} \cup (IF alone THEN {None} ELSE {})
  IN  IF idle \/ values = {} THEN values
      ELSE IF None \in may /\ may # {None} THEN {} ELSE may

LEMMA MayRestartIs ==
  ASSUME NEW k
  PROVE  /\ MayRestart(k) = May(durable[k], dump = Idle \/ stores = 0, Alone, Look(map, k))
         /\ MayRestart(k)' =
              May(durable'[k], dump' = Idle \/ stores' = 0, Alone', Look(map', k))
BY Zenon DEF MayRestart, May, Look, Alone, Storages

\* Less is expected while dump_cache runs, but the value that it saves is.
LEMMA MayGives ==
  ASSUME NEW m, NEW k, NEW values, NEW idle, NEW alone, NEW v
  PROVE  /\ Gives(m, k, values) => Gives(m, k, May(values, idle, alone, v))
         /\ ~idle /\ Look(m, k) \in AsSaved(v) => Gives(m, k, May(values, idle, alone, v))
<1> DEFINE may == values \cup {v} \cup (IF alone THEN {None} ELSE {})
<1>1. PICK end : end = May(values, idle, alone, v)
  BY Zenon
<1>2. /\ end = values \/ end = {} \/ end = may
      /\ ~idle => end = {} \/ end = may
      /\ values = {} => end = {}
  BY <1>1, Zenon DEF May
<1>3. values \subseteq may /\ v \in may
  BY Zenon
<1> HIDE DEF may
<1>4. /\ Gives(m, k, values) => Gives(m, k, end)
      /\ ~idle /\ Look(m, k) \in AsSaved(v) => Gives(m, k, end)
  BY <1>2, <1>3, Zenon DEF Gives
<1> QED
  BY <1>1, <1>4, Zenon

\* When nothing was saved, nothing is expected, or that it is not there; nor when
\* a device alone is being written.
LEMMA MayNothing ==
  ASSUME NEW k, durable[k] \in {{}, {None}} \/ (dump # Idle /\ stores # 0 /\ Alone)
  PROVE  /\ MayRestart(k) \in {{}, {None}}
         /\ dump # Idle /\ stores # 0 /\ MayRestart(k) # {} => Look(map, k) = None
<1> DEFINE v   == Look(map, k)
           may == durable[k] \cup {v} \cup (IF Alone THEN {None} ELSE {})
<1>1. CASE dump = Idle \/ stores = 0 \/ durable[k] = {}
  <2>1. MayRestart(k) = durable[k]
    BY <1>1, Zenon DEF MayRestart
  <2> QED
    BY <1>1, <2>1, Zenon
<1>2. CASE ~(dump = Idle \/ stores = 0 \/ durable[k] = {})
  <2>1. MayRestart(k) = IF None \in may /\ may # {None} THEN {} ELSE may
    BY <1>2, Zenon DEF MayRestart, Alone
  <2>2. None \in may /\ v \in may
    BY <1>2, Zenon
  <2> HIDE DEF may
  <2> QED
    BY <2>1, <2>2, Zenon
<1> QED
  BY <1>1, <1>2, Zenon

\* Each setting after a load comes from the file or from the map.
LEMMA PutGives ==
  ASSUME NEW l \in Small, NEW c \in Small, NEW r \in Put(l, c), NEW k, NEW values,
         Gives(c, k, values), l = Empty \/ Gives(l, k, values)
  PROVE  Gives(r, k, values)
<1>1. CASE l = Empty
  <2>1. DOMAIN r = DOMAIN c /\ \A j \in DOMAIN c : r[j] = c[j]
    BY <1>1, PutFirst, Zenon
  <2>2. Look(r, k) = Look(c, k)
    BY <2>1, Zenon DEF Look
  <2> QED
    BY <2>2, Zenon DEF Gives
<1>2. CASE Gives(l, k, values)
  <2>1. /\ DOMAIN l \subseteq DOMAIN r /\ DOMAIN r \subseteq DOMAIN l \cup DOMAIN c
        /\ \A j \in DOMAIN r : r[j] = IF j \in DOMAIN c THEN c[j] ELSE l[j]
    BY PutIs, Zenon
  <2>2. Look(r, k) = Look(c, k) \/ Look(r, k) = Look(l, k)
    BY <2>1, Zenon DEF Look
  <2> QED
    BY <1>2, <2>2, Zenon DEF Gives
<1> QED
  BY <1>1, <1>2, Zenon

\* A map without the key gives that it is not there.
LEMMA AbsentGives ==
  ASSUME NEW m, NEW k, k \notin DOMAIN m, NEW values \in {{}, {None}}
  PROVE  Gives(m, k, values)
BY Zenon DEF Gives, Look, AsSaved

\* A file gives what dump_cache writes to it.
LEMMA SavedGives ==
  ASSUME BaseInv, dump # Idle, stores # 0, NEW c, SavedAs(c, map), NEW k
  PROVE  Gives(c, k, MayRestart(k))
<1>1. Look(c, k) \in AsSaved(Look(map, k))
  BY Zenon DEF SavedAs
<1> QED
  BY <1>1, MayRestartIs, MayGives, Zenon

LEMMA SafeInit == Init => SafeInv
<1> SUFFICES ASSUME Init PROVE SafeInv
  BY Zenon
<1>1. \A i \in Storages : ~Readable(i)
  BY Zenon DEF Init, Readable, Restored, Absent, Bad, File
<1>2. NothingSaved
  BY Zenon DEF Init, NothingSaved
<1> QED
  BY <1>1, <1>2, Zenon DEF SafeInv, FilesGive, TextKept, SomeKept

\* A step that changes neither what is loaded nor what is durable, when dump_cache
\* did not run before it: it may start a save.
LEMMA RestoredSafe ==
  ASSUME BaseInv, SafeInv, conf' = conf, durable' = durable, dump = Idle,
         \A i \in Storages :
           \/ main'[i] = main[i] /\ backup'[i] = backup[i]
           \/ main'[i] = Restored(i).main /\ backup'[i] = Restored(i).backup,
         \A i \in 1..stores' : i \in 1..stores \/ (i \in Storages /\ main'[i] = Restored(i).main)
  PROVE  SafeInv'
<1> USE DEF BaseInv
<1>1. \A i \in Storages : /\ Readable(i)' = Readable(i) /\ Contents(i)' = Contents(i)
                          /\ IsText(i)' = IsText(i)
  BY RestoredAgain, Zenon DEF IsText
<1>2. /\ Storages' = Storages /\ NothingSaved' = NothingSaved
      /\ \A i \in 1..stores : i \in Storages
  BY StoragesType, Zenon DEF Storages, NothingSaved
<1>3. \A k \in Key : MayRestart(k) = durable[k]
  BY Zenon DEF MayRestart
<1>4. ASSUME NEW i \in Storages, Readable(i)', NEW k \in Key
      PROVE  Gives(Contents(i), k, MayRestart(k))'
  <2>1. Gives(Contents(i), k, durable[k]) /\ Contents(i)' = Contents(i)
    BY <1>1, <1>3, <1>4, Zenon DEF SafeInv, FilesGive
  <2>2. MayRestart(k)' = May(durable[k], dump' = Idle \/ stores' = 0, Alone', Look(map', k))
    BY MayRestartIs, Zenon
  <2>3. Gives(Contents(i), k, MayRestart(k)')
    BY <2>1, <2>2, MayGives, Zenon
  <2> QED
    BY <2>1, <2>3, Zenon DEF Gives
<1>5. FilesGive'
  BY <1>2, <1>4, Zenon DEF FilesGive
<1>6. ASSUME NEW i \in 1..stores', IsText(i), main'[i] = Absent PROVE NothingSaved
  <2>1. CASE i \in 1..stores
    <3>1. main[i] = Absent
      BY <1>2, <1>6, <2>1, Zenon DEF Restored, IsText
    <3>2. dump # At(i, "rename")
      BY Zenon DEF At, Idle
    <3> QED
      BY <1>6, <2>1, <3>1, <3>2, Zenon DEF SafeInv, TextKept
  <2>2. CASE i \in Storages /\ main'[i] = Restored(i).main
    <3>1. ~Readable(i)
      BY <1>6, <2>2 DEF Readable, Absent, File
    <3> QED
      BY <1>6, <2>2, <3>1, Zenon DEF SafeInv, TextKept
  <2> QED
    BY <2>1, <2>2, Zenon
<1>7. TextKept'
  <2>1. \A i \in 1..stores' : i \in Storages
    BY <1>2, Zenon
  <2> QED
    BY <1>1, <1>2, <1>6, <2>1, Zenon DEF SafeInv, TextKept
<1>8. SomeKept'
  BY <1>1, <1>2, Zenon DEF SafeInv, SomeKept
<1> QED
  BY <1>5, <1>7, <1>8, Zenon DEF SafeInv

LEMMA SetstorageSafe ==
  ASSUME BaseInv, SafeInv, settings_setstorage PROVE SafeInv'
<1> USE DEF BaseInv
<1> DEFINE n == stores'
<1>1. /\ stores \in Nat /\ n = stores + 1 /\ n \in Storages
      /\ conf' = conf /\ durable' = durable /\ dump = Idle
  BY StoragesType DEF settings_setstorage, MutexFree, Storages
<1>2. \A i \in 1..n : i = n \/ i \in 1..stores
  BY <1>1
<1>3. /\ \A i \in Storages \ {n} : main'[i] = main[i] /\ backup'[i] = backup[i]
      /\ main'[n] = Restored(n).main /\ backup'[n] = Restored(n).backup
  BY <1>1, Zenon DEF settings_setstorage, TypeInv, FilesType
<1> QED
  BY <1>1, <1>2, <1>3, RestoredSafe, Zenon

\* The functions of a task.
LEMMA CallSafe ==
  ASSUME BaseInv, SafeInv, NEW u \in User, Call(u) PROVE SafeInv'
<1>1. /\ conf' = conf /\ durable' = durable /\ stores' = stores /\ dump = Idle
  BY Zenon
  DEF Call, settings_create, settings_set, settings_sync, settings_clear,
     Ready, MutexFree
<1>2. \A i \in Storages :
        \/ main'[i] = main[i] /\ backup'[i] = backup[i]
        \/ main'[i] = Restored(i).main /\ backup'[i] = Restored(i).backup
  BY Zenon
  DEF Call, settings_create, settings_set, settings_sync, settings_clear
<1> QED
  BY <1>1, <1>2, RestoredSafe, Zenon

\* A step that changes neither the map, nor the files, nor what is durable, nor
\* where dump_cache is.
LEMMA SameSafe ==
  ASSUME BaseInv, SafeInv, UNCHANGED <<conf, map, stores, main, backup, durable, dump>>
  PROVE  SafeInv'
<1>1. \A i \in Storages : /\ Readable(i)' = Readable(i) /\ Contents(i)' = Contents(i)
                          /\ IsText(i)' = IsText(i)
  BY RestoredAgain, Zenon DEF IsText
<1>2. /\ Storages' = Storages /\ NothingSaved' = NothingSaved
      /\ \A i \in 1..stores : i \in Storages
  BY StoragesType, Zenon DEF Storages, NothingSaved, BaseInv
<1>3. \A k \in Key : MayRestart(k)' = MayRestart(k)
  BY <1>2, Zenon DEF MayRestart, Look
<1>4. FilesGive'
  <2>1. ASSUME NEW i \in Storages, Readable(i)', NEW k \in Key
        PROVE  Gives(Contents(i), k, MayRestart(k))'
    BY <1>1, <1>3, <2>1, Zenon DEF SafeInv, FilesGive, Gives
  <2> QED
    BY <1>2, <2>1, Zenon DEF FilesGive
<1>5. TextKept' /\ SomeKept'
  BY <1>1, <1>2, Zenon DEF SafeInv, TextKept, SomeKept
<1> QED
  BY <1>4, <1>5, Zenon DEF SafeInv

LEMMA DumpStartSafe ==
  ASSUME BaseInv, SafeInv, DumpStart PROVE SafeInv'
BY RestoredSafe, Zenon DEF DumpStart, unchangedByDump, MutexFree

\* What is durable when dump_cache ends, or the power is lost, is what was
\* expected.
LEMMA NothingKept ==
  ASSUME BaseInv, SafeInv, \A k \in Key : durable'[k] = MayRestart(k)
  PROVE  /\ NothingSaved => NothingSaved'
         /\ NothingSaved' \/ \E i \in Storages : Readable(i)
<1>1. NothingSaved => NothingSaved'
  BY MayNothing, Zenon DEF NothingSaved
<1>2. CASE dump = Idle \/ stores = 0
  BY <1>1, <1>2, Zenon DEF SafeInv, SomeKept
<1>3. CASE ~(dump = Idle \/ stores = 0) /\ Alone
  BY <1>3, MayNothing, Zenon DEF NothingSaved
<1>4. CASE ~Alone
  <2>1. PICK i \in Storages : IsText(i)
    BY <1>4, StoragesType, Zenon DEF Alone, IsText, BaseInv
  <2> QED
    BY <1>1, <2>1, Zenon DEF SafeInv, TextKept
<1> QED
  BY <1>1, <1>2, <1>3, <1>4, Zenon

LEMMA DumpEndSafe ==
  ASSUME BaseInv, SafeInv, DumpEnd PROVE SafeInv'
<1> USE DEF BaseInv
<1>1. /\ UNCHANGED <<conf, map, stores, main, backup>>
      /\ dump.step = "end" /\ dump' = Idle /\ durable' = Durable
  BY Zenon DEF DumpEnd, unchangedByDump
<1>2. \A i \in Storages : /\ Readable(i)' = Readable(i) /\ Contents(i)' = Contents(i)
                          /\ IsText(i)' = IsText(i)
  BY <1>1, RestoredAgain, Zenon DEF IsText
<1>3. Storages' = Storages /\ \A i \in 1..stores : i \in Storages
  BY <1>1, StoragesType, Zenon DEF Storages
<1>4. \A k \in Key : MayRestart(k)' = durable'[k]
  BY <1>1, Zenon DEF MayRestart
\* Every storage that there is has been written.
<1>5. CASE stores = Len(conf.types) /\ \E i \in Storages : There(i)
  <2>1. \A k \in Key : durable'[k] = {Look(map, k)}
    BY <1>1, <1>5, Zenon DEF Durable
  <2>2. ASSUME NEW i \in Storages, Readable(i)', NEW k \in Key
        PROVE  Gives(Contents(i), k, MayRestart(k))'
    <3>1. SavedAs(Contents(i), map)
      BY <1>1, <1>2, <1>5, <2>2, DumpedContents, Zenon DEF Storages
    <3>2. Gives(Contents(i), k, {Look(map, k)})
      BY <3>1, Zenon DEF Gives, SavedAs
    <3> QED
      BY <1>2, <1>4, <2>1, <3>2, Zenon DEF Gives
  <2>3. FilesGive'
    BY <1>3, <2>2, Zenon DEF FilesGive
  <2>4. ASSUME NEW i \in Storages, There(i) PROVE Readable(i) /\ main[i] # Absent
    <3>1. dump.store = stores + 1 /\ dump # Idle /\ stores \in Nat /\ i \in 1..stores
      BY <1>1, <1>5, PlaceIs, StoragesType DEF At, Storages
    <3>2. (stores + 1) - 1 = stores
      BY <3>1
    <3>3. main[i] = Image(i)
      BY <2>4, <3>1, <3>2, Zenon DEF DumpInv
    <3> QED
      BY <3>3, ImageType DEF Readable, Restored, Image, Holds, File
  <2>5. \A i \in Storages : IsText(i) => There(i)
    BY Zenon DEF There, IsText
  <2>6. TextKept' /\ SomeKept'
    BY <1>1, <1>2, <1>3, <1>5, <2>4, <2>5, Zenon DEF TextKept, SomeKept
  <2> QED
    BY <2>3, <2>6, Zenon DEF SafeInv
<1>6. CASE ~(stores = Len(conf.types) /\ \E i \in Storages : There(i))
  <2>1. \A k \in Key : durable'[k] = MayRestart(k)
    BY <1>1, <1>6, Zenon DEF Durable
  <2>2. /\ NothingSaved => NothingSaved'
        /\ NothingSaved' \/ \E i \in Storages : Readable(i)
    BY <2>1, NothingKept, Zenon
  <2>3. ASSUME NEW i \in Storages, Readable(i)', NEW k \in Key
        PROVE  Gives(Contents(i), k, MayRestart(k))'
    BY <1>2, <1>4, <2>1, <2>3, Zenon DEF SafeInv, FilesGive, Gives
  <2>4. FilesGive'
    BY <1>3, <2>3, Zenon DEF FilesGive
  <2>5. \A i \in 1..stores : dump # At(i, "rename")
    BY <1>1 DEF At
  <2>6. TextKept' /\ SomeKept'
    BY <1>1, <1>2, <1>3, <2>2, <2>5, Zenon DEF SafeInv, TextKept, SomeKept
  <2> QED
    BY <2>4, <2>6, Zenon DEF SafeInv
<1> QED
  BY <1>5, <1>6, Zenon

\* What a step of dump_cache does to the storage it is at: what can be loaded
\* from it stays the same or becomes the map, or else it cannot be read, which
\* happens to a text file only before anything was saved.
LEMMA StepWrites ==
  ASSUME BaseInv, SafeInv, SaveStep, NEW i, i = dump.store
  PROVE  /\ \/ Restored(i).main' = Restored(i).main
            \/ There(i) /\ Restored(i).main' = Image(i)
            \/ There(i) /\ ~Readable(i)' /\ (IsText(i) => NothingSaved)
         /\ IsText(i) /\ main'[i] = Absent /\ dump' # At(i, "rename") => NothingSaved
<1> USE DEF BaseInv
<1>1. /\ conf' = conf /\ i \in 1..stores /\ i \in Storages /\ dump = At(i, dump.step)
  BY SaveCases, Zenon
<1>2. \A m, b : Wrote(m, b) => main'[i] = m /\ backup'[i] = b
  BY <1>1, Zenon DEF Wrote, TypeInv, FilesType
<1>3. ASSUME IsText(i), main[i] = Absent, dump.step # "rename" PROVE NothingSaved
  <2>1. dump # At(i, "rename")
    BY <1>3 DEF At
  <2> QED
    BY <1>1, <1>3, <2>1, Zenon DEF SafeInv, TextKept
<1>4. /\ Restored(i).main' = IF IsText(i) /\ main'[i] = Absent THEN backup'[i] ELSE main'[i]
      /\ Restored(i).main = IF IsText(i) /\ main[i] = Absent THEN backup[i] ELSE main[i]
  BY <1>1, Zenon DEF Restored, IsText
<1>5. Readable(i)' <=> Restored(i).main'.is = "written"
  BY Zenon DEF Readable
<1>6. Partial.is # "written" /\ Bad.is # "written" /\ Partial # Absent /\ Bad # Absent
  BY Zenon DEF Partial, Bad, Absent, File
<1>7. /\ IsText(i) => Image(i) = Holds(save_text(map))
      /\ ~IsText(i) => Image(i) = Holds(map)
      /\ Image(i) # Absent
  BY <1>1, ImageType, Zenon
<1>8. CASE dump.step = "write"
  <2>1. IsText(i) /\ main'[i] = main[i] /\ backup'[i] = Partial
    BY <1>2, <1>8, SaveCases, PlaceIs, Zenon
  <2> QED
    BY <1>3, <1>4, <1>5, <1>6, <1>8, <2>1, Zenon DEF There, IsText
<1>9. CASE dump.step = "close"
  <2>1. IsText(i) /\ main'[i] = main[i] /\ backup'[i] = Image(i)
    BY <1>2, <1>7, <1>9, SaveCases, PlaceIs, Zenon
  <2> QED
    BY <1>3, <1>4, <1>9, <2>1, Zenon DEF There, IsText
<1>10. CASE dump.step = "remove"
  <2>1. /\ IsText(i) /\ main'[i] = Absent /\ backup'[i] = Image(i)
        /\ dump' = At(i, "rename")
    BY <1>2, <1>10, SaveCases, PlaceIs, Zenon DEF DumpInv
  <2> QED
    BY <1>4, <2>1, Zenon DEF There, IsText
<1>11. CASE dump.step = "rename"
  <2>1. IsText(i) /\ main'[i] = Image(i)
    BY <1>2, <1>11, SaveCases, PlaceIs, Zenon DEF DumpInv
  <2> QED
    BY <1>4, <1>7, <2>1, Zenon DEF There, IsText
<1>12. CASE dump.step = "truncate" /\ main[i] = Absent
  <2>1. ~IsText(i) /\ main'[i] = main[i]
    BY <1>2, <1>12, SaveCases, PlaceIs, Zenon
  <2> QED
    BY <1>4, <2>1, Zenon
<1>13. CASE dump.step = "truncate" /\ main[i] # Absent
  <2>1. ~IsText(i) /\ main'[i] = Bad
    BY <1>2, <1>13, SaveCases, PlaceIs, Zenon
  <2>2. There(i)
    BY <1>1, <1>13, <2>1, Zenon DEF There, IsText, TypeInv, FilesType
  <2> QED
    BY <1>4, <1>5, <1>6, <2>1, <2>2, Zenon
<1>14. CASE dump.step = "fill"
  <2>1. ~IsText(i) /\ main'[i] = Image(i) /\ There(i)
    BY <1>2, <1>7, <1>14, SaveCases, PlaceIs, Zenon DEF DumpInv, There
  <2> QED
    BY <1>4, <2>1, Zenon
<1> QED
  BY <1>8, <1>9, <1>10, <1>11, <1>12, <1>13, <1>14, SaveCases, Zenon

LEMMA SaveStepSafe ==
  ASSUME BaseInv, SafeInv, SaveStep PROVE SafeInv'
<1> USE DEF BaseInv
<1>0. PICK i : i = dump.store
  BY Zenon
<1>1. /\ UNCHANGED <<conf, map, stores, durable>>
      /\ i \in 1..stores /\ i \in Storages /\ dump # Idle /\ dump = At(i, dump.step)
  BY <1>0, SaveCases, Zenon
<1>2. /\ Storages' = Storages /\ NothingSaved' = NothingSaved
      /\ \A j \in 1..stores : j \in Storages
      /\ \A j \in Storages : IsText(j)' = IsText(j)
  BY <1>1, StoragesType, Zenon DEF Storages, NothingSaved, IsText
<1>3. dump' # Idle /\ stores # 0
  <2>1. i + 1 \in 1..(stores + 1) /\ stores \in 0..Len(conf.types) /\ i # 0 /\ stores # 0
    BY <1>1, StoragesType DEF TypeInv
  <2> QED
    BY <1>0, <2>1, SaveCases, AtStorePlace DEF At, Idle
<1>4. \A k \in Key : MayRestart(k)' = MayRestart(k)
  <2>1. Alone' = Alone
    BY <1>1, <1>2, Zenon DEF Alone
  <2>2. \A k \in Key :
          /\ MayRestart(k) = May(durable[k], dump = Idle \/ stores = 0, Alone, Look(map, k))
          /\ MayRestart(k)' = May(durable[k], dump' = Idle \/ stores = 0, Alone, Look(map, k))
    BY <1>1, <2>1, MayRestartIs, Zenon
  <2> QED
    BY <1>1, <1>3, <2>2, Zenon DEF May
<1>5. \A j \in Storages \ {i} : /\ main'[j] = main[j]
                                /\ Readable(j)' = Readable(j) /\ Contents(j)' = Contents(j)
  <2>1. \A j \in Storages \ {i} : main'[j] = main[j] /\ backup'[j] = backup[j]
    BY <1>0, SaveCases, Zenon DEF Wrote, TypeInv, FilesType
  <2> QED
    BY <1>1, <2>1, RestoredAgain, Zenon
<1>6. /\ \/ Readable(i)' = Readable(i) /\ Contents(i)' = Contents(i)
         \/ There(i) /\ Restored(i).main' = Image(i)
         \/ There(i) /\ ~Readable(i)' /\ (IsText(i) => NothingSaved)
      /\ IsText(i) /\ main'[i] = Absent /\ dump' # At(i, "rename") => NothingSaved
  <2>1. Restored(i).main' = Restored(i).main =>
          Readable(i)' = Readable(i) /\ Contents(i)' = Contents(i)
    BY <1>1, Zenon DEF Readable, Contents
  <2> QED
    BY <1>0, <2>1, StepWrites, Zenon
<1>7. ASSUME There(i), Restored(i).main' = Image(i)
      PROVE  Readable(i)' /\ \A k \in Key : Gives(Contents(i)', k, MayRestart(k))
  <2>1. Readable(i)'
    BY <1>7 DEF Readable, Image, Holds, File
  <2>2. Contents(i)' \in {map, load_text(save_text(map))}
    BY <1>1, <1>7 DEF Contents, Image, Holds, File, IsText
  <2>3. SavedAs(Contents(i)', map)
    BY <2>2, ReadsBack, Zenon DEF TypeInv
  <2> QED
    BY <1>1, <1>3, <2>1, <2>3, SavedGives, Zenon
<1>8. FilesGive'
  <2>1. ASSUME NEW j \in Storages, Readable(j)', NEW k \in Key
        PROVE  Gives(Contents(j)', k, MayRestart(k))
    BY <1>5, <1>6, <1>7, <2>1, Zenon DEF SafeInv, FilesGive
  <2> QED
    BY <1>2, <1>4, <2>1, Zenon DEF FilesGive, Gives
<1>9. TextKept'
  <2>1. ASSUME NEW j \in Storages, IsText(j), ~Readable(j)' PROVE NothingSaved
    BY <1>5, <1>6, <1>7, <2>1, Zenon DEF SafeInv, TextKept
  <2>2. ASSUME NEW j \in 1..stores, IsText(j), main'[j] = Absent, dump' # At(j, "rename")
        PROVE  NothingSaved
    <3>1. CASE j = i
      BY <1>6, <2>2, <3>1, Zenon
    <3>2. CASE j # i
      <4>1. dump # At(j, "rename")
        BY <1>1, <3>2 DEF At
      <4> QED
        BY <1>2, <1>5, <2>2, <3>2, <4>1, Zenon DEF SafeInv, TextKept
    <3> QED
      BY <3>1, <3>2, Zenon
  <2> QED
    BY <1>1, <1>2, <2>1, <2>2, Zenon DEF TextKept
<1>10. SomeKept'
  BY <1>1, <1>3, Zenon DEF SomeKept
<1> QED
  BY <1>8, <1>9, <1>10, Zenon DEF SafeInv

LEMMA PowerLossSafe ==
  ASSUME BaseInv, SafeInv, PowerLoss PROVE SafeInv'
<1> USE DEF BaseInv
<1>1. /\ conf' = conf /\ stores' = 0 /\ dump' = Idle
      /\ \A k \in Key : durable'[k] = MayRestart(k)
  BY Zenon DEF PowerLoss, settings_init
<1>2. Storages' = Storages /\ \A j \in Storages : IsText(j)' = IsText(j)
  BY <1>1, Zenon DEF Storages, IsText
<1>3. \A k \in Key : MayRestart(k)' = MayRestart(k)
  <2>1. \A k \in Key : MayRestart(k)' = durable'[k]
    BY <1>1, Zenon DEF MayRestart
  <2> QED
    BY <1>1, <2>1, Zenon
<1>4. /\ NothingSaved => NothingSaved'
      /\ NothingSaved' \/ \E i \in Storages : Readable(i)
  BY <1>1, NothingKept, Zenon
\* The storage whose file~ was being written.
<1>5. ASSUME NEW j \in Storages
      PROVE  \/ Readable(j)' = Readable(j) /\ Contents(j)' = Contents(j)
             \/ /\ Readable(j)' /\ NothingSaved /\ dump # Idle /\ stores # 0
                /\ DOMAIN Contents(j)' \subseteq DOMAIN map
  <2>1. CASE backup' = backup
    BY <1>1, <2>1, LossFiles, RestoredAgain, Zenon
  <2>2. CASE backup' # backup
    <3>1. PICK left \in Lines : /\ DOMAIN left \subseteq DOMAIN map /\ dump.step = "close"
                                /\ Wrote(main[dump.store], Holds(left))
      BY <2>2, LossFiles, Zenon
    <3>2. /\ dump.store \in 1..stores /\ dump.store \in Storages /\ IsText(dump.store)
          /\ dump # Idle /\ stores # 0
      <4>1. dump.store \in 1..stores /\ dump.store \in Storages /\ IsText(dump.store)
        BY <3>1, PlaceIs, Zenon
      <4>2. dump # Idle /\ stores # 0
        BY <3>1, <4>1, StoragesType DEF Idle
      <4> QED
        BY <4>1, <4>2, Zenon
    <3>3. main' = main
      BY LossFiles, Zenon
    <3>4. CASE j # dump.store
      BY <1>1, <3>1, <3>3, <3>4, RestoredAgain, Zenon
      DEF Wrote, TypeInv, FilesType
    <3>5. CASE j = dump.store /\ main[j] # Absent
      <4>1. Restored(j).main' = Restored(j).main
        BY <1>1, <3>3, <3>5, Zenon DEF Restored
      <4> QED
        BY <1>1, <4>1, Zenon DEF Readable, Contents
    <3>6. CASE j = dump.store /\ main[j] = Absent
      <4>1. NothingSaved
        <5>1. dump # At(j, "rename")
          BY <3>1 DEF At
        <5> QED
          BY <3>2, <3>6, <5>1, Zenon DEF SafeInv, TextKept
      <4>2. Restored(j).main' = Holds(left)
        <5>1. main'[j] = Absent /\ backup'[j] = Holds(left) /\ conf'.types[j] = "text"
          BY <1>1, <3>1, <3>2, <3>3, <3>6, Zenon
          DEF Wrote, TypeInv, FilesType, IsText
        <5> QED
          BY <5>1, Zenon DEF Restored
      <4>3. Readable(j)' /\ Contents(j)' = load_text(left)
        <5>1. conf'.types[j] = "text"
          BY <1>1, <3>2, <3>6, Zenon DEF IsText
        <5>2. Holds(left).is = "written" /\ Holds(left).holds = left
          BY Zenon DEF Holds, File
        <5> QED
          BY <4>2, <5>1, <5>2, Zenon DEF Readable, Contents
      <4>4. DOMAIN load_text(left) \subseteq DOMAIN left
        BY LoadText, Zenon
      <4> QED
        BY <3>1, <3>2, <4>1, <4>3, <4>4, Zenon
    <3> QED
      BY <3>4, <3>5, <3>6, Zenon
  <2> QED
    BY <2>1, <2>2, Zenon
<1>6. FilesGive'
  <2>1. ASSUME NEW j \in Storages, Readable(j)', NEW k \in Key
        PROVE  Gives(Contents(j)', k, MayRestart(k))
    <3>1. CASE Readable(j)' = Readable(j) /\ Contents(j)' = Contents(j)
      BY <2>1, <3>1, Zenon DEF SafeInv, FilesGive
    <3>2. CASE /\ NothingSaved /\ dump # Idle /\ stores # 0
               /\ DOMAIN Contents(j)' \subseteq DOMAIN map
      <4>1. /\ MayRestart(k) \in {{}, {None}}
            /\ MayRestart(k) # {} => Look(map, k) = None
        BY <3>2, MayNothing, Zenon DEF NothingSaved
      <4>2. MayRestart(k) # {} => k \notin DOMAIN Contents(j)'
        BY <3>2, <4>1, LookType, Zenon DEF TypeInv
      <4> QED
        BY <4>1, <4>2, AbsentGives, Zenon DEF Gives
    <3> QED
      BY <1>5, <3>1, <3>2, Zenon
  <2> QED
    BY <1>2, <1>3, <2>1, Zenon DEF FilesGive, Gives
<1>7. TextKept'
  <2>1. ASSUME NEW j \in Storages, IsText(j), ~Readable(j)' PROVE NothingSaved'
    BY <1>4, <1>5, <2>1, Zenon DEF SafeInv, TextKept
  <2> QED
    BY <1>1, <1>2, <2>1 DEF TextKept
<1>8. SomeKept'
  BY <1>2, <1>4, <1>5, Zenon DEF SomeKept
<1> QED
  BY <1>6, <1>7, <1>8, Zenon DEF SafeInv

LEMMA SafeNext == BaseInv /\ SafeInv /\ [Next]_vars => SafeInv'
<1> SUFFICES ASSUME BaseInv, SafeInv, [Next]_vars PROVE SafeInv'
  BY Zenon
<1>1. CASE settings_setstorage
  BY <1>1, SetstorageSafe, Zenon
<1>2. ASSUME NEW u \in User, Call(u) PROVE SafeInv'
  BY <1>2, CallSafe, Zenon
<1>3. ASSUME NEW u \in User, Return(u) PROVE SafeInv'
  BY <1>3, SameSafe, Zenon DEF Return, NoSave
<1>4. CASE TimerExpires
  BY <1>4, SameSafe, Zenon DEF TimerExpires, unchangedByDump
<1>5. CASE DumpStart
  BY <1>5, DumpStartSafe, Zenon
<1>6. CASE Dump
  BY <1>6, SaveStepSafe, DumpEndSafe, Zenon DEF Dump
<1>7. CASE PowerLoss
  BY <1>7, PowerLossSafe, Zenon
<1>8. CASE UNCHANGED vars
  BY <1>8, SameSafe, Zenon DEF vars
<1> QED
  BY <1>1, <1>2, <1>3, <1>4, <1>5, <1>6, <1>7, <1>8, Zenon DEF Next

\* The files, and what a restart may expect of them, at every write.
THEOREM Keeping == Spec => [](BaseInv /\ SafeInv)
<1>1. Init => BaseInv /\ SafeInv
  BY BaseInit, SafeInit, Zenon
<1>2. BaseInv /\ SafeInv /\ [Next]_vars => BaseInv' /\ SafeInv'
  BY BaseNext, SafeNext, Zenon
<1> QED
  BY <1>1, <1>2, PTL DEF Spec

LEMMA SafeSurvives ==
  ASSUME BaseInv, SafeInv PROVE SurvivesPowerLoss
<1> USE DEF BaseInv
<1> DEFINE n == Len(conf.types)
           Right(l) == \A k \in Key : Gives(l, k, MayRestart(k))
           P == [i \in 0..n |-> {l \in Small :
                   Right(l) \/ (l = Empty /\ \A j \in 1..i : ~Readable(j))}]
<1>1. n \in Nat /\ Storages = 1..n
  BY StoragesType, Zenon DEF Storages
<1>2. ASSUME NEW i \in 1..n, NEW l \in P[i - 1], NEW r \in LoadOne(i, l)
      PROVE  r \in P[i]
  <2>1. /\ i \in Storages /\ i \in 0..n /\ i - 1 \in 0..n /\ l \in Small /\ r \in Small
        /\ Right(l) \/ (l = Empty /\ \A j \in 1..(i - 1) : ~Readable(j))
    <3>1. i \in Storages /\ i \in 0..n /\ i - 1 \in 0..n
      BY <1>1
    <3>2. l \in Small /\ (Right(l) \/ (l = Empty /\ \A j \in 1..(i - 1) : ~Readable(j)))
      BY <1>2, <3>1, Zenon
    <3> QED
      BY <1>2, <3>1, <3>2, LoadOneSmall, Zenon
  <2>2. CASE Readable(i)
    <3>1. Contents(i) \in Small /\ r \in Put(l, Contents(i))
      BY <1>2, <2>1, <2>2, ContentsSmall, Zenon DEF LoadOne
    <3>2. ASSUME NEW k \in Key PROVE Gives(r, k, MayRestart(k))
      <4>1. Gives(Contents(i), k, MayRestart(k))
        BY <2>1, <2>2, Zenon DEF SafeInv, FilesGive
      <4> QED
        BY <2>1, <3>1, <4>1, PutGives, Zenon
    <3> QED
      BY <2>1, <3>2, Zenon
  <2>3. CASE ~Readable(i)
    <3>1. r = l
      BY <1>2, <2>3, Zenon DEF LoadOne
    <3>2. \A j \in 1..i : j = i \/ j \in 1..(i - 1)
      BY <1>1
    <3> QED
      BY <2>1, <2>3, <3>1, <3>2, Zenon
  <2> QED
    BY <2>2, <2>3, Zenon
<1>3. Empty \in P[0] /\ P[n] = {l \in Small :
        Right(l) \/ (l = Empty /\ \A j \in 1..n : ~Readable(j))}
  BY <1>1, EmptySmall
<1> HIDE DEF P
<1>4. \A i \in 1..n : \A l \in P[i - 1] : LoadOne(i, l) \subseteq P[i]
  BY <1>2, Zenon
<1>5. Recovered \subseteq P[n]
  BY <1>1, <1>3, <1>4, LoadInduction, Zenon DEF Recovered
<1>6. ASSUME \A j \in 1..n : ~Readable(j), NEW k \in Key
      PROVE  Gives(Empty, k, MayRestart(k))
  <2>1. durable[k] \in {{}, {None}} \/ (dump # Idle /\ stores # 0 /\ Alone)
    <3>1. CASE dump = Idle \/ stores = 0
      BY <1>1, <1>6, <3>1, Zenon DEF SafeInv, SomeKept, NothingSaved
    <3>2. CASE ~Alone
      <4>1. PICK j \in Storages : IsText(j)
        BY <3>2, StoragesType, Zenon DEF Alone, IsText
      <4> QED
        BY <1>1, <1>6, <4>1, Zenon DEF SafeInv, TextKept, NothingSaved
    <3> QED
      BY <3>1, <3>2, Zenon
  <2>2. k \notin DOMAIN Empty
    BY EmptySmall, Zenon
  <2> QED
    BY <2>1, <2>2, MayNothing, AbsentGives, Zenon
<1>7. \A r \in Recovered : \A k \in Key : Gives(r, k, MayRestart(k))
  BY <1>3, <1>5, <1>6, Zenon
<1> QED
  BY <1>7, Zenon DEF SurvivesPowerLoss, Gives

\* A restart after a loss of power, at whichever write of dump_cache it happens
\* and however often, finds every setting with the value that was saved or with
\* the one that was being saved, or with what a text file makes of it, for any
\* storages in any order, whenever they are set. A device alone is truncated
\* before it is written: what it held is only promised while it is not.
THEOREM PowerLossSafety == Spec => []SurvivesPowerLoss
<1>1. BaseInv /\ SafeInv => SurvivesPowerLoss
  BY SafeSurvives, Zenon
<1> QED
  BY <1>1, Keeping, PTL
=============================================================================
