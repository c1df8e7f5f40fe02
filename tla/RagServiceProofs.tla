--------------------------- MODULE RagServiceProofs ---------------------------
(***************************************************************************)
(* What the RAG service promises, for any corpora, dataset directories,    *)
(* similarities, settings and SDKs.                                        *)
(*                                                                         *)
(* The service runs the ingestion of CorpusIngestion as it is, so all its  *)
(* theorems hold here too.  The rest follows from RagInv: the repository   *)
(* holds the datasets of the start, a request is only at hand while the    *)
(* store stands still, and what it has read is what it would read again.   *)
(***************************************************************************)
EXTENDS RagService, CorpusIngestionProofs, FiniteInduction, SequenceTheorems

-----------------------------------------------------------------------------
(***************************************************************************)
(* Loading the datasets.                                                   *)
(***************************************************************************)
\* A repository is a function; adding to it leaves it one.
IsRepository(d) == d = [id \in DOMAIN d |-> d[id]]

LEMMA AddedFile ==
    ASSUME NEW d, NEW file, file.state = "valid"
    PROVE  /\ DOMAIN Add(d, file) = DOMAIN d \cup {file.id}
           /\ Add(d, file)[file.id] = file.cases
           /\ \A id \in DOMAIN d \ {file.id} : Add(d, file)[id] = d[id]
           /\ IsRepository(Add(d, file))
<1> DEFINE new == [id \in {file.id} |-> file.cases]
<1>1. Add(d, file) = Upsert(new, d)
  BY DEF Add
<1>2. DOMAIN new = {file.id} /\ new[file.id] = file.cases
  OBVIOUS
<1> HIDE DEF new
<1> QED BY <1>1, <1>2 DEF Upsert, IsRepository

LEMMA SkippedFile ==
    ASSUME NEW d, NEW file, file.state # "valid"
    PROVE  Add(d, file) = d
BY DEF Add

\* The files of a directory, one after the other.
LEMMA FilesInOrder ==
    ASSUME NEW dir \in DOMAIN Directories
    PROVE  /\ Len(files(dir)) \in Nat
           /\ DOMAIN files(dir) = 1 .. Len(files(dir))
<1>1. files(dir) \in Seq(Range(files(dir)))
  BY LibraryAssumption
<1> QED BY <1>1, LenProperties

\* load_all goes through them in their order.
LoadsFiles(g, dir) ==
    /\ g[1 .. 0] = NoDatasets
    /\ \A k \in 1 .. Len(files(dir)) : g[1 .. k] = Add(g[1 .. k - 1], files(dir)[k])
    /\ load_all(dir) = g[1 .. Len(files(dir))]

LEMMA LoadAllSteps ==
    ASSUME NEW dir \in DOMAIN Directories
    PROVE  \E g : LoadsFiles(g, dir)
<1> DEFINE F == files(dir)
           n == Len(F)
           Solved(g) == [s \in SUBSET DOMAIN F |->
                           IF s = {} THEN NoDatasets
                           ELSE Add(g[s \ {Max(s)}], F[Max(s)])]
           loaded == CHOOSE g : g = Solved(g)
           Ids == {F[i].id : i \in 1 .. n}
           Contents == {F[i].cases : i \in 1 .. n}
           V == UNION {[D -> Contents] : D \in SUBSET Ids}
           step == [p \in (1 .. n) \X V |-> Add(p[2], F[p[1]])]
<1>1. n \in Nat /\ DOMAIN F = 1 .. n
  BY FilesInOrder
<1>2. load_all(dir) = loaded[DOMAIN F]
  BY Zenon DEF load_all, FoldLeft, MapThenFoldSet
<1>3. NoDatasets \in V
  <2>1. NoDatasets \in [{} -> Contents]
    BY DEF NoDatasets
  <2> QED BY <2>1
<1>4. ASSUME NEW i \in 1 .. n, NEW v \in V PROVE Add(v, F[i]) \in V
  <2>1. CASE F[i].state # "valid"
    BY <2>1, SkippedFile
  <2>2. CASE F[i].state = "valid"
    <3>1. PICK D \in SUBSET Ids : v \in [D -> Contents]
      OBVIOUS
    <3> DEFINE file == F[i]
               w == Add(v, file)
    <3>2. /\ DOMAIN w = D \cup {file.id} /\ w[file.id] = file.cases
          /\ \A id \in D \ {file.id} : w[id] = v[id]
          /\ w = [id \in DOMAIN w |-> w[id]]
      <4>1. file.state = "valid" /\ DOMAIN v = D
        BY <2>2, <3>1
      <4> HIDE DEF file
      <4> QED BY <4>1, AddedFile DEF IsRepository
    <3> HIDE DEF w
    <3>3. DOMAIN w \in SUBSET Ids /\ \A id \in DOMAIN w : w[id] \in Contents
      BY <3>1, <3>2
    <3>4. w \in [DOMAIN w -> Contents]
      BY <3>2, <3>3
    <3> HIDE DEF Contents, Ids
    <3>5. w \in V
      BY <3>3, <3>4
    <3> QED BY <3>5 DEF w
  <2> QED BY <2>1, <2>2
<1>5. step \in [(1 .. n) \X V -> V]
  <2> SUFFICES ASSUME NEW p \in (1 .. n) \X V PROVE Add(p[2], F[p[1]]) \in V
    OBVIOUS
  <2> HIDE DEF V
  <2>1. p[1] \in 1 .. n /\ p[2] \in V
    OBVIOUS
  <2> QED BY <1>4, <2>1
<1>6. \A k \in 1 .. n, v \in V : step[<<k, v>>] = Add(v, F[k])
  OBVIOUS
<1> HIDE DEF V, step
<1>7. PICK g \in [SUBSET (1 .. n) -> V] : FoldsList(g, NoDatasets, step, n)
  BY <1>1, <1>3, <1>5, ListFoldExists
<1>8. \A s \in SUBSET (1 .. n) :
        g[s] = IF s = {} THEN NoDatasets ELSE Add(g[s \ {Max(s)}], F[Max(s)])
  <2> SUFFICES ASSUME NEW s \in SUBSET (1 .. n), s # {}
               PROVE  g[s] = Add(g[s \ {Max(s)}], F[Max(s)])
    BY <1>7 DEF FoldsList
  <2>1. Max(s) \in 1 .. n
    BY <1>1, MaxExists
  <2>2. s \ {Max(s)} \in SUBSET (1 .. n)
    OBVIOUS
  <2>3. g[s \ {Max(s)}] \in V
    BY <1>7, <2>2
  <2>4. g[s] = step[<<Max(s), g[s \ {Max(s)}]>>]
    BY <1>7 DEF FoldsList
  <2> QED BY <1>6, <2>1, <2>3, <2>4
<1>9. g = Solved(g)
  BY <1>1, <1>7, <1>8
<1>10. loaded = Solved(loaded)
  BY <1>9
<1> HIDE DEF loaded
<1>11. \A s \in SUBSET (1 .. n) :
         loaded[s] = IF s = {} THEN NoDatasets ELSE Add(loaded[s \ {Max(s)}], F[Max(s)])
  BY <1>1, <1>10
<1>12. loaded[1 .. 0] = NoDatasets
  <2>1. 1 .. 0 = {}
    OBVIOUS
  <2> QED BY <1>11, <2>1
<1>13. ASSUME NEW k \in 1 .. n PROVE loaded[1 .. k] = Add(loaded[1 .. k - 1], F[k])
  <2>1. Max(1 .. k) = k
    BY <1>1, MaxOfPrefix
  <2>2. 1 .. k \in SUBSET (1 .. n) /\ 1 .. k # {} /\ (1 .. k) \ {k} = 1 .. k - 1
    BY <1>1
  <2> QED BY <1>11, <2>1, <2>2
<1>14. load_all(dir) = loaded[1 .. n]
  BY <1>1, <1>2
<1> HIDE DEF F, n
<1>15. LoadsFiles(loaded, dir)
  BY <1>12, <1>13, <1>14 DEF LoadsFiles, F, n
<1> QED BY <1>15

\* Of the first k files, the valid ones are in the repository, each id with the last of them.
Holds(d, dir, k) ==
    LET F == files(dir)
        Valid == {i \in 1 .. k : F[i].state = "valid"}
    IN  /\ DOMAIN d = {F[i].id : i \in Valid}
        /\ \A i \in Valid : (\A j \in Valid : j > i => F[j].id # F[i].id) => d[F[i].id] = F[i].cases

LEMMA OneMoreFile ==
    ASSUME NEW dir, NEW k \in Nat, NEW d, Holds(d, dir, k)
    PROVE  Holds(Add(d, files(dir)[k + 1]), dir, k + 1)
<1> DEFINE F == files(dir)
           new == F[k + 1]
           w == Add(d, new)
           Valid(n) == {i \in 1 .. n : F[i].state = "valid"}
<1>1. /\ DOMAIN d = {F[i].id : i \in Valid(k)}
      /\ \A i \in Valid(k) :
           (\A j \in Valid(k) : j > i => F[j].id # F[i].id) => d[F[i].id] = F[i].cases
  BY DEF Holds
<1>2. CASE new.state # "valid"
  <2>1. w = d
    BY <1>2, SkippedFile
  <2>2. Valid(k + 1) = Valid(k)
    BY <1>2
  <2> HIDE DEF Valid, w
  <2>3. /\ DOMAIN w = {F[i].id : i \in Valid(k + 1)}
        /\ \A i \in Valid(k + 1) :
             (\A j \in Valid(k + 1) : j > i => F[j].id # F[i].id) => w[F[i].id] = F[i].cases
    BY <1>1, <2>1, <2>2
  <2> QED BY <2>3 DEF Holds, Valid, w
<1>3. CASE new.state = "valid"
  <2>1. /\ DOMAIN w = DOMAIN d \cup {new.id} /\ w[new.id] = new.cases
        /\ \A id \in DOMAIN d \ {new.id} : w[id] = d[id]
    <3> HIDE DEF new
    <3> QED BY <1>3, AddedFile
  <2>2. Valid(k + 1) = Valid(k) \cup {k + 1} /\ \A i \in Valid(k) : i \in 1 .. k
    BY <1>3
  <2> HIDE DEF Valid, w
  <2>3. DOMAIN w = {F[i].id : i \in Valid(k + 1)}
    BY <1>1, <2>1, <2>2
  <2>4. ASSUME NEW i \in Valid(k + 1), \A j \in Valid(k + 1) : j > i => F[j].id # F[i].id
        PROVE  w[F[i].id] = F[i].cases
    <3>1. CASE i = k + 1
      BY <2>1, <3>1
    <3>2. CASE i # k + 1
      <4>1. i \in Valid(k) /\ i \in 1 .. k /\ F[k + 1].id # F[i].id
        BY <2>2, <2>4, <3>2
      <4>2. d[F[i].id] = F[i].cases
        BY <1>1, <2>2, <2>4, <4>1
      <4>3. F[i].id \in DOMAIN d \ {new.id}
        BY <1>1, <4>1
      <4> QED BY <2>1, <4>2, <4>3
    <3> QED BY <3>1, <3>2
  <2> QED BY <2>3, <2>4 DEF Holds, Valid, w
<1> QED BY <1>2, <1>3

LEMMA AllFilesHeld ==
    ASSUME NEW dir \in DOMAIN Directories
    PROVE  Holds(load_all(dir), dir, Len(files(dir)))
<1> DEFINE n == Len(files(dir))
<1>1. n \in Nat
  BY FilesInOrder
<1>2. PICK g : LoadsFiles(g, dir)
  BY LoadAllSteps
<1> DEFINE Good == {k \in Nat : k <= n => Holds(g[1 .. k], dir, k)}
<1>3. 0 \in Good
  <2>1. 1 .. 0 = {} /\ DOMAIN NoDatasets = {}
    BY DEF NoDatasets
  <2>2. g[1 .. 0] = NoDatasets
    BY <1>2 DEF LoadsFiles
  <2>3. Holds(NoDatasets, dir, 0)
    BY <2>1 DEF Holds
  <2> QED BY <2>2, <2>3
<1>4. ASSUME NEW k \in Nat, k \in Good PROVE k + 1 \in Good
  <2> SUFFICES ASSUME k + 1 <= n PROVE Holds(g[1 .. k + 1], dir, k + 1)
    OBVIOUS
  <2>1. Holds(g[1 .. k], dir, k)
    BY <1>1, <1>4
  <2>2. g[1 .. k + 1] = Add(g[1 .. k], files(dir)[k + 1])
    <3>1. k + 1 \in 1 .. n /\ (k + 1) - 1 = k
      BY <1>1
    <3> QED BY <1>2, <3>1 DEF LoadsFiles
  <2> QED BY <2>1, <2>2, OneMoreFile
<1> HIDE DEF Good
<1>5. n \in Good
  BY <1>1, <1>3, <1>4, CountingUp
<1>6. load_all(dir) = g[1 .. n]
  BY <1>2 DEF LoadsFiles
<1> QED BY <1>1, <1>5, <1>6 DEF Good

\* Nothing but the valid files of a directory is loaded, and of one id the last of them.
LEMMA LoadedDatasets ==
    ASSUME NEW dir \in DOMAIN Directories
    PROVE  /\ IsFiniteSet(DOMAIN load_all(dir))
           /\ DOMAIN load_all(dir) = {files(dir)[i].id : i \in ValidFiles(dir)}
           /\ \A id \in DOMAIN load_all(dir) : \E i \in ValidFiles(dir) :
                /\ files(dir)[i].id = id /\ load_all(dir)[id] = files(dir)[i].cases
                /\ \A j \in ValidFiles(dir) : j > i => files(dir)[j].id # id
<1> DEFINE F == files(dir)
           n == Len(F)
           Valid == {i \in 1 .. n : F[i].state = "valid"}
           d == load_all(dir)
<1>1. n \in Nat /\ DOMAIN F = 1 .. n
  BY FilesInOrder
<1>2. ValidFiles(dir) = Valid
  BY <1>1 DEF ValidFiles
<1>3. /\ DOMAIN d = {F[i].id : i \in Valid}
      /\ \A i \in Valid : (\A j \in Valid : j > i => F[j].id # F[i].id) => d[F[i].id] = F[i].cases
  BY AllFilesHeld DEF Holds
<1>4. IsFiniteSet(Valid)
  <2>1. IsFiniteSet(1 .. n) /\ Valid \subseteq 1 .. n
    BY <1>1, FS_Interval
  <2> HIDE DEF Valid, n
  <2> QED BY <2>1, FS_Subset
<1>5. IsFiniteSet({F[i].id : i \in Valid})
  <2> HIDE DEF Valid, F
  <2> DEFINE f == [i \in Valid |-> F[i].id]
  <2>1. DOMAIN f = Valid /\ \A i \in Valid : f[i] = F[i].id
    OBVIOUS
  <2>2. IsFiniteSet({f[i] : i \in DOMAIN f})
    <3> HIDE DEF f
    <3> QED BY <1>4, <2>1, FiniteImage
  <2> QED BY <2>1, <2>2
<1>6. ASSUME NEW id \in DOMAIN d
      PROVE  \E i \in Valid : /\ F[i].id = id /\ d[id] = F[i].cases
                              /\ \A j \in Valid : j > i => F[j].id # id
  <2> DEFINE Same == {i \in Valid : F[i].id = id}
             last == Max(Same)
  <2>1. Same \in (SUBSET (1 .. n)) \ {{}}
    BY <1>3, <1>6
  <2>2. last \in Same /\ \A i \in Same : i <= last
    <3> HIDE DEF Same
    <3> QED BY <1>1, <2>1, MaxExists
  <2> HIDE DEF last
  <2>3. last \in Valid /\ last \in 1 .. n /\ F[last].id = id
    BY <2>2
  <2>4. \A j \in Valid : j > last => F[j].id # id
    <3> SUFFICES ASSUME NEW j \in Valid, j > last, F[j].id = id PROVE FALSE
      OBVIOUS
    <3>1. j \in 1 .. n /\ j <= last
      BY <2>2
    <3> QED BY <1>1, <2>3, <3>1
  <2> HIDE DEF Valid, Same, F, d
  <2> QED BY <1>3, <2>3, <2>4
<1> HIDE DEF F, d, Valid
<1>7. IsFiniteSet(DOMAIN d)
  BY <1>3, <1>5
<1> QED BY <1>2, <1>3, <1>6, <1>7 DEF F, d

-----------------------------------------------------------------------------
(***************************************************************************)
(* The order of versions.                                                  *)
(***************************************************************************)
LEMMA IntType == ASSUME NEW digits \in Seq(0 .. 9) PROVE int(digits) \in Nat
<1> DEFINE n == Len(digits)
           Solved(g) == [s \in SUBSET DOMAIN digits |->
                           IF s = {} THEN 0 ELSE 10 * g[s \ {Max(s)}] + digits[Max(s)]]
           value == CHOOSE g : g = Solved(g)
           step == [p \in (1 .. n) \X Nat |-> 10 * p[2] + digits[p[1]]]
<1>1. n \in Nat /\ DOMAIN digits = 1 .. n /\ \A i \in 1 .. n : digits[i] \in 0 .. 9
  BY LenProperties, ElementOfSeq
<1>2. int(digits) = value[DOMAIN digits]
  BY Zenon DEF int, FoldLeft, MapThenFoldSet
<1>3. step \in [(1 .. n) \X Nat -> Nat]
  BY <1>1
<1>4. \A k \in 1 .. n, v \in Nat : step[<<k, v>>] = 10 * v + digits[k]
  OBVIOUS
<1> HIDE DEF n, step
<1>5. PICK g \in [SUBSET (1 .. n) -> Nat] : FoldsList(g, 0, step, n)
  BY <1>1, <1>3, ListFoldExists
<1>6. \A s \in SUBSET (1 .. n) : g[s] = IF s = {} THEN 0 ELSE 10 * g[s \ {Max(s)}] + digits[Max(s)]
  <2> SUFFICES ASSUME NEW s \in SUBSET (1 .. n), s # {}
               PROVE  g[s] = 10 * g[s \ {Max(s)}] + digits[Max(s)]
    BY <1>5 DEF FoldsList
  <2>1. Max(s) \in 1 .. n /\ s \ {Max(s)} \in SUBSET (1 .. n)
    BY <1>1, MaxExists
  <2>2. g[s \ {Max(s)}] \in Nat
    BY <2>1
  <2>3. g[s] = step[<<Max(s), g[s \ {Max(s)}]>>]
    BY <1>5 DEF FoldsList
  <2> QED BY <1>4, <2>1, <2>2, <2>3
<1>7. g = Solved(g)
  BY <1>1, <1>6
<1>8. value = Solved(value)
  BY <1>7
<1> HIDE DEF value
<1>9. \A s \in SUBSET (1 .. n) :
        value[s] = IF s = {} THEN 0 ELSE 10 * value[s \ {Max(s)}] + digits[Max(s)]
  BY <1>1, <1>8
<1> DEFINE Good == {k \in Nat : k <= n => value[1 .. k] \in Nat}
<1>10. 0 \in Good
  <2>1. 1 .. 0 = {} /\ {} \in SUBSET (1 .. n)
    OBVIOUS
  <2>2. value[{}] = 0
    BY <1>9, <2>1
  <2> QED BY <2>1, <2>2
<1>11. ASSUME NEW k \in Nat, k \in Good PROVE k + 1 \in Good
  <2> SUFFICES ASSUME k + 1 <= n PROVE value[1 .. k + 1] \in Nat
    OBVIOUS
  <2>1. Max(1 .. k + 1) = k + 1
    BY MaxOfPrefix
  <2>2. 1 .. k + 1 \in SUBSET (1 .. n) /\ 1 .. k + 1 # {} /\ (1 .. k + 1) \ {k + 1} = 1 .. k
    <3> n \in Nat
      BY <1>1
    <3> HIDE DEF Good
    <3>1. \A i \in 1 .. k + 1 : i \in 1 .. n
      OBVIOUS
    <3>2. k + 1 \in 1 .. k + 1
      OBVIOUS
    <3>3. (1 .. k + 1) \ {k + 1} = 1 .. k
      OBVIOUS
    <3> QED BY <3>1, <3>2, <3>3
  <2>3. value[1 .. k + 1] = 10 * value[1 .. k] + digits[k + 1]
    BY <1>9, <2>1, <2>2
  <2>4. value[1 .. k] \in Nat /\ digits[k + 1] \in 0 .. 9
    BY <1>1, <1>11
  <2> QED BY <2>3, <2>4
<1> HIDE DEF Good
<1>12. n \in Good
  BY <1>1, <1>10, <1>11, CountingUp
<1> QED BY <1>1, <1>2, <1>12 DEF Good

IsKey(key) == key \in [1 .. 3 -> Nat]

LEMMA KeyType ==
    ASSUME NEW file, IsDataset(file)
    PROVE  IsKey(semver_key(file.id[2]))
<1> DEFINE version == file.id[2]
<1>1. version \in [1 .. 3 -> Seq(0 .. 9)]
  BY DEF IsDataset
<1> HIDE DEF version
<1>2. \A i \in 1 .. 3 : int(version[i]) \in Nat
  BY <1>1, IntType
<1>3. semver_key(version) = [i \in 1 .. 3 |-> int(version[i])]
  BY <1>1 DEF semver_key
<1> QED BY <1>2, <1>3 DEF IsKey, version

LEMMA BeforeIsLexicographic ==
    ASSUME NEW key, NEW other, IsKey(key), IsKey(other)
    PROVE  Before(key, other) <=>
             \/ key[1] < other[1]
             \/ key[1] = other[1] /\ key[2] < other[2]
             \/ key[1] = other[1] /\ key[2] = other[2] /\ key[3] < other[3]
<1>1. DOMAIN key = 1 .. 3
  BY DEF IsKey
<1>2. \A i \in 1 .. 3 : i = 1 \/ i = 2 \/ i = 3
  OBVIOUS
<1>3. (\A j \in 1 .. 1 - 1 : key[j] = other[j])
  OBVIOUS
<1>4. (\A j \in 1 .. 2 - 1 : key[j] = other[j]) <=> key[1] = other[1]
  <2>1. \A j : j \in 1 .. 2 - 1 <=> j = 1
    OBVIOUS
  <2> QED BY <2>1
<1>5. (\A j \in 1 .. 3 - 1 : key[j] = other[j]) <=> key[1] = other[1] /\ key[2] = other[2]
  <2>1. \A j : j \in 1 .. 3 - 1 <=> j = 1 \/ j = 2
    OBVIOUS
  <2> QED BY <2>1
<1>6. Before(key, other) <=>
        \E i \in 1 .. 3 : key[i] < other[i] /\ \A j \in 1 .. i - 1 : key[j] = other[j]
  BY <1>1 DEF Before
<1> QED BY <1>2, <1>3, <1>4, <1>5, <1>6

LEMMA BeforeIsAnOrder ==
    ASSUME NEW a, NEW b, NEW c, IsKey(a), IsKey(b), IsKey(c)
    PROVE  /\ ~Before(a, a)
           /\ Before(a, b) /\ Before(b, c) => Before(a, c)
<1>1. \A i \in 1 .. 3 : a[i] \in Nat /\ b[i] \in Nat /\ c[i] \in Nat
  BY DEF IsKey
<1>2. \A i \in {1, 2, 3} : a[i] \in Nat /\ b[i] \in Nat /\ c[i] \in Nat
  BY <1>1
<1> QED BY <1>2, BeforeIsLexicographic

\* Of finitely many datasets one has a version that no other's exceeds.
LEMMA NewestExists ==
    ASSUME NEW S, IsFiniteSet(S), S # {}, \A id \in S : IsKey(semver_key(id[2]))
    PROVE  \E id \in S : \A other \in S : ~Before(semver_key(id[2]), semver_key(other[2]))
<1> DEFINE Key(id) == semver_key(id[2])
           Good == {T \in SUBSET S : T # {} =>
                      \E id \in T : \A other \in T : ~Before(Key(id), Key(other))}
<1> HIDE DEF Key
<1>1. \A id \in S : IsKey(Key(id))
  BY DEF Key
<1>2. ASSUME NEW T \in SUBSET S, \A U \in SUBSET T : U # T => U \in Good PROVE T \in Good
  <2> SUFFICES ASSUME T # {} PROVE \E id \in T : \A other \in T : ~Before(Key(id), Key(other))
    OBVIOUS
  <2>1. PICK x \in T : TRUE
    OBVIOUS
  <2>2. CASE T \ {x} = {}
    <3>1. T = {x} /\ ~Before(Key(x), Key(x))
      BY <1>1, <2>1, <2>2, BeforeIsAnOrder
    <3> QED BY <3>1
  <2>3. CASE T \ {x} # {}
    <3>1. T \ {x} \in Good
      BY <1>2, <2>1
    <3>2. PICK m \in T \ {x} : \A other \in T \ {x} : ~Before(Key(m), Key(other))
      BY <2>3, <3>1
    <3>3. CASE ~Before(Key(m), Key(x))
      BY <3>2, <3>3
    <3>4. CASE Before(Key(m), Key(x))
      <4> SUFFICES ASSUME NEW other \in T PROVE ~Before(Key(x), Key(other))
        BY <2>1
      <4>1. IsKey(Key(m)) /\ IsKey(Key(x)) /\ IsKey(Key(other))
        BY <1>1
      <4>2. CASE other = x
        BY <4>1, <4>2, BeforeIsAnOrder
      <4>3. CASE other # x
        BY <3>2, <3>4, <4>1, <4>3, BeforeIsAnOrder
      <4> QED BY <4>2, <4>3
    <3> QED BY <3>3, <3>4
  <2> QED BY <2>2, <2>3
<1> HIDE DEF Good
<1>3. S \in Good
  BY <1>2, SubsetInduction
<1> QED BY <1>3 DEF Good, Key

-----------------------------------------------------------------------------
(***************************************************************************)
(* Retrieval: the k best of finitely many chunks, and those among them     *)
(* that are relevant.                                                      *)
(***************************************************************************)
LEMMA BestExists ==
    ASSUME NEW S, IsFiniteSet(S), S # {}, NEW score \in [S -> Int]
    PROVE  \E x \in S : \A y \in S : score[x] >= score[y]
<1> DEFINE Good == {T \in SUBSET S : T # {} => \E x \in T : \A y \in T : score[x] >= score[y]}
<1>1. ASSUME NEW T \in SUBSET S, \A U \in SUBSET T : U # T => U \in Good PROVE T \in Good
  <2> SUFFICES ASSUME T # {} PROVE \E x \in T : \A y \in T : score[x] >= score[y]
    OBVIOUS
  <2>1. PICK x \in T : TRUE
    OBVIOUS
  <2>2. CASE T \ {x} = {}
    BY <2>1, <2>2
  <2>3. CASE T \ {x} # {}
    <3>1. T \ {x} \in Good
      BY <1>1, <2>1
    <3>2. PICK m \in T \ {x} : \A y \in T \ {x} : score[m] >= score[y]
      BY <2>3, <3>1
    <3> QED BY <2>1, <3>2
  <2> QED BY <2>2, <2>3
<1> HIDE DEF Good
<1>2. S \in Good
  BY <1>1, SubsetInduction
<1> QED BY <1>2 DEF Good

\* No element that is left out is better than one of N.
Top(N, D, score) == \A x \in N, y \in D \ N : score[x] >= score[y]

LEMMA TopExists ==
    ASSUME NEW D, IsFiniteSet(D), NEW score \in [D -> Int],
           NEW k \in Nat, k <= Cardinality(D)
    PROVE  \E N \in SUBSET D : Cardinality(N) = k /\ Top(N, D, score)
<1> DEFINE Good == {n \in Nat : n <= Cardinality(D) =>
                      \E N \in SUBSET D : Cardinality(N) = n /\ Top(N, D, score)}
<1>1. Cardinality(D) \in Nat
  BY FS_CardinalityType
<1>2. 0 \in Good
  BY FS_EmptySet DEF Top
<1>3. ASSUME NEW n \in Nat, n \in Good PROVE n + 1 \in Good
  <2> SUFFICES ASSUME n + 1 <= Cardinality(D)
               PROVE  \E N \in SUBSET D : Cardinality(N) = n + 1 /\ Top(N, D, score)
    OBVIOUS
  <2>1. PICK N \in SUBSET D : Cardinality(N) = n /\ Top(N, D, score)
    BY <1>1, <1>3
  <2>2. IsFiniteSet(N) /\ IsFiniteSet(D \ N) /\ D \ N # {}
    <3>1. IsFiniteSet(N) /\ IsFiniteSet(D \ N)
      BY FS_Subset
    <3>2. N # D
      BY <2>1, <1>1
    <3> QED BY <3>1, <3>2
  <2>3. PICK m \in D \ N : \A y \in D \ N : score[m] >= score[y]
    <3> DEFINE s == [x \in D \ N |-> score[x]]
    <3>1. s \in [D \ N -> Int] /\ \A x \in D \ N : s[x] = score[x]
      OBVIOUS
    <3> HIDE DEF s
    <3>2. \E x \in D \ N : \A y \in D \ N : s[x] >= s[y]
      BY <2>2, <3>1, BestExists
    <3> QED BY <3>1, <3>2
  <2>4. Cardinality(N \cup {m}) = n + 1
    BY <2>1, <2>2, FS_AddElement
  <2>5. Top(N \cup {m}, D, score)
    <3> SUFFICES ASSUME NEW x \in N \cup {m}, NEW y \in D \ (N \cup {m})
                 PROVE  score[x] >= score[y]
      BY DEF Top
    <3>1. CASE x \in N
      BY <2>1, <3>1 DEF Top
    <3>2. CASE x = m
      BY <2>3, <3>2
    <3> QED BY <3>1, <3>2
  <2> QED BY <2>4, <2>5
<1> HIDE DEF Good
<1>4. k \in Good
  BY <1>2, <1>3, CountingUp
<1> QED BY <1>4 DEF Good

LEMMA MinOfTwo ==
    ASSUME NEW m \in Nat, NEW n \in Nat
    PROVE  Min({m, n}) = IF m <= n THEN m ELSE n
<1>1. \E x \in {m, n} : \A y \in {m, n} : x <= y
  OBVIOUS
<1>2. Min({m, n}) \in {m, n} /\ \A y \in {m, n} : Min({m, n}) <= y
  BY <1>1 DEF Min
<1> QED BY <1>2

AtLeast(S, score, bound) == {x \in S : score[x] >= bound}

\* Filtering the best by relevance gives the best of what is relevant.
LEMMA BestOfTheRelevant ==
    ASSUME NEW D, IsFiniteSet(D), NEW score \in [D -> Int], NEW bound \in Int,
           NEW limit \in Nat, NEW N \in SUBSET D,
           Cardinality(N) = Min({limit, Cardinality(D)}), Top(N, D, score),
           NEW R, R = AtLeast(N, score, bound),
           NEW relevant, relevant = AtLeast(D, score, bound)
    PROVE  /\ R \subseteq relevant
           /\ Cardinality(R) = Min({limit, Cardinality(relevant)})
           /\ \A x \in R, y \in relevant \ R : score[x] >= score[y]
<1> USE DEF AtLeast
<1>1. R \subseteq relevant
  OBVIOUS
<1>2. \A x \in R, y \in relevant \ R : score[x] >= score[y]
  BY DEF Top
<1>3. /\ IsFiniteSet(N) /\ IsFiniteSet(relevant)
      /\ Cardinality(N) \in Nat /\ Cardinality(relevant) \in Nat /\ Cardinality(D) \in Nat
  BY FS_Subset, FS_CardinalityType
<1>4. Cardinality(N) = IF limit <= Cardinality(D) THEN limit ELSE Cardinality(D)
  BY <1>3, MinOfTwo
<1>5. CASE relevant \subseteq N
  <2>1. R = relevant
    BY <1>5
  <2>2. Cardinality(relevant) <= Cardinality(N)
    BY <1>3, <1>5, FS_Subset
  <2>3. Min({limit, Cardinality(relevant)}) = Cardinality(relevant)
    BY <1>3, <1>4, <2>2, MinOfTwo
  <2> QED BY <1>1, <1>2, <2>1, <2>3
<1>6. CASE ~(relevant \subseteq N)
  <2>1. PICK y \in relevant : y \notin N
    BY <1>6
  <2>2. \A x \in N : score[x] >= bound
    <3> TAKE x \in N
    <3>1. score[x] >= score[y] /\ score[y] >= bound
      BY <2>1 DEF Top
    <3>2. score[x] \in Int /\ score[y] \in Int
      BY <2>1
    <3> QED BY <3>1, <3>2
  <2>3. R = N /\ N \subseteq relevant /\ N # D
    BY <2>1, <2>2
  <2>4. Cardinality(N) < Cardinality(D) /\ Cardinality(N) <= Cardinality(relevant)
    <3>1. Cardinality(N) <= Cardinality(D) /\ Cardinality(N) # Cardinality(D)
      BY <2>3, FS_Subset
    <3>2. Cardinality(N) <= Cardinality(relevant)
      BY <1>3, <2>3, FS_Subset
    <3> QED BY <1>3, <3>1, <3>2
  <2>5. Min({limit, Cardinality(relevant)}) = Cardinality(N)
    BY <1>3, <1>4, <2>4, MinOfTwo
  <2> QED BY <1>1, <1>2, <2>3, <2>5
<1> QED BY <1>5, <1>6

-----------------------------------------------------------------------------
(***************************************************************************)
(* The adapters of the live providers, as seen through P.                  *)
(***************************************************************************)
Errors == P!ProviderErrorType \cup Refusals \cup Escapes \cup {None}

LEMMA HandleType ==
    ASSUME NEW n \in Nat, NEW clauses, DOMAIN clauses = 1 .. n, NEW exception, NEW Types,
           \A i \in 1 .. n : clauses[i].error_type \in Types
    PROVE  P!Handle(clauses, exception) \in Types \cup {P!Uncaught}
<1> DEFINE S == P!Fits(clauses, exception)
           first == CHOOSE i \in S : \A j \in S : i <= j
<1>1. CASE S = {}
  BY <1>1 DEF P!Handle
<1>2. CASE S # {}
  <2>1. S \subseteq 1 .. n
    BY DEF P!Fits
  <2>2. \E i \in S : \A j \in S : i <= j
    <3> HIDE DEF S
    <3> DEFINE order == [i \in S |-> -i]
    <3>1. order \in [S -> Int] /\ \A i \in S : order[i] = -i
      BY <2>1
    <3>2. IsFiniteSet(S)
      <4>1. IsFiniteSet(1 .. n)
        BY FS_Interval
      <4> QED BY <2>1, <4>1, FS_Subset
    <3> HIDE DEF order
    <3>3. PICK i \in S : \A j \in S : order[i] >= order[j]
      BY <1>2, <3>1, <3>2, BestExists
    <3> QED BY <2>1, <3>1, <3>3
  <2>3. first \in S
    BY <2>2
  <2>4. P!Handle(clauses, exception) = clauses[first].error_type
    BY <1>2, Zenon DEF P!Handle
  <2> HIDE DEF first
  <2> QED BY <2>1, <2>3, <2>4
<1> QED BY <1>1, <1>2

\* A live call is answered, or its error is one of the platform's, or goes through.
LEMMA LiveErrorType ==
    ASSUME NEW provider, NEW outcome
    PROVE  P!generate_live(provider, outcome).error
             \in P!ProviderErrorType \cup {P!Uncaught, None}
<1> DEFINE x == outcome.exception
           Types == P!ProviderErrorType
<1>1. P!Handle(P!OpenAIClauses, x) \in Types \cup {P!Uncaught}
  <2>1. /\ DOMAIN P!OpenAIClauses = 1 .. 6
        /\ \A i \in 1 .. 6 : P!OpenAIClauses[i].error_type \in Types
    BY DEF P!OpenAIClauses, P!Except, P!ProviderErrorType, P!Retryable
  <2> QED BY <2>1, HandleType
<1>2. P!Handle(P!GeminiClauses(x), x) \in Types \cup {P!Uncaught}
  <2>1. P!classify_client_error(x) \in Types
    BY DEF P!classify_client_error, P!ProviderErrorType, P!Retryable
  <2>2. "timeout" \in Types /\ "unavailable" \in Types
    BY DEF P!ProviderErrorType, P!Retryable
  <2>3. /\ DOMAIN P!GeminiClauses(x) = 1 .. 4
        /\ \A i \in 1 .. 4 : P!GeminiClauses(x)[i].error_type \in Types
    BY <2>1, <2>2 DEF P!GeminiClauses, P!Except
  <2> HIDE DEF Types
  <2> QED BY <2>3, HandleType
<1>3. P!Handle(P!OpenAIReadClauses, x) \in Types \cup {P!Uncaught}
  <2>1. /\ DOMAIN P!OpenAIReadClauses = 1 .. 1
        /\ \A i \in 1 .. 1 : P!OpenAIReadClauses[i].error_type \in Types
    BY DEF P!OpenAIReadClauses, P!Except, P!ProviderErrorType
  <2> QED BY <2>1, HandleType
<1>4. P!Handle(P!GeminiReadClauses, x) \in Types \cup {P!Uncaught}
  <2>1. /\ DOMAIN P!GeminiReadClauses = 1 .. 1
        /\ \A i \in 1 .. 1 : P!GeminiReadClauses[i].error_type \in Types
    BY DEF P!GeminiReadClauses, P!Except, P!ProviderErrorType
  <2> QED BY <2>1, HandleType
<1> DEFINE openai == P!ErrorType(P!OpenAIClauses, P!OpenAIReadClauses, outcome)
           gemini == P!ErrorType(P!GeminiClauses(x), P!GeminiReadClauses, outcome)
           type   == IF provider = "openai" THEN openai ELSE gemini
<1>5. type \in Types \cup {P!Uncaught, None}
  BY <1>1, <1>2, <1>3, <1>4 DEF P!ErrorType
<1>6. P!generate_live(provider, outcome)
        = IF type = None THEN P!LiveResponse(provider, outcome.value) ELSE P!ErrorResponse(type)
  BY Zenon DEF P!generate_live
<1> HIDE DEF type, Types
<1>7. CASE type = None
  BY <1>6, <1>7 DEF P!LiveResponse, P!ProviderResponse
<1>8. CASE type # None
  BY <1>5, <1>6, <1>8 DEF P!ErrorResponse, Types
<1> QED BY <1>7, <1>8

LEMMA GenerationErrorType ==
    ASSUME NEW error \in GenerationErrors
    PROVE  error \in P!ProviderErrorType \cup {P!Uncaught, None}
<1>1. CASE request.provider = "deterministic"
  BY <1>1 DEF GenerationErrors, P!ProviderErrorType
<1>2. CASE request.provider # "deterministic"
  <2>1. PICK outcome \in SDKOutcomes[request.provider] :
          error = P!generate_live(request.provider, outcome).error
    BY <1>2 DEF GenerationErrors
  <2> QED BY <2>1, LiveErrorType
<1> QED BY <1>1, <1>2

-----------------------------------------------------------------------------
(***************************************************************************)
(* The operators of a request, with the store and the repository that they *)
(* read as arguments.                                                      *)
(***************************************************************************)
\* The texts that chunks are made of.
Pieces == UNION {{chunk_documents(c)[id] : id \in chunk_ids(c)} : c \in Corpora}

StoreOK(coll) ==
    /\ IsFiniteSet(DOMAIN coll)
    /\ \A id \in DOMAIN coll : coll[id].text \in Pieces

Scores(coll, query) == [id \in DOMAIN coll |-> Similarity[query][coll[id].text]]

\* similarity_search and retrieve.
Nearest(coll, query, k) ==
    CHOOSE nearest \in kSubset(Min({k, Cardinality(DOMAIN coll)}), DOMAIN coll) :
        \A id \in nearest, other \in DOMAIN coll \ nearest :
            Scores(coll, query)[id] >= Scores(coll, query)[other]

Found(coll, query, k) ==
    {id \in Nearest(coll, query, Limit(k)) : Scores(coll, query)[id] >= RelevanceThreshold}

DatasetsOK(ds) ==
    /\ IsFiniteSet(DOMAIN ds)
    /\ \A id \in DOMAIN ds :
         /\ IsKey(semver_key(id[2]))
         /\ \A case \in DOMAIN ds[id] : case \in Cases /\ ds[id][case] \in Queries

IsNewest(id, ds) ==
    /\ id \in DOMAIN ds /\ id[1] = rag_dataset_name
    /\ \A other \in DOMAIN ds : other[1] = rag_dataset_name =>
         ~Before(semver_key(id[2]), semver_key(other[2]))

LEMMA StoreScore ==
    ASSUME NEW query, NEW id \in DOMAIN collection
    PROVE  Score(query, id) = Scores(collection, query)[id]
BY DEF Score, Scores, Content

LEMMA FoundTop ==
    ASSUME NEW coll, StoreOK(coll), NEW query \in Queries, NEW k \in Nat
    PROVE  /\ Scores(coll, query) \in [DOMAIN coll -> Int]
           /\ Nearest(coll, query, k) \in SUBSET DOMAIN coll
           /\ Cardinality(Nearest(coll, query, k)) = Min({k, Cardinality(DOMAIN coll)})
           /\ Top(Nearest(coll, query, k), DOMAIN coll, Scores(coll, query))
<1> DEFINE D == DOMAIN coll
           score == Scores(coll, query)
           n == Min({k, Cardinality(D)})
           nearest == Nearest(coll, query, k)
<1>1. score \in [D -> Int]
  <2>1. ASSUME NEW id \in D PROVE Similarity[query][coll[id].text] \in Int
    <3>1. PICK c \in Corpora : \E i \in chunk_ids(c) : coll[id].text = chunk_documents(c)[i]
      BY DEF StoreOK, Pieces
    <3> QED BY <3>1, RetrievalAssumption
  <2> QED BY <2>1 DEF Scores
<1>2. n \in Nat /\ n <= Cardinality(D) /\ IsFiniteSet(D)
  <2>1. IsFiniteSet(D) /\ Cardinality(D) \in Nat
    BY FS_CardinalityType DEF StoreOK
  <2> QED BY <2>1, MinOfTwo
<1> HIDE DEF n, score, D
<1>3. \E N \in kSubset(n, D) : Top(N, D, score)
  BY <1>1, <1>2, TopExists DEF kSubset
<1>4. nearest = CHOOSE N \in kSubset(n, D) : Top(N, D, score)
  BY Zenon DEF Nearest, Top, n, score, D
<1>5. nearest \in kSubset(n, D) /\ Top(nearest, D, score)
  <2> HIDE DEF nearest
  <2> QED BY <1>3, <1>4
<1>6. nearest \in SUBSET D /\ Cardinality(nearest) = n
  <2> HIDE DEF nearest
  <2> QED BY <1>5 DEF kSubset
<1> QED BY <1>1, <1>5, <1>6 DEF n, score, D

LEMMA RetrieveIsFound ==
    ASSUME StoreOK(collection), NEW query \in Queries, NEW k, Limit(k) \in Nat
    PROVE  retrieve(query, k) = Found(collection, query, k)
<1> DEFINE D == DOMAIN collection
           n == Min({Limit(k), Cardinality(D)})
           Best(N) == \A id \in N, other \in D \ N : Score(query, id) >= Score(query, other)
           Best2(N) == \A id \in N, other \in D \ N :
                         Scores(collection, query)[id] >= Scores(collection, query)[other]
<1>1. \A N \in kSubset(n, D) : Best(N) <=> Best2(N)
  BY StoreScore DEF kSubset
<1>2. similarity_search(query, Limit(k)) = CHOOSE N \in kSubset(n, D) : Best(N)
  BY Zenon DEF similarity_search
<1>3. Nearest(collection, query, Limit(k)) = CHOOSE N \in kSubset(n, D) : Best2(N)
  BY Zenon DEF Nearest
<1>4. similarity_search(query, Limit(k)) = Nearest(collection, query, Limit(k))
  <2> HIDE DEF Best, Best2, n, D
  <2> QED BY <1>1, <1>2, <1>3
<1>5. Nearest(collection, query, Limit(k)) \subseteq DOMAIN collection
  BY FoundTop
<1> QED BY <1>4, <1>5, StoreScore DEF retrieve, Found

LEMMA LimitType == ASSUME NEW k \in Ks \cup {None} PROVE Limit(k) \in Nat
BY RetrievalAssumption DEF Limit

\* get_dataset finds a dataset if there is one of the name, and it is the newest.
LEMMA NewestDataset ==
    ASSUME DatasetsOK(datasets), Candidates # {}
    PROVE  IsNewest(get_dataset, datasets)
<1>1. IsFiniteSet(Candidates) /\ \A id \in Candidates : IsKey(semver_key(id[2]))
  <2>1. Candidates \subseteq DOMAIN datasets
    BY DEF Candidates
  <2> QED BY <2>1, FS_Subset DEF DatasetsOK
<1>2. \E id \in Candidates : \A other \in Candidates :
        ~Before(semver_key(id[2]), semver_key(other[2]))
  BY <1>1, NewestExists
<1> DEFINE id == CHOOSE c \in Candidates : \A other \in Candidates :
                   ~Before(semver_key(c[2]), semver_key(other[2]))
<1>3. id \in Candidates /\ \A other \in Candidates :
        ~Before(semver_key(id[2]), semver_key(other[2]))
  BY <1>2
<1>4. get_dataset = id
  BY Zenon DEF get_dataset
<1> HIDE DEF id
<1> QED BY <1>3, <1>4 DEF IsNewest, Candidates

\* What is loaded is as the models validate it.
LEMMA LoadedOK ==
    ASSUME NEW dir \in DOMAIN Directories
    PROVE  DatasetsOK(load_all(dir))
<1> DEFINE d == load_all(dir)
<1>1. ASSUME NEW id \in DOMAIN d
      PROVE  /\ IsKey(semver_key(id[2]))
             /\ \A case \in DOMAIN d[id] : case \in Cases /\ d[id][case] \in Queries
  <2>1. PICK i \in ValidFiles(dir) : files(dir)[i].id = id /\ d[id] = files(dir)[i].cases
    BY LoadedDatasets
  <2>2. IsDataset(files(dir)[i])
    BY LibraryAssumption
  <2> HIDE DEF d
  <2>3. IsKey(semver_key(files(dir)[i].id[2]))
    BY <2>2, KeyType
  <2> QED BY <2>1, <2>2, <2>3 DEF IsDataset
<1>2. IsFiniteSet(DOMAIN d)
  BY LoadedDatasets
<1> HIDE DEF d
<1>3. DatasetsOK(d)
  BY <1>1, <1>2 DEF DatasetsOK
<1> QED BY <1>3 DEF d

-----------------------------------------------------------------------------
(***************************************************************************)
(* The store, as the service uses it.  A step of the service is a step of  *)
(* CorpusIngestion that says what becomes of reconfigured.                 *)
(***************************************************************************)
StoreStep ==
    \/ \E corpus \in Corpora : EditCorpus(corpus) /\ UNCHANGED reconfigured
    \/ \E embedder \in Embedders : Configure(embedder) /\ reconfigured' = TRUE
    \/ Load /\ UNCHANGED reconfigured
    \/ Skip /\ UNCHANGED reconfigured
    \/ ResetCollection /\ UNCHANGED reconfigured
    \/ AddDocuments /\ UNCHANGED reconfigured
    \/ EmbeddingFails /\ UNCHANGED reconfigured
    \/ WriteMarker /\ reconfigured' = FALSE
    \/ Crash /\ UNCHANGED reconfigured
    \/ UNCHANGED <<vars, reconfigured>>

LEMMA RequestStepsOnlyRead ==
    ASSUME NEW stage, NEW r, Becomes(stage, r)
    PROVE  UNCHANGED <<vars, library, reconfigured>>
BY DEF Becomes

LEMMA ServiceStep == [RagNext]_rag_vars => StoreStep
<1> SUFFICES ASSUME [RagNext]_rag_vars PROVE StoreStep
  OBVIOUS
<1>1. CASE UNCHANGED rag_vars
  BY <1>1 DEF rag_vars, StoreStep
<1>2. ASSUME NEW dir \in DOMAIN Directories, EditDatasets(dir) PROVE StoreStep
  BY <1>2 DEF EditDatasets, StoreStep
<1>3. CASE Deploy
  BY <1>3 DEF Deploy, StoreStep
<1>4. CASE Start
  BY <1>4 DEF Start, StoreStep
<1>5. CASE Ingest
  BY <1>5 DEF Ingest, StoreStep
<1>6. CASE Stop
  BY <1>6 DEF Stop, StoreStep
<1>7. ASSUME UNCHANGED <<vars, library, reconfigured>> PROVE StoreStep
  BY <1>7 DEF StoreStep
<1>8. ASSUME NEW query, NEW k, NEW provider, Query(query, k, provider) PROVE StoreStep
  BY <1>7, <1>8, RequestStepsOnlyRead DEF Query
<1>9. ASSUME NEW case, NEW provider, EvaluateCase(case, provider) PROVE StoreStep
  BY <1>7, <1>9, RequestStepsOnlyRead DEF EvaluateCase
<1>10. ASSUME NEW query, NEW k, InspectChunks(query, k) PROVE StoreStep
  BY <1>7, <1>10, RequestStepsOnlyRead DEF InspectChunks
<1>11. CASE Retrieve \/ RetrievalRaises
  BY <1>7, <1>11, RequestStepsOnlyRead DEF Retrieve, RetrievalRaises
<1>12. CASE Retry \/ Answer
  BY <1>7, <1>12, RequestStepsOnlyRead DEF Retry, Answer
<1>13. CASE ShowChunks \/ Reply
  BY <1>7, <1>13, RequestStepsOnlyRead DEF ShowChunks, Reply
<1> QED
  BY <1>1, <1>2, <1>3, <1>4, <1>5, <1>6, <1>8, <1>9, <1>10, <1>11, <1>12, <1>13 DEF RagNext

LEMMA StoreStepIsNext == StoreStep => [Next]_vars
BY DEF StoreStep, Next

(***************************************************************************)
(* The service does to the vector store what CorpusIngestion says, from    *)
(* the starts of create_app to the requests that only read it: what is     *)
(* proved of the store alone holds while it serves.                        *)
(***************************************************************************)
THEOREM ServiceImplementsStore == RagSpec => Spec
<1>1. RagInit => Init
  BY DEF RagInit
<1>2. [RagNext]_rag_vars => [Next]_vars
  BY ServiceStep, StoreStepIsNext
<1> QED BY <1>1, <1>2, PTL DEF RagSpec, Spec

\* The setting does not change during an ingestion; without a change since the last
\* that was completed, all that was embedded was embedded as the setting says.
AsSet ==
    /\ pc \in {"compare", "add", "mark"} => embeddings = rag_embeddings_provider
    /\ pc = "mark" => \A id \in DOMAIN collection : collection[id].by = embeddings
    /\ ~reconfigured =>
         /\ pc = "serving" => embeddings = rag_embeddings_provider
         /\ \A id \in DOMAIN collection : collection[id].by = rag_embeddings_provider

StoreInv ==
    /\ TypeInv
    /\ StoreOK(collection)
    /\ EmptyWhenAdding
    /\ AsSet
    /\ reconfigured \in BOOLEAN

LEMMA ChunksAdded ==
    ASSUME StoreInv, AddDocuments
    PROVE  /\ StoreOK(collection')
           /\ \A id \in DOMAIN collection' : collection'[id].by = embeddings
<1>1. collection' = Upsert(Embedded, collection) /\ DOMAIN collection = {}
  BY DEF AddDocuments, StoreInv, EmptyWhenAdding
<1>2. DOMAIN Embedded = DOMAIN chunks
  BY DEF Embedded
<1>3. DOMAIN collection' = DOMAIN chunks
  BY <1>1, <1>2 DEF Upsert
<1>4. ASSUME NEW id \in DOMAIN chunks
      PROVE  collection'[id].text = chunks[id] /\ collection'[id].by = embeddings
  <2>1. collection'[id] = Embedded[id]
    BY <1>1, <1>2, <1>3 DEF Upsert
  <2>2. Embedded[id] = [text |-> chunks[id], by |-> embeddings]
    BY DEF Embedded
  <2> QED BY <2>1, <2>2
<1>5. disk \in Corpora /\ chunks = chunk_documents(disk)
  BY DEF AddDocuments, StoreInv, TypeInv, TypeOK, Loaded
<1>6. DOMAIN chunks = chunk_ids(disk)
  BY <1>5 DEF chunk_documents
<1>7. IsFiniteSet(DOMAIN collection')
  BY <1>3, <1>5, <1>6, RetrievalAssumption
<1>8. ASSUME NEW id \in DOMAIN chunks PROVE chunks[id] \in Pieces
  BY <1>5, <1>6 DEF Pieces
<1> QED BY <1>3, <1>4, <1>7, <1>8 DEF StoreOK

LEMMA StepStore == StoreInv /\ [RagNext]_rag_vars => StoreInv'
<1> SUFFICES ASSUME StoreInv, [RagNext]_rag_vars PROVE StoreInv'
  OBVIOUS
<1>1. StoreStep /\ TypeInv'
  BY ServiceStep, StoreStepIsNext, StepTypes DEF StoreInv
<1>2. StoreOK(collection)' <=> StoreOK(collection')
  BY DEF StoreOK, Pieces, chunk_documents, chunk_ids
<1>3. ASSUME UNCHANGED collection PROVE StoreOK(collection')
  BY <1>3 DEF StoreInv
<1>4. SUFFICES StoreOK(collection') /\ (EmptyWhenAdding /\ AsSet)' /\ reconfigured' \in BOOLEAN
  BY <1>1, <1>2 DEF StoreInv
<1> USE DEF EmptyWhenAdding, AsSet
<1>5. ASSUME NEW corpus \in Corpora, EditCorpus(corpus), UNCHANGED reconfigured
      PROVE  StoreOK(collection') /\ (EmptyWhenAdding /\ AsSet)' /\ reconfigured' \in BOOLEAN
  BY <1>3, <1>5 DEF EditCorpus, Deployable, store, process, StoreInv
<1>6. ASSUME NEW embedder \in Embedders, Configure(embedder), reconfigured' = TRUE
      PROVE  StoreOK(collection') /\ (EmptyWhenAdding /\ AsSet)' /\ reconfigured' \in BOOLEAN
  BY <1>3, <1>6 DEF Configure, Deployable, store, process, StoreInv
<1>7. ASSUME UNCHANGED reconfigured, Load \/ Skip \/ EmbeddingFails \/ Crash
      PROVE  StoreOK(collection') /\ (EmptyWhenAdding /\ AsSet)' /\ reconfigured' \in BOOLEAN
  BY <1>3, <1>7
     DEF Load, Skip, EmbeddingFails, Crash, deployment, store, process, StoreInv
<1>8. ASSUME UNCHANGED reconfigured, ResetCollection
      PROVE  StoreOK(collection') /\ (EmptyWhenAdding /\ AsSet)' /\ reconfigured' \in BOOLEAN
  <2>1. DOMAIN collection' = {}
    BY <1>8 DEF ResetCollection, NoChunks
  <2>2. StoreOK(collection')
    BY <2>1, FS_EmptySet DEF StoreOK
  <2> QED BY <1>8, <2>1, <2>2 DEF ResetCollection, deployment, process, StoreInv
<1>9. ASSUME UNCHANGED reconfigured, AddDocuments
      PROVE  StoreOK(collection') /\ (EmptyWhenAdding /\ AsSet)' /\ reconfigured' \in BOOLEAN
  BY <1>9, ChunksAdded DEF AddDocuments, deployment, process, StoreInv
<1>10. ASSUME reconfigured' = FALSE, WriteMarker
      PROVE  StoreOK(collection') /\ (EmptyWhenAdding /\ AsSet)' /\ reconfigured' \in BOOLEAN
  BY <1>3, <1>10 DEF WriteMarker, deployment, process, StoreInv
<1>11. ASSUME UNCHANGED <<vars, reconfigured>>
      PROVE  StoreOK(collection') /\ (EmptyWhenAdding /\ AsSet)' /\ reconfigured' \in BOOLEAN
  BY <1>3, <1>11 DEF vars, deployment, store, process, StoreInv
<1> QED BY <1>1, <1>5, <1>6, <1>7, <1>8, <1>9, <1>10, <1>11 DEF StoreStep

-----------------------------------------------------------------------------
(***************************************************************************)
(* The datasets: what was loaded at the start, whatever becomes of the     *)
(* directory.                                                              *)
(***************************************************************************)
LibraryInv ==
    /\ directory \in DOMAIN Directories
    /\ started_on \in DOMAIN Directories
    /\ datasets \in {NoDatasets, load_all(started_on)}
    /\ pc # "down" => datasets = load_all(started_on)

LEMMA LibraryOK == ASSUME LibraryInv PROVE DatasetsOK(datasets)
<1>1. DatasetsOK(load_all(started_on))
  BY LoadedOK DEF LibraryInv
<1>2. DatasetsOK(NoDatasets)
  <2>1. DOMAIN NoDatasets = {}
    BY DEF NoDatasets
  <2> QED BY <2>1, FS_EmptySet DEF DatasetsOK
<1> QED BY <1>1, <1>2 DEF LibraryInv

\* Only Start loads datasets; nothing else takes a process up.
LEMMA LibrarySteps ==
    ASSUME [RagNext]_rag_vars, ~\E dir \in DOMAIN Directories : EditDatasets(dir), ~Start
    PROVE  UNCHANGED library /\ (pc = "down" => pc' = "down")
<1>1. ASSUME UNCHANGED <<vars, library, reconfigured>>
      PROVE  UNCHANGED library /\ (pc = "down" => pc' = "down")
  BY <1>1 DEF vars
<1>2. CASE UNCHANGED rag_vars
  BY <1>2 DEF rag_vars, vars
<1>3. CASE Deploy
  BY <1>3 DEF Deploy, EditCorpus, Configure
<1>4. CASE Ingest
  BY <1>4 DEF Ingest, Skip, ResetCollection, AddDocuments, EmbeddingFails, WriteMarker
<1>5. CASE Stop
  BY <1>5 DEF Stop, Crash
<1>6. CASE \E query \in Queries, k \in Ks, provider \in DOMAIN SDKOutcomes :
             Query(query, k, provider)
  BY <1>1, <1>6, RequestStepsOnlyRead DEF Query
<1>7. CASE \E case \in Cases, provider \in Providers : EvaluateCase(case, provider)
  BY <1>1, <1>7, RequestStepsOnlyRead DEF EvaluateCase
<1>8. CASE \E query \in Queries \cup {None}, k \in Ks : InspectChunks(query, k)
  BY <1>1, <1>8, RequestStepsOnlyRead DEF InspectChunks
<1>9. CASE Retrieve \/ RetrievalRaises
  BY <1>1, <1>9, RequestStepsOnlyRead DEF Retrieve, RetrievalRaises
<1>10. CASE Retry \/ Answer
  BY <1>1, <1>10, RequestStepsOnlyRead DEF Retry, Answer
<1>11. CASE ShowChunks \/ Reply
  BY <1>1, <1>11, RequestStepsOnlyRead DEF ShowChunks, Reply
<1> QED
  BY <1>2, <1>3, <1>4, <1>5, <1>6, <1>7, <1>8, <1>9, <1>10, <1>11 DEF RagNext

LEMMA StepLibrary == LibraryInv /\ [RagNext]_rag_vars => LibraryInv'
<1> SUFFICES ASSUME LibraryInv, [RagNext]_rag_vars PROVE LibraryInv'
  OBVIOUS
<1>1. ASSUME NEW dir \in DOMAIN Directories, EditDatasets(dir) PROVE LibraryInv'
  BY <1>1 DEF EditDatasets, vars, LibraryInv
<1>2. CASE Start
  BY <1>2 DEF Start, LibraryInv
<1>3. CASE UNCHANGED library /\ (pc = "down" => pc' = "down")
  BY <1>3 DEF library, LibraryInv
<1> QED BY <1>1, <1>2, <1>3, LibrarySteps

-----------------------------------------------------------------------------
(***************************************************************************)
(* The requests.  RequestOK is about a request r over what it reads: the   *)
(* datasets ds, the collection coll, and whether the setting was changed.  *)
(***************************************************************************)
Attempts == 1 .. Max({1, MaxAttempts})

RequestType(ds, coll) ==
    [op : {"query", "evaluate", "inspect", None},
     stage : {"idle", "retrieve", "generate", "show", "done"},
     provider : Providers \cup {None}, dataset : DOMAIN ds \cup {None},
     case : Cases \cup {None}, recorded : BOOLEAN, query : Queries \cup {None},
     k : Ks \cup {None}, attempt : Attempts,
     retrieved : SUBSET DOMAIN coll, shown : SUBSET DOMAIN coll, error : Errors]

\* What a request is about.
Subject(r, ds, coll, changed) ==
    /\ r \in RequestType(ds, coll)
    /\ r.dataset # None =>
         /\ IsNewest(r.dataset, ds)
         /\ r.case \in DOMAIN ds[r.dataset] /\ r.query = ds[r.dataset][r.case]
    /\ r.error = "wrong_dimension" => changed

RequestOK(r, ds, coll, changed) ==
    /\ Subject(r, ds, coll, changed)
    /\ r.stage = "idle" => r = NoRequest
    /\ r.stage \in {"retrieve", "generate", "show"} => r.query \in Queries
    /\ r.stage \in {"generate", "show"} => r.retrieved = Found(coll, r.query, r.k)

RequestInv ==
    /\ RequestOK(request, datasets, collection, reconfigured)
    /\ request.stage # "idle" => pc = "serving"

LEMMA OneAttempt == Attempts \in SUBSET Nat /\ 1 \in Attempts
<1>1. \E x \in {1, MaxAttempts} : \A y \in {1, MaxAttempts} : x >= y
  BY RetrievalAssumption
<1>2. Max({1, MaxAttempts}) \in {1, MaxAttempts} /\ Max({1, MaxAttempts}) >= 1
  BY <1>1 DEF Max
<1> QED BY <1>2, RetrievalAssumption DEF Attempts

LEMMA NoRequestOK == ASSUME NEW ds, NEW coll, NEW changed
                     PROVE  RequestOK(NoRequest, ds, coll, changed)
<1>1. NoRequest \in RequestType(ds, coll)
  BY OneAttempt DEF NoRequest, RequestType, Errors
<1>2. NoRequest.error # "wrong_dimension"
  BY ErrorsAssumption DEF NoRequest, Escapes
<1> QED BY <1>1, <1>2 DEF NoRequest, RequestOK, Subject

LEMMA RefusedOK ==
    ASSUME NEW ds, NEW coll, NEW changed, NEW r, Subject(r, ds, coll, changed),
           NEW error \in Refusals \cup Escapes, error = "wrong_dimension" => changed
    PROVE  RequestOK(Refused(r, error), ds, coll, changed)
<1>1. error \in Errors
  BY DEF Errors
<1> DEFINE q == [r EXCEPT !.error = error, !.stage = "done"]
<1>2. q \in RequestType(ds, coll)
  BY <1>1 DEF Subject, RequestType
<1>3. /\ q.op = r.op /\ q.k = r.k /\ q.dataset = r.dataset /\ q.case = r.case
      /\ q.query = r.query /\ q.error = error /\ q.stage = "done"
  BY DEF Subject, RequestType
<1>4. Refused(r, error) = q
  BY DEF Refused
<1> HIDE DEF q
<1> QED BY <1>2, <1>3, <1>4 DEF RequestOK, Subject

LEMMA ReadyType ==
    ASSUME NEW provider
    PROVE  Ready(provider) \in {"ready", "fixtures_raised"} \cup Refusals
BY DEF Ready, P!create, get_fixtures, Refusals

LEMMA AcceptedOK ==
    ASSUME NEW ds, NEW coll, NEW changed, NEW r, Subject(r, ds, coll, changed),
           r.query \in Queries
    PROVE  RequestOK(Accepted(r), ds, coll, changed)
<1> DEFINE q == [r EXCEPT !.stage = "retrieve"]
<1>1. q \in RequestType(ds, coll)
  BY DEF Subject, RequestType
<1>2. /\ q.op = r.op /\ q.k = r.k /\ q.dataset = r.dataset /\ q.case = r.case
      /\ q.query = r.query /\ q.error = r.error /\ q.stage = "retrieve"
  BY DEF Subject, RequestType
<1> HIDE DEF q
<1>3. RequestOK(q, ds, coll, changed)
  BY <1>1, <1>2 DEF RequestOK, Subject
<1>4. ASSUME NEW ready \in {"ready", "fixtures_raised"} \cup Refusals
      PROVE  RequestOK(IF ready = "ready" THEN q ELSE Refused(r, ready), ds, coll, changed)
  <2>1. CASE ready = "ready"
    BY <1>3, <2>1
  <2>2. CASE ready # "ready"
    <3>1. ready \in Refusals \cup Escapes /\ ready # "wrong_dimension"
      BY <2>2 DEF Refusals, Escapes
    <3>2. RequestOK(Refused(r, ready), ds, coll, changed)
      BY <3>1, RefusedOK
    <3> QED BY <2>2, <3>2
  <2> QED BY <2>1, <2>2
<1>5. Accepted(r) = IF Ready(r.provider) = "ready" THEN q ELSE Refused(r, Ready(r.provider))
  BY DEF Accepted, q
<1> QED BY <1>4, <1>5, ReadyType

-----------------------------------------------------------------------------
\* What each step makes of the request at hand is in order again.
NextOK == RequestOK(request', datasets, collection, reconfigured)

RagInv ==
    /\ StoreInv
    /\ LibraryInv
    /\ RequestInv

LEMMA AtHand ==
    ASSUME RagInv
    PROVE  /\ Subject(request, datasets, collection, reconfigured)
           /\ request \in RequestType(datasets, collection)
           /\ Limit(request.k) \in Nat
BY LimitType DEF RagInv, RequestInv, RequestOK, Subject, RequestType

\* What retrieval returns, with the top_k of the request and without one.
LEMMA FoundInStore ==
    ASSUME RagInv, NEW query \in Queries, NEW k \in Ks \cup {None}
    PROVE  /\ retrieve(query, k) = Found(collection, query, k)
           /\ retrieve(query, k) \subseteq DOMAIN collection
<1>1. StoreOK(collection)
  BY DEF RagInv, StoreInv
<1>2. Limit(k) \in Nat
  BY LimitType
<1>3. retrieve(query, k) = Found(collection, query, k)
  BY <1>1, <1>2, RetrieveIsFound
<1>4. Nearest(collection, query, Limit(k)) \in SUBSET DOMAIN collection
  BY <1>1, <1>2, FoundTop
<1> QED BY <1>3, <1>4 DEF Found

LEMMA QueryOK ==
    ASSUME RagInv, NEW query \in Queries, NEW k \in Ks, NEW provider \in DOMAIN SDKOutcomes,
           Query(query, k, provider)
    PROVE  NextOK
<1>0. PICK r : r = [NoRequest EXCEPT !.op = "query", !.query = query, !.k = k,
                                    !.provider = provider]
  OBVIOUS
<1>1. r = [op |-> "query", stage |-> "idle", provider |-> provider, dataset |-> None,
           case |-> None, recorded |-> FALSE, query |-> query, k |-> k, attempt |-> 1,
           retrieved |-> {}, shown |-> {}, error |-> None]
  BY <1>0 DEF NoRequest
<1>2. request' = Accepted(r)
  BY <1>0 DEF Query, Becomes
<1>3. Subject(r, datasets, collection, reconfigured)
  <2>1. r \in RequestType(datasets, collection)
    BY <1>1, OneAttempt DEF RequestType, Providers, Errors
  <2>2. r.op = "query" /\ r.dataset = None /\ r.error = None
    BY <1>1
  <2> QED BY <2>1, <2>2, ErrorsAssumption DEF Subject, Escapes
<1>4. r.query \in Queries
  BY <1>1
<1> QED BY <1>2, <1>3, <1>4, AcceptedOK DEF NextOK

LEMMA EvaluateOK ==
    ASSUME RagInv, NEW case \in Cases, NEW provider \in Providers, EvaluateCase(case, provider)
    PROVE  NextOK
<1>0. PICK q : q = [NoRequest EXCEPT !.op = "evaluate", !.case = case, !.provider = provider]
  OBVIOUS
<1> DEFINE newest == get_dataset
           query == datasets[newest][case]
           recorded == Recorded(newest, case)
           refused == Candidates = {} \/ case \notin DOMAIN datasets[get_dataset]
<1>1. q = [op |-> "evaluate", stage |-> "idle", provider |-> provider, dataset |-> None,
           case |-> case, recorded |-> FALSE, query |-> None, k |-> None, attempt |-> 1,
           retrieved |-> {}, shown |-> {}, error |-> None]
  BY <1>0 DEF NoRequest
<1>2. request' = IF refused THEN Refused(q, "not_found")
                 ELSE Accepted([q EXCEPT !.dataset = newest, !.query = query,
                                         !.recorded = recorded])
  BY <1>0 DEF EvaluateCase, Becomes
<1>3. Subject(q, datasets, collection, reconfigured)
  <2>1. q \in RequestType(datasets, collection)
    BY <1>1, OneAttempt DEF RequestType, Errors
  <2>2. q.k = None /\ q.dataset = None /\ q.error = None
    BY <1>1
  <2> QED BY <2>1, <2>2, ErrorsAssumption DEF Subject, Escapes
<1>4. CASE refused
  <2>1. "not_found" \in Refusals \cup Escapes /\ "not_found" # "wrong_dimension"
    BY DEF Refusals
  <2>2. RequestOK(Refused(q, "not_found"), datasets, collection, reconfigured)
    BY <1>3, <2>1, RefusedOK
  <2> QED BY <1>2, <1>4, <2>2 DEF NextOK
<1>5. CASE ~refused
  <2>1. DatasetsOK(datasets)
    BY LibraryOK DEF RagInv
  <2>2. IsNewest(get_dataset, datasets)
    BY <1>5, <2>1, NewestDataset
  <2>3. get_dataset \in DOMAIN datasets /\ case \in DOMAIN datasets[get_dataset]
    BY <1>5, <2>2 DEF IsNewest
  <2>4. datasets[get_dataset][case] \in Queries
    BY <2>1, <2>3 DEF DatasetsOK
  <2>5. Recorded(get_dataset, case) \in BOOLEAN
    BY DEF Recorded
  <2> HIDE DEF newest, query, recorded
  <2>5a. PICK r : r = [q EXCEPT !.dataset = newest, !.query = query, !.recorded = recorded]
    OBVIOUS
  <2>6. r = [op |-> "evaluate", stage |-> "idle", provider |-> provider,
             dataset |-> newest, case |-> case, recorded |-> recorded,
             query |-> query, k |-> None, attempt |-> 1,
             retrieved |-> {}, shown |-> {}, error |-> None]
    BY <1>1, <2>5a
  <2>7. /\ newest \in DOMAIN datasets /\ query \in Queries /\ recorded \in BOOLEAN
        /\ IsNewest(newest, datasets) /\ case \in DOMAIN datasets[newest]
        /\ query = datasets[newest][case]
    BY <2>2, <2>3, <2>4, <2>5 DEF newest, query, recorded
  <2>8. r \in RequestType(datasets, collection)
    BY <2>6, <2>7, OneAttempt DEF RequestType, Errors
  <2>9. /\ r.k = None /\ r.dataset = newest /\ r.case = case /\ r.query = query
        /\ r.error = None
    BY <2>6
  <2>10. Subject(r, datasets, collection, reconfigured)
    BY <2>7, <2>8, <2>9, ErrorsAssumption DEF Subject, Escapes
  <2>11. RequestOK(Accepted(r), datasets, collection, reconfigured)
    BY <2>7, <2>9, <2>10, AcceptedOK
  <2> QED BY <1>2, <1>5, <2>5a, <2>11 DEF NextOK
<1> QED BY <1>4, <1>5

LEMMA InspectOK ==
    ASSUME RagInv, NEW query \in Queries \cup {None}, NEW k \in Ks, InspectChunks(query, k)
    PROVE  NextOK
<1> DEFINE retrieved == IF query = None THEN DOMAIN collection ELSE {}
           stage == IF query = None THEN "done" ELSE "retrieve"
<1>1. request' = [op |-> "inspect", stage |-> stage, provider |-> None, dataset |-> None,
           case |-> None, recorded |-> FALSE, query |-> query, k |-> k, attempt |-> 1,
           retrieved |-> retrieved, shown |-> {}, error |-> None]
  BY DEF InspectChunks, Becomes, NoRequest
<1>2. retrieved \in SUBSET DOMAIN collection
  OBVIOUS
<1>3. stage \in {"done", "retrieve"} /\ (stage = "retrieve" => query \in Queries)
  OBVIOUS
<1> HIDE DEF retrieved, stage
<1>4. request' \in RequestType(datasets, collection)
  BY <1>1, <1>2, <1>3, OneAttempt DEF RequestType, Errors
<1>5. /\ request'.op = "inspect" /\ request'.dataset = None /\ request'.error = None
      /\ request'.stage = stage /\ request'.query = query
  BY <1>1
<1>6. Subject(request', datasets, collection, reconfigured)
  BY <1>4, <1>5, ErrorsAssumption DEF Subject, Escapes
<1> QED BY <1>3, <1>5, <1>6 DEF NextOK, RequestOK

LEMMA RetrieveOK ==
    ASSUME RagInv, Retrieve
    PROVE  NextOK
<1>1. request.query \in Queries
  BY DEF Retrieve, Becomes, RagInv, RequestInv, RequestOK
<1>2. request \in RequestType(datasets, collection)
      /\ Subject(request, datasets, collection, reconfigured)
  BY AtHand
<1>3. request.k \in Ks \cup {None}
  BY <1>2 DEF RequestType
<1> DEFINE retrieved == retrieve(request.query, request.k)
           stage == IF request.op = "inspect" THEN "done" ELSE "generate"
<1>4. retrieved = Found(collection, request.query, request.k)
      /\ retrieved \in SUBSET DOMAIN collection
  BY <1>1, <1>3, FoundInStore
<1>5. request' = [request EXCEPT !.retrieved = retrieved, !.stage = stage]
  BY DEF Retrieve, Becomes
<1>6. stage \in {"done", "generate"}
  OBVIOUS
<1> HIDE DEF retrieved, stage
<1>7. request' \in RequestType(datasets, collection)
  BY <1>2, <1>4, <1>5, <1>6 DEF RequestType
<1>8. /\ request'.op = request.op /\ request'.k = request.k
      /\ request'.dataset = request.dataset /\ request'.case = request.case
      /\ request'.query = request.query /\ request'.error = request.error
      /\ request'.stage = stage /\ request'.retrieved = retrieved
  BY <1>2, <1>5 DEF RequestType
<1>9. Subject(request', datasets, collection, reconfigured)
  BY <1>2, <1>7, <1>8 DEF Subject
<1> QED BY <1>1, <1>4, <1>6, <1>8, <1>9 DEF NextOK, RequestOK

\* The vectors fit as long as the setting was not changed.
LEMMA MismatchMeansChanged ==
    ASSUME RagInv, pc = "serving", Mismatch
    PROVE  reconfigured
BY DEF RagInv, StoreInv, AsSet, Mismatch

LEMMA RetrievalRaisesOK ==
    ASSUME RagInv, RetrievalRaises
    PROVE  NextOK
<1>1. PICK stage \in {"retrieve", "show"}, error \in RetrievalErrors :
             Becomes(stage, Refused(request, error))
  BY DEF RetrievalRaises
<1>2. error \in Refusals \cup Escapes /\ (error = "wrong_dimension" => Mismatch)
  BY DEF RetrievalErrors, Escapes
<1>3. error = "wrong_dimension" => reconfigured
  BY <1>1, <1>2, MismatchMeansChanged DEF Becomes
<1>4. RequestOK(Refused(request, error), datasets, collection, reconfigured)
  BY <1>2, <1>3, AtHand, RefusedOK
<1> QED BY <1>1, <1>4 DEF Becomes, NextOK

LEMMA RetryOK ==
    ASSUME RagInv, Retry
    PROVE  NextOK
<1>1. /\ request.stage = "generate" /\ request.attempt < MaxAttempts
      /\ request' = [request EXCEPT !.attempt = request.attempt + 1, !.stage = "retrieve"]
  BY DEF Retry, CanRetry, Becomes
<1>2. request \in RequestType(datasets, collection)
      /\ Subject(request, datasets, collection, reconfigured)
  BY AtHand
<1>3. request.query \in Queries
  BY <1>1 DEF RagInv, RequestInv, RequestOK
<1>4. request.attempt + 1 \in Attempts
  <2>1. \E x \in {1, MaxAttempts} : \A y \in {1, MaxAttempts} : x >= y
    BY RetrievalAssumption
  <2>2. Max({1, MaxAttempts}) \in {1, MaxAttempts} /\ MaxAttempts <= Max({1, MaxAttempts})
    BY <2>1 DEF Max
  <2>3. request.attempt \in Attempts
    BY <1>2 DEF RequestType
  <2> QED BY <1>1, <2>2, <2>3, RetrievalAssumption DEF Attempts
<1> DEFINE attempt == request.attempt + 1
<1>5. attempt \in Attempts /\ request' = [request EXCEPT !.attempt = attempt, !.stage = "retrieve"]
  BY <1>1, <1>4
<1> HIDE DEF attempt
<1>6. request' \in RequestType(datasets, collection)
  BY <1>2, <1>5 DEF RequestType
<1>7. /\ request'.op = request.op /\ request'.k = request.k
      /\ request'.dataset = request.dataset /\ request'.case = request.case
      /\ request'.query = request.query /\ request'.error = request.error
      /\ request'.stage = "retrieve"
  BY <1>2, <1>5 DEF RequestType
<1>8. Subject(request', datasets, collection, reconfigured)
  BY <1>2, <1>6, <1>7 DEF Subject
<1> QED BY <1>3, <1>7, <1>8 DEF NextOK, RequestOK

LEMMA AnswerOK ==
    ASSUME RagInv, Answer
    PROVE  NextOK
<1> DEFINE Stage(error) == IF request.op = "evaluate" /\ error # P!Uncaught
                             THEN "show" ELSE "done"
<1>1. PICK error \in GenerationErrors :
             request' = [request EXCEPT !.error = error, !.stage = Stage(error)]
  BY DEF Answer, Becomes
<1>2. request \in RequestType(datasets, collection)
      /\ Subject(request, datasets, collection, reconfigured)
  BY AtHand
<1>3. request.query \in Queries
      /\ request.retrieved = Found(collection, request.query, request.k)
  BY DEF Answer, RagInv, RequestInv, RequestOK
<1>4. error \in P!ProviderErrorType \cup {P!Uncaught, None}
  BY GenerationErrorType
<1>5. error \in Errors /\ error # "wrong_dimension"
  BY <1>4, ErrorsAssumption DEF Errors, Escapes, P!ProviderErrorType, P!Retryable, P!Uncaught
<1> DEFINE stage == Stage(error)
<1>6. /\ stage \in {"show", "done"}
      /\ request' = [request EXCEPT !.error = error, !.stage = stage]
  BY <1>1
<1> HIDE DEF stage, Stage
<1>7. request' \in RequestType(datasets, collection)
  BY <1>2, <1>5, <1>6 DEF RequestType
<1>8. /\ request'.op = request.op /\ request'.k = request.k
      /\ request'.dataset = request.dataset /\ request'.case = request.case
      /\ request'.query = request.query /\ request'.error = error
      /\ request'.stage = stage /\ request'.retrieved = request.retrieved
  BY <1>2, <1>6 DEF RequestType
<1>9. Subject(request', datasets, collection, reconfigured)
  BY <1>2, <1>5, <1>7, <1>8 DEF Subject
<1> QED BY <1>3, <1>6, <1>8, <1>9 DEF NextOK, RequestOK

LEMMA ShowChunksOK ==
    ASSUME RagInv, ShowChunks
    PROVE  NextOK
<1>1. request \in RequestType(datasets, collection)
      /\ Subject(request, datasets, collection, reconfigured)
  BY AtHand
<1>2. request.query \in Queries
  BY DEF ShowChunks, Becomes, RagInv, RequestInv, RequestOK
<1> DEFINE shown == retrieve(request.query, None)
<1>3. shown \in SUBSET DOMAIN collection
  BY <1>2, FoundInStore
<1>4. request' = [request EXCEPT !.shown = shown, !.stage = "done"]
  BY DEF ShowChunks, Becomes
<1> HIDE DEF shown
<1>5. request' \in RequestType(datasets, collection)
  BY <1>1, <1>3, <1>4 DEF RequestType
<1>6. /\ request'.op = request.op /\ request'.k = request.k
      /\ request'.dataset = request.dataset /\ request'.case = request.case
      /\ request'.query = request.query /\ request'.error = request.error
      /\ request'.stage = "done"
  BY <1>1, <1>4 DEF RequestType
<1>7. Subject(request', datasets, collection, reconfigured)
  BY <1>1, <1>5, <1>6 DEF Subject
<1> QED BY <1>6, <1>7 DEF NextOK, RequestOK

\* The store and the datasets stay as they are while a request is at hand.
LEMMA StepRequest == RagInv /\ [RagNext]_rag_vars => RequestInv'
<1> SUFFICES ASSUME RagInv, [RagNext]_rag_vars PROVE RequestInv'
  OBVIOUS
<1>1. RequestOK(request, datasets, collection, reconfigured)
      /\ (request.stage # "idle" => pc = "serving")
  BY DEF RagInv, RequestInv
<1>2. \A stage, r : Becomes(stage, r) /\ NextOK => RequestInv'
  BY DEF Becomes, NextOK, RequestInv, library, vars, store
<1>3. ASSUME request' = NoRequest PROVE RequestInv'
  BY <1>3, NoRequestOK DEF RequestInv, NoRequest
<1>4. ASSUME request.stage = "idle", UNCHANGED request PROVE RequestInv'
  <2>1. request' = NoRequest
    BY <1>1, <1>4 DEF RequestOK
  <2> QED BY <1>3, <2>1
<1>5. CASE UNCHANGED rag_vars
  BY <1>1, <1>5 DEF rag_vars, vars, store, library, RequestInv
<1>6. ASSUME NEW dir \in DOMAIN Directories, EditDatasets(dir) PROVE RequestInv'
  BY <1>1, <1>6 DEF EditDatasets, vars, store, RequestInv
<1>7. CASE Deploy
  <2>1. UNCHANGED <<request, datasets, collection, pc>>
    BY <1>7 DEF Deploy, library, EditCorpus, Configure, store
  <2>2. reconfigured' = reconfigured \/ reconfigured' = TRUE
    BY <1>7 DEF Deploy
  <2>3. RequestOK(request, datasets, collection, reconfigured')
    BY <1>1, <2>2 DEF RequestOK, Subject
  <2> QED BY <1>1, <2>1, <2>3 DEF RequestInv
<1>8. CASE Start
  BY <1>1, <1>4, <1>8 DEF Start, Load
<1>9. CASE Ingest
  BY <1>1, <1>4, <1>9
     DEF Ingest, Skip, ResetCollection, AddDocuments, EmbeddingFails, WriteMarker
<1>10. CASE Stop
  BY <1>3, <1>10 DEF Stop
<1>11. CASE \E query \in Queries, k \in Ks, provider \in DOMAIN SDKOutcomes :
              Query(query, k, provider)
  BY <1>2, <1>11, QueryOK DEF Query
<1>12. CASE \E case \in Cases, provider \in Providers : EvaluateCase(case, provider)
  BY <1>2, <1>12, EvaluateOK DEF EvaluateCase
<1>13. CASE \E query \in Queries \cup {None}, k \in Ks : InspectChunks(query, k)
  BY <1>2, <1>13, InspectOK DEF InspectChunks
<1>14. CASE Retrieve
  BY <1>2, <1>14, RetrieveOK DEF Retrieve
<1>15. CASE RetrievalRaises
  BY <1>2, <1>15, RetrievalRaisesOK DEF RetrievalRaises
<1>16. CASE Retry
  BY <1>2, <1>16, RetryOK DEF Retry
<1>17. CASE Answer
  BY <1>2, <1>17, AnswerOK DEF Answer
<1>18. CASE ShowChunks
  BY <1>2, <1>18, ShowChunksOK DEF ShowChunks
<1>19. CASE Reply
  BY <1>3, <1>19 DEF Reply, Becomes
<1> QED
  BY <1>5, <1>6, <1>7, <1>8, <1>9, <1>10, <1>11, <1>12, <1>13, <1>14, <1>15, <1>16, <1>17,
     <1>18, <1>19 DEF RagNext

LEMMA RagInvariant == RagSpec => []RagInv
<1>1. RagInit => RagInv
  <2> SUFFICES ASSUME RagInit PROVE RagInv
    OBVIOUS
  <2>1. TypeInv
    BY DEF RagInit, Init, TypeInv, TypeOK, Loaded, NoChunks
  <2>2. DOMAIN collection = {} /\ pc = "down" /\ reconfigured = FALSE
    BY DEF RagInit, Init, NoChunks
  <2>3. StoreOK(collection)
    BY <2>2, FS_EmptySet DEF StoreOK
  <2>4. StoreInv
    BY <2>1, <2>2, <2>3 DEF StoreInv, EmptyWhenAdding, AsSet
  <2>5. LibraryInv
    BY <2>2 DEF RagInit, LibraryInv
  <2>6. RequestInv
    BY NoRequestOK DEF RagInit, RequestInv, NoRequest
  <2> QED BY <2>4, <2>5, <2>6 DEF RagInv
<1>2. RagInv /\ [RagNext]_rag_vars => RagInv'
  BY StepStore, StepLibrary, StepRequest DEF RagInv
<1> QED BY <1>1, <1>2, PTL DEF RagSpec

-----------------------------------------------------------------------------
(***************************************************************************)
(* Type correctness of the service: a request refers to a dataset that is  *)
(* loaded and to chunks that the collection holds, makes no more attempts  *)
(* than are allowed, and ends in an error that some code raises.           *)
(***************************************************************************)
THEOREM RagTypes == RagSpec => []RagTypeOK
<1>1. RagInv => RagTypeOK
  <2> SUFFICES ASSUME RagInv PROVE RagTypeOK
    OBVIOUS
  <2>1. request \in RequestType(datasets, collection)
    BY AtHand
  <2>2. \A id \in DOMAIN datasets : DOMAIN datasets[id] \subseteq Cases
    BY LibraryOK DEF DatasetsOK, RagInv
  <2>3. directory \in DOMAIN Directories /\ started_on \in DOMAIN Directories
        /\ reconfigured \in BOOLEAN
    BY DEF RagInv, LibraryInv, StoreInv
  <2>4. RagTypeOK <=>
          /\ \A id \in DOMAIN datasets : DOMAIN datasets[id] \subseteq Cases
          /\ directory \in DOMAIN Directories /\ started_on \in DOMAIN Directories
          /\ reconfigured \in BOOLEAN
          /\ request.op \in {"query", "evaluate", "inspect", None}
          /\ request.stage \in {"idle", "retrieve", "generate", "show", "done"}
          /\ request.provider \in Providers \cup {None}
          /\ request.dataset \in DOMAIN datasets \cup {None}
          /\ request.case \in Cases \cup {None}
          /\ request.query \in Queries \cup {None}
          /\ request.k \in Ks \cup {None}
          /\ request.attempt \in Attempts
          /\ request.retrieved \in SUBSET DOMAIN collection
          /\ request.shown \in SUBSET DOMAIN collection
          /\ request.error \in Errors /\ request.recorded \in BOOLEAN
    BY Zenon DEF RagTypeOK, Attempts, Errors
  <2> QED BY <2>1, <2>2, <2>3, <2>4 DEF RequestType
<1> QED BY <1>1, RagInvariant, PTL

(***************************************************************************)
(* load_all: whatever files a directory holds, a malformed one hides no    *)
(* valid one from the process that was started on it.                      *)
(***************************************************************************)
THEOREM EveryValidFileLoads == RagSpec => []NoFileHidesAnother
<1>1. RagInv => NoFileHidesAnother
  BY LoadedDatasets DEF RagInv, LibraryInv, NoFileHidesAnother
<1> QED BY <1>1, RagInvariant, PTL

(***************************************************************************)
(* get_dataset compares versions as numbers: for any versions, a case is   *)
(* asked from the newest, and from the last file of its id, of those that  *)
(* were there at the start.                                                *)
(***************************************************************************)
THEOREM CasesComeFromTheNewest == RagSpec => []AsksTheNewest
<1>1. RagInv => AsksTheNewest
  <2> SUFFICES ASSUME RagInv, request.dataset # None PROVE AsksTheNewest
    BY DEF AsksTheNewest
  <2>1. /\ IsNewest(request.dataset, datasets)
        /\ request.case \in DOMAIN datasets[request.dataset]
        /\ request.query = datasets[request.dataset][request.case]
        /\ request.dataset \in DOMAIN datasets
    BY AtHand DEF Subject, IsNewest
  <2>2. datasets = load_all(started_on) /\ started_on \in DOMAIN Directories
    <3>1. DOMAIN NoDatasets = {}
      BY DEF NoDatasets
    <3> QED BY <2>1, <3>1 DEF RagInv, LibraryInv
  <2>3. /\ DOMAIN datasets = {files(started_on)[i].id : i \in ValidFiles(started_on)}
        /\ \E i \in ValidFiles(started_on) :
             /\ files(started_on)[i].id = request.dataset
             /\ datasets[request.dataset] = files(started_on)[i].cases
             /\ \A j \in ValidFiles(started_on) :
                  j > i => files(started_on)[j].id # request.dataset
    BY <2>1, <2>2, LoadedDatasets
  <2>4. PICK i \in ValidFiles(started_on) :
             /\ files(started_on)[i].id = request.dataset
             /\ datasets[request.dataset] = files(started_on)[i].cases
             /\ \A j \in ValidFiles(started_on) :
                  j > i => files(started_on)[j].id # request.dataset
    BY <2>3
  <2>5. ASSUME NEW j \in ValidFiles(started_on),
               files(started_on)[j].id[1] = rag_dataset_name
        PROVE  ~Before(semver_key(request.dataset[2]),
                       semver_key(files(started_on)[j].id[2]))
    BY <2>1, <2>3, <2>5 DEF IsNewest
  <2> QED BY <2>1, <2>4, <2>5 DEF AsksTheNewest
<1> QED BY <1>1, RagInvariant, PTL

(***************************************************************************)
(* Chroma raises for the dimension of a query's vector only if the setting *)
(* was changed after the collection was filled (rag/factory.py builds the  *)
(* embeddings of both from one setting).                                   *)
(***************************************************************************)
THEOREM OnlyASettingSplitsTheVectors == RagSpec => []QueriesFitTheStore
<1>1. RagInv => QueriesFitTheStore
  BY DEF RagInv, RequestInv, RequestOK, Subject, QueriesFitTheStore
<1> QED BY <1>1, RagInvariant, PTL

(***************************************************************************)
(* What retrieve returns is what is most relevant in the corpus that the   *)
(* process was started on, for any corpus, similarity, threshold and top_k *)
(* that filter the nearest chunks; the corpus it is about is the one that  *)
(* StoreServesCorpus finds in the store.                                   *)
(***************************************************************************)
THEOREM TheBestAreRetrieved ==
    ASSUME RollbackWhenInterrupted = FALSE
    PROVE  RagSpec => []RetrievesTheBest
<1>1. RagInv /\ ServesCorpus => RetrievesTheBest
  <2> SUFFICES ASSUME RagInv, ServesCorpus, request.stage \in {"generate", "show"}
               PROVE  RetrievesTheBest
    BY DEF RetrievesTheBest
  <2> DEFINE query == request.query
             k == request.k
             D == DOMAIN collection
             score == Scores(collection, query)
             N == Nearest(collection, query, Limit(k))
             R == request.retrieved
             limit == Limit(k)
             relevant == AtLeast(D, score, RelevanceThreshold)
  <2>1. /\ query \in Queries /\ Limit(k) \in Nat /\ StoreOK(collection)
        /\ R = Found(collection, query, k) /\ Content = chunks
    BY AtHand DEF RagInv, RequestInv, RequestOK, StoreInv, ServesCorpus
  <2>2. /\ score \in [D -> Int] /\ N \in SUBSET D /\ Top(N, D, score)
        /\ Cardinality(N) = Min({Limit(k), Cardinality(D)}) /\ IsFiniteSet(D)
    BY <2>1, FoundTop DEF StoreOK
  <2>3. R = AtLeast(N, score, RelevanceThreshold)
    BY <2>1 DEF Found, AtLeast
  <2>4. /\ DOMAIN chunks = D
        /\ \A id \in D : Similarity[query][chunks[id]] = score[id]
    BY <2>1 DEF Content, Scores
  <2>5. relevant = {id \in DOMAIN chunks : Similarity[query][chunks[id]] >= RelevanceThreshold}
    BY <2>4 DEF AtLeast
  <2>6. relevant = AtLeast(D, score, RelevanceThreshold) /\ limit \in Nat
        /\ Cardinality(N) = Min({limit, Cardinality(D)}) /\ RelevanceThreshold \in Int
    BY <2>1, <2>2, RetrievalAssumption
  <2> HIDE DEF query, k, D, score, N, R, limit, relevant
  <2>7. /\ R \subseteq relevant
        /\ Cardinality(R) = Min({limit, Cardinality(relevant)})
        /\ \A x \in R, y \in relevant \ R : score[x] >= score[y]
    BY <2>2, <2>3, <2>6, BestOfTheRelevant
  <2>8. relevant \subseteq D
    BY <2>6 DEF AtLeast
  <2>9. \A id \in R, other \in relevant \ R :
           Similarity[query][chunks[id]] >= Similarity[query][chunks[other]]
    BY <2>4, <2>7, <2>8
  <2> QED BY <2>5, <2>7, <2>9 DEF RetrievesTheBest, query, k, limit, R
<1>2. RagSpec => []ServesCorpus
  BY ServiceImplementsStore, StoreServesCorpus, PTL
<1> QED BY <1>1, <1>2, RagInvariant, PTL
=============================================================================
