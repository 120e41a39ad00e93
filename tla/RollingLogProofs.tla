-------------------------- MODULE RollingLogProofs --------------------------
(***************************************************************************)
(* Theorems about RollingLog, for any writers and processes, any lines and *)
(* sizes, any retention and any bounds on what there is of each.           *)
(*                                                                         *)
(* One invariant, RInv, carries the three properties.  Its parts:          *)
(*  - no two names refer to one file, and the name that a rotation is      *)
(*    about to use is free: it carries the id of its process, whose lock   *)
(*    it holds, and of the numbers to choose from one is unused;           *)
(*  - the file a writer has open has a name that no sweep is about to      *)
(*    look at, so no line goes into a file that is being removed;          *)
(*  - a file is as new as its newest line and its lines are in the order   *)
(*    of their stamps, so a file that is due to go holds only lines that   *)
(*    are, and the first line of the active file tells its age;            *)
(*  - after a sweep no file that will be written to holds a line older     *)
(*    than a span, and those that do are what the sweep a horizon later    *)
(*    has yet to look at;                                                  *)
(*  - of the lines that a pass must return, each is returned already or    *)
(*    in a file that is still to be read, whatever it is called by now;    *)
(*    and of those in the directory, each is one that the pass must        *)
(*    return, or the fingerprint taken before it no longer is the          *)
(*    directory's.                                                         *)
(***************************************************************************)
EXTENDS RollingLog, SumFacts, SequenceTheorems, TLAPS

FileNames == {Active} \cup Archive

Pids == {PidOf[t] : t \in Threads}

\* Every variable but the reader's has its type.
FileTypes ==
  /\ now \in 0 .. MaxTime
  /\ Names \subseteq FileNames /\ dir \in [Names -> Inodes]
  /\ lines \in [Inodes -> Seq(Lines)] /\ mtime \in [Inodes -> 0 .. now]
  /\ writes \in Nat /\ fine \in [Inodes -> 0 .. writes]
  /\ DOMAIN ts \subseteq Lines /\ ts \in [DOMAIN ts -> 0 .. now]
  /\ pc \in [Threads -> {"idle", "rename", "open", "write", "prune"}]
  /\ line \in [Writers -> Lines \cup {NoLine}] /\ inode \in [Writers -> Inodes \cup {0}]
  /\ target \in [Threads -> FileNames] /\ holder \in [Pids -> Threads \cup {NoLine}]
  /\ prune \subseteq Archived
  /\ done \in [Lines -> -1 .. now] /\ swept \subseteq 0 .. now

\* No two names refer to one file.
OneName == \A m, n \in Names : dir[m] = dir[n] => m = n

\* The name a rotation is about to use is free, and will be: no other process uses it.
TargetFree ==
  \A t \in Threads : pc[t] = "rename" =>
    /\ holder[PidOf[t]] = t
    /\ target[t] \in Archive /\ target[t][2] = PidOf[t] /\ target[t] \notin Names

\* A line that is being appended was stamped in this tick, and is in no file and no other append.
Underway ==
  \A w \in Writers : pc[w] # "idle" =>
    /\ line[w] \in DOMAIN ts /\ ts[line[w]] = now
    /\ \A i \in Inodes : line[w] \notin Range(lines[i])
    /\ \A v \in Writers : v # w /\ pc[v] # "idle" => line[v] # line[w]

\* The file a writer has open has a name, which no sweep is about to look at.
Opened ==
  \A w \in Writers : pc[w] = "write" => \E n \in Names \ prune : dir[n] = inode[w]

\* A file is as new as its newest line, and its lines are in the order of their stamps.
Written ==
  \A i \in Inodes :
    /\ \A l \in Range(lines[i]) : l \in DOMAIN ts /\ done[l] <= mtime[i]
    /\ \A j, k \in DOMAIN lines[i] : j <= k => ts[lines[i][j]] <= ts[lines[i][k]]

\* File i has a line that is older than a sweep at time t lets the active file have.
Old(i, t) == \E l \in Range(lines[i]) : ts[l] < t - Span

\* What a sweep leaves: no such line in the active file, nor in one that will be written to.
Young ==
  \A t \in swept :
    /\ Active \in Names => ~Old(dir[Active], t)
    /\ \A w \in Writers : pc[w] = "write" /\ t < now => ~Old(inode[w], t)
    /\ \A n \in Names : Old(dir[n], t) => mtime[dir[n]] <= t

\* A sweep that is under way a horizon after such a sweep has yet to look at those files.
Sweeping ==
  /\ pc[Sweeper] \in {"idle", "prune", "rename"} /\ \A w \in Writers : pc[w] # "prune"
  /\ pc[Sweeper] = "rename" => prune = {}
  /\ pc[Sweeper] # "idle" =>
       \A t \in swept, n \in Names : t < now - Horizon /\ Old(dir[n], t) => n \in prune

LogInv ==
  /\ FileTypes /\ OneName /\ TargetFree /\ Underway /\ Opened /\ Written /\ LinesLast
  /\ Young /\ Sweeping /\ ExpiredGoes

\* Some file of the directory was written to in this tick, after fingerprint f was taken.
Stale(f) == \E n \in Names : fine[dir[n]] > f.newest /\ mtime[dir[n]] = now

Fields ==
  {"pc", "listed", "todo", "got", "must", "passes", "next", "fp", "held", "clean", "missed"}

ReaderTypes ==
  /\ DOMAIN reader = Fields
  /\ reader.pc \in {"idle", "stat", "list", "read"} /\ reader.clean \in BOOLEAN
  /\ reader.passes \in 0 .. Passes
  /\ reader.next.newest \in 0 .. writes /\ reader.fp.newest \in 0 .. writes

\* Where the lines are that a pass must return.
Passing ==
  reader.pc = "read" =>
    /\ reader.todo \subseteq reader.listed
    /\ Active \in reader.todo => reader.todo = reader.listed
    /\ reader.must \subseteq DOMAIN ts
    /\ \A w \in Writers : pc[w] # "idle" => line[w] \notin reader.must
    /\ Active \in Names /\ Active \notin reader.listed
         => reader.must \cap Range(lines[dir[Active]]) = {}
    /\ reader.passes < Passes =>
         \A n \in Names : \/ reader.must \cap Range(lines[dir[n]]) \subseteq reader.got
                          \/ n \in reader.todo \/ n \notin reader.listed
    /\ Stale(reader.next) \/ Content(Names) \subseteq reader.must

\* A cache lacks nothing or finds that it is stale.
Cached ==
  /\ reader.clean => Stale(reader.fp) \/ Content(Names) \subseteq reader.held
  /\ reader.missed = {}

ReaderInv == ReaderTypes /\ Passing /\ Cached

RInv == LogInv /\ ReaderInv
-----------------------------------------------------------------------------
(* The operators the module is built from.                                 *)

LEMMA Constants ==
  /\ {Horizon, Span, MaxTime} \subseteq Nat /\ Span <= Horizon
  /\ MaxFiles \in Nat /\ Passes \in Nat /\ Sweeper \in Threads /\ Writers \subseteq Threads
  /\ Sweeper \notin Writers /\ NoLine \notin Lines /\ NoLine \notin Threads
  /\ Pids = {PidOf[t] : t \in Threads} /\ \A t \in Threads : PidOf[t] \in Pids
  /\ \A w \in Writers : PidOf[w] # PidOf[Sweeper]
BY LogAssumption DEF Threads, Pids

\* The active file's name is no archive's.
LEMMA ActiveApart == Active \notin Archive
<1> SUFFICES ASSUME NEW x, NEW y, NEW z, <<>> = <<x, y, z>> PROVE FALSE
  BY DEF Active, Archive
<1>1. Len(<<>>) = 0 /\ Len(<<x, y, z>>) = 3
  OBVIOUS
<1> QED
  BY <1>1

\* What an append adds to a file.
LEMMA AppendFacts ==
  ASSUME NEW s \in Seq(Lines), NEW l \in Lines
  PROVE  /\ Append(s, l) \in Seq(Lines) /\ Range(Append(s, l)) = Range(s) \cup {l}
         /\ DOMAIN Append(s, l) = DOMAIN s \cup {Len(s) + 1}
         /\ Append(s, l)[Len(s) + 1] = l /\ DOMAIN s = 1 .. Len(s)
         /\ \A i \in DOMAIN s : Append(s, l)[i] = s[i]
<1>1. /\ DOMAIN s = 1 .. Len(s) /\ Len(s) \in Nat
      /\ DOMAIN Append(s, l) = 1 .. (Len(s) + 1) /\ Append(s, l) \in Seq(Lines)
      /\ Append(s, l)[Len(s) + 1] = l /\ \A i \in 1 .. Len(s) : Append(s, l)[i] = s[i]
  OBVIOUS
<1>2. DOMAIN Append(s, l) = DOMAIN s \cup {Len(s) + 1} /\ Len(s) + 1 \notin DOMAIN s
  BY <1>1
<1>3. Range(Append(s, l)) = Range(s) \cup {l}
  BY <1>1, <1>2 DEF Range
<1> QED
  BY <1>1, <1>2, <1>3

LEMMA NoLines == Range(<<>>) = {}
BY DEF Range

\* Max is of the set, and bounds it; so does Min, from below.
LEMMA MaxFacts ==
  ASSUME NEW S, IsFiniteSet(S), S # {}, S \subseteq Int
  PROVE  Max(S) \in S /\ \A y \in S : Max(S) >= y
BY Extremes DEF Max

LEMMA MinFacts ==
  ASSUME NEW S, IsFiniteSet(S), S # {}, S \subseteq Int
  PROVE  Min(S) \in S /\ \A y \in S : Min(S) <= y
BY Extremes DEF Min

\* What is finite of the numbers up to one of them.
LEMMA IntervalFacts ==
  ASSUME NEW b \in Nat
  PROVE  /\ IsFiniteSet(0 .. b) /\ Cardinality(0 .. b) = b + 1
         /\ IsFiniteSet(1 .. b) /\ Cardinality(1 .. b) = b
<1>1. 0 \in Int /\ 1 \in Int /\ b \in Int
  OBVIOUS
<1>2. IsFiniteSet(0 .. b) /\ Cardinality(0 .. b) = IF 0 > b THEN 0 ELSE b - 0 + 1
  BY <1>1, FS_Interval
<1>3. IsFiniteSet(1 .. b) /\ Cardinality(1 .. b) = IF 1 > b THEN 0 ELSE b - 1 + 1
  BY <1>1, FS_Interval
<1> QED
  BY <1>2, <1>3

\* What a rotation names is free: there are more names than files.
LEMMA TargetFacts ==
  ASSUME FileTypes, OneName, NEW t \in Threads
  PROVE  /\ Target(t) \in Archive /\ Target(t) \notin Names
         /\ Target(t)[2] = PidOf[t]
<1> DEFINE N == 0 .. MaxFiles
           Unused == {n \in N : Name(t, n) \notin Names}
<1>1. /\ dir \in [Names -> Inodes] /\ now \in 0 .. MaxTime
  BY DEF FileTypes
<1>m. MaxFiles \in Nat
  BY Constants
<1>2. Unused # {}
  <2>1. SUFFICES ASSUME \A n \in N : Name(t, n) \in Names PROVE FALSE
    OBVIOUS
  <2>2. IsFiniteSet(N) /\ Cardinality(N) = MaxFiles + 1
    BY <1>m, IntervalFacts
  <2>3. IsFiniteSet(Inodes) /\ Cardinality(Inodes) <= MaxFiles
    BY <1>m, IntervalFacts DEF Inodes
  <2>4. Cardinality(Inodes) < Cardinality(N)
    <3>1. Cardinality(Inodes) \in Nat
      BY <2>3, FS_CardinalityType
    <3> QED BY <2>2, <2>3, <3>1, Constants
  <2> DEFINE f == [n \in N |-> dir[Name(t, n)]]
  <2>5. f \in [N -> Inodes]
    BY <1>1, <2>1
  <2> HIDE DEF f
  <2>6. PICK x, y \in N : x # y /\ f[x] = f[y]
    BY <2>2, <2>3, <2>4, <2>5, FS_PigeonHole
  <2>7. Name(t, x) = Name(t, y)
    BY <2>1, <2>6 DEF OneName, f
  <2> QED
    BY <2>6, <2>7 DEF Name
<1>3. Unused \subseteq Int /\ IsFiniteSet(Unused)
  <2>1. IsFiniteSet(N) /\ Unused \subseteq N /\ N \subseteq Int
    BY <1>m, IntervalFacts
  <2> QED
    BY <2>1, FS_Subset
<1>4. Min(Unused) \in Unused
  BY <1>2, <1>3, MinFacts
<1>5. Target(t) = Name(t, Min(Unused))
  BY DEF Target
<1>6. Min(Unused) \in Nat /\ PidOf[t] \in Pids
  BY <1>4, Constants
<1> HIDE DEF Unused
<1>7. Target(t) = <<now, PidOf[t], Min(Unused)>>
  BY <1>5 DEF Name
<1>8. Target(t) \notin Names
  BY <1>4, <1>5 DEF Unused
<1> QED
  BY <1>1, <1>6, <1>7, <1>8 DEF Archive, Pids

\* The newest file of a fingerprint is no newer than the last write, and no
\* file of the directory is newer than the fingerprint of all of them.
LEMMA NewestFacts ==
  ASSUME FileTypes, NEW S
  PROVE  /\ Fingerprint(S).newest \in 0 .. writes
         /\ \A n \in S \cap Names : fine[dir[n]] <= Fingerprint(S).newest
<1> DEFINE F == {0} \cup {fine[dir[n]] : n \in S \cap Names}
<1>1. F \subseteq 0 .. writes /\ writes \in Nat
  BY DEF FileTypes
<1>2. IsFiniteSet(F)
  BY <1>1, IntervalFacts, FS_Subset
<1>3. Fingerprint(S).newest = Max(F)
  BY DEF Fingerprint
<1>4. Max(F) \in F /\ \A y \in F : Max(F) >= y
  <2>1. F # {} /\ F \subseteq Int
    BY <1>1
  <2> HIDE DEF F
  <2> QED
    BY <1>2, <2>1, MaxFacts
<1>5. \A n \in S \cap Names : fine[dir[n]] \in F
  OBVIOUS
<1> HIDE DEF F
<1> QED
  BY <1>1, <1>3, <1>4, <1>5

\* A stale fingerprint is not that of the directory.
LEMMA StaleDiffers ==
  ASSUME FileTypes, NEW f, f.newest \in Int, Stale(f)
  PROVE  f # Fingerprint(Names)
<1>1. PICK n \in Names : fine[dir[n]] > f.newest
  BY DEF Stale
<1>2. fine[dir[n]] <= Fingerprint(Names).newest /\ Fingerprint(Names).newest \in Int
  BY NewestFacts
<1>3. fine[dir[n]] \in Int
  BY DEF FileTypes
<1> QED
  BY <1>1, <1>2, <1>3

\* A line of the directory is in a file that has a name, now and after a step.
LEMMA ContentIs == \A l : l \in Content(Names) <=> \E n \in Names : l \in Range(lines[dir[n]])
BY DEF Content

LEMMA ContentNext ==
  \A l : l \in Content(Names)' <=> \E n \in Names' : l \in Range(lines'[dir'[n]])
BY DEF Content, Names
-----------------------------------------------------------------------------
(* What the parts of a rotation do.                                        *)

\* Judging takes the lock of a process with a name that is free, or neither.
LEMMA JudgeFacts ==
  ASSUME FileTypes, OneName, TargetFree, NEW t \in Threads, NEW due, NEW next \in {"idle", "open"},
         pc[t] # "rename", Judge(t, due, next), dir' = dir
  PROVE  /\ pc' \in [Threads -> {"idle", "rename", "open", "write", "prune"}]
         /\ target' \in [Threads -> FileNames] /\ holder' \in [Pids -> Threads \cup {NoLine}]
         /\ TargetFree'
         /\ \A u \in Threads : u # t => pc'[u] = pc[u]
         /\ pc'[t] \in {"rename", next} /\ (pc'[t] = "rename" => Active \in Names /\ due)
         /\ pc'[t] = next => ~(Active \in Names /\ due)
<1>1. /\ pc \in [Threads -> {"idle", "rename", "open", "write", "prune"}]
      /\ target \in [Threads -> FileNames] /\ holder \in [Pids -> Threads \cup {NoLine}]
  BY DEF FileTypes
<1>2. \A u \in Threads : PidOf[u] \in Pids
  BY DEF Pids
<1>3. CASE Active \in Names /\ due
  <2>1. /\ pc' = [pc EXCEPT ![t] = "rename"]
        /\ target' = [target EXCEPT ![t] = Target(t)]
        /\ holder' = [holder EXCEPT ![PidOf[t]] = t] /\ holder[PidOf[t]] = NoLine
    BY <1>3 DEF Judge
  <2>2. Target(t) \in Archive /\ Target(t) \notin Names /\ Target(t)[2] = PidOf[t]
    BY TargetFacts
  <2> DEFINE a == Target(t)
  <2> HIDE DEF a
  <2>3. a \in FileNames /\ target' = [target EXCEPT ![t] = a]
        /\ a \in Archive /\ a \notin Names /\ a[2] = PidOf[t]
    BY <2>1, <2>2 DEF FileNames, a
  <2>4. TargetFree'
    <3> SUFFICES ASSUME NEW u \in Threads, pc'[u] = "rename"
                 PROVE  /\ holder'[PidOf[u]] = u
                        /\ target'[u] \in Archive /\ target'[u][2] = PidOf[u]
                        /\ target'[u] \notin DOMAIN dir
      BY DEF TargetFree, Names
    <3>1. CASE u = t
      BY <1>1, <1>2, <2>1, <2>3, <3>1 DEF Names
    <3>2. CASE u # t
      <4>1. pc[u] = "rename" /\ target'[u] = target[u]
        BY <1>1, <2>1, <2>3, <3>2
      <4>2. /\ holder[PidOf[u]] = u
            /\ target[u] \in Archive /\ target[u][2] = PidOf[u] /\ target[u] \notin Names
        BY <4>1 DEF TargetFree
      <4>3. PidOf[u] # PidOf[t]
        BY <2>1, <4>2, Constants
      <4> QED BY <1>1, <1>2, <2>1, <4>1, <4>2, <4>3 DEF Names
    <3> QED BY <3>1, <3>2
  <2> QED BY <1>1, <1>2, <1>3, <2>1, <2>3, <2>4
<1>4. CASE ~(Active \in Names /\ due)
  <2>1. pc' = [pc EXCEPT ![t] = next] /\ target' = target /\ holder' = holder
    BY <1>4 DEF Judge
  <2>2. TargetFree'
    BY <1>1, <2>1 DEF TargetFree, Names
  <2> QED BY <1>1, <1>4, <2>1, <2>2
<1> QED BY <1>3, <1>4

\* The lock is given back.
LEMMA FreedFacts ==
  ASSUME FileTypes, TargetFree, NEW t \in Threads, NEW next \in {"idle", "open"},
         pc[t] = "rename", pc' = [pc EXCEPT ![t] = next],
         holder' = [holder EXCEPT ![PidOf[t]] = NoLine], target' = [target EXCEPT ![t] = Active]
  PROVE  /\ pc' \in [Threads -> {"idle", "rename", "open", "write", "prune"}]
         /\ target' \in [Threads -> FileNames] /\ holder' \in [Pids -> Threads \cup {NoLine}]
         /\ \A u \in Threads : u # t => pc'[u] = pc[u]
         /\ pc'[t] = next
         /\ \A u \in Threads : pc'[u] = "rename" =>
              /\ u # t /\ pc[u] = "rename" /\ target'[u] = target[u]
              /\ holder'[PidOf[u]] = u /\ PidOf[u] # PidOf[t]
<1>1. /\ pc \in [Threads -> {"idle", "rename", "open", "write", "prune"}]
      /\ target \in [Threads -> FileNames] /\ holder \in [Pids -> Threads \cup {NoLine}]
  BY DEF FileTypes
<1>2. \A u \in Threads : PidOf[u] \in Pids
  BY DEF Pids
<1>3. ASSUME NEW u \in Threads, pc'[u] = "rename"
      PROVE  /\ u # t /\ pc[u] = "rename" /\ target'[u] = target[u]
             /\ holder'[PidOf[u]] = u /\ PidOf[u] # PidOf[t]
  <2>1. u # t /\ pc[u] = "rename"
    BY <1>1, <1>3
  <2>2. holder[PidOf[u]] = u /\ holder[PidOf[t]] = t
    BY <2>1 DEF TargetFree
  <2>3. PidOf[u] # PidOf[t]
    BY <2>1, <2>2
  <2> QED BY <1>1, <1>2, <2>1, <2>2, <2>3
<1>4. Active \in FileNames
  BY DEF FileNames
<1> QED BY <1>1, <1>2, <1>3, <1>4

\* The active file gets the name that was chosen, if it is still there.
LEMMA RenameFacts ==
  ASSUME FileTypes, OneName, TargetFree, NEW t \in Threads, NEW next \in {"idle", "open"},
         Rename(t, next)
  PROVE  /\ pc' \in [Threads -> {"idle", "rename", "open", "write", "prune"}]
         /\ target' \in [Threads -> FileNames] /\ holder' \in [Pids -> Threads \cup {NoLine}]
         /\ \A u \in Threads : u # t => pc'[u] = pc[u]
         /\ pc'[t] = next
         /\ Names' \subseteq FileNames /\ dir' \in [Names' -> Inodes] /\ Active \notin Names'
         /\ OneName' /\ TargetFree'
         /\ target[t] \notin Names /\ target[t] # Active
         /\ Active \in Names => target[t] \in Names' /\ dir'[target[t]] = dir[Active]
         /\ \A n \in Names : n # Active => n \in Names' /\ dir'[n] = dir[n]
         /\ \A n \in Names' : \/ n \in Names /\ n # Active /\ dir'[n] = dir[n]
                              \/ n = target[t] /\ Active \in Names /\ dir'[n] = dir[Active]
<1> DEFINE a == target[t]
<1>1. /\ Names \subseteq FileNames /\ dir \in [Names -> Inodes]
      /\ a \in Archive /\ a \notin Names /\ a[2] = PidOf[t] /\ a # Active
  BY ActiveApart DEF FileTypes, TargetFree, Rename
<1>2. /\ pc' \in [Threads -> {"idle", "rename", "open", "write", "prune"}]
      /\ target' \in [Threads -> FileNames] /\ holder' \in [Pids -> Threads \cup {NoLine}]
      /\ \A u \in Threads : u # t => pc'[u] = pc[u]
      /\ pc'[t] = next
      /\ \A u \in Threads : pc'[u] = "rename" =>
           /\ u # t /\ pc[u] = "rename" /\ target'[u] = target[u]
           /\ holder'[PidOf[u]] = u /\ PidOf[u] # PidOf[t]
  BY FreedFacts DEF Rename
<1> HIDE DEF a
<1>3. CASE Active \in Names
  <2>1. dir' = [n \in (Names \ {Active}) \cup {a} |-> IF n = a THEN dir[Active] ELSE dir[n]]
    BY <1>3 DEF Rename, a
  <2>2. Names' = (Names \ {Active}) \cup {a}
    BY <2>1 DEF Names
  <2>3. dir'[a] = dir[Active] /\ \A n \in Names : n # Active => n \in Names' /\ dir'[n] = dir[n]
    BY <1>1, <2>1, <2>2
  <2>4. Names' \subseteq FileNames /\ dir' \in [Names' -> Inodes] /\ Active \notin Names'
    BY <1>1, <1>3, <2>1, <2>2 DEF FileNames
  <2>5. \A n \in Names' : \/ n \in Names /\ n # Active /\ dir'[n] = dir[n]
                          \/ n = a /\ dir'[n] = dir[Active]
    BY <2>2, <2>3
  <2>6. OneName'
    <3> SUFFICES ASSUME NEW m \in Names', NEW n \in Names', dir'[m] = dir'[n] PROVE m = n
      BY DEF OneName
    <3> QED BY <1>3, <2>5 DEF OneName
  <2>7. ASSUME NEW u \in Threads, pc'[u] = "rename"
        PROVE  /\ holder'[PidOf[u]] = u
               /\ target'[u] \in Archive /\ target'[u][2] = PidOf[u] /\ target'[u] \notin Names'
    <3>1. /\ target[u] \in Archive /\ target[u][2] = PidOf[u] /\ target[u] \notin Names
          /\ target'[u] = target[u] /\ PidOf[u] # PidOf[t] /\ holder'[PidOf[u]] = u
      BY <1>2, <2>7 DEF TargetFree
    <3> QED BY <1>1, <2>2, <3>1
  <2>8. TargetFree'
    BY <2>7 DEF TargetFree
  <2> QED BY <1>1, <1>2, <1>3, <2>2, <2>3, <2>4, <2>5, <2>6, <2>8 DEF a
<1>4. CASE Active \notin Names
  <2>1. dir' = dir /\ Names' = Names
    BY <1>4 DEF Rename, Names
  <2>2. OneName'
    BY <2>1 DEF OneName
  <2>3. ASSUME NEW u \in Threads, pc'[u] = "rename"
        PROVE  /\ holder'[PidOf[u]] = u
               /\ target'[u] \in Archive /\ target'[u][2] = PidOf[u] /\ target'[u] \notin Names'
    <3>1. /\ target[u] \in Archive /\ target[u][2] = PidOf[u] /\ target[u] \notin Names
          /\ target'[u] = target[u] /\ holder'[PidOf[u]] = u
      BY <1>2, <2>3 DEF TargetFree
    <3> QED BY <2>1, <3>1
  <2>4. TargetFree'
    BY <2>3 DEF TargetFree
  <2> QED BY <1>1, <1>2, <1>4, <2>1, <2>2, <2>4 DEF a
<1> QED BY <1>3, <1>4
-----------------------------------------------------------------------------
(* The steps of the log, one by one.                                       *)

\* A line that is in a file was stamped before it came there.
LEMMA LinesStamped ==
  ASSUME FileTypes, Written
  PROVE  /\ \A n \in Names : dir[n] \in Inodes
         /\ \A i \in Inodes : Range(lines[i]) \subseteq DOMAIN ts
         /\ \A i \in Inodes : \A j \in DOMAIN lines[i] : lines[i][j] \in Range(lines[i])
         /\ \A l \in DOMAIN ts : ts[l] \in 0 .. now
         /\ now \in Nat
BY Constants DEF FileTypes, Written, Range

\* Nothing that a reader does concerns the log.
LEMMA LogRests == LogInv /\ UNCHANGED <<now, files, ts, steps, done, swept>> => LogInv'
<1> SUFFICES ASSUME LogInv, UNCHANGED <<now, files, ts, steps, done, swept>> PROVE LogInv'
  OBVIOUS
<1>1. /\ now' = now /\ dir' = dir /\ lines' = lines /\ mtime' = mtime /\ writes' = writes
      /\ fine' = fine /\ ts' = ts /\ pc' = pc /\ line' = line /\ inode' = inode
      /\ target' = target /\ holder' = holder /\ prune' = prune /\ done' = done /\ swept' = swept
  BY DEF files, steps
<1>2. FileTypes' /\ OneName' /\ TargetFree' /\ Underway' /\ Opened' /\ Written'
  BY <1>1 DEF LogInv, FileTypes, OneName, TargetFree, Underway, Opened, Written, Names, Archived
<1>3. LinesLast' /\ Young' /\ Sweeping' /\ ExpiredGoes'
  BY <1>1 DEF LogInv, LinesLast, Young, Old, Sweeping, ExpiredGoes, Content, Names
<1> QED BY <1>2, <1>3 DEF LogInv

LEMMA LogAppends ==
  ASSUME LogInv, NEW w \in Writers, NEW l \in Lines, Append1(w, l)
  PROVE  LogInv'
<1>1. /\ FileTypes /\ OneName /\ TargetFree /\ Underway /\ Opened /\ Written /\ LinesLast
      /\ Young /\ Sweeping /\ ExpiredGoes
  BY DEF LogInv
<1>2. /\ pc[w] = "idle" /\ l \notin DOMAIN ts
      /\ ts' = [k \in DOMAIN ts \cup {l} |-> IF k = l THEN now ELSE ts[k]]
      /\ line' = [line EXCEPT ![w] = l] /\ Judge(w, Large, "open")
      /\ now' = now /\ dir' = dir /\ lines' = lines /\ mtime' = mtime /\ writes' = writes
      /\ fine' = fine /\ inode' = inode /\ prune' = prune /\ done' = done /\ swept' = swept
      /\ Names' = Names
  BY DEF Append1, files, Names
<1>3. w \in Threads /\ w # Sweeper /\ Sweeper \in Threads /\ Writers \subseteq Threads
  BY Constants
<1>4. /\ pc' \in [Threads -> {"idle", "rename", "open", "write", "prune"}]
      /\ target' \in [Threads -> FileNames] /\ holder' \in [Pids -> Threads \cup {NoLine}]
      /\ TargetFree'
      /\ \A u \in Threads : u # w => pc'[u] = pc[u]
      /\ pc'[w] \in {"rename", "open"}
  BY <1>1, <1>2, <1>3, JudgeFacts
<1>5. /\ \A k \in DOMAIN ts : k \in DOMAIN ts' /\ ts'[k] = ts[k]
      /\ l \in DOMAIN ts' /\ ts'[l] = now /\ DOMAIN ts' = DOMAIN ts \cup {l}
  BY <1>2
<1>6. /\ \A n \in Names : dir[n] \in Inodes
      /\ \A i \in Inodes : Range(lines[i]) \subseteq DOMAIN ts
      /\ \A i \in Inodes : \A j \in DOMAIN lines[i] : lines[i][j] \in Range(lines[i])
      /\ \A k \in DOMAIN ts : ts[k] \in 0 .. now
      /\ now \in Nat
  BY <1>1, LinesStamped
<1>7. FileTypes'
  <2>1. DOMAIN ts' \subseteq Lines /\ ts' \in [DOMAIN ts' -> 0 .. now]
    BY <1>1, <1>2, <1>5, <1>6 DEF FileTypes
  <2>2. line' \in [Writers -> Lines \cup {NoLine}]
    BY <1>1, <1>2 DEF FileTypes
  <2> QED BY <1>1, <1>2, <1>4, <2>1, <2>2 DEF FileTypes, Archived
<1>8. OneName'
  BY <1>1, <1>2 DEF OneName
<1>9. Underway'
  <2>1. /\ line'[w] = l /\ \A v \in Writers : v # w => line'[v] = line[v]
    BY <1>1, <1>2 DEF FileTypes
  <2>2. \A v \in Writers : v # w /\ pc'[v] # "idle" =>
          /\ line'[v] = line[v] /\ line[v] \in DOMAIN ts /\ ts[line[v]] = now
          /\ \A i \in Inodes : line[v] \notin Range(lines[i])
          /\ \A x \in Writers : x # v /\ pc[x] # "idle" => line[x] # line[v]
    BY <1>1, <1>3, <1>4, <2>1 DEF Underway
  <2>3. \A i \in Inodes : l \notin Range(lines[i])
    BY <1>2, <1>6
  <2>4. ASSUME NEW u \in Writers, pc'[u] # "idle"
        PROVE  /\ line'[u] \in DOMAIN ts' /\ ts'[line'[u]] = now
               /\ \A i \in Inodes : line'[u] \notin Range(lines[i])
               /\ \A v \in Writers : v # u /\ pc'[v] # "idle" => line'[v] # line'[u]
    <3>1. CASE u = w
      BY <1>2, <1>5, <2>1, <2>2, <2>3, <3>1
    <3>2. CASE u # w
      <4>1. \A v \in Writers : v # u /\ pc'[v] # "idle" => line'[v] # line'[u]
        <5> SUFFICES ASSUME NEW v \in Writers, v # u, pc'[v] # "idle" PROVE line'[v] # line'[u]
          OBVIOUS
        <5>1. CASE v = w
          BY <1>2, <2>1, <2>2, <2>4, <3>2, <5>1
        <5>2. CASE v # w
          BY <1>3, <1>4, <2>2, <2>4, <3>2, <5>2
        <5> QED BY <5>1, <5>2
      <4> QED BY <1>5, <2>2, <2>4, <3>2, <4>1
    <3> QED BY <3>1, <3>2
  <2> QED BY <1>2, <2>4 DEF Underway
<1>10. Opened'
  BY <1>1, <1>2, <1>3, <1>4 DEF Opened
<1>11. Written'
  <2>1. ASSUME NEW i \in Inodes PROVE \A k \in Range(lines[i]) : k \in DOMAIN ts' /\ done[k] <= mtime[i]
    BY <1>1, <1>5 DEF Written
  <2>2. ASSUME NEW i \in Inodes, NEW j \in DOMAIN lines[i], NEW k \in DOMAIN lines[i], j <= k
        PROVE  ts'[lines[i][j]] <= ts'[lines[i][k]]
    <3>1. ts[lines[i][j]] <= ts[lines[i][k]]
      BY <1>1, <2>2 DEF Written
    <3>2. lines[i][j] \in DOMAIN ts /\ lines[i][k] \in DOMAIN ts
      BY <1>6
    <3> QED BY <1>5, <3>1, <3>2
  <2> QED BY <1>2, <2>1, <2>2 DEF Written
<1>12. LinesLast'
  BY <1>1, <1>2 DEF LinesLast, Content, Names
<1>13. \A i \in Inodes : \A u : Old(i, u)' <=> Old(i, u)
  BY <1>2, <1>5, <1>6 DEF Old
<1>14. \A n \in Names : \A u : Old(dir[n], u)' <=> Old(dir[n], u)
  BY <1>2, <1>6, <1>13 DEF Old
<1>15. Young'
  <2> SUFFICES ASSUME NEW u \in swept
               PROVE  /\ Active \in Names => ~Old(dir[Active], u)'
                      /\ \A v \in Writers : pc'[v] = "write" /\ u < now => ~Old(inode[v], u)'
                      /\ \A n \in Names : Old(dir[n], u)' => mtime[dir[n]] <= u
    BY <1>2 DEF Young, Old
  <2>1. \A v \in Writers : pc'[v] = "write" => pc[v] = "write" /\ inode[v] \in Inodes
    BY <1>1, <1>3, <1>4, <1>6 DEF Opened
  <2>2. \A v \in Writers : pc'[v] = "write" => (Old(inode[v], u)' <=> Old(inode[v], u))
    BY <1>2, <1>13, <2>1 DEF Old
  <2> QED BY <1>1, <1>14, <2>1, <2>2 DEF Young
<1>16. Sweeping'
  <2>1. \A v \in Writers : pc'[v] # "prune"
    BY <1>1, <1>3, <1>4 DEF Sweeping
  <2>2. pc'[Sweeper] = pc[Sweeper]
    BY <1>3, <1>4
  <2>3. \A u \in swept, n \in Names :
          pc'[Sweeper] # "idle" /\ u < now - Horizon /\ Old(dir[n], u)' => n \in prune
    BY <1>1, <1>14, <2>2 DEF Sweeping
  <2> QED BY <1>1, <1>2, <2>1, <2>2, <2>3 DEF Sweeping, Old
<1>17. ExpiredGoes'
  <2> SUFFICES ASSUME NEW k \in Content(Names)', NEW t1 \in swept, NEW t2 \in swept
               PROVE  ~(ts'[k] < t1 - Span /\ t1 < t2 - Horizon)
    BY <1>2 DEF ExpiredGoes
  <2>1. k \in Content(Names)
    BY <1>2 DEF Content
  <2>2. k \in DOMAIN ts
    BY <1>6, <2>1, ContentIs
  <2> QED BY <1>1, <1>5, <2>1, <2>2 DEF ExpiredGoes
<1> QED BY <1>4, <1>7, <1>8, <1>9, <1>10, <1>11, <1>12, <1>15, <1>16, <1>17 DEF LogInv

LEMMA LogRenames ==
  ASSUME LogInv, NEW t \in Threads, NEW next \in {"idle", "open"}, Rename(t, next), done' = done,
         \/ t \in Writers /\ next = "open" /\ swept' = swept
         \/ t = Sweeper /\ next = "idle" /\ swept' = swept \cup {now}
  PROVE  LogInv'
<1>1. /\ FileTypes /\ OneName /\ TargetFree /\ Underway /\ Opened /\ Written /\ LinesLast
      /\ Young /\ Sweeping /\ ExpiredGoes
  BY DEF LogInv
<1>2. /\ pc[t] = "rename"
      /\ now' = now /\ lines' = lines /\ mtime' = mtime /\ writes' = writes /\ fine' = fine
      /\ ts' = ts /\ line' = line /\ inode' = inode /\ prune' = prune
  BY DEF Rename
<1>3. /\ pc' \in [Threads -> {"idle", "rename", "open", "write", "prune"}]
      /\ target' \in [Threads -> FileNames] /\ holder' \in [Pids -> Threads \cup {NoLine}]
      /\ \A u \in Threads : u # t => pc'[u] = pc[u]
      /\ pc'[t] = next
      /\ Names' \subseteq FileNames /\ dir' \in [Names' -> Inodes] /\ Active \notin Names'
      /\ OneName' /\ TargetFree'
      /\ target[t] \notin Names /\ target[t] # Active
      /\ Active \in Names => target[t] \in Names' /\ dir'[target[t]] = dir[Active]
      /\ \A n \in Names : n # Active => n \in Names' /\ dir'[n] = dir[n]
      /\ \A n \in Names' : \/ n \in Names /\ n # Active /\ dir'[n] = dir[n]
                           \/ n = target[t] /\ Active \in Names /\ dir'[n] = dir[Active]
  BY <1>1, RenameFacts
<1>4. Sweeper \in Threads /\ Writers \subseteq Threads /\ Sweeper \notin Writers
  BY Constants
<1>5. /\ \A n \in Names : dir[n] \in Inodes
      /\ now \in Nat /\ prune \subseteq Names /\ Active \notin prune /\ swept \subseteq 0 .. now
      /\ \A i \in Inodes : mtime[i] \in 0 .. now
  BY <1>1, LinesStamped DEF FileTypes, Archived
<1>5a. swept' \subseteq 0 .. now /\ swept' \subseteq swept \cup {now}
  <2>1. now \in 0 .. now
    BY <1>5
  <2> QED BY <1>5, <2>1
\* A file keeps a name, and only the active one gets another.
<1>6. \A n \in Names : \E m \in Names' : dir'[m] = dir[n] /\ (n \notin prune => m \notin prune)
  <2> SUFFICES ASSUME NEW n \in Names
               PROVE  \E m \in Names' : dir'[m] = dir[n] /\ (n \notin prune => m \notin prune)
    OBVIOUS
  <2>1. CASE n = Active
    BY <1>3, <1>5, <2>1
  <2>2. CASE n # Active
    BY <1>3, <2>2
  <2> QED BY <2>1, <2>2
<1>7. \A m \in Names' : \E n \in Names : dir[n] = dir'[m] /\ (n = Active \/ n = m)
  BY <1>3
<1>8. FileTypes'
  <2>1. prune \subseteq Names' \ {Active}
    BY <1>3, <1>5
  <2> QED BY <1>1, <1>2, <1>3, <1>5a, <2>1 DEF FileTypes, Archived, Names
<1>9. \A v \in Writers : /\ pc'[v] # "idle" => pc[v] # "idle"
                         /\ pc'[v] = "write" => pc[v] = "write" /\ pc'[v] # "prune"
                         /\ pc'[v] # "prune"
  <2>1. \A v \in Writers : v # t => pc'[v] = pc[v] /\ pc[v] # "prune"
    BY <1>1, <1>3, <1>4 DEF Sweeping
  <2> QED BY <1>2, <1>3, <1>4, <2>1
<1>10. Underway'
  BY <1>1, <1>2, <1>9 DEF Underway
<1>11. Opened'
  <2> SUFFICES ASSUME NEW v \in Writers, pc'[v] = "write"
               PROVE  \E m \in Names' : m \notin prune /\ dir'[m] = inode[v]
    BY <1>2 DEF Opened, Names
  <2>1. PICK n \in Names : n \notin prune /\ dir[n] = inode[v]
    BY <1>1, <1>9 DEF Opened
  <2> QED BY <1>6, <2>1
<1>12. Written'
  BY <1>1, <1>2 DEF Written
<1>13. \A l : l \in Content(Names)' <=> l \in Content(Names)
  <2>1. \A l : l \in Content(Names)' <=> \E m \in Names' : l \in Range(lines[dir'[m]])
    BY <1>2, ContentNext
  <2> QED BY <1>6, <1>7, <2>1, ContentIs
<1>14. LinesLast'
  BY <1>1, <1>2, <1>13 DEF LinesLast
<1>15. \A m \in Names' : \E n \in Names : /\ n = Active \/ n = m
                                          /\ dir'[m] = dir[n]
                                          /\ \A u : Old(dir[m], u)' <=> Old(dir[n], u)
  BY <1>2, <1>7 DEF Old
<1>16. \A u \in swept : Active \in Names => ~Old(dir[Active], u)
  BY <1>1 DEF Young
<1>17. Young'
  <2> SUFFICES ASSUME NEW u \in swept'
               PROVE  /\ \A v \in Writers : pc'[v] = "write" /\ u < now => ~Old(inode[v], u)'
                      /\ \A m \in Names' : Old(dir[m], u)' => mtime[dir'[m]] <= u
    BY <1>2, <1>3 DEF Young, Old, Names
  <2>1. u = now \/ u \in swept
    OBVIOUS
  <2>2. ASSUME NEW v \in Writers, pc'[v] = "write", u < now PROVE ~Old(inode[v], u)'
    <3>1. u \in swept
      BY <1>5, <2>1, <2>2
    <3>2. ~Old(inode[v], u)
      BY <1>1, <1>9, <2>2, <3>1 DEF Young
    <3> QED BY <1>2, <3>2 DEF Old
  <2>3. ASSUME NEW m \in Names', Old(dir[m], u)' PROVE mtime[dir'[m]] <= u
    <3>1. PICK n \in Names : dir'[m] = dir[n] /\ Old(dir[n], u)
      BY <1>15, <2>3
    <3>2. mtime[dir[n]] \in 0 .. now
      BY <1>5
    <3>3. CASE u \in swept
      BY <1>1, <3>1, <3>3 DEF Young
    <3>4. CASE u = now
      BY <3>1, <3>2, <3>4
    <3> QED BY <2>1, <3>3, <3>4
  <2> QED BY <2>2, <2>3
\* What an earlier sweep found old is an archive.
<1>18. \A u \in swept, m \in Names' : Old(dir[m], u)' => m \in Names /\ Old(dir[m], u)
  BY <1>15, <1>16
<1>19. Sweeping'
  <2>1. CASE t \in Writers /\ swept' = swept
    <3>1. pc'[Sweeper] = pc[Sweeper]
      BY <1>3, <1>4, <2>1
    <3>2. \A u \in swept, m \in Names' :
            pc'[Sweeper] # "idle" /\ u < now - Horizon /\ Old(dir[m], u)' => m \in prune
      BY <1>1, <1>18, <3>1 DEF Sweeping
    <3>3. /\ pc'[Sweeper] \in {"idle", "prune", "rename"}
          /\ pc'[Sweeper] = "rename" => prune = {}
      BY <1>1, <3>1 DEF Sweeping
    <3> QED BY <1>2, <1>9, <2>1, <3>2, <3>3 DEF Sweeping, Old, Names
  <2>2. CASE t = Sweeper /\ next = "idle"
    BY <1>2, <1>3, <1>9, <2>2 DEF Sweeping
  <2> QED BY <1>4, <2>1, <2>2
<1>20. ExpiredGoes'
  <2> SUFFICES ASSUME NEW l \in Content(Names)', NEW t1 \in swept', NEW t2 \in swept',
                      ts[l] < t1 - Span, t1 < t2 - Horizon
               PROVE  FALSE
    BY <1>2 DEF ExpiredGoes
  <2>1. Horizon \in Nat /\ t1 \in 0 .. now /\ t2 \in 0 .. now
    BY <1>5a, Constants
  <2>2. t1 \in swept
    BY <1>5, <2>1
  <2>3. CASE t2 \in swept
    BY <1>1, <1>13, <2>2, <2>3 DEF ExpiredGoes
  <2>4. CASE t2 = now /\ t = Sweeper
    <3>1. PICK n \in Names : l \in Range(lines[dir[n]])
      BY <1>13, ContentIs
    <3>2. Old(dir[n], t1)
      BY <3>1 DEF Old
    <3>3. n \in prune
      BY <1>1, <1>2, <2>2, <2>4, <3>2 DEF Sweeping
    <3> QED BY <1>1, <1>2, <2>4, <3>3 DEF Sweeping
  <2> QED BY <2>3, <2>4
<1> QED BY <1>3, <1>8, <1>10, <1>11, <1>12, <1>14, <1>17, <1>19, <1>20 DEF LogInv

\* Opening finds the active file, or creates one that is empty and that nobody else has open.
LEMMA OpenFacts ==
  ASSUME LogInv, NEW w \in Writers, Open(w)
  PROVE  \E b \in Inodes :
           /\ inode' = [inode EXCEPT ![w] = b] /\ pc' = [pc EXCEPT ![w] = "write"]
           /\ Names' = Names \cup {Active} /\ dir' \in [Names' -> Inodes] /\ dir'[Active] = b
           /\ \A n \in Names : n # Active => dir'[n] = dir[n] /\ dir[n] # b
           /\ lines' = lines /\ writes' \in Nat /\ fine' \in [Inodes -> 0 .. writes']
           /\ mtime' \in [Inodes -> 0 .. now]
           /\ \A i \in Inodes : i # b => mtime'[i] = mtime[i] /\ fine'[i] = fine[i]
           /\ mtime'[b] \in {mtime[b], now}
           /\ \/ Active \in Names /\ dir' = dir /\ writes' = writes /\ fine' = fine
              \/ /\ lines[b] = <<>> /\ Active \notin Names
                 /\ mtime'[b] = now /\ writes' = writes + 1 /\ fine'[b] = writes + 1
<1>1. /\ Names \subseteq FileNames /\ dir \in [Names -> Inodes] /\ writes \in Nat
      /\ mtime \in [Inodes -> 0 .. now] /\ fine \in [Inodes -> 0 .. writes] /\ now \in Nat
  BY LinesStamped DEF LogInv, FileTypes
<1>2. pc' = [pc EXCEPT ![w] = "write"]
  BY DEF Open
<1>3. CASE Active \in Names
  <2>1. /\ inode' = [inode EXCEPT ![w] = dir[Active]]
        /\ dir' = dir /\ lines' = lines /\ mtime' = mtime /\ writes' = writes /\ fine' = fine
    BY <1>3 DEF Open, files
  <2>2. \A n \in Names : n # Active => dir[n] # dir[Active]
    BY <1>3 DEF LogInv, OneName
  <2>3. dir[Active] \in Inodes /\ Names' = Names \cup {Active}
    BY <1>1, <1>3, <2>1 DEF Names
  <2> QED BY <1>1, <1>2, <1>3, <2>1, <2>2, <2>3
<1>4. CASE Active \notin Names
  <2> DEFINE b == Min(Free)
  <2>1. /\ Free # {} /\ inode' = [inode EXCEPT ![w] = b]
        /\ dir' = [n \in Names \cup {Active} |-> IF n = Active THEN b ELSE dir[n]]
        /\ mtime' = [mtime EXCEPT ![b] = now]
        /\ writes' = writes + 1 /\ fine' = [fine EXCEPT ![b] = writes + 1] /\ lines' = lines
    BY <1>4 DEF Open
  <2>2. b \in Free
    <3>1. MaxFiles \in Nat /\ Free \subseteq 1 .. MaxFiles
      BY Constants DEF Free, Inodes
    <3>2. IsFiniteSet(Free) /\ Free \subseteq Int
      <4>1. IsFiniteSet(1 .. MaxFiles) /\ 1 .. MaxFiles \subseteq Int
        BY <3>1, IntervalFacts
      <4> QED BY <3>1, <4>1, FS_Subset
    <3> QED BY <2>1, <3>2, MinFacts
  <2>3. b \in Inodes /\ lines[b] = <<>> /\ \A n \in Names : dir[n] # b
    BY <2>2 DEF Free
  <2> HIDE DEF b
  <2>4. Names' = Names \cup {Active} /\ dir' \in [Names' -> Inodes] /\ dir'[Active] = b
    BY <1>1, <2>1, <2>3 DEF Names
  <2>5. \A n \in Names : n # Active => dir'[n] = dir[n] /\ dir[n] # b
    BY <2>1, <2>3
  <2>6. /\ writes' \in Nat /\ fine' \in [Inodes -> 0 .. writes'] /\ mtime' \in [Inodes -> 0 .. now]
        /\ mtime'[b] = now /\ fine'[b] = writes + 1
        /\ \A i \in Inodes : i # b => mtime'[i] = mtime[i] /\ fine'[i] = fine[i]
    BY <1>1, <2>1, <2>3
  <2> QED BY <1>2, <1>4, <2>1, <2>3, <2>4, <2>5, <2>6
<1> QED BY <1>3, <1>4

LEMMA LogOpens ==
  ASSUME LogInv, NEW w \in Writers, Open(w)
  PROVE  LogInv'
<1>1. /\ FileTypes /\ OneName /\ TargetFree /\ Underway /\ Opened /\ Written /\ LinesLast
      /\ Young /\ Sweeping /\ ExpiredGoes
  BY DEF LogInv
<1>2. /\ pc[w] = "open"
      /\ now' = now /\ ts' = ts /\ line' = line /\ target' = target /\ holder' = holder
      /\ prune' = prune /\ done' = done /\ swept' = swept
  BY DEF Open
<1>3. PICK b \in Inodes :
           /\ inode' = [inode EXCEPT ![w] = b] /\ pc' = [pc EXCEPT ![w] = "write"]
           /\ Names' = Names \cup {Active} /\ dir' \in [Names' -> Inodes] /\ dir'[Active] = b
           /\ \A n \in Names : n # Active => dir'[n] = dir[n] /\ dir[n] # b
           /\ lines' = lines /\ writes' \in Nat /\ fine' \in [Inodes -> 0 .. writes']
           /\ mtime' \in [Inodes -> 0 .. now]
           /\ \A i \in Inodes : i # b => mtime'[i] = mtime[i] /\ fine'[i] = fine[i]
           /\ mtime'[b] \in {mtime[b], now}
           /\ \/ Active \in Names /\ dir' = dir /\ writes' = writes /\ fine' = fine
              \/ /\ lines[b] = <<>> /\ Active \notin Names
                 /\ mtime'[b] = now /\ writes' = writes + 1 /\ fine'[b] = writes + 1
  BY OpenFacts
<1>4. w \in Threads /\ Sweeper \in Threads /\ Writers \subseteq Threads /\ Sweeper \notin Writers
  BY Constants
<1>5. /\ \A n \in Names : dir[n] \in Inodes
      /\ now \in Nat /\ prune \subseteq Names /\ Active \notin prune /\ swept \subseteq 0 .. now
      /\ \A i \in Inodes : mtime[i] \in 0 .. now /\ Range(lines[i]) \subseteq DOMAIN ts
      /\ \A l \in Lines : done[l] \in -1 .. now
      /\ DOMAIN ts \subseteq Lines
  BY <1>1, LinesStamped DEF FileTypes, Archived
<1>6. /\ pc' \in [Threads -> {"idle", "rename", "open", "write", "prune"}]
      /\ inode' \in [Writers -> Inodes \cup {0}]
      /\ inode'[w] = b /\ pc'[w] = "write"
      /\ \A u \in Threads : u # w => pc'[u] = pc[u]
      /\ \A v \in Writers : v # w => inode'[v] = inode[v]
  BY <1>1, <1>3, <1>4 DEF FileTypes
<1>7. Active \in Names => dir[Active] = b /\ dir' = dir
  BY <1>3
<1>7a. Names' = Names \cup {Active}
  BY <1>3
<1>7b. \A i \in Inodes : mtime'[i] = mtime[i] \/ mtime'[i] = now
  BY <1>3
<1>8. FileTypes'
  <2>1. Names' \subseteq FileNames /\ prune \subseteq Names' \ {Active}
    BY <1>1, <1>3, <1>5 DEF FileTypes, FileNames
  <2> QED BY <1>1, <1>2, <1>3, <1>6, <2>1 DEF FileTypes, Archived, Names
<1>9. OneName'
  <2> SUFFICES ASSUME NEW m \in Names', NEW n \in Names', dir'[m] = dir'[n] PROVE m = n
    BY DEF OneName
  <2>1. m = Active \/ (m \in Names /\ m # Active)
    BY <1>7a
  <2>2. n = Active \/ (n \in Names /\ n # Active)
    BY <1>7a
  <2> QED BY <1>1, <1>3, <2>1, <2>2 DEF OneName
<1>10. TargetFree'
  <2> SUFFICES ASSUME NEW u \in Threads, pc'[u] = "rename"
               PROVE  /\ holder[PidOf[u]] = u
                      /\ target[u] \in Archive /\ target[u][2] = PidOf[u] /\ target[u] \notin Names'
    BY <1>2 DEF TargetFree
  <2>1. /\ holder[PidOf[u]] = u
        /\ target[u] \in Archive /\ target[u][2] = PidOf[u] /\ target[u] \notin Names
    BY <1>1, <1>6 DEF TargetFree
  <2> QED BY <1>3, <2>1, ActiveApart
<1>11. Underway'
  <2>1. \A v \in Writers : pc'[v] # "idle" => pc[v] # "idle"
    BY <1>2, <1>4, <1>6
  <2> QED BY <1>1, <1>2, <1>3, <2>1 DEF Underway
<1>12. Opened'
  <2> SUFFICES ASSUME NEW v \in Writers, pc'[v] = "write"
               PROVE  \E m \in Names' : m \notin prune /\ dir'[m] = inode'[v]
    BY <1>2 DEF Opened
  <2>1. CASE v = w
    BY <1>3, <1>5, <1>6, <2>1
  <2>2. CASE v # w
    <3>1. PICK n \in Names : n \notin prune /\ dir[n] = inode[v]
      BY <1>1, <1>4, <1>6, <2>2 DEF Opened
    <3>2. n \in Names' /\ dir'[n] = dir[n]
      BY <1>3, <3>1
    <3> QED BY <1>6, <2>2, <3>1, <3>2
  <2> QED BY <2>1, <2>2
<1>13. Written'
  <2>1. ASSUME NEW i \in Inodes PROVE \A l \in Range(lines[i]) : l \in DOMAIN ts /\ done[l] <= mtime'[i]
    <3>1. \A l \in Range(lines[i]) : l \in DOMAIN ts /\ done[l] <= mtime[i] /\ done[l] \in -1 .. now
      BY <1>1, <1>5 DEF Written
    <3>2. mtime[i] \in 0 .. now
      BY <1>5
    <3> QED BY <1>5, <1>7b, <3>1, <3>2
  <2> QED BY <1>1, <1>2, <1>3, <2>1 DEF Written
<1>14. \A l : l \in Content(Names)' <=> l \in Content(Names)
  <2>1. \A l : l \in Content(Names)' <=> \E m \in Names' : l \in Range(lines[dir'[m]])
    BY <1>3, ContentNext
  <2>2. \A l : l \in Content(Names) <=> \E m \in Names : l \in Range(lines[dir[m]])
    BY ContentIs
  <2>3. CASE Active \in Names
    BY <1>3, <1>7, <2>1, <2>2, <2>3
  <2>4. CASE Active \notin Names
    BY <1>3, <2>1, <2>2, <2>4, NoLines
  <2> QED BY <2>3, <2>4
<1>15. LinesLast'
  BY <1>1, <1>2, <1>14 DEF LinesLast
<1>16. \A i \in Inodes : \A u : Old(i, u)' <=> Old(i, u)
  BY <1>2, <1>3 DEF Old
\* The file it has open is young.
<1>17. \A u \in swept : ~Old(b, u)
  BY <1>1, <1>3, <1>7, NoLines DEF Young, Old
<1>18. \A n \in Names', u \in swept : Old(dir[n], u)' =>
         n \in Names /\ dir'[n] = dir[n] /\ Old(dir[n], u) /\ mtime'[dir'[n]] = mtime[dir[n]]
  <2> SUFFICES ASSUME NEW n \in Names', NEW u \in swept, Old(dir[n], u)'
               PROVE n \in Names /\ dir'[n] = dir[n] /\ Old(dir[n], u) /\ mtime'[dir'[n]] = mtime[dir[n]]
    OBVIOUS
  <2>1. Old(dir'[n], u)
    BY <1>2, <1>3 DEF Old
  <2>2. n # Active
    BY <1>3, <1>17, <2>1
  <2> QED BY <1>3, <1>5, <2>1, <2>2
<1>19. Young'
  <2> SUFFICES ASSUME NEW u \in swept
               PROVE  /\ ~Old(dir[Active], u)'
                      /\ \A v \in Writers : pc'[v] = "write" /\ u < now => ~Old(inode[v], u)'
                      /\ \A n \in Names' : Old(dir[n], u)' => mtime'[dir'[n]] <= u
    BY <1>2 DEF Young, Old
  <2>1. ~Old(dir[Active], u)'
    BY <1>2, <1>3, <1>17 DEF Old
  <2>2. ASSUME NEW v \in Writers, pc'[v] = "write", u < now PROVE ~Old(inode[v], u)'
    <3>1. ~Old(inode'[v], u)
      BY <1>1, <1>4, <1>6, <1>17, <2>2 DEF Young
    <3> QED BY <1>2, <1>3, <3>1 DEF Old
  <2> QED BY <1>1, <1>18, <2>1, <2>2 DEF Young
<1>20. Sweeping'
  <2>1. pc'[Sweeper] = pc[Sweeper] /\ \A v \in Writers : pc'[v] # "prune"
    BY <1>1, <1>4, <1>6 DEF Sweeping
  <2>2. \A u \in swept, n \in Names' :
          pc'[Sweeper] # "idle" /\ u < now - Horizon /\ Old(dir[n], u)' => n \in prune
    BY <1>1, <1>18, <2>1 DEF Sweeping
  <2> QED BY <1>1, <1>2, <2>1, <2>2 DEF Sweeping, Old
<1>21. ExpiredGoes'
  BY <1>1, <1>2, <1>14 DEF ExpiredGoes
<1> QED BY <1>8, <1>9, <1>10, <1>11, <1>12, <1>13, <1>15, <1>19, <1>20, <1>21 DEF LogInv

\* A write adds a line of this tick to a file that has a name.
LEMMA WriteFacts ==
  ASSUME LogInv, NEW w \in Writers, Write(w)
  PROVE  /\ inode[w] \in Inodes /\ line[w] \in Lines /\ line[w] \in DOMAIN ts /\ ts[line[w]] = now
         /\ \E n \in Names : dir[n] = inode[w]
         /\ \A j \in Inodes : line[w] \notin Range(lines[j])
         /\ lines' \in [Inodes -> Seq(Lines)] /\ Range(lines'[inode[w]]) = Range(lines[inode[w]]) \cup {line[w]}
         /\ \A j \in Inodes : j # inode[w] => lines'[j] = lines[j]
         /\ \A a, b \in DOMAIN lines'[inode[w]] : a <= b =>
              \/ a \in DOMAIN lines[inode[w]] /\ b \in DOMAIN lines[inode[w]]
                 /\ lines'[inode[w]][a] = lines[inode[w]][a] /\ lines'[inode[w]][b] = lines[inode[w]][b]
              \/ lines'[inode[w]][b] = line[w] /\ lines'[inode[w]][a] \in Range(lines[inode[w]]) \cup {line[w]}
         /\ mtime' = [mtime EXCEPT ![inode[w]] = now] /\ done' = [done EXCEPT ![line[w]] = now]
         /\ writes' = writes + 1 /\ fine' = [fine EXCEPT ![inode[w]] = writes + 1]
<1>1. /\ dir \in [Names -> Inodes] /\ lines \in [Inodes -> Seq(Lines)] /\ DOMAIN ts \subseteq Lines
  BY DEF LogInv, FileTypes
<1>2. /\ pc[w] = "write" /\ lines' = [lines EXCEPT ![inode[w]] = Append(lines[inode[w]], line[w])]
      /\ mtime' = [mtime EXCEPT ![inode[w]] = now] /\ done' = [done EXCEPT ![line[w]] = now]
      /\ writes' = writes + 1 /\ fine' = [fine EXCEPT ![inode[w]] = writes + 1]
  BY DEF Write
<1>3. PICK n \in Names : dir[n] = inode[w]
  BY <1>2 DEF LogInv, Opened
<1>4. /\ line[w] \in DOMAIN ts /\ ts[line[w]] = now
      /\ \A j \in Inodes : line[w] \notin Range(lines[j])
  BY <1>2 DEF LogInv, Underway
<1>4a. PICK i, l, s : i = inode[w] /\ l = line[w] /\ s = lines[i]
  OBVIOUS
<1>5. i \in Inodes /\ l \in Lines /\ s \in Seq(Lines)
  BY <1>1, <1>3, <1>4, <1>4a
<1>6. /\ Append(s, l) \in Seq(Lines) /\ Range(Append(s, l)) = Range(s) \cup {l}
      /\ DOMAIN Append(s, l) = DOMAIN s \cup {Len(s) + 1}
      /\ Append(s, l)[Len(s) + 1] = l /\ DOMAIN s = 1 .. Len(s) /\ Len(s) \in Nat
      /\ \A a \in DOMAIN s : Append(s, l)[a] = s[a]
  BY <1>5, AppendFacts
<1>7. /\ lines'[i] = Append(s, l) /\ lines' \in [Inodes -> Seq(Lines)]
      /\ \A j \in Inodes : j # i => lines'[j] = lines[j]
  BY <1>1, <1>2, <1>4a, <1>5, <1>6
<1>8. \A a, b \in DOMAIN Append(s, l) : a <= b =>
        \/ a \in DOMAIN s /\ b \in DOMAIN s /\ Append(s, l)[a] = s[a] /\ Append(s, l)[b] = s[b]
        \/ Append(s, l)[b] = l /\ Append(s, l)[a] \in Range(s) \cup {l}
  <2> SUFFICES ASSUME NEW a \in DOMAIN Append(s, l), NEW b \in DOMAIN Append(s, l), a <= b
               PROVE  \/ a \in DOMAIN s /\ b \in DOMAIN s /\ Append(s, l)[a] = s[a]
                         /\ Append(s, l)[b] = s[b]
                      \/ Append(s, l)[b] = l /\ Append(s, l)[a] \in Range(s) \cup {l}
    OBVIOUS
  <2>1. Append(s, l)[a] \in Range(s) \cup {l}
    BY <1>6 DEF Range
  <2>2. CASE b = Len(s) + 1
    BY <1>6, <2>1, <2>2
  <2>3. CASE b # Len(s) + 1
    BY <1>6, <2>3
  <2> QED BY <2>2, <2>3
<1>9. /\ l \in DOMAIN ts /\ ts[l] = now
      /\ \A j \in Inodes : l \notin Range(lines[j])
      /\ mtime' = [mtime EXCEPT ![i] = now] /\ done' = [done EXCEPT ![l] = now]
      /\ writes' = writes + 1 /\ fine' = [fine EXCEPT ![i] = writes + 1]
  BY <1>2, <1>3, <1>4, <1>4a
<1>10. /\ lines' \in [Inodes -> Seq(Lines)] /\ Range(lines'[i]) = Range(lines[i]) \cup {l}
       /\ \A j \in Inodes : j # i => lines'[j] = lines[j]
       /\ \A a, b \in DOMAIN lines'[i] : a <= b =>
            \/ a \in DOMAIN lines[i] /\ b \in DOMAIN lines[i]
               /\ lines'[i][a] = lines[i][a] /\ lines'[i][b] = lines[i][b]
            \/ lines'[i][b] = l /\ lines'[i][a] \in Range(lines[i]) \cup {l}
  BY <1>4a, <1>6, <1>7, <1>8
<1> QED BY <1>3, <1>4a, <1>5, <1>9, <1>10

LEMMA LogWrites ==
  ASSUME LogInv, NEW w \in Writers, Write(w)
  PROVE  LogInv'
<1>1. /\ FileTypes /\ OneName /\ TargetFree /\ Underway /\ Opened /\ Written /\ LinesLast
      /\ Young /\ Sweeping /\ ExpiredGoes
  BY DEF LogInv
<1>2. /\ pc[w] = "write" /\ pc' = [pc EXCEPT ![w] = "idle"]
      /\ line' = [line EXCEPT ![w] = NoLine] /\ inode' = [inode EXCEPT ![w] = 0]
      /\ now' = now /\ dir' = dir /\ ts' = ts /\ target' = target /\ holder' = holder
      /\ prune' = prune /\ swept' = swept /\ Names' = Names
  BY DEF Write, Names
<1>2a. PICK i, l : i = inode[w] /\ l = line[w]
  OBVIOUS
<1>2b. /\ inode[w] \in Inodes /\ line[w] \in Lines /\ line[w] \in DOMAIN ts /\ ts[line[w]] = now
       /\ \E n \in Names : dir[n] = inode[w]
       /\ \A j \in Inodes : line[w] \notin Range(lines[j])
       /\ lines' \in [Inodes -> Seq(Lines)] /\ Range(lines'[inode[w]]) = Range(lines[inode[w]]) \cup {line[w]}
       /\ \A j \in Inodes : j # inode[w] => lines'[j] = lines[j]
       /\ \A a, b \in DOMAIN lines'[inode[w]] : a <= b =>
            \/ a \in DOMAIN lines[inode[w]] /\ b \in DOMAIN lines[inode[w]]
               /\ lines'[inode[w]][a] = lines[inode[w]][a] /\ lines'[inode[w]][b] = lines[inode[w]][b]
            \/ lines'[inode[w]][b] = line[w] /\ lines'[inode[w]][a] \in Range(lines[inode[w]]) \cup {line[w]}
       /\ mtime' = [mtime EXCEPT ![inode[w]] = now] /\ done' = [done EXCEPT ![line[w]] = now]
       /\ writes' = writes + 1 /\ fine' = [fine EXCEPT ![inode[w]] = writes + 1]
  BY WriteFacts
<1>3. /\ i \in Inodes /\ l \in Lines /\ l \in DOMAIN ts /\ ts[l] = now
      /\ i = inode[w] /\ l = line[w] /\ \E n \in Names : dir[n] = i
      /\ \A j \in Inodes : l \notin Range(lines[j])
      /\ lines' \in [Inodes -> Seq(Lines)] /\ Range(lines'[i]) = Range(lines[i]) \cup {l}
      /\ \A j \in Inodes : j # i => lines'[j] = lines[j]
      /\ \A a, b \in DOMAIN lines'[i] : a <= b =>
           \/ a \in DOMAIN lines[i] /\ b \in DOMAIN lines[i]
              /\ lines'[i][a] = lines[i][a] /\ lines'[i][b] = lines[i][b]
           \/ lines'[i][b] = l /\ lines'[i][a] \in Range(lines[i]) \cup {l}
      /\ mtime' = [mtime EXCEPT ![i] = now] /\ done' = [done EXCEPT ![l] = now]
      /\ writes' = writes + 1 /\ fine' = [fine EXCEPT ![i] = writes + 1]
  BY <1>2a, <1>2b
<1>4. w \in Threads /\ Sweeper \in Threads /\ Writers \subseteq Threads /\ Sweeper \notin Writers
      /\ Span \in Nat /\ Horizon \in Nat
  BY Constants
<1>5. /\ \A m \in Names : dir[m] \in Inodes
      /\ now \in Nat /\ swept \subseteq 0 .. now
      /\ \A j \in Inodes : mtime[j] \in 0 .. now /\ Range(lines[j]) \subseteq DOMAIN ts
      /\ \A k \in DOMAIN ts : ts[k] \in 0 .. now
      /\ \A k \in Lines : done[k] \in -1 .. now
      /\ DOMAIN ts \subseteq Lines
  BY <1>1, LinesStamped DEF FileTypes
<1>6. /\ pc' \in [Threads -> {"idle", "rename", "open", "write", "prune"}]
      /\ pc'[w] = "idle" /\ \A u \in Threads : u # w => pc'[u] = pc[u]
      /\ inode' \in [Writers -> Inodes \cup {0}] /\ line' \in [Writers -> Lines \cup {NoLine}]
      /\ \A v \in Writers : v # w => inode'[v] = inode[v] /\ line'[v] = line[v]
  BY <1>1, <1>2, <1>4 DEF FileTypes
<1>7. /\ \A j \in Inodes : Range(lines'[j]) = Range(lines[j]) \cup (IF j = i THEN {l} ELSE {})
      /\ mtime'[i] = now /\ \A j \in Inodes : j # i => mtime'[j] = mtime[j]
      /\ done'[l] = now /\ \A k \in Lines : k # l => done'[k] = done[k]
  BY <1>1, <1>3 DEF FileTypes
<1>8. FileTypes'
  <2>1. mtime' \in [Inodes -> 0 .. now] /\ done' \in [Lines -> -1 .. now]
    BY <1>1, <1>3, <1>5 DEF FileTypes
  <2>2. writes' \in Nat /\ fine' \in [Inodes -> 0 .. writes']
    BY <1>1, <1>3 DEF FileTypes
  <2> QED BY <1>1, <1>2, <1>3, <1>6, <2>1, <2>2 DEF FileTypes, Archived
<1>9. OneName' /\ TargetFree'
  <2>1. \A u \in Threads : pc'[u] = "rename" => pc[u] = "rename"
    BY <1>6
  <2> QED BY <1>1, <1>2, <2>1 DEF OneName, TargetFree
<1>10. Underway'
  <2> SUFFICES ASSUME NEW v \in Writers, pc'[v] # "idle"
               PROVE  /\ line'[v] \in DOMAIN ts /\ ts[line'[v]] = now
                      /\ \A j \in Inodes : line'[v] \notin Range(lines'[j])
                      /\ \A x \in Writers : x # v /\ pc'[x] # "idle" => line'[x] # line'[v]
    BY <1>2 DEF Underway
  <2>1. v # w /\ pc[v] # "idle"
    BY <1>4, <1>6
  <2>2. line'[v] = line[v] /\ line[v] # l
    BY <1>1, <1>2, <1>3, <1>6, <2>1 DEF Underway
  <2>3. /\ line[v] \in DOMAIN ts /\ ts[line[v]] = now
        /\ \A j \in Inodes : line[v] \notin Range(lines[j])
        /\ \A x \in Writers : x # v /\ pc[x] # "idle" => line[x] # line[v]
    BY <1>1, <2>1 DEF Underway
  <2>4. \A x \in Writers : x # v /\ pc'[x] # "idle" => line'[x] # line'[v]
    BY <1>4, <1>6, <2>2, <2>3
  <2> QED BY <1>7, <2>2, <2>3, <2>4
<1>11. Opened'
  <2>1. \A v \in Writers : pc'[v] = "write" => pc[v] = "write" /\ inode'[v] = inode[v]
    BY <1>4, <1>6
  <2> QED BY <1>1, <1>2, <2>1 DEF Opened
<1>12. Written'
  <2>1. ASSUME NEW j \in Inodes PROVE \A k \in Range(lines'[j]) : k \in DOMAIN ts /\ done'[k] <= mtime'[j]
    <3> SUFFICES ASSUME NEW k \in Range(lines'[j]) PROVE k \in DOMAIN ts /\ done'[k] <= mtime'[j]
      OBVIOUS
    <3>1. CASE k = l
      <4>1. j = i
        BY <1>3, <1>7, <3>1
      <4> QED BY <1>3, <1>5, <1>7, <3>1, <4>1
    <3>2. CASE k # l
      <4>1. k \in Range(lines[j])
        BY <1>7, <3>2
      <4>2. k \in DOMAIN ts /\ k \in Lines /\ done[k] <= mtime[j] /\ done[k] \in -1 .. now
        BY <1>1, <1>5, <4>1 DEF Written
      <4>3. mtime'[j] = mtime[j] \/ mtime'[j] = now
        BY <1>7
      <4> QED BY <1>5, <1>7, <3>2, <4>2, <4>3
    <3> QED BY <3>1, <3>2
  <2>2. ASSUME NEW j \in Inodes, NEW a \in DOMAIN lines'[j], NEW b \in DOMAIN lines'[j], a <= b
        PROVE  ts[lines'[j][a]] <= ts[lines'[j][b]]
    <3>1. CASE j # i
      BY <1>1, <1>3, <2>2, <3>1 DEF Written
    <3>2. CASE j = i
      <4>1. CASE /\ a \in DOMAIN lines[i] /\ b \in DOMAIN lines[i]
                 /\ lines'[i][a] = lines[i][a] /\ lines'[i][b] = lines[i][b]
        BY <1>1, <2>2, <3>2, <4>1 DEF Written
      <4>2. CASE lines'[i][b] = l /\ lines'[i][a] \in Range(lines[i]) \cup {l}
        <5>1. lines'[i][a] \in DOMAIN ts
          BY <1>3, <1>5, <4>2
        <5>2. ts[lines'[i][a]] \in 0 .. now
          BY <1>5, <5>1
        <5> QED BY <1>3, <1>5, <3>2, <4>2, <5>2
      <4> QED BY <1>3, <2>2, <3>2, <4>1, <4>2
    <3> QED BY <3>1, <3>2
  <2> QED BY <1>2, <2>1, <2>2 DEF Written
<1>13. \A k : k \in Content(Names)' <=> k \in Content(Names) \/ k = l
  <2>1. \A k : k \in Content(Names)' <=> \E m \in Names : k \in Range(lines'[dir[m]])
    BY <1>2, ContentNext
  <2>2. \A m \in Names : Range(lines'[dir[m]]) =
                            Range(lines[dir[m]]) \cup (IF dir[m] = i THEN {l} ELSE {})
    BY <1>5, <1>7
  <2>3. \E n \in Names : dir[n] = i
    BY <1>3
  <2> QED BY <2>1, <2>2, <2>3, ContentIs
<1>14. LinesLast'
  BY <1>1, <1>2, <1>7, <1>13 DEF LinesLast
<1>15. \A j \in Inodes, u \in swept : Old(j, u)' <=> Old(j, u)
  <2> SUFFICES ASSUME NEW j \in Inodes, NEW u \in swept
               PROVE  (\E k \in Range(lines'[j]) : ts[k] < u - Span) <=> Old(j, u)
    BY <1>2 DEF Old
  <2>1. ~(ts[l] < u - Span)
    BY <1>3, <1>4, <1>5
  <2> QED BY <1>7, <2>1 DEF Old
<1>16. Young'
  <2> SUFFICES ASSUME NEW u \in swept
               PROVE  /\ Active \in Names => ~Old(dir[Active], u)'
                      /\ \A v \in Writers : pc'[v] = "write" /\ u < now => ~Old(inode[v], u)'
                      /\ \A m \in Names : Old(dir[m], u)' => mtime'[dir[m]] <= u
    BY <1>2 DEF Young, Old
  <2>1. \A m \in Names : Old(dir[m], u)' <=> Old(dir[m], u)
    <3>1. \A m \in Names : Old(dir[m], u)' <=> \E k \in Range(lines'[dir[m]]) : ts[k] < u - Span
      BY <1>2 DEF Old
    <3>2. \A j \in Inodes : (\E k \in Range(lines'[j]) : ts[k] < u - Span) <=> Old(j, u)
      BY <1>2, <1>15 DEF Old
    <3> QED BY <1>5, <3>1, <3>2
  <2>2. ASSUME NEW v \in Writers, pc'[v] = "write", u < now PROVE ~Old(inode[v], u)'
    <3>1. v # w /\ pc[v] = "write" /\ inode'[v] = inode[v]
      BY <1>4, <1>6, <2>2
    <3>2. ~Old(inode[v], u) /\ inode[v] \in Inodes
      BY <1>1, <1>5, <2>2, <3>1 DEF Young, Opened
    <3>3. ~\E k \in Range(lines'[inode[v]]) : ts[k] < u - Span
      BY <1>2, <1>15, <3>2 DEF Old
    <3> QED BY <1>2, <3>1, <3>3 DEF Old
  <2>3. ASSUME NEW m \in Names, Old(dir[m], u) PROVE mtime'[dir[m]] <= u
    <3>1. CASE dir[m] = i
      <4>1. ~(u < now)
        BY <1>1, <1>2, <1>3, <2>3, <3>1 DEF Young
      <4> QED BY <1>5, <1>7, <3>1, <4>1
    <3>2. CASE dir[m] # i
      BY <1>1, <1>5, <1>7, <2>3, <3>2 DEF Young
    <3> QED BY <3>1, <3>2
  <2> QED BY <1>1, <2>1, <2>2, <2>3 DEF Young
<1>17. Sweeping'
  <2>1. pc'[Sweeper] = pc[Sweeper] /\ \A v \in Writers : pc'[v] # "prune"
    BY <1>1, <1>4, <1>6 DEF Sweeping
  <2>2. ASSUME NEW u \in swept, NEW m \in Names, pc'[Sweeper] # "idle", u < now - Horizon,
               \E k \in Range(lines'[dir[m]]) : ts[k] < u - Span
        PROVE  m \in prune
    <3>1. Old(dir[m], u)
      BY <1>2, <1>5, <1>15, <2>2 DEF Old
    <3> QED BY <1>1, <2>1, <2>2, <3>1 DEF Sweeping
  <2> QED BY <1>1, <1>2, <2>1, <2>2 DEF Sweeping, Old
<1>18. ExpiredGoes'
  <2> SUFFICES ASSUME NEW k \in Content(Names)', NEW t1 \in swept, NEW t2 \in swept
               PROVE  ~(ts[k] < t1 - Span /\ t1 < t2 - Horizon)
    BY <1>2 DEF ExpiredGoes
  <2>1. CASE k = l
    <3>1. ts[k] = now
      BY <1>3, <2>1
    <3> QED BY <1>4, <1>5, <3>1
  <2>2. CASE k \in Content(Names)
    BY <1>1, <2>2 DEF ExpiredGoes
  <2> QED BY <1>13, <2>1, <2>2
<1> QED BY <1>8, <1>9, <1>10, <1>11, <1>12, <1>14, <1>16, <1>17, <1>18 DEF LogInv

LEMMA LogSweeps ==
  ASSUME LogInv, Sweep
  PROVE  LogInv'
<1>1. /\ FileTypes /\ OneName /\ TargetFree /\ Underway /\ Opened /\ Written /\ LinesLast
      /\ Young /\ Sweeping /\ ExpiredGoes
  BY DEF LogInv
<1>2. /\ pc[Sweeper] = "idle" /\ NoneLate /\ prune' = Archived
      /\ pc' = [pc EXCEPT ![Sweeper] = "prune"]
      /\ now' = now /\ dir' = dir /\ lines' = lines /\ mtime' = mtime /\ writes' = writes
      /\ fine' = fine /\ ts' = ts /\ line' = line /\ inode' = inode /\ target' = target
      /\ holder' = holder /\ done' = done /\ swept' = swept /\ Names' = Names
  BY DEF Sweep, files, Names
<1>3. Sweeper \in Threads /\ Writers \subseteq Threads /\ Sweeper \notin Writers
  BY Constants
<1>4. /\ pc' \in [Threads -> {"idle", "rename", "open", "write", "prune"}]
      /\ pc'[Sweeper] = "prune" /\ \A u \in Threads : u # Sweeper => pc'[u] = pc[u]
  BY <1>1, <1>2, <1>3 DEF FileTypes
<1>5. FileTypes' /\ OneName'
  BY <1>1, <1>2, <1>4 DEF FileTypes, OneName, Archived
<1>6. TargetFree'
  <2>1. \A u \in Threads : pc'[u] = "rename" => pc[u] = "rename"
    BY <1>4
  <2> QED BY <1>1, <1>2, <2>1 DEF TargetFree
<1>7. \A w \in Writers : pc'[w] = pc[w]
  BY <1>3, <1>4
<1>8. Underway'
  BY <1>1, <1>2, <1>7 DEF Underway
\* Whoever writes has the active file open, at which no sweep looks.
<1>9. Opened'
  <2>1. \A w \in Writers : pc[w] = "write" => Active \in Names /\ inode[w] = dir[Active]
    BY <1>2 DEF NoneLate
  <2> QED BY <1>2, <1>7, <2>1 DEF Opened, Archived
<1>10. Written' /\ LinesLast' /\ ExpiredGoes'
  BY <1>1, <1>2 DEF Written, LinesLast, ExpiredGoes, Content, Names
<1>11. Young'
  BY <1>1, <1>2, <1>7 DEF Young, Old
<1>12. Sweeping'
  <2>1. \A u \in swept, n \in Names : Old(dir[n], u) => n \in Archived
    BY <1>1 DEF Young, Archived
  <2> QED BY <1>1, <1>2, <1>4, <1>7, <2>1 DEF Sweeping, Old
<1> QED BY <1>5, <1>6, <1>8, <1>9, <1>10, <1>11, <1>12 DEF LogInv

\* An archive that is old to an earlier sweep by the horizon has expired, and a
\* line in one that has expired is due to go.
LEMMA LogPrunes ==
  ASSUME LogInv, NEW n, Prune(n)
  PROVE  LogInv'
<1>1. /\ FileTypes /\ OneName /\ TargetFree /\ Underway /\ Opened /\ Written /\ LinesLast
      /\ Young /\ Sweeping /\ ExpiredGoes
  BY DEF LogInv
<1>2. /\ pc[Sweeper] = "prune" /\ n \in prune /\ prune' = prune \ {n}
      /\ dir' = IF Expired(n) THEN [m \in Names \ {n} |-> dir[m]] ELSE dir
      /\ now' = now /\ lines' = lines /\ mtime' = mtime /\ writes' = writes /\ fine' = fine
      /\ ts' = ts /\ pc' = pc /\ line' = line /\ inode' = inode /\ target' = target
      /\ holder' = holder /\ done' = done /\ swept' = swept
  BY DEF Prune
<1>3. /\ \A m \in Names : dir[m] \in Inodes
      /\ now \in Nat /\ prune \subseteq Names \ {Active} /\ swept \subseteq 0 .. now
      /\ \A i \in Inodes : mtime[i] \in 0 .. now
      /\ \A l \in Lines : done[l] \in -1 .. now
      /\ Horizon \in Nat
  BY <1>1, LinesStamped, Constants DEF FileTypes, Archived
<1>4. /\ Names' \subseteq Names /\ \A m \in Names' : dir'[m] = dir[m]
      /\ \A m \in Names : m \in Names' \/ (m = n /\ Expired(n))
      /\ n \in Names' => ~Expired(n)
      /\ dir' \in [Names' -> Inodes]
  <2>1. CASE Expired(n)
    <3>1. Names' = Names \ {n} /\ dir' = [m \in Names \ {n} |-> dir[m]]
      BY <1>2, <2>1 DEF Names
    <3> QED BY <1>3, <2>1, <3>1
  <2>2. CASE ~Expired(n)
    <3>1. Names' = Names /\ dir' = dir
      BY <1>2, <2>2 DEF Names
    <3> QED BY <1>1, <2>2, <3>1 DEF FileTypes
  <2> QED BY <2>1, <2>2
<1>5. FileTypes'
  <2>1. Names' \subseteq FileNames /\ prune' \subseteq Names' \ {Active}
    BY <1>1, <1>2, <1>3, <1>4 DEF FileTypes
  <2> QED BY <1>1, <1>2, <1>4, <2>1 DEF FileTypes, Archived, Names
<1>6. OneName' /\ TargetFree'
  BY <1>1, <1>2, <1>4 DEF OneName, TargetFree
<1>7. Underway' /\ Written'
  BY <1>1, <1>2 DEF Underway, Written
<1>8. Opened'
  <2> SUFFICES ASSUME NEW v \in Writers, pc[v] = "write"
               PROVE  \E m \in Names' : m \notin prune' /\ dir'[m] = inode[v]
    BY <1>2 DEF Opened
  <2>1. PICK m \in Names : m \notin prune /\ dir[m] = inode[v]
    BY <1>1 DEF Opened
  <2> QED BY <1>2, <1>4, <2>1
<1>9. \A l : l \in Content(Names)' => l \in Content(Names)
  <2>1. \A l : l \in Content(Names)' <=> \E m \in Names' : l \in Range(lines[dir'[m]])
    BY <1>2, ContentNext
  <2> QED BY <1>4, <2>1, ContentIs
<1>10. LinesLast'
  <2> SUFFICES ASSUME NEW l \in Lines, done[l] >= now - Horizon, done[l] >= 0
               PROVE  l \in Content(Names)'
    BY <1>2 DEF LinesLast
  <2>1. PICK m \in Names : l \in Range(lines[dir[m]])
    BY <1>1, ContentIs DEF LinesLast
  <2>2. done[l] <= mtime[dir[m]]
    BY <1>1, <1>3, <2>1 DEF Written
  <2>3. mtime[dir[m]] \in 0 .. now /\ done[l] \in -1 .. now
    BY <1>3
  <2>4. ~(mtime[dir[m]] < now - Horizon)
    BY <1>3, <2>2, <2>3
  <2>5. m \in Names' /\ dir'[m] = dir[m]
    BY <1>4, <2>4 DEF Expired
  <2> QED BY <1>2, <2>1, <2>5, ContentNext
<1>11. \A m \in Names' : \A u : Old(dir[m], u)' <=> Old(dir[m], u)
  BY <1>2, <1>4 DEF Old
<1>12. Young'
  <2> SUFFICES ASSUME NEW u \in swept
               PROVE  /\ Active \in Names' => ~Old(dir[Active], u)'
                      /\ \A v \in Writers : pc[v] = "write" /\ u < now => ~Old(inode[v], u)'
                      /\ \A m \in Names' : Old(dir[m], u)' => mtime[dir'[m]] <= u
    BY <1>2 DEF Young, Old
  <2>1. \A v \in Writers : pc[v] = "write" /\ u < now => ~Old(inode[v], u)'
    BY <1>1, <1>2 DEF Young, Old
  <2> QED BY <1>1, <1>4, <1>11, <2>1 DEF Young
<1>13. Sweeping'
  <2> SUFFICES ASSUME NEW u \in swept, NEW m \in Names', u < now - Horizon, Old(dir[m], u)'
               PROVE  m \in prune'
    BY <1>1, <1>2 DEF Sweeping, Old
  <2>1. Old(dir[m], u) /\ m \in Names
    BY <1>4, <1>11
  <2>2. m \in prune
    BY <1>1, <1>2, <2>1 DEF Sweeping
  <2>3. mtime[dir[m]] <= u
    BY <1>1, <2>1 DEF Young
  <2>4. mtime[dir[m]] < now - Horizon
    BY <1>3, <2>1, <2>3
  <2> QED BY <1>2, <1>4, <2>2, <2>4 DEF Expired
<1>14. ExpiredGoes'
  BY <1>1, <1>2, <1>9 DEF ExpiredGoes
<1> QED BY <1>5, <1>6, <1>7, <1>8, <1>10, <1>12, <1>13, <1>14 DEF LogInv

\* A sweep that leaves the active file found no aged line in it: the first is the oldest.
LEMMA LogAges ==
  ASSUME LogInv, Age
  PROVE  LogInv'
<1>1. /\ FileTypes /\ OneName /\ TargetFree /\ Underway /\ Opened /\ Written /\ LinesLast
      /\ Young /\ Sweeping /\ ExpiredGoes
  BY DEF LogInv
<1>2. /\ pc[Sweeper] = "prune" /\ prune = {} /\ Judge(Sweeper, Aged, "idle")
      /\ swept' = IF pc'[Sweeper] = "idle" THEN swept \cup {now} ELSE swept
      /\ now' = now /\ dir' = dir /\ lines' = lines /\ mtime' = mtime /\ writes' = writes
      /\ fine' = fine /\ ts' = ts /\ line' = line /\ inode' = inode /\ prune' = prune
      /\ done' = done /\ Names' = Names
  BY DEF Age, files, Names
<1>3. Sweeper \in Threads /\ Writers \subseteq Threads /\ Sweeper \notin Writers
      /\ Horizon \in Nat /\ Span \in Nat
  BY Constants
<1>4. /\ pc' \in [Threads -> {"idle", "rename", "open", "write", "prune"}]
      /\ target' \in [Threads -> FileNames] /\ holder' \in [Pids -> Threads \cup {NoLine}]
      /\ TargetFree'
      /\ \A u \in Threads : u # Sweeper => pc'[u] = pc[u]
      /\ pc'[Sweeper] \in {"rename", "idle"}
      /\ pc'[Sweeper] = "idle" => ~(Active \in Names /\ Aged)
  BY <1>1, <1>2, <1>3, JudgeFacts
<1>5. /\ \A m \in Names : dir[m] \in Inodes
      /\ now \in Nat /\ swept \subseteq 0 .. now
      /\ \A i \in Inodes : mtime[i] \in 0 .. now /\ Range(lines[i]) \subseteq DOMAIN ts
      /\ \A k \in DOMAIN ts : ts[k] \in 0 .. now
      /\ lines \in [Inodes -> Seq(Lines)]
  BY <1>1, LinesStamped DEF FileTypes
<1>6. swept' \subseteq swept \cup {now} /\ swept' \subseteq 0 .. now
  <2>1. now \in 0 .. now
    BY <1>5
  <2>2. swept' = swept \cup {now} \/ swept' = swept
    BY <1>2
  <2> QED BY <1>5, <2>1, <2>2
<1>7. FileTypes' /\ OneName'
  BY <1>1, <1>2, <1>4, <1>6 DEF FileTypes, OneName, Archived
<1>8. \A w \in Writers : pc'[w] = pc[w]
  BY <1>3, <1>4
<1>9. Underway' /\ Opened' /\ Written' /\ LinesLast'
  BY <1>1, <1>2, <1>8 DEF Underway, Opened, Written, LinesLast, Content, Names
<1>10. ASSUME pc'[Sweeper] = "idle", Active \in Names
       PROVE  ~Old(dir[Active], now)
  <2> SUFFICES ASSUME NEW l \in Range(lines[dir[Active]]) PROVE ~(ts[l] < now - Span)
    BY DEF Old
  <2> DEFINE i == dir[Active]
  <2>1. i \in Inodes /\ lines[i] \in Seq(Lines)
    BY <1>5, <1>10
  <2>2. lines[i] # <<>> => ~(ts[Head(lines[i])] < now - Span)
    BY <1>4, <1>10 DEF Aged
  <2>3. PICK k \in DOMAIN lines[i] : l = lines[i][k]
    BY DEF Range
  <2>4. /\ DOMAIN lines[i] = 1 .. Len(lines[i]) /\ Len(lines[i]) \in Nat
        /\ lines[i] # <<>> /\ Head(lines[i]) = lines[i][1] /\ 1 \in DOMAIN lines[i] /\ 1 <= k
    BY <2>1, <2>3
  <2>5. ts[lines[i][1]] <= ts[l]
    BY <1>1, <2>1, <2>3, <2>4 DEF Written
  <2>6. ts[lines[i][1]] \in 0 .. now /\ ts[l] \in 0 .. now
    <3>1. lines[i][1] \in Range(lines[i]) /\ l \in Range(lines[i])
      BY <2>4 DEF Range
    <3> QED BY <1>5, <2>1, <3>1
  <2> QED BY <1>3, <1>5, <2>2, <2>4, <2>5, <2>6
<1>11. Young'
  <2> SUFFICES ASSUME NEW u \in swept'
               PROVE  /\ Active \in Names => ~Old(dir[Active], u)
                      /\ \A v \in Writers : pc[v] = "write" /\ u < now => ~Old(inode[v], u)
                      /\ \A m \in Names : Old(dir[m], u) => mtime[dir[m]] <= u
    BY <1>2, <1>8 DEF Young, Old
  <2>1. CASE u \in swept
    BY <1>1, <2>1 DEF Young
  <2>2. CASE u \notin swept
    <3>1. u = now /\ pc'[Sweeper] = "idle"
      BY <1>2, <2>2
    <3> QED BY <1>5, <1>10, <3>1
  <2> QED BY <2>1, <2>2
<1>12. Sweeping'
  <2>1. CASE pc'[Sweeper] = "idle"
    BY <1>1, <1>2, <1>8, <2>1 DEF Sweeping
  <2>2. CASE pc'[Sweeper] = "rename"
    <3>1. swept' = swept
      BY <1>2, <2>2
    <3> QED BY <1>1, <1>2, <1>8, <2>2, <3>1 DEF Sweeping, Old
  <2> QED BY <1>4, <2>1, <2>2
<1>13. ExpiredGoes'
  <2> SUFFICES ASSUME NEW l \in Content(Names), NEW t1 \in swept', NEW t2 \in swept',
                      ts[l] < t1 - Span, t1 < t2 - Horizon
               PROVE  FALSE
    BY <1>2 DEF ExpiredGoes, Content, Names
  <2>1. t1 \in 0 .. now /\ t2 \in 0 .. now
    BY <1>6
  <2>2. t1 \in swept
    BY <1>3, <1>5, <1>6, <2>1
  <2>3. CASE t2 \in swept
    BY <1>1, <2>2, <2>3 DEF ExpiredGoes
  <2>4. CASE t2 = now
    <3>1. PICK n \in Names : l \in Range(lines[dir[n]])
      BY ContentIs
    <3>2. Old(dir[n], t1)
      BY <3>1 DEF Old
    <3>3. n \in prune
      BY <1>1, <1>2, <2>2, <2>4, <3>2 DEF Sweeping
    <3> QED BY <1>2, <3>3
  <2> QED BY <1>6, <2>3, <2>4
<1> QED BY <1>4, <1>7, <1>9, <1>11, <1>12, <1>13 DEF LogInv

LEMMA LogRotationFails ==
  ASSUME LogInv, NEW t \in Threads, RotationFails(t)
  PROVE  LogInv'
<1>1. /\ FileTypes /\ OneName /\ TargetFree /\ Underway /\ Opened /\ Written /\ LinesLast
      /\ Young /\ Sweeping /\ ExpiredGoes
  BY DEF LogInv
<1> DEFINE next == IF t = Sweeper THEN "idle" ELSE "open"
<1>2. /\ pc[t] = "rename" /\ pc' = [pc EXCEPT ![t] = next]
      /\ holder' = [holder EXCEPT ![PidOf[t]] = NoLine] /\ target' = [target EXCEPT ![t] = Active]
      /\ now' = now /\ dir' = dir /\ lines' = lines /\ mtime' = mtime /\ writes' = writes
      /\ fine' = fine /\ ts' = ts /\ line' = line /\ inode' = inode /\ prune' = prune
      /\ done' = done /\ swept' = swept /\ Names' = Names
  BY DEF RotationFails, files, Names
<1>3. Sweeper \in Threads /\ Writers \subseteq Threads /\ Sweeper \notin Writers
  BY Constants
<1>4. next \in {"idle", "open"} /\ (t # Sweeper => next = "open") /\ (t = Sweeper => next = "idle")
  OBVIOUS
<1> HIDE DEF next
<1>5. /\ pc' \in [Threads -> {"idle", "rename", "open", "write", "prune"}]
      /\ target' \in [Threads -> FileNames] /\ holder' \in [Pids -> Threads \cup {NoLine}]
      /\ \A u \in Threads : u # t => pc'[u] = pc[u]
      /\ pc'[t] = next
      /\ \A u \in Threads : pc'[u] = "rename" =>
           /\ u # t /\ pc[u] = "rename" /\ target'[u] = target[u]
           /\ holder'[PidOf[u]] = u /\ PidOf[u] # PidOf[t]
  BY <1>1, <1>2, <1>4, FreedFacts
<1>6. FileTypes' /\ OneName'
  BY <1>1, <1>2, <1>5 DEF FileTypes, OneName, Archived
<1>7. TargetFree'
  BY <1>1, <1>2, <1>5 DEF TargetFree
<1>8. \A w \in Writers : /\ pc'[w] # "idle" => pc[w] # "idle"
                         /\ pc'[w] = "write" => pc[w] = "write"
                         /\ pc'[w] # "prune"
  <2>1. \A v \in Writers : v # t => pc'[v] = pc[v] /\ pc[v] # "prune"
    BY <1>1, <1>3, <1>5 DEF Sweeping
  <2> QED BY <1>2, <1>4, <1>5, <2>1
<1>9. Underway' /\ Opened' /\ Written' /\ LinesLast' /\ ExpiredGoes'
  BY <1>1, <1>2, <1>8 DEF Underway, Opened, Written, LinesLast, ExpiredGoes, Content, Names
<1>10. Young'
  BY <1>1, <1>2, <1>8 DEF Young, Old
<1>11. Sweeping'
  <2>1. pc'[Sweeper] = pc[Sweeper] \/ pc'[Sweeper] = "idle"
    BY <1>3, <1>4, <1>5
  <2> QED BY <1>1, <1>2, <1>8, <2>1 DEF Sweeping, Old
<1> QED BY <1>6, <1>7, <1>9, <1>10, <1>11 DEF LogInv

\* Time passes when nobody is at work.
LEMMA LogAdvances ==
  ASSUME LogInv, Advance
  PROVE  LogInv'
<1>1. /\ FileTypes /\ OneName /\ TargetFree /\ Underway /\ Opened /\ Written /\ LinesLast
      /\ Young /\ Sweeping /\ ExpiredGoes
  BY DEF LogInv
<1>2. /\ now < MaxTime /\ now' = now + 1 /\ \A t \in Threads : pc[t] = "idle"
      /\ dir' = dir /\ lines' = lines /\ mtime' = mtime /\ writes' = writes
      /\ fine' = fine /\ ts' = ts /\ pc' = pc /\ line' = line /\ inode' = inode
      /\ target' = target /\ holder' = holder /\ prune' = prune
      /\ done' = done /\ swept' = swept /\ Names' = Names
  BY DEF Advance, files, steps, Names
<1>3. Sweeper \in Threads /\ Writers \subseteq Threads /\ Horizon \in Nat /\ MaxTime \in Nat
  BY Constants
<1>4. now \in 0 .. MaxTime /\ now' \in 0 .. MaxTime /\ 0 .. now \subseteq 0 .. now'
  BY <1>1, <1>2, <1>3 DEF FileTypes
<1>5. FileTypes'
  <2>1. mtime' \in [Inodes -> 0 .. now'] /\ ts' \in [DOMAIN ts' -> 0 .. now']
        /\ swept' \subseteq 0 .. now' /\ done' \in [Lines -> -1 .. now']
    BY <1>1, <1>2, <1>4 DEF FileTypes
  <2> QED BY <1>1, <1>2, <1>4, <2>1 DEF FileTypes, Archived
<1>6. OneName' /\ TargetFree' /\ Underway' /\ Opened' /\ Written' /\ ExpiredGoes'
  BY <1>1, <1>2, <1>3 DEF OneName, TargetFree, Underway, Opened, Written, ExpiredGoes, Content, Names
<1>7. LinesLast'
  <2>1. ASSUME NEW l \in Lines, done[l] >= now + 1 - Horizon, done[l] >= 0
        PROVE  l \in Content(Names)
    <3>1. done[l] \in -1 .. now
      BY <1>1 DEF FileTypes
    <3>2. done[l] >= now - Horizon
      BY <1>3, <1>4, <2>1, <3>1
    <3> QED BY <1>1, <2>1, <3>2 DEF LinesLast
  <2>2. \A l : l \in Content(Names)' <=> l \in Content(Names)
    BY <1>2 DEF Content, Names
  <2> SUFFICES ASSUME NEW l \in Lines, done'[l] >= now' - Horizon, done'[l] >= 0
               PROVE  l \in Content(Names)'
    BY DEF LinesLast
  <2>3. done[l] >= now + 1 - Horizon /\ done[l] >= 0
    <3>1. now' \in Nat /\ now \in Nat /\ now' = now + 1 /\ done' = done
      BY <1>2, <1>4
    <3> QED BY <1>3, <3>1
  <2>4. l \in Content(Names)
    BY <2>1, <2>3
  <2> QED BY <2>2, <2>4
<1>8. Young' /\ Sweeping'
  BY <1>1, <1>2, <1>3 DEF Young, Sweeping, Old
<1> QED BY <1>5, <1>6, <1>7, <1>8 DEF LogInv
-----------------------------------------------------------------------------
(* What the steps of the log mean to a reader.                             *)

\* A reader keeps what it relies on if no line it must return comes to a file
\* that it read or did not list, and whatever it did not see makes it stale.
LEMMA ReaderKeeps ==
  ASSUME ReaderInv, reader' = reader, writes \in Nat, writes' \in Nat, writes <= writes',
         DOMAIN ts \subseteq DOMAIN ts',
         \A w \in Writers : pc'[w] # "idle" =>
           (pc[w] # "idle" /\ line'[w] = line[w]) \/ line'[w] \notin DOMAIN ts,
         \A m \in Names' :
           \/ m = Active /\ (reader.pc = "read" => reader.must \cap Range(lines'[dir'[m]]) = {})
           \/ \E n \in Names :
                /\ n = m \/ (n = Active /\ Active \notin Names')
                /\ reader.pc = "read" =>
                     reader.must \cap Range(lines'[dir'[m]]) \subseteq Range(lines[dir[n]]),
         \A f : f.newest \in 0 .. writes =>
           Stale(f)' \/ (~Stale(f) /\ Content(Names)' \subseteq Content(Names))
  PROVE  ReaderInv'
<1>1. ReaderTypes /\ Passing /\ Cached
  BY DEF ReaderInv
<1>2. ReaderTypes'
  BY <1>1 DEF ReaderTypes
<1>3. PICK r : r = reader
  OBVIOUS
<1>4. r.next.newest \in 0 .. writes /\ r.fp.newest \in 0 .. writes
  BY <1>1, <1>3 DEF ReaderTypes
<1>5. /\ Stale(r.next)' \/ (~Stale(r.next) /\ Content(Names)' \subseteq Content(Names))
      /\ Stale(r.fp)' \/ (~Stale(r.fp) /\ Content(Names)' \subseteq Content(Names))
  BY <1>4
<1>6. /\ Stale(reader.next)' <=> Stale(r.next)'
      /\ Stale(reader.fp)' <=> Stale(r.fp)'
  BY <1>3 DEF Stale
<1>7. Cached'
  <2>1. r.clean => Stale(r.fp) \/ Content(Names) \subseteq r.held
    BY <1>1, <1>3 DEF Cached
  <2>2. r.clean => Stale(reader.fp)' \/ Content(Names)' \subseteq r.held
    BY <1>5, <1>6, <2>1
  <2> QED BY <1>1, <1>3, <2>2 DEF Cached
<1>8. ASSUME reader'.pc = "read" PROVE Passing'
  <2>1. /\ r.pc = "read" /\ r.todo \subseteq r.listed
        /\ Active \in r.todo => r.todo = r.listed
        /\ r.must \subseteq DOMAIN ts
        /\ \A w \in Writers : pc[w] # "idle" => line[w] \notin r.must
        /\ Active \in Names /\ Active \notin r.listed
             => r.must \cap Range(lines[dir[Active]]) = {}
        /\ r.passes < Passes =>
             \A n \in Names : \/ r.must \cap Range(lines[dir[n]]) \subseteq r.got
                              \/ n \in r.todo \/ n \notin r.listed
        /\ Stale(r.next) \/ Content(Names) \subseteq r.must
    BY <1>1, <1>3, <1>8 DEF Passing
  <2>2. \A m \in Names' :
           \/ m = Active /\ r.must \cap Range(lines'[dir'[m]]) = {}
           \/ \E n \in Names :
                /\ n = m \/ (n = Active /\ Active \notin Names')
                /\ r.must \cap Range(lines'[dir'[m]]) \subseteq Range(lines[dir[n]])
    BY <1>3, <2>1
  <2>3. \A w \in Writers : pc'[w] # "idle" => line'[w] \notin r.must
    BY <2>1
  <2>4. Active \in Names' /\ Active \notin r.listed
           => r.must \cap Range(lines'[dir'[Active]]) = {}
    BY <2>1, <2>2
  <2>5. ASSUME r.passes < Passes, NEW m \in Names'
        PROVE  \/ r.must \cap Range(lines'[dir'[m]]) \subseteq r.got
               \/ m \in r.todo \/ m \notin r.listed
    <3>1. CASE r.must \cap Range(lines'[dir'[m]]) = {}
      BY <3>1
    <3>2. ASSUME NEW n \in Names, n = m \/ n = Active,
                 r.must \cap Range(lines'[dir'[m]]) \subseteq Range(lines[dir[n]])
          PROVE  \/ r.must \cap Range(lines'[dir'[m]]) \subseteq r.got
                 \/ m \in r.todo \/ m \notin r.listed
      <4>1. \/ r.must \cap Range(lines[dir[n]]) \subseteq r.got \/ n \in r.todo \/ n \notin r.listed
        BY <2>1, <2>5
      <4>2. CASE r.must \cap Range(lines[dir[n]]) \subseteq r.got
        BY <3>2, <4>2
      <4>3. CASE n = m
        BY <4>1, <4>2, <4>3
      <4>4. CASE n = Active
        BY <2>1, <3>2, <4>1, <4>2, <4>4
      <4> QED BY <3>2, <4>3, <4>4
    <3> QED BY <2>2, <3>1, <3>2
  <2>6. Stale(reader.next)' \/ Content(Names)' \subseteq r.must
    BY <1>5, <1>6, <2>1
  <2>7. r.must \subseteq DOMAIN ts'
    BY <2>1
  <2>8. reader' = r
    BY <1>3
  <2> QED BY <2>1, <2>3, <2>4, <2>5, <2>6, <2>7, <2>8 DEF Passing
<1>9. Passing'
  BY <1>8 DEF Passing
<1> QED BY <1>2, <1>7, <1>9 DEF ReaderInv

\* Where the files stay as they are there is nothing new to see.
LEMMA ReaderRests ==
  ASSUME LogInv, ReaderInv, reader' = reader, UNCHANGED <<now, files>>, DOMAIN ts \subseteq DOMAIN ts',
         \A w \in Writers : pc'[w] # "idle" =>
           (pc[w] # "idle" /\ line'[w] = line[w]) \/ line'[w] \notin DOMAIN ts
  PROVE  ReaderInv'
<1>1. /\ now' = now /\ dir' = dir /\ lines' = lines /\ mtime' = mtime /\ writes' = writes
      /\ fine' = fine /\ Names' = Names /\ writes \in Nat
  BY DEF files, LogInv, FileTypes, Names
<1>2. \A f : Stale(f)' <=> Stale(f)
  BY <1>1 DEF Stale
<1>3. Content(Names)' = Content(Names)
  BY <1>1 DEF Content, Names
<1>4. \A f : f.newest \in 0 .. writes =>
        Stale(f)' \/ (~Stale(f) /\ Content(Names)' \subseteq Content(Names))
  BY <1>2, <1>3
<1>5. \A m \in Names' :
           \E n \in Names :
                /\ n = m \/ (n = Active /\ Active \notin Names')
                /\ reader.pc = "read" =>
                     reader.must \cap Range(lines'[dir'[m]]) \subseteq Range(lines[dir[n]])
  BY <1>1
<1>6. writes' \in Nat /\ writes <= writes'
  BY <1>1
<1> QED BY <1>1, <1>4, <1>5, <1>6, ReaderKeeps

LEMMA ReaderOnRename ==
  ASSUME LogInv, ReaderInv, NEW t \in Threads, NEW next \in {"idle", "open"}, Rename(t, next)
  PROVE  ReaderInv'
<1>1. FileTypes /\ OneName /\ TargetFree
  BY DEF LogInv
<1>2. /\ pc[t] = "rename" /\ reader' = reader
      /\ now' = now /\ lines' = lines /\ mtime' = mtime /\ writes' = writes /\ fine' = fine
      /\ ts' = ts /\ line' = line /\ writes \in Nat
  BY <1>1 DEF Rename, FileTypes
<1>3. /\ \A u \in Threads : u # t => pc'[u] = pc[u]
      /\ Active \notin Names'
      /\ Active \in Names => target[t] \in Names' /\ dir'[target[t]] = dir[Active]
      /\ \A n \in Names : n # Active => n \in Names' /\ dir'[n] = dir[n]
      /\ \A n \in Names' : \/ n \in Names /\ n # Active /\ dir'[n] = dir[n]
                           \/ n = target[t] /\ Active \in Names /\ dir'[n] = dir[Active]
  BY <1>1, RenameFacts
<1>4. \A w \in Writers : pc'[w] # "idle" => pc[w] # "idle" /\ line'[w] = line[w]
  BY <1>2, <1>3, Constants
<1>5. \A m \in Names' : \E n \in Names : (n = m \/ n = Active) /\ dir'[m] = dir[n]
  BY <1>3
<1>6. \A n \in Names : \E m \in Names' : dir'[m] = dir[n]
  BY <1>3
<1>7. Content(Names)' \subseteq Content(Names)
  <2>1. \A l : l \in Content(Names)' <=> \E m \in Names' : l \in Range(lines[dir'[m]])
    BY <1>2, ContentNext
  <2> QED BY <1>5, <2>1, ContentIs
<1>8. \A f : Stale(f) => Stale(f)'
  BY <1>2, <1>6 DEF Stale
<1>9. \A f : f.newest \in 0 .. writes =>
        Stale(f)' \/ (~Stale(f) /\ Content(Names)' \subseteq Content(Names))
  BY <1>7, <1>8
<1>10. \A m \in Names' :
           \E n \in Names :
                /\ n = m \/ (n = Active /\ Active \notin Names')
                /\ reader.pc = "read" =>
                     reader.must \cap Range(lines'[dir'[m]]) \subseteq Range(lines[dir[n]])
  BY <1>2, <1>3, <1>5
<1>11. writes' \in Nat /\ writes <= writes' /\ DOMAIN ts \subseteq DOMAIN ts'
  BY <1>2
<1> QED BY <1>2, <1>4, <1>9, <1>10, <1>11, ReaderKeeps

\* A file that is created makes every reader stale.
LEMMA ReaderOnOpen ==
  ASSUME LogInv, ReaderInv, NEW w \in Writers, Open(w)
  PROVE  ReaderInv'
<1>1. /\ FileTypes /\ pc[w] = "open" /\ now' = now /\ ts' = ts /\ line' = line /\ reader' = reader
      /\ writes \in Nat
  BY DEF Open, LogInv, FileTypes
<1>2. PICK b \in Inodes :
           /\ inode' = [inode EXCEPT ![w] = b] /\ pc' = [pc EXCEPT ![w] = "write"]
           /\ Names' = Names \cup {Active} /\ dir' \in [Names' -> Inodes] /\ dir'[Active] = b
           /\ \A n \in Names : n # Active => dir'[n] = dir[n] /\ dir[n] # b
           /\ lines' = lines /\ writes' \in Nat /\ fine' \in [Inodes -> 0 .. writes']
           /\ mtime' \in [Inodes -> 0 .. now]
           /\ \A i \in Inodes : i # b => mtime'[i] = mtime[i] /\ fine'[i] = fine[i]
           /\ mtime'[b] \in {mtime[b], now}
           /\ \/ Active \in Names /\ dir' = dir /\ writes' = writes /\ fine' = fine
              \/ /\ lines[b] = <<>> /\ Active \notin Names
                 /\ mtime'[b] = now /\ writes' = writes + 1 /\ fine'[b] = writes + 1
  BY OpenFacts
<1>3. pc \in [Threads -> {"idle", "rename", "open", "write", "prune"}] /\ w \in Threads
      /\ Writers \subseteq Threads
  BY <1>1, Constants DEF FileTypes
<1>4. \A v \in Writers : pc'[v] # "idle" => pc[v] # "idle" /\ line'[v] = line[v]
  BY <1>1, <1>2, <1>3
<1>5. CASE Active \in Names
  <2>1. UNCHANGED <<now, files>>
    BY <1>1, <1>5 DEF Open, files
  <2>2. DOMAIN ts \subseteq DOMAIN ts'
    BY <1>1
  <2> QED BY <1>1, <1>4, <2>1, <2>2, ReaderRests
<1>6. CASE Active \notin Names
  <2>1. /\ Range(lines'[dir'[Active]]) = {} /\ Active \in Names'
        /\ mtime'[dir'[Active]] = now /\ fine'[dir'[Active]] = writes + 1 /\ writes' = writes + 1
    BY <1>2, <1>6, NoLines
  <2>2. \A m \in Names' : m = Active \/ (m \in Names /\ dir'[m] = dir[m])
    BY <1>2
  <2>3. \A m \in Names' :
           \/ m = Active /\ (reader.pc = "read" => reader.must \cap Range(lines'[dir'[m]]) = {})
           \/ \E n \in Names :
                /\ n = m \/ (n = Active /\ Active \notin Names')
                /\ reader.pc = "read" =>
                     reader.must \cap Range(lines'[dir'[m]]) \subseteq Range(lines[dir[n]])
    <3>1. lines' = lines
      BY <1>2
    <3> QED BY <2>1, <2>2, <3>1
  <2>4. ASSUME NEW f, f.newest \in 0 .. writes PROVE Stale(f)'
    <3>1. writes + 1 > f.newest
      BY <1>1, <2>4
    <3> QED BY <1>1, <2>1, <3>1 DEF Stale
  <2>5. writes' \in Nat /\ writes <= writes' /\ DOMAIN ts \subseteq DOMAIN ts'
    BY <1>1, <2>1
  <2> QED BY <1>1, <1>4, <2>3, <2>4, <2>5, ReaderKeeps
<1> QED BY <1>5, <1>6

\* So does a line that is written, which no reader must return.
LEMMA ReaderOnWrite ==
  ASSUME LogInv, ReaderInv, NEW w \in Writers, Write(w)
  PROVE  ReaderInv'
<1>1. /\ FileTypes /\ pc[w] = "write" /\ pc' = [pc EXCEPT ![w] = "idle"]
      /\ line' = [line EXCEPT ![w] = NoLine]
      /\ now' = now /\ ts' = ts /\ dir' = dir /\ reader' = reader /\ writes \in Nat /\ Names' = Names
  BY DEF Write, LogInv, FileTypes, Names
<1>2. PICK i, l : i = inode[w] /\ l = line[w]
  OBVIOUS
<1>3. /\ i \in Inodes /\ \E n \in Names : dir[n] = i
      /\ lines' \in [Inodes -> Seq(Lines)] /\ Range(lines'[i]) = Range(lines[i]) \cup {l}
      /\ \A j \in Inodes : j # i => lines'[j] = lines[j]
      /\ mtime' = [mtime EXCEPT ![i] = now]
      /\ writes' = writes + 1 /\ fine' = [fine EXCEPT ![i] = writes + 1]
  BY <1>2, WriteFacts
<1>4. /\ pc \in [Threads -> {"idle", "rename", "open", "write", "prune"}] /\ w \in Threads
      /\ Writers \subseteq Threads /\ line \in [Writers -> Lines \cup {NoLine}]
      /\ \A n \in Names : dir[n] \in Inodes
      /\ mtime \in [Inodes -> 0 .. now] /\ fine \in [Inodes -> 0 .. writes]
  BY <1>1, Constants DEF FileTypes
<1>5. \A v \in Writers : pc'[v] # "idle" => pc[v] # "idle" /\ line'[v] = line[v]
  BY <1>1, <1>4
<1>6. reader.pc = "read" => l \notin reader.must
  BY <1>1, <1>2 DEF ReaderInv, Passing
<1>7. \A m \in Names : Range(lines'[dir[m]]) \subseteq Range(lines[dir[m]]) \cup {l}
  BY <1>3, <1>4
<1>8. \A m \in Names' :
           \E n \in Names :
                /\ n = m \/ (n = Active /\ Active \notin Names')
                /\ reader.pc = "read" =>
                     reader.must \cap Range(lines'[dir'[m]]) \subseteq Range(lines[dir[n]])
  BY <1>1, <1>6, <1>7
<1>9. ASSUME NEW f, f.newest \in 0 .. writes PROVE Stale(f)'
  <2>1. writes + 1 > f.newest
    BY <1>1, <1>9
  <2>2. mtime'[i] = now /\ fine'[i] = writes + 1
    BY <1>3, <1>4
  <2> QED BY <1>1, <1>3, <2>1, <2>2 DEF Stale
<1>10. writes' \in Nat /\ writes <= writes' /\ DOMAIN ts \subseteq DOMAIN ts'
  BY <1>1, <1>3
<1> QED BY <1>1, <1>5, <1>8, <1>9, <1>10, ReaderKeeps

\* No file that was written to in this tick has expired.
LEMMA ReaderOnPrune ==
  ASSUME LogInv, ReaderInv, NEW n, Prune(n)
  PROVE  ReaderInv'
<1>1. /\ FileTypes /\ reader' = reader
      /\ dir' = IF Expired(n) THEN [m \in Names \ {n} |-> dir[m]] ELSE dir
      /\ now' = now /\ lines' = lines /\ mtime' = mtime /\ writes' = writes /\ fine' = fine
      /\ ts' = ts /\ pc' = pc /\ line' = line /\ writes \in Nat
  BY DEF Prune, LogInv, FileTypes
<1>2. now \in Nat /\ Horizon \in Nat
  BY <1>1, Constants DEF FileTypes
<1>3. /\ Names' \subseteq Names /\ \A m \in Names' : dir'[m] = dir[m]
      /\ \A m \in Names : m \in Names' \/ (m = n /\ Expired(n))
  BY <1>1 DEF Names
<1>4. Content(Names)' \subseteq Content(Names)
  <2>1. \A l : l \in Content(Names)' <=> \E m \in Names' : l \in Range(lines[dir'[m]])
    BY <1>1, ContentNext
  <2> QED BY <1>3, <2>1, ContentIs
<1>5. ASSUME NEW f, Stale(f) PROVE Stale(f)'
  <2>1. PICK m \in Names : fine[dir[m]] > f.newest /\ mtime[dir[m]] = now
    BY <1>5 DEF Stale
  <2>2. ~(m = n /\ Expired(n))
    BY <1>2, <2>1 DEF Expired
  <2> QED BY <1>1, <1>3, <2>1, <2>2 DEF Stale
<1>6. \A f : f.newest \in 0 .. writes =>
        Stale(f)' \/ (~Stale(f) /\ Content(Names)' \subseteq Content(Names))
  BY <1>4, <1>5
<1>7. \A m \in Names' :
           \E k \in Names :
                /\ k = m \/ (k = Active /\ Active \notin Names')
                /\ reader.pc = "read" =>
                     reader.must \cap Range(lines'[dir'[m]]) \subseteq Range(lines[dir[k]])
  BY <1>1, <1>3
<1>8. /\ writes' \in Nat /\ writes <= writes' /\ DOMAIN ts \subseteq DOMAIN ts'
      /\ \A w \in Writers : pc'[w] # "idle" => pc[w] # "idle" /\ line'[w] = line[w]
  BY <1>1
<1> QED BY <1>1, <1>6, <1>7, <1>8, ReaderKeeps

\* Time passes once the cache is up to date, and then it is not stale.
LEMMA ReaderOnAdvance ==
  ASSUME LogInv, ReaderInv, Advance
  PROVE  ReaderInv'
<1>1. /\ reader.pc = "idle" /\ reader.fp = Fingerprint(Names) /\ reader' = reader
      /\ dir' = dir /\ lines' = lines /\ writes' = writes /\ FileTypes
      /\ ReaderTypes /\ Cached
  BY DEF Advance, files, LogInv, ReaderInv
<1>2. ~Stale(reader.fp)
  <2>1. reader.fp.newest \in Int
    BY <1>1 DEF ReaderTypes
  <2> QED BY <1>1, <2>1, StaleDiffers
<1>3. Content(Names)' = Content(Names)
  BY <1>1 DEF Content, Names
<1>4. Cached'
  <2>1. reader.clean => Content(Names) \subseteq reader.held
    BY <1>1, <1>2 DEF Cached
  <2> QED BY <1>1, <1>3, <2>1 DEF Cached
<1>5. ReaderTypes' /\ Passing'
  BY <1>1 DEF ReaderTypes, Passing
<1> QED BY <1>4, <1>5 DEF ReaderInv
-----------------------------------------------------------------------------
(* The steps of a reader.                                                  *)

\* A reader changes nothing but what it knows.
LEMMA ReadingFacts ==
  ASSUME NEW r, Reading(r)
  PROVE  /\ reader' = r /\ UNCHANGED <<now, files, ts, steps, done, swept>>
         /\ now' = now /\ dir' = dir /\ lines' = lines /\ mtime' = mtime /\ fine' = fine
         /\ writes' = writes /\ ts' = ts /\ pc' = pc /\ line' = line /\ Names' = Names
         /\ Content(Names)' = Content(Names) /\ \A f : Stale(f)' <=> Stale(f)
BY DEF Reading, files, steps, Names, Content, Stale

\* Whatever a step does to the pass it makes, the cache it keeps stays as good.
LEMMA CacheKept ==
  ASSUME ReaderInv, NEW r, Reading(r), r.clean = reader.clean, r.fp = reader.fp,
         r.held = reader.held, r.missed = reader.missed
  PROVE  Cached'
<1>1. /\ reader' = r /\ Content(Names)' = Content(Names)
      /\ now' = now /\ dir' = dir /\ mtime' = mtime /\ fine' = fine /\ Names' = Names
  BY ReadingFacts
<1>2. Stale(reader.fp)' <=> Stale(reader.fp)
  BY <1>1 DEF Stale
<1> QED BY <1>1, <1>2 DEF ReaderInv, Cached

\* What ends a pass: the fields that are reset, and those that are not.
LEMMA ResetFacts ==
  ASSUME NEW r, DOMAIN r = Fields, NEW p
  PROVE  /\ DOMAIN Then(r, p) = Fields /\ Then(r, p).pc = p /\ Then(r, p).passes = r.passes
         /\ Then(r, p).next = r.next /\ Then(r, p).fp = r.fp /\ Then(r, p).held = r.held
         /\ Then(r, p).clean = r.clean /\ Then(r, p).missed = r.missed
         /\ DOMAIN Over(r) = Fields /\ Over(r).pc = "idle" /\ Over(r).passes = 0
         /\ Over(r).next = NoPrint /\ Over(r).fp = r.fp /\ Over(r).held = r.held
         /\ Over(r).clean = r.clean /\ Over(r).missed = r.missed
         /\ DOMAIN Again(r) = Fields /\ Again(r).pc = "list" /\ Again(r).passes = r.passes + 1
         /\ Again(r).next = r.next /\ Again(r).fp = r.fp /\ Again(r).held = r.held
         /\ Again(r).clean = r.clean /\ Again(r).missed = r.missed
BY DEF Then, Over, Again, Fields

LEMMA NoPrintNewest == NoPrint.newest = 0
BY DEF NoPrint

\* The types follow from those of the fields that a step changed.
LEMMA ReaderTyped ==
  ASSUME LogInv, NEW r, Reading(r), DOMAIN r = Fields,
         r.pc \in {"idle", "stat", "list", "read"}, r.clean \in BOOLEAN, r.passes \in 0 .. Passes,
         r.next.newest \in 0 .. writes, r.fp.newest \in 0 .. writes
  PROVE  ReaderTypes'
BY ReadingFacts DEF ReaderTypes

LEMMA ReaderOnRefresh ==
  ASSUME LogInv, ReaderInv, Refresh
  PROVE  ReaderInv'
<1>1. PICK r : r = [reader EXCEPT !.pc = "stat", !.listed = Names] /\ Reading(r)
  BY DEF Refresh
<1>2. ReaderTypes
  BY DEF ReaderInv
<1>3. /\ DOMAIN r = Fields /\ r.pc = "stat" /\ r.clean = reader.clean /\ r.passes = reader.passes
      /\ r.next = reader.next /\ r.fp = reader.fp /\ r.held = reader.held
      /\ r.missed = reader.missed
  BY <1>1, <1>2 DEF ReaderTypes, Fields
<1>4. ReaderTypes'
  BY <1>1, <1>2, <1>3, ReaderTyped DEF ReaderTypes
<1>5. Cached'
  BY <1>1, <1>3, CacheKept
<1>6. Passing'
  BY <1>1, <1>3, ReadingFacts DEF Passing
<1> QED BY <1>4, <1>5, <1>6 DEF ReaderInv

LEMMA ReaderOnStat ==
  ASSUME LogInv, ReaderInv, Stat
  PROVE  ReaderInv'
<1>1. PICK S, f : S = reader.listed /\ f = Fingerprint(S)
  OBVIOUS
<1>2. PICK r : /\ r = IF f = reader.fp THEN Over(reader)
                      ELSE [Then(reader, "list") EXCEPT !.next = f]
               /\ Reading(r)
  BY <1>1 DEF Stat
<1>3. ReaderTypes /\ FileTypes /\ 0 \in 0 .. Passes /\ 0 \in 0 .. writes
  BY Constants DEF ReaderInv, LogInv, FileTypes
<1>4. f.newest \in 0 .. writes
  BY <1>1, <1>3, NewestFacts
<1>5. /\ DOMAIN r = Fields /\ r.pc \in {"idle", "list"} /\ r.clean = reader.clean
      /\ r.passes \in {0, reader.passes} /\ r.fp = reader.fp /\ r.held = reader.held
      /\ r.missed = reader.missed /\ r.next.newest \in 0 .. writes
  <2>1. CASE f = reader.fp
    BY <1>2, <1>3, <2>1, ResetFacts, NoPrintNewest DEF ReaderTypes
  <2>2. CASE f # reader.fp
    <3>1. PICK q : q = Then(reader, "list")
      OBVIOUS
    <3>2. /\ DOMAIN q = Fields /\ q.pc = "list" /\ q.passes = reader.passes
          /\ q.fp = reader.fp /\ q.held = reader.held
          /\ q.clean = reader.clean /\ q.missed = reader.missed
      BY <1>3, <3>1, ResetFacts DEF ReaderTypes
    <3>3. r = [q EXCEPT !.next = f]
      BY <1>2, <2>2, <3>1
    <3> QED BY <1>4, <3>2, <3>3 DEF Fields
  <2> QED BY <2>1, <2>2
<1>6. ReaderTypes'
  BY <1>2, <1>3, <1>5, ReaderTyped DEF ReaderTypes
<1>7. Cached'
  BY <1>2, <1>5, CacheKept
<1>8. Passing'
  <2>1. reader' = r /\ r.pc # "read"
    BY <1>2, <1>5, ReadingFacts
  <2> QED BY <2>1 DEF Passing
<1> QED BY <1>6, <1>7, <1>8 DEF ReaderInv

\* A pass begins with every file to read, and must return all they hold.
LEMMA ReaderOnList ==
  ASSUME LogInv, ReaderInv, List
  PROVE  ReaderInv'
<1>1. PICK r : /\ r = [reader EXCEPT !.pc = "read", !.listed = Names, !.todo = Names, !.got = {},
                                     !.must = Content(Names)]
               /\ Reading(r)
  BY DEF List
<1>2. ReaderTypes /\ FileTypes /\ Written /\ Underway
  BY DEF ReaderInv, LogInv
<1>3. /\ DOMAIN r = Fields /\ r.pc = "read" /\ r.clean = reader.clean /\ r.passes = reader.passes
      /\ r.next = reader.next /\ r.fp = reader.fp /\ r.held = reader.held
      /\ r.missed = reader.missed
      /\ r.listed = Names /\ r.todo = Names /\ r.must = Content(Names)
  BY <1>1, <1>2 DEF ReaderTypes, Fields
<1>4. ReaderTypes'
  BY <1>1, <1>2, <1>3, ReaderTyped DEF ReaderTypes
<1>5. Cached'
  BY <1>1, <1>3, CacheKept
<1>6. Content(Names) \subseteq DOMAIN ts
  BY <1>2, LinesStamped, ContentIs
<1>7. \A w \in Writers : pc[w] # "idle" => line[w] \notin Content(Names)
  <2>1. \A n \in Names : dir[n] \in Inodes
    BY <1>2, LinesStamped
  <2> QED BY <1>2, <2>1, ContentIs DEF Underway
<1>8. Passing'
  <2>1. reader' = r /\ dir' = dir /\ lines' = lines /\ ts' = ts /\ pc' = pc /\ line' = line
        /\ Names' = Names /\ Content(Names)' = Content(Names)
    BY <1>1, ReadingFacts
  <2> QED BY <1>3, <1>6, <1>7, <2>1 DEF Passing
<1> QED BY <1>4, <1>5, <1>8 DEF ReaderInv

\* What is read of a file is what it holds.
LEMMA ReaderOnRead ==
  ASSUME LogInv, ReaderInv, Read
  PROVE  ReaderInv'
<1>1. ReaderTypes /\ Passing /\ reader.pc = "read"
  BY DEF ReaderInv, Read
<1>2. PICK n \in reader.todo :
        /\ Active \in reader.todo => n = Active
        /\ IF n \in Names \/ reader.passes = Passes
           THEN Reading([reader EXCEPT !.todo = reader.todo \ {n},
                                       !.got = reader.got \cup Content({n})])
           ELSE Reading(Again(reader))
  BY DEF Read
<1>3. CASE n \in Names \/ reader.passes = Passes
  <2>1. PICK r : /\ r = [reader EXCEPT !.todo = reader.todo \ {n},
                                       !.got = reader.got \cup Content({n})]
                 /\ Reading(r)
    BY <1>2, <1>3
  <2>2. /\ DOMAIN r = Fields /\ r.pc = "read" /\ r.clean = reader.clean
        /\ r.passes = reader.passes /\ r.next = reader.next /\ r.fp = reader.fp
        /\ r.held = reader.held /\ r.missed = reader.missed
        /\ r.listed = reader.listed /\ r.must = reader.must /\ r.todo = reader.todo \ {n}
        /\ r.got = reader.got \cup Content({n})
    BY <1>1, <2>1 DEF ReaderTypes, Fields
  <2>3. ReaderTypes'
    BY <1>1, <2>1, <2>2, ReaderTyped DEF ReaderTypes
  <2>4. Cached'
    BY <2>1, <2>2, CacheKept
  <2>5. /\ reader.todo \subseteq reader.listed
        /\ Active \in reader.todo => reader.todo = reader.listed
        /\ reader.must \subseteq DOMAIN ts
        /\ \A w \in Writers : pc[w] # "idle" => line[w] \notin reader.must
        /\ Active \in Names /\ Active \notin reader.listed
             => reader.must \cap Range(lines[dir[Active]]) = {}
        /\ reader.passes < Passes =>
             \A m \in Names : \/ reader.must \cap Range(lines[dir[m]]) \subseteq reader.got
                              \/ m \in reader.todo \/ m \notin reader.listed
        /\ Stale(reader.next) \/ Content(Names) \subseteq reader.must
    BY <1>1 DEF Passing
  <2>6. n \in Names => Range(lines[dir[n]]) \subseteq r.got
    BY <2>2 DEF Content
  <2>7. r.passes < Passes =>
             \A m \in Names : \/ r.must \cap Range(lines[dir[m]]) \subseteq r.got
                              \/ m \in r.todo \/ m \notin r.listed
    BY <2>2, <2>5, <2>6
  <2>8. r.todo \subseteq r.listed /\ (Active \in r.todo => r.todo = r.listed)
    BY <1>2, <2>2, <2>5
  <2>9. Passing'
    <3>1. reader' = r /\ dir' = dir /\ lines' = lines /\ ts' = ts /\ pc' = pc /\ line' = line
          /\ Names' = Names /\ Content(Names)' = Content(Names)
          /\ now' = now /\ mtime' = mtime /\ fine' = fine
      BY <2>1, ReadingFacts
    <3>2. Stale(reader.next)' <=> Stale(reader.next)
      BY <2>2, <3>1 DEF Stale
    <3> QED BY <2>2, <2>5, <2>7, <2>8, <3>1, <3>2 DEF Passing
  <2> QED BY <2>3, <2>4, <2>9 DEF ReaderInv
<1>4. CASE ~(n \in Names \/ reader.passes = Passes)
  <2>1. PICK r : r = Again(reader) /\ Reading(r)
    BY <1>2, <1>4
  <2>2. /\ DOMAIN r = Fields /\ r.pc = "list" /\ r.clean = reader.clean
        /\ r.passes = reader.passes + 1 /\ r.next = reader.next /\ r.fp = reader.fp
        /\ r.held = reader.held /\ r.missed = reader.missed
    BY <1>1, <2>1, ResetFacts DEF ReaderTypes
  <2>3. r.passes \in 0 .. Passes
    BY <1>1, <1>4, <2>2, Constants DEF ReaderTypes
  <2>4. ReaderTypes'
    BY <1>1, <2>1, <2>2, <2>3, ReaderTyped DEF ReaderTypes
  <2>5. Cached'
    BY <2>1, <2>2, CacheKept
  <2>6. Passing'
    BY <2>1, <2>2, ReadingFacts DEF Passing
  <2> QED BY <2>4, <2>5, <2>6 DEF ReaderInv
<1> QED BY <1>3, <1>4

\* What a clean pass returns is all that the log held and still holds.
LEMMA ReaderOnAdopt ==
  ASSUME LogInv, ReaderInv, Adopt
  PROVE  ReaderInv'
<1>1. /\ ReaderTypes /\ Passing /\ Cached /\ reader.pc = "read" /\ reader.todo = {}
      /\ 0 \in 0 .. Passes /\ 0 \in 0 .. writes
  BY Constants DEF ReaderInv, Adopt, LogInv, FileTypes
<1>2. CASE ~Unchanged /\ reader.passes < Passes
  <2>1. PICK r : r = Again(reader) /\ Reading(r)
    BY <1>2 DEF Adopt
  <2>2. /\ DOMAIN r = Fields /\ r.pc = "list" /\ r.clean = reader.clean
        /\ r.passes = reader.passes + 1 /\ r.next = reader.next /\ r.fp = reader.fp
        /\ r.held = reader.held /\ r.missed = reader.missed
    BY <1>1, <2>1, ResetFacts DEF ReaderTypes
  <2>3. r.passes \in 0 .. Passes
    BY <1>1, <1>2, <2>2, Constants DEF ReaderTypes
  <2>4. ReaderTypes'
    BY <1>1, <2>1, <2>2, <2>3, ReaderTyped DEF ReaderTypes
  <2>5. Cached'
    BY <2>1, <2>2, CacheKept
  <2>6. Passing'
    BY <2>1, <2>2, ReadingFacts DEF Passing
  <2> QED BY <2>4, <2>5, <2>6 DEF ReaderInv
<1>3. CASE ~(~Unchanged /\ reader.passes < Passes) /\ reader.got = {} /\ reader.next.bytes > 0
  <2>1. PICK r : r = Over(reader) /\ Reading(r)
    BY <1>3 DEF Adopt
  <2>2. /\ DOMAIN r = Fields /\ r.pc = "idle" /\ r.clean = reader.clean /\ r.passes = 0
        /\ r.next.newest = 0 /\ r.fp = reader.fp
        /\ r.held = reader.held /\ r.missed = reader.missed
    BY <1>1, <2>1, ResetFacts, NoPrintNewest DEF ReaderTypes
  <2>3. ReaderTypes'
    BY <1>1, <2>1, <2>2, ReaderTyped DEF ReaderTypes
  <2>4. Cached'
    BY <2>1, <2>2, CacheKept
  <2>5. Passing'
    BY <2>1, <2>2, ReadingFacts DEF Passing
  <2> QED BY <2>3, <2>4, <2>5 DEF ReaderInv
<1>4. CASE ~(~Unchanged /\ reader.passes < Passes) /\ ~(reader.got = {} /\ reader.next.bytes > 0)
  <2> DEFINE loss == IF reader.passes < Passes THEN Still \ reader.got ELSE {}
  <2>1. PICK q : q = [reader EXCEPT !.fp = Taken, !.held = reader.got,
                                    !.clean = reader.passes < Passes, !.missed = loss]
    OBVIOUS
  <2>2. PICK r : r = Over(q) /\ Reading(r)
    BY <1>4, <2>1 DEF Adopt
  <2> HIDE DEF loss
  <2>3. /\ DOMAIN q = Fields /\ q.fp = reader.next /\ q.held = reader.got
        /\ q.clean = (reader.passes < Passes) /\ q.missed = loss
    BY <1>1, <2>1 DEF ReaderTypes, Fields, Taken
  <2>4. /\ DOMAIN r = Fields /\ r.pc = "idle" /\ r.passes = 0 /\ r.next.newest = 0
        /\ r.fp = reader.next /\ r.held = reader.got
        /\ r.clean = (reader.passes < Passes) /\ r.missed = loss
    BY <2>2, <2>3, ResetFacts, NoPrintNewest
  <2>5. ReaderTypes'
    <3>1. r.clean \in BOOLEAN
      BY <2>4
    <3>2. reader.next.newest \in 0 .. writes
      BY <1>1 DEF ReaderTypes
    <3> QED BY <1>1, <2>2, <2>4, <3>1, <3>2, ReaderTyped
  <2>6. Passing'
    BY <2>2, <2>4, ReadingFacts DEF Passing
  <2>7. reader.passes < Passes => reader.must \cap Content(Names) \subseteq reader.got
    <3> SUFFICES ASSUME reader.passes < Passes, NEW l \in reader.must, l \in Content(Names)
                 PROVE  l \in reader.got
      OBVIOUS
    <3>1. PICK n \in Names : l \in Range(lines[dir[n]])
      BY ContentIs
    <3>2. n \in reader.listed
      BY <1>4 DEF Unchanged
    <3>3. reader.must \cap Range(lines[dir[n]]) \subseteq reader.got
      BY <1>1, <3>2 DEF Passing
    <3> QED BY <3>1, <3>3
  <2>8. loss = {}
    BY <2>7 DEF loss, Still
  <2>9. r.clean => Stale(reader.next) \/ Content(Names) \subseteq r.held
    BY <1>1, <2>4, <2>7 DEF Passing
  <2>10. Cached'
    <3>1. reader' = r /\ dir' = dir /\ Names' = Names /\ Content(Names)' = Content(Names)
          /\ now' = now /\ mtime' = mtime /\ fine' = fine
      BY <2>2, ReadingFacts
    <3>2. Stale(reader.fp)' <=> Stale(reader.next)
      BY <2>4, <3>1 DEF Stale
    <3> QED BY <2>4, <2>8, <2>9, <3>1, <3>2 DEF Cached
  <2> QED BY <2>5, <2>6, <2>10 DEF ReaderInv
<1> QED BY <1>2, <1>3, <1>4
-----------------------------------------------------------------------------
(* The theorems.                                                           *)

LEMMA InitRInv == Init => RInv
<1> SUFFICES ASSUME Init PROVE RInv
  OBVIOUS
<1>1. /\ now = 0 /\ dir = [n \in {} |-> 0] /\ Names = {}
      /\ lines = [i \in Inodes |-> <<>>] /\ mtime = [i \in Inodes |-> 0]
      /\ writes = 0 /\ fine = [i \in Inodes |-> 0]
      /\ ts = [l \in {} |-> 0] /\ DOMAIN ts = {}
      /\ pc = [t \in Threads |-> "idle"]
      /\ line = [w \in Writers |-> NoLine] /\ inode = [w \in Writers |-> 0]
      /\ target = [t \in Threads |-> Active]
      /\ holder = [p \in Pids |-> NoLine]
      /\ prune = {} /\ done = [l \in Lines |-> -1] /\ swept = {}
  BY DEF Init, Names, Pids
<1>2. MaxTime \in Nat /\ Horizon \in Nat /\ Passes \in Nat /\ Sweeper \in Threads
      /\ Writers \subseteq Threads
  BY Constants
<1>3. FileTypes
  <2>1. dir \in [Names -> Inodes] /\ ts \in [DOMAIN ts -> 0 .. now]
    BY <1>1
  <2>2. lines \in [Inodes -> Seq(Lines)] /\ mtime \in [Inodes -> 0 .. now]
        /\ fine \in [Inodes -> 0 .. writes] /\ now \in 0 .. MaxTime /\ writes \in Nat
    BY <1>1, <1>2
  <2>3. target \in [Threads -> FileNames] /\ holder \in [Pids -> Threads \cup {NoLine}]
        /\ pc \in [Threads -> {"idle", "rename", "open", "write", "prune"}]
    BY <1>1 DEF FileNames
  <2>4. line \in [Writers -> Lines \cup {NoLine}] /\ inode \in [Writers -> Inodes \cup {0}]
        /\ done \in [Lines -> -1 .. now] /\ prune \subseteq Archived /\ swept \subseteq 0 .. now
    BY <1>1
  <2> QED BY <1>1, <2>1, <2>2, <2>3, <2>4 DEF FileTypes
<1>4. OneName /\ TargetFree /\ Underway /\ Opened /\ Young /\ Sweeping /\ ExpiredGoes
  BY <1>1, <1>2 DEF OneName, TargetFree, Underway, Opened, Young, Sweeping, ExpiredGoes
<1>5. Written
  BY <1>1, NoLines DEF Written
<1>6. LinesLast
  BY <1>1 DEF LinesLast
<1>7. /\ DOMAIN reader = Fields /\ reader.pc = "idle" /\ reader.clean = TRUE /\ reader.passes = 0
      /\ reader.next = NoPrint /\ reader.fp = NoPrint /\ reader.missed = {}
  BY DEF Init, Fields
<1>8. ReaderTypes /\ Passing
  <2>1. reader.next.newest \in 0 .. writes /\ reader.fp.newest \in 0 .. writes
    BY <1>1, <1>7, NoPrintNewest
  <2>2. reader.passes \in 0 .. Passes /\ reader.clean \in BOOLEAN
    <3>1. reader.passes = 0 /\ 0 \in 0 .. Passes
      BY <1>2, <1>7
    <3>2. reader.clean \in BOOLEAN
      BY <1>7
    <3> QED BY <3>1, <3>2
  <2>3. ReaderTypes
    BY <1>7, <2>1, <2>2 DEF ReaderTypes
  <2> QED BY <1>7, <2>3 DEF Passing
<1>9. Cached
  BY <1>1, <1>7, ContentIs DEF Cached
<1> QED BY <1>3, <1>4, <1>5, <1>6, <1>8, <1>9 DEF RInv, LogInv, ReaderInv

LEMMA NextRInv == RInv /\ [Next]_vars => RInv'
<1> SUFFICES ASSUME LogInv, ReaderInv, [Next]_vars PROVE LogInv' /\ ReaderInv'
  BY DEF RInv
<1>1. ASSUME NEW w \in Writers, NEW l \in Lines, Append1(w, l) PROVE LogInv' /\ ReaderInv'
  <2>1. /\ l \notin DOMAIN ts /\ ts' = [k \in DOMAIN ts \cup {l} |-> IF k = l THEN now ELSE ts[k]]
        /\ line' = [line EXCEPT ![w] = l] /\ Judge(w, Large, "open") /\ dir' = dir
        /\ pc[w] = "idle" /\ reader' = reader /\ UNCHANGED <<now, files>>
    BY <1>1 DEF Append1, files
  <2>2. w \in Threads /\ Writers \subseteq Threads /\ line \in [Writers -> Lines \cup {NoLine}]
    BY Constants DEF LogInv, FileTypes
  <2>3. \A u \in Threads : u # w => pc'[u] = pc[u]
    BY <2>1, <2>2, JudgeFacts DEF LogInv
  <2>4. \A v \in Writers : pc'[v] # "idle" =>
           (pc[v] # "idle" /\ line'[v] = line[v]) \/ line'[v] \notin DOMAIN ts
    BY <2>1, <2>2, <2>3
  <2>5. DOMAIN ts \subseteq DOMAIN ts'
    BY <2>1
  <2> QED BY <1>1, <2>1, <2>4, <2>5, LogAppends, ReaderRests
<1>2. ASSUME NEW w \in Writers, Rotate(w) PROVE LogInv' /\ ReaderInv'
  BY <1>2, Constants, LogRenames, ReaderOnRename DEF Rotate
<1>3. ASSUME NEW w \in Writers, Open(w) PROVE LogInv' /\ ReaderInv'
  BY <1>3, LogOpens, ReaderOnOpen
<1>4. ASSUME NEW w \in Writers, Write(w) PROVE LogInv' /\ ReaderInv'
  BY <1>4, LogWrites, ReaderOnWrite
<1>5. ASSUME Sweep PROVE LogInv' /\ ReaderInv'
  <2>1. /\ reader' = reader /\ UNCHANGED <<now, files>> /\ DOMAIN ts \subseteq DOMAIN ts'
        /\ line' = line /\ pc' = [pc EXCEPT ![Sweeper] = "prune"]
    BY <1>5 DEF Sweep
  <2>2. \A w \in Writers : pc'[w] = pc[w]
    BY <2>1, Constants DEF LogInv, FileTypes
  <2> QED BY <1>5, <2>1, <2>2, LogSweeps, ReaderRests
<1>6. ASSUME NEW n \in prune, Prune(n) PROVE LogInv' /\ ReaderInv'
  BY <1>6, LogPrunes, ReaderOnPrune
<1>7. ASSUME Age PROVE LogInv' /\ ReaderInv'
  <2>1. /\ reader' = reader /\ UNCHANGED <<now, files>> /\ DOMAIN ts \subseteq DOMAIN ts'
        /\ line' = line /\ Judge(Sweeper, Aged, "idle") /\ pc[Sweeper] = "prune" /\ dir' = dir
    BY <1>7 DEF Age, files
  <2>2. \A w \in Writers : pc'[w] = pc[w]
    <3>1. \A u \in Threads : u # Sweeper => pc'[u] = pc[u]
      BY <2>1, Constants, JudgeFacts DEF LogInv
    <3> QED BY <3>1, Constants
  <2> QED BY <1>7, <2>1, <2>2, LogAges, ReaderRests
<1>8. ASSUME RotateAged PROVE LogInv' /\ ReaderInv'
  BY <1>8, Constants, LogRenames, ReaderOnRename DEF RotateAged
<1>9. ASSUME NEW t \in Threads, RotationFails(t) PROVE LogInv' /\ ReaderInv'
  <2>1. /\ reader' = reader /\ UNCHANGED <<now, files>> /\ DOMAIN ts \subseteq DOMAIN ts'
        /\ line' = line /\ pc[t] = "rename"
        /\ pc' = [pc EXCEPT ![t] = IF t = Sweeper THEN "idle" ELSE "open"]
    BY <1>9 DEF RotationFails
  <2>2. \A w \in Writers : pc'[w] # "idle" => pc[w] # "idle"
    BY <2>1, Constants DEF LogInv, FileTypes
  <2> QED BY <1>9, <2>1, <2>2, LogRotationFails, ReaderRests
<1>10. ASSUME Advance PROVE LogInv' /\ ReaderInv'
  BY <1>10, LogAdvances, ReaderOnAdvance
<1>11. ASSUME NEW r, Reading(r) PROVE LogInv'
  BY <1>11, LogRests, ReadingFacts
<1>12. ASSUME Refresh \/ Stat \/ List \/ Read \/ Adopt PROVE LogInv' /\ ReaderInv'
  <2>1. \E r : Reading(r)
    BY <1>12 DEF Refresh, Stat, List, Read, Adopt
  <2>2. LogInv'
    BY <1>11, <2>1
  <2>3. ReaderInv'
    BY <1>12, ReaderOnRefresh, ReaderOnStat, ReaderOnList, ReaderOnRead, ReaderOnAdopt
  <2> QED BY <2>2, <2>3
<1>13. ASSUME UNCHANGED vars PROVE LogInv' /\ ReaderInv'
  <2>1. UNCHANGED <<now, files, ts, steps, done, swept>> /\ reader' = reader
        /\ UNCHANGED <<now, files>> /\ ts' = ts /\ pc' = pc /\ line' = line
    BY <1>13 DEF vars, steps
  <2> QED BY <2>1, LogRests, ReaderRests
<1> QED
  BY <1>1, <1>2, <1>3, <1>4, <1>5, <1>6, <1>7, <1>8, <1>9, <1>10, <1>12, <1>13 DEF Next

\* The inductive invariant: files and names, where each line is and how old it
\* may be, and what a reader has yet to see.
THEOREM RollingInvariant == Spec => []RInv
BY InitRInv, NextRInv, PTL DEF Spec

\* No line is lost before its time: whatever rotations and sweeps overlap with
\* its append, it is in a file of the directory for a horizon.
THEOREM LinesAlwaysLast == Spec => []LinesLast
<1>1. RInv => LinesLast
  BY DEF RInv, LogInv
<1> QED BY <1>1, RollingInvariant, PTL

\* No line outlives two sweeps, one past the span and one the horizon after it,
\* however often the active file is written to.
THEOREM ExpiredAlwaysGoes == Spec => []ExpiredGoes
<1>1. RInv => ExpiredGoes
  BY DEF RInv, LogInv
<1> QED BY <1>1, RollingInvariant, PTL

\* No reader lacks a line: not of a clean pass, and not of a cache that such a
\* pass filled and whose fingerprint is the directory's.
THEOREM ReadsAlwaysMissNothing == Spec => []ReadsMissNothing
<1>1. RInv => ReadsMissNothing
  <2> SUFFICES ASSUME RInv PROVE ReadsMissNothing
    OBVIOUS
  <2>1. FileTypes /\ ReaderTypes /\ Cached
    BY DEF RInv, LogInv, ReaderInv
  <2>2. reader.fp = Fingerprint(Names) => ~Stale(reader.fp)
    <3>1. reader.fp.newest \in Int
      BY <2>1 DEF ReaderTypes
    <3> QED BY <2>1, <3>1, StaleDiffers
  <2> QED BY <2>1, <2>2 DEF ReadsMissNothing, CleanPassMissesNothing, CacheLacksNothing, Cached
<1> QED BY <1>1, RollingInvariant, PTL
=============================================================================
