----------------------------- MODULE RollingLog -----------------------------
(***************************************************************************)
(* A rolling append-only log (rolling.rs): one active file and the         *)
(* archives rotated out of it, in a directory that several processes share *)
(* without a lock.  Hooks append to it, rotating first when the active     *)
(* file is large; the receiver's sweep prunes archives whose newest line   *)
(* expired and then rotates an active file that holds an aged line; a      *)
(* reader lists the files, reads them one by one and lists them again.     *)
(*                                                                         *)
(* The reader is the session index's cache (session.rs), which reads again *)
(* only when the fingerprint of the files changed.                         *)
(*                                                                         *)
(* A file is an inode with its lines; a name of the directory refers to an *)
(* inode, and a writer keeps the inode it opened whatever becomes of its   *)
(* name.  A line is one write.  A tick of the clock is long: appends and   *)
(* sweeps end within one.                                                  *)
(***************************************************************************)
EXTENDS Integers, FiniteSets, Sequences, FiniteSetsExt, SequencesExt

CONSTANTS
  Lines,        \* what is ever appended
  SizeOf,       \* bytes of each line
  Writers,      \* threads that append
  Sweeper,      \* the thread that sweeps, in a process of its own
  PidOf,        \* the process of each thread
  RotateAt,     \* rotate_bytes
  Horizon,      \* retention
  Span,         \* rotation span: how long a file may span before the sweep rotates it
  Passes,       \* clean passes a reader tries, 4 in read_parsed
  NoLine,
  \* Bounds of the model.
  MaxTime,      \* the clock stops here
  MaxFiles,     \* inodes
  MaxSweeps     \* sweeps, one a tick at most

Threads == Writers \cup {Sweeper}
Inodes  == 1 .. MaxFiles
Active  == <<>>                                         \* <base>
Archive == (0 .. MaxTime) \X {PidOf[t] : t \in Threads} \X Nat  \* <base>.<date>.<pid>[.N]

ASSUME LogAssumption ==
  /\ IsFiniteSet(Lines) /\ IsFiniteSet(Writers)
  /\ Sweeper \notin Writers /\ NoLine \notin Lines \cup Threads
  /\ SizeOf \in [Lines -> Nat \ {0}]
  /\ DOMAIN PidOf = Threads /\ \A w \in Writers : PidOf[w] # PidOf[Sweeper]
  /\ {RotateAt, Passes, MaxFiles} \subseteq Nat \ {0}
  /\ {Horizon, Span, MaxTime, MaxSweeps} \subseteq Nat /\ Span <= Horizon

VARIABLES
  now,
  dir,      \* name -> inode, of the names that exist
  lines,    \* inode -> its lines, oldest first
  mtime,    \* inode -> its last write
  writes,   \* how many writes there were: what a fine-grained mtime distinguishes
  fine,     \* inode -> its last write, as fine as the file system keeps it
  ts,       \* line -> when it was stamped
  pc,       \* thread -> what it does next
  line,     \* writer -> the line it appends
  inode,    \* writer -> the file it has open
  target,   \* thread -> the name it is about to rename the active file to
  holder,   \* process -> the thread in its ROTATION lock
  prune,    \* the archives the sweep has yet to look at
  reader,   \* the cache and the refresh under way; clean and missed are history
  done,     \* history: line -> when its append returned; -1 before that
  swept     \* history: the times of the sweeps that ended

files  == <<dir, lines, mtime, writes, fine>>
steps  == <<pc, line, inode, target, holder, prune>>
vars   == <<now, files, ts, steps, reader, done, swept>>

Names == DOMAIN dir

Archived == Names \ {Active}

Bytes(i) == MapThenSumSet(LAMBDA l : SizeOf[l], Range(lines[i]))

\* Inodes that no file ever used.
Free == {i \in Inodes : lines[i] = <<>> /\ i \notin {dir[n] : n \in Names}
                          /\ \A w \in Writers : inode[w] # i}

-----------------------------------------------------------------------------
(***************************************************************************)
(* Rotation: under the process's lock, judge the active file, choose a     *)
(* name that does not exist, then rename.                                  *)
(***************************************************************************)

Name(t, n) == <<now, PidOf[t], n>>

\* A rotation that starts from the same name every time.
WrongTarget(t) == Name(t, 0)

Target(t) == Name(t, Min({n \in 0 .. MaxFiles : Name(t, n) \notin Names}))

\* t goes on to rename if the active file is due, and otherwise to next.
Judge(t, due, next) ==
  /\ holder[PidOf[t]] = NoLine
  /\ IF Active \in Names /\ due
     THEN /\ pc' = [pc EXCEPT ![t] = "rename"]
          /\ target' = [target EXCEPT ![t] = Target(t)]
          /\ holder' = [holder EXCEPT ![PidOf[t]] = t]
     ELSE /\ pc' = [pc EXCEPT ![t] = next]
          /\ UNCHANGED <<target, holder>>

\* The rename fails if another process rotated first, and replaces what is there.
Rename(t, next) ==
  /\ pc[t] = "rename"
  /\ dir' = IF Active \in Names
            THEN [n \in (Names \ {Active}) \cup {target[t]} |->
                    IF n = target[t] THEN dir[Active] ELSE dir[n]]
            ELSE dir
  /\ pc' = [pc EXCEPT ![t] = next]
  /\ holder' = [holder EXCEPT ![PidOf[t]] = NoLine] /\ target' = [target EXCEPT ![t] = Active]
  /\ UNCHANGED <<now, lines, mtime, writes, fine, ts, line, inode, prune, reader>>

\* It fails for another reason: an append goes on with the file as it is, a sweep ends without.
RotationFails(t) ==
  /\ pc[t] = "rename"
  /\ pc' = [pc EXCEPT ![t] = IF t = Sweeper THEN "idle" ELSE "open"]
  /\ holder' = [holder EXCEPT ![PidOf[t]] = NoLine] /\ target' = [target EXCEPT ![t] = Active]
  /\ UNCHANGED <<now, files, ts, line, inode, prune, reader, done, swept>>

-----------------------------------------------------------------------------
(***************************************************************************)
(* append                                                                  *)
(***************************************************************************)

Large == Bytes(dir[Active]) >= RotateAt

\* The line is stamped, and the active file's size is looked at.
Append1(w, l) ==
  /\ pc[w] = "idle" /\ l \notin DOMAIN ts
  /\ ts' = [k \in DOMAIN ts \cup {l} |-> IF k = l THEN now ELSE ts[k]]
  /\ line' = [line EXCEPT ![w] = l]
  /\ Judge(w, Large, "open")
  /\ UNCHANGED <<now, files, inode, prune, reader, done, swept>>

Rotate(w) == Rename(w, "open") /\ UNCHANGED <<done, swept>>

Open(w) ==
  /\ pc[w] = "open"
  /\ IF Active \in Names
     THEN /\ inode' = [inode EXCEPT ![w] = dir[Active]]
          /\ UNCHANGED files
     ELSE /\ Free # {}
          /\ LET i == Min(Free)
             IN /\ inode' = [inode EXCEPT ![w] = i]
                /\ dir' = [n \in Names \cup {Active} |-> IF n = Active THEN i ELSE dir[n]]
                /\ mtime' = [mtime EXCEPT ![i] = now]
                /\ writes' = writes + 1 /\ fine' = [fine EXCEPT ![i] = writes + 1]
                /\ UNCHANGED lines
  /\ pc' = [pc EXCEPT ![w] = "write"]
  /\ UNCHANGED <<now, ts, line, target, holder, prune, reader, done, swept>>

Write(w) ==
  /\ pc[w] = "write"
  /\ lines' = [lines EXCEPT ![inode[w]] = Append(@, line[w])]
  /\ mtime' = [mtime EXCEPT ![inode[w]] = now]
  /\ writes' = writes + 1 /\ fine' = [fine EXCEPT ![inode[w]] = writes + 1]
  /\ done' = [done EXCEPT ![line[w]] = now]
  /\ pc' = [pc EXCEPT ![w] = "idle"]
  /\ line' = [line EXCEPT ![w] = NoLine] /\ inode' = [inode EXCEPT ![w] = 0]
  /\ UNCHANGED <<now, dir, ts, target, holder, prune, reader, swept>>

-----------------------------------------------------------------------------
(***************************************************************************)
(* The sweep: SessionIndex::prune.                                         *)
(***************************************************************************)

\* An append that lost its file's name to a rotation ends before the next sweep.
NoneLate == \A w \in Writers :
  pc[w] = "write" => Active \in Names /\ inode[w] = dir[Active]

Sweep ==
  /\ pc[Sweeper] = "idle" /\ now \notin swept /\ Cardinality(swept) < MaxSweeps /\ NoneLate
  /\ prune' = Archived
  /\ pc' = [pc EXCEPT ![Sweeper] = "prune"]
  /\ UNCHANGED <<now, files, ts, line, inode, target, holder, reader, done, swept>>

Expired(n) == mtime[dir[n]] < now - Horizon

\* prune_matching, one archive.
Prune(n) ==
  /\ pc[Sweeper] = "prune" /\ n \in prune
  /\ prune' = prune \ {n}
  /\ dir' = IF Expired(n) THEN [m \in Names \ {n} |-> dir[m]] ELSE dir
  /\ UNCHANGED <<now, lines, mtime, writes, fine, ts, pc, line, inode, target, holder, reader,
                 done, swept>>

\* Only the last write tells the age.
WrongAged == mtime[dir[Active]] < now - Span

Aged ==
  \/ mtime[dir[Active]] < now - Span
  \/ lines[dir[Active]] # <<>> /\ ts[Head(lines[dir[Active]])] < now - Span

\* rotate_aged
Age ==
  /\ pc[Sweeper] = "prune" /\ prune = {}
  /\ Judge(Sweeper, Aged, "idle")
  /\ swept' = IF pc'[Sweeper] = "idle" THEN swept \cup {now} ELSE swept
  /\ UNCHANGED <<now, files, ts, line, inode, prune, reader, done>>

RotateAged == Rename(Sweeper, "idle") /\ swept' = swept \cup {now} /\ UNCHANGED done

-----------------------------------------------------------------------------
(***************************************************************************)
(* SessionIndexCache::refresh, and read_parsed in it.                      *)
(***************************************************************************)

Content(S) == UNION {Range(lines[dir[n]]) : n \in S \cap Names}

Fingerprint(S) ==
  [count |-> Cardinality(S),
   bytes |-> MapThenSumSet(LAMBDA n : Bytes(dir[n]), S \cap Names),
   newest |-> Max({0} \cup {fine[dir[n]] : n \in S \cap Names})]

NoPrint == [count |-> -1, bytes |-> 0, newest |-> 0]

\* The pass is over; what it read is gone, and the refresh goes on to p.
Then(r, p) == [r EXCEPT !.pc = p, !.listed = {}, !.todo = {}, !.got = {}, !.must = {}]

\* The pass is made again, against a fresh listing.
Again(r) == [Then(r, "list") EXCEPT !.passes = @ + 1]

\* The refresh ends; the cache keeps what it adopted.
Over(r) == [Then(r, "idle") EXCEPT !.passes = 0, !.next = NoPrint]

Reading(r) == reader' = r /\ UNCHANGED <<now, files, ts, steps, done, swept>>

\* What the reader must not miss: what the log holds when the pass starts, less
\* what a prune removes.
Still == reader.must \cap Content(Names)

Refresh ==
  /\ reader.pc = "idle"
  /\ Reading([reader EXCEPT !.pc = "stat", !.listed = Names])

\* The files it listed are looked at; one renamed or removed since adds nothing.
Stat ==
  /\ reader.pc = "stat"
  /\ LET fp == Fingerprint(reader.listed)
     IN Reading(IF fp = reader.fp THEN Over(reader)
                ELSE [Then(reader, "list") EXCEPT !.next = fp])

List ==
  /\ reader.pc = "list"
  /\ Reading([reader EXCEPT !.pc = "read", !.listed = Names, !.todo = Names, !.got = {},
                            !.must = Content(Names)])

\* Files are read in the order of their names, the active one first.
Read ==
  /\ reader.pc = "read" /\ reader.todo # {}
  /\ \E n \in reader.todo :
       /\ Active \in reader.todo => n = Active
       /\ IF n \in Names \/ reader.passes = Passes
          THEN Reading([reader EXCEPT !.todo = @ \ {n}, !.got = @ \cup Content({n})])
          ELSE Reading(Again(reader))

\* The second listing of a pass.
Unchanged == Names = reader.listed

\* The fingerprint as it is after the read.
WrongTaken == Fingerprint(Names)

Taken == reader.next

\* A pass over files that changed is made again, Passes times at most; then
\* whatever one more finds is taken.  Nothing at all, where the files held
\* bytes, is not adopted.
Adopt ==
  /\ reader.pc = "read" /\ reader.todo = {}
  /\ IF ~Unchanged /\ reader.passes < Passes
     THEN Reading(Again(reader))
     ELSE IF reader.got = {} /\ reader.next.bytes > 0
     THEN Reading(Over(reader))
     ELSE Reading(Over([reader EXCEPT !.fp = Taken, !.held = reader.got,
                          !.clean = reader.passes < Passes,
                          !.missed = IF reader.passes < Passes THEN Still \ reader.got ELSE {}]))

-----------------------------------------------------------------------------
\* No append and no sweep lasts until the next tick, and the cache is refreshed
\* at least once in it.
Advance ==
  /\ now < MaxTime /\ \A t \in Threads : pc[t] = "idle"
  /\ reader.pc = "idle" /\ reader.fp = Fingerprint(Names)
  /\ now' = now + 1
  /\ UNCHANGED <<files, ts, steps, reader, done, swept>>

Init ==
  /\ now = 0
  /\ dir = [n \in {} |-> 0]
  /\ lines = [i \in Inodes |-> <<>>] /\ mtime = [i \in Inodes |-> 0]
  /\ writes = 0 /\ fine = [i \in Inodes |-> 0]
  /\ ts = [l \in {} |-> 0]
  /\ pc = [t \in Threads |-> "idle"]
  /\ line = [w \in Writers |-> NoLine] /\ inode = [w \in Writers |-> 0]
  /\ target = [t \in Threads |-> Active]
  /\ holder = [p \in {PidOf[t] : t \in Threads} |-> NoLine]
  /\ prune = {}
  /\ reader = [pc |-> "idle", listed |-> {}, todo |-> {}, got |-> {}, must |-> {}, passes |-> 0,
               next |-> NoPrint, fp |-> NoPrint, held |-> {}, clean |-> TRUE, missed |-> {}]
  /\ done = [l \in Lines |-> -1]
  /\ swept = {}

Next ==
  \/ \E w \in Writers :
       \/ \E l \in Lines : Append1(w, l)
       \/ Rotate(w) \/ Open(w) \/ Write(w)
  \/ Sweep \/ (\E n \in prune : Prune(n)) \/ Age \/ RotateAged
  \/ \E t \in Threads : RotationFails(t)
  \/ Refresh \/ Stat \/ List \/ Read \/ Adopt
  \/ Advance

Spec == Init /\ [][Next]_vars

-----------------------------------------------------------------------------
(***************************************************************************)
(* Properties.                                                             *)
(***************************************************************************)

Fingerprints == [count : Nat \cup {-1}, bytes : Nat, newest : Nat]

\* A line that was appended is in a file of the directory until it is older than
\* the horizon: no rotation replaces an archive, and no prune takes a file that
\* an append is still writing to ("Call it after the same sweep's prune, never
\* before it", rotate_aged).
LinesLast ==
  \A l \in Lines : done[l] >= now - Horizon /\ done[l] >= 0 => l \in Content(Names)

\* A line does not outlive two sweeps, one that found it older than the rotation
\* span and one the horizon after that, however busy the log is.
ExpiredGoes ==
  \A l \in Content(Names), t1, t2 \in swept :
    ~(ts[l] < t1 - Span /\ t1 < t2 - Horizon)

\* A clean pass returns every line the log held when it started, but for those a
\* prune removed meanwhile ("a pass over an unchanged set is a consistent
\* snapshot", read_parsed).
CleanPassMissesNothing == reader.missed = {}

\* A cache that a clean pass filled and that finds its fingerprint unchanged lacks
\* no line of the log, though it took the fingerprint of files that were renamed,
\* created, appended to or removed while it looked at them and read them.  (What
\* is adopted after the last try, "a possible undercount", may lack one.)
CacheLacksNothing ==
  reader.pc = "idle" /\ reader.clean /\ reader.fp = Fingerprint(Names)
    => Content(Names) \subseteq reader.held

\* What a reader answers from, a pass or the cache, lacks no line it should have.
ReadsMissNothing == CleanPassMissesNothing /\ CacheLacksNothing

=============================================================================
