--------------------------- MODULE RecordingProofs ---------------------------
(***************************************************************************)
(* Theorems about what hooks leave behind: about Transcripts, for any      *)
(* subagents, requests, hooks at once and batch, and about SessionIndex,   *)
(* for any sessions, projects, retention and rotation.                     *)
(*                                                                         *)
(* TInv of the transcripts follows each hook.  Behind it, what the lines   *)
(* up to its offset bill is in the ledger or in the batch it is about to   *)
(* commit; before it, what it owes the event is recorded or still lies in  *)
(* a transcript it has yet to read.  A position is only such an offset     *)
(* after its commit, so it may be saved late, out of order or not at all.  *)
(*                                                                         *)
(* IInv of the index ties each promise to a line young enough to keep it,  *)
(* the renewals under way to the tick of the flush that found them, and    *)
(* the newest start of a session to the files: whatever has another row    *)
(* lies in no later file, so the sweep removes it no later.                *)
(***************************************************************************)
EXTENDS Transcripts, SessionIndex, SumFacts, FiniteSetTheorems, SequenceTheorems, TLAPS
-----------------------------------------------------------------------------
(* The operators of the community modules that the two modules use.        *)

\* Max is of the set, and bounds it.
LEMMA MaxFacts ==
  ASSUME NEW S, IsFiniteSet(S), S # {}, S \subseteq Int
  PROVE  Max(S) \in S /\ \A y \in S : y <= Max(S)
<1>1. \E x \in S : \A y \in S : x >= y
  BY Extremes
<1>2. Max(S) \in S /\ \A y \in S : Max(S) >= y
  BY <1>1 DEF Max
<1> QED
  BY <1>2

\* So does Min, from below.
LEMMA MinFacts ==
  ASSUME NEW S, IsFiniteSet(S), S # {}, S \subseteq Int
  PROVE  Min(S) \in S /\ \A y \in S : Min(S) <= y
<1>1. \E x \in S : \A y \in S : x <= y
  BY Extremes
<1> QED
  BY <1>1 DEF Min

\* A set made a sequence has the same elements.
LEMMA SequenceOfSet ==
  ASSUME NEW S, IsFiniteSet(S)
  PROVE  /\ SetToSeq(S) \in Seq(S)
         /\ \A x \in S : \E i \in DOMAIN SetToSeq(S) : SetToSeq(S)[i] = x
<1> DEFINE n == Cardinality(S)
<1>1. n \in Nat /\ IsFiniteSet(1..n) /\ Cardinality(1..n) = n
  BY FS_CardinalityType, FS_Interval
<1>2. \E f \in [1..n -> S] : IsInjective(f)
  <2>1. PICK f : f \in Bijection(1..n, S)
    BY <1>1, FS_SameCardinalityBij DEF ExistsBijection
  <2> QED
    BY <2>1 DEF Bijection, Injection, IsInjective
<1> DEFINE f == SetToSeq(S)
<1>3. f \in [1..n -> S] /\ IsInjective(f)
  BY <1>2 DEF SetToSeq
<1>4. f \in Injection(1..n, S)
  BY <1>3 DEF Injection, IsInjective
<1>5. f \in Surjection(1..n, S)
  BY <1>1, <1>4, FS_Injection
<1>6. \A x \in S : \E i \in 1..n : f[i] = x
  BY <1>5 DEF Surjection
<1>7. f \in Seq(S) /\ DOMAIN f = 1..n
  <2> HIDE DEF n, f
  <2> QED
    BY <1>1, <1>3, SeqDef
<1> QED
  BY <1>6, <1>7
-----------------------------------------------------------------------------
(* Transcripts: what lies before an offset.                                *)

\* The requests that lines 1 to n bill.
Before(lines, n) == {lines[i].request : i \in {j \in 1..n : lines[j].whole /\ lines[j].billed}}

\* Those that the lines after line n bill.
After(lines, n) ==
  {lines[i].request : i \in {j \in (n + 1)..Len(lines) : lines[j].whole /\ lines[j].billed}}

\* What a position says of the lines before it.
LEMMA BilledBefore ==
  ASSUME NEW lines \in Seq(TranscriptLine), NEW n \in 0..Len(lines)
  PROVE  Billed(SubSeq(lines, 1, n)) = Before(lines, n)
<1>1. SubSeq(lines, 1, n) = [i \in 1..n |-> lines[i]]
  OBVIOUS
<1>2. DOMAIN SubSeq(lines, 1, n) = 1..n /\ \A i \in 1..n : SubSeq(lines, 1, n)[i] = lines[i]
  BY <1>1
<1> DEFINE part == SubSeq(lines, 1, n)
<1> HIDE DEF part
<1> QED
  BY <1>2 DEF Billed, Responses, Before, part

\* Reading on from line m to line n.
LEMMA BilledBetween ==
  ASSUME NEW lines \in Seq(TranscriptLine), NEW m \in 0..Len(lines), NEW n \in m..Len(lines)
  PROVE  /\ Billed(SubSeq(lines, m + 1, n))
              = {lines[i].request : i \in {j \in (m + 1)..n : lines[j].whole /\ lines[j].billed}}
         /\ Before(lines, n) = Before(lines, m) \cup Billed(SubSeq(lines, m + 1, n))
         /\ After(lines, m) = Billed(SubSeq(lines, m + 1, n)) \cup After(lines, n)
         /\ IsFiniteSet(Responses(SubSeq(lines, m + 1, n)))
<1> DEFINE part == SubSeq(lines, m + 1, n)
<1>1. /\ DOMAIN part = 1..(n - m) /\ \A i \in 1..(n - m) : part[i] = lines[m + i]
      /\ {m, n, Len(lines)} \subseteq Nat
  OBVIOUS
<1> HIDE DEF part
<1>2. Billed(part) = {lines[i].request : i \in {j \in (m + 1)..n : lines[j].whole /\ lines[j].billed}}
  <2>1. ASSUME NEW r \in Billed(part)
        PROVE  r \in {lines[i].request : i \in {j \in (m + 1)..n : lines[j].whole /\ lines[j].billed}}
    <3>1. PICK i \in 1..(n - m) : part[i].whole /\ part[i].billed /\ r = part[i].request
      BY <1>1, <2>1 DEF Billed, Responses
    <3>2. m + i \in (m + 1)..n /\ part[i] = lines[m + i]
      BY <1>1
    <3> QED
      BY <3>1, <3>2
  <2>2. ASSUME NEW j \in (m + 1)..n, lines[j].whole, lines[j].billed
        PROVE  lines[j].request \in Billed(part)
    <3>1. j - m \in 1..(n - m) /\ part[j - m] = lines[j]
      BY <1>1
    <3> QED
      BY <1>1, <2>2, <3>1 DEF Billed, Responses
  <2> QED
    BY <2>1, <2>2
<1>3. Before(lines, n) = Before(lines, m) \cup Billed(part)
  <2>1. 1..n = (1..m) \cup ((m + 1)..n)
    BY <1>1
  <2> QED
    BY <1>2, <2>1 DEF Before
<1>4. After(lines, m) = Billed(part) \cup After(lines, n)
  <2>1. (m + 1)..Len(lines) = ((m + 1)..n) \cup ((n + 1)..Len(lines))
    BY <1>1
  <2> QED
    BY <1>2, <2>1 DEF After
<1>5. IsFiniteSet(Responses(part))
  <2>1. Responses(part) \subseteq 1..(n - m) /\ IsFiniteSet(1..(n - m))
    BY <1>1, FS_Interval DEF Responses
  <2> QED
    BY <2>1, FS_Subset
<1> QED
  BY <1>2, <1>3, <1>4, <1>5 DEF part

\* A line bills requests.
LEMMA BilledTypes == ASSUME NEW lines \in Seq(TranscriptLine) PROVE Billed(lines) \subseteq Requests
<1>1. \A i \in DOMAIN lines : lines[i].request \in Requests
  <2> SUFFICES ASSUME NEW i \in DOMAIN lines PROVE lines[i].request \in Requests
    OBVIOUS
  <2>1. lines[i] \in TranscriptLine
    OBVIOUS
  <2> QED
    BY <2>1 DEF TranscriptLine
<1> QED
  BY <1>1 DEF Billed, Responses

\* The whole transcript lies after line 0, and before its end.
LEMMA BilledAll ==
  ASSUME NEW lines \in Seq(TranscriptLine)
  PROVE  Billed(lines) = After(lines, 0) /\ Billed(lines) = Before(lines, Len(lines))
BY DEF Billed, Responses, After, Before
-----------------------------------------------------------------------------
(***************************************************************************)
(* Transcripts: the invariant.                                             *)
(***************************************************************************)

\* Where a hook is inside a transcript, and where it has yet to read on in it.
Inside == {"read", "write", "last write", "save", "position", "rename", "last rename"}
Onward == {"read", "write", "save", "rename"}

HookState ==
  [at : Inside \cup {"idle", "remember", "open", "done"}, event : {"none", "end", "agent"},
   todo : Seq(Transcripts), file : Nat, offset : Nat, batch : SUBSET Requests, started : Nat,
   failed : BOOLEAN, owed : SUBSET Requests]

TTypes ==
  /\ disk \in [Transcripts -> [file : Nat, lines : Seq(TranscriptLine)]] /\ files \in Nat
  /\ position \in [Transcripts -> [file : Nat, offset : Nat]]
  /\ list \subseteq Agents /\ named \subseteq list
  /\ hook \in [Hooks -> HookState]

\* A file is of the ones there were, and only its last line may be unfinished.
FilesOK ==
  \A p \in Transcripts :
    /\ disk[p].file <= files /\ (disk[p].file = 0 => disk[p].lines = <<>>)
    /\ \A i \in 1..(Len(disk[p].lines) - 1) : disk[p].lines[i].whole
    /\ position[p].file <= files /\ (position[p].file = 0 => position[p] = None)

\* The first n lines of the transcript, if it still is that file, are whole, and `S` has what
\* they bill.
Covered(file, p, n, S) ==
  file = disk[p].file =>
    /\ n <= Len(disk[p].lines) /\ \A i \in 1..n : disk[p].lines[i].whole
    /\ Before(disk[p].lines, n) \subseteq S

PositionsCover ==
  \A p \in Transcripts :
    position[p].file # 0 => Covered(position[p].file, p, position[p].offset, ledger)

\* What a hook will still read in the i-th of its transcripts.
Left(st, i) ==
  IF i = 1 /\ st.at \in Inside
  THEN IF st.at \in Onward /\ disk[st.todo[1]].file = st.file
       THEN After(disk[st.todo[1]].lines, st.offset) ELSE {}
  ELSE After(disk[st.todo[i]].lines, 0)

\* A hook recorded, or is about to, what lies behind it; what it owes it has recorded or will read.
HookOK(st) ==
  /\ st.at \in Inside => /\ st.todo # <<>> /\ st.file \in 1..files
                         /\ Covered(st.file, Head(st.todo), st.offset, ledger \cup st.batch)
  /\ st.at = "remember" => st.todo # <<>> /\ Head(st.todo) \in Agents
  /\ st.at \notin {"write", "last write"} => st.batch = {}
  /\ st.at = "done" => st.todo = <<>>
  /\ st.event = "end" /\ ~st.failed =>
       st.owed \subseteq ledger \cup st.batch \cup UNION {Left(st, i) : i \in DOMAIN st.todo}

TInv == TTypes /\ FilesOK /\ PositionsCover /\ \A h \in Hooks : HookOK(hook[h])

\* At first nothing is written, kept or owed.
LEMMA TInitOK == ASSUME TInit PROVE TInv
<1>1. TTypes
  <2>1. <<>> \in Seq(TranscriptLine) /\ <<>> \in Seq(Transcripts)
    OBVIOUS
  <2> QED
    BY <2>1 DEF TInit, TTypes, HookState, Idle, Gone, None
<1>2. FilesOK /\ PositionsCover
  BY DEF TInit, FilesOK, PositionsCover, Gone, None
<1>3. \A h \in Hooks : HookOK(hook[h])
  BY DEF TInit, HookOK, Idle, Inside
<1> QED
  BY <1>1, <1>2, <1>3 DEF TInv
-----------------------------------------------------------------------------
(* What Claude Code does to a transcript.                                  *)

\* The transcripts are what they were, or longer, or their last line is finished.
Grown ==
  \A p \in Transcripts :
    /\ disk'[p].file = disk[p].file \/ (disk[p].file = 0 /\ disk'[p].file = files + 1)
    /\ Len(disk[p].lines) <= Len(disk'[p].lines)
    /\ \A i \in 1..Len(disk[p].lines) :
         /\ disk'[p].lines[i].request = disk[p].lines[i].request
         /\ disk'[p].lines[i].billed = disk[p].lines[i].billed
         /\ disk[p].lines[i].whole => disk'[p].lines[i].whole

\* What was before an offset stays, and what is after it only grows.
LEMMA GrownLines ==
  ASSUME TTypes, TTypes', Grown, NEW p \in Transcripts, NEW n \in Nat
  PROVE  /\ After(disk[p].lines, n) \subseteq After(disk'[p].lines, n)
         /\ (\A i \in 1..n : disk[p].lines[i].whole) /\ n <= Len(disk[p].lines)
              => Before(disk'[p].lines, n) = Before(disk[p].lines, n)
                 /\ \A i \in 1..n : disk'[p].lines[i].whole
<1> DEFINE old == disk[p].lines
           new == disk'[p].lines
<1>1. /\ Len(old) \in Nat /\ Len(new) \in Nat /\ Len(old) <= Len(new)
      /\ \A i \in 1..Len(old) : /\ new[i].request = old[i].request /\ new[i].billed = old[i].billed
                                /\ old[i].whole => new[i].whole
  BY DEF Grown, TTypes
<1> HIDE DEF old, new
<1>2. After(old, n) \subseteq After(new, n)
  <2>1. ASSUME NEW j \in (n + 1)..Len(old), old[j].whole, old[j].billed
        PROVE  old[j].request \in After(new, n)
    <3>1. j \in 1..Len(old) /\ j \in (n + 1)..Len(new)
      BY <1>1
    <3> QED
      BY <1>1, <2>1, <3>1 DEF After
  <2> QED
    BY <2>1 DEF After
<1>3. ASSUME \A i \in 1..n : old[i].whole, n <= Len(old)
      PROVE  Before(new, n) = Before(old, n) /\ \A i \in 1..n : new[i].whole
  <2>1. \A i \in 1..n : i \in 1..Len(old)
    BY <1>1, <1>3
  <2>2. \A i \in 1..n : new[i].whole /\ new[i].billed = old[i].billed /\ new[i].request = old[i].request
    BY <1>1, <1>3, <2>1
  <2> QED
    BY <1>3, <2>2 DEF Before
<1> QED
  BY <1>2, <1>3 DEF old, new

\* Growing transcripts take nothing from what is covered or left.
LEMMA GrownInv ==
  ASSUME TInv, Grown, TTypes', FilesOK', files <= files', UNCHANGED <<position, ledger, hook>>
  PROVE  TInv'
<1> USE DEF TInv
<1>1. ASSUME NEW p \in Transcripts, NEW file \in 1..files, NEW n \in Nat, NEW S, Covered(file, p, n, S)
      PROVE  Covered(file, p, n, S)'
  <2> SUFFICES ASSUME file = disk'[p].file
               PROVE  /\ n <= Len(disk'[p].lines) /\ \A i \in 1..n : disk'[p].lines[i].whole
                      /\ Before(disk'[p].lines, n) \subseteq S
    BY DEF Covered
  <2>1. files \in Nat /\ Len(disk[p].lines) \in Nat /\ Len(disk'[p].lines) \in Nat
    BY DEF TTypes
  <2>2. file = disk[p].file
    BY <2>1 DEF Grown
  <2>3. /\ n <= Len(disk[p].lines) /\ \A i \in 1..n : disk[p].lines[i].whole
        /\ Before(disk[p].lines, n) \subseteq S
    BY <1>1, <2>2 DEF Covered
  <2>4. Len(disk[p].lines) <= Len(disk'[p].lines)
    BY DEF Grown
  <2>5. n <= Len(disk'[p].lines)
    BY <2>1, <2>3, <2>4
  <2>6. /\ Before(disk'[p].lines, n) = Before(disk[p].lines, n)
        /\ \A i \in 1..n : disk'[p].lines[i].whole
    BY <2>3, GrownLines
  <2> QED
    BY <2>3, <2>5, <2>6
<1>2. PositionsCover'
  <2> SUFFICES ASSUME NEW p \in Transcripts, position[p].file # 0
               PROVE  Covered(position[p].file, p, position[p].offset, ledger)'
    BY DEF PositionsCover
  <2>1. position[p].file \in 1..files /\ position[p].offset \in Nat
    BY DEF TTypes, FilesOK
  <2>2. Covered(position[p].file, p, position[p].offset, ledger)
    BY DEF PositionsCover
  <2> QED
    BY <1>1, <2>1, <2>2 DEF Covered
<1>3. ASSUME NEW h \in Hooks PROVE HookOK(hook[h])'
  <2>0. PICK st \in HookState : st = hook[h] /\ st = hook'[h]
    BY DEF TTypes
  <2>1. HookOK(st) /\ files \in Nat /\ files' \in Nat
    BY <2>0 DEF TTypes
  <2>9. st.at \in Inside => st.todo # <<>> /\ st.file \in 1..files
    BY <2>1 DEF HookOK
  <2>2. ASSUME st.at \in Inside
        PROVE  Covered(st.file, Head(st.todo), st.offset, ledger \cup st.batch)'
    <3>1. st.todo # <<>> /\ st.todo \in Seq(Transcripts)
      BY <2>1, <2>2 DEF HookOK, HookState
    <3>2. Head(st.todo) \in Transcripts
      BY <3>1
    <3>3. /\ st.file \in 1..files /\ st.offset \in Nat
          /\ Covered(st.file, Head(st.todo), st.offset, ledger \cup st.batch)
      BY <2>1, <2>2 DEF HookOK, HookState
    <3>4. \A S : Covered(st.file, Head(st.todo), st.offset, S)
               => Covered(st.file, Head(st.todo), st.offset, S)'
      BY <1>1, <3>2, <3>3
    <3> QED
      BY <3>3, <3>4 DEF Covered
  <2>3. ASSUME NEW i \in DOMAIN st.todo PROVE Left(st, i) \subseteq Left(st, i)'
    <3>1. st.todo[i] \in Transcripts /\ (i = 1 => st.todo[1] \in Transcripts) /\ st.offset \in Nat
      BY <2>3 DEF HookState
    <3>2. CASE i = 1 /\ st.at \in Inside
      <4>1. CASE st.at \in Onward /\ disk[st.todo[1]].file = st.file
        <5>1. st.file # 0
          BY <2>1, <2>9, <3>2
        <5>2. disk'[st.todo[1]].file = st.file
          BY <3>1, <3>2, <4>1, <5>1 DEF Grown
        <5> QED
          BY <3>1, <3>2, <4>1, <5>2, GrownLines DEF Left
      <4> QED
        BY <3>2, <4>1 DEF Left
    <3>3. CASE ~(i = 1 /\ st.at \in Inside)
      BY <3>1, <3>3, GrownLines DEF Left
    <3> QED
      BY <3>2, <3>3
  <2>4. UNION {Left(st, i) : i \in DOMAIN st.todo} \subseteq UNION {Left(st, i)' : i \in DOMAIN st.todo}
    BY <2>3
  <2>5. st.event = "end" /\ ~st.failed =>
          st.owed \subseteq ledger \cup st.batch \cup UNION {Left(st, i)' : i \in DOMAIN st.todo}
    BY <2>1, <2>4 DEF HookOK
  <2>6. st.at \in Inside => st.file \in 1..files' /\ st.todo # <<>>
    BY <2>1, <2>9
  <2>7. HookOK(st)'
    BY <2>1, <2>2, <2>5, <2>6 DEF HookOK
  <2> QED
    BY <2>0, <2>7
<1> QED
  BY <1>2, <1>3

\* A line is begun: it is not whole, so it bills nothing yet.
LEMMA BeginLineKeeps ==
  ASSUME TInv, NEW p \in Transcripts, NEW r \in Requests, NEW billed \in BOOLEAN,
         BeginLine(p, r, billed)
  PROVE  TInv'
<1> DEFINE line == [request |-> r, billed |-> billed, whole |-> FALSE]
           old  == disk[p].lines
           new  == disk'[p].lines
<1>1. /\ disk \in [Transcripts -> [file : Nat, lines : Seq(TranscriptLine)]] /\ files \in Nat
      /\ line \in TranscriptLine /\ old \in Seq(TranscriptLine) /\ disk[p].file <= files
      /\ disk[p].file = 0 => old = <<>>
      /\ \A i \in 1..(Len(old) - 1) : old[i].whole
  BY DEF TInv, TTypes, FilesOK, TranscriptLine
<1>2. /\ files' \in {files, files + 1} /\ (files' = files + 1 <=> disk[p].file = 0)
      /\ disk'[p].file = (IF disk[p].file = 0 THEN files + 1 ELSE disk[p].file)
      /\ new = Append(old, line)
      /\ \A q \in Transcripts : q # p => disk'[q] = disk[q]
      /\ disk' \in [Transcripts -> [file : Nat, lines : Seq(TranscriptLine)]]
  <2>1. line \in TranscriptLine /\ old \in Seq(TranscriptLine)
    BY <1>1
  <2>2. /\ disk[p].file = 0 => disk' = [disk EXCEPT ![p] = [file |-> files + 1, lines |-> <<line>>]]
                               /\ files' = files + 1
        /\ disk[p].file # 0 => disk' = [disk EXCEPT ![p].lines = Append(old, line)]
                               /\ files' = files
    BY DEF BeginLine, Exists
  <2> HIDE DEF line, old
  <2>3. /\ Append(old, line) \in Seq(TranscriptLine) /\ <<line>> \in Seq(TranscriptLine)
        /\ Append(<<>>, line) = <<line>>
    BY <2>1
  <2>4. CASE disk[p].file = 0
    <3>1. old = <<>>
      BY <1>1, <2>4
    <3>2. disk'[p] = [file |-> files + 1, lines |-> <<line>>] /\ files' = files + 1
          /\ \A q \in Transcripts : q # p => disk'[q] = disk[q]
      BY <1>1, <2>2, <2>4
    <3>3. disk'[p] \in [file : Nat, lines : Seq(TranscriptLine)] /\ new = Append(old, line)
          /\ disk'[p].file = files + 1
      BY <1>1, <2>3, <3>1, <3>2 DEF new
    <3>4. disk' \in [Transcripts -> [file : Nat, lines : Seq(TranscriptLine)]]
      BY <1>1, <2>2, <2>4, <3>2, <3>3
    <3> QED
      BY <1>1, <2>4, <3>2, <3>3, <3>4
  <2>5. CASE disk[p].file # 0
    <3>1. disk[p] \in [file : Nat, lines : Seq(TranscriptLine)]
      BY <1>1
    <3>2. disk'[p] = [disk[p] EXCEPT !.lines = Append(old, line)]
      BY <1>1, <2>2, <2>5
    <3>3. disk'[p] \in [file : Nat, lines : Seq(TranscriptLine)] /\ new = Append(old, line)
          /\ disk'[p].file = disk[p].file
      BY <2>3, <3>1, <3>2 DEF new
    <3>4. disk' \in [Transcripts -> [file : Nat, lines : Seq(TranscriptLine)]]
          /\ \A q \in Transcripts : q # p => disk'[q] = disk[q]
      BY <1>1, <2>2, <2>5, <3>2, <3>3
    <3> QED
      BY <1>1, <2>2, <2>5, <3>3, <3>4
  <2> QED
    BY <2>4, <2>5
<1>3. old # <<>> => old[Len(old)].whole
  BY <1>1 DEF BeginLine, Last
<1>4. \A i \in 1..Len(old) : old[i].whole /\ new[i] = old[i]
  <2>1. old # <<>> => 1..Len(old) = (1..(Len(old) - 1)) \cup {Len(old)}
    BY <1>1
  <2> QED
    BY <1>1, <1>2, <1>3, <2>1
<1>5. Len(new) = Len(old) + 1 /\ Len(old) \in Nat
  BY <1>1, <1>2
<1> HIDE DEF line, old, new
<1>6. Grown
  <2> SUFFICES ASSUME NEW q \in Transcripts
               PROVE  /\ disk'[q].file = disk[q].file \/ (disk[q].file = 0 /\ disk'[q].file = files + 1)
                      /\ Len(disk[q].lines) <= Len(disk'[q].lines)
                      /\ \A i \in 1..Len(disk[q].lines) :
                           /\ disk'[q].lines[i].request = disk[q].lines[i].request
                           /\ disk'[q].lines[i].billed = disk[q].lines[i].billed
                           /\ disk[q].lines[i].whole => disk'[q].lines[i].whole
    BY DEF Grown
  <2>1. CASE q = p
    BY <1>2, <1>4, <1>5, <2>1 DEF old, new
  <2>2. CASE q # p
    <3>1. Len(disk[q].lines) \in Nat
      BY <1>1
    <3> QED
      BY <1>2, <2>2, <3>1
  <2> QED
    BY <2>1, <2>2
<1>7. UNCHANGED <<position, list, named, ledger, hook>>
  BY DEF BeginLine, kept
<1>8. TTypes' /\ FilesOK' /\ files <= files'
  <2>1. files <= files' /\ files' \in Nat
    BY <1>1, <1>2
  <2>2. TTypes'
    BY <1>2, <1>7, <2>1 DEF TInv, TTypes
  <2>3. ASSUME NEW q \in Transcripts
        PROVE  /\ disk'[q].file <= files' /\ (disk'[q].file = 0 => disk'[q].lines = <<>>)
               /\ \A i \in 1..(Len(disk'[q].lines) - 1) : disk'[q].lines[i].whole
               /\ position[q].file <= files'
    <3>1. position[q].file \in Nat /\ position[q].file <= files /\ disk[q].file \in Nat /\ disk[q].file <= files
      BY DEF TInv, TTypes, FilesOK
    <3>2. CASE q = p
      <4>1. disk'[p].file <= files' /\ disk'[p].file # 0
        BY <1>1, <1>2, <2>1, <3>1, <3>2
      <4>2. \A i \in 1..(Len(new) - 1) : new[i].whole
        BY <1>4, <1>5
      <4> QED
        BY <1>1, <2>1, <3>1, <3>2, <4>1, <4>2 DEF new
    <3>3. CASE q # p
      BY <1>1, <1>2, <2>1, <3>1, <3>3 DEF TInv, FilesOK
    <3> QED
      BY <3>2, <3>3
  <2>4. \A q \in Transcripts : position[q].file = 0 => position[q] = None
    BY DEF TInv, FilesOK
  <2> QED
    BY <1>7, <2>1, <2>2, <2>3, <2>4 DEF FilesOK
<1> QED
  BY <1>6, <1>7, <1>8, GrownInv

\* A line is finished: it lies after every offset.
LEMMA FinishLineKeeps ==
  ASSUME TInv, NEW p \in Transcripts, FinishLine(p)
  PROVE  TInv'
<1> DEFINE old == disk[p].lines
           new == disk'[p].lines
           n   == Len(old)
<1>1. /\ disk \in [Transcripts -> [file : Nat, lines : Seq(TranscriptLine)]] /\ files \in Nat
      /\ old \in Seq(TranscriptLine) /\ disk[p].file <= files
      /\ old # <<>> /\ n \in Nat \ {0} /\ n \in DOMAIN old
      /\ \A i \in 1..(n - 1) : old[i].whole
  BY DEF TInv, TTypes, FilesOK, FinishLine
<1>2. disk' = [disk EXCEPT ![p] = [@ EXCEPT !.lines = [old EXCEPT ![n] = [@ EXCEPT !.whole = TRUE]]]]
  BY DEF FinishLine
<1>3. /\ new = [old EXCEPT ![n] = [@ EXCEPT !.whole = TRUE]]
      /\ disk'[p].file = disk[p].file
      /\ \A q \in Transcripts : q # p => disk'[q] = disk[q]
      /\ disk' \in [Transcripts -> [file : Nat, lines : Seq(TranscriptLine)]]
  <2>1. [old EXCEPT ![n] = [@ EXCEPT !.whole = TRUE]] \in Seq(TranscriptLine)
    <3>1. old[n] \in TranscriptLine
      BY <1>1
    <3>2. [old[n] EXCEPT !.whole = TRUE] \in TranscriptLine
      BY <3>1 DEF TranscriptLine
    <3> QED
      BY <1>1, <3>2
  <2> HIDE DEF old, n
  <2> QED
    BY <1>1, <1>2, <2>1
<1>4. /\ Len(new) = n /\ DOMAIN new = DOMAIN old
      /\ \A i \in 1..n : /\ new[i].request = old[i].request /\ new[i].billed = old[i].billed
                         /\ old[i].whole => new[i].whole
  <2>1. old[n] \in TranscriptLine
    BY <1>1
  <2>2. /\ [old[n] EXCEPT !.whole = TRUE].request = old[n].request
        /\ [old[n] EXCEPT !.whole = TRUE].billed = old[n].billed
        /\ [old[n] EXCEPT !.whole = TRUE].whole
    BY <2>1 DEF TranscriptLine
  <2>3. Len(new) = n /\ DOMAIN new = DOMAIN old /\ \A i \in 1..n : i # n => new[i] = old[i]
    BY <1>1, <1>3
  <2>4. new[n] = [old[n] EXCEPT !.whole = TRUE]
    BY <1>1, <1>3
  <2> HIDE DEF old, new, n
  <2> QED
    BY <2>2, <2>3, <2>4
<1> HIDE DEF old, new, n
<1>6. Grown
  <2> SUFFICES ASSUME NEW q \in Transcripts
               PROVE  /\ disk'[q].file = disk[q].file
                      /\ Len(disk[q].lines) <= Len(disk'[q].lines)
                      /\ \A i \in 1..Len(disk[q].lines) :
                           /\ disk'[q].lines[i].request = disk[q].lines[i].request
                           /\ disk'[q].lines[i].billed = disk[q].lines[i].billed
                           /\ disk[q].lines[i].whole => disk'[q].lines[i].whole
    BY DEF Grown
  <2>1. CASE q = p
    <3>1. Len(old) = n /\ Len(new) = n /\ n <= n
      BY <1>1, <1>4 DEF n
    <3> QED
      BY <1>3, <1>4, <2>1, <3>1 DEF old, new
  <2>2. CASE q # p
    <3>1. Len(disk[q].lines) \in Nat
      BY <1>1
    <3> QED
      BY <1>3, <2>2, <3>1
  <2> QED
    BY <2>1, <2>2
<1>7. UNCHANGED <<position, list, named, ledger, hook, files>>
  BY DEF FinishLine, kept
<1>8. TTypes'
  BY <1>3, <1>7 DEF TInv, TTypes
<1>9. FilesOK'
  <2>1. ASSUME NEW q \in Transcripts
        PROVE  /\ disk'[q].file <= files /\ (disk'[q].file = 0 => disk'[q].lines = <<>>)
               /\ \A i \in 1..(Len(disk'[q].lines) - 1) : disk'[q].lines[i].whole
    <3>1. CASE q = p
      <4>1. disk[p].file # 0
        BY <1>1 DEF TInv, FilesOK, old
      <4>2. \A i \in 1..(n - 1) : i \in 1..n /\ old[i].whole
        BY <1>1
      <4> QED
        BY <1>1, <1>3, <1>4, <3>1, <4>1, <4>2 DEF new
    <3>2. CASE q # p
      BY <1>3, <3>2 DEF TInv, FilesOK
    <3> QED
      BY <3>1, <3>2
  <2> QED
    BY <1>7, <2>1 DEF TInv, FilesOK
<1> QED
  BY <1>1, <1>6, <1>7, <1>8, <1>9, GrownInv

\* A transcript that is removed, or begins anew, has nothing to read or to cover, and nobody owes
\* what it held.
LEMMA LoseKeeps ==
  ASSUME TInv, NEW p \in Transcripts, Delete(p) \/ Replace(p)
  PROVE  TInv'
<1>1. PICK new : /\ new.lines = <<>> /\ new.file \in {0, files + 1} /\ Lose(p, new)
                 /\ files' = IF new.file = 0 THEN files ELSE files + 1
                 /\ new \in [file : Nat, lines : Seq(TranscriptLine)]
  <2>1. files \in Nat /\ <<>> \in Seq(TranscriptLine)
    BY DEF TInv, TTypes
  <2>2. CASE Delete(p)
    <3>1. Lose(p, Gone) /\ files' = files /\ Gone.lines = <<>> /\ Gone.file = 0
          /\ Gone \in [file : Nat, lines : Seq(TranscriptLine)]
      BY <2>1, <2>2 DEF Delete, Gone
    <3> QED
      BY <3>1
  <2>3. CASE Replace(p)
    <3> DEFINE fresh == [file |-> files + 1, lines |-> <<>>]
    <3>1. fresh.lines = <<>> /\ fresh.file = files + 1 /\ files + 1 # 0
          /\ fresh \in [file : Nat, lines : Seq(TranscriptLine)]
      BY <2>1
    <3>2. Lose(p, fresh) /\ files' = files + 1
      BY <2>3 DEF Replace
    <3> QED
      BY <3>1, <3>2
  <2> QED
    BY <2>2, <2>3
<1>2. /\ disk \in [Transcripts -> [file : Nat, lines : Seq(TranscriptLine)]] /\ files \in Nat
      /\ hook \in [Hooks -> HookState] /\ disk[p].lines \in Seq(TranscriptLine)
  BY DEF TInv, TTypes
<1>3. /\ disk'[p] = new /\ \A q \in Transcripts : q # p => disk'[q] = disk[q]
      /\ disk' \in [Transcripts -> [file : Nat, lines : Seq(TranscriptLine)]]
      /\ hook' = [h \in Hooks |-> [hook[h] EXCEPT !.owed = @ \ Billed(disk[p].lines)]]
      /\ UNCHANGED <<position, list, named, ledger>>
      /\ files' \in Nat /\ files <= files' /\ disk'[p].file <= files'
      /\ \A file \in 1..files : disk'[p].file # file
  BY <1>1, <1>2 DEF Lose, kept
<1>4. TTypes'
  <2>1. ASSUME NEW h \in Hooks PROVE hook'[h] \in HookState
    <3>1. hook[h] \in HookState /\ hook'[h] = [hook[h] EXCEPT !.owed = @ \ Billed(disk[p].lines)]
      BY <1>2, <1>3
    <3>2. (hook[h].owed \ Billed(disk[p].lines)) \in SUBSET Requests
      BY <3>1 DEF HookState
    <3> QED
      BY <3>1, <3>2 DEF HookState
  <2> QED
    BY <1>3, <2>1 DEF TInv, TTypes
<1>5. FilesOK'
  <2>1. ASSUME NEW q \in Transcripts
        PROVE  /\ disk'[q].file <= files' /\ (disk'[q].file = 0 => disk'[q].lines = <<>>)
               /\ \A i \in 1..(Len(disk'[q].lines) - 1) : disk'[q].lines[i].whole
               /\ position[q].file <= files' /\ (position[q].file = 0 => position[q] = None)
    <3>1. position[q].file \in Nat /\ position[q].file <= files /\ disk[q].file \in Nat
          /\ disk[q].file <= files
      BY DEF TInv, TTypes, FilesOK
    <3>2. position[q].file <= files' /\ (position[q].file = 0 => position[q] = None)
      BY <1>2, <1>3, <3>1 DEF TInv, FilesOK
    <3>3. CASE q = p
      BY <1>1, <1>3, <3>2, <3>3
    <3>4. CASE q # p
      <4>1. disk[q].file <= files'
        BY <1>2, <1>3, <3>1
      <4> QED
        BY <1>3, <3>2, <3>4, <4>1 DEF TInv, FilesOK
    <3> QED
      BY <3>3, <3>4
  <2> QED
    BY <1>3, <2>1 DEF FilesOK
<1>6. ASSUME NEW q \in Transcripts, NEW file \in 1..files, NEW n, NEW S, Covered(file, q, n, S)
      PROVE  Covered(file, q, n, S)'
  <2>1. CASE q = p
    BY <1>3, <2>1 DEF Covered
  <2>2. CASE q # p
    BY <1>3, <1>6, <2>2 DEF Covered
  <2> QED
    BY <2>1, <2>2
<1>7. PositionsCover'
  <2> SUFFICES ASSUME NEW q \in Transcripts, position[q].file # 0
               PROVE  Covered(position[q].file, q, position[q].offset, ledger)'
    BY <1>3 DEF PositionsCover
  <2>1. position[q].file \in 1..files
    BY DEF TInv, TTypes, FilesOK
  <2>2. Covered(position[q].file, q, position[q].offset, ledger)
    BY DEF TInv, PositionsCover
  <2>3. \A n, S : Covered(position[q].file, q, n, S) => Covered(position[q].file, q, n, S)'
    BY <1>3, <1>6, <2>1 DEF Covered
  <2> QED
    BY <1>3, <2>2, <2>3 DEF Covered
<1>8. ASSUME NEW h \in Hooks PROVE HookOK(hook[h])'
  <2>1. PICK st \in HookState, after \in HookState :
           st = hook[h] /\ after = hook'[h] /\ after = [st EXCEPT !.owed = @ \ Billed(disk[p].lines)]
    BY <1>2, <1>3, <1>4 DEF TTypes
  <2>2. HookOK(st)
    BY <2>1 DEF TInv
  <2>3. /\ after.at = st.at /\ after.todo = st.todo /\ after.file = st.file /\ after.offset = st.offset
        /\ after.batch = st.batch /\ after.event = st.event /\ after.failed = st.failed
        /\ after.owed = st.owed \ Billed(disk[p].lines) /\ st.todo \in Seq(Transcripts)
    BY <2>1 DEF HookState
  <2>4. st.at \in Inside => /\ st.todo # <<>> /\ st.file \in 1..files
                            /\ Covered(st.file, Head(st.todo), st.offset, ledger \cup st.batch)
    BY <2>2 DEF HookOK
  <2>5. ASSUME st.at \in Inside
        PROVE  /\ st.todo # <<>> /\ st.file \in 1..files'
               /\ Covered(st.file, Head(st.todo), st.offset, ledger \cup st.batch)'
    <3>1. Head(st.todo) \in Transcripts
      BY <2>3, <2>4, <2>5
    <3>2. \A n, S : Covered(st.file, Head(st.todo), n, S) => Covered(st.file, Head(st.todo), n, S)'
      BY <1>6, <2>4, <2>5, <3>1
    <3>3. st.file \in 1..files'
      BY <1>2, <1>3, <2>4, <2>5
    <3> QED
      BY <1>3, <2>4, <2>5, <3>2, <3>3 DEF Covered
  <2>6. ASSUME NEW i \in DOMAIN st.todo
        PROVE  Left(st, i) \subseteq Left(st, i)' \cup Billed(disk[p].lines)
    <3>1. st.todo[i] \in Transcripts /\ (i = 1 => st.todo[1] \in Transcripts) /\ st.offset \in Nat
      BY <2>3, <2>6 DEF HookState
    <3>2. CASE st.todo[i] # p
      BY <1>3, <3>1, <3>2 DEF Left
    <3>3. CASE st.todo[i] = p
      <4>1. Left(st, i) \subseteq After(disk[p].lines, st.offset) \cup After(disk[p].lines, 0)
        BY <3>3 DEF Left
      <4>2. After(disk[p].lines, st.offset) \subseteq After(disk[p].lines, 0)
        <5>1. (st.offset + 1)..Len(disk[p].lines) \subseteq (0 + 1)..Len(disk[p].lines)
          BY <1>2, <3>1
        <5> QED
          BY <5>1 DEF After
      <4>3. After(disk[p].lines, 0) = Billed(disk[p].lines)
        BY <1>2, BilledAll
      <4> QED
        BY <4>1, <4>2, <4>3
    <3> QED
      BY <3>2, <3>3
  <2>7. ASSUME after.event = "end", ~after.failed
        PROVE  after.owed \subseteq ledger \cup st.batch \cup UNION {Left(st, i)' : i \in DOMAIN st.todo}
    <3>1. st.owed \subseteq ledger \cup st.batch \cup UNION {Left(st, i) : i \in DOMAIN st.todo}
      BY <2>2, <2>3, <2>7 DEF HookOK
    <3> QED
      BY <2>3, <2>6, <3>1
  <2>8. ASSUME NEW i PROVE Left(after, i)' = Left(st, i)'
    BY <2>3 DEF Left
  <2>9. UNION {Left(after, i)' : i \in DOMAIN after.todo} = UNION {Left(st, i)' : i \in DOMAIN st.todo}
    BY <2>3, <2>8
  <2>10. /\ after.at = "remember" => after.todo # <<>> /\ Head(after.todo) \in Agents
         /\ after.at \notin {"write", "last write"} => after.batch = {}
         /\ after.at = "done" => after.todo = <<>>
    BY <2>2, <2>3 DEF HookOK
  <2>11. HookOK(after)'
    BY <1>3, <2>3, <2>5, <2>7, <2>9, <2>10 DEF HookOK
  <2> QED
    BY <2>1, <2>11
<1> QED
  BY <1>4, <1>5, <1>7, <1>8 DEF TInv
-----------------------------------------------------------------------------
(* A hook's steps.                                                         *)

\* What one hook records takes nothing from what the others and the positions cover.
LEMMA HookMoves ==
  ASSUME TInv, NEW h \in Hooks, NEW st \in HookState, HookOK(st)',
         hook' = [hook EXCEPT ![h] = st], UNCHANGED <<disk, files>>, ledger \subseteq ledger',
         list' \subseteq Agents, named' \subseteq list',
         position' \in [Transcripts -> [file : Nat, offset : Nat]],
         \A p \in Transcripts : position'[p] # position[p] =>
           /\ position'[p].file \in 1..files
           /\ Covered(position'[p].file, p, position'[p].offset, ledger)
  PROVE  TInv'
<1>1. TTypes'
  BY DEF TInv, TTypes
<1>2. FilesOK'
  <2>1. \A p \in Transcripts : position'[p].file <= files /\ (position'[p].file = 0 => position'[p] = None)
    <3> SUFFICES ASSUME NEW p \in Transcripts
                 PROVE  position'[p].file <= files /\ (position'[p].file = 0 => position'[p] = None)
      OBVIOUS
    <3>1. files \in Nat
      BY DEF TInv, TTypes
    <3>2. CASE position'[p] = position[p]
      BY <3>2 DEF TInv, FilesOK
    <3>3. CASE position'[p] # position[p]
      <4>1. position'[p].file \in 1..files
        BY <3>3
      <4> QED
        BY <3>1, <4>1
    <3> QED
      BY <3>2, <3>3
  <2> QED
    BY <2>1 DEF TInv, FilesOK
<1>4. PositionsCover'
  <2> SUFFICES ASSUME NEW p \in Transcripts, position'[p].file # 0
               PROVE  Covered(position[p].file, p, position[p].offset, ledger)'
    BY DEF PositionsCover
  <2>1. PICK pos \in [file : Nat, offset : Nat] : pos = position'[p]
    OBVIOUS
  <2>2. Covered(pos.file, p, pos.offset, ledger)
    <3>1. CASE position'[p] = position[p]
      BY <2>1, <3>1 DEF TInv, PositionsCover
    <3>2. CASE position'[p] # position[p]
      BY <2>1, <3>2
    <3> QED
      BY <3>1, <3>2
  <2>3. Covered(pos.file, p, pos.offset, ledger)'
    BY <2>2 DEF Covered
  <2> QED
    BY <2>1, <2>3 DEF Covered
<1>5. ASSUME NEW g \in Hooks, g # h PROVE HookOK(hook[g])'
  <2>1. PICK other \in HookState : other = hook[g] /\ other = hook'[g]
    BY <1>5 DEF TInv, TTypes
  <2>2. HookOK(other)
    BY <2>1 DEF TInv
  <2>3. \A i : Left(other, i)' = Left(other, i)
    BY DEF Left
  <2>4. HookOK(other)'
    <3>1. other.at \in Inside =>
            /\ other.todo # <<>> /\ other.file \in 1..files
            /\ Covered(other.file, Head(other.todo), other.offset, ledger \cup other.batch)'
      <4>1. ASSUME other.at \in Inside
            PROVE  /\ other.todo # <<>> /\ other.file \in 1..files
                   /\ Covered(other.file, Head(other.todo), other.offset, ledger \cup other.batch)
        BY <2>2, <4>1 DEF HookOK
      <4>2. ledger \cup other.batch \subseteq ledger' \cup other.batch
        OBVIOUS
      <4> QED
        BY <4>1, <4>2 DEF Covered
    <3>2. other.event = "end" /\ ~other.failed =>
            other.owed \subseteq ledger' \cup other.batch
                                 \cup UNION {Left(other, i)' : i \in DOMAIN other.todo}
      BY <2>2, <2>3 DEF HookOK
    <3>3. /\ other.at = "remember" => other.todo # <<>> /\ Head(other.todo) \in Agents
          /\ other.at \notin {"write", "last write"} => other.batch = {}
          /\ other.at = "done" => other.todo = <<>>
      BY <2>2 DEF HookOK
    <3> QED
      BY <3>1, <3>2, <3>3 DEF HookOK
  <2> QED
    BY <2>1, <2>4
<1>6. HookOK(hook[h])'
  <2>1. hook'[h] = st
    BY DEF TInv, TTypes
  <2> QED
    BY <2>1
<1> QED
  BY <1>1, <1>2, <1>4, <1>5, <1>6 DEF TInv

\* A step that only moves the hook.
LEMMA HookMovesOnly ==
  ASSUME TInv, NEW h \in Hooks, NEW st \in HookState, HookOK(st),
         hook' = [hook EXCEPT ![h] = st], UNCHANGED <<disk, files, ledger, position>>,
         list' \subseteq Agents, named' \subseteq list'
  PROVE  TInv'
<1>1. HookOK(st)'
  BY DEF HookOK, Left, Covered
<1>2. position' \in [Transcripts -> [file : Nat, offset : Nat]]
  BY DEF TInv, TTypes
<1> QED
  BY <1>1, <1>2, HookMoves

\* The next transcript: nothing is left of this one.
LEMMA NextKeeps ==
  ASSUME NEW st \in HookState, HookOK(st), st.todo # <<>>,
         NEW failed \in BOOLEAN, st.failed => failed,
         failed \/ (st.batch \subseteq ledger /\ Left(st, 1) \subseteq ledger),
         NEW after, after = [st EXCEPT !.todo = Tail(@), !.at = "open", !.batch = {}, !.failed = failed]
  PROVE  after \in HookState /\ HookOK(after)
<1>1. st.todo \in Seq(Transcripts) /\ Tail(st.todo) \in Seq(Transcripts)
      /\ Len(st.todo) \in Nat \ {0} /\ Len(Tail(st.todo)) = Len(st.todo) - 1
      /\ \A i \in 1..(Len(st.todo) - 1) : Tail(st.todo)[i] = st.todo[i + 1]
  BY DEF HookState
<1>2. after \in HookState /\ after.at = "open" /\ after.batch = {} /\ after.failed = failed
      /\ after.todo = Tail(st.todo) /\ after.event = st.event /\ after.owed = st.owed
  BY <1>1 DEF HookState
<1>3. \A i \in DOMAIN after.todo : i + 1 \in DOMAIN st.todo /\ Left(after, i) = Left(st, i + 1)
  <2> SUFFICES ASSUME NEW i \in DOMAIN after.todo
               PROVE  i + 1 \in DOMAIN st.todo /\ Left(after, i) = Left(st, i + 1)
    OBVIOUS
  <2>1. i \in 1..(Len(st.todo) - 1)
    BY <1>1, <1>2
  <2>2. i + 1 \in DOMAIN st.todo /\ i + 1 # 1 /\ after.todo[i] = st.todo[i + 1]
    BY <1>1, <1>2, <2>1
  <2>3. Left(after, i) = After(disk[st.todo[i + 1]].lines, 0)
    BY <1>2, <2>2 DEF Left, Inside
  <2>4. Left(st, i + 1) = After(disk[st.todo[i + 1]].lines, 0)
    BY <2>2 DEF Left
  <2> QED
    BY <2>2, <2>3, <2>4
<1>4. ASSUME after.event = "end", ~after.failed
      PROVE  after.owed \subseteq ledger \cup UNION {Left(after, i) : i \in DOMAIN after.todo}
  <2>1. st.owed \subseteq ledger \cup st.batch \cup UNION {Left(st, i) : i \in DOMAIN st.todo}
    BY <1>2, <1>4 DEF HookOK, HookState
  <2>2. ASSUME NEW i \in DOMAIN st.todo, i # 1
        PROVE  \E j \in DOMAIN after.todo : Left(st, i) = Left(after, j)
    <3>1. i - 1 \in DOMAIN after.todo /\ (i - 1) + 1 = i
      BY <1>1, <1>2, <2>2
    <3> QED
      BY <1>3, <3>1
  <2>3. st.batch \subseteq ledger /\ Left(st, 1) \subseteq ledger
    BY <1>2, <1>4
  <2>4. \A i \in DOMAIN st.todo :
          Left(st, i) \subseteq ledger \cup UNION {Left(after, j) : j \in DOMAIN after.todo}
    BY <2>2, <2>3
  <2> QED
    BY <1>2, <2>1, <2>3, <2>4
<1> QED
  BY <1>2, <1>4 DEF HookOK, Inside

\* A turn ends: what is owed lies in the transcripts to read.
LEMMA EndDueKeeps == ASSUME TInv, NEW h \in Hooks, EndDue(h) PROVE TInv'
<1>1. PICK st : st = [Idle EXCEPT !.at = "open", !.event = "end", !.owed = Owed, !.todo = EndReads]
  OBVIOUS
<1>2. IsFiniteSet(list) /\ list \subseteq Agents /\ named \subseteq list
  BY TranscriptsAssumption, FS_Subset DEF TInv, TTypes
<1>3. /\ SetToSeq(list) \in Seq(list)
      /\ \A x \in list : \E i \in DOMAIN SetToSeq(list) : SetToSeq(list)[i] = x
  BY <1>2, SequenceOfSet
<1>4. EndReads \in Seq(Transcripts) /\ \A p \in {Main} \cup list : \E i \in DOMAIN EndReads : EndReads[i] = p
  <2> DEFINE rest == SetToSeq(list)
  <2>1. /\ rest \in Seq(Transcripts) /\ <<Main>> \in Seq(Transcripts) /\ EndReads = <<Main>> \o rest
        /\ \A x \in list : \E i \in DOMAIN rest : rest[i] = x
    BY <1>2, <1>3 DEF Transcripts, EndReads
  <2> HIDE DEF rest
  <2>2. /\ EndReads \in Seq(Transcripts) /\ DOMAIN EndReads = 1..(1 + Len(rest)) /\ Len(rest) \in Nat
        /\ EndReads[1] = Main /\ \A i \in 1..Len(rest) : EndReads[i + 1] = rest[i]
    BY <2>1
  <2>3. \A p \in list : \E i \in DOMAIN EndReads : EndReads[i] = p
    <3> SUFFICES ASSUME NEW p \in list PROVE \E i \in DOMAIN EndReads : EndReads[i] = p
      OBVIOUS
    <3>1. PICK i \in 1..Len(rest) : rest[i] = p
      BY <2>1
    <3>2. i + 1 \in DOMAIN EndReads
      BY <2>2
    <3> QED
      BY <2>2, <3>1, <3>2
  <2>4. 1 \in DOMAIN EndReads
    BY <2>2
  <2> QED
    BY <2>2, <2>3, <2>4
<1>5. \A p \in Transcripts : disk[p].lines \in Seq(TranscriptLine)
  BY DEF TInv, TTypes
<1>6. Owed \subseteq Requests
  <2> SUFFICES ASSUME NEW p \in {Main} \cup named PROVE Billed(disk[p].lines) \subseteq Requests
    BY DEF Owed
  <2>1. disk[p].lines \in Seq(TranscriptLine)
    BY <1>2, <1>5 DEF Transcripts
  <2> QED
    BY <2>1, BilledTypes
<1>7. st \in HookState /\ st.at = "open" /\ st.todo = EndReads /\ st.owed = Owed /\ st.batch = {}
  BY <1>1, <1>4, <1>6 DEF HookState, Idle
<1>8. st.owed \subseteq UNION {Left(st, i) : i \in DOMAIN st.todo}
  <2> SUFFICES ASSUME NEW p \in {Main} \cup named, NEW r \in Billed(disk[p].lines)
               PROVE  \E i \in DOMAIN st.todo : r \in Left(st, i)
    BY <1>7 DEF Owed
  <2>1. PICK i \in DOMAIN st.todo : st.todo[i] = p
    BY <1>2, <1>4, <1>7
  <2>2. Left(st, i) = After(disk[p].lines, 0)
    BY <1>7, <2>1 DEF Left, Inside
  <2>3. Billed(disk[p].lines) = After(disk[p].lines, 0)
    BY <1>2, <1>5, BilledAll DEF Transcripts
  <2> QED
    BY <2>2, <2>3
<1>9. HookOK(st)
  BY <1>7, <1>8 DEF HookOK, Inside
<1>10. /\ hook' = [hook EXCEPT ![h] = st] /\ UNCHANGED <<disk, files, ledger, position>>
       /\ list' \subseteq Agents /\ named' \subseteq list'
  BY <1>1, <1>2 DEF EndDue, claude, kept
<1> QED
  BY <1>7, <1>9, <1>10, HookMovesOnly

\* A subagent ends: nothing is owed.
LEMMA AgentDueKeeps == ASSUME TInv, NEW h \in Hooks, NEW a \in Agents, AgentDue(h, a) PROVE TInv'
<1>1. PICK st : st = [Idle EXCEPT !.at = IF a \in list THEN "open" ELSE "remember", !.event = "agent",
                                  !.todo = <<a>>]
  OBVIOUS
<1>2. <<a>> \in Seq(Transcripts) /\ <<a>> # <<>> /\ Head(<<a>>) = a
  BY DEF Transcripts
<1>3. /\ st \in HookState /\ st.at \in {"open", "remember"} /\ st.event = "agent" /\ st.batch = {}
      /\ st.todo = <<a>>
  BY <1>1, <1>2 DEF HookState, Idle
<1>4. HookOK(st)
  BY <1>2, <1>3 DEF HookOK, Inside
<1>5. /\ hook' = [hook EXCEPT ![h] = st] /\ UNCHANGED <<disk, files, ledger, position>>
      /\ list' \subseteq Agents /\ named' \subseteq list'
  BY <1>1 DEF AgentDue, claude, kept, TInv, TTypes
<1> QED
  BY <1>3, <1>4, <1>5, HookMovesOnly

\* A hook that moves between two places outside any transcript.
LEMMA OpenKeeps ==
  ASSUME NEW st \in HookState, HookOK(st), st.at \notin Inside, NEW after, after = [st EXCEPT !.at = "open"]
  PROVE  after \in HookState /\ HookOK(after)
<1>1. after \in HookState /\ after.at = "open" /\ "open" \notin Inside
  BY DEF HookState, Inside
<1>2. /\ after.todo = st.todo /\ after.batch = st.batch /\ after.event = st.event
      /\ after.failed = st.failed /\ after.owed = st.owed /\ st.batch = {}
  BY DEF HookState, HookOK, Inside
<1>3. \A i : Left(after, i) = Left(st, i)
  BY <1>1, <1>2 DEF Left
<1> QED
  BY <1>1, <1>2, <1>3 DEF HookOK

\* The list of subagents grows, or fails to.
LEMMA RememberKeeps ==
  ASSUME TInv, NEW h \in Hooks, Remember(h) \/ RememberFails(h) PROVE TInv'
<1>1. PICK st \in HookState : st = hook[h]
  BY DEF TInv, TTypes
<1>2. HookOK(st) /\ st.at = "remember"
  BY <1>1 DEF TInv, Remember, RememberFails
<1>3. PICK after : after = [st EXCEPT !.at = "open"]
  OBVIOUS
<1>4. after \in HookState /\ HookOK(after)
  BY <1>2, <1>3, OpenKeeps DEF Inside
<1>5. hook' = [hook EXCEPT ![h] = after] /\ UNCHANGED <<disk, files, ledger, position>>
  BY <1>1, <1>3 DEF Remember, RememberFails, claude, kept
<1>6. list' \subseteq Agents /\ named' \subseteq list'
  <2>1. list \subseteq Agents /\ named \subseteq list
    BY DEF TInv, TTypes
  <2>2. Head(hook[h].todo) \in Agents
    BY <1>1, <1>2 DEF HookOK
  <2> QED
    BY <2>1, <2>2 DEF Remember, RememberFails, kept
<1> QED
  BY <1>4, <1>5, <1>6, HookMovesOnly

\* A transcript is opened where its position, if it counts, covers what lies before.
LEMMA OpenStepKeeps == ASSUME TInv, NEW h \in Hooks, Open(h) PROVE TInv'
<1>1. PICK st \in HookState : st = hook[h]
  BY DEF TInv, TTypes
<1>2. HookOK(st) /\ st.at = "open" /\ st.todo # <<>> /\ st.batch = {}
  BY <1>1 DEF TInv, Open, HookOK
<1> DEFINE p == Head(st.todo)
           lines == disk[p].lines
<1>3. /\ p \in Transcripts /\ p = st.todo[1] /\ 1 \in DOMAIN st.todo
      /\ lines \in Seq(TranscriptLine) /\ disk[p].file \in Nat /\ disk[p].file <= files /\ files \in Nat
      /\ position[p] \in [file : Nat, offset : Nat]
  BY <1>2 DEF TInv, TTypes, FilesOK, HookState
<1>4. /\ StartOf(p) \in 0..Len(lines) /\ \A i \in 1..StartOf(p) : lines[i].whole
      /\ Before(lines, StartOf(p)) \subseteq ledger
  <2>1. CASE StartOf(p) = 0
    BY <1>3, <2>1 DEF Before
  <2>2. CASE StartOf(p) # 0
    <3>1. /\ position[p] # None /\ position[p].file = disk[p].file /\ StartOf(p) = position[p].offset
          /\ position[p].offset <= Len(lines)
      BY <2>2 DEF StartOf
    <3>2. position[p].file # 0
      BY <1>3, <3>1 DEF TInv, FilesOK
    <3>3. Covered(position[p].file, p, position[p].offset, ledger)
      BY <1>3, <3>2 DEF TInv, PositionsCover
    <3> QED
      BY <1>3, <3>1, <3>3 DEF Covered
  <2> QED
    BY <2>1, <2>2
<1>5. UNCHANGED <<disk, files, ledger, position, list, named>> /\ list \subseteq Agents /\ named \subseteq list
  BY DEF Open, claude, kept, TInv, TTypes
<1>6. After(lines, 0) = Before(lines, Len(lines)) /\ Left(st, 1) = After(lines, 0)
  BY <1>2, <1>3, BilledAll DEF Left, Inside
<1>7. CASE ~Exists(p) \/ StartOf(p) = Len(lines)
  <2>1. Left(st, 1) \subseteq ledger
    <3>1. CASE ~Exists(p)
      <4>1. lines = <<>>
        BY <1>3, <3>1 DEF Exists, TInv, FilesOK
      <4> QED
        BY <1>6, <4>1 DEF After
    <3>2. CASE StartOf(p) = Len(lines)
      BY <1>4, <1>6, <3>2
    <3> QED
      BY <1>7, <3>1, <3>2
  <2>2. PICK after : after = [st EXCEPT !.todo = Tail(@), !.at = "open", !.batch = {}, !.failed = st.failed]
    OBVIOUS
  <2>3. after \in HookState /\ HookOK(after)
    <3>1. st.failed \in BOOLEAN
      BY DEF HookState
    <3> QED
      BY <1>2, <2>1, <2>2, <3>1, NextKeeps
  <2>4. after = NextOf(h)
    BY <1>1, <2>2 DEF NextOf, HookState
  <2>5. hook' = [hook EXCEPT ![h] = after]
    BY <1>1, <1>7, <2>4 DEF Open
  <2> QED
    BY <1>5, <2>3, <2>5, HookMovesOnly
<1>8. CASE ~(~Exists(p) \/ StartOf(p) = Len(lines))
  <2>1. PICK after : after = [st EXCEPT !.at = "read", !.file = disk[p].file,
                                        !.started = StartOf(p), !.offset = StartOf(p)]
    OBVIOUS
  <2>2. hook' = [hook EXCEPT ![h] = after]
    BY <1>1, <1>8, <2>1 DEF Open
  <2>3. disk[p].file \in 1..files /\ StartOf(p) \in Nat
    BY <1>3, <1>4, <1>8 DEF Exists
  <2> DEFINE start == StartOf(p)
  <2> HIDE DEF start
  <2>4. /\ after \in HookState /\ after.at = "read" /\ after.file = disk[p].file /\ after.offset = start
        /\ after.todo = st.todo /\ after.event = st.event /\ after.failed = st.failed
        /\ after.owed = st.owed /\ after.batch = st.batch
    BY <1>3, <2>1, <2>3 DEF HookState, Inside, start
  <2>5. Covered(after.file, Head(after.todo), after.offset, ledger \cup after.batch)
    BY <1>3, <1>4, <2>4 DEF Covered, start
  <2>6. \A i \in DOMAIN st.todo : i # 1 => Left(after, i) = Left(st, i)
    BY <2>4 DEF Left
  <2>7. Left(st, 1) \subseteq ledger \cup Left(after, 1)
    <3>1. Left(after, 1) = After(lines, start)
      BY <1>3, <2>4 DEF Left, Inside, Onward
    <3>2. After(lines, 0) \subseteq Before(lines, start) \cup After(lines, start)
      <4>1. \A j \in (0 + 1)..Len(lines) : j \in 1..start \/ j \in (start + 1)..Len(lines)
        BY <1>3, <2>3 DEF start
      <4> QED
        BY <4>1 DEF After, Before
    <3> QED
      BY <1>4, <1>6, <3>1, <3>2 DEF start
  <2>8. ASSUME after.event = "end", ~after.failed
        PROVE  after.owed \subseteq ledger \cup after.batch \cup UNION {Left(after, i) : i \in DOMAIN after.todo}
    <3>1. st.owed \subseteq ledger \cup st.batch \cup UNION {Left(st, i) : i \in DOMAIN st.todo}
      BY <1>2, <2>4, <2>8 DEF HookOK
    <3> QED
      BY <1>2, <1>3, <2>4, <2>6, <2>7, <3>1
  <2>9. HookOK(after)
    BY <1>2, <2>3, <2>4, <2>5, <2>8 DEF HookOK, Inside
  <2> QED
    BY <1>5, <2>2, <2>4, <2>9, HookMovesOnly
<1> QED
  BY <1>7, <1>8

\* The lines read are whole, and unless they fill a batch no whole line is left behind them.
LEMMA ReadableFacts ==
  ASSUME NEW lines \in Seq(TranscriptLine), NEW from \in 0..Len(lines)
  PROVE  LET to    == LastReadable(lines, from)
             found == Cardinality(Responses(SubSeq(lines, from + 1, to)))
         IN /\ to \in from..Len(lines) /\ (to > from => lines[to].whole)
            /\ found \in Nat
            /\ found = 0 => Billed(SubSeq(lines, from + 1, to)) = {}
            /\ found < Batch => After(lines, to) = {}
<1> DEFINE Enough(k) == Cardinality(Responses(SubSeq(lines, from + 1, k))) >= Batch
           whole == {k \in from..Len(lines) : k > from => lines[k].whole}
           full  == {k \in whole : Enough(k)}
           to    == LastReadable(lines, from)
           part  == SubSeq(lines, from + 1, to)
<1>1. to = IF full # {} THEN Min(full) ELSE Max(whole)
  BY DEF LastReadable
<1>2. /\ from \in Nat /\ Len(lines) \in Nat /\ from \in whole /\ whole \subseteq Int /\ full \subseteq whole
      /\ Batch \in Nat \ {0}
  BY TranscriptsAssumption
<1>3. IsFiniteSet(whole) /\ IsFiniteSet(full)
  <2>1. IsFiniteSet(from..Len(lines)) /\ whole \subseteq from..Len(lines)
    BY <1>2, FS_Interval
  <2> QED
    BY <2>1, <1>2, FS_Subset
<1>4. whole # {} /\ full \subseteq Int
  BY <1>2
<1>5. full # {} => to \in full
  <2> HIDE DEF whole, full, to
  <2> QED
    BY <1>1, <1>3, <1>4, MinFacts
<1>6. full = {} => to \in whole /\ \A k \in whole : k <= to
  <2> HIDE DEF whole, full, to
  <2> QED
    BY <1>1, <1>2, <1>3, <1>4, MaxFacts
<1>7. to \in whole
  BY <1>2, <1>5, <1>6
<1>8. to \in from..Len(lines) /\ (to > from => lines[to].whole)
  <2> HIDE DEF to
  <2> QED
    BY <1>7
<1>9. IsFiniteSet(Responses(part)) /\ Cardinality(Responses(part)) \in Nat
  BY <1>2, <1>8, BilledBetween, FS_CardinalityType
<1>10. Cardinality(Responses(part)) = 0 => Billed(part) = {}
  BY <1>9, FS_EmptySet DEF Billed
<1>11. Cardinality(Responses(part)) < Batch => full = {}
  <2>1. full # {} => Enough(to)
    BY <1>5
  <2> HIDE DEF full, to, whole
  <2>2. full # {} => Cardinality(Responses(part)) >= Batch
    BY <2>1
  <2> QED
    BY <1>2, <1>9, <2>2
<1>12. full = {} => After(lines, to) = {}
  <2> SUFFICES ASSUME full = {}, NEW j \in (to + 1)..Len(lines), lines[j].whole PROVE FALSE
    BY DEF After
  <2> HIDE DEF to
  <2>1. j \in from..Len(lines) /\ j > to
    BY <1>2, <1>8
  <2>2. j \in whole
    BY <2>1
  <2> HIDE DEF whole, full
  <2> QED
    BY <1>6, <2>1, <2>2, <1>2, <1>8
<1> QED
  BY <1>8, <1>9, <1>10, <1>11, <1>12

\* Lines are read into a batch.
LEMMA ReadLinesKeeps == ASSUME TInv, NEW h \in Hooks, ReadLines(h) PROVE TInv'
<1>1. PICK st \in HookState : st = hook[h]
  BY DEF TInv, TTypes
<1>2. HookOK(st) /\ st.at = "read" /\ st.todo # <<>> /\ st.batch = {} /\ st.file \in 1..files
  BY <1>1 DEF TInv, ReadLines, HookOK, Inside
<1> DEFINE p     == st.todo[1]
           lines == IF disk[p].file = st.file THEN disk[p].lines ELSE <<>>
           from  == st.offset
           to    == IF from > Len(lines) THEN from ELSE LastReadable(lines, from)
           read  == SubSeq(lines, from + 1, to)
           found == Cardinality(Responses(read))
<1>3. PICK after : after = [st EXCEPT !.offset = to, !.batch = Billed(read),
                              !.at = IF found >= Batch THEN "write"
                                     ELSE IF found > 0 THEN "last write" ELSE "position"]
  OBVIOUS
<1>4. /\ p \in Transcripts /\ p = Head(st.todo) /\ 1 \in DOMAIN st.todo /\ from \in Nat
      /\ disk[p].lines \in Seq(TranscriptLine) /\ lines \in Seq(TranscriptLine) /\ Len(lines) \in Nat
      /\ files \in Nat /\ Batch \in Nat \ {0}
  <2>1. st.todo \in Seq(Transcripts) /\ st.offset \in Nat
    BY DEF HookState
  <2>2. p \in Transcripts /\ p = Head(st.todo) /\ 1 \in DOMAIN st.todo
    BY <1>2, <2>1
  <2>3. disk[p].lines \in Seq(TranscriptLine) /\ files \in Nat
    BY <2>2 DEF TInv, TTypes
  <2>4. lines \in Seq(TranscriptLine)
    <3> HIDE DEF p
    <3> QED
      BY <2>3
  <2> HIDE DEF p, lines
  <2> QED
    BY <2>1, <2>2, <2>3, <2>4, TranscriptsAssumption
<1>5. hook' = [hook EXCEPT ![h] = after]
  <2>1. Reachable(h) = lines
    BY <1>1, <1>4 DEF Reachable
  <2> QED
    BY <1>1, <1>3, <2>1 DEF ReadLines
<1>6. UNCHANGED <<disk, files, ledger, position, list, named>> /\ list \subseteq Agents /\ named \subseteq list
  BY DEF ReadLines, claude, kept, TInv, TTypes
<1>7. disk[p].file = st.file => /\ from \in 0..Len(lines) /\ \A i \in 1..from : lines[i].whole
                                /\ Before(lines, from) \subseteq ledger
  BY <1>2, <1>4 DEF HookOK, Inside, Covered
<1>8. from > Len(lines) => read = <<>> /\ found = 0
  <2>1. from > Len(lines) => read = <<>>
    BY <1>4
  <2>2. Responses(<<>>) = {} /\ Cardinality({}) = 0
    BY FS_EmptySet DEF Responses
  <2> QED
    BY <2>1, <2>2
<1>9. /\ to \in Nat /\ to >= from /\ found \in Nat /\ (found = 0 => Billed(read) = {})
      /\ Billed(read) \subseteq Requests
      /\ from <= Len(lines) => to \in from..Len(lines) /\ (to > from => lines[to].whole)
      /\ from <= Len(lines) /\ found < Batch => After(lines, to) = {}
  <2> HIDE DEF lines, from
  <2>1. CASE from <= Len(lines)
    <3>1. from \in 0..Len(lines) /\ to = LastReadable(lines, from)
      BY <1>4, <2>1
    <3>2. /\ to \in from..Len(lines) /\ (to > from => lines[to].whole)
          /\ found \in Nat /\ (found = 0 => Billed(read) = {})
          /\ found < Batch => After(lines, to) = {}
      BY <1>4, <3>1, ReadableFacts
    <3>3. read \in Seq(TranscriptLine)
      BY <1>4, <3>1, <3>2
    <3> HIDE DEF to, read, found
    <3> QED
      BY <1>4, <3>1, <3>2, <3>3, BilledTypes
  <2>2. CASE from > Len(lines)
    <3>1. Billed(<<>>) = {}
      BY DEF Billed, Responses
    <3>2. read = <<>> /\ found = 0 /\ to = from
      BY <1>8, <2>2
    <3> HIDE DEF read, found, to
    <3> QED
      BY <1>4, <2>2, <3>1, <3>2
  <2> QED
    BY <1>4, <2>1, <2>2
<1> HIDE DEF to, read, found
<1>10. /\ after \in HookState /\ after.offset = to /\ after.batch = Billed(read)
       /\ after.at = (IF found >= Batch THEN "write" ELSE IF found > 0 THEN "last write" ELSE "position")
       /\ after.todo = st.todo /\ after.file = st.file /\ after.event = st.event
       /\ after.failed = st.failed /\ after.owed = st.owed
  BY <1>3, <1>9 DEF HookState, Inside
<1>11. Covered(after.file, Head(after.todo), after.offset, ledger \cup after.batch)
  <2> SUFFICES ASSUME disk[p].file = st.file
               PROVE  /\ to <= Len(lines) /\ \A i \in 1..to : lines[i].whole
                      /\ Before(lines, to) \subseteq ledger \cup Billed(read)
    BY <1>4, <1>10 DEF Covered
  <2>1. to \in from..Len(lines) /\ lines = disk[p].lines /\ from \in 0..Len(lines)
    BY <1>4, <1>7, <1>9
  <2>2. Before(lines, to) = Before(lines, from) \cup Billed(read)
    <3> HIDE DEF lines, from
    <3> QED
      BY <1>4, <2>1, BilledBetween DEF read
  <2>3. ASSUME NEW i \in 1..to PROVE lines[i].whole
    <3>1. i \in 1..(Len(lines) - 1) \/ i = Len(lines)
      BY <1>4, <1>9, <2>1
    <3>2. CASE i \in 1..(Len(lines) - 1)
      BY <1>4, <2>1, <3>2 DEF TInv, FilesOK
    <3>3. CASE i = Len(lines)
      <4>1. i = to
        BY <1>4, <1>9, <2>1, <3>3
      <4>2. CASE to > from
        BY <1>4, <1>9, <2>1, <4>1, <4>2
      <4>3. CASE to = from
        BY <1>7, <2>3, <4>1, <4>3
      <4> QED
        BY <1>4, <1>9, <4>2, <4>3
    <3> QED
      BY <3>1, <3>2, <3>3
  <2> QED
    BY <1>4, <1>7, <2>1, <2>2, <2>3
<1>12. Left(st, 1) \subseteq ledger \cup after.batch \cup Left(after, 1)
  <2>1. CASE disk[p].file # st.file
    BY <1>2, <2>1 DEF Left, Inside
  <2>2. CASE disk[p].file = st.file
    <3>1. to \in from..Len(lines) /\ lines = disk[p].lines /\ from \in 0..Len(lines)
      BY <1>4, <1>7, <1>9, <2>2
    <3>2. After(lines, from) = Billed(read) \cup After(lines, to)
      <4> HIDE DEF lines, from
      <4> QED
        BY <1>4, <3>1, BilledBetween DEF read
    <3>3. Left(st, 1) = After(lines, from)
      BY <1>2, <2>2, <3>1 DEF Left, Inside, Onward
    <3>4. CASE found >= Batch
      <4>1. Left(after, 1) = After(lines, to)
        BY <1>10, <2>2, <3>1, <3>4 DEF Left, Inside, Onward
      <4> QED
        BY <1>10, <3>2, <3>3, <4>1
    <3>5. CASE ~(found >= Batch)
      <4>1. After(lines, to) = {}
        BY <1>4, <1>9, <3>1, <3>5
      <4> QED
        BY <1>10, <3>2, <3>3, <4>1
    <3> QED
      BY <3>4, <3>5
  <2> QED
    BY <2>1, <2>2
<1>13. ASSUME after.event = "end", ~after.failed
       PROVE  after.owed \subseteq ledger \cup after.batch \cup UNION {Left(after, i) : i \in DOMAIN after.todo}
  <2>1. st.owed \subseteq ledger \cup st.batch \cup UNION {Left(st, i) : i \in DOMAIN st.todo}
    BY <1>2, <1>10, <1>13 DEF HookOK
  <2>2. \A i \in DOMAIN st.todo : i # 1 => Left(after, i) = Left(st, i)
    BY <1>10 DEF Left
  <2>3. \A i \in DOMAIN st.todo : Left(st, i) \subseteq ledger \cup after.batch
                                       \cup UNION {Left(after, j) : j \in DOMAIN st.todo}
    BY <1>12, <2>2
  <2>4. st.batch = {} /\ after.owed = st.owed /\ after.todo = st.todo
    BY <1>2, <1>10
  <2> HIDE DEF p, lines, from
  <2> QED
    BY <2>1, <2>3, <2>4
<1>14. after.batch # {} => found # 0
  BY <1>9, <1>10
<1>15. HookOK(after)
  <2>1. after.at \in {"write", "last write", "position"} /\ (after.at = "position" => after.batch = {})
    <3>1. after.at \in {"write", "last write", "position"} /\ (after.at = "position" => found = 0)
      <4>1. found \in Nat /\ Batch \in Nat \ {0}
        BY <1>4, <1>9
      <4>2. CASE found >= Batch
        BY <1>10, <4>2
      <4>3. CASE ~(found >= Batch) /\ found > 0
        BY <1>10, <4>3
      <4>4. CASE ~(found >= Batch) /\ ~(found > 0)
        BY <1>10, <4>1, <4>4
      <4> QED
        BY <4>2, <4>3, <4>4
    <3> QED
      BY <1>14, <3>1
  <2> QED
    BY <1>2, <1>10, <1>11, <1>13, <2>1 DEF HookOK, Inside
<1> QED
  BY <1>5, <1>6, <1>10, <1>15, HookMovesOnly

\* The batch is in the ledger.
LEMMA CommitBatchKeeps == ASSUME TInv, NEW h \in Hooks, CommitBatch(h) PROVE TInv'
<1>1. PICK st \in HookState : st = hook[h]
  BY DEF TInv, TTypes
<1>2. /\ HookOK(st) /\ st.at \in {"write", "last write"} /\ ledger' = ledger \cup st.batch
  BY <1>1 DEF TInv, CommitBatch
<1>3. PICK after : after = [st EXCEPT !.batch = {}, !.at = IF st.at = "write" THEN "save" ELSE "position"]
  OBVIOUS
<1>4. hook' = [hook EXCEPT ![h] = after]
  BY <1>1, <1>3 DEF CommitBatch
<1>5. /\ after \in HookState /\ after.at = (IF st.at = "write" THEN "save" ELSE "position")
      /\ after.batch = {} /\ after.todo = st.todo /\ after.file = st.file /\ after.offset = st.offset
      /\ after.event = st.event /\ after.failed = st.failed /\ after.owed = st.owed
  BY <1>3 DEF HookState, Inside
<1>6. UNCHANGED <<disk, files, position, list, named>> /\ list \subseteq Agents /\ named \subseteq list
  BY DEF CommitBatch, claude, kept, TInv, TTypes
<1>7. \A i : Left(after, i)' = Left(st, i)
  BY <1>2, <1>5, <1>6 DEF Left, Inside, Onward
<1>8. /\ st.todo # <<>> /\ st.file \in 1..files
      /\ Covered(st.file, Head(st.todo), st.offset, ledger \cup st.batch)
  BY <1>2 DEF HookOK, Inside
<1>9. Covered(after.file, Head(after.todo), after.offset, ledger \cup after.batch)'
  BY <1>2, <1>5, <1>6, <1>8 DEF Covered
<1>10. after.event = "end" /\ ~after.failed =>
         after.owed \subseteq ledger' \cup after.batch \cup UNION {Left(after, i)' : i \in DOMAIN after.todo}
  BY <1>2, <1>5, <1>7 DEF HookOK
<1>11. HookOK(after)'
  BY <1>5, <1>6, <1>8, <1>9, <1>10 DEF HookOK, Inside
<1>12. position' \in [Transcripts -> [file : Nat, offset : Nat]] /\ ledger \subseteq ledger'
       /\ list' \subseteq Agents /\ named' \subseteq list'
  BY <1>2, <1>6 DEF TInv, TTypes
<1> QED
  BY <1>4, <1>5, <1>6, <1>11, <1>12, HookMoves

\* A failed write ends the read, and the hook owes nothing more.
LEMMA CommitFailsKeeps == ASSUME TInv, NEW h \in Hooks, CommitFails(h) PROVE TInv'
<1>1. PICK st \in HookState : st = hook[h]
  BY DEF TInv, TTypes
<1>2. HookOK(st) /\ st.todo # <<>>
  BY <1>1 DEF TInv, CommitFails, HookOK, Inside
<1>3. PICK after : after = [st EXCEPT !.todo = Tail(@), !.at = "open", !.batch = {}, !.failed = TRUE]
  OBVIOUS
<1>4. after \in HookState /\ HookOK(after)
  BY <1>2, <1>3, NextKeeps
<1>5. after = [NextOf(h) EXCEPT !.failed = TRUE]
  BY <1>1, <1>3 DEF NextOf, HookState
<1>6. /\ hook' = [hook EXCEPT ![h] = after] /\ UNCHANGED <<disk, files, ledger, position>>
      /\ list' \subseteq Agents /\ named' \subseteq list'
  BY <1>5 DEF CommitFails, claude, kept, TInv, TTypes
<1> QED
  BY <1>4, <1>6, HookMovesOnly

\* What is left depends on the place of a hook alone.
LEMMA LeftOfSame ==
  ASSUME NEW st, NEW after, after.todo = st.todo, after.file = st.file, after.offset = st.offset,
         after.at \in Inside, st.at \in Inside, after.at \in Onward <=> st.at \in Onward, NEW i
  PROVE  Left(after, i) = Left(st, i)
BY DEF Left

\* A position is saved, or skipped, once the batch is committed: then either the rename is left, or
\* this read goes on, or the next transcript is due.
LEMMA InsideKeeps ==
  ASSUME NEW st \in HookState, HookOK(st), st.at \in Inside, st.batch = {}, NEW at \in Inside,
         at \notin {"write", "last write"}, at \in Onward <=> st.at \in Onward,
         NEW after, after = [st EXCEPT !.at = at]
  PROVE  after \in HookState /\ HookOK(after)
<1>1. /\ after \in HookState /\ after.at = at /\ after.todo = st.todo /\ after.file = st.file
      /\ after.offset = st.offset /\ after.batch = {} /\ after.event = st.event
      /\ after.failed = st.failed /\ after.owed = st.owed
  BY DEF HookState
<1>2. \A i : Left(after, i) = Left(st, i)
  BY <1>1, LeftOfSame
<1>3. /\ st.todo # <<>> /\ st.file \in 1..files
      /\ Covered(st.file, Head(st.todo), st.offset, ledger \cup st.batch)
  BY DEF HookOK
<1>4. st.event = "end" /\ ~st.failed =>
        st.owed \subseteq ledger \cup st.batch \cup UNION {Left(st, i) : i \in DOMAIN st.todo}
  BY DEF HookOK
<1>5. at \notin {"remember", "done"}
  BY DEF Inside
<1>6. Covered(after.file, Head(after.todo), after.offset, ledger \cup after.batch)
  BY <1>1, <1>3
<1>7. after.event = "end" /\ ~after.failed =>
        after.owed \subseteq ledger \cup after.batch \cup UNION {Left(after, i) : i \in DOMAIN after.todo}
  BY <1>1, <1>2, <1>4
<1> QED
  BY <1>1, <1>3, <1>5, <1>6, <1>7 DEF HookOK

\* After a position: the read goes on, or the next transcript is due.
LEMMA AfterSaveKeeps ==
  ASSUME TInv, NEW h \in Hooks, NEW st \in HookState, st = hook[h],
         st.at \in {"save", "position", "rename", "last rename"}, NEW after, after = AfterSave(h)
  PROVE  after \in HookState /\ HookOK(after)
<1>1. HookOK(st) /\ st.todo # <<>> /\ st.batch = {} /\ st.failed \in BOOLEAN
  <2>1. HookOK(st)
    BY DEF TInv
  <2>2. st.todo # <<>> /\ st.batch = {}
    BY <2>1 DEF HookOK, Inside
  <2> QED
    BY <2>1, <2>2 DEF HookState
<1>2. CASE st.at \in {"save", "rename"}
  <2>1. after = [st EXCEPT !.at = "read"]
    BY <1>2 DEF AfterSave
  <2>2. "read" \in Inside /\ "read" \in Onward /\ st.at \in Inside /\ st.at \in Onward
    BY <1>2 DEF Inside, Onward
  <2> QED
    BY <1>1, <2>1, <2>2, InsideKeeps
<1>3. CASE st.at \in {"position", "last rename"}
  <2>1. after = [st EXCEPT !.todo = Tail(@), !.at = "open", !.batch = {}, !.failed = st.failed]
    BY <1>3 DEF AfterSave, NextOf, HookState
  <2>2. Left(st, 1) = {}
    BY <1>3 DEF Left, Inside, Onward
  <2> QED
    BY <1>1, <2>1, <2>2, NextKeeps
<1> QED
  BY <1>2, <1>3

\* The first half of a save.
LEMMA SavePositionKeeps == ASSUME TInv, NEW h \in Hooks, SavePosition(h) PROVE TInv'
<1>1. PICK st \in HookState : st = hook[h]
  BY DEF TInv, TTypes
<1>2. HookOK(st) /\ st.at \in {"save", "position"} /\ st.batch = {}
  BY <1>1 DEF TInv, SavePosition, HookOK
<1>3. UNCHANGED <<disk, files, ledger, position>> /\ list' \subseteq Agents /\ named' \subseteq list'
  BY DEF SavePosition, claude, kept, TInv, TTypes
<1>4. CASE Further(h) \/ (hook[h].at = "position" /\ hook[h].offset = hook[h].started)
  <2>1. PICK after : after = AfterSave(h)
    OBVIOUS
  <2>2. after \in HookState /\ HookOK(after)
    BY <1>1, <1>2, <2>1, AfterSaveKeeps
  <2>3. hook' = [hook EXCEPT ![h] = after]
    BY <1>4, <2>1 DEF SavePosition
  <2> QED
    BY <1>3, <2>2, <2>3, HookMovesOnly
<1>5. CASE ~(Further(h) \/ (hook[h].at = "position" /\ hook[h].offset = hook[h].started))
  <2>1. PICK at : at = IF st.at = "save" THEN "rename" ELSE "last rename"
    OBVIOUS
  <2>2. PICK after : after = [st EXCEPT !.at = at]
    OBVIOUS
  <2>3. /\ st.at \in Inside /\ at \in Inside /\ at \notin {"write", "last write"}
        /\ at \in Onward <=> st.at \in Onward
    BY <1>2, <2>1 DEF Inside, Onward
  <2>4. after \in HookState /\ HookOK(after)
    BY <1>2, <2>2, <2>3, InsideKeeps
  <2>5. hook' = [hook EXCEPT ![h] = after]
    <3>1. hook' = [hook EXCEPT ![h] = [hook[h] EXCEPT
                                 !.at = IF hook[h].at = "save" THEN "rename" ELSE "last rename"]]
      BY <1>5 DEF SavePosition
    <3> QED
      BY <1>1, <2>1, <2>2, <3>1
  <2> QED
    BY <1>3, <2>4, <2>5, HookMovesOnly
<1> QED
  BY <1>4, <1>5

\* The second: the position kept is one that a hook covered.
LEMMA RenameKeeps == ASSUME TInv, NEW h \in Hooks, Rename(h) PROVE TInv'
<1>1. PICK st \in HookState : st = hook[h]
  BY DEF TInv, TTypes
<1>2. /\ HookOK(st) /\ st.at \in {"rename", "last rename"} /\ st.batch = {}
      /\ st.todo # <<>> /\ st.file \in 1..files /\ Covered(st.file, Head(st.todo), st.offset, ledger)
  BY <1>1 DEF TInv, Rename, HookOK, Inside
<1>3. PICK after \in HookState : after = AfterSave(h) /\ HookOK(after)
  BY <1>1, <1>2, AfterSaveKeeps
<1>4. hook' = [hook EXCEPT ![h] = after] /\ UNCHANGED <<disk, files, ledger, list, named>>
  BY <1>3 DEF Rename, claude
<1>5. Head(st.todo) \in Transcripts /\ st.offset \in Nat /\ st.file \in Nat /\ files \in Nat
  <2>1. st.todo \in Seq(Transcripts) /\ st.offset \in Nat /\ st.file \in Nat
    BY DEF HookState
  <2>2. Head(st.todo) \in Transcripts
    <3>1. st.todo # <<>>
      BY <1>2
    <3> QED
      BY <2>1, <3>1
  <2>3. files \in Nat
    BY DEF TInv, TTypes
  <2> QED
    BY <2>1, <2>2, <2>3
<1>6. position' = [position EXCEPT ![Head(st.todo)] = [file |-> st.file, offset |-> st.offset]]
  BY <1>1 DEF Rename
<1>7. position' \in [Transcripts -> [file : Nat, offset : Nat]]
  BY <1>5, <1>6 DEF TInv, TTypes
<1>8. ASSUME NEW p \in Transcripts, position'[p] # position[p]
      PROVE  /\ position'[p].file \in 1..files
             /\ Covered(position'[p].file, p, position'[p].offset, ledger)
  <2>1. p = Head(st.todo) /\ position'[p].file = st.file /\ position'[p].offset = st.offset
    BY <1>5, <1>6, <1>8 DEF TInv, TTypes
  <2> QED
    BY <1>2, <2>1
<1>9. HookOK(after)'
  <2>1. HookOK(after) /\ UNCHANGED <<disk, files, ledger>>
    BY <1>3, <1>4
  <2> QED
    BY <2>1 DEF HookOK, Left, Covered
<1>10. list' \subseteq Agents /\ named' \subseteq list' /\ ledger \subseteq ledger'
  BY <1>4 DEF TInv, TTypes
<1> QED
  BY <1>4, <1>7, <1>8, <1>9, <1>10, HookMoves

\* A hook exits with nothing left, or is killed.
LEMMA HookEndsKeeps == ASSUME TInv, NEW h \in Hooks, HookExits(h) \/ KillHook(h) PROVE TInv'
<1>1. PICK st \in HookState : st = hook[h]
  BY DEF TInv, TTypes
<1>2. HookOK(st)
  BY <1>1 DEF TInv
<1>3. UNCHANGED <<disk, files, ledger, position>> /\ list' \subseteq Agents /\ named' \subseteq list'
  BY DEF HookExits, KillHook, claude, kept, TInv, TTypes
<1>4. CASE HookExits(h)
  <2>1. st.at = "open" /\ st.todo = <<>>
    BY <1>1, <1>4 DEF HookExits
  <2>2. PICK after : after = [st EXCEPT !.at = "done"]
    OBVIOUS
  <2>3. hook' = [hook EXCEPT ![h] = after]
    BY <1>1, <1>4, <2>2 DEF HookExits
  <2>4. /\ after \in HookState /\ after.at = "done" /\ after.todo = <<>> /\ after.batch = st.batch
        /\ after.event = st.event /\ after.failed = st.failed /\ after.owed = st.owed
    BY <2>1, <2>2 DEF HookState
  <2>5. DOMAIN <<>> = {}
    OBVIOUS
  <2>6. HookOK(after)
    BY <1>2, <2>1, <2>4, <2>5 DEF HookOK, Inside
  <2> QED
    BY <1>3, <2>3, <2>4, <2>6, HookMovesOnly
<1>5. CASE KillHook(h)
  <2>1. hook' = [hook EXCEPT ![h] = Idle]
    BY <1>5 DEF KillHook
  <2>2. <<>> \in Seq(Transcripts)
    OBVIOUS
  <2>3. Idle \in HookState /\ HookOK(Idle)
    BY <2>2 DEF Idle, HookState, HookOK, Inside
  <2> QED
    BY <1>3, <2>1, <2>3, HookMovesOnly
<1> QED
  BY <1>4, <1>5

\* Positions and lists are removed: nothing more is read for it.
LEMMA ForgettingKeeps ==
  ASSUME TInv,
         \/ \E p \in Transcripts : LosePosition(p)
         \/ \E f \in Transcripts \cup {TheList} : Judge(f)
         \/ RemoveStale
  PROVE  TInv'
<1>1. UNCHANGED <<disk, files, ledger, hook>>
  BY DEF LosePosition, Judge, RemoveStale, claude
<1>2. /\ position' \in [Transcripts -> [file : Nat, offset : Nat]]
      /\ \A p \in Transcripts : position'[p] \in {position[p], None}
  <2>1. position \in [Transcripts -> [file : Nat, offset : Nat]] /\ None \in [file : Nat, offset : Nat]
    BY DEF TInv, TTypes, None
  <2>2. position' = position \/ \E p : position' = [position EXCEPT ![p] = None]
    BY DEF LosePosition, Judge, RemoveStale, kept
  <2> QED
    BY <2>1, <2>2
<1>3. list' \subseteq Agents /\ named' \subseteq list'
  BY DEF LosePosition, Judge, RemoveStale, kept, TInv, TTypes
<1>4. TTypes'
  BY <1>1, <1>2, <1>3 DEF TInv, TTypes
<1>5. FilesOK'
  <2>1. None.file = 0 /\ 0 <= files
    BY DEF None, TInv, TTypes
  <2>2. \A p \in Transcripts : position'[p].file <= files /\ (position'[p].file = 0 => position'[p] = None)
    BY <1>2, <2>1 DEF TInv, FilesOK
  <2> QED
    BY <1>1, <2>2 DEF TInv, FilesOK
<1>6. PositionsCover'
  <2> SUFFICES ASSUME NEW p \in Transcripts, position'[p].file # 0
               PROVE  Covered(position[p].file, p, position[p].offset, ledger)'
    BY DEF PositionsCover
  <2>1. position'[p] = position[p]
    BY <1>2 DEF None
  <2>2. Covered(position[p].file, p, position[p].offset, ledger)
    BY <2>1 DEF TInv, PositionsCover
  <2> QED
    BY <1>1, <2>1, <2>2 DEF Covered
<1>7. ASSUME NEW h \in Hooks PROVE HookOK(hook[h])'
  <2>1. HookOK(hook[h])
    BY DEF TInv
  <2> QED
    BY <1>1, <2>1 DEF HookOK, Left, Covered
<1> QED
  BY <1>4, <1>5, <1>6, <1>7 DEF TInv

\* Every step keeps the invariant.
LEMMA TNextKeeps == ASSUME TInv, [TNext]_tvars PROVE TInv'
<1>1. CASE UNCHANGED tvars
  <2>1. UNCHANGED <<disk, files, position, list, named, ledger, hook>>
    BY <1>1 DEF tvars, claude, kept
  <2>2. ASSUME NEW h \in Hooks PROVE HookOK(hook[h])'
    <3>1. HookOK(hook[h])
      BY DEF TInv
    <3> QED
      BY <2>1, <3>1 DEF HookOK, Left, Covered
  <2> QED
    BY <2>1, <2>2 DEF TInv, TTypes, FilesOK, PositionsCover, Covered
<1>2. CASE \E p \in Transcripts, r \in Requests, b \in BOOLEAN : BeginLine(p, r, b)
  BY <1>2, BeginLineKeeps
<1>3. CASE \E p \in Transcripts : FinishLine(p) \/ Delete(p) \/ Replace(p) \/ LosePosition(p)
  BY <1>3, FinishLineKeeps, LoseKeeps, ForgettingKeeps
<1>4. ASSUME NEW h \in Hooks, HookStep(h) PROVE TInv'
  BY <1>4, EndDueKeeps, AgentDueKeeps, RememberKeeps, OpenStepKeeps, ReadLinesKeeps, CommitBatchKeeps,
     CommitFailsKeeps, SavePositionKeeps, RenameKeeps, HookEndsKeeps DEF HookStep
<1>5. CASE (\E f \in Transcripts \cup {TheList} : Judge(f)) \/ RemoveStale
  BY <1>5, ForgettingKeeps
<1> QED
  BY <1>1, <1>2, <1>3, <1>4, <1>5 DEF TNext

\* The invariant of the transcripts: a file, a position and a hook agree on what is recorded.
THEOREM TranscriptsInvariant == TSpec => []TInv
<1> QED
  BY TInitOK, TNextKeeps, PTL DEF TSpec

\* However hooks overlap, are killed or save out of order, a position covers recorded lines only.
THEOREM PositionsCoverRecorded == TSpec => []PositionCoversRecorded
<1>1. ASSUME TInv PROVE PositionCoversRecorded
  <2> SUFFICES ASSUME NEW p \in Transcripts, position[p] # None, position[p].file = disk[p].file
               PROVE  Billed(SubSeq(disk[p].lines, 1, position[p].offset)) \subseteq ledger
    BY DEF PositionCoversRecorded
  <2>1. position[p].file # 0 /\ position[p].offset \in Nat /\ disk[p].lines \in Seq(TranscriptLine)
    BY <1>1 DEF TInv, TTypes, FilesOK
  <2>2. Covered(position[p].file, p, position[p].offset, ledger)
    BY <1>1, <2>1 DEF TInv, PositionsCover
  <2>3. position[p].offset \in 0..Len(disk[p].lines)
    BY <2>1, <2>2 DEF Covered
  <2> QED
    BY <2>1, <2>2, <2>3, BilledBefore DEF Covered
<1> QED
  BY <1>1, TranscriptsInvariant, PTL

\* A turn's end that was not killed and wrote everything left nothing behind that it owed.
THEOREM EndsReadEverything == TSpec => []EndReadsEverything
<1>1. ASSUME TInv PROVE EndReadsEverything
  <2> SUFFICES ASSUME NEW h \in Hooks, hook[h].at = "done", hook[h].event = "end", ~hook[h].failed
               PROVE  hook[h].owed \subseteq ledger
    BY DEF EndReadsEverything
  <2>1. HookOK(hook[h])
    BY <1>1 DEF TInv
  <2>2. hook[h].todo = <<>> /\ hook[h].batch = {} /\ DOMAIN <<>> = {}
    BY <2>1 DEF HookOK
  <2> QED
    BY <2>1, <2>2 DEF HookOK
<1> QED
  BY <1>1, TranscriptsInvariant, PTL
-----------------------------------------------------------------------------
(***************************************************************************)
(* SessionIndex: the invariant.                                            *)
(***************************************************************************)

ITypes ==
  /\ now \in Nat
  /\ active \subseteq Line /\ archives \subseteq SUBSET Line /\ IsFiniteSet(Content)
  /\ DOMAIN seen \subseteq Sessions /\ \A s \in DOMAIN seen : seen[s] \in 0..now
  /\ DOMAIN due \subseteq DOMAIN seen /\ \A s \in DOMAIN due : due[s] \in Projects
  /\ newest \in [Sessions -> SUBSET Line]
  /\ promised \in [Sessions -> Int]

\* A line was written by now, and rotation keeps the files in the order of their lines.
Stamped ==
  /\ \A l \in Content : l.ts <= now
  /\ {} \notin archives
  /\ \A f \in archives : \A k \in f, l \in active : k.ts <= l.ts

\* What is due lasts as long as the flush that found it.
DueOK ==
  /\ pc # "renew" => DOMAIN due = {}
  /\ \A s \in DOMAIN due : /\ now <= seen[s] + Span /\ newest[s] # {}
                           /\ \A l \in LinesOf(s) : l.renewal => l.ts < now - Span

\* As long as the promise stands, so does a line that keeps it.
PromiseOK ==
  \A s \in Sessions :
    promised[s] >= 0 /\ now <= promised[s] - Span + Horizon
      => \E l \in LinesOf(s) : l.ts >= promised[s] - Span

\* A session has one newest start, the other starts are older.
NewestOK ==
  \A s \in Sessions :
    /\ \A n \in newest[s] : /\ n.session = s /\ ~n.renewal /\ n.ts <= now /\ newest[s] = {n}
                            /\ \A l \in LinesOf(s) : ~l.renewal => l = n \/ l.ts < n.ts
    /\ LinesOf(s) # {} => newest[s] # {}

\* A line is in no later file than another one.
Behind(k, n) ==
  /\ k \in active => n \in active
  /\ \A f \in archives : k \in f =>
       \/ n \in active
       \/ \E g \in archives : n \in g /\ (f = g \/ \A a \in f, b \in g : a.ts <= b.ts)

\* The newest start outlasts the lines with another row, unless a renewal wrote that row since.
RowsOK ==
  \A s \in Sessions \ raced : \A n \in newest[s], k \in LinesOf(s) : k.row # n.row => Behind(k, n)

IInv == ITypes /\ Stamped /\ DueOK /\ PromiseOK /\ NewestOK /\ RowsOK

\* The newest time of a set of lines.
LEMMA NewestStamp ==
  ASSUME NEW L, IsFiniteSet(L), L # {}, L \subseteq Line
  PROVE  /\ Max(Stamps(L)) \in Nat /\ \A l \in L : l.ts <= Max(Stamps(L))
         /\ \E l \in L : l.ts = Max(Stamps(L))
<1> DEFINE f == [l \in L |-> l.ts]
<1>1. f \in Surjection(L, Stamps(L))
  BY DEF Stamps, Surjection
<1>2. IsFiniteSet(Stamps(L))
  BY <1>1, FS_Surjection
<1>3. \A l \in L : l.ts \in Nat
  BY DEF Line
<1>4. Stamps(L) # {} /\ Stamps(L) \subseteq Int /\ Stamps(L) \subseteq Nat
  BY <1>3 DEF Stamps
<1>5. Max(Stamps(L)) \in Stamps(L) /\ \A t \in Stamps(L) : t <= Max(Stamps(L))
  BY <1>2, <1>4, MaxFacts
<1> QED
  BY <1>4, <1>5 DEF Stamps

\* The row in force is that of a line nothing outranks.
LEMMA RowInForce ==
  ASSUME ITypes, NEW s, LinesOf(s) # {}
  PROVE  \E l \in LinesOf(s) : Row(s) = l.row /\ \A k \in LinesOf(s) : ~Outranks(k, l)
<1> DEFINE L      == LinesOf(s)
           begun  == {l \in L : ~l.renewal}
<1>1. L \subseteq Line /\ IsFiniteSet(L) /\ L # {}
  <2>1. L \subseteq Content /\ Content \subseteq Line
    BY DEF LinesOf, ITypes, Content
  <2> QED
    BY <2>1, FS_Subset DEF ITypes
<1>2. IsFiniteSet(begun) /\ begun \subseteq Line /\ \A l \in L : l.ts \in Nat /\ l.renewal \in BOOLEAN
  BY <1>1, FS_Subset DEF Line
<1>3. \E l \in L : \A k \in L : ~Outranks(k, l)
  <2>1. CASE begun # {}
    <3>1. PICK l \in begun : l.ts = Max(Stamps(begun)) /\ \A k \in begun : k.ts <= Max(Stamps(begun))
      BY <1>2, <2>1, NewestStamp
    <3>2. ASSUME NEW k \in L PROVE ~Outranks(k, l)
      <4>1. CASE k \in begun
        BY <1>2, <3>1, <4>1 DEF Outranks
      <4>2. CASE k \notin begun
        BY <1>2, <3>1, <4>2 DEF Outranks
      <4> QED
        BY <4>1, <4>2
    <3> QED
      BY <3>1, <3>2
  <2>2. CASE begun = {}
    <3>1. PICK l \in L : l.ts = Max(Stamps(L)) /\ \A k \in L : k.ts <= Max(Stamps(L))
      BY <1>1, NewestStamp
    <3>2. ASSUME NEW k \in L PROVE ~Outranks(k, l)
      BY <1>2, <2>2, <3>1 DEF Outranks
    <3> QED
      BY <3>1, <3>2
  <2> QED
    BY <2>1, <2>2
<1> QED
  BY <1>3 DEF Row

\* The newest line of a session.
LEMMA WrittenFacts ==
  ASSUME ITypes, NEW s, LinesOf(s) # {}
  PROVE  /\ Written(s) \in Nat /\ \A l \in LinesOf(s) : l.ts \in Nat /\ l.ts <= Written(s)
         /\ \E l \in LinesOf(s) : l.ts = Written(s)
<1>1. LinesOf(s) \subseteq Line /\ IsFiniteSet(LinesOf(s))
  <2>1. LinesOf(s) \subseteq Content /\ Content \subseteq Line
    BY DEF LinesOf, ITypes, Content
  <2> QED
    BY <2>1, FS_Subset DEF ITypes
<1>2. \A l \in LinesOf(s) : l.ts \in Nat
  BY <1>1 DEF Line
<1> QED
  BY <1>1, <1>2, NewestStamp DEF Written

\* At first there are no lines, no renewals and no promises.
LEMMA IInitOK == ASSUME Init PROVE IInv
<1>1. Content = {} /\ DOMAIN Nobody = {}
  BY DEF Init, Content, Nobody
<1>2. ITypes
  BY <1>1, FS_EmptySet DEF Init, ITypes, NoStart
<1>3. Stamped /\ DueOK
  BY <1>1, <1>2 DEF Init, Stamped, DueOK
<1>4. PromiseOK /\ NewestOK /\ RowsOK
  BY <1>1 DEF Init, PromiseOK, NewestOK, RowsOK, NoStart, LinesOf
<1> QED
  BY <1>2, <1>3, <1>4 DEF IInv
-----------------------------------------------------------------------------
(* A line is appended.                                                     *)

\* What an append keeps, for any line of this tick.
LEMMA AppendFacts ==
  ASSUME ITypes, Stamped, NEW l \in Line, l.ts = now, Appended(l)
  PROVE  /\ active' \subseteq Line /\ archives' \subseteq SUBSET Line
         /\ Content' = Content \cup {l} /\ IsFiniteSet(Content') /\ l \in active'
         /\ \A k \in Content' : k.ts <= now
         /\ {} \notin archives'
         /\ \A f \in archives' : \A j \in f, k \in active' : j.ts <= k.ts
         /\ \A k, n : k # l /\ Behind(k, n) => Behind(k, n)'
<1>1. /\ active \subseteq Line /\ archives \subseteq SUBSET Line /\ now \in Nat
      /\ \A k \in Content : k.ts <= now
  BY DEF ITypes, Stamped
<1>2. \/ active' = active \cup {l} /\ archives' = archives
      \/ active # {} /\ active' = {l} /\ archives' = archives \cup {active}
  BY DEF Appended
<1>3. Content' = Content \cup {l}
  BY <1>2 DEF Content
<1>4. IsFiniteSet(Content')
  BY <1>3, FS_AddElement DEF ITypes
<1>5. \A k \in Content' : k.ts <= now
  BY <1>1, <1>3
<1>6. active' \subseteq Line /\ archives' \subseteq SUBSET Line /\ l \in active' /\ {} \notin archives'
  BY <1>1, <1>2 DEF Stamped
<1>7. \A f \in archives' : \A j \in f, k \in active' : j.ts <= k.ts
  <2> SUFFICES ASSUME NEW f \in archives', NEW j \in f, NEW k \in active' PROVE j.ts <= k.ts
    OBVIOUS
  <2>1. (f \in archives \/ f = active) /\ j \in Content
    BY <1>2 DEF Content
  <2>2. CASE k = l
    BY <1>1, <2>1, <2>2
  <2>3. CASE k # l
    <3>1. k \in active /\ f \in archives
      BY <1>2, <2>3
    <3> QED
      BY <3>1 DEF Stamped
  <2> QED
    BY <2>2, <2>3
<1>8. ASSUME NEW k, NEW n, k # l, Behind(k, n) PROVE Behind(k, n)'
  <2>1. CASE active' = active \cup {l} /\ archives' = archives
    <3>1. k \in active' => n \in active'
      BY <1>8, <2>1 DEF Behind
    <3> QED
      BY <1>8, <2>1, <3>1 DEF Behind
  <2>2. CASE active # {} /\ active' = {l} /\ archives' = archives \cup {active}
    <3>1. k \notin active'
      BY <1>8, <2>2
    <3>2. ASSUME NEW f \in archives', k \in f
          PROVE  \E g \in archives' : n \in g /\ (f = g \/ \A a \in f, b \in g : a.ts <= b.ts)
      <4>1. CASE f = active
        BY <1>8, <2>2, <3>2, <4>1 DEF Behind
      <4>2. CASE f \in archives /\ n \in active
        <5>1. \A a \in f, b \in active : a.ts <= b.ts
          BY <4>2 DEF Stamped
        <5> QED
          BY <2>2, <4>2, <5>1
      <4>3. CASE f \in archives /\ n \notin active
        BY <1>8, <2>2, <3>2, <4>3 DEF Behind
      <4> QED
        BY <2>2, <4>1, <4>2, <4>3
    <3> QED
      BY <3>1, <3>2 DEF Behind
  <2> QED
    BY <1>2, <2>1, <2>2
<1> QED
  BY <1>3, <1>4, <1>5, <1>6, <1>7, <1>8

\* A session starts: its line is the newest, in the active file.
LEMMA StartKeeps ==
  ASSUME IInv, NEW s \in Sessions, NEW p \in Projects, Start(s, p) PROVE IInv'
<1>1. PICK l : l = [session |-> s, row |-> p, ts |-> now, renewal |-> FALSE]
  OBVIOUS
<1>2. /\ ITypes /\ Stamped /\ DueOK /\ PromiseOK /\ NewestOK /\ RowsOK /\ now \in Nat
  BY DEF IInv, ITypes
<1>3. /\ l \in Line /\ l.session = s /\ l.row = p /\ l.ts = now /\ l.renewal = FALSE
      /\ Appended(l) /\ newest' = [newest EXCEPT ![s] = {l}] /\ raced' = raced \ {s}
      /\ \A n \in newest[s] : n.ts < now
      /\ UNCHANGED <<now, seen, due, pc, promised>>
  BY <1>1, <1>2 DEF Start, Line
<1>4. /\ active' \subseteq Line /\ archives' \subseteq SUBSET Line
      /\ Content' = Content \cup {l} /\ IsFiniteSet(Content') /\ l \in active'
      /\ \A k \in Content' : k.ts <= now
      /\ {} \notin archives'
      /\ \A f \in archives' : \A j \in f, k \in active' : j.ts <= k.ts
      /\ \A k, n : k # l /\ Behind(k, n) => Behind(k, n)'
  BY <1>2, <1>3, AppendFacts
<1>5. /\ newest \in [Sessions -> SUBSET Line] /\ newest'[s] = {l}
      /\ \A r \in Sessions : r # s => newest'[r] = newest[r]
  BY <1>2, <1>3 DEF ITypes
<1>6. \A r \in Sessions : r # s => LinesOf(r)' = LinesOf(r)
  BY <1>3, <1>4 DEF LinesOf
<1>7. LinesOf(s)' = LinesOf(s) \cup {l}
  BY <1>3, <1>4 DEF LinesOf
<1>8. ITypes'
  BY <1>2, <1>3, <1>4 DEF ITypes
<1>9. Stamped'
  BY <1>3, <1>4 DEF Stamped
<1>10. DueOK'
  <2>1. DOMAIN due \subseteq Sessions
    BY <1>2 DEF ITypes
  <2>2. ASSUME NEW r \in DOMAIN due
        PROVE  newest'[r] # {} /\ \A k \in LinesOf(r)' : k.renewal => k.ts < now - Span
    BY <1>2, <1>3, <1>5, <1>6, <1>7, <2>1 DEF DueOK
  <2> QED
    BY <1>2, <1>3, <2>2 DEF DueOK
<1>11. PromiseOK'
  <2>1. \A r \in Sessions : LinesOf(r) \subseteq LinesOf(r)'
    BY <1>6, <1>7
  <2> QED
    BY <1>2, <1>3, <2>1 DEF PromiseOK
<1>12. NewestOK'
  <2> SUFFICES ASSUME NEW r \in Sessions
               PROVE  /\ \A n \in newest'[r] :
                           /\ n.session = r /\ ~n.renewal /\ n.ts <= now' /\ newest'[r] = {n}
                           /\ \A k \in LinesOf(r)' : ~k.renewal => k = n \/ k.ts < n.ts
                      /\ LinesOf(r)' # {} => newest'[r] # {}
    BY DEF NewestOK
  <2>1. CASE r # s
    BY <1>2, <1>3, <1>5, <1>6, <2>1 DEF NewestOK
  <2>2. CASE r = s
    <3>1. ASSUME NEW k \in LinesOf(s), ~k.renewal PROVE k.ts < now
      <4>1. k \in Line
        BY <1>2 DEF LinesOf, ITypes, Content
      <4>2. PICK n \in newest[s] : TRUE
        BY <1>2 DEF NewestOK
      <4>3. n \in Line /\ n.ts \in Nat /\ k.ts \in Nat
        BY <1>5, <4>1 DEF Line
      <4>4. k = n \/ k.ts < n.ts
        BY <1>2, <3>1 DEF NewestOK
      <4> QED
        BY <1>2, <1>3, <4>3, <4>4
    <3> QED
      BY <1>2, <1>3, <1>5, <1>7, <2>2, <3>1
  <2> QED
    BY <2>1, <2>2
<1>13. RowsOK'
  <2> SUFFICES ASSUME NEW r \in Sessions \ raced', NEW n \in newest'[r], NEW k \in LinesOf(r)', k.row # n.row
               PROVE  Behind(k, n)'
    BY DEF RowsOK
  <2>1. CASE r # s
    <3>1. r \in Sessions \ raced /\ n \in newest[r] /\ k \in LinesOf(r) /\ k # l
      BY <1>3, <1>5, <1>6, <2>1 DEF LinesOf
    <3>2. Behind(k, n)
      BY <1>2, <3>1 DEF RowsOK
    <3> QED
      BY <1>4, <3>1, <3>2
  <2>2. CASE r = s
    <3>1. n \in active'
      BY <1>4, <1>5, <2>2
    <3> QED
      BY <3>1 DEF Behind
  <2> QED
    BY <2>1, <2>2
<1> QED
  BY <1>8, <1>9, <1>10, <1>11, <1>12, <1>13 DEF IInv

\* A renewal keeps the promise, and its row is that of the newest start or the session is raced.
LEMMA RenewKeeps ==
  ASSUME IInv, NEW s \in Sessions, Renew(s) PROVE IInv'
<1>1. PICK l : l = [session |-> s, row |-> due[s], ts |-> now, renewal |-> TRUE]
  OBVIOUS
<1>2. /\ ITypes /\ Stamped /\ DueOK /\ PromiseOK /\ NewestOK /\ RowsOK /\ now \in Nat
      /\ {Horizon, Span} \subseteq Nat
  BY IndexAssumption DEF IInv, ITypes
<1>3. s \in DOMAIN due /\ s \in DOMAIN seen /\ due[s] \in Projects /\ seen[s] \in 0..now
  BY <1>2 DEF Renew, Renewed, ITypes
<1>4. /\ l \in Line /\ l.session = s /\ l.row = due[s] /\ l.ts = now /\ l.renewal = TRUE
  BY <1>1, <1>2, <1>3 DEF Line
<1>5. /\ Appended(l) /\ UNCHANGED <<now, seen, newest>>
      /\ raced' = (IF \E n \in newest[s] : n.row # due[s] THEN raced \cup {s} ELSE raced)
      /\ promised' = [promised EXCEPT ![s] = seen[s]]
      /\ due' = [r \in DOMAIN due \ {s} |-> due[r]]
      /\ pc' = IF due' = Nobody THEN "idle" ELSE "renew"
  BY <1>1 DEF Renew, Renewed
<1>6. /\ active' \subseteq Line /\ archives' \subseteq SUBSET Line
      /\ Content' = Content \cup {l} /\ IsFiniteSet(Content') /\ l \in active'
      /\ \A k \in Content' : k.ts <= now
      /\ {} \notin archives'
      /\ \A f \in archives' : \A j \in f, k \in active' : j.ts <= k.ts
      /\ \A k, n : k # l /\ Behind(k, n) => Behind(k, n)'
  BY <1>2, <1>4, <1>5, AppendFacts
<1>7. \A r \in Sessions : r # s => LinesOf(r)' = LinesOf(r)
  BY <1>4, <1>6 DEF LinesOf
<1>8. LinesOf(s)' = LinesOf(s) \cup {l}
  BY <1>4, <1>6 DEF LinesOf
<1>9. ITypes'
  <2>1. promised' \in [Sessions -> Int]
    BY <1>2, <1>3, <1>5 DEF ITypes
  <2>2. DOMAIN due' \subseteq DOMAIN due /\ \A r \in DOMAIN due' : due'[r] = due[r]
    BY <1>5
  <2> QED
    BY <1>2, <1>5, <1>6, <2>1, <2>2 DEF ITypes
<1>10. Stamped'
  BY <1>5, <1>6 DEF Stamped
<1>11. DueOK'
  <2>1. DOMAIN due \subseteq Sessions
    BY <1>2 DEF ITypes
  <2>2. DOMAIN due' = DOMAIN due \ {s}
    BY <1>5
  <2>3. pc' # "renew" => DOMAIN due' = {}
    <3>1. DOMAIN Nobody = {}
      BY DEF Nobody
    <3> QED
      BY <1>5, <3>1
  <2>4. ASSUME NEW r \in DOMAIN due'
        PROVE  /\ now <= seen[r] + Span /\ newest[r] # {}
               /\ \A k \in LinesOf(r)' : k.renewal => k.ts < now - Span
    BY <1>2, <1>7, <2>1, <2>2 DEF DueOK
  <2> QED
    BY <1>5, <2>3, <2>4 DEF DueOK
<1>12. PromiseOK'
  <2> SUFFICES ASSUME NEW r \in Sessions, promised'[r] >= 0, now <= promised'[r] - Span + Horizon
               PROVE  \E k \in LinesOf(r)' : k.ts >= promised'[r] - Span
    BY <1>5 DEF PromiseOK
  <2>1. CASE r # s
    <3>1. promised'[r] = promised[r]
      BY <1>2, <1>5, <2>1 DEF ITypes
    <3> QED
      BY <1>2, <1>7, <2>1, <3>1 DEF PromiseOK
  <2>2. CASE r = s
    <3>1. promised'[s] = seen[s]
      BY <1>2, <1>5 DEF ITypes
    <3>2. l.ts >= seen[s] - Span
      BY <1>2, <1>3, <1>4
    <3> QED
      BY <1>8, <2>2, <3>1, <3>2
  <2> QED
    BY <2>1, <2>2
<1>13. NewestOK'
  <2> SUFFICES ASSUME NEW r \in Sessions
               PROVE  /\ \A n \in newest[r] :
                           /\ n.session = r /\ ~n.renewal /\ n.ts <= now /\ newest[r] = {n}
                           /\ \A k \in LinesOf(r)' : ~k.renewal => k = n \/ k.ts < n.ts
                      /\ LinesOf(r)' # {} => newest[r] # {}
    BY <1>5 DEF NewestOK
  <2>1. CASE r # s
    BY <1>2, <1>7, <2>1 DEF NewestOK
  <2>2. CASE r = s
    <3>1. newest[s] # {}
      BY <1>2, <1>3 DEF DueOK
    <3> QED
      BY <1>2, <1>4, <1>8, <2>2, <3>1 DEF NewestOK
  <2> QED
    BY <2>1, <2>2
<1>14. RowsOK'
  <2> SUFFICES ASSUME NEW r \in Sessions \ raced', NEW n \in newest[r], NEW k \in LinesOf(r)', k.row # n.row
               PROVE  Behind(k, n)'
    BY <1>5 DEF RowsOK
  <2>1. r \in Sessions \ raced /\ (r = s => n.row = due[s])
    BY <1>5
  <2>2. k # l
    BY <1>4, <2>1 DEF LinesOf
  <2>3. k \in LinesOf(r)
    BY <1>7, <1>8, <2>2
  <2> QED
    BY <1>2, <1>6, <2>1, <2>2, <2>3 DEF RowsOK
<1> QED
  BY <1>9, <1>10, <1>11, <1>12, <1>13, <1>14 DEF IInv

\* Steps that write no line: the rows and the newest starts stay as they are.
LEMMA HearKeeps == ASSUME IInv, NEW s \in Sessions, Hear(s) PROVE IInv'
<1>1. /\ ITypes /\ Stamped /\ DueOK /\ PromiseOK /\ NewestOK /\ RowsOK /\ now \in Nat /\ Span \in Nat
  BY IndexAssumption DEF IInv, ITypes
<1>2. /\ seen' = [r \in DOMAIN seen \cup {s} |-> IF r = s THEN now ELSE seen[r]]
      /\ UNCHANGED <<now, active, archives, due, pc, newest, raced, promised>>
  BY DEF Hear, log, history
<1>3. Content' = Content /\ \A r : LinesOf(r)' = LinesOf(r)
  BY <1>2 DEF Content, LinesOf
<1>4. DOMAIN seen' = DOMAIN seen \cup {s} /\ \A r \in DOMAIN seen : seen'[r] \in {now, seen[r]}
  BY <1>2
<1>5. ITypes'
  <2>1. \A r \in DOMAIN seen' : seen'[r] \in 0..now
    BY <1>1, <1>2 DEF ITypes
  <2> QED
    BY <1>1, <1>2, <1>3, <1>4, <2>1 DEF ITypes
<1>6. DueOK'
  <2>1. DOMAIN due \subseteq DOMAIN seen /\ \A r \in DOMAIN seen : seen[r] \in Nat
    BY <1>1 DEF ITypes
  <2>2. \A r \in DOMAIN due : now <= seen'[r] + Span
    BY <1>1, <1>4, <2>1 DEF DueOK
  <2> QED
    BY <1>1, <1>2, <1>3, <2>2 DEF DueOK
<1> QED
  BY <1>1, <1>2, <1>3, <1>5, <1>6 DEF IInv, Stamped, PromiseOK, NewestOK, RowsOK, Behind

\* A renewal fails: nothing is promised.
LEMMA RenewFailsKeeps == ASSUME IInv, NEW s \in Sessions, RenewFails(s) PROVE IInv'
<1>1. ITypes /\ Stamped /\ DueOK /\ PromiseOK /\ NewestOK /\ RowsOK
  BY DEF IInv
<1>2. /\ due' = [r \in DOMAIN due \ {s} |-> due[r]] /\ pc' = (IF due' = Nobody THEN "idle" ELSE "renew")
      /\ UNCHANGED <<now, active, archives, seen, newest, raced, promised>>
  BY DEF RenewFails, Renewed, log
<1>3. Content' = Content /\ \A r : LinesOf(r)' = LinesOf(r)
  BY <1>2 DEF Content, LinesOf
<1>4. DOMAIN due' = DOMAIN due \ {s} /\ \A r \in DOMAIN due' : due'[r] = due[r]
  BY <1>2
<1>5. ITypes'
  BY <1>1, <1>2, <1>3, <1>4 DEF ITypes
<1>6. DueOK'
  <2>1. pc' # "renew" => DOMAIN due' = {}
    BY <1>2 DEF Nobody
  <2> QED
    BY <1>1, <1>2, <1>3, <1>4, <2>1 DEF DueOK
<1> QED
  BY <1>1, <1>2, <1>3, <1>5, <1>6 DEF IInv, Stamped, PromiseOK, NewestOK, RowsOK, Behind

\* A flush promises what the lines bear out, and renews the rest.
LEMMA FlushKeeps == ASSUME IInv, Flush PROVE IInv'
<1>1. /\ ITypes /\ Stamped /\ DueOK /\ PromiseOK /\ NewestOK /\ RowsOK /\ now \in Nat
      /\ Span \in Nat /\ Horizon \in Nat
  BY IndexAssumption DEF IInv, ITypes
<1> DEFINE heard == DOMAIN seen \cap Held
<1>2. /\ due' = [s \in {r \in heard : IsDue(r)} |-> Row(s)]
      /\ promised' = [s \in Sessions |-> IF s \in heard /\ Recent(s) /\ ~IsDue(s)
                                         THEN seen[s] ELSE promised[s]]
      /\ pc' = (IF due' = Nobody THEN "idle" ELSE "renew")
      /\ UNCHANGED <<now, active, archives, seen, newest, raced>>
  BY DEF Flush, log
<1>3. Content' = Content /\ \A r : LinesOf(r)' = LinesOf(r)
  BY <1>2 DEF Content, LinesOf
<1>4. ASSUME NEW s \in heard
      PROVE  /\ s \in Sessions /\ seen[s] \in 0..now /\ newest[s] # {}
             /\ \E l \in LinesOf(s) : Row(s) = l.row /\ Row(s) \in Projects
             /\ Written(s) \in Nat /\ \A l \in LinesOf(s) : l.ts \in Nat /\ l.ts <= Written(s)
             /\ \E l \in LinesOf(s) : l.ts = Written(s)
  <2>1. s \in DOMAIN seen /\ s \in Sessions /\ LinesOf(s) # {} /\ seen[s] \in 0..now
    BY <1>1 DEF ITypes, Held, LinesOf
  <2>2. newest[s] # {}
    BY <1>1, <2>1 DEF NewestOK
  <2>3. LinesOf(s) \subseteq Line
    BY <1>1 DEF LinesOf, ITypes, Content
  <2>4. PICK l \in LinesOf(s) : Row(s) = l.row
    BY <1>1, <2>1, RowInForce
  <2>5. l.row \in Projects
    BY <2>3, <2>4 DEF Line
  <2> QED
    BY <1>1, <2>1, <2>2, <2>4, <2>5, WrittenFacts
<1>5. DOMAIN due' = {r \in heard : IsDue(r)} /\ \A s \in DOMAIN due' : due'[s] = Row(s)
  BY <1>2
<1>6. ITypes'
  <2>1. DOMAIN due' \subseteq DOMAIN seen /\ \A s \in DOMAIN due' : due'[s] \in Projects
    BY <1>4, <1>5
  <2>2. promised' \in [Sessions -> Int]
    <3> SUFFICES ASSUME NEW s \in Sessions
                 PROVE  (IF s \in heard /\ Recent(s) /\ ~IsDue(s) THEN seen[s] ELSE promised[s]) \in Int
      BY <1>2
    <3>1. promised[s] \in Int
      BY <1>1 DEF ITypes
    <3>2. s \in heard => seen[s] \in Int
      BY <1>1, <1>4
    <3> QED
      BY <3>1, <3>2
  <2> QED
    BY <1>1, <1>2, <1>3, <2>1, <2>2 DEF ITypes
<1>7. DueOK'
  <2>1. pc' # "renew" => DOMAIN due' = {}
    BY <1>2 DEF Nobody
  <2>2. ASSUME NEW s \in DOMAIN due'
        PROVE  /\ now <= seen[s] + Span /\ newest[s] # {}
               /\ \A l \in LinesOf(s) : l.renewal => l.ts < now - Span
    <3>1. s \in heard /\ IsDue(s)
      BY <1>5
    <3>2. seen[s] \in 0..now /\ newest[s] # {} /\ Written(s) \in Nat
          /\ \A l \in LinesOf(s) : l.ts \in Nat /\ l.ts <= Written(s)
      BY <1>4, <3>1
    <3>3. seen[s] >= now - Span /\ seen[s] > Written(s) + Span
      BY <3>1 DEF IsDue, Recent
    <3> QED
      BY <1>1, <3>2, <3>3
  <2> QED
    BY <1>2, <1>3, <2>1, <2>2 DEF DueOK
<1>8. PromiseOK'
  <2> SUFFICES ASSUME NEW s \in Sessions, promised'[s] >= 0, now <= promised'[s] - Span + Horizon
               PROVE  \E l \in LinesOf(s) : l.ts >= promised'[s] - Span
    BY <1>2, <1>3 DEF PromiseOK
  <2>1. CASE s \in heard /\ Recent(s) /\ ~IsDue(s)
    <3>1. promised'[s] = seen[s]
      BY <1>2, <2>1
    <3>2. seen[s] \in 0..now /\ Written(s) \in Nat /\ \E l \in LinesOf(s) : l.ts = Written(s)
      BY <1>4, <2>1
    <3>3. ~(seen[s] > Written(s) + Span)
      BY <2>1 DEF IsDue
    <3> QED
      BY <1>1, <3>1, <3>2, <3>3
  <2>2. CASE ~(s \in heard /\ Recent(s) /\ ~IsDue(s))
    <3>1. promised'[s] = promised[s]
      BY <1>2, <2>2
    <3> QED
      BY <1>1, <3>1 DEF PromiseOK
  <2> QED
    BY <2>1, <2>2
<1> QED
  BY <1>1, <1>2, <1>3, <1>6, <1>7, <1>8 DEF IInv, Stamped, NewestOK, RowsOK, Behind

\* What a removed file held was too old to keep a promise.
LEMMA PruneKeeps == ASSUME IInv, Prune PROVE IInv'
<1>1. /\ ITypes /\ Stamped /\ DueOK /\ PromiseOK /\ NewestOK /\ RowsOK /\ now \in Nat
      /\ Span \in Nat /\ Horizon \in Nat
  BY IndexAssumption DEF IInv, ITypes
<1>2. /\ archives' = {f \in archives : ~Expired(f)} /\ pc = "idle" /\ pc' = "age"
      /\ UNCHANGED <<now, active, seen, due, newest, raced, promised>>
  BY DEF Prune, history
<1>3. Content' \subseteq Content /\ IsFiniteSet(Content')
  <2>1. Content' \subseteq Content
    BY <1>2 DEF Content
  <2> QED
    BY <1>1, <2>1, FS_Subset DEF ITypes
<1>4. \A r : LinesOf(r)' \subseteq LinesOf(r)
  BY <1>3 DEF LinesOf
<1>5. ASSUME NEW f \in archives
      PROVE  /\ Max(Stamps(f)) \in Nat /\ \A l \in f : l.ts \in Nat /\ l.ts <= Max(Stamps(f))
             /\ \E l \in f : l.ts = Max(Stamps(f))
  <2>1. f \subseteq Content /\ f \subseteq Line /\ f # {}
    BY <1>1 DEF ITypes, Content, Stamped
  <2>2. IsFiniteSet(f)
    BY <1>1, <2>1, FS_Subset DEF ITypes
  <2>3. \A l \in f : l.ts \in Nat
    BY <2>1 DEF Line
  <2> QED
    BY <2>1, <2>2, <2>3, NewestStamp
<1>6. \A l \in Content : l \in Content' \/ l.ts < now - Horizon
  <2> SUFFICES ASSUME NEW l \in Content, l \notin Content' PROVE l.ts < now - Horizon
    OBVIOUS
  <2>1. PICK f \in archives : l \in f
    BY <1>2 DEF Content
  <2>2. Max(Stamps(f)) < now - Horizon
    BY <1>2, <2>1 DEF Expired, Content
  <2>3. l.ts \in Nat /\ l.ts <= Max(Stamps(f)) /\ Max(Stamps(f)) \in Nat
    BY <1>5, <2>1
  <2> QED
    BY <1>1, <2>2, <2>3
<1>7. ITypes'
  BY <1>1, <1>2, <1>3 DEF ITypes
<1>8. Stamped' /\ DueOK' /\ NewestOK'
  <2>1. Stamped'
    BY <1>1, <1>2, <1>3 DEF Stamped
  <2>2. DueOK'
    BY <1>1, <1>2, <1>4 DEF DueOK
  <2>3. NewestOK'
    <3> SUFFICES ASSUME NEW r \in Sessions
                 PROVE  /\ \A n \in newest[r] :
                             /\ n.session = r /\ ~n.renewal /\ n.ts <= now /\ newest[r] = {n}
                             /\ \A l \in LinesOf(r)' : ~l.renewal => l = n \/ l.ts < n.ts
                        /\ LinesOf(r)' # {} => newest[r] # {}
      BY <1>2 DEF NewestOK
    <3>1. LinesOf(r)' \subseteq LinesOf(r)
      BY <1>4
    <3> QED
      BY <1>1, <3>1 DEF NewestOK
  <2> QED
    BY <2>1, <2>2, <2>3
<1>9. PromiseOK'
  <2> SUFFICES ASSUME NEW s \in Sessions, promised[s] >= 0, now <= promised[s] - Span + Horizon
               PROVE  \E l \in LinesOf(s)' : l.ts >= promised[s] - Span
    BY <1>2 DEF PromiseOK
  <2>1. PICK l \in LinesOf(s) : l.ts >= promised[s] - Span
    BY <1>1 DEF PromiseOK
  <2>2. promised[s] \in Int /\ l \in Content /\ l.ts \in Nat /\ l.session = s
    BY <1>1 DEF ITypes, LinesOf, Content, Line
  <2>3. ~(l.ts < now - Horizon)
    BY <1>1, <2>1, <2>2
  <2>4. l \in LinesOf(s)'
    BY <1>6, <2>2, <2>3 DEF LinesOf
  <2> QED
    BY <2>1, <2>4
<1>10. RowsOK'
  <2> SUFFICES ASSUME NEW s \in Sessions \ raced, NEW n \in newest[s], NEW k \in LinesOf(s)', k.row # n.row
               PROVE  Behind(k, n)'
    BY <1>2 DEF RowsOK
  <2>1. Behind(k, n)
    BY <1>1, <1>4 DEF RowsOK
  <2>2. ASSUME NEW f \in archives', k \in f, n \notin active
        PROVE  \E g \in archives' : n \in g /\ (f = g \/ \A a \in f, b \in g : a.ts <= b.ts)
    <3>1. f \in archives /\ ~Expired(f)
      BY <1>2, <2>2
    <3>2. PICK g \in archives : n \in g /\ (f = g \/ \A a \in f, b \in g : a.ts <= b.ts)
      BY <2>1, <2>2, <3>1 DEF Behind
    <3>3. ~Expired(g)
      <4>1. CASE f = g
        BY <3>1, <4>1
      <4>2. CASE \A a \in f, b \in g : a.ts <= b.ts
        <5>1. PICK a \in f : a.ts = Max(Stamps(f))
          BY <1>5, <3>1
        <5>2. Max(Stamps(f)) \in Nat /\ Max(Stamps(g)) \in Nat /\ n.ts \in Nat /\ n.ts <= Max(Stamps(g))
          BY <1>5, <3>1, <3>2
        <5>3. Max(Stamps(f)) <= n.ts
          BY <3>2, <4>2, <5>1
        <5> QED
          BY <1>1, <3>1, <5>2, <5>3 DEF Expired
      <4> QED
        BY <3>2, <4>1, <4>2
    <3> QED
      BY <1>2, <3>2, <3>3
  <2> QED
    BY <1>2, <2>1, <2>2 DEF Behind
<1> QED
  BY <1>7, <1>8, <1>9, <1>10 DEF IInv

\* The active file is rotated by age, and sessions long unheard are forgotten.
LEMMA AgeKeeps == ASSUME IInv, Age PROVE IInv'
<1>1. /\ ITypes /\ Stamped /\ DueOK /\ PromiseOK /\ NewestOK /\ RowsOK
  BY DEF IInv
<1>2. /\ pc = "age" /\ pc' = "idle" /\ UNCHANGED <<now, due, newest, raced, promised>>
      /\ seen' = [s \in {r \in DOMAIN seen : seen[r] >= now - Horizon} |-> seen[s]]
      /\ \/ UNCHANGED <<active, archives>>
         \/ active # {} /\ active' = {} /\ archives' = archives \cup {active}
  BY DEF Age, log, history
<1>3. Content' = Content /\ \A r : LinesOf(r)' = LinesOf(r)
  BY <1>2 DEF Content, LinesOf
<1>4. DOMAIN due = {}
  BY <1>1, <1>2 DEF DueOK
<1>5. active' \subseteq active /\ archives \subseteq archives' /\ archives' \subseteq archives \cup {active}
  BY <1>2
<1>6. ITypes'
  <2>1. DOMAIN seen' \subseteq DOMAIN seen /\ \A s \in DOMAIN seen' : seen'[s] = seen[s]
    BY <1>2
  <2> QED
    BY <1>1, <1>2, <1>3, <1>4, <1>5, <2>1 DEF ITypes
<1>7. Stamped'
  BY <1>1, <1>2, <1>3 DEF Stamped
<1>8. DueOK'
  BY <1>2, <1>4 DEF DueOK
<1>9. ASSUME NEW k, NEW n, Behind(k, n) PROVE Behind(k, n)'
  <2>1. CASE UNCHANGED <<active, archives>>
    BY <1>9, <2>1 DEF Behind
  <2>2. CASE active' = {} /\ archives' = archives \cup {active}
    <3>1. ASSUME NEW f \in archives', k \in f
          PROVE  \E g \in archives' : n \in g /\ (f = g \/ \A a \in f, b \in g : a.ts <= b.ts)
      <4>1. CASE f = active
        BY <1>9, <2>2, <3>1, <4>1 DEF Behind
      <4>2. CASE f \in archives /\ n \in active
        <5>1. \A a \in f, b \in active : a.ts <= b.ts
          BY <1>1, <4>2 DEF Stamped
        <5> QED
          BY <2>2, <4>2, <5>1
      <4>3. CASE f \in archives /\ n \notin active
        BY <1>9, <2>2, <3>1, <4>3 DEF Behind
      <4> QED
        BY <2>2, <3>1, <4>1, <4>2, <4>3
    <3> QED
      BY <2>2, <3>1 DEF Behind
  <2> QED
    BY <1>2, <2>1, <2>2
<1>10. RowsOK'
  BY <1>1, <1>2, <1>3, <1>9 DEF RowsOK
<1>11. PromiseOK' /\ NewestOK'
  BY <1>1, <1>2, <1>3 DEF PromiseOK, NewestOK
<1> QED
  BY <1>6, <1>7, <1>8, <1>10, <1>11 DEF IInv

\* The receiver goes and comes, and time passes.
LEMMA IdleKeeps == ASSUME IInv, Stop \/ Serve \/ Advance PROVE IInv'
<1>1. /\ ITypes /\ Stamped /\ DueOK /\ PromiseOK /\ NewestOK /\ RowsOK
      /\ now \in Nat /\ Horizon \in Nat /\ Span \in Nat
  BY IndexAssumption DEF IInv, ITypes
<1>2. /\ UNCHANGED <<active, archives, newest, raced, promised>>
      /\ now' \in {now, now + 1}
      /\ seen' = Nobody \/ seen' = seen
      /\ DOMAIN due' = {}
  BY <1>1 DEF Stop, Serve, Advance, log, history, Nobody, DueOK
<1>3. Content' = Content /\ \A r : LinesOf(r)' = LinesOf(r)
  BY <1>2 DEF Content, LinesOf
<1>4. \A l \in Content : l.ts \in Nat
  BY <1>1 DEF ITypes, Content, Line
<1>5. now' \in Nat /\ now <= now'
  BY <1>1, <1>2
<1>6. ITypes'
  <2>1. DOMAIN seen' \subseteq Sessions /\ \A s \in DOMAIN seen' : seen'[s] \in 0..now'
    BY <1>1, <1>2, <1>5 DEF ITypes, Nobody
  <2> QED
    BY <1>1, <1>2, <1>3, <1>5, <2>1 DEF ITypes
<1>7. Stamped'
  <2>1. \A l \in Content : l.ts <= now'
    BY <1>1, <1>4, <1>5 DEF Stamped
  <2> QED
    BY <1>1, <1>2, <1>3, <2>1 DEF Stamped
<1>8. DueOK'
  BY <1>2 DEF DueOK
<1>9. PromiseOK'
  <2>1. \A s \in Sessions : promised[s] \in Int
    BY <1>1 DEF ITypes
  <2>2. \A s \in Sessions : now' <= promised[s] - Span + Horizon => now <= promised[s] - Span + Horizon
    BY <1>1, <1>5, <2>1
  <2> QED
    BY <1>1, <1>2, <1>3, <2>2 DEF PromiseOK
<1>10. NewestOK'
  <2> SUFFICES ASSUME NEW s \in Sessions, NEW n \in newest[s] PROVE n.ts <= now'
    BY <1>1, <1>2, <1>3 DEF NewestOK
  <2>1. n.ts \in Nat /\ n.ts <= now
    BY <1>1 DEF ITypes, NewestOK, Line
  <2> QED
    BY <1>1, <1>5, <2>1
<1>11. RowsOK'
  BY <1>1, <1>2, <1>3 DEF RowsOK, Behind
<1> QED
  BY <1>6, <1>7, <1>8, <1>9, <1>10, <1>11 DEF IInv

\* Every step keeps the invariant.
LEMMA INextKeeps == ASSUME IInv, [Next]_vars PROVE IInv'
<1>1. CASE UNCHANGED vars
  <2>1. UNCHANGED <<now, active, archives, seen, due, pc, newest, raced, promised>>
    BY <1>1 DEF vars, log, history
  <2> QED
    BY <2>1 DEF IInv, ITypes, Stamped, DueOK, PromiseOK, NewestOK, RowsOK, Behind, LinesOf, Content
<1>2. CASE Next
  BY <1>2, StartKeeps, HearKeeps, RenewKeeps, RenewFailsKeeps, FlushKeeps, PruneKeeps, AgeKeeps, IdleKeeps
     DEF Next
<1> QED
  BY <1>1, <1>2

\* The invariant of the index: its files, the flush under way and its history agree.
THEOREM IndexInvariant == Spec => []IInv
<1> QED
  BY IInitOK, INextKeeps, PTL DEF Spec

\* However old its start, a session heard keeps its attribution for the horizon less a span.
THEOREM ProjectsLast == Spec => []HeardKeepsProject
<1>1. ASSUME IInv PROVE HeardKeepsProject
  BY <1>1 DEF IInv, PromiseOK, HeardKeepsProject, Held, LinesOf
<1> QED
  BY <1>1, IndexInvariant, PTL

\* The row in force is the newest start's, unless a renewal raced it and outlived it.
THEOREM StartsWin == Spec => []NewestStartWins
<1>1. ASSUME IInv PROVE NewestStartWins
  <2> SUFFICES ASSUME NEW s \in Held, newest[s] \subseteq Content \/ s \notin raced
               PROVE  \E n \in newest[s] : Row(s) = n.row
    BY DEF NewestStartWins
  <2>1. s \in Sessions /\ LinesOf(s) # {}
    BY <1>1 DEF IInv, ITypes, Held, LinesOf, Content, Line
  <2>2. PICK n \in newest[s] : n.session = s /\ ~n.renewal /\ newest[s] = {n}
                               /\ \A l \in LinesOf(s) : ~l.renewal => l = n \/ l.ts < n.ts
    BY <1>1, <2>1 DEF IInv, NewestOK
  <2>3. PICK l \in LinesOf(s) : Row(s) = l.row /\ \A k \in LinesOf(s) : ~Outranks(k, l)
    BY <1>1, <2>1, RowInForce DEF IInv
  <2>4. l \in Content /\ l.renewal \in BOOLEAN
    BY <1>1 DEF IInv, ITypes, LinesOf, Content, Line
  <2>5. CASE n \in Content
    <3>1. n \in LinesOf(s)
      BY <2>2, <2>5 DEF LinesOf
    <3>2. ~Outranks(n, l)
      BY <2>3, <3>1
    <3>3. ~l.renewal
      BY <2>2, <3>2 DEF Outranks
    <3>4. l = n \/ l.ts < n.ts
      BY <2>2, <3>3
    <3>5. l = n
      <4>1. {l.ts, n.ts} \subseteq Nat
        BY <1>1, <2>1, <2>4 DEF IInv, ITypes, Content, Line
      <4>2. n.renewal = FALSE /\ l.renewal = FALSE
        <5>1. n \in Line /\ n.renewal \in BOOLEAN
          BY <1>1, <2>1 DEF IInv, ITypes, Line
        <5> QED
          BY <2>2, <2>4, <3>3, <5>1
      <4>3. ~(n.ts > l.ts)
        BY <3>2, <4>2 DEF Outranks
      <4> QED
        BY <3>4, <4>1, <4>3
    <3> QED
      BY <2>3, <3>5
  <2>6. CASE n \notin Content
    <3>1. s \in Sessions \ raced
      BY <2>1, <2>2, <2>6
    <3>2. l.row # n.row => Behind(l, n)
      BY <1>1, <3>1 DEF IInv, RowsOK
    <3>3. ~Behind(l, n)
      BY <2>4, <2>6 DEF Behind, Content
    <3> QED
      BY <2>3, <3>2, <3>3
  <2> QED
    BY <2>5, <2>6
<1> QED
  BY <1>1, IndexInvariant, PTL

\* Renewals of a session are over a span apart, and each within a span of what made it due.
THEOREM RenewalsTimely == Spec => RenewalsKeepTime
<1>1. IInv /\ [Next]_vars =>
        [\A s \in Sessions : Renew(s) =>
           /\ \A l \in LinesOf(s) : l.renewal => l.ts < now - Span
           /\ now <= seen[s] + Span]_vars
  <2> SUFFICES ASSUME IInv, NEW s \in Sessions, Renew(s)
               PROVE  /\ \A l \in LinesOf(s) : l.renewal => l.ts < now - Span
                      /\ now <= seen[s] + Span
    OBVIOUS
  <2>1. s \in DOMAIN due
    BY DEF Renew, Renewed
  <2> QED
    BY <2>1 DEF IInv, DueOK
<1> QED
  BY <1>1, IndexInvariant, PTL DEF Spec, RenewalsKeepTime
=============================================================================
