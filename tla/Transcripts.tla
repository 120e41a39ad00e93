---------------------------- MODULE Transcripts ----------------------------
(***************************************************************************)
(* Responses read from the transcripts of a session (transcript.rs, called *)
(* by process_event of hook.rs).  Claude Code appends lines to the         *)
(* session's transcript and to one transcript per subagent, and runs a     *)
(* hook, a process of its own, when a subagent stops, when a turn ends and *)
(* when the session ends.  Each hook resumes every transcript it is due to *)
(* read at a remembered position, and writes what it finds to the ledger,  *)
(* which keeps the first record of a request.  The receiver's sweep        *)
(* removes positions and subagent lists nobody needs any more.             *)
(*                                                                         *)
(* A line is abstracted to the request it names and whether that request   *)
(* was billed; an offset counts lines.  A line that names no request is    *)
(* one whose request is not billed: both are skipped.  One session is      *)
(* modelled, since everything here is kept per session or per transcript.  *)
(***************************************************************************)
EXTENDS Integers, Sequences, SequencesExt, FiniteSets, FiniteSetsExt

CONSTANTS
  Main,        \* the session's own transcript
  Agents,      \* the transcripts of its subagents
  Requests,    \* API requests
  Hooks,       \* hook processes that run at once
  Batch,       \* WRITE_BATCH
  \* Bounds of the model.
  MaxLines,    \* lines appended to all transcripts
  MaxEvents,   \* hooks started
  MaxFaults    \* hooks killed, writes failed, positions lost, transcripts replaced or removed

ASSUME TranscriptsAssumption ==
  /\ Main \notin Agents /\ IsFiniteSet(Agents)
  /\ Batch \in Nat \ {0} /\ {MaxLines, MaxEvents, MaxFaults} \subseteq Nat

VARIABLES
  disk,        \* transcript -> its file: an identity and its lines, Gone when there is none
  position,    \* transcript -> the position kept for it, None without one
  list,        \* the subagent transcripts remembered under the session: a list is
               \* created with its first line, so an empty one is none
  ledger,      \* the requests a record was written for
  hook,        \* hook -> where it is
  sweep,       \* the file the sweep found stale and is about to remove
  \* Bounds and history.
  appended, events, faults, files,
  named        \* subagent transcripts whose line a hook appended and no sweep removed since

claude == <<disk, appended, files>>
kept   == <<position, list>>
tvars  == <<claude, kept, ledger, hook, sweep, events, faults, named>>

Transcripts == {Main} \cup Agents
Gone == [file |-> 0, lines |-> <<>>]
None == [file |-> 0, offset |-> 0]
NoSweep == "nothing"
TheList == "list"

TranscriptLine == [request : Requests, billed : BOOLEAN, whole : BOOLEAN]
Exists(p) == disk[p].file # 0

\* The responses among `lines`: a response the API billed reports tokens, so an entry without any,
\* of a request refused or copied with a parent's history, never claims its request.
Responses(lines) == {i \in DOMAIN lines : lines[i].whole /\ lines[i].billed}

\* The requests they name.
Billed(lines) == {lines[i].request : i \in Responses(lines)}

Idle == [at |-> "idle", event |-> "none", todo |-> <<>>, file |-> 0, offset |-> 0, batch |-> {},
         started |-> 0, failed |-> FALSE, owed |-> {}]
-----------------------------------------------------------------------------
(* The session's side: Claude Code writes its transcripts.                 *)

\* It creates a transcript with its first line, and writes a line in two steps.
BeginLine(p, r, billed) ==
  /\ appended < MaxLines /\ appended' = appended + 1
  /\ disk[p].lines # <<>> => Last(disk[p].lines).whole
  /\ LET line == [request |-> r, billed |-> billed, whole |-> FALSE] IN
     IF Exists(p)
     THEN disk' = [disk EXCEPT ![p].lines = Append(@, line)] /\ UNCHANGED files
     ELSE disk' = [disk EXCEPT ![p] = [file |-> files + 1, lines |-> <<line>>]] /\ files' = files + 1
  /\ UNCHANGED <<kept, named, ledger, hook, sweep, events, faults>>

FinishLine(p) ==
  /\ disk[p].lines # <<>> /\ ~Last(disk[p].lines).whole
  /\ disk' = [disk EXCEPT ![p].lines[Len(disk[p].lines)].whole = TRUE]
  /\ UNCHANGED <<kept, named, ledger, hook, sweep, appended, events, faults, files>>

\* It removes an old transcript, or writes one anew under the same path, as a file of another
\* identity: what is there is not cut short in place, no inode is given out again, and the platform
\* is a Unix.  What the lost lines held no hook under way owes any more.
Lose(p, new) ==
  /\ faults < MaxFaults /\ faults' = faults + 1
  /\ Exists(p)
  /\ disk' = [disk EXCEPT ![p] = new]
  /\ hook' = [h \in Hooks |-> [hook[h] EXCEPT !.owed = @ \ Billed(disk[p].lines)]]
  /\ UNCHANGED <<kept, named, ledger, sweep, appended, events>>

Delete(p)  == Lose(p, Gone) /\ UNCHANGED files
Replace(p) == Lose(p, [file |-> files + 1, lines |-> <<>>]) /\ files' = files + 1
-----------------------------------------------------------------------------
(* A hook: due, then read for each transcript, then the event's record.    *)

\* What every whole line of the session's transcripts owes a turn's end that begins now.
Owed == UNION {Billed(disk[p].lines) : p \in {Main} \cup named}

\* What a turn's or the session's end reads.
EndReads == <<Main>> \o SetToSeq(list)

\* A turn or the session ends.
EndDue(h) ==
  /\ hook[h].at \in {"idle", "done"} /\ events < MaxEvents /\ events' = events + 1
  /\ hook' = [hook EXCEPT ![h] =
       [Idle EXCEPT !.at = "open", !.event = "end", !.owed = Owed,
                    !.todo = EndReads]]
  /\ UNCHANGED <<claude, kept, named, ledger, sweep, faults>>

\* A subagent ends: a transcript already remembered is not appended again.
AgentDue(h, a) ==
  /\ hook[h].at \in {"idle", "done"} /\ events < MaxEvents /\ events' = events + 1
  /\ hook' = [hook EXCEPT ![h] =
       [Idle EXCEPT !.at = IF a \in list THEN "open" ELSE "remember", !.event = "agent",
                    !.todo = <<a>>]]
  /\ UNCHANGED <<claude, kept, named, ledger, sweep, faults>>

\* The line is appended through a descriptor of its own, which creates the list if need be.
Remember(h) ==
  /\ hook[h].at = "remember"
  /\ list' = list \cup {Head(hook[h].todo)}
  /\ named' = named \cup {Head(hook[h].todo)}
  /\ hook' = [hook EXCEPT ![h].at = "open"]
  /\ UNCHANGED <<claude, position, ledger, sweep, events, faults>>

\* A list that cannot be written: the transcript is read now, and never again.
RememberFails(h) ==
  /\ hook[h].at = "remember"
  /\ faults < MaxFaults /\ faults' = faults + 1
  /\ hook' = [hook EXCEPT ![h].at = "open"]
  /\ UNCHANGED <<claude, kept, named, ledger, sweep, events>>

\* The next transcript, or the event's own record when there is none left.
NextOf(h) == [hook[h] EXCEPT !.todo = Tail(@), !.at = "open", !.batch = {}]

\* Whatever file it was measured in.
WrongStartOf(p) ==
  IF position[p] # None /\ position[p].offset <= Len(disk[p].lines) THEN position[p].offset ELSE 0

\* A position counts only for the file it was measured in, and only inside it.
StartOf(p) ==
  IF /\ position[p] # None /\ position[p].file = disk[p].file
     /\ position[p].offset <= Len(disk[p].lines)
  THEN position[p].offset
  ELSE 0

Open(h) ==
  /\ hook[h].at = "open" /\ hook[h].todo # <<>>
  /\ LET p == Head(hook[h].todo) IN
     hook' = [hook EXCEPT ![h] =
       IF ~Exists(p) \/ StartOf(p) = Len(disk[p].lines)
       THEN NextOf(h)
       ELSE [@ EXCEPT !.at = "read", !.file = disk[p].file,
                      !.started = StartOf(p), !.offset = StartOf(p)]]
  /\ UNCHANGED <<claude, kept, named, ledger, sweep, events, faults>>

\* The lines an open descriptor still reaches: those of a file removed since are left out, and
\* reading them would only add to the ledger.
Reachable(h) ==
  LET d == disk[Head(hook[h].todo)] IN IF d.file = hook[h].file THEN d.lines ELSE <<>>

\* A line still being written is read as whole.
WrongLastReadable(lines, from) == Len(lines)

\* The last line read: the one that fills the batch, or the last whole one written so far.
LastReadable(lines, from) ==
  LET whole == {k \in from..Len(lines) : k > from => lines[k].whole}
      full  == {k \in whole : Cardinality(Responses(SubSeq(lines, from + 1, k))) >= Batch}
  IN IF full # {} THEN Min(full) ELSE Max(whole)

\* Lines are read until the batch is full or the next one is not whole.  A file only grows under a
\* reader, so reading them at once is reading them one by one, the last of them now.
ReadLines(h) ==
  /\ hook[h].at = "read"
  /\ LET lines == Reachable(h)
         from  == hook[h].offset
         to    == IF from > Len(lines) THEN from ELSE LastReadable(lines, from)
         read  == SubSeq(lines, from + 1, to)
         found == Cardinality(Responses(read))
     IN hook' = [hook EXCEPT ![h].offset = to, ![h].batch = Billed(read),
                   ![h].at = IF found >= Batch THEN "write"
                             ELSE IF found > 0 THEN "last write" ELSE "position"]
  /\ UNCHANGED <<claude, kept, ledger, sweep, events, faults, named>>

\* write_new commits the batch: a request the ledger already holds keeps its record.
CommitBatch(h) ==
  /\ hook[h].at \in {"write", "last write"}
  /\ ledger' = ledger \cup hook[h].batch
  /\ hook' = [hook EXCEPT ![h].batch = {},
                          ![h].at = IF hook[h].at = "write" THEN "save" ELSE "position"]
  /\ UNCHANGED <<claude, kept, named, sweep, events, faults>>

\* The write fails: the read of this transcript ends there, and the next one goes on.
CommitFails(h) ==
  /\ hook[h].at \in {"write", "last write"}
  /\ faults < MaxFaults /\ faults' = faults + 1
  /\ hook' = [hook EXCEPT ![h] = [NextOf(h) EXCEPT !.failed = TRUE]]
  /\ UNCHANGED <<claude, kept, named, ledger, sweep, events>>

\* Position::save, first half: another read of this file that got further keeps its position.
Further(h) ==
  LET p == position[Head(hook[h].todo)] IN
  p # None /\ p.file = hook[h].file /\ p.offset >= hook[h].offset

AfterSave(h) == IF hook[h].at \in {"save", "rename"} THEN [hook[h] EXCEPT !.at = "read"] ELSE NextOf(h)

SavePosition(h) ==
  /\ \/ hook[h].at = "save"
     \/ hook[h].at = "position"
  /\ hook' = [hook EXCEPT ![h] =
       IF Further(h) \/ (hook[h].at = "position" /\ hook[h].offset = hook[h].started)
       THEN AfterSave(h)
       ELSE [@ EXCEPT !.at = IF hook[h].at = "save" THEN "rename" ELSE "last rename"]]
  /\ UNCHANGED <<claude, kept, named, ledger, sweep, events, faults>>

\* Second half: the rename, whatever another hook saved meanwhile.
Rename(h) ==
  /\ hook[h].at \in {"rename", "last rename"}
  /\ position' = [position EXCEPT ![Head(hook[h].todo)] =
                    [file |-> hook[h].file, offset |-> hook[h].offset]]
  /\ hook' = [hook EXCEPT ![h] = AfterSave(h)]
  /\ UNCHANGED <<claude, named, list, ledger, sweep, events, faults>>

\* Every transcript is read: the hook writes its event's own records, which are not modelled here,
\* and exits.
HookExits(h) ==
  /\ hook[h].at = "open" /\ hook[h].todo = <<>>
  /\ hook' = [hook EXCEPT ![h].at = "done"]
  /\ UNCHANGED <<claude, kept, named, ledger, sweep, events, faults>>

\* A hook is killed anywhere.
KillHook(h) ==
  /\ hook[h].at \notin {"idle", "done"}
  /\ faults < MaxFaults /\ faults' = faults + 1
  /\ hook' = [hook EXCEPT ![h] = Idle]
  /\ UNCHANGED <<claude, kept, named, ledger, sweep, events>>

\* A position that cannot be written or read is none.
LosePosition(p) ==
  /\ position[p] # None
  /\ faults < MaxFaults /\ faults' = faults + 1
  /\ position' = [position EXCEPT ![p] = None]
  /\ UNCHANGED <<claude, named, list, ledger, hook, sweep, events>>
-----------------------------------------------------------------------------
(* prune_positions: each file is judged, then removed, in two steps.       *)

\* A position whose transcript is gone; a list none of whose transcripts exist.
Stale(f) == IF f = TheList THEN list # {} /\ ~\E p \in list : Exists(p)
            ELSE position[f] # None /\ ~Exists(f)

Judge(f) ==
  /\ sweep = NoSweep /\ Stale(f)
  /\ sweep' = f
  /\ UNCHANGED <<claude, kept, named, ledger, hook, events, faults>>

RemoveStale ==
  /\ sweep # NoSweep /\ sweep' = NoSweep
  /\ IF sweep = TheList
     THEN /\ list' = {}
          /\ named' = named \ list
          /\ UNCHANGED position
     ELSE position' = [position EXCEPT ![sweep] = None] /\ UNCHANGED <<named, list>>
  /\ UNCHANGED <<claude, ledger, hook, events, faults>>
-----------------------------------------------------------------------------
TInit ==
  /\ disk = [p \in Transcripts |-> Gone]
  /\ position = [p \in Transcripts |-> None]
  /\ list = {} /\ ledger = {} /\ hook = [h \in Hooks |-> Idle] /\ sweep = NoSweep
  /\ appended = 0 /\ events = 0 /\ faults = 0 /\ files = 0
  /\ named = {}

HookStep(h) ==
  \/ EndDue(h) \/ (\E a \in Agents : AgentDue(h, a)) \/ Remember(h) \/ RememberFails(h)
  \/ Open(h) \/ ReadLines(h) \/ CommitBatch(h) \/ CommitFails(h)
  \/ SavePosition(h) \/ Rename(h) \/ HookExits(h) \/ KillHook(h)

TNext ==
  \/ \E p \in Transcripts, r \in Requests, b \in BOOLEAN : BeginLine(p, r, b)
  \/ \E p \in Transcripts : FinishLine(p) \/ Delete(p) \/ Replace(p) \/ LosePosition(p)
  \/ \E h \in Hooks : HookStep(h)
  \/ \E f \in Transcripts \cup {TheList} : Judge(f)
  \/ RemoveStale

TSpec == TInit /\ [][TNext]_tvars
-----------------------------------------------------------------------------
(* A position says that what lies before it is recorded: every billed      *)
(* request of the lines before the offset, in the file the position was    *)
(* measured in, is in the ledger, however hooks overlap, are killed        *)
(* between the record and the position, or save positions out of order     *)
(* (the doc of transcript.rs: reading is correct without the position).    *)
PositionCoversRecorded ==
  \A p \in Transcripts :
    position[p] # None /\ position[p].file = disk[p].file
      => Billed(SubSeq(disk[p].lines, 1, position[p].offset)) \subseteq ledger

(* A turn's end whose hook was not killed and whose writes succeeded       *)
(* leaves every response in the ledger that a whole line of the session's  *)
(* or of a remembered subagent's transcript held when the event came, the  *)
(* late ones of a subagent whose own hook ran too early among them         *)
(* (transcript.rs, subagents and due).                                     *)
EndReadsEverything ==
  \A h \in Hooks :
    hook[h].at = "done" /\ hook[h].event = "end" /\ ~hook[h].failed => hook[h].owed \subseteq ledger
=============================================================================
