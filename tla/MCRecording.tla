---------------------------- MODULE MCRecording ----------------------------
(***************************************************************************)
(* Instances of what hooks leave behind: the positions of the transcripts  *)
(* they read, and the index of the sessions they announce.  The two share  *)
(* no state, so a behaviour is of one of them, and the other stays as it   *)
(* begins.                                                                 *)
(***************************************************************************)
EXTENDS Transcripts, SessionIndex, TLC

VARIABLE part

rest == <<part, tvars, vars>>

\* Hooks and sessions are the same two values, requests and projects another two: no part has both
\* of a pair, so what permutes one permutes the other.
Symmetry == Permutations(Hooks) \cup Permutations(Requests)
-----------------------------------------------------------------------------
RecordingInit ==
  /\ part \in {"transcripts", "index"}
  /\ TInit /\ Init

InTranscripts == part = "transcripts" /\ UNCHANGED <<part, vars>>
InIndex       == part = "index" /\ UNCHANGED <<part, tvars>>

\* Every action is a disjunct of its own, so that a run reports each.
RecordingNext ==
  \/ InTranscripts /\ \E p \in Transcripts, r \in Requests, b \in BOOLEAN : BeginLine(p, r, b)
  \/ InTranscripts /\ \E p \in Transcripts : FinishLine(p)
  \/ InTranscripts /\ \E p \in Transcripts : Delete(p)
  \/ InTranscripts /\ \E p \in Transcripts : Replace(p)
  \/ InTranscripts /\ \E p \in Transcripts : LosePosition(p)
  \/ InTranscripts /\ \E h \in Hooks : EndDue(h)
  \/ InTranscripts /\ \E h \in Hooks, a \in Agents : AgentDue(h, a)
  \/ InTranscripts /\ \E h \in Hooks : Remember(h)
  \/ InTranscripts /\ \E h \in Hooks : RememberFails(h)
  \/ InTranscripts /\ \E h \in Hooks : Open(h)
  \/ InTranscripts /\ \E h \in Hooks : ReadLines(h)
  \/ InTranscripts /\ \E h \in Hooks : CommitBatch(h)
  \/ InTranscripts /\ \E h \in Hooks : CommitFails(h)
  \/ InTranscripts /\ \E h \in Hooks : SavePosition(h)
  \/ InTranscripts /\ \E h \in Hooks : Rename(h)
  \/ InTranscripts /\ \E h \in Hooks : HookExits(h)
  \/ InTranscripts /\ \E h \in Hooks : KillHook(h)
  \/ InTranscripts /\ \E f \in Transcripts \cup {TheList} : Judge(f)
  \/ InTranscripts /\ RemoveStale
  \/ InIndex /\ \E s \in Sessions, p \in Projects : Start(s, p)
  \/ InIndex /\ \E s \in Sessions : Hear(s)
  \/ InIndex /\ \E s \in Sessions : Renew(s)
  \/ InIndex /\ \E s \in Sessions : RenewFails(s)
  \/ InIndex /\ Flush
  \/ InIndex /\ Prune
  \/ InIndex /\ Age
  \/ InIndex /\ Stop
  \/ InIndex /\ Serve
  \/ InIndex /\ Advance

RecordingSpec == RecordingInit /\ [][RecordingNext]_rest
=============================================================================
