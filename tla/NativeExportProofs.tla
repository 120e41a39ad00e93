------------------------- MODULE NativeExportProofs -------------------------
(***************************************************************************)
(* Theorems about NativeExport, for any bodies, sessions, projects,        *)
(* policies and limits.                                                    *)
(*                                                                         *)
(* The invariant that is inductive is NInv: the types; where the worker    *)
(* can stand; that the bodies the destination holds are each in one place, *)
(* once; that what is reserved is what they weigh; and what a body that is *)
(* looked at a second time has behind it.  ReservedIsHeld is read off it:  *)
(* counting a sequence by its length is counting its bodies only because   *)
(* none is in it twice, and a body gives its bytes back only because it is *)
(* still held.                                                             *)
(***************************************************************************)
EXTENDS NativeExport, SumFacts, SequenceTheorems, TLAPS

\* The bodies the destination holds.
Holds == offered \cup ToSet(queue) \cup ({body} \ {None}) \cup ToSet(retry) \cup ToSet(parked)

NTypeOK ==
  /\ now \in Nat /\ starts \in Nat /\ changed \in Nat
  /\ policy \in Policies \cup {None} /\ target \in Policies \cup {None}
  /\ reserved \in Int
  /\ arrived \in SUBSET Bodies /\ offered \in SUBSET Bodies
  /\ queue \in Seq(Bodies) /\ retry \in Seq(Bodies) /\ parked \in Seq(Bodies)
  /\ pc \in {"idle", "retry", "body", "stopped"} /\ body \in Bodies \cup {None}
  /\ missing \in [Bodies -> SUBSET Sessions] /\ since \in [Bodies -> Nat]
  /\ sent \in [Bodies -> 0..2]

\* Where the worker can stand.
Standing ==
  /\ pc # "retry" => retry = <<>>
  /\ pc \in {"idle", "stopped"} => body = None
  /\ pc = "body" => body # None
  /\ final => body = None /\ pc \in {"retry", "stopped"}

\* A body the destination holds came with a request and is in one place, once.
Placed ==
  /\ Holds \subseteq arrived
  /\ IsInjective(queue) /\ IsInjective(retry) /\ IsInjective(parked)
  /\ offered \cap (ToSet(queue) \cup {body} \cup ToSet(retry) \cup ToSet(parked)) = {}
  /\ ToSet(queue) \cap ({body} \cup ToSet(retry) \cup ToSet(parked)) = {}
  /\ body \notin ToSet(retry) \cup ToSet(parked)
  /\ ToSet(retry) \cap ToSet(parked) = {}

\* What is reserved is what they weigh.
Accounts == reserved = SumFunctionOnSet(SizeOf, Holds) /\ reserved <= MaxQueued

\* What a body that will be looked at again has behind it: not sent before its first look; while
\* it is parked, sent only if one change had the destination unfiltered when its copy was not.
SecondPass ==
  /\ changed = 0 => target = policy
  /\ \A b \in Bodies :
       /\ b \notin arrived \/ b \in offered \cup ToSet(queue) \cup {body} => sent[b] = 0
       /\ b \in ToSet(retry) \cup ToSet(parked) /\ sent[b] > 0 =>
            changed > 0 /\ (changed = 1 /\ policy # None => ~policy.filtered)
       /\ changed < 2 => sent[b] < 2

NInv == NTypeOK /\ Standing /\ Placed /\ Accounts /\ SecondPass

-----------------------------------------------------------------------------
(***************************************************************************)
(* Queues: what they hold when a body joins or leaves.                     *)
(***************************************************************************)

LEMMA EmptyQueue == ToSet(<<>>) = {} /\ IsInjective(<<>>)
BY DEF ToSet, IsInjective

\* A body that was not in a queue joins it at its end.
LEMMA Joins ==
  ASSUME NEW S, NEW s \in Seq(S), NEW b \in S
  PROVE  /\ Append(s, b) \in Seq(S)
         /\ ToSet(Append(s, b)) = ToSet(s) \cup {b}
         /\ IsInjective(s) /\ b \notin ToSet(s) => IsInjective(Append(s, b))
<1>1. /\ Append(s, b) \in Seq(S) /\ DOMAIN Append(s, b) = 1..Len(s) + 1 /\ DOMAIN s = 1..Len(s)
      /\ \A i \in 1..Len(s) : Append(s, b)[i] = s[i]
      /\ Append(s, b)[Len(s) + 1] = b /\ Len(s) \in Nat
  OBVIOUS
<1>2. 1..Len(s) + 1 = 1..Len(s) \cup {Len(s) + 1}
  BY <1>1
<1>3. ToSet(Append(s, b)) = ToSet(s) \cup {b}
  BY <1>1, <1>2 DEF ToSet
<1>4. ASSUME IsInjective(s), b \notin ToSet(s)
      PROVE  IsInjective(Append(s, b))
  BY <1>1, <1>2, <1>4 DEF ToSet, IsInjective
<1> QED
  BY <1>1, <1>3, <1>4

\* The first body leaves.
LEMMA Leaves ==
  ASSUME NEW S, NEW s \in Seq(S), s # <<>>
  PROVE  /\ Head(s) \in S /\ Tail(s) \in Seq(S)
         /\ ToSet(s) = ToSet(Tail(s)) \cup {Head(s)}
         /\ IsInjective(s) => IsInjective(Tail(s)) /\ Head(s) \notin ToSet(Tail(s))
<1> DEFINE t == Tail(s)
<1>1. /\ Head(s) \in S /\ t \in Seq(S) /\ Len(t) = Len(s) - 1
      /\ \A i \in 1..Len(t) : t[i] = s[i + 1]
  BY HeadTailProperties
<1>2. /\ DOMAIN s = 1..Len(s) /\ DOMAIN t = 1..Len(t) /\ Head(s) = s[1]
      /\ Len(s) \in Nat \ {0} /\ Len(t) \in Nat
  BY EmptySeq, <1>1
<1> HIDE DEF t
<1>3. ToSet(s) \subseteq ToSet(t) \cup {Head(s)}
  <2> SUFFICES ASSUME NEW i \in 1..Len(s) PROVE s[i] \in ToSet(t) \cup {Head(s)}
    BY <1>2 DEF ToSet
  <2>1. CASE i = 1
    BY <1>2, <2>1
  <2>2. CASE i # 1
    <3>1. i - 1 \in 1..Len(t) /\ t[i - 1] = s[i]
      BY <1>1, <1>2, <2>2
    <3> QED
      BY <1>2, <3>1 DEF ToSet
  <2> QED
    BY <2>1, <2>2
<1>4. ToSet(t) \cup {Head(s)} \subseteq ToSet(s)
  <2> SUFFICES ASSUME NEW i \in 1..Len(t) PROVE t[i] \in ToSet(s)
    BY <1>2 DEF ToSet
  <2>1. i + 1 \in 1..Len(s) /\ t[i] = s[i + 1]
    BY <1>1, <1>2
  <2> QED
    BY <1>2, <2>1 DEF ToSet
<1>5. ASSUME IsInjective(s)
      PROVE  IsInjective(t) /\ Head(s) \notin ToSet(t)
  <2>1. \A i \in 1..Len(t) : i + 1 \in 1..Len(s) /\ i + 1 # 1
    BY <1>1, <1>2
  <2>2. \A i, j \in 1..Len(t) : t[i] = t[j] => i = j
    <3> SUFFICES ASSUME NEW i \in 1..Len(t), NEW j \in 1..Len(t), t[i] = t[j] PROVE i = j
      OBVIOUS
    <3>1. s[i + 1] = s[j + 1]
      BY <1>1
    <3>2. i + 1 = j + 1
      BY <1>2, <1>5, <2>1, <3>1 DEF IsInjective
    <3> QED
      BY <3>2
  <2>3. \A i \in 1..Len(t) : t[i] # Head(s)
    <3> SUFFICES ASSUME NEW i \in 1..Len(t), t[i] = Head(s) PROVE FALSE
      OBVIOUS
    <3>1. s[i + 1] = s[1] /\ 1 \in 1..Len(s)
      BY <1>1, <1>2
    <3>2. i + 1 = 1
      BY <1>2, <1>5, <2>1, <3>1 DEF IsInjective
    <3> QED
      BY <2>1, <3>2
  <2> QED
    BY <1>2, <2>2, <2>3 DEF IsInjective, ToSet
<1> QED
  BY <1>1, <1>3, <1>4, <1>5 DEF t

\* A queue without repetition is as long as it holds bodies.
LEMMA LengthCounts ==
  ASSUME NEW S, NEW s \in Seq(S), IsInjective(s)
  PROVE  IsFiniteSet(ToSet(s)) /\ Cardinality(ToSet(s)) = Len(s)
<1>1. DOMAIN s = 1..Len(s) /\ Len(s) \in Nat
  OBVIOUS
<1>2. s \in [1..Len(s) -> ToSet(s)]
  BY LenProperties, <1>1 DEF ToSet
<1>3. s \in Surjection(1..Len(s), ToSet(s)) /\ s \in Injection(1..Len(s), ToSet(s))
  BY <1>1, <1>2 DEF Surjection, Injection, IsInjective, ToSet
<1>4. IsFiniteSet(1..Len(s)) /\ Cardinality(1..Len(s)) = Len(s)
  BY <1>1, FS_Interval
<1> QED
  BY <1>3, <1>4, FS_Surjection

\* What two queues hold, one after the other.
LEMMA Concatenated ==
  ASSUME NEW S, NEW s \in Seq(S), NEW t \in Seq(S)
  PROVE  s \o t \in Seq(S) /\ ToSet(s \o t) = ToSet(s) \cup ToSet(t)
<1> DEFINE c == s \o t
<1>0. Len(s) \in Nat /\ Len(t) \in Nat
  BY LenProperties
<1>1. /\ c \in Seq(S) /\ Len(c) = Len(s) + Len(t)
      /\ \A i \in 1..Len(s) + Len(t) : c[i] = IF i <= Len(s) THEN s[i] ELSE t[i - Len(s)]
  BY ConcatProperties
<1>2. DOMAIN c = 1..Len(c) /\ DOMAIN s = 1..Len(s) /\ DOMAIN t = 1..Len(t)
  BY <1>1
<1> HIDE DEF c
<1>3. ToSet(c) \subseteq ToSet(s) \cup ToSet(t)
  <2> SUFFICES ASSUME NEW i \in 1..Len(c) PROVE c[i] \in ToSet(s) \cup ToSet(t)
    BY <1>2 DEF ToSet
  <2>1. CASE i <= Len(s)
    BY <1>1, <1>2, <2>1 DEF ToSet
  <2>2. CASE ~(i <= Len(s))
    <3>1. i - Len(s) \in 1..Len(t) /\ c[i] = t[i - Len(s)]
      BY <1>0, <1>1, <2>2
    <3> QED
      BY <1>2, <3>1 DEF ToSet
  <2> QED
    BY <2>1, <2>2
<1>4. ASSUME NEW i \in 1..Len(s) PROVE s[i] \in ToSet(c)
  <2>0. i \in 1..Len(s) + Len(t) /\ i <= Len(s)
    BY <1>0
  <2>1. i \in 1..Len(c) /\ c[i] = s[i]
    BY <1>0, <1>1, <2>0
  <2> QED
    BY <1>2, <2>1 DEF ToSet
<1>5. ASSUME NEW i \in 1..Len(t) PROVE t[i] \in ToSet(c)
  <2>0. /\ i + Len(s) \in 1..Len(s) + Len(t) /\ ~(i + Len(s) <= Len(s))
        /\ (i + Len(s)) - Len(s) = i
    BY <1>0
  <2>1. i + Len(s) \in 1..Len(c) /\ c[i + Len(s)] = t[i]
    BY <1>0, <1>1, <2>0
  <2> QED
    BY <1>2, <2>1 DEF ToSet
<1>6. ToSet(s) \cup ToSet(t) \subseteq ToSet(c)
  BY <1>2, <1>4, <1>5 DEF ToSet
<1> QED
  BY <1>1, <1>3, <1>6 DEF c

-----------------------------------------------------------------------------
(***************************************************************************)
(* Each step: the types, and where the worker stands.                      *)
(***************************************************************************)

\* The assumption, taken apart.
LEMMA Given ==
  /\ IsFiniteSet(Bodies) /\ None \notin Bodies /\ None \notin Policies
  /\ SessionsOf \in [Bodies -> SUBSET Sessions] /\ SizeOf \in [Bodies -> Nat]
  /\ \A t \in Policies : t.filtered \in BOOLEAN
  /\ QueueCap \in Nat \ {0} /\ MaxQueued \in Nat /\ DeferTimeout \in Nat
BY NativeAssumption DEF Policy

\* What a forward makes of the requests counted.
LEMMA ForwardCounts ==
  ASSUME NTypeOK, NEW b \in Bodies, NEW pass, NEW projects, Forward(b, pass, projects)
  PROVE  /\ sent' \in [Bodies -> 0..2]
         /\ \A c \in Bodies : c # b => sent'[c] = sent[c]
         /\ ~Sends(b, pass, projects) => sent' = sent
         /\ sent[b] = 0 => sent'[b] <= 1
         /\ sent'[b] # sent[b] => Sends(b, pass, projects)
BY DEF NTypeOK, Forward

LEMMA ArriveTypes ==
  ASSUME NTypeOK, Standing, NEW b \in Bodies, Arrive(b)
  PROVE  NTypeOK' /\ Standing'
<1>1. reserved' \in Int /\ offered' \in SUBSET Bodies
  BY Given DEF Arrive, NTypeOK
<1> QED
  BY <1>1 DEF Arrive, NTypeOK, Standing, env, worker

LEMMA OfferTypes ==
  ASSUME NTypeOK, Standing, NEW b \in Bodies, Offer(b)
  PROVE  NTypeOK' /\ Standing'
<1>0. Append(queue, b) \in Seq(Bodies)
  BY DEF NTypeOK
<1>1. reserved' \in Int /\ queue' \in Seq(Bodies) /\ offered' \in SUBSET Bodies
  <2>1. CASE Len(queue) < QueueCap
    BY <1>0, <2>1 DEF Offer, NTypeOK
  <2>2. CASE ~(Len(queue) < QueueCap)
    BY <2>2, Given DEF Offer, Full, NTypeOK
  <2> QED
    BY <2>1, <2>2
<1> QED
  BY <1>1 DEF Offer, NTypeOK, Standing, env, worker

LEMMA TakeTypes ==
  ASSUME NTypeOK, Standing, Take
  PROVE  NTypeOK' /\ Standing'
<1>1. body' \in Bodies /\ queue' \in Seq(Bodies)
  BY Leaves DEF Take, NTypeOK
<1>2. parked' \in Seq(Bodies)
  BY DEF Take
<1> QED
  BY <1>1, <1>2 DEF Take, NTypeOK, Standing, env

LEMMA LookAgainTypes ==
  ASSUME NTypeOK, Standing, pc = "idle", LookAgain
  PROVE  NTypeOK' /\ Standing'
<1>1. parked' \in Seq(Bodies)
  BY DEF LookAgain
<1> QED
  BY <1>1 DEF LookAgain, NTypeOK, Standing, env

LEMMA RetryTypes ==
  ASSUME NTypeOK, Standing, Retry
  PROVE  NTypeOK' /\ Standing'
<1>1. Head(retry) \in Bodies /\ retry' \in Seq(Bodies)
  BY Leaves DEF Retry, NTypeOK
<1>2. parked' \in Seq(Bodies)
  <2>1. Append(parked, Head(retry)) \in Seq(Bodies)
    BY <1>1 DEF NTypeOK
  <2> QED
    BY <2>1 DEF Retry, NTypeOK
<1>3. reserved' \in Int /\ sent' \in [Bodies -> 0..2]
  BY <1>1, Given, ForwardCounts DEF Retry, Release, NTypeOK
<1> QED
  BY <1>1, <1>2, <1>3 DEF Retry, NTypeOK, Standing, env

LEMMA RetriedTypes ==
  ASSUME NTypeOK, Standing, Retried
  PROVE  NTypeOK' /\ Standing'
<1>1. CASE body # None
  <2>1. ~final
    BY <1>1 DEF Standing
  <2>2. pc' = "body"
    BY <1>1, <2>1 DEF Retried
  <2> QED
    BY <1>1, <2>1, <2>2 DEF Retried, NTypeOK, Standing, env
<1>2. CASE body = None /\ final
  BY <1>2 DEF Retried, NTypeOK, Standing, env
<1>3. CASE body = None /\ ~final
  BY <1>3 DEF Retried, NTypeOK, Standing, env
<1> QED
  BY <1>1, <1>2, <1>3

LEMMA HandleTypes ==
  ASSUME NTypeOK, Standing, Handle
  PROVE  NTypeOK' /\ Standing'
<1>1. body \in Bodies
  BY DEF Handle, Standing, NTypeOK
<1>2. parked' \in Seq(Bodies)
  <2>1. Append(parked, body) \in Seq(Bodies)
    BY <1>1 DEF NTypeOK
  <2> QED
    BY <2>1 DEF Handle, NTypeOK
<1>3. Missing(body) \in SUBSET Sessions
  BY <1>1, Given DEF Missing
<1>4. missing' \in [Bodies -> SUBSET Sessions] /\ since' \in [Bodies -> Nat]
  BY <1>1, <1>3 DEF Handle, NTypeOK
<1>5. reserved' \in Int
  BY <1>1, Given DEF Handle, Release, NTypeOK
<1>6. sent' \in [Bodies -> 0..2]
  BY <1>1, ForwardCounts DEF Handle, NTypeOK
<1> QED
  BY <1>1, <1>2, <1>4, <1>5, <1>6 DEF Handle, NTypeOK, Standing, env

LEMMA WorldTypes ==
  ASSUME NTypeOK, Standing,
         (\E s \in Sessions : StartSession(s)) \/ Configure \/ Advance \/ Shutdown
  PROVE  NTypeOK' /\ Standing'
<1>1. CASE \E s \in Sessions : StartSession(s)
  BY <1>1 DEF StartSession, NTypeOK, Standing, worker
<1>2. CASE Configure
  BY <1>2 DEF Configure, NTypeOK, Standing, worker
<1>3. CASE Advance
  BY <1>3 DEF Advance, NTypeOK, Standing, worker
<1>4. CASE Shutdown
  BY <1>4 DEF Shutdown, NTypeOK, Standing, worker, env
<1> QED
  BY <1>1, <1>2, <1>3, <1>4

-----------------------------------------------------------------------------
(***************************************************************************)
(* Each step: where the bodies are, and what becomes of those held.        *)
(***************************************************************************)

\* What a queue of bodies holds is bodies, none of them None.
LEMMA Held ==
  ASSUME NTypeOK
  PROVE  Holds \in SUBSET Bodies /\ None \notin Holds
<1>1. \A s \in Seq(Bodies) : ToSet(s) \subseteq Bodies
  BY DEF ToSet
<1> QED
  BY <1>1, Given DEF NTypeOK, Holds

LEMMA ArrivePlaced ==
  ASSUME NTypeOK, Placed, NEW b \in Bodies, Arrive(b)
  PROVE  /\ Placed'
         /\ Fits(b) => b \notin Holds /\ Holds' = Holds \cup {b} /\ reserved' = reserved + SizeOf[b]
         /\ ~Fits(b) => Holds' = Holds /\ reserved' = reserved
<1>1. /\ queue' = queue /\ body' = body /\ retry' = retry /\ parked' = parked
      /\ arrived' = arrived \cup {b} /\ b \notin arrived
  BY DEF Arrive, worker
<1>2. b \notin Holds /\ b # None
  BY <1>1, Given DEF Placed
<1>3. CASE Fits(b)
  <2>1. offered' = offered \cup {b} /\ reserved' = reserved + SizeOf[b]
    BY <1>3 DEF Arrive
  <2>2. Holds' = Holds \cup {b}
    BY <1>1, <2>1 DEF Holds
  <2>3. b \notin ToSet(queue) \cup {body} \cup ToSet(retry) \cup ToSet(parked)
    BY <1>2 DEF Holds
  <2>4. Placed'
    BY <1>1, <2>1, <2>2, <2>3 DEF Placed
  <2> QED
    BY <1>2, <1>3, <2>1, <2>2, <2>4
<1>4. CASE ~Fits(b)
  <2>1. offered' = offered /\ reserved' = reserved
    BY <1>4 DEF Arrive
  <2>2. Holds' = Holds
    BY <1>1, <2>1 DEF Holds
  <2>3. Placed'
    BY <1>1, <2>1, <2>2 DEF Placed
  <2> QED
    BY <1>4, <2>1, <2>2, <2>3
<1> QED
  BY <1>3, <1>4

LEMMA OfferPlaced ==
  ASSUME NTypeOK, Placed, NEW b \in Bodies, Offer(b)
  PROVE  /\ Placed'
         /\ \/ Holds' = Holds /\ reserved' = reserved
            \/ b \in Holds /\ Holds' = Holds \ {b} /\ reserved' = reserved - SizeOf[b]
<1>1. /\ body' = body /\ retry' = retry /\ parked' = parked /\ arrived' = arrived
      /\ b \in offered /\ offered' = offered \ {b}
  BY DEF Offer, worker
<1>2. b \notin ToSet(queue) \cup {body} \cup ToSet(retry) \cup ToSet(parked) /\ b \in Holds
  BY <1>1 DEF Placed, Holds
<1>3. CASE Len(queue) < QueueCap
  <2>1. queue' = Append(queue, b) /\ reserved' = reserved
    BY <1>3 DEF Offer
  <2>2. ToSet(queue') = ToSet(queue) \cup {b} /\ IsInjective(queue')
    BY <1>2, <2>1, Joins DEF NTypeOK, Placed
  <2>3. Holds' = Holds
    BY <1>1, <2>2 DEF Holds
  <2>4. Placed'
    BY <1>1, <1>2, <2>2, <2>3 DEF Placed
  <2> QED
    BY <2>1, <2>3, <2>4
<1>4. CASE ~(Len(queue) < QueueCap)
  <2>1. queue' = queue /\ reserved' = reserved - SizeOf[b]
    BY <1>4 DEF Offer, Full
  <2>2. Holds' = Holds \ {b}
    BY <1>1, <1>2, <2>1 DEF Holds
  <2>3. Placed'
    BY <1>1, <2>1, <2>2 DEF Placed
  <2> QED
    BY <1>2, <2>1, <2>2, <2>3
<1> QED
  BY <1>3, <1>4

LEMMA TakePlaced ==
  ASSUME NTypeOK, Standing, Placed, Take
  PROVE  Placed' /\ Holds' = Holds /\ reserved' = reserved
<1>1. /\ body = None /\ retry = <<>> /\ queue # <<>> /\ arrived' = arrived /\ offered' = offered
      /\ body' = Head(queue) /\ queue' = Tail(queue) /\ retry' = parked /\ parked' = <<>>
      /\ reserved' = reserved
  BY DEF Take, Standing
<1>2. /\ body' \in Bodies /\ ToSet(queue) = ToSet(queue') \cup {body'}
      /\ IsInjective(queue') /\ body' \notin ToSet(queue')
  BY <1>1, Leaves DEF NTypeOK, Placed
<1>3. /\ ToSet(retry) = {} /\ ToSet(parked') = {} /\ IsInjective(parked')
      /\ ToSet(retry') = ToSet(parked) /\ IsInjective(retry')
  BY <1>1, EmptyQueue DEF Placed
<1>4. body' # None
  BY <1>2, Given
<1>5. Holds' = Holds
  BY <1>1, <1>2, <1>3, <1>4 DEF Holds
<1>6. Placed'
  BY <1>1, <1>2, <1>3, <1>5 DEF Placed
<1> QED
  BY <1>1, <1>5, <1>6

LEMMA LookAgainPlaced ==
  ASSUME NTypeOK, Standing, Placed, pc = "idle", LookAgain
  PROVE  Placed' /\ Holds' = Holds /\ reserved' = reserved
<1>1. /\ retry = <<>> /\ arrived' = arrived /\ offered' = offered /\ queue' = queue
      /\ body' = body /\ retry' = parked /\ parked' = <<>> /\ reserved' = reserved
  BY DEF LookAgain, Standing
<1>2. /\ ToSet(retry) = {} /\ ToSet(parked') = {} /\ IsInjective(parked')
      /\ ToSet(retry') = ToSet(parked) /\ IsInjective(retry')
  BY <1>1, EmptyQueue DEF Placed
<1>3. Holds' = Holds
  BY <1>1, <1>2 DEF Holds
<1>4. Placed'
  BY <1>1, <1>2, <1>3 DEF Placed
<1> QED
  BY <1>1, <1>3, <1>4

\* A parked body waits on.
WaitsOn == ~final /\ ~Ready(Head(retry)) /\ ~Expired(Head(retry))

LEMMA RetryPlaced ==
  ASSUME NTypeOK, Placed, Retry
  PROVE  /\ Placed' /\ Head(retry) \in ToSet(retry) /\ Head(retry) \in Bodies
         /\ Head(retry) \notin ToSet(retry') /\ ToSet(retry) = ToSet(retry') \cup {Head(retry)}
         /\ WaitsOn => /\ Holds' = Holds /\ reserved' = reserved
                       /\ ToSet(parked') = ToSet(parked) \cup {Head(retry)}
         /\ ~WaitsOn => /\ Holds' = Holds \ {Head(retry)}
                        /\ reserved' = reserved - SizeOf[Head(retry)]
                        /\ parked' = parked
<1> DEFINE b == Head(retry)
<1>1. /\ arrived' = arrived /\ offered' = offered /\ queue' = queue /\ body' = body
      /\ retry # <<>> /\ retry' = Tail(retry)
  BY DEF Retry
<1>2. /\ b \in Bodies /\ ToSet(retry) = ToSet(retry') \cup {b}
      /\ IsInjective(retry') /\ b \notin ToSet(retry')
  BY <1>1, Leaves DEF NTypeOK, Placed
<1>3. b \in Holds /\ b # None /\ b \in ToSet(retry)
  BY <1>2, Given DEF Holds
<1>4. b \notin offered \cup ToSet(queue) \cup {body} \cup ToSet(parked)
  BY <1>3 DEF Placed
<1>5. CASE WaitsOn
  <2>1. parked' = Append(parked, b) /\ reserved' = reserved
    BY <1>5 DEF Retry, WaitsOn
  <2>2. ToSet(parked') = ToSet(parked) \cup {b} /\ IsInjective(parked')
    BY <1>2, <1>4, <2>1, Joins DEF NTypeOK, Placed
  <2> HIDE DEF b
  <2>3. Holds' = Holds
    BY <1>1, <1>2, <2>2 DEF Holds
  <2>4. Placed'
    BY <1>1, <1>2, <1>4, <2>2, <2>3 DEF Placed
  <2> QED
    BY <1>2, <1>3, <1>5, <2>1, <2>2, <2>3, <2>4 DEF b
<1>6. CASE ~WaitsOn
  <2>1. parked' = parked /\ reserved' = reserved - SizeOf[b]
    BY <1>6 DEF Retry, WaitsOn, Release
  <2> HIDE DEF b
  <2>2. Holds' = Holds \ {b}
    BY <1>1, <1>2, <1>4, <2>1 DEF Holds
  <2>3. Placed'
    BY <1>1, <1>2, <1>4, <2>1, <2>2 DEF Placed
  <2> QED
    BY <1>2, <1>3, <1>6, <2>1, <2>2, <2>3 DEF b
<1> QED
  BY <1>5, <1>6

\* A body parks at its first look.
Parks ==
  /\ target # None /\ target.filtered
  /\ Attributable(body) /\ Missing(body) # {} /\ Len(parked) < MaxDeferred

LEMMA HandlePlaced ==
  ASSUME NTypeOK, Standing, Placed, Handle
  PROVE  /\ Placed' /\ body \in Bodies /\ body \in Holds /\ body' = None /\ retry' = retry
         /\ Parks => /\ Holds' = Holds /\ reserved' = reserved
                     /\ ToSet(parked') = ToSet(parked) \cup {body}
         /\ ~Parks => /\ Holds' = Holds \ {body} /\ reserved' = reserved - SizeOf[body]
                      /\ parked' = parked
<1>1. /\ arrived' = arrived /\ offered' = offered /\ queue' = queue /\ body' = None
      /\ retry' = retry
  BY DEF Handle
<1>2. body \in Bodies /\ body # None /\ body \in Holds
  BY DEF Handle, Standing, NTypeOK, Holds
<1>3. body \notin offered \cup ToSet(queue) \cup ToSet(retry) \cup ToSet(parked)
  BY DEF Placed
<1>4. None \notin Holds /\ Holds \in SUBSET Bodies
  BY Held
<1>5. CASE Parks
  <2>1. parked' = Append(parked, body) /\ reserved' = reserved
    BY <1>5 DEF Handle, Parks
  <2>2. ToSet(parked') = ToSet(parked) \cup {body} /\ IsInjective(parked')
    BY <1>2, <1>3, <2>1, Joins DEF NTypeOK, Placed
  <2>3. Holds' = Holds
    BY <1>1, <1>2, <2>2 DEF Holds
  <2>4. None \notin offered \cup ToSet(queue) \cup ToSet(retry) \cup ToSet(parked')
    BY <1>2, <1>4, <2>2 DEF Holds
  <2>5. Placed'
    BY <1>1, <1>3, <2>2, <2>3, <2>4 DEF Placed
  <2> QED
    BY <1>1, <1>2, <1>5, <2>1, <2>2, <2>3, <2>5
<1>6. CASE ~Parks
  <2>1. parked' = parked /\ reserved' = reserved - SizeOf[body]
    BY <1>6 DEF Handle, Parks, Release
  <2>2. Holds' = Holds \ {body}
    BY <1>1, <1>3, <2>1 DEF Holds
  <2>3. None \notin offered \cup ToSet(queue) \cup ToSet(retry) \cup ToSet(parked)
    BY <1>4 DEF Holds
  <2>4. Placed'
    BY <1>1, <1>3, <2>1, <2>2, <2>3 DEF Placed
  <2> QED
    BY <1>1, <1>2, <1>6, <2>1, <2>2, <2>4
<1> QED
  BY <1>5, <1>6

\* The rest moves no body.
Still == Retried \/ (\E s \in Sessions : StartSession(s)) \/ Configure \/ Advance \/ Shutdown

LEMMA StillPlaced ==
  ASSUME Placed, Still \/ UNCHANGED vars
  PROVE  Placed' /\ Holds' = Holds /\ reserved' = reserved
<1>1. UNCHANGED <<reserved, arrived, offered, queue, body, retry, parked>>
  BY DEF Still, Retried, StartSession, Configure, Advance, Shutdown, worker, vars
<1> QED
  BY <1>1 DEF Placed, Holds

-----------------------------------------------------------------------------
(***************************************************************************)
(* The bytes.                                                              *)
(***************************************************************************)

LEMMA ArriveAccounts ==
  ASSUME NTypeOK, Placed, Accounts, NEW b \in Bodies, Arrive(b)
  PROVE  Accounts'
<1>1. IsFiniteSet(Holds) /\ Holds \in SUBSET Bodies
  BY Held, Given, FS_Subset
<1>2. CASE Fits(b)
  <2>1. b \notin Holds /\ Holds' = Holds \cup {b} /\ reserved' = reserved + SizeOf[b]
    BY <1>2, ArrivePlaced
  <2>2. \A x \in Holds \cup {b} : SizeOf[x] \in Int
    BY <1>1, Given
  <2>3. SumFunctionOnSet(SizeOf, Holds \cup {b}) = SumFunctionOnSet(SizeOf, Holds) + SizeOf[b]
    <3> DEFINE H == Holds
    <3>1. IsFiniteSet(H) /\ b \notin H /\ \A x \in H \cup {b} : SizeOf[x] \in Int
      BY <1>1, <2>1, <2>2
    <3> HIDE DEF H
    <3>2. SumFunctionOnSet(SizeOf, H \cup {b}) = SumFunctionOnSet(SizeOf, H) + SizeOf[b]
      BY <3>1, SumAdds
    <3> QED
      BY <3>2 DEF H
  <2>4. reserved' <= MaxQueued
    BY <1>2, <2>1 DEF Fits
  <2> QED
    BY <2>1, <2>3, <2>4 DEF Accounts
<1>3. CASE ~Fits(b)
  BY <1>3, ArrivePlaced DEF Accounts
<1> QED
  BY <1>2, <1>3

\* A body that is held gives back what it weighs.
LEMMA GivesBack ==
  ASSUME NTypeOK, Accounts, NEW b \in Holds, Holds' = Holds \ {b},
         reserved' = reserved - SizeOf[b]
  PROVE  Accounts'
<1>1. IsFiniteSet(Holds) /\ Holds \in SUBSET Bodies
  BY Held, Given, FS_Subset
<1>2. SumFunctionOnSet(SizeOf, Holds \ {b}) = SumFunctionOnSet(SizeOf, Holds) - SizeOf[b]
  <2> DEFINE H == Holds
  <2>1. IsFiniteSet(H) /\ b \in H /\ \A x \in H : SizeOf[x] \in Int
    BY <1>1, Given
  <2> HIDE DEF H
  <2>2. SumFunctionOnSet(SizeOf, H \ {b}) = SumFunctionOnSet(SizeOf, H) - SizeOf[b]
    BY <2>1, SumRemoves
  <2> QED
    BY <2>2 DEF H
<1>3. reserved' <= MaxQueued
  BY <1>1, Given DEF NTypeOK, Accounts
<1> QED
  BY <1>2, <1>3 DEF Accounts

LEMMA WorkerAccounts ==
  ASSUME NTypeOK, Standing, Placed, Accounts, Worker
  PROVE  Placed' /\ Accounts'
<1>1. CASE Take
  BY <1>1, TakePlaced DEF Accounts
<1>2. CASE Wake \/ FinalLook
  BY <1>2, LookAgainPlaced DEF Wake, FinalLook, Accounts
<1>3. CASE Retry
  <2>1. CASE WaitsOn
    BY <1>3, <2>1, RetryPlaced DEF Accounts
  <2>2. CASE ~WaitsOn
    <3>1. Head(retry) \in Holds
      BY <1>3, RetryPlaced DEF Holds, NTypeOK
    <3> QED
      BY <1>3, <2>2, <3>1, RetryPlaced, GivesBack
  <2> QED
    BY <2>1, <2>2
<1>4. CASE Retried
  BY <1>4, StillPlaced DEF Still, Accounts
<1>5. CASE Handle
  <2>1. CASE Parks
    BY <1>5, <2>1, HandlePlaced DEF Accounts
  <2>2. CASE ~Parks
    BY <1>5, <2>2, HandlePlaced, GivesBack
  <2> QED
    BY <2>1, <2>2
<1> QED
  BY <1>1, <1>2, <1>3, <1>4, <1>5 DEF Worker

-----------------------------------------------------------------------------
(***************************************************************************)
(* The second pass.                                                        *)
(***************************************************************************)

\* SecondPass of one body.
Behind(b) ==
  /\ b \notin arrived \/ b \in offered \cup ToSet(queue) \cup {body} => sent[b] = 0
  /\ b \in ToSet(retry) \cup ToSet(parked) /\ sent[b] > 0 =>
       changed > 0 /\ (changed = 1 /\ policy # None => ~policy.filtered)
  /\ changed < 2 => sent[b] < 2

\* A step that sends nothing, changes nothing and lets no body fall behind where it was.
LEMMA BehindStays ==
  ASSUME NEW b \in Bodies, Behind(b), sent' = sent, changed' = changed, policy' = policy,
         b \notin arrived' \/ b \in offered' \cup ToSet(queue') \cup {body'} =>
           b \notin arrived \/ b \in offered \cup ToSet(queue) \cup {body},
         b \in ToSet(retry') \cup ToSet(parked') =>
           \/ b \in ToSet(retry) \cup ToSet(parked)
           \/ b \notin arrived \/ b \in offered \cup ToSet(queue) \cup {body}
  PROVE  Behind(b)'
BY DEF Behind

LEMMA ArriveSecond ==
  ASSUME NTypeOK, Placed, SecondPass, NEW b \in Bodies, Arrive(b)
  PROVE  SecondPass'
<1>1. /\ sent' = sent /\ changed' = changed /\ policy' = policy /\ target' = target
      /\ queue' = queue /\ body' = body /\ retry' = retry /\ parked' = parked
      /\ arrived' = arrived \cup {b} /\ b \notin arrived /\ offered' \subseteq offered \cup {b}
  BY DEF Arrive, env, worker
<1>2. ASSUME NEW c \in Bodies PROVE Behind(c)'
  BY <1>1, <1>2, BehindStays DEF SecondPass, Behind
<1> QED
  BY <1>1, <1>2 DEF SecondPass, Behind

LEMMA OfferSecond ==
  ASSUME NTypeOK, Placed, SecondPass, NEW b \in Bodies, Offer(b)
  PROVE  SecondPass'
<1>1. /\ sent' = sent /\ changed' = changed /\ policy' = policy /\ target' = target
      /\ body' = body /\ retry' = retry /\ parked' = parked
      /\ arrived' = arrived /\ b \in offered /\ offered' \subseteq offered
  BY DEF Offer, env, worker
<1>2. ToSet(queue') \subseteq ToSet(queue) \cup {b}
  <2>1. CASE Len(queue) < QueueCap
    <3>1. ToSet(Append(queue, b)) = ToSet(queue) \cup {b}
      BY Joins DEF NTypeOK
    <3> QED
      BY <2>1, <3>1 DEF Offer
  <2>2. CASE ~(Len(queue) < QueueCap)
    BY <2>2 DEF Offer, Full
  <2> QED
    BY <2>1, <2>2
<1>3. ASSUME NEW c \in Bodies PROVE Behind(c)'
  BY <1>1, <1>2, <1>3, BehindStays DEF SecondPass, Behind
<1> QED
  BY <1>1, <1>3 DEF SecondPass, Behind

LEMMA TakeSecond ==
  ASSUME NTypeOK, Standing, Placed, SecondPass, Take
  PROVE  SecondPass'
<1>1. /\ sent' = sent /\ changed' = changed /\ policy' = policy /\ target' = policy'
      /\ retry' = parked /\ parked' = <<>> /\ queue # <<>>
      /\ body' = Head(queue) /\ queue' = Tail(queue) /\ arrived' = arrived /\ offered' = offered
  BY DEF Take, env
<1>2. ToSet(queue) = ToSet(queue') \cup {body'}
  BY <1>1, Leaves DEF NTypeOK
<1>3. ToSet(parked') = {} /\ ToSet(retry') = ToSet(parked)
  BY <1>1, EmptyQueue
<1>4. ASSUME NEW c \in Bodies PROVE Behind(c)'
  BY <1>1, <1>2, <1>3, <1>4, BehindStays DEF SecondPass, Behind
<1> QED
  BY <1>1, <1>4 DEF SecondPass, Behind

LEMMA LookAgainSecond ==
  ASSUME NTypeOK, SecondPass, LookAgain
  PROVE  SecondPass'
<1>1. /\ sent' = sent /\ changed' = changed /\ policy' = policy /\ target' = target
      /\ retry' = parked /\ parked' = <<>> /\ UNCHANGED <<queue, body, arrived, offered>>
  BY DEF LookAgain, env
<1>2. ToSet(parked') = {} /\ ToSet(retry') = ToSet(parked)
  BY <1>1, EmptyQueue
<1>3. ASSUME NEW c \in Bodies PROVE Behind(c)'
  BY <1>1, <1>2, <1>3, BehindStays DEF SecondPass, Behind
<1> QED
  BY <1>1, <1>3 DEF SecondPass, Behind

\* A parked body is sent only where the destination filters now, so not one that was sent before
\* and of one change.
LEMMA RetrySecond ==
  ASSUME NTypeOK, Placed, SecondPass, Retry
  PROVE  SecondPass'
<1>0. PICK b \in Bodies : b = Head(retry)
  BY RetryPlaced
<1>1. /\ changed' = changed /\ policy' = policy /\ target' = target
      /\ UNCHANGED <<queue, body, arrived, offered>>
  BY DEF Retry, env
<1>2. /\ b \in Bodies /\ b \in ToSet(retry) /\ b \notin ToSet(retry')
      /\ ToSet(retry') \cup ToSet(parked') \subseteq ToSet(retry) \cup ToSet(parked)
      /\ ~WaitsOn => b \notin ToSet(retry') \cup ToSet(parked')
  BY <1>0, RetryPlaced DEF Placed
<1>3. b \in arrived /\ b \notin offered \cup ToSet(queue) \cup {body}
  BY <1>2, Given DEF Placed, Holds, NTypeOK
<1>4. CASE WaitsOn \/ ~Resolved(b)
  <2>1. sent' = sent
    BY <1>0, <1>4 DEF Retry, WaitsOn
  <2>2. ASSUME NEW c \in Bodies PROVE Behind(c)'
    BY <1>1, <1>2, <2>1, <2>2, BehindStays DEF SecondPass, Behind
  <2> QED
    BY <1>1, <2>2 DEF SecondPass, Behind
<1>5. CASE ~WaitsOn /\ Resolved(b)
  <2>1. Forward(b, "filtered", ProjectsOf(b))
    BY <1>0, <1>5 DEF Retry, WaitsOn
  <2>2. /\ sent' \in [Bodies -> 0..2] /\ \A c \in Bodies : c # b => sent'[c] = sent[c]
        /\ sent[b] = 0 => sent'[b] <= 1
        /\ sent'[b] # sent[b] => Sends(b, "filtered", ProjectsOf(b))
    BY <1>2, <2>1, ForwardCounts
  <2>3. sent'[b] # sent[b] => policy # None /\ policy.filtered
    BY <2>2, Given DEF Sends, NTypeOK
  <2>4. changed < 2 => sent'[b] < 2
    <3>0. sent[b] \in 0..2 /\ sent'[b] \in 0..2
      BY <1>2, <2>2 DEF NTypeOK
    <3>1. CASE sent'[b] = sent[b]
      BY <3>1, <1>2 DEF SecondPass
    <3>2. CASE sent[b] = 0
      BY <2>2, <3>0, <3>2
    <3>3. CASE sent'[b] # sent[b] /\ sent[b] # 0
      <4>1. sent[b] > 0
        BY <3>0, <3>3
      <4>2. changed > 0 /\ changed # 1
        BY <1>2, <2>3, <3>3, <4>1 DEF SecondPass
      <4> QED
        BY <4>2 DEF NTypeOK
    <3> QED
      BY <3>1, <3>2, <3>3
  <2>5. Behind(b)'
    BY <1>1, <1>2, <1>3, <1>5, <2>4 DEF Behind
  <2>6. ASSUME NEW c \in Bodies, c # b PROVE Behind(c)'
    BY <1>1, <1>2, <2>2, <2>6 DEF SecondPass, Behind
  <2> QED
    BY <1>1, <2>5, <2>6 DEF SecondPass, Behind
<1> QED
  BY <1>4, <1>5

\* At its first look a body that parks was sent only past its filter, by a destination that
\* filters in the worker's copy and no longer does.
LEMMA HandleSecond ==
  ASSUME NTypeOK, Standing, Placed, SecondPass, Handle
  PROVE  SecondPass'
<1>0. PICK b \in Bodies : b = body
  BY HandlePlaced
<1>1. /\ changed' = changed /\ policy' = policy /\ target' = target
      /\ UNCHANGED <<queue, arrived, offered, retry>> /\ body' = None
  BY DEF Handle, env
<1>2. /\ b \in Bodies /\ b \in arrived /\ sent[b] = 0
      /\ b \notin offered \cup ToSet(queue) \cup ToSet(retry) \cup ToSet(parked)
      /\ ToSet(parked') \subseteq ToSet(parked) \cup {b}
      /\ ~Parks => parked' = parked
  <2>1. b \in Bodies /\ b \in Holds
    BY <1>0, HandlePlaced
  <2> QED
    BY <1>0, <2>1, HandlePlaced DEF Placed, SecondPass
<1>3. b # None
  BY <1>2, Given
<1>4. \E pass, projects :
        /\ Forward(b, pass, projects)
        /\ Parks => pass = "unfiltered"
  <2>1. CASE ~(target # None /\ target.filtered)
    BY <1>0, <2>1 DEF Handle, Parks
  <2>2. CASE (target # None /\ target.filtered) /\ Resolved(b)
    <3>1. Forward(b, "all", ProjectsOf(b))
      BY <1>0, <2>2 DEF Handle
    <3>2. ~Parks
      BY <1>0, <2>2 DEF Parks, Resolved
    <3> QED
      BY <3>1, <3>2
  <2>3. CASE (target # None /\ target.filtered) /\ ~Resolved(b)
    BY <1>0, <2>3 DEF Handle
  <2> QED
    BY <2>1, <2>2, <2>3
<1>5. PICK pass, projects : Forward(b, pass, projects) /\ (Parks => pass = "unfiltered")
  BY <1>4
<1>6. /\ sent' \in [Bodies -> 0..2] /\ \A c \in Bodies : c # b => sent'[c] = sent[c]
      /\ sent'[b] <= 1
      /\ sent'[b] # sent[b] => Sends(b, pass, projects)
  <2> QED
    BY <1>2, <1>5, ForwardCounts
<1>7. Parks /\ sent'[b] > 0 => changed > 0 /\ (policy # None => ~policy.filtered)
  <2> SUFFICES ASSUME Parks, sent'[b] > 0 PROVE changed > 0 /\ policy # None /\ ~policy.filtered
    OBVIOUS
  <2>1. Sends(b, "unfiltered", projects)
    BY <1>2, <1>5, <1>6
  <2>2. policy # None /\ ~policy.filtered
    BY <2>1, Given DEF Sends, NTypeOK
  <2>3. target # policy
    BY <2>2 DEF Parks
  <2> QED
    BY <2>2, <2>3 DEF SecondPass, NTypeOK
<1>8. Behind(b)'
  <2>1. sent'[b] < 2
    <3>1. sent'[b] \in 0..2
      BY <1>6
    <3> QED
      BY <1>6, <3>1
  <2>2. b \notin ToSet(retry')
    BY <1>1, <1>2
  <2>3. b \in ToSet(parked') => Parks
    BY <1>2
  <2>4. b \in arrived' /\ b \notin offered' \cup ToSet(queue') \cup {body'}
    BY <1>1, <1>2, <1>3
  <2> QED
    BY <1>1, <1>7, <2>1, <2>2, <2>3, <2>4 DEF Behind
<1>9. ASSUME NEW c \in Bodies, c # b PROVE Behind(c)'
  <2>1. sent'[c] = sent[c] /\ c # None /\ c # body'
    BY <1>1, <1>6, <1>9, Given
  <2> QED
    BY <1>1, <1>2, <1>9, <2>1 DEF SecondPass, Behind
<1> QED
  BY <1>1, <1>8, <1>9 DEF SecondPass, Behind

LEMMA StillSecond ==
  ASSUME NTypeOK, SecondPass, Still \/ UNCHANGED vars
  PROVE  SecondPass'
<1>1. UNCHANGED <<arrived, offered, queue, body, retry, parked, sent, target>>
  BY DEF Still, Retried, StartSession, Configure, Advance, Shutdown, worker, vars
<1>2. CASE Configure
  <2>1. changed' = changed + 1
    BY <1>2 DEF Configure
  <2>2. ASSUME NEW b \in Bodies PROVE Behind(b)'
    <3>1. changed' = 1 => changed = 0
      BY <2>1 DEF NTypeOK
    <3> QED
      BY <1>1, <2>1, <3>1 DEF SecondPass, Behind, NTypeOK
  <2> QED
    BY <2>1, <2>2 DEF SecondPass, Behind, NTypeOK
<1>3. CASE Retried \/ (\E s \in Sessions : StartSession(s)) \/ Advance \/ Shutdown \/ UNCHANGED vars
  <2>1. changed' = changed /\ policy' = policy
    BY <1>3 DEF Retried, StartSession, Advance, Shutdown, env, vars
  <2> QED
    BY <1>1, <2>1 DEF SecondPass
<1> QED
  BY <1>2, <1>3 DEF Still

-----------------------------------------------------------------------------
(***************************************************************************)
(* What the invariant gives.                                               *)
(***************************************************************************)

LEMMA SumOfFive ==
  ASSUME NEW f, \A i \in 1..5 : f[i] \in Int
  PROVE  SumFunctionOnSet(f, 1..5) = f[1] + f[2] + f[3] + f[4] + f[5]
<1> DEFINE one == {} \cup {1}
           two == one \cup {2}
           three == two \cup {3}
           four == three \cup {4}
           five == four \cup {5}
<1>0. /\ one = {1} /\ two = {1, 2} /\ three = {1, 2, 3} /\ four = {1, 2, 3, 4} /\ five = 1..5
      /\ one \subseteq 1..5 /\ two \subseteq 1..5 /\ three \subseteq 1..5 /\ four \subseteq 1..5
  OBVIOUS
<1>1. /\ IsFiniteSet({}) /\ IsFiniteSet(one) /\ IsFiniteSet(two)
      /\ IsFiniteSet(three) /\ IsFiniteSet(four)
  <2>1. IsFiniteSet({}) /\ IsFiniteSet(one)
    BY FS_EmptySet, FS_AddElement
  <2> HIDE DEF one
  <2>2. IsFiniteSet(two)
    BY <2>1, FS_AddElement
  <2> HIDE DEF two
  <2>3. IsFiniteSet(three)
    BY <2>2, FS_AddElement
  <2> HIDE DEF three
  <2> QED
    BY <2>1, <2>2, <2>3, FS_AddElement
<1>2. SumFunctionOnSet(f, one) = f[1]
  <2>1. SumFunctionOnSet(f, {} \cup {1}) = SumFunctionOnSet(f, {}) + f[1]
    BY <1>1, SumAdds
  <2> QED
    BY <2>1, SumOfNone
<1>3. SumFunctionOnSet(f, two) = f[1] + f[2]
  <2>1. 2 \notin one /\ \A x \in one \cup {2} : f[x] \in Int
    OBVIOUS
  <2> HIDE DEF one
  <2> QED
    BY <1>1, <1>2, <2>1, SumAdds
<1>4. SumFunctionOnSet(f, three) = f[1] + f[2] + f[3]
  <2>1. 3 \notin two /\ \A x \in two \cup {3} : f[x] \in Int
    OBVIOUS
  <2> HIDE DEF two
  <2> QED
    BY <1>1, <1>3, <2>1, SumAdds
<1>5. SumFunctionOnSet(f, four) = f[1] + f[2] + f[3] + f[4]
  <2>1. 4 \notin three /\ \A x \in three \cup {4} : f[x] \in Int
    OBVIOUS
  <2> HIDE DEF three
  <2> QED
    BY <1>1, <1>4, <2>1, SumAdds
<1>6. SumFunctionOnSet(f, five) = f[1] + f[2] + f[3] + f[4] + f[5]
  <2>1. 5 \notin four /\ \A x \in four \cup {5} : f[x] \in Int
    OBVIOUS
  <2> HIDE DEF four
  <2> QED
    BY <1>1, <1>5, <2>1, SumAdds
<1> HIDE DEF five
<1> QED
  BY <1>0, <1>6

\* Two sets without a body in common.
LEMMA Together ==
  ASSUME NEW S, NEW T, IsFiniteSet(S), IsFiniteSet(T), S \cap T = {}
  PROVE  IsFiniteSet(S \cup T) /\ Cardinality(S \cup T) = Cardinality(S) + Cardinality(T)
<1>1. /\ IsFiniteSet(S \cup T)
      /\ Cardinality(S \cup T) = Cardinality(S) + Cardinality(T) - Cardinality(S \cap T)
  BY FS_Union
<1>2. Cardinality(S \cap T) = 0
  BY FS_EmptySet
<1>3. Cardinality(S) \in Nat /\ Cardinality(T) \in Nat
  BY FS_CardinalityType
<1> QED
  BY <1>1, <1>2, <1>3

LEMMA PlacesHold ==
  /\ DOMAIN Places = 1..5 /\ UNION ToSet(Places) = Holds
  /\ Places[1] = offered /\ Places[2] = ToSet(queue) /\ Places[3] = {body} \ {None}
  /\ Places[4] = ToSet(retry) /\ Places[5] = ToSet(parked)
<1>1. /\ DOMAIN Places = 1..5
      /\ Places[1] = offered /\ Places[2] = ToSet(queue) /\ Places[3] = {body} \ {None}
      /\ Places[4] = ToSet(retry) /\ Places[5] = ToSet(parked)
  BY DEF Places
<1>2. 1..5 = {1, 2, 3, 4, 5}
  OBVIOUS
<1>3. ToSet(Places) = {offered, ToSet(queue), {body} \ {None}, ToSet(retry), ToSet(parked)}
  BY <1>1, <1>2 DEF ToSet
<1>4. UNION ToSet(Places) = Holds
  BY <1>3 DEF Holds
<1> QED
  BY <1>1, <1>4

\* The invariant is as strong as the property a run checks.
LEMMA AccountsMean ==
  ASSUME NInv
  PROVE  ReservedIsHeld
<1> USE DEF NInv
<1> DEFINE one == offered
           two == ToSet(queue)
           three == {body} \ {None}
           four == ToSet(retry)
           five == ToSet(parked)
<1>1. /\ IsFiniteSet(one) /\ IsFiniteSet(three)
      /\ IsFiniteSet(two) /\ Cardinality(two) = Len(queue)
      /\ IsFiniteSet(four) /\ Cardinality(four) = Len(retry)
      /\ IsFiniteSet(five) /\ Cardinality(five) = Len(parked)
  <2>1. IsFiniteSet(one)
    BY Given, FS_Subset DEF NTypeOK
  <2>2. IsFiniteSet(three)
    BY FS_Singleton, FS_Difference
  <2> QED
    BY <2>1, <2>2, LengthCounts DEF Placed, NTypeOK
<1>2. /\ one \cap two = {} /\ (one \cup two) \cap three = {}
      /\ ((one \cup two) \cup three) \cap four = {}
      /\ (((one \cup two) \cup three) \cup four) \cap five = {}
      /\ two \cap four = {} /\ (two \cup four) \cap five = {}
      /\ Holds = (((one \cup two) \cup three) \cup four) \cup five
  BY DEF Placed, Holds
<1>3. Cardinality(Holds) =
        Cardinality(one) + Cardinality(two) + Cardinality(three) + Cardinality(four)
          + Cardinality(five)
  <2> HIDE DEF one, two, three, four, five
  <2>1. /\ IsFiniteSet(one \cup two)
        /\ Cardinality(one \cup two) = Cardinality(one) + Cardinality(two)
    BY <1>1, <1>2, Together
  <2>2. /\ IsFiniteSet((one \cup two) \cup three)
        /\ Cardinality((one \cup two) \cup three) = Cardinality(one \cup two) + Cardinality(three)
    BY <1>1, <1>2, <2>1, Together
  <2>3. /\ IsFiniteSet(((one \cup two) \cup three) \cup four)
        /\ Cardinality(((one \cup two) \cup three) \cup four) =
             Cardinality((one \cup two) \cup three) + Cardinality(four)
    BY <1>1, <1>2, <2>2, Together
  <2>4. Cardinality((((one \cup two) \cup three) \cup four) \cup five) =
          Cardinality(((one \cup two) \cup three) \cup four) + Cardinality(five)
    BY <1>1, <1>2, <2>3, Together
  <2> QED
    BY <1>2, <2>1, <2>2, <2>3, <2>4
<1>4. SumFunctionOnSet([i \in DOMAIN Places |-> Cardinality(Places[i])], DOMAIN Places)
        = Cardinality(Holds)
  <2> DEFINE size == [i \in 1..5 |-> Cardinality(Places[i])]
  <2>1. /\ size[1] = Cardinality(one) /\ size[2] = Cardinality(two) /\ size[3] = Cardinality(three)
        /\ size[4] = Cardinality(four) /\ size[5] = Cardinality(five)
    <3>1. \A i \in 1..5 : size[i] = Cardinality(Places[i])
      OBVIOUS
    <3> HIDE DEF size
    <3>2. /\ size[1] = Cardinality(Places[1]) /\ size[2] = Cardinality(Places[2])
          /\ size[3] = Cardinality(Places[3]) /\ size[4] = Cardinality(Places[4])
          /\ size[5] = Cardinality(Places[5])
      BY <3>1
    <3> QED
      BY <3>2, PlacesHold
  <2>2. \A i \in 1..5 : size[i] \in Int
    <3>1. /\ Cardinality(one) \in Nat /\ Cardinality(two) \in Nat /\ Cardinality(three) \in Nat
          /\ Cardinality(four) \in Nat /\ Cardinality(five) \in Nat
      BY <1>1, FS_CardinalityType
    <3> HIDE DEF size, one, two, three, four, five
    <3> QED
      BY <2>1, <3>1
  <2>3. [i \in DOMAIN Places |-> Cardinality(Places[i])] = size
    BY PlacesHold
  <2> HIDE DEF size, one, two, three, four, five
  <2>4. SumFunctionOnSet(size, 1..5) = size[1] + size[2] + size[3] + size[4] + size[5]
    BY <2>2, SumOfFive
  <2> QED
    BY <1>3, <2>1, <2>3, <2>4, PlacesHold
<1>5. Len(queue) + Len(retry) + Len(parked) = Cardinality(ToSet(queue \o retry \o parked))
  <2>1. queue \o retry \in Seq(Bodies) /\ ToSet(queue \o retry) = two \cup four
    <3>1. queue \in Seq(Bodies) /\ retry \in Seq(Bodies)
      BY DEF NTypeOK
    <3> QED
      BY <3>1, Concatenated
  <2>2. ToSet(queue \o retry \o parked) = (two \cup four) \cup five
    <3> DEFINE c == queue \o retry
    <3>1. c \in Seq(Bodies) /\ ToSet(c) = two \cup four /\ parked \in Seq(Bodies)
      BY <2>1 DEF NTypeOK
    <3> HIDE DEF c
    <3>2. ToSet(c \o parked) = ToSet(c) \cup five
      BY <3>1, Concatenated
    <3> QED
      BY <3>1, <3>2 DEF c
  <2> HIDE DEF two, four, five
  <2>3. /\ IsFiniteSet(two \cup four)
        /\ Cardinality(two \cup four) = Cardinality(two) + Cardinality(four)
    BY <1>1, <1>2, Together
  <2>4. Cardinality((two \cup four) \cup five) = Cardinality(two \cup four) + Cardinality(five)
    BY <1>1, <1>2, <2>3, Together
  <2> QED
    BY <1>1, <2>2, <2>3, <2>4
<1> QED
  BY <1>4, <1>5, PlacesHold DEF ReservedIsHeld, Accounts

-----------------------------------------------------------------------------
(***************************************************************************)
(* The theorems.                                                           *)
(***************************************************************************)

LEMMA NInit ==
  ASSUME Init
  PROVE  NInv
<1>1. NTypeOK /\ Standing /\ Placed /\ SecondPass
  <2>1. NTypeOK
    BY DEF Init, NTypeOK
  <2>2. Standing /\ Placed /\ SecondPass
    BY EmptyQueue, Given DEF Init, Standing, Placed, Holds, SecondPass
  <2> QED
    BY <2>1, <2>2
<1>2. Holds = {} /\ reserved = 0
  BY EmptyQueue DEF Init, Holds
<1>3. Accounts
  BY <1>2, SumOfNone, Given DEF Accounts
<1> QED
  BY <1>1, <1>3 DEF NInv

LEMMA NStep ==
  ASSUME NInv, [Next]_vars
  PROVE  NInv'
<1> USE DEF NInv
<1>1. ASSUME NEW b \in Bodies, Arrive(b) PROVE NInv'
  BY <1>1, ArriveTypes, ArrivePlaced, ArriveAccounts, ArriveSecond
<1>2. ASSUME NEW b \in Bodies, Offer(b) PROVE NInv'
  BY <1>2, OfferTypes, OfferPlaced, GivesBack, OfferSecond DEF Accounts
<1>3. CASE Worker
  <2>1. NTypeOK' /\ Standing'
    BY <1>3, TakeTypes, LookAgainTypes, RetryTypes, RetriedTypes, HandleTypes
       DEF Worker, Wake, FinalLook
  <2>2. SecondPass'
    BY <1>3, TakeSecond, LookAgainSecond, RetrySecond, HandleSecond, StillSecond
       DEF Worker, Wake, FinalLook, Still
  <2> QED
    BY <1>3, <2>1, <2>2, WorkerAccounts
<1>4. CASE (\E s \in Sessions : StartSession(s)) \/ Configure \/ Advance \/ Shutdown
  BY <1>4, WorldTypes, StillPlaced, StillSecond DEF Still, Accounts
<1>5. CASE UNCHANGED vars
  <2>1. NTypeOK' /\ Standing'
    BY <1>5 DEF vars, NTypeOK, Standing
  <2> QED
    BY <1>5, <2>1, StillPlaced, StillSecond DEF Accounts
<1> QED
  BY <1>1, <1>2, <1>3, <1>4, <1>5 DEF Next

\* Always: the types, where the worker stands, every held body in one place and weighed once, and
\* what is behind a body that waits for its second look.
THEOREM NativeInvariant == Spec => []NInv
<1>1. Init => NInv
  BY NInit
<1>2. NInv /\ [Next]_vars => NInv'
  BY NStep
<1> QED
  BY <1>1, <1>2, PTL DEF Spec

\* The bytes reserved are those of the bodies held, each counted and given back once, and never
\* exceed the ceiling (exporter.rs, queued_bytes of a route).
THEOREM ReservationExact == Spec => []ReservedIsHeld
<1>1. NInv => ReservedIsHeld
  BY AccountsMean
<1> QED
  BY <1>1, NativeInvariant, PTL

\* A destination gets a body again only if its configuration changed twice.
THEOREM RepeatsNeedTwoChanges == Spec => []TwiceNeedsTwoChanges
<1>1. NInv => TwiceNeedsTwoChanges
  BY DEF NInv, SecondPass, TwiceNeedsTwoChanges
<1> QED
  BY <1>1, NativeInvariant, PTL

\* What one step may send.
AllowedNow ==
  \A b \in Bodies :
    sent'[b] # sent[b] =>
      /\ policy # None /\ b \in policy.admits
      /\ policy.filtered =>
           /\ SessionsOf[b] # {}
           /\ \A s \in SessionsOf[b] : ProjectOf(b, s) \in policy.allowed

\* Sending with the projects of a body whose sessions resolved.
LEMMA SendsAllowed ==
  ASSUME NInv, NEW b \in Bodies, NEW pass, NEW projects, Sends(b, pass, projects),
         projects = None \/ (projects = ProjectsOf(b) /\ Resolved(b))
  PROVE  /\ policy # None /\ b \in policy.admits
         /\ policy.filtered =>
              /\ SessionsOf[b] # {}
              /\ \A s \in SessionsOf[b] : ProjectOf(b, s) \in policy.allowed
BY DEF Sends, ProjectsOf, Resolved, Attributable

LEMMA AllowedStep ==
  ASSUME NInv, [Next]_vars
  PROVE  AllowedNow
<1> USE DEF NInv
<1>1. CASE sent' = sent
  BY <1>1 DEF AllowedNow
<1>2. CASE Retry /\ sent' # sent
  <2>1. PICK b \in Bodies : b = Head(retry)
    BY <1>2, RetryPlaced
  <2>2. Forward(b, "filtered", ProjectsOf(b)) /\ Resolved(b)
    BY <1>2, <2>1 DEF Retry
  <2> QED
    BY <2>2, ForwardCounts, SendsAllowed DEF AllowedNow
<1>3. CASE Handle
  <2>1. PICK b \in Bodies : b = body
    BY <1>3, HandlePlaced
  <2>2. \E pass, projects :
          /\ Forward(b, pass, projects)
          /\ projects = None \/ (projects = ProjectsOf(b) /\ Resolved(b))
    <3>1. CASE ~(target # None /\ target.filtered)
      BY <1>3, <2>1, <3>1 DEF Handle
    <3>2. CASE (target # None /\ target.filtered) /\ Resolved(b)
      BY <1>3, <2>1, <3>2 DEF Handle
    <3>3. CASE (target # None /\ target.filtered) /\ ~Resolved(b)
      BY <1>3, <2>1, <3>3 DEF Handle
    <3> QED
      BY <3>1, <3>2, <3>3
  <2> QED
    BY <2>2, ForwardCounts, SendsAllowed DEF AllowedNow
<1>4. Next => sent' = sent \/ Retry \/ Handle
  BY DEF Next, Worker, Arrive, Offer, Take, Wake, FinalLook, LookAgain, Retried, StartSession,
         Configure, Advance, Shutdown
<1> QED
  BY <1>1, <1>2, <1>3, <1>4 DEF vars

\* A body leaves only for a destination configured at that moment, and past a filter only when
\* every session of it has a known project the filter allows.
THEOREM LeavesOnlyAllowed == Spec => OnlyAllowedLeaves
<1>1. NInv /\ [Next]_vars => [AllowedNow]_vars
  BY AllowedStep
<1> QED
  BY <1>1, NativeInvariant, PTL DEF Spec, OnlyAllowedLeaves, AllowedNow

\* What one step may give up.
GivesUpDue ==
  \A b \in ToSet(retry) \cup ToSet(parked) :
    b \in unresolved' \ unresolved =>
      \/ final \/ Expired(b)
      \/ \A s \in missing[b] : Decided(s)

LEMMA GivesUpStep ==
  ASSUME NInv, [Next]_vars
  PROVE  GivesUpDue
<1> USE DEF NInv
<1>1. CASE unresolved' \subseteq unresolved
  BY <1>1 DEF GivesUpDue
<1>2. CASE Retry
  <2>1. \/ unresolved' = unresolved
        \/ unresolved' = unresolved \cup {Head(retry)} /\ ~WaitsOn
    BY <1>2 DEF Retry, WaitsOn
  <2> QED
    BY <2>1 DEF GivesUpDue, WaitsOn, Ready
<1>3. CASE Handle
  <2>1. unresolved' \subseteq unresolved \cup {body}
    BY <1>3 DEF Handle
  <2> QED
    BY <2>1 DEF GivesUpDue, Placed
<1>4. Next => unresolved' = unresolved \/ Retry \/ Handle
  BY DEF Next, Worker, Arrive, Offer, Take, Wake, FinalLook, LookAgain, Retried, StartSession,
         Configure, Advance, Shutdown
<1> QED
  BY <1>1, <1>2, <1>3, <1>4 DEF vars

\* A parked body is given up only when its time is over, at the last look, or when the index
\* decided all its sessions: never at its first look, since it is then in no other place.
THEOREM ParkedBodiesWait == Spec => ParkedWaits
<1>1. NInv /\ [Next]_vars => [GivesUpDue]_vars
  BY GivesUpStep
<1> QED
  BY <1>1, NativeInvariant, PTL DEF Spec, ParkedWaits, GivesUpDue
=============================================================================
