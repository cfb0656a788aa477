----------------------- MODULE TargetAdmissionProofs -----------------------
(***************************************************************************)
(* Proofs about TargetAdmission for every set of names, zones, texts,      *)
(* rules and jobs, and for answers that change at any moment: the scanners *)
(* connect to public addresses the worker itself resolved, a scan that     *)
(* connects had an answer that overlaps with the queued one, every parser  *)
(* reads the same target, and the limiter holds in every window, up to one *)
(* late call of each thread once the window is over.                       *)
(***************************************************************************)
EXTENDS TargetAdmission, FiniteSetTheorems, TLAPS

\* Jobs that passed the validation of the worker and were not refused.
Accepted == {"validated", "connecting", "deep", "done"}

\* What holds of a job between two steps.
JobInv(j) ==
  /\ phase[j] \in {"none", "queued"} => validated[j] = {}
  /\ phase[j] \in {"none", "queued", "validated", "connecting"} => contacts[j] = {}
  /\ phase[j] \in Accepted => validated[j] \intersect queued[j] /= {}
  /\ phase[j] = "connecting" => pinned[j] \in Public \intersect validated[j]
  /\ validated[j] \subseteq Public
  /\ contacts[j] \subseteq Public \intersect validated[j]
  /\ contacts[j] /= {} => validated[j] \intersect queued[j] /= {}
  /\ phase[j] /= "none" => /\ target[j] \in [host : Hosts, port : Ports]
                           /\ Reparses(target[j])

IInv ==
  /\ JobsTypeOK
  /\ \A j \in Jobs : JobInv(j)

\* A resolver answers with addresses, for every host that may be scanned.
LEMMA AnswerIsAddresses ==
  ASSUME JobsTypeOK, NEW h \in Names \union Literals
  PROVE  Answer(h) \subseteq Addrs
<1>1. CASE h \in Literals
  BY <1>1, ConstantsAssumption DEF Answer
<1>2. CASE h \notin Literals
  BY <1>2, ConstantsAssumption DEF Answer, JobsTypeOK
<1> QED BY <1>1, <1>2

\* What a parser accepts is a target.
LEMMA ParsedIsTarget ==
  ASSUME NEW text \in Texts, NEW default \in PayloadPorts,
         ParseHostAccepts(text, default)
  PROVE  Parsed(text, default) \in [host : Hosts, port : Ports]
<1>1. PortOf(text, default) \in Ports
  BY DEF ParseHostAccepts, Readable
<1>2. Canonical[text.host] \in Hosts
  BY ConstantsAssumption
<1> QED BY <1>1, <1>2 DEF Parsed

\* A target accepted as a text of its own names a host that has an answer.
LEMMA ValidHost ==
  ASSUME NEW t \in [host : Hosts, port : Ports], Validates(AsText(t.host), t.port)
  PROVE  /\ t.host \in Names \union Literals
         /\ Parsed(AsText(t.host), t.port) = t
         /\ Reparses(t)
         /\ ResolvesPublic(t.host)
<1>1. AsText(t.host).host = t.host /\ AsText(t.host).port = NoPort
  BY DEF AsText
<1>2. Canonical[t.host] = t.host
  BY ConstantsAssumption
<1>3. Parsed(AsText(t.host), t.port) = t
  BY <1>1, <1>2 DEF Parsed, PortOf
<1>4. t.host \notin ServiceNames
  BY <1>1, <1>2 DEF Validates, ParseHostAccepts
<1> QED BY <1>3, <1>4 DEF Hosts, Validates, Reparses

\* The target string of the scanner is another text of the same target.
LEMMA TargetTextReparses ==
  ASSUME NEW t \in [host : Hosts, port : Ports], Reparses(t)
  PROVE  /\ Readable(TargetText(t), DefaultPort)
         /\ Parsed(TargetText(t), DefaultPort) = t
<1>1. t.port \in Ports
  OBVIOUS
<1>2. t.port /= NoPort
  BY <1>1 DEF Ports, NoPort
<1>3. /\ TargetText(t).host = t.host
      /\ TargetText(t).form = AsText(t.host).form
      /\ PortOf(TargetText(t), DefaultPort) = t.port
  BY <1>2 DEF TargetText, AsText, PortOf
<1>4. Canonical[t.host] = t.host
  BY ConstantsAssumption
<1>5. Readable(AsText(t.host), t.port) /\ AsText(t.host).host = t.host
  BY DEF Reparses, ParseHostAccepts, AsText
<1>6. Readable(TargetText(t), DefaultPort)
  BY <1>1, <1>3, <1>5 DEF Readable
<1> QED BY <1>3, <1>4, <1>6 DEF Parsed

\* Before any request the invariant holds.
THEOREM InitIInv == Init => IInv
<1> SUFFICES ASSUME Init PROVE IInv
  OBVIOUS
<1>1. JobsTypeOK
  BY ConstantsAssumption DEF Init, JobsTypeOK, Phases
<1>2. ASSUME NEW j \in Jobs PROVE JobInv(j)
  BY DEF Init, JobInv, Accepted
<1> QED BY <1>1, <1>2 DEF IInv

\* A job is queued with a target that its parsers read back.
LEMMA QueueJobIInv ==
  ASSUME IInv, NEW j \in Jobs, NEW from \in {"check", "scheduled"},
         NEW t \in [host : Hosts, port : Ports],
         Validates(AsText(t.host), t.port), QueueJob(j, from, t),
         UNCHANGED <<dns, registered>>
  PROVE  IInv'
<1>1. Answer(t.host) \subseteq Addrs
  BY ValidHost, AnswerIsAddresses DEF IInv
<1>2. JobsTypeOK'
  BY <1>1 DEF IInv, JobsTypeOK, QueueJob, Goto, Phases
<1>3. ASSUME NEW k \in Jobs PROVE JobInv(k)'
  <2>1. CASE k = j
    BY <2>1, ValidHost DEF IInv, JobsTypeOK, JobInv, QueueJob, Goto, Accepted
  <2>2. CASE k /= j
    BY <2>2 DEF IInv, JobsTypeOK, JobInv, QueueJob, Goto, Accepted
  <2> QED BY <2>1, <2>2
<1> QED BY <1>2, <1>3 DEF IInv

\* POST /api/check, accepted or refused.
LEMMA CreateCheckIInv ==
  ASSUME IInv, NEW h \in Handlers, NEW j \in Jobs, NEW text \in Texts,
         NEW default \in PayloadPorts, CreateCheck(h, j, text, default)
  PROVE  IInv'
<1>1. CASE Decides(h) /\ CheckAccepts(text, default)
  <2> DEFINE t == Parsed(text, default)
  <2>1. t \in [host : Hosts, port : Ports]
    BY <1>1, ParsedIsTarget DEF CheckAccepts
  <2>2. Validates(AsText(t.host), t.port)
    BY <1>1 DEF CheckAccepts
  <2>3. QueueJob(j, "check", t) /\ UNCHANGED <<dns, registered>>
    BY <1>1 DEF CreateCheck
  <2> HIDE DEF t
  <2> QED BY <2>1, <2>2, <2>3, QueueJobIInv
<1>2. CASE ~(Decides(h) /\ CheckAccepts(text, default))
  <2>1. UNCHANGED <<dns, registered, job>>
    BY <1>2 DEF CreateCheck
  <2> QED BY <2>1 DEF IInv, JobsTypeOK, JobInv, job
<1> QED BY <1>1, <1>2

\* A registered target is a host that may be scanned.
LEMMA RegisterIInv ==
  ASSUME IInv, NEW text \in Texts, NEW default \in PayloadPorts,
         NEW resolve \in BOOLEAN, Register(text, default, resolve)
  PROVE  IInv'
<1>1. ParseHostAccepts(text, default)
  BY DEF Register, Validates
<1>2. registered' \subseteq [host : Hosts, port : Ports]
  BY <1>1, ParsedIsTarget DEF Register, IInv, JobsTypeOK
<1> QED BY <1>2 DEF IInv, JobsTypeOK, JobInv, Register, job

\* The scheduler and run-now queue a registered target.
LEMMA ScheduleScanIInv ==
  ASSUME IInv, NEW j \in Jobs, NEW t \in registered, ScheduleScan(j, t)
  PROVE  IInv'
<1>1. t \in [host : Hosts, port : Ports]
  BY DEF IInv, JobsTypeOK
<1> QED BY <1>1, QueueJobIInv DEF ScheduleScan

\* The worker's own answer is public and overlaps the queued one.
LEMMA ValidateJobIInv ==
  ASSUME IInv, NEW j \in Jobs, ValidateJob(j)
  PROVE  IInv'
<1>1. target[j] \in [host : Hosts, port : Ports]
  BY DEF IInv, JobInv, ValidateJob
<1>2. CASE WorkerAccepts(j)
  <2> DEFINE A == Answer(target[j].host)
  <2>1. A \subseteq Public /\ A \intersect queued[j] /= {} /\ A \subseteq Addrs
    BY <1>1, <1>2, ValidHost, AnswerIsAddresses
       DEF WorkerAccepts, ResolvesPublic, IInv
  <2>2. /\ validated' = [validated EXCEPT ![j] = A]
        /\ phase' = [phase EXCEPT ![j] = "validated"]
        /\ phase[j] = "queued"
        /\ UNCHANGED <<dns, registered, origin, target, queued, pinned, contacts>>
    BY <1>2 DEF ValidateJob, Goto
  <2> HIDE DEF A
  <2>3. JobsTypeOK'
    BY <2>1, <2>2 DEF IInv, JobsTypeOK, Phases
  <2>4. ASSUME NEW k \in Jobs PROVE JobInv(k)'
    BY <2>1, <2>2 DEF IInv, JobsTypeOK, JobInv, Accepted
  <2> QED BY <2>3, <2>4 DEF IInv
<1>3. CASE ~WorkerAccepts(j)
  <2>1. JobsTypeOK'
    BY <1>3 DEF ValidateJob, Goto, IInv, JobsTypeOK, Phases
  <2>2. ASSUME NEW k \in Jobs PROVE JobInv(k)'
    BY <1>3 DEF ValidateJob, Goto, IInv, JobsTypeOK, JobInv, Accepted
  <2> QED BY <2>1, <2>2 DEF IInv
<1> QED BY <1>2, <1>3

\* The scanner is pinned to an address of the worker's answer.
LEMMA ResolveAgainIInv ==
  ASSUME IInv, NEW j \in Jobs, ResolveAgain(j)
  PROVE  IInv'
<1>1. Pinnable(j) \subseteq Public \intersect validated[j]
  BY DEF Pinnable
<1>2. Pinnable(j) \subseteq Addrs
  BY <1>1, ConstantsAssumption
<1>3. JobsTypeOK'
  BY <1>2 DEF ResolveAgain, Goto, IInv, JobsTypeOK, Phases
<1>4. ASSUME NEW k \in Jobs PROVE JobInv(k)'
  <2>1. CASE k /= j
    BY <2>1 DEF ResolveAgain, Goto, IInv, JobsTypeOK, JobInv, Accepted
  <2>2. CASE k = j
    BY <1>1, <2>2 DEF ResolveAgain, Goto, IInv, JobsTypeOK, JobInv, Accepted
  <2> QED BY <2>1, <2>2
<1> QED BY <1>3, <1>4 DEF IInv

\* Both scanners connect to pinned or validated addresses only.
LEMMA ScanIInv ==
  ASSUME IInv, NEW j \in Jobs, ScanBaseline(j) \/ ScanDeep(j)
  PROVE  IInv'
<1>1. CASE ScanBaseline(j)
  <2>1. JobsTypeOK'
    BY <1>1 DEF ScanBaseline, Goto, IInv, JobsTypeOK, Phases
  <2>2. ASSUME NEW k \in Jobs PROVE JobInv(k)'
    BY <1>1 DEF ScanBaseline, Goto, IInv, JobsTypeOK, JobInv, Accepted
  <2> QED BY <2>1, <2>2 DEF IInv
<1>2. CASE ScanDeep(j)
  <2>1. JobsTypeOK'
    BY <1>2 DEF ScanDeep, Goto, IInv, JobsTypeOK, Phases
  <2>2. ASSUME NEW k \in Jobs PROVE JobInv(k)'
    BY <1>2 DEF ScanDeep, Goto, IInv, JobsTypeOK, JobInv, Accepted
  <2> QED BY <2>1, <2>2 DEF IInv
<1> QED BY <1>1, <1>2

\* Every step of the system keeps the invariant.
THEOREM NextIInv == IInv /\ [Next]_vars => IInv'
<1> SUFFICES ASSUME IInv, [Next]_vars PROVE IInv'
  OBVIOUS
<1>1. ASSUME NEW text \in Texts, NEW default \in PayloadPorts, NEW j \in Jobs,
             NEW h \in Handlers, CreateCheck(h, j, text, default)
      PROVE  IInv'
  BY <1>1, CreateCheckIInv
<1>2. ASSUME NEW text \in Texts, NEW default \in PayloadPorts,
             NEW resolve \in BOOLEAN, Register(text, default, resolve)
      PROVE  IInv'
  BY <1>2, RegisterIInv
<1>3. ASSUME NEW j \in Jobs, NEW t \in registered, ScheduleScan(j, t)
      PROVE  IInv'
  BY <1>3, ScheduleScanIInv
<1>4. ASSUME NEW j \in Jobs, ValidateJob(j) PROVE IInv'
  BY <1>4, ValidateJobIInv
<1>5. ASSUME NEW j \in Jobs, ResolveAgain(j) PROVE IInv'
  BY <1>5, ResolveAgainIInv
<1>6. ASSUME NEW j \in Jobs, ScanBaseline(j) \/ ScanDeep(j) PROVE IInv'
  BY <1>6, ScanIInv
<1>7. ASSUME NEW n \in Names, ChangeAnswer(n) PROVE IInv'
  <2>1. dns' \in [Names -> Answers]
    BY <1>7 DEF ChangeAnswer, IInv, JobsTypeOK
  <2> QED BY <1>7, <2>1 DEF ChangeAnswer, IInv, JobsTypeOK, JobInv, job
<1>8. CASE Tick
  BY <1>8 DEF Tick, IInv, JobsTypeOK, JobInv, job
<1>9. ASSUME NEW h \in Handlers, NEW c \in Clients, AskLimiter(h, c)
      PROVE  IInv'
  BY <1>9 DEF AskLimiter, IInv, JobsTypeOK, JobInv, job
<1>10. ASSUME NEW h \in Handlers, LimiterFails(h) PROVE IInv'
  BY <1>10 DEF LimiterFails, IInv, JobsTypeOK, JobInv, job
<1>11. ASSUME NEW c \in Clients, ExpireBucket(c) PROVE IInv'
  BY <1>11 DEF ExpireBucket, IInv, JobsTypeOK, JobInv, job
<1>12. CASE UNCHANGED vars
  BY <1>12 DEF vars, IInv, JobsTypeOK, JobInv, job
<1> QED BY <1>1, <1>2, <1>3, <1>4, <1>5, <1>6, <1>7, <1>8, <1>9, <1>10, <1>11,
           <1>12 DEF Next

\* The invariant holds in every reachable state.
LEMMA SpecIInv == Spec => []IInv
<1> QED BY InitIInv, NextIInv, PTL DEF Spec

\* The variables of the jobs keep their shape: a part of the run's TypeOK.
THEOREM JobsAreTyped == Spec => []JobsTypeOK
<1>1. IInv => JobsTypeOK
  BY DEF IInv
<1> QED BY <1>1, SpecIInv, PTL

\* Both scanners connect only to public addresses of the worker's own answer.
THEOREM ScansStayPinned == Spec => []ContactsPinned
<1>1. IInv => ContactsPinned
  BY DEF IInv, JobInv, ContactsPinned
<1> QED BY <1>1, SpecIInv, PTL

\* A scan that connects was validated against the answer it was queued with.
THEOREM ScansFollowTheQueue == Spec => []ScanFollowsQueuedAnswer
<1>1. IInv => ScanFollowsQueuedAnswer
  BY DEF IInv, JobInv, ScanFollowsQueuedAnswer
<1> QED BY <1>1, SpecIInv, PTL

\* Every parser behind the queue reads the target that was queued.
THEOREM TargetsReparse == Spec => []QueuedTargetReparses
<1>1. ASSUME IInv PROVE QueuedTargetReparses
  <2> SUFFICES ASSUME NEW j \in Jobs, phase[j] /= "none"
               PROVE  /\ Reparses(target[j])
                      /\ Readable(TargetText(target[j]), DefaultPort)
                      /\ Parsed(TargetText(target[j]), DefaultPort) = target[j]
    BY DEF QueuedTargetReparses
  <2>1. target[j] \in [host : Hosts, port : Ports] /\ Reparses(target[j])
    BY <1>1 DEF IInv, JobInv
  <2> QED BY <2>1, TargetTextReparses
<1> QED BY <1>1, SpecIInv, PTL

---------------------------------------------------------------------------
(* The rate limiter                                                        *)

\* The threads that read the clock in the window that starts at `start', for
\* client c, and have not sent their call yet.
Late(c, start) ==
  {h \in Handlers : /\ pending[h] /= NoCall
                    /\ pending[h].client = c
                    /\ pending[h].call.at \in start .. start + Window - 1}

LimiterTypes ==
  /\ clock \in Nat
  /\ hits \in [Clients -> SUBSET Calls]
  /\ pending \in [Handlers -> [client : Clients, call : Calls] \union {NoCall}]
  /\ passed \in [Clients -> SUBSET Calls]
  /\ \A c \in Clients : IsFiniteSet(hits[c]) /\ IsFiniteSet(passed[c])
  /\ \A h \in Handlers : pending[h] /= NoCall => pending[h].call.at <= clock

\* What the window holds is still counted, so it is within the limit; or the
\* window is over, and only the threads that are late can add to it.
StillCounted(c, start) ==
  /\ Inside(passed[c], start) \subseteq hits[c]
  /\ Cardinality(Inside(passed[c], start)) <= RateLimit

Over(c, start) ==
  /\ clock >= start + Window
  /\ Cardinality(Inside(passed[c], start)) + Cardinality(Late(c, start))
       <= RateLimit + Cardinality(Handlers)

WindowInv == \A c \in Clients, start \in Nat : StillCounted(c, start) \/ Over(c, start)

LimiterInv == LimiterTypes /\ WindowInv

\* Before any request every window is empty.
LEMMA InitLimiter == Init => LimiterInv
<1> SUFFICES ASSUME Init PROVE LimiterInv
  OBVIOUS
<1>1. IsFiniteSet({}) /\ Cardinality({}) = 0
  BY FS_EmptySet
<1>2. \A c \in Clients : hits[c] = {} /\ passed[c] = {}
  BY DEF Init
<1>3. \A start \in Nat : Inside({}, start) = {}
  BY DEF Inside
<1>4. WindowInv
  BY <1>1, <1>2, <1>3, LimitsAssumption DEF WindowInv, StillCounted
<1>5. LimiterTypes
  BY <1>1, <1>2 DEF Init, LimiterTypes
<1> QED BY <1>4, <1>5 DEF LimiterInv

\* The sets that are counted are finite.
LEMMA WindowsAreFinite ==
  ASSUME LimiterTypes, NEW c \in Clients, NEW start \in Nat
  PROVE  /\ IsFiniteSet(Inside(passed[c], start))
         /\ IsFiniteSet(Late(c, start))
         /\ Cardinality(Inside(passed[c], start)) \in Nat
         /\ Cardinality(Late(c, start)) \in Nat
         /\ Cardinality(Handlers) \in Nat
         /\ Cardinality(Late(c, start)) <= Cardinality(Handlers)
<1>1. Inside(passed[c], start) \subseteq passed[c] /\ IsFiniteSet(passed[c])
  BY DEF Inside, LimiterTypes
<1>2. Late(c, start) \subseteq Handlers /\ IsFiniteSet(Handlers)
  BY LimitsAssumption DEF Late
<1> QED BY <1>1, <1>2, FS_Subset, FS_CardinalityType

\* When a window is over, what holds while it lasts is the weaker of the two.
LEMMA WindowEnds ==
  ASSUME LimiterTypes, NEW c \in Clients, NEW start \in Nat,
         StillCounted(c, start), clock >= start + Window
  PROVE  Over(c, start)
<1>1. RateLimit \in Nat
  BY LimitsAssumption
<1> QED BY <1>1, WindowsAreFinite DEF StillCounted, Over

\* A thread reads the clock: it is late for no window that is over.
LEMMA AskLimiterInductive ==
  ASSUME LimiterInv, NEW h \in Handlers, NEW c \in Clients, AskLimiter(h, c)
  PROVE  LimiterInv'
<1>1. PICK id \in Uuids :
        pending' = [pending EXCEPT ![h] =
          [client |-> c, call |-> [at |-> clock, uuid |-> id]]]
  BY DEF AskLimiter
<1>2. /\ LimiterTypes /\ WindowInv /\ clock \in Nat /\ Window \in Nat \ {0}
      /\ hits' = hits /\ passed' = passed /\ clock' = clock /\ pending[h] = NoCall
  BY LimitsAssumption DEF LimiterInv, LimiterTypes, AskLimiter
<1>3. LimiterTypes'
  BY <1>1, <1>2 DEF LimiterTypes, Calls
<1>4. ASSUME NEW d \in Clients, NEW start \in Nat
      PROVE  (StillCounted(d, start) \/ Over(d, start))'
  <2>1. CASE StillCounted(d, start)
    BY <1>2, <2>1 DEF StillCounted, Inside
  <2>2. CASE Over(d, start)
    <3>1. clock \notin start .. start + Window - 1
      BY <1>2, <2>2 DEF Over
    <3>2. \A g \in Handlers : g /= h => pending'[g] = pending[g]
      BY <1>1, <1>2 DEF LimiterTypes
    <3>3. pending'[h].call.at = clock
      BY <1>1, <1>2 DEF LimiterTypes
    <3>4. Late(d, start)' = Late(d, start)
      BY <1>2, <3>1, <3>2, <3>3 DEF Late
    <3> QED BY <1>2, <2>2, <3>4 DEF Over, Inside
  <2> QED BY <1>2, <2>1, <2>2 DEF WindowInv
<1> QED BY <1>3, <1>4 DEF LimiterInv, WindowInv

\* The pipeline of a call keeps the types and the finite sets.
LEMMA PipelineTypes ==
  ASSUME LimiterTypes, NEW h \in Handlers, Pipeline(h)
  PROVE  LimiterTypes'
<1> DEFINE c == pending[h].client
           call == pending[h].call
<1>1. /\ c \in Clients /\ call \in Calls
      /\ hits' = [hits EXCEPT ![c] = Counted(hits[c], call)]
      /\ passed' = IF Decides(h) THEN [passed EXCEPT ![c] = passed[c] \union {call}]
                   ELSE passed
      /\ pending' = [pending EXCEPT ![h] = NoCall]
      /\ clock' = clock
  BY DEF Pipeline, LimiterTypes
<1> HIDE DEF c, call
<1>2. /\ hits \in [Clients -> SUBSET Calls] /\ passed \in [Clients -> SUBSET Calls]
      /\ \A d \in Clients : IsFiniteSet(hits[d]) /\ IsFiniteSet(passed[d])
  BY DEF LimiterTypes
<1>3. Counted(hits[c], call) \in SUBSET Calls /\ IsFiniteSet(Counted(hits[c], call))
  <2>1. {m \in hits[c] : m.at > call.at - Window} \subseteq hits[c]
    OBVIOUS
  <2> QED BY <1>1, <1>2, <2>1, FS_Subset, FS_AddElement DEF Counted
<1>4. hits' \in [Clients -> SUBSET Calls] /\ \A d \in Clients : IsFiniteSet(hits'[d])
  BY <1>1, <1>2, <1>3
<1>5. IsFiniteSet(passed[c] \union {call}) /\ passed[c] \union {call} \in SUBSET Calls
  BY <1>1, <1>2, FS_AddElement
<1>6. passed' \in [Clients -> SUBSET Calls] /\ \A d \in Clients : IsFiniteSet(passed'[d])
  BY <1>1, <1>2, <1>5
<1>7. /\ pending' \in [Handlers -> [client : Clients, call : Calls] \union {NoCall}]
      /\ \A g \in Handlers : pending'[g] /= NoCall => pending'[g].call.at <= clock
  BY <1>1 DEF LimiterTypes
<1> QED BY <1>1, <1>4, <1>6, <1>7 DEF LimiterTypes

\* While a window lasts no call can forget what is in it: a call let through
\* is counted together with the whole window.
LEMMA PipelineWhileItLasts ==
  ASSUME LimiterInv, NEW h \in Handlers, Pipeline(h), NEW c \in Clients,
         c = pending[h].client, NEW start \in Nat,
         StillCounted(c, start), clock < start + Window
  PROVE  StillCounted(c, start)'
<1> PICK call \in Calls : call = pending[h].call
  BY DEF LimiterInv, LimiterTypes, Pipeline
<1> DEFINE N == Counted(hits[c], call)
<1>1. /\ LimiterTypes /\ clock \in Nat /\ Window \in Nat \ {0} /\ RateLimit \in Nat
      /\ call.at <= clock /\ call.at \in Nat /\ \A m \in hits[c] : m.at \in Nat
  BY LimitsAssumption DEF LimiterInv, LimiterTypes, Pipeline, Calls
<1>2. /\ hits'[c] = N
      /\ passed'[c] = IF Decides(h) THEN passed[c] \union {call} ELSE passed[c]
  BY <1>1 DEF Pipeline, LimiterTypes
<1>3. Inside(passed[c], start) \subseteq N
  <2> SUFFICES ASSUME NEW m \in Inside(passed[c], start) PROVE m \in N
    OBVIOUS
  <2>1. m \in hits[c] /\ m.at \in start .. start + Window - 1
    BY DEF StillCounted, Inside
  <2>2. m.at > call.at - Window
    BY <1>1, <2>1
  <2> QED BY <2>1, <2>2 DEF Counted
<1>4. IsFiniteSet(N)
  BY <1>1, <1>2, PipelineTypes DEF LimiterTypes
<1>5. CASE Decides(h)
  <2>1. Inside(passed'[c], start) \subseteq N
    BY <1>2, <1>3, <1>5 DEF Inside, Counted
  <2>2. Cardinality(N) <= RateLimit
    BY <1>5 DEF Decides, Allows
  <2> HIDE DEF N
  <2>3. /\ Cardinality(Inside(passed'[c], start)) <= Cardinality(N)
        /\ Cardinality(N) \in Nat /\ Cardinality(Inside(passed'[c], start)) \in Nat
    BY <1>4, <2>1, FS_Subset, FS_CardinalityType
  <2> QED BY <1>1, <1>2, <2>1, <2>2, <2>3 DEF StillCounted, Inside
<1>6. CASE ~Decides(h)
  <2>1. passed'[c] = passed[c]
    BY <1>2, <1>6
  <2> QED BY <1>2, <1>3, <2>1 DEF StillCounted, Inside
<1> QED BY <1>5, <1>6

\* Once a window is over, a late thread that is let through is late no more.
LEMMA PipelineWhenOver ==
  ASSUME LimiterInv, NEW h \in Handlers, Pipeline(h), NEW c \in Clients,
         c = pending[h].client, NEW start \in Nat, Over(c, start)
  PROVE  Over(c, start)'
<1> PICK call \in Calls : call = pending[h].call
  BY DEF LimiterInv, LimiterTypes, Pipeline
<1> DEFINE I == Inside(passed[c], start)
           J == Inside(passed'[c], start)
           L == Late(c, start)
<1>1. /\ LimiterTypes /\ clock' = clock /\ pending[h] /= NoCall
      /\ pending' = [pending EXCEPT ![h] = NoCall] /\ RateLimit \in Nat
      /\ passed'[c] = IF Decides(h) THEN passed[c] \union {call} ELSE passed[c]
  BY LimitsAssumption DEF LimiterInv, LimiterTypes, Pipeline
<1>2. pending'[h] = NoCall /\ \A g \in Handlers : g /= h => pending'[g] = pending[g]
  BY <1>1 DEF LimiterTypes
<1>3. Late(c, start)' = L \ {h}
  BY <1>2 DEF Late
<1>4. /\ IsFiniteSet(I) /\ IsFiniteSet(L) /\ Cardinality(I) \in Nat
      /\ Cardinality(L) \in Nat /\ Cardinality(Handlers) \in Nat
  BY <1>1, WindowsAreFinite
<1>5. Inside(passed[c], start)' = J
  BY DEF Inside
<1>6. CASE call.at \in start .. start + Window - 1
  <2>1. h \in L /\ J \subseteq I \union {call}
    BY <1>1, <1>6 DEF Late, Inside
  <2> HIDE DEF I, J, L
  <2>2. Cardinality(L \ {h}) = Cardinality(L) - 1
    BY <1>4, <2>1, FS_RemoveElement
  <2>3. /\ IsFiniteSet(I \union {call})
        /\ Cardinality(I \union {call}) =
             IF call \in I THEN Cardinality(I) ELSE Cardinality(I) + 1
    BY <1>4, FS_AddElement
  <2>4. Cardinality(J) <= Cardinality(I \union {call}) /\ Cardinality(J) \in Nat
    BY <2>1, <2>3, FS_Subset, FS_CardinalityType
  <2>5. Cardinality(J) <= Cardinality(I) + 1
    BY <1>4, <2>3, <2>4
  <2> QED BY <1>1, <1>3, <1>4, <1>5, <2>2, <2>4, <2>5 DEF Over, I, L
<1>7. CASE call.at \notin start .. start + Window - 1
  <2>1. J = I /\ L \ {h} = L
    BY <1>1, <1>7 DEF Late, Inside
  <2> QED BY <1>1, <1>3, <1>5, <2>1 DEF Over
<1> QED BY <1>6, <1>7

\* The pipeline of a call, let through or not, for every client and window.
LEMMA PipelineInductive ==
  ASSUME LimiterInv, NEW h \in Handlers, Pipeline(h)
  PROVE  LimiterInv'
<1>1. LimiterTypes /\ WindowInv /\ clock \in Nat /\ Window \in Nat
  BY LimitsAssumption DEF LimiterInv, LimiterTypes
<1>2. ASSUME NEW d \in Clients, NEW start \in Nat
      PROVE  (StillCounted(d, start) \/ Over(d, start))'
  <2>1. CASE d = pending[h].client
    <3>1. CASE Over(d, start)
      BY <2>1, <3>1, PipelineWhenOver
    <3>2. CASE StillCounted(d, start) /\ clock < start + Window
      BY <2>1, <3>2, PipelineWhileItLasts
    <3> QED BY <1>1, <3>1, <3>2, WindowEnds DEF WindowInv
  <2>2. CASE d /= pending[h].client
    <3>1. hits'[d] = hits[d] /\ passed'[d] = passed[d] /\ clock' = clock
      BY <1>1, <2>2 DEF Pipeline, LimiterTypes
    <3>2. pending'[h] = NoCall /\ \A g \in Handlers : g /= h => pending'[g] = pending[g]
      BY <1>1 DEF Pipeline, LimiterTypes
    <3>3. Late(d, start)' = Late(d, start)
      BY <2>2, <3>2 DEF Late
    <3> QED BY <1>1, <3>1, <3>3 DEF WindowInv, StillCounted, Over, Inside
  <2> QED BY <2>1, <2>2
<1>3. LimiterTypes'
  BY <1>1, PipelineTypes
<1> QED BY <1>2, <1>3 DEF LimiterInv, WindowInv

\* A thread whose request fails is late no more.
LEMMA LimiterFailsInductive ==
  ASSUME LimiterInv, NEW h \in Handlers, LimiterFails(h)
  PROVE  LimiterInv'
<1>1. CASE Pipeline(h)
  BY <1>1, PipelineInductive
<1>2. CASE pending' = [pending EXCEPT ![h] = NoCall] /\ UNCHANGED <<clock, hits, passed>>
  <2>1. LimiterTypes /\ WindowInv
    BY DEF LimiterInv
  <2>2. LimiterTypes'
    BY <1>2, <2>1 DEF LimiterTypes
  <2>3. ASSUME NEW d \in Clients, NEW start \in Nat
        PROVE  (StillCounted(d, start) \/ Over(d, start))'
    <3>1. CASE StillCounted(d, start)
      BY <1>2, <3>1 DEF StillCounted, Inside
    <3>2. CASE Over(d, start)
      <4>1. Late(d, start)' \subseteq Late(d, start)
        BY <1>2, <2>1 DEF Late, LimiterTypes
      <4>2. /\ IsFiniteSet(Late(d, start))
            /\ Cardinality(Late(d, start)) \in Nat
            /\ Cardinality(Inside(passed[d], start)) \in Nat
            /\ Cardinality(Handlers) \in Nat
        BY <2>1, WindowsAreFinite
      <4>3. /\ Cardinality(Late(d, start)') <= Cardinality(Late(d, start))
            /\ Cardinality(Late(d, start)') \in Nat
        BY <4>1, <4>2, FS_Subset, FS_CardinalityType
      <4>4. (Inside(passed[d], start))' = Inside(passed[d], start) /\ clock' = clock
        BY <1>2 DEF Inside
      <4> QED BY <3>2, <4>2, <4>3, <4>4, LimitsAssumption DEF Over
    <3> QED BY <2>1, <3>1, <3>2 DEF WindowInv
  <2> QED BY <2>2, <2>3 DEF LimiterInv, WindowInv
<1> QED BY <1>1, <1>2 DEF LimiterFails

\* A key that expires held nothing of a window that still lasts.
LEMMA ExpireBucketInductive ==
  ASSUME LimiterInv, NEW c \in Clients, ExpireBucket(c)
  PROVE  LimiterInv'
<1>1. /\ LimiterTypes /\ WindowInv /\ clock \in Nat /\ Window \in Nat
      /\ hits' = [hits EXCEPT ![c] = {}]
      /\ UNCHANGED <<clock, pending, passed>>
  BY LimitsAssumption DEF LimiterInv, LimiterTypes, ExpireBucket
<1>2. LimiterTypes'
  BY <1>1, FS_EmptySet DEF LimiterTypes
<1>3. ASSUME NEW d \in Clients, NEW start \in Nat
      PROVE  (StillCounted(d, start) \/ Over(d, start))'
  <2>1. CASE Over(d, start)
    BY <1>1, <2>1 DEF Over, Late, Inside
  <2>2. CASE StillCounted(d, start) /\ d /= c
    BY <1>1, <2>2 DEF StillCounted, Inside, LimiterTypes
  <2>3. CASE StillCounted(d, start) /\ d = c /\ clock < start + Window
    <3>1. ASSUME NEW m \in Inside(passed[c], start) PROVE FALSE
      <4>1. m \in hits[c] /\ m.at \in start .. start + Window - 1
        BY <2>3 DEF StillCounted, Inside
      <4>2. m.at + 2 * Window <= clock
        BY <4>1 DEF ExpireBucket
      <4> QED BY <1>1, <2>3, <4>1, <4>2
    <3>2. Inside(passed[c], start)' = {}
      BY <1>1, <3>1 DEF Inside
    <3> QED BY <1>1, <2>3, <3>2, FS_EmptySet, LimitsAssumption DEF StillCounted
  <2> QED BY <1>1, <2>1, <2>2, <2>3, WindowEnds DEF WindowInv
<1> QED BY <1>2, <1>3 DEF LimiterInv, WindowInv

\* Time passes: a window may end, and none begins again.
LEMMA TickInductive ==
  ASSUME LimiterInv, Tick
  PROVE  LimiterInv'
<1>1. /\ LimiterTypes /\ WindowInv /\ clock \in Nat /\ Window \in Nat
      /\ clock' = clock + 1
      /\ UNCHANGED <<hits, pending, passed>>
  BY LimitsAssumption DEF LimiterInv, LimiterTypes, Tick
<1>2. \A h \in Handlers : pending[h] /= NoCall => pending[h].call.at \in Nat
  BY <1>1 DEF LimiterTypes, Calls
<1>3. LimiterTypes'
  BY <1>1, <1>2 DEF LimiterTypes
<1>4. ASSUME NEW d \in Clients, NEW start \in Nat
      PROVE  (StillCounted(d, start) \/ Over(d, start))'
  <2>1. CASE StillCounted(d, start)
    BY <1>1, <2>1 DEF StillCounted, Inside
  <2>2. CASE Over(d, start)
    <3>1. Late(d, start)' = Late(d, start)
      BY <1>1 DEF Late
    <3>2. Inside(passed[d], start)' = Inside(passed[d], start)
      BY <1>1 DEF Inside
    <3> QED BY <1>1, <2>2, <3>1, <3>2 DEF Over
  <2> QED BY <1>1, <2>1, <2>2 DEF WindowInv
<1> QED BY <1>3, <1>4 DEF LimiterInv, WindowInv

\* A step that leaves the limiter alone keeps its invariant.
LEMMA LimiterUnchanged ==
  ASSUME LimiterInv, UNCHANGED limiter
  PROVE  LimiterInv'
BY DEF limiter, LimiterInv, LimiterTypes, WindowInv, StillCounted, Over, Late,
       Inside

\* Every step keeps the windows.
LEMMA LimiterInductive == LimiterInv /\ [Next]_vars => LimiterInv'
<1> SUFFICES ASSUME LimiterInv, [Next]_vars PROVE LimiterInv'
  OBVIOUS
<1>1. CASE Tick
  BY <1>1, TickInductive
<1>2. ASSUME NEW text \in Texts, NEW default \in PayloadPorts, NEW j \in Jobs,
             NEW h \in Handlers, CreateCheck(h, j, text, default)
      PROVE  LimiterInv'
  BY <1>2, PipelineInductive DEF CreateCheck
<1>3. ASSUME NEW h \in Handlers, NEW c \in Clients, AskLimiter(h, c)
      PROVE  LimiterInv'
  BY <1>3, AskLimiterInductive
<1>4. ASSUME NEW h \in Handlers, LimiterFails(h) PROVE LimiterInv'
  BY <1>4, LimiterFailsInductive
<1>5. ASSUME NEW c \in Clients, ExpireBucket(c) PROVE LimiterInv'
  BY <1>5, ExpireBucketInductive
<1>6. ASSUME NEW text \in Texts, NEW default \in PayloadPorts,
             NEW resolve \in BOOLEAN, Register(text, default, resolve)
      PROVE  UNCHANGED limiter
  BY <1>6 DEF Register
<1>7. ASSUME NEW j \in Jobs, NEW t \in registered, ScheduleScan(j, t)
      PROVE  UNCHANGED limiter
  BY <1>7 DEF ScheduleScan
<1>8. ASSUME NEW j \in Jobs,
             ValidateJob(j) \/ ResolveAgain(j) \/ ScanBaseline(j) \/ ScanDeep(j)
      PROVE  UNCHANGED limiter
  BY <1>8 DEF ValidateJob, ResolveAgain, ScanBaseline, ScanDeep
<1>9. ASSUME NEW n \in Names, ChangeAnswer(n) PROVE UNCHANGED limiter
  BY <1>9 DEF ChangeAnswer
<1>10. CASE UNCHANGED vars
  BY <1>10, LimiterUnchanged DEF vars
<1> QED BY <1>1, <1>2, <1>3, <1>4, <1>5, <1>6, <1>7, <1>8, <1>9, <1>10,
           LimiterUnchanged DEF Next

\* The buckets are an invariant.
LEMMA SpecLimiter == Spec => []LimiterInv
BY InitLimiter, LimiterInductive, PTL DEF Spec

\* Every variable of the way to the scanners keeps its type.
THEOREM AdmissionTypes == Spec => []TypeOK
<1>1. LimiterInv /\ JobsTypeOK => TypeOK
  BY DEF LimiterInv, LimiterTypes, TypeOK
<1> QED BY <1>1, SpecLimiter, JobsAreTyped, PTL

\* While a window lasts it holds no more calls of a client let through than
\* the limit, wherever it starts and in whatever order the threads arrive; and
\* when it is over, at most one more for every thread.
THEOREM WindowsAreHeld == Spec => []RateWindowHeld
<1>1. ASSUME LimiterInv PROVE RateWindowHeld
  <2> SUFFICES ASSUME NEW c \in Clients, NEW start \in 0 .. MaxClock
               PROVE  Cardinality(Inside(passed[c], start)) <=
                        RateLimit + (IF clock < start + Window THEN 0
                                     ELSE Cardinality(Handlers))
    BY DEF RateWindowHeld
  <2>1. /\ start \in Nat /\ RateLimit \in Nat /\ Window \in Nat /\ clock \in Nat
        /\ LimiterTypes
    BY <1>1, LimitsAssumption DEF LimiterInv, LimiterTypes
  <2>2. /\ Cardinality(Inside(passed[c], start)) \in Nat
        /\ Cardinality(Late(c, start)) \in Nat
        /\ Cardinality(Handlers) \in Nat
    BY <2>1, WindowsAreFinite
  <2>3. StillCounted(c, start) \/ Over(c, start)
    BY <1>1, <2>1 DEF LimiterInv, WindowInv
  <2> QED BY <2>1, <2>2, <2>3 DEF StillCounted, Over
<1> QED BY <1>1, SpecLimiter, PTL

=============================================================================
