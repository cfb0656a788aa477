-------------------------- MODULE TargetAdmission --------------------------
(***************************************************************************)
(* The way of one target from the text a client sends to the addresses the *)
(* scanner connects to.  The same text is parsed again and the same name   *)
(* is resolved again at every stage, by code that is not the same:         *)
(*                                                                         *)
(*   POST /api/check     client denylist, rate limit (the clock, and then   *)
(*                       one round trip to Redis), parse, target           *)
(*                       denylist, parse and resolve                       *)
(*   registration        parse (monitored domains, subscriptions)          *)
(*   schedule            parse and resolve what was registered             *)
(*   worker              parse and resolve again, compare with the queue   *)
(*   baseline scanner    parse its own target string, resolve once more    *)
(*   testssl.sh          is told one address of the worker's answer        *)
(*                                                                         *)
(* DNS answers change between any two of them.  Queue depth, the target    *)
(* lock and the job store are ScanPipeline's.  An answer is a set: its     *)
(* order is the resolver's, so "the first address" is any of them.         *)
(***************************************************************************)
EXTENDS Integers, FiniteSets

CONSTANTS
  Names,          \* DNS names and IPv4 literals, in normal form
  Literals,       \* IPv6 literals, in normal form: each its only address
  Canonical,      \* Canonical[s]: the normal form of the spelling s
  ServiceNames,   \* other names, which nobody may scan (localhost, ...)
  BlockedPorts,   \* ports nobody may scan
  Addrs,          \* addresses a resolver may answer with
  Public,         \* those among them that are public
  Answers,        \* the answers a zone may give, {} among them
  Below,          \* Below: pairs <<h, d>> where h ends with "." and d
  Rules,          \* BLOCKED_TARGETS: [host, port, suffix] records
  DeniedClients,  \* BLOCKED_CLIENT_IPS
  Texts,          \* what clients type: [form, host, port] records
  PayloadPorts,   \* the port beside the text in the request
  Clients,        \* client addresses
  Handlers,       \* threads of the API that answer requests
  Jobs,           \* scan job identifiers
  RateLimit,      \* requests of a client in one window
  Window,         \* length of the window
  MaxClock,       \* bound on time
  Uuids,          \* what tells the calls of one instant apart
  MaxCalls,       \* bound on the calls of a client that a state holds
  MaxRegistered,  \* bound on registered targets
  NoAddr,         \* no connection yet
  NoCall          \* no call of the limiter under way

DefaultPort == 443
MaxPort == 65535
NoPort == 0   \* no port in a text; the code reads ":0" the same way

Hosts == Names \union Literals \union ServiceNames
Ports == 1 .. MaxPort
Spellings == DOMAIN Canonical

Forms == {"name", "bracketed", "bare", "malformed"}
NoTarget == [host |-> NoAddr, port |-> NoPort]

ASSUME ConstantsAssumption ==
  /\ Canonical \in [Spellings -> Hosts]
  /\ \A h \in Hosts : h \in Spellings /\ Canonical[h] = h
  /\ Names \intersect Literals = {}
  /\ ServiceNames \intersect (Names \union Literals) = {}
  /\ Public \subseteq Addrs
  /\ Literals \subseteq Addrs
  /\ Answers \subseteq SUBSET Addrs
  /\ NoAddr \notin Addrs \union Hosts
  /\ \A t \in Texts : /\ t.form \in Forms
                      /\ t.host \in Spellings
                      /\ t.port \in Nat
  /\ PayloadPorts \subseteq Ports
  /\ BlockedPorts \subseteq Ports

\* A member of the sorted set, scored by the time its thread had read.
Calls == [at : Nat, uuid : Uuids]

\* A limit of zero switches the limiter off; here it is on.
ASSUME LimitsAssumption ==
  /\ RateLimit \in Nat \ {0}
  /\ Window \in Nat \ {0}
  /\ MaxClock \in Nat
  /\ IsFiniteSet(Handlers)
  /\ NoCall \notin [client : Clients, call : Calls]

VARIABLES
  dns,          \* dns[n]: the answer for n right now, {} when it has none
  clock,        \* time, for the rate limiter
  hits,         \* hits[c]: the sorted set of the calls it remembers
  pending,      \* pending[h]: the call thread h is about to send to Redis
  passed,       \* passed[c]: the calls its count let through (history)
  registered,   \* targets of monitored domains and subscriptions
  phase,        \* phase[j]: how far job j is
  origin,       \* origin[j]: "check" or "scheduled"
  target,       \* target[j]: the host and port in the queued job
  queued,       \* queued[j]: the addresses in the queued job
  validated,    \* validated[j]: the addresses the worker resolved
  pinned,       \* pinned[j]: the address of the baseline scanner
  contacts      \* contacts[j]: addresses the scan of j connected to

limiter == <<clock, hits, pending, passed>>
job == <<phase, origin, target, queued, validated, pinned, contacts>>
vars == <<dns, limiter, registered, job>>

Phases == {"none", "queued", "validated", "connecting", "deep", "done",
           "refused"}

---------------------------------------------------------------------------
(* Parsing: shared/tls_audit/validation.py, tls_guard/scanner.py           *)

\* What parse_host returns: no port in the text means the default one.
\* An IPv6 literal parses only in brackets: bare, it ends at its first ":".
PortOf(text, default) == IF text.port = NoPort THEN default ELSE text.port

\* Mutant: the range of the port is not checked.
ReadableAtAnyPort(text, default) ==
  /\ text.form \in {"name", "bracketed"}
  /\ Canonical[text.host] \in Literals => text.form = "bracketed"
Readable(text, default) ==
  /\ text.form \in {"name", "bracketed"}
  /\ Canonical[text.host] \in Literals => text.form = "bracketed"
  /\ PortOf(text, default) \in Ports

Parsed(text, default) ==
  [host |-> Canonical[text.host], port |-> PortOf(text, default)]

ParseHostAccepts(text, default) ==
  /\ Readable(text, default)
  /\ Canonical[text.host] \notin ServiceNames
  /\ PortOf(text, default) \notin BlockedPorts

\* A parsed host goes to the next parser as it is, its port as the default.
AsText(h) ==
  [form |-> IF h \in Literals THEN "bare" ELSE "name",
   host |-> h, port |-> NoPort]

\* The target string of the baseline scanner leaves the port 443 out.
\* Mutant: the port is always left out.
TargetTextWithoutPort(t) == AsText(t.host)
TargetText(t) ==
  IF t.port = DefaultPort THEN AsText(t.host)
  ELSE [AsText(t.host) EXCEPT !.port = t.port]

Reparses(t) ==
  /\ ParseHostAccepts(AsText(t.host), t.port)
  /\ Parsed(AsText(t.host), t.port) = t

---------------------------------------------------------------------------
(* Resolving: validation.py resolves all or nothing, the scanner drops the *)
(* addresses it may not use.                                               *)

Answer(h) == IF h \in Literals THEN {h} ELSE dns[h]

\* Mutant: one public address is enough, as in the scanner.
ResolvesPartly(h) == Answer(h) \intersect Public /= {}
ResolvesPublic(h) == Answer(h) /= {} /\ Answer(h) \subseteq Public

\* validate_target(host, port, resolve=True)
Validates(text, default) ==
  /\ ParseHostAccepts(text, default)
  /\ ResolvesPublic(Parsed(text, default).host)

---------------------------------------------------------------------------
(* Denylists and the rolling rate limiter                                  *)

\* A rule whose port is out of range applies to every port.
RuleMatchesPort(r, p) == r.port \in Ports => r.port = p

RuleMatchesHost(r, h) ==
  \/ h = Canonical[r.host]
  \/ r.suffix /\ <<h, Canonical[r.host]>> \in Below

TargetDenied(t) ==
  \E r \in Rules : RuleMatchesPort(r, t.port) /\ RuleMatchesHost(r, t.host)

\* The calls of a client that are in the sorted set, let through, or under way.
CallsOf(c) ==
  hits[c] \union passed[c]
    \union {pending[h].call : h \in {g \in Handlers :
               pending[g] /= NoCall /\ pending[g].client = c}}

\* The thread reads the clock and makes a member with a uuid of its own; the
\* pipeline that uses both runs a round trip later.
AskLimiter(h, c) ==
  /\ pending[h] = NoCall
  /\ c \notin DeniedClients
  /\ Cardinality(CallsOf(c)) < MaxCalls
  /\ \E id \in Uuids :
       LET call == [at |-> clock, uuid |-> id] IN
         /\ call \notin CallsOf(c)
         /\ pending' = [pending EXCEPT ![h] = [client |-> c, call |-> call]]
  /\ UNCHANGED <<dns, clock, hits, passed, registered, job>>

\* The sorted set after the pipeline of `call': what is out of the window of
\* that call goes, the call is in, whether it will be let through or not.
Counted(calls, call) ==
  {m \in calls : m.at > call.at - Window} \union {call}

\* Mutant: the call being made is not counted.
AllowsOneMore(calls, call) ==
  Cardinality(Counted(calls, call)) <= RateLimit + 1
Allows(calls, call) == Cardinality(Counted(calls, call)) <= RateLimit

\* The pipeline of thread h, and the decision that its count allows.
Decides(h) == Allows(hits[pending[h].client], pending[h].call)

Pipeline(h) ==
  LET c == pending[h].client  call == pending[h].call IN
    /\ pending[h] /= NoCall
    /\ hits' = [hits EXCEPT ![c] = Counted(@, call)]
    /\ passed' = IF Decides(h)
                 THEN [passed EXCEPT ![c] = @ \union {call}] ELSE passed
    /\ pending' = [pending EXCEPT ![h] = NoCall]
    /\ UNCHANGED clock

\* Redis does not answer and the request fails, whether the pipeline ran or
\* not; a call that would have been let through is in `passed' all the same.
LimiterFails(h) ==
  /\ pending[h] /= NoCall
  /\ \/ Pipeline(h)
     \/ /\ pending' = [pending EXCEPT ![h] = NoCall]
        /\ UNCHANGED <<clock, hits, passed>>
  /\ UNCHANGED <<dns, registered, job>>

\* Two windows after its last call the key expires, with all it remembered.
\* It may here after the last time read, which is never later than in Redis.
ExpireBucket(c) ==
  /\ hits[c] /= {}
  /\ \A m \in hits[c] : m.at + 2 * Window <= clock
  /\ hits' = [hits EXCEPT ![c] = {}]
  /\ UNCHANGED <<dns, clock, pending, passed, registered, job>>

---------------------------------------------------------------------------
Init ==
  /\ dns \in [Names -> Answers]
  /\ clock = 0
  /\ hits = [c \in Clients |-> {}]
  /\ pending = [h \in Handlers |-> NoCall]
  /\ passed = [c \in Clients |-> {}]
  /\ registered = {}
  /\ phase = [j \in Jobs |-> "none"]
  /\ origin = [j \in Jobs |-> "none"]
  /\ target = [j \in Jobs |-> NoTarget]
  /\ queued = [j \in Jobs |-> {}]
  /\ validated = [j \in Jobs |-> {}]
  /\ pinned = [j \in Jobs |-> NoAddr]
  /\ contacts = [j \in Jobs |-> {}]

Goto(j, p) == phase' = [phase EXCEPT ![j] = p]

\* The job and its queue message, with the answer of the last resolution.
QueueJob(j, from, t) ==
  /\ phase[j] = "none"
  /\ Goto(j, "queued")
  /\ origin' = [origin EXCEPT ![j] = from]
  /\ target' = [target EXCEPT ![j] = t]
  /\ queued' = [queued EXCEPT ![j] = Answer(t.host)]
  /\ UNCHANGED <<validated, pinned, contacts>>

\* The text is parsed twice: once for the denylist, once to resolve.
CheckAccepts(text, default) ==
  /\ ParseHostAccepts(text, default)
  /\ LET t == Parsed(text, default) IN
       ~TargetDenied(t) /\ Validates(AsText(t.host), t.port)

\* POST /api/check, from the answer of the limiter on.
CreateCheck(h, j, text, default) ==
  /\ phase[j] = "none"
  /\ Pipeline(h)
  /\ IF Decides(h) /\ CheckAccepts(text, default)
     THEN QueueJob(j, "check", Parsed(text, default))
     ELSE UNCHANGED job
  /\ UNCHANGED <<dns, registered>>

\* A monitored domain is not resolved when it is registered, a subscribed
\* one is; neither meets the target denylist.
Register(text, default, resolve) ==
  /\ Cardinality(registered) < MaxRegistered
  /\ IF resolve THEN Validates(text, default)
     ELSE ParseHostAccepts(text, default)
  /\ registered' = registered \union {Parsed(text, default)}
  /\ UNCHANGED <<dns, limiter, job>>

\* The scheduler, run-now and scan-now; a target that is refused is skipped.
ScheduleScan(j, t) ==
  /\ Validates(AsText(t.host), t.port)
  /\ QueueJob(j, "scheduled", t)
  /\ UNCHANGED <<dns, limiter, registered>>

---------------------------------------------------------------------------
(* The worker and the scanners                                             *)

\* Mutant: the answers need not overlap.
WorkerAcceptsAnyAnswer(j) == Validates(AsText(target[j].host), target[j].port)
WorkerAccepts(j) ==
  /\ Validates(AsText(target[j].host), target[j].port)
  /\ Answer(target[j].host) \intersect queued[j] /= {}

\* From here on the job is expected at the worker's own answer.
ValidateJob(j) ==
  /\ phase[j] = "queued"
  /\ IF WorkerAccepts(j)
     THEN /\ validated' = [validated EXCEPT ![j] = Answer(target[j].host)]
          /\ Goto(j, "validated")
     ELSE Goto(j, "refused") /\ UNCHANGED validated
  /\ UNCHANGED <<dns, limiter, registered, origin, target, queued, pinned,
                 contacts>>

\* Where the baseline scanner may connect after resolving once more.
Pinnable(j) ==
  Answer(Parsed(TargetText(target[j]), DefaultPort).host)
    \intersect Public \intersect validated[j]

ResolveAgain(j) ==
  /\ phase[j] = "validated"
  /\ IF /\ Readable(TargetText(target[j]), DefaultPort)
        /\ Pinnable(j) /= {}
     THEN /\ \E a \in Pinnable(j) : pinned' = [pinned EXCEPT ![j] = a]
          /\ Goto(j, "connecting")
     ELSE Goto(j, "refused") /\ UNCHANGED pinned
  /\ UNCHANGED <<dns, limiter, registered, origin, target, queued, validated,
                 contacts>>

\* Certificate, protocols, ciphers and headers, all at one address; the
\* scan may run out of its deadline on the way.
ScanBaseline(j) ==
  /\ phase[j] = "connecting"
  /\ contacts' = [contacts EXCEPT ![j] = @ \union {pinned[j]}]
  /\ Goto(j, "deep") \/ Goto(j, "refused")
  /\ UNCHANGED <<dns, limiter, registered, origin, target, queued, validated,
                 pinned>>

\* testssl.sh gets the first address the worker resolved, which need not
\* be the one of the baseline scanner; without the command it is not run.
ScanDeep(j) ==
  /\ phase[j] = "deep"
  /\ \/ UNCHANGED contacts
     \/ \E first \in validated[j] :
          contacts' = [contacts EXCEPT ![j] = @ \union {first}]
  /\ Goto(j, "done")
  /\ UNCHANGED <<dns, limiter, registered, origin, target, queued, validated,
                 pinned>>

---------------------------------------------------------------------------
\* The zone of n changes, or its server answers something else.
ChangeAnswer(n) ==
  /\ \E answer \in Answers : dns' = [dns EXCEPT ![n] = answer]
  /\ UNCHANGED <<limiter, registered, job>>

Tick ==
  /\ clock < MaxClock
  /\ clock' = clock + 1
  /\ UNCHANGED <<dns, hits, pending, passed, registered, job>>

Next ==
  \/ \E text \in Texts, default \in PayloadPorts :
       \/ \E h \in Handlers, j \in Jobs : CreateCheck(h, j, text, default)
       \/ \E resolve \in BOOLEAN : Register(text, default, resolve)
  \/ \E h \in Handlers : \/ \E c \in Clients : AskLimiter(h, c)
                         \/ LimiterFails(h)
  \/ \E c \in Clients : ExpireBucket(c)
  \/ \E j \in Jobs, t \in registered : ScheduleScan(j, t)
  \/ \E j \in Jobs : \/ ValidateJob(j)
                     \/ ResolveAgain(j)
                     \/ ScanBaseline(j)
                     \/ ScanDeep(j)
  \/ \E n \in Names : ChangeAnswer(n)
  \/ Tick

Spec == Init /\ [][Next]_vars

---------------------------------------------------------------------------
(* Properties                                                              *)

JobsTypeOK ==
  /\ dns \in [Names -> Answers]
  /\ registered \subseteq [host : Hosts, port : Ports]
  /\ phase \in [Jobs -> Phases]
  /\ origin \in [Jobs -> {"none", "check", "scheduled"}]
  /\ target \in [Jobs -> [host : Hosts, port : Ports] \union {NoTarget}]
  /\ queued \in [Jobs -> SUBSET Addrs]
  /\ validated \in [Jobs -> SUBSET Addrs]
  /\ pinned \in [Jobs -> Addrs \union {NoAddr}]
  /\ contacts \in [Jobs -> SUBSET (Addrs \union {NoAddr})]

\* Every variable keeps its shape (JobRecord in jobs.py, Target in
\* validation.py, the limiter's buckets in traffic_control.py).
TypeOK ==
  /\ clock \in Nat
  /\ hits \in [Clients -> SUBSET Calls]
  /\ pending \in [Handlers -> [client : Clients, call : Calls] \union {NoCall}]
  /\ passed \in [Clients -> SUBSET Calls]
  /\ JobsTypeOK

\* Whatever the name answers in the meantime, a scan connects only to public
\* addresses that the worker's own resolution had returned (README.md,
\* "connections pinned to validated IP addresses"), in both scanners.
ContactsPinned ==
  \A j \in Jobs : contacts[j] \subseteq Public \intersect validated[j]

\* A job that got as far as a connection was validated against an answer
\* that had an address in common with the one it was queued with
\* (docs/work-plan.md, "worker rejects jobs when DNS answers no longer
\* overlap with queued addresses").
ScanFollowsQueuedAnswer ==
  \A j \in Jobs : contacts[j] /= {} => validated[j] \intersect queued[j] /= {}

\* Every parser behind the queue reads the same host and port out of a
\* queued job: validate_target in the worker, parse_target in the scanner.
QueuedTargetReparses ==
  \A j \in Jobs : phase[j] /= "none" =>
    /\ Reparses(target[j])
    /\ Readable(TargetText(target[j]), DefaultPort)
    /\ Parsed(TargetText(target[j]), DefaultPort) = target[j]

\* As long as a window of time lasts it holds no more calls of one client let
\* through than the limit, wherever it starts and in whatever order the
\* pipelines of concurrent threads arrive (RollingRateLimiter).  When it is
\* over, a thread that had read its clock in it may still be let through, by a
\* set that has forgotten the window: one call each, and never more.
Inside(calls, start) == {m \in calls : m.at \in start .. start + Window - 1}

RateWindowHeld ==
  \A c \in Clients : \A start \in 0 .. MaxClock :
    Cardinality(Inside(passed[c], start)) <=
      RateLimit + (IF clock < start + Window THEN 0 ELSE Cardinality(Handlers))

=============================================================================
