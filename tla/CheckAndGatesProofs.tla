-------------------------- MODULE CheckAndGatesProofs --------------------------
(***************************************************************************)
(* What is proved of Gates, for every collection of worlds, every registry *)
(* and every limit on requests: the exit of a lockfile gate is earned, the *)
(* registry is asked sparingly, and a gate over a tree that passes has     *)
(* read what it is about.  And of CheckEvaluation: what three-valued       *)
(* resolution promises for expressions of every depth and arity, and       *)
(* covers-by-key for collections of every size.  The two share a module as *)
(* they share a run; nothing in one is about the other.                    *)
(***************************************************************************)
EXTENDS CheckEvaluation, Gates, FiniteSetTheorems, SequenceTheorems, WellFoundedInduction, TLAPS

USE DEF Passed, GateFailed, UsageError

-----------------------------------------------------------------------------
(* The inductive invariant, in parts.                                      *)

Running == {"parsing", "loading", "caching", "opening", "asking", "probing", "walking"}

(* Where a run stands, and which gate stands there.                        *)
Placed ==
    /\ \E i \in DOMAIN Worlds : world = Worlds[i]
    /\ pc \in Running \cup {"done"}
    /\ pc = "done" <=> exit # <<>>
    /\ pc \in {"parsing", "loading"} => section = <<>>
    /\ pc \in Running \ {"parsing", "loading"} => section # <<>>
    /\ pc = "caching" => Gate = "lockfile-age"
    /\ pc \in {"opening", "asking"} => Gate \in LockfileGates
    /\ pc \in {"probing", "walking"} => Gate \notin LockfileGates

(* What was read is the section of this gate, and was accepted.            *)
Loaded ==
    section # <<>> =>
        /\ Declares(Config, Gate)
        /\ section = <<world.configs[Config][Gate]>>
        /\ Accepted(Gate, Rules)

(* Nothing of an audit is there before it began.                           *)
Fresh ==
    /\ (section = <<>> \/ Gate \notin LockfileGates) => requests = <<>>
    /\ pc \in {"parsing", "loading", "caching"} =>
          at = 1 /\ requests = <<>> /\ cache = <<>> /\ passed = TRUE

Auditing == section # <<>> /\ Gate \in LockfileGates

(* The lockfiles that were opened.                                         *)
Opened == IF pc = "asking" THEN 1 .. at ELSE 1 .. at - 1

AuditPlaced ==
    Auditing =>
        /\ at \in Nat \ {0} /\ at <= Len(Rules.lockfiles) + 1
        /\ pc = "asking" => at <= Len(Rules.lockfiles)
        /\ DOMAIN requests = Opened
        /\ requests = [n \in Opened |-> requests[n]]
        /\ \A n \in Opened : Auditable(n) /\ ~Lock(n).holed
        /\ pc \in {"opening", "asking"} => CacheSound
        /\ \A key \in DOMAIN cache : cache[key] \in Nat

(* What the lockfiles that are closed came to.                             *)
AuditTold ==
    Auditing =>
        /\ passed \in BOOLEAN
        /\ passed <=> \A n \in 1 .. at - 1 : AllVouched(n)
        /\ pending = {p \in RowsOf(Gate, Rules) : \A n \in 1 .. at - 1 : p \notin ReachedIn(n)}

States == {"waiting", "active", "answered", "failed"}

RequestOf(n, k) ==
    [name : {Lock(n).entries[k].name}, state : States, tries : 0 .. MaxRetries,
     times : Replies \cup {<<>>}]

RequestsFit(n) ==
    /\ requests[n] = [k \in Asked(n) |-> requests[n][k]]
    /\ \A k \in Asked(n) :
          /\ requests[n][k] \in RequestOf(n, k)
          /\ requests[n][k].state = "answered" => requests[n][k].times \in Replies
    /\ IsFiniteSet(InState(n, "active"))
    /\ Cardinality(InState(n, "active")) <= Concurrency

AskedInv == Auditing => \A n \in Opened : RequestsFit(n)

AuditInv ==
    /\ Placed /\ Loaded /\ Fresh
    /\ AuditPlaced /\ AuditTold /\ AskedInv
    /\ LockfilesEarned

-----------------------------------------------------------------------------
(* What a step leaves alone.                                               *)

(* Once the section and the cache are there, what a lockfile holds and     *)
(* what is asked for in it stay as they are.                               *)
LEMMA StaticKept ==
    ASSUME UNCHANGED <<world, section, cache>>
    PROVE  /\ Gate' = Gate /\ Rules' = Rules /\ Config' = Config
           /\ RowsOf(Gate, Rules)' = RowsOf(Gate, Rules)
           /\ Auditing' = Auditing /\ CacheSound' = CacheSound /\ AllReached' = AllReached
           /\ \A n : /\ Auditable(n)' = Auditable(n) /\ Lock(n)' = Lock(n)
                     /\ Entries(n)' = Entries(n) /\ Asked(n)' = Asked(n)
                     /\ ReachedIn(n)' = ReachedIn(n)
<1>1. Gate' = Gate /\ Rules' = Rules /\ Config' = Config
  BY DEF Gate, Rules, Config
<1>2. \A n : Named(n)' = Named(n) /\ Lock(n)' = Lock(n) /\ RowsFor(n)' = RowsFor(n)
  BY <1>1 DEF Named, Lock, RowsFor
<1>3. \A n : Entries(n)' = Entries(n) /\ Auditable(n)' = Auditable(n)
  BY <1>1, <1>2 DEF Entries, Auditable
<1>4. \A n, e : Excluded(n, e)' = Excluded(n, e) /\ Cached(e)' = Cached(e) /\ OffRegistry(e)' = OffRegistry(e)
  BY <1>1, <1>2 DEF Excluded, Cached, OffRegistry
<1>5. \A n, e : Open(n, e)' = Open(n, e)
  BY <1>3, <1>4 DEF Open
<1>6. \A n : Asked(n)' = Asked(n)
  BY <1>1, <1>2, <1>5 DEF Asked
<1>7. \A i, e : Reaches(i, e)' = Reaches(i, e)
  BY <1>1 DEF Reaches, Covers
<1>8. \A n : ReachedIn(n)' = ReachedIn(n)
  BY <1>1, <1>2, <1>3, <1>7 DEF ReachedIn
<1>9. RowsOf(Gate, Rules)' = RowsOf(Gate, Rules)
  BY <1>1 DEF RowsOf
<1>10. Auditing' = Auditing /\ CacheSound' = CacheSound
  BY <1>1 DEF Auditing, CacheSound
<1>11. AllReached' = AllReached
  BY <1>1, <1>2, <1>3, <1>7 DEF AllReached
<1> QED BY <1>1, <1>2, <1>3, <1>6, <1>8, <1>9, <1>10, <1>11

(* So do the requests of a lockfile and what they vouch for, but where one *)
(* of them moves.                                                          *)
LEMMA RequestsKept ==
    ASSUME UNCHANGED <<world, section, cache>>, NEW n, requests'[n] = requests[n]
    PROVE  /\ AllVouched(n)' = AllVouched(n)
           /\ RequestsFit(n)' = RequestsFit(n)
           /\ \A state : InState(n, state)' = InState(n, state)
<1>1. /\ Gate' = Gate /\ Rules' = Rules /\ Entries(n)' = Entries(n) /\ Asked(n)' = Asked(n)
      /\ Lock(n)' = Lock(n)
  BY StaticKept
<1>2. \A e : PublishedAt(n, e)' = PublishedAt(n, e)
  BY DEF PublishedAt, Cached
<1>3. Named(n)' = Named(n) /\ Allowlist(n)' = Allowlist(n)
  BY <1>1 DEF Named, Allowlist
<1>4. \A e : Vouched(n, e)' = Vouched(n, e)
  BY <1>1, <1>2, <1>3 DEF Vouched, MarkerHolds, Covers
<1>5. AllVouched(n)' = AllVouched(n)
  BY <1>1, <1>4 DEF AllVouched
<1>6. \A state : InState(n, state)' = InState(n, state)
  BY DEF InState
<1>7. RequestsFit(n)' = RequestsFit(n)
  BY <1>1, <1>6 DEF RequestsFit, RequestOf
<1> QED BY <1>5, <1>6, <1>7

-----------------------------------------------------------------------------
(* An entry breaks the rules of its gate exactly when nothing vouches for  *)
(* it.                                                                     *)

LEMMA PublishedIsTime ==
    ASSUME AuditInv, Auditing, Gate = "lockfile-age", NEW n \in Opened, NEW e,
           PublishedAt(n, e) # <<>>
    PROVE  \E time \in Nat : PublishedAt(n, e) = <<time>>
<1>1. CASE Cached(e)
  BY <1>1 DEF PublishedAt, AuditInv, AuditPlaced, Cached
<1>2. CASE ~Cached(e)
  <2> DEFINE answers == {r \in {requests[n][k] : k \in DOMAIN requests[n]} :
                           r.name = e.name /\ r.state = "answered" /\ e.version \in DOMAIN r.times}
             r == CHOOSE r \in answers : TRUE
  <2>1. answers # {} /\ PublishedAt(n, e) = <<r.times[e.version]>>
    BY <1>2 DEF PublishedAt
  <2>2. r \in answers
    BY <2>1
  <2>3. RequestsFit(n)
    BY DEF AuditInv, AskedInv
  <2>4. r.times \in Replies /\ e.version \in DOMAIN r.times
    BY <2>2, <2>3 DEF RequestsFit
  <2>5. r.times[e.version] \in Nat
    BY <2>4, WorldsAssumption
  <2> QED BY <2>1, <2>5
<1> QED BY <1>1, <1>2

(* What a section and its world hold has its types.                        *)
LEMMA SectionTyped ==
    ASSUME Placed, Declares(Config, Gate)
    PROVE  /\ SectionFits(Gate, world.configs[Config][Gate])
           /\ TimesFit(world) /\ LocksFit(world) /\ TreeFits(world.tree)
<1>1. PICK i \in DOMAIN Worlds : world = Worlds[i]
  BY DEF Placed
<1> QED BY <1>1, WorldsAssumption DEF Declares

LEMMA RulesTyped ==
    ASSUME Placed, Loaded, section # <<>>
    PROVE  SectionFits(Gate, Rules) /\ TimesFit(world) /\ LocksFit(world) /\ TreeFits(world.tree)
BY SectionTyped DEF Loaded, Rules

LEMMA AgeBreaksIsUnvouched ==
    ASSUME AuditInv, Auditing, Gate = "lockfile-age", NEW n \in Opened, NEW e
    PROVE  AgeBreaks(n, e) <=> ~Vouched(n, e)
<1>1. Rules.window \in Nat /\ world.now \in Nat
  BY RulesTyped DEF AuditInv, Auditing, SectionFits, LockfileGates, TimesFit
<1>2. Excluded(n, e) <=> \E row \in Range(Rules.rows) : row.key = e.name /\ Named(n) \in Range(row.lockfiles)
  BY DEF Excluded, RowsFor, Range
<1>3. ~(Unfetchable(n, e) \/ Young(n, e)) <=>
         \E time \in Range(PublishedAt(n, e)) : time # Garbled /\ time + Rules.window <= world.now
  <2>1. CASE PublishedAt(n, e) = <<>>
    BY <2>1 DEF Unfetchable, Range
  <2>2. CASE PublishedAt(n, e) # <<>>
    <3>1. PICK time \in Nat : PublishedAt(n, e) = <<time>>
      BY <2>2, PublishedIsTime
    <3>2. Range(PublishedAt(n, e)) = {time} /\ PublishedAt(n, e)[1] = time
      BY <3>1 DEF Range
    <3>3. Unfetchable(n, e) <=> time = Garbled
      BY <3>1 DEF Unfetchable
    <3> QED BY <1>1, <3>2, <3>3 DEF Young
  <2> QED BY <2>1, <2>2
<1> QED BY <1>2, <1>3 DEF AgeBreaks, Vouched, OffRegistry

LEMMA LicenceBreaksIsUnvouched ==
    ASSUME NEW n, NEW e, Gate = "licences"
    PROVE  LicenceBreaks(n, e) <=> ~Vouched(n, e)
<1>1. ReadByEvidence(n, e) <=>
         \E row \in Range(Rules.rows) :
            /\ Named(n) \in Range(row.lockfiles) /\ Covers(row.key, e)
            /\ row.readAs \in Allowlist(n)
  BY DEF ReadByEvidence, RowsFor, Range
<1>2. \A way, license : way \subseteq Allowlist(n) \cup {license} <=> way \ {license} \subseteq Allowlist(n)
  OBVIOUS
<1>3. IsTolerated(n, e) <=>
         \E way \in e.ways, t \in Range(Rules.tolerances) :
            /\ way \ {t.license} \subseteq Allowlist(n)
            /\ Named(n) \in t.lockfiles /\ MarkerHolds(t)
            /\ Covers(t.prefix, e) /\ (e.optional \/ ~t.optional)
  BY <1>2 DEF IsTolerated, IsAllowed
<1> QED BY <1>1, <1>3 DEF LicenceBreaks, Vouched, OffRegistry, IsAllowed

LEMMA BreaksIsUnvouched ==
    ASSUME AuditInv, Auditing, NEW n \in Opened, NEW e
    PROVE  Breaks(n, e) <=> ~Vouched(n, e)
<1>1. CASE Gate = "lockfile-age"
  BY <1>1, AgeBreaksIsUnvouched DEF Breaks
<1>2. CASE Gate = "licences"
  BY <1>2, LicenceBreaksIsUnvouched DEF Breaks
<1> QED BY <1>1, <1>2 DEF Auditing, LockfileGates

-----------------------------------------------------------------------------
(* The invariant holds at first, and through what is read before an audit. *)

LEMMA InitHolds == GatesInit => AuditInv
BY DEF GatesInit, AuditInv, Placed, Running, Loaded, Fresh, Auditing, AuditPlaced, AuditTold,
       AskedInv, LockfilesEarned

(* Nothing of an audit is disturbed where a run stays where it is, or ends *)
(* outside a lockfile.                                                     *)
LEMMA AuditKept ==
    ASSUME AuditInv, UNCHANGED <<world, section, cache, at, requests, passed, pending>>,
           pc' = pc \/ (pc # "asking" /\ pc' = "done")
    PROVE  /\ Loaded' /\ Fresh' /\ AuditPlaced' /\ AuditTold' /\ AskedInv'
           /\ \A n \in Opened : AllVouched(n)' = AllVouched(n)
<1>1. /\ Gate' = Gate /\ Rules' = Rules /\ Config' = Config
      /\ RowsOf(Gate, Rules)' = RowsOf(Gate, Rules)
      /\ Auditing' = Auditing /\ CacheSound' = CacheSound
      /\ \A n : /\ Auditable(n)' = Auditable(n) /\ Lock(n)' = Lock(n)
                /\ ReachedIn(n)' = ReachedIn(n)
  BY StaticKept
<1>2. \A n : AllVouched(n)' = AllVouched(n) /\ RequestsFit(n)' = RequestsFit(n)
  <2> SUFFICES ASSUME NEW n PROVE AllVouched(n)' = AllVouched(n) /\ RequestsFit(n)' = RequestsFit(n)
    OBVIOUS
  <2>1. requests'[n] = requests[n]
    OBVIOUS
  <2> QED BY <2>1, RequestsKept
<1>3. Opened' = Opened
  BY DEF Opened
<1>4. Loaded'
  BY <1>1 DEF AuditInv, Loaded, Declares, Rules
<1>5. Fresh'
  BY <1>1 DEF AuditInv, Fresh
<1>6. AuditPlaced'
  BY <1>1, <1>3 DEF AuditInv, AuditPlaced
<1>7. AuditTold'
  BY <1>1, <1>2 DEF AuditInv, AuditTold
<1>8. AskedInv'
  BY <1>1, <1>2, <1>3 DEF AuditInv, AskedInv
<1> QED BY <1>2, <1>4, <1>5, <1>6, <1>7, <1>8

LEMMA ParseKeeps ==
    ASSUME AuditInv, Parse
    PROVE  AuditInv'
<1>1. pc = "parsing" /\ section = <<>> /\ section' = <<>> /\ UNCHANGED <<world, cache, at, requests, passed>>
  BY DEF Parse, AuditInv, Placed
<1>2. (pc' = "loading" /\ exit' = exit) \/ (pc' = "done" /\ exit' # <<>>)
  BY DEF Parse, Exit, Goto
<1>3. Placed'
  BY <1>1, <1>2 DEF Parse, AuditInv, Placed, Running
<1>4. Loaded' /\ AuditPlaced' /\ AuditTold' /\ AskedInv' /\ LockfilesEarned'
  BY <1>1 DEF Loaded, Auditing, AuditPlaced, AuditTold, AskedInv, LockfilesEarned
<1>5. Fresh'
  BY <1>1, <1>2 DEF AuditInv, Fresh
<1> QED BY <1>3, <1>4, <1>5 DEF AuditInv

LEMMA LoadSectionKeeps ==
    ASSUME AuditInv, LoadSection
    PROVE  AuditInv'
<1>1. /\ pc = "loading" /\ section = <<>> /\ exit = <<>> /\ Gate' = Gate /\ Config' = Config
      /\ UNCHANGED <<world, cache, at, requests, passed, scanned>>
      /\ at = 1 /\ requests = <<>> /\ cache = <<>> /\ passed = TRUE
  BY DEF LoadSection, AuditInv, Placed, Fresh, Running, Gate, Config
<1>2. CASE Declares(Config, Gate) /\ Accepted(Gate, world.configs[Config][Gate])
  <2> DEFINE rules == world.configs[Config][Gate]
  <2>1. /\ section' = <<rules>> /\ Rules' = rules /\ pending' = RowsOf(Gate, rules)
        /\ pc' = After(Gate) /\ exit' = <<>>
    BY <1>1, <1>2 DEF LoadSection, Goto, Rules
  <2>2. Placed'
    BY <1>1, <2>1 DEF AuditInv, Placed, After, Running, LockfileGates
  <2>3. Loaded' /\ Fresh'
    BY <1>1, <1>2, <2>1 DEF Loaded, Fresh, Declares, After
  <2>4. AuditPlaced'
    <3> SUFFICES ASSUME Auditing' PROVE AuditPlaced'
      BY DEF AuditPlaced
    <3>1. Len(rules.lockfiles) \in Nat
      BY <1>1, <1>2, <2>1, SectionTyped DEF Auditing, AuditInv, SectionFits, IsSequence
    <3>2. pc' \in {"caching", "opening"} /\ (pc' = "opening" => Gate = "licences")
      BY <1>1, <2>1 DEF Auditing, LockfileGates, After
    <3>3. Opened' = {}
      BY <1>1, <3>2 DEF Opened
    <3>4. CacheSound' \/ pc' = "caching"
      BY <1>1, <3>2 DEF CacheSound
    <3>5. DOMAIN requests' = {} /\ requests' = [n \in {} |-> requests'[n]]
      BY <1>1
    <3> QED BY <1>1, <2>1, <3>1, <3>2, <3>3, <3>4, <3>5 DEF AuditPlaced
  <2>5. AuditTold'
    BY <1>1, <2>1 DEF AuditTold
  <2>6. AskedInv'
    BY <1>1, <2>1 DEF AskedInv, Opened, Auditing, LockfileGates, After
  <2>7. LockfilesEarned'
    BY <2>1 DEF LockfilesEarned
  <2> QED BY <2>2, <2>3, <2>4, <2>5, <2>6, <2>7 DEF AuditInv
<1>3. CASE ~(Declares(Config, Gate) /\ Accepted(Gate, world.configs[Config][Gate]))
  <2>1. UNCHANGED <<section, pending>> /\ pc' = "done" /\ exit' # <<>>
    BY <1>3 DEF LoadSection, Exit
  <2>2. Placed'
    BY <1>1, <2>1 DEF AuditInv, Placed, Running
  <2>3. Loaded' /\ Fresh' /\ AuditPlaced' /\ AuditTold' /\ AskedInv' /\ LockfilesEarned'
    BY <1>1, <2>1 DEF Loaded, Fresh, Auditing, AuditPlaced, AuditTold, AskedInv, LockfilesEarned
  <2> QED BY <2>2, <2>3 DEF AuditInv
<1> QED BY <1>2, <1>3

LEMMA ReadCacheKeeps ==
    ASSUME AuditInv, ReadCache
    PROVE  AuditInv'
<1>1. /\ pc = "caching" /\ section # <<>> /\ exit = <<>> /\ Gate = "lockfile-age" /\ Auditing
      /\ at = 1 /\ requests = <<>> /\ cache = <<>> /\ passed = TRUE
      /\ Gate' = Gate /\ Config' = Config /\ Rules' = Rules
      /\ UNCHANGED <<world, section, at, requests, passed, pending, scanned>>
  BY DEF ReadCache, AuditInv, Placed, Fresh, Running, Gate, Config, Rules, Auditing, LockfileGates
<1>2. Loaded'
  BY <1>1 DEF AuditInv, Loaded, Declares
<1>3. \/ /\ pc' = "opening" /\ exit' = <<>> /\ CacheSound
         /\ \A key \in DOMAIN cache' : cache'[key] \in Nat
      \/ pc' = "done" /\ exit' = <<64>> /\ cache' = cache /\ ~CacheSound
  <2>1. CASE Rules.cache = <<>>
    BY <1>1, <2>1 DEF ReadCache, Goto, CacheSound
  <2>2. CASE /\ Rules.cache # <<>> /\ Rules.cache[1] \in DOMAIN world.caches
             /\ world.caches[Rules.cache[1]].sound
    <3>1. TimesFit(world)
      BY <1>1, RulesTyped DEF AuditInv
    <3>2. pc' = "opening" /\ exit' = <<>> /\ cache' = world.caches[Rules.cache[1]].times
      BY <1>1, <2>2 DEF ReadCache, Goto
    <3> QED BY <2>2, <3>1, <3>2 DEF TimesFit, CacheSound
  <2>3. CASE ~\/ Rules.cache = <<>>
              \/ /\ Rules.cache # <<>> /\ Rules.cache[1] \in DOMAIN world.caches
                 /\ world.caches[Rules.cache[1]].sound
    <3>1. pc' = "done" /\ exit' = <<64>> /\ cache' = cache
      BY <1>1, <2>3 DEF ReadCache, Exit
    <3> QED BY <1>1, <2>3, <3>1 DEF CacheSound
  <2> QED BY <2>1, <2>2, <2>3
<1>4. Placed'
  BY <1>1, <1>3 DEF AuditInv, Placed, Running, LockfileGates
<1>5. Fresh'
  BY <1>1, <1>3 DEF Fresh, Auditing
<1>6. Opened = {} /\ Opened' = {}
  BY <1>1, <1>3 DEF Opened
<1>7. CacheSound' = CacheSound /\ (\A n : Auditable(n)' = Auditable(n) /\ Lock(n)' = Lock(n))
  BY <1>1 DEF CacheSound, Auditable, Lock, Named
<1>8. AuditPlaced'
  BY <1>1, <1>3, <1>6, <1>7 DEF AuditInv, AuditPlaced
<1>9. AuditTold'
  BY <1>1 DEF AuditInv, AuditTold
<1>10. AskedInv'
  BY <1>6 DEF AskedInv
<1>11. LockfilesEarned'
  BY <1>1, <1>3, <1>7 DEF LockfilesEarned
<1> QED BY <1>2, <1>4, <1>5, <1>8, <1>9, <1>10, <1>11 DEF AuditInv

-----------------------------------------------------------------------------
(* It holds through the audit of a lockfile.                               *)

LEMMA OpenLockfileKeeps ==
    ASSUME AuditInv, OpenLockfile
    PROVE  AuditInv'
<1>1. /\ pc = "opening" /\ section # <<>> /\ exit = <<>> /\ Auditing
      /\ at <= Len(Rules.lockfiles) /\ at \in Nat \ {0}
      /\ Opened = 1 .. at - 1
      /\ UNCHANGED <<world, section, cache, at, passed, pending, scanned>>
  BY DEF OpenLockfile, AuditInv, Placed, AuditPlaced, Running, Auditing, Opened
<1>2. /\ Gate' = Gate /\ Rules' = Rules /\ Config' = Config
      /\ Auditing' = Auditing /\ CacheSound' = CacheSound
      /\ RowsOf(Gate, Rules)' = RowsOf(Gate, Rules)
      /\ \A n : /\ Auditable(n)' = Auditable(n) /\ Lock(n)' = Lock(n)
                /\ Entries(n)' = Entries(n) /\ Asked(n)' = Asked(n)
                /\ ReachedIn(n)' = ReachedIn(n)
  BY <1>1, StaticKept
<1>3. at \in DOMAIN Rules.lockfiles
  <2>1. IsSequence(Rules.lockfiles)
    BY <1>1, RulesTyped DEF AuditInv, Auditing, SectionFits
  <2> QED BY <1>1, <2>1 DEF IsSequence
<1>4. CASE ~Auditable(at) \/ Lock(at).holed
  <2>1. /\ pc' = "done" /\ UNCHANGED requests
        /\ exit' = IF Auditable(at) THEN <<1>> ELSE <<64>>
    BY <1>1, <1>4 DEF OpenLockfile, Exit, Auditable
  <2>2. Placed'
    BY <1>1, <1>2, <2>1 DEF AuditInv, Placed, Running
  <2>3. Loaded' /\ Fresh' /\ AuditPlaced' /\ AuditTold' /\ AskedInv'
    BY <1>1, <2>1, AuditKept
  <2>4. LockfilesEarned'
    BY <1>1, <1>2, <1>3, <1>4, <2>1 DEF LockfilesEarned
  <2> QED BY <2>2, <2>3, <2>4 DEF AuditInv
<1>5. CASE Auditable(at) /\ ~Lock(at).holed
  <2>1. /\ pc' = "asking" /\ exit' = exit
        /\ requests' = [n \in 1 .. at |->
                          IF n < at THEN requests[n]
                          ELSE [k \in Asked(n) |-> Waiting(Lock(n).entries[k].name)]]
    BY <1>1, <1>5 DEF OpenLockfile, Goto, Auditable
  <2>2. Placed'
    BY <1>1, <1>2, <2>1 DEF AuditInv, Placed, Running, Auditing
  <2>3. Loaded'
    BY <1>1, <1>2 DEF AuditInv, Loaded, Declares
  <2>4. Fresh'
    BY <1>1, <1>2, <2>1 DEF Fresh, Auditing
  <2>5. Opened' = 1 .. at
    BY <1>1, <2>1 DEF Opened
  <2>6. AuditPlaced'
    <3>1. \A n \in 1 .. at : Auditable(n)' /\ ~Lock(n)'.holed
      <4>1. \A n \in 1 .. at - 1 : Auditable(n) /\ ~Lock(n).holed
        BY <1>1 DEF AuditInv, AuditPlaced
      <4>2. \A n \in 1 .. at : n \in 1 .. at - 1 \/ n = at
        BY <1>1
      <4> QED BY <1>2, <1>5, <4>1, <4>2
    <3>2. DOMAIN requests' = 1 .. at /\ requests' = [n \in 1 .. at |-> requests'[n]]
      BY <2>1
    <3> QED BY <1>1, <1>2, <2>1, <2>5, <3>1, <3>2 DEF AuditInv, AuditPlaced
  <2>7. \A n \in 1 .. at - 1 : requests'[n] = requests[n]
    BY <1>1, <2>1
  <2>8. \A n \in 1 .. at - 1 : AllVouched(n)' = AllVouched(n) /\ RequestsFit(n)' = RequestsFit(n)
    BY <1>1, <2>7, RequestsKept
  <2>9. AuditTold'
    BY <1>1, <1>2, <2>8 DEF AuditInv, AuditTold
  <2>10. RequestsFit(at)'
    <3>1. requests'[at] = [k \in Asked(at) |-> Waiting(Lock(at).entries[k].name)]
      BY <1>1, <2>1
    <3>2. InState(at, "active")' = {}
      BY <1>1, <3>1 DEF InState, Waiting
    <3>3. \A k \in Asked(at) : requests'[at][k] \in RequestOf(at, k) /\ requests'[at][k].state = "waiting"
      BY <3>1, GatesAssumption DEF Waiting, RequestOf, States
    <3>4. IsFiniteSet({}) /\ Cardinality({}) = 0
      BY FS_EmptySet
    <3>5. requests[at]' = [k \in Asked(at)' |-> requests[at][k]']
      BY <1>1, <1>2, <3>1
    <3>6. \A k \in Asked(at)' :
            /\ requests[at][k]' \in RequestOf(at, k)'
            /\ requests[at][k].state' # "answered"
      BY <1>1, <1>2, <3>3 DEF RequestOf
    <3>7. IsFiniteSet(InState(at, "active")') /\ Cardinality(InState(at, "active")') <= Concurrency
      BY <3>2, <3>4, GatesAssumption
    <3> QED BY <3>5, <3>6, <3>7 DEF RequestsFit
  <2>11. AskedInv'
    <3>1. \A n \in 1 .. at : n \in 1 .. at - 1 \/ n = at
      BY <1>1
    <3>2. \A n \in 1 .. at - 1 : RequestsFit(n)
      BY <1>1 DEF AuditInv, AskedInv
    <3> QED BY <1>1, <2>5, <2>8, <2>10, <3>1, <3>2 DEF AskedInv
  <2>12. LockfilesEarned'
    BY <1>1, <2>1 DEF LockfilesEarned
  <2> QED BY <2>2, <2>3, <2>4, <2>6, <2>9, <2>11, <2>12 DEF AuditInv
<1> QED BY <1>4, <1>5

(* One request moves, and a place is free for it where it begins.          *)
LEMMA RequestMoves ==
    ASSUME AuditInv, pc = "asking", NEW k \in Asked(at), NEW request \in RequestOf(at, k),
           Update(k, request),
           request.state = "answered" => request.times \in Replies,
           \/ request.state # "active"
           \/ requests[at][k].state = "active"
           \/ Cardinality(InState(at, "active")) < Concurrency
    PROVE  AuditInv'
<1>1. /\ section # <<>> /\ exit = <<>> /\ Auditing /\ Auditing' /\ at \in Nat \ {0}
      /\ Opened = 1 .. at /\ Opened' = 1 .. at
      /\ UNCHANGED <<world, pc, section, cache, at, passed, pending, scanned, exit>>
  BY DEF Update, AuditInv, Placed, AuditPlaced, Running, Auditing, Opened, Gate
<1>2. /\ Gate' = Gate /\ Rules' = Rules /\ Config' = Config /\ CacheSound' = CacheSound
      /\ RowsOf(Gate, Rules)' = RowsOf(Gate, Rules)
      /\ \A n : /\ Auditable(n)' = Auditable(n) /\ Lock(n)' = Lock(n)
                /\ Asked(n)' = Asked(n) /\ ReachedIn(n)' = ReachedIn(n)
  BY <1>1, StaticKept
<1>3. RequestsFit(at) /\ requests = [n \in 1 .. at |-> requests[n]]
  BY <1>1 DEF AuditInv, AskedInv, AuditPlaced
<1>4. /\ requests' = [n \in 1 .. at |-> requests'[n]]
      /\ requests'[at] = [requests[at] EXCEPT ![k] = request]
      /\ \A n \in 1 .. at - 1 : requests'[n] = requests[n]
  <2>1. requests' = [requests EXCEPT ![at] = [requests[at] EXCEPT ![k] = request]]
    BY DEF Update
  <2>2. DOMAIN requests = 1 .. at /\ at \in 1 .. at
    BY <1>1, <1>3
  <2>3. DOMAIN requests' = 1 .. at /\ requests' = [n \in 1 .. at |-> requests'[n]]
    BY <2>1, <2>2
  <2>4. \A n \in 1 .. at - 1 : n \in 1 .. at /\ n # at
    BY <1>1
  <2> QED BY <2>1, <2>2, <2>3, <2>4
<1>5. \A n \in 1 .. at - 1 : AllVouched(n)' = AllVouched(n) /\ RequestsFit(n)' = RequestsFit(n)
  BY <1>1, <1>4, RequestsKept
<1>6. Placed'
  BY <1>1, <1>2 DEF AuditInv, Placed
<1>7. Loaded'
  BY <1>1, <1>2 DEF AuditInv, Loaded, Declares
<1>8. Fresh'
  BY <1>1 DEF Fresh, Auditing
<1>9. AuditPlaced'
  <2>1. DOMAIN requests' = 1 .. at
    BY <1>4
  <2> QED BY <1>1, <1>2, <1>4, <2>1 DEF AuditInv, AuditPlaced
<1>10. AuditTold'
  BY <1>1, <1>2, <1>5 DEF AuditInv, AuditTold
<1>11. RequestsFit(at)'
  <2>1. requests[at] = [j \in Asked(at) |-> requests[at][j]]
    BY <1>3 DEF RequestsFit
  <2>2. /\ requests'[at] = [j \in Asked(at) |-> requests'[at][j]]
        /\ requests'[at][k] = request
        /\ \A j \in Asked(at) \ {k} : requests'[at][j] = requests[at][j]
    BY <1>4, <2>1
  <2>3. \A j \in Asked(at)' :
          /\ requests[at][j]' \in RequestOf(at, j)'
          /\ (requests[at][j].state = "answered" => requests[at][j].times \in Replies)'
    <3> SUFFICES ASSUME NEW j \in Asked(at)
                 PROVE  /\ requests'[at][j] \in RequestOf(at, j)
                        /\ requests'[at][j].state = "answered" => requests'[at][j].times \in Replies
      BY <1>1, <1>2 DEF RequestOf
    <3> QED BY <1>3, <2>2 DEF RequestsFit
  <2>4. IsFiniteSet(InState(at, "active")') /\ Cardinality(InState(at, "active")') <= Concurrency
    <3> DEFINE active == InState(at, "active")
    <3>1. active = {j \in Asked(at) : requests[at][j].state = "active"}
      BY <2>1 DEF InState
    <3>2. active' = {j \in Asked(at) : requests'[at][j].state = "active"}
      BY <1>1, <2>2 DEF InState
    <3>3. IsFiniteSet(active) /\ Cardinality(active) <= Concurrency /\ Cardinality(active) \in Nat
      BY <1>3, FS_CardinalityType DEF RequestsFit
    <3>4. CASE request.state # "active" \/ requests[at][k].state = "active"
      <4>1. active' \subseteq active
        BY <2>2, <3>1, <3>2, <3>4
      <4>2. IsFiniteSet(active') /\ Cardinality(active') <= Cardinality(active)
        BY <3>3, <4>1, FS_Subset
      <4>3. Cardinality(active') \in Nat
        BY <4>2, FS_CardinalityType
      <4> QED BY <3>3, <4>2, <4>3, GatesAssumption
    <3>5. CASE request.state = "active" /\ requests[at][k].state # "active"
      <4>1. active' = active \cup {k} /\ k \notin active
        BY <2>2, <3>1, <3>2, <3>5
      <4>2. Cardinality(active) < Concurrency
        BY <3>5
      <4>3. IsFiniteSet(active') /\ Cardinality(active') = Cardinality(active) + 1
        BY <3>3, <4>1, FS_AddElement
      <4> QED BY <3>3, <4>2, <4>3, GatesAssumption
    <3> QED BY <3>4, <3>5
  <2>5. requests[at]' = [j \in Asked(at)' |-> requests[at][j]']
    BY <1>1, <1>2, <2>2
  <2> QED BY <2>3, <2>4, <2>5 DEF RequestsFit
<1>12. AskedInv'
  <2>1. \A n \in 1 .. at : n \in 1 .. at - 1 \/ n = at
    BY <1>1
  <2>2. \A n \in 1 .. at - 1 : RequestsFit(n)
    BY <1>1 DEF AuditInv, AskedInv
  <2> QED BY <1>1, <1>5, <1>11, <2>1, <2>2 DEF AskedInv
<1>13. LockfilesEarned'
  BY <1>1 DEF LockfilesEarned
<1> QED BY <1>6, <1>7, <1>8, <1>9, <1>10, <1>12, <1>13 DEF AuditInv

(* What a request in some state of the open lockfile is.                   *)
LEMMA RequestThere ==
    ASSUME AuditInv, pc = "asking", NEW state, NEW k \in InState(at, state)
    PROVE  /\ k \in Asked(at) /\ requests[at][k] \in RequestOf(at, k)
           /\ requests[at][k].state = state
<1>1. Auditing /\ Opened = 1 .. at /\ at \in Nat \ {0}
  BY DEF AuditInv, Placed, AuditPlaced, Running, Auditing, Opened
<1>2. RequestsFit(at)
  BY <1>1 DEF AuditInv, AskedInv
<1> QED BY <1>2 DEF RequestsFit, InState

LEMMA AskKeeps ==
    ASSUME AuditInv, Ask
    PROVE  AuditInv'
<1>1. PICK k \in InState(at, "waiting") :
          Update(k, [requests[at][k] EXCEPT !.state = "active", !.tries = 1])
  BY DEF Ask
<1>2. pc = "asking" /\ Cardinality(InState(at, "active")) < Concurrency
  BY DEF Ask
<1>3. k \in Asked(at) /\ requests[at][k] \in RequestOf(at, k)
  BY <1>2, RequestThere
<1> DEFINE request == [requests[at][k] EXCEPT !.state = "active", !.tries = 1]
<1>4. request \in RequestOf(at, k) /\ request.state = "active"
  <2>1. 1 \in 0 .. MaxRetries
    BY GatesAssumption
  <2> QED BY <1>3, <2>1 DEF RequestOf, States
<1> QED BY <1>1, <1>2, <1>3, <1>4, RequestMoves

LEMMA AnswerArrivesKeeps ==
    ASSUME AuditInv, AnswerArrives
    PROVE  AuditInv'
<1>1. PICK k \in InState(at, "active"), times \in Replies :
          Update(k, [requests[at][k] EXCEPT !.state = "answered", !.times = times])
  BY DEF AnswerArrives
<1>2. pc = "asking"
  BY DEF AnswerArrives
<1>3. k \in Asked(at) /\ requests[at][k] \in RequestOf(at, k)
  BY <1>2, RequestThere
<1> DEFINE request == [requests[at][k] EXCEPT !.state = "answered", !.times = times]
<1>4. /\ request \in RequestOf(at, k)
      /\ request.state = "answered" /\ request.times \in Replies
  BY <1>3 DEF RequestOf, States
<1> QED BY <1>1, <1>2, <1>3, <1>4, RequestMoves

LEMMA TransientFailureKeeps ==
    ASSUME AuditInv, TransientFailure
    PROVE  AuditInv'
<1> DEFINE Later(k) == IF requests[at][k].tries < MaxRetries
                      THEN [requests[at][k] EXCEPT !.tries = @ + 1]
                      ELSE [requests[at][k] EXCEPT !.state = "failed"]
<1>1. PICK k \in InState(at, "active") : Update(k, Later(k))
  BY DEF TransientFailure
<1>2. pc = "asking"
  BY DEF TransientFailure
<1>3. /\ k \in Asked(at) /\ requests[at][k] \in RequestOf(at, k)
      /\ requests[at][k].state = "active"
  BY <1>2, RequestThere
<1>4. Later(k) \in RequestOf(at, k) /\ Later(k).state # "answered"
  BY <1>3, GatesAssumption DEF RequestOf, States
<1> HIDE DEF Later
<1> QED BY <1>1, <1>2, <1>3, <1>4, RequestMoves

LEMMA RequestRefusedKeeps ==
    ASSUME AuditInv, RequestRefused
    PROVE  AuditInv'
<1>1. PICK k \in InState(at, "active") :
          Update(k, [requests[at][k] EXCEPT !.state = "failed"])
  BY DEF RequestRefused
<1>2. pc = "asking"
  BY DEF RequestRefused
<1>3. k \in Asked(at) /\ requests[at][k] \in RequestOf(at, k)
  BY <1>2, RequestThere
<1> DEFINE request == [requests[at][k] EXCEPT !.state = "failed"]
<1>4. request \in RequestOf(at, k) /\ request.state = "failed"
  BY <1>3 DEF RequestOf, States
<1> QED BY <1>1, <1>2, <1>3, <1>4, RequestMoves

LEMMA CloseLockfileKeeps ==
    ASSUME AuditInv, CloseLockfile
    PROVE  AuditInv'
<1>1. /\ pc = "asking" /\ pc' = "opening" /\ section # <<>> /\ exit = <<>> /\ exit' = <<>>
      /\ Auditing /\ Auditing' /\ at \in Nat \ {0} /\ at' = at + 1
      /\ Opened = 1 .. at /\ Opened' = 1 .. at /\ at <= Len(Rules.lockfiles)
      /\ UNCHANGED <<world, section, cache, requests, scanned>>
  BY DEF CloseLockfile, Goto, AuditInv, Placed, AuditPlaced, Running, Auditing, Opened, Gate
<1>2. /\ Gate' = Gate /\ Rules' = Rules /\ Config' = Config /\ CacheSound' = CacheSound
      /\ RowsOf(Gate, Rules)' = RowsOf(Gate, Rules)
      /\ \A n : /\ Auditable(n)' = Auditable(n) /\ Lock(n)' = Lock(n)
                /\ ReachedIn(n)' = ReachedIn(n)
  BY <1>1, StaticKept
<1>3. \A n : AllVouched(n)' = AllVouched(n) /\ RequestsFit(n)' = RequestsFit(n)
  <2> SUFFICES ASSUME NEW n PROVE AllVouched(n)' = AllVouched(n) /\ RequestsFit(n)' = RequestsFit(n)
    OBVIOUS
  <2>1. requests'[n] = requests[n]
    BY <1>1
  <2> QED BY <1>1, <2>1, RequestsKept
<1>4. Placed'
  BY <1>1, <1>2 DEF AuditInv, Placed, Running
<1>5. Loaded'
  BY <1>1, <1>2 DEF AuditInv, Loaded, Declares
<1>6. Fresh'
  BY <1>1 DEF Fresh, Auditing
<1>7. Len(Rules.lockfiles) \in Nat
  BY <1>1, RulesTyped DEF AuditInv, Auditing, SectionFits, IsSequence
<1>8. AuditPlaced'
  BY <1>1, <1>2, <1>7 DEF AuditInv, AuditPlaced
<1>9. \A n \in 1 .. at : n \in 1 .. at - 1 \/ n = at
  BY <1>1
<1>10. AuditTold'
  <2>1. at' - 1 = at
    BY <1>1
  <2>2. AllVouched(at) <=> \A e \in Entries(at) : ~Breaks(at, e)
    <3>1. \A e : Breaks(at, e) <=> ~Vouched(at, e)
      BY <1>1, BreaksIsUnvouched
    <3> QED BY <3>1 DEF AllVouched
  <2>3. passed' = (passed /\ AllVouched(at)) /\ pending' = pending \ ReachedIn(at)
    BY <2>2 DEF CloseLockfile
  <2>4. AuditTold
    BY DEF AuditInv
  <2>5. passed' \in BOOLEAN /\ (passed' <=> \A n \in 1 .. at : AllVouched(n))
    <3>1. (\A n \in 1 .. at : AllVouched(n)) <=>
             (\A n \in 1 .. at - 1 : AllVouched(n)) /\ AllVouched(at)
      BY <1>1, <1>9
    <3>2. passed \in BOOLEAN /\ (passed <=> \A n \in 1 .. at - 1 : AllVouched(n))
      BY <1>1, <2>4 DEF AuditTold
    <3> QED BY <2>3, <3>1, <3>2, Zenon
  <2>6. pending' = {p \in RowsOf(Gate, Rules) : \A n \in 1 .. at : p \notin ReachedIn(n)}
    BY <1>1, <1>9, <2>3, <2>4 DEF AuditTold
  <2> QED BY <1>2, <1>3, <2>1, <2>5, <2>6 DEF AuditTold
<1>11. AskedInv'
  BY <1>1, <1>3 DEF AuditInv, AskedInv
<1>12. LockfilesEarned'
  BY <1>1 DEF LockfilesEarned
<1> QED BY <1>4, <1>5, <1>6, <1>8, <1>10, <1>11, <1>12 DEF AuditInv

-----------------------------------------------------------------------------
(* The exit.                                                               *)

(* When every lockfile is closed, no row is pending exactly when each      *)
(* holds something.                                                        *)
LEMMA PendingIsUnreached ==
    ASSUME AuditInv, pc = "opening", at > Len(Rules.lockfiles)
    PROVE  /\ \A n \in DOMAIN Rules.lockfiles : n \in Opened
           /\ Opened = 1 .. at - 1
           /\ pending = {} <=> AllReached
<1>1. /\ Auditing /\ Opened = 1 .. at - 1 /\ at \in Nat \ {0} /\ at <= Len(Rules.lockfiles) + 1
      /\ IsSequence(Rules.lockfiles)
  BY RulesTyped DEF AuditInv, Placed, AuditPlaced, Running, Auditing, Opened, SectionFits
<1>2. Opened = DOMAIN Rules.lockfiles
  BY <1>1 DEF IsSequence
<1>3. pending = {p \in RowsOf(Gate, Rules) : \A n \in Opened : p \notin ReachedIn(n)}
  BY <1>1 DEF AuditInv, AuditTold
<1>4. \A i, lockfile : <<i, lockfile>> \in RowsOf(Gate, Rules) <=>
         i \in DOMAIN Rules.rows /\ lockfile \in Range(Rules.rows[i].lockfiles)
  BY <1>1 DEF RowsOf, Auditing
<1>5. \A p \in RowsOf(Gate, Rules) : \E i, lockfile : p = <<i, lockfile>>
  BY <1>1 DEF RowsOf, Auditing
<1>6. \A i, lockfile, n : <<i, lockfile>> \in RowsOf(Gate, Rules) =>
         (<<i, lockfile>> \in ReachedIn(n) <=>
             Named(n) = lockfile /\ \E e \in Entries(n) : Reaches(i, e))
  BY <1>4 DEF ReachedIn, RowsFor
<1>7. AllReached <=>
         \A i, lockfile : <<i, lockfile>> \in RowsOf(Gate, Rules) =>
            \E n \in Opened : <<i, lockfile>> \in ReachedIn(n)
  <2> DEFINE There(i, lockfile, n) == Named(n) = lockfile /\ \E e \in Entries(n) : Reaches(i, e)
  <2>1. AllReached <=>
           \A i, lockfile : <<i, lockfile>> \in RowsOf(Gate, Rules) =>
              \E n \in Opened : There(i, lockfile, n)
    BY <1>2, <1>4 DEF AllReached
  <2>2. \A i, lockfile, n : <<i, lockfile>> \in RowsOf(Gate, Rules) =>
           (<<i, lockfile>> \in ReachedIn(n) <=> There(i, lockfile, n))
    BY <1>6
  <2> HIDE DEF There
  <2> QED BY <2>1, <2>2
<1>8. AllReached <=> \A p \in RowsOf(Gate, Rules) : \E n \in Opened : p \in ReachedIn(n)
  BY <1>5, <1>7
<1> QED BY <1>1, <1>2, <1>3, <1>8

LEMMA ReportKeeps ==
    ASSUME AuditInv, Report
    PROVE  AuditInv'
<1>1. /\ pc = "opening" /\ pc' = "done" /\ section # <<>> /\ Auditing
      /\ exit' = <<IF ~passed THEN 1 ELSE IF pending # {} THEN 64 ELSE 0>>
      /\ UNCHANGED <<world, section, cache, at, requests, passed, pending, scanned>>
  BY DEF Report, Exit, AuditInv, Placed, Running, Auditing
<1>2. /\ Gate' = Gate /\ Rules' = Rules /\ Auditing' /\ AllReached' = AllReached
      /\ CacheSound' = CacheSound
      /\ \A n : Auditable(n)' = Auditable(n) /\ Lock(n)' = Lock(n)
  BY <1>1, StaticKept
<1>3. Placed'
  BY <1>1, <1>2 DEF AuditInv, Placed, Running
<1>4. /\ Loaded' /\ Fresh' /\ AuditPlaced' /\ AuditTold' /\ AskedInv'
      /\ \A n \in Opened : AllVouched(n)' = AllVouched(n)
  BY <1>1, AuditKept
<1>5. /\ Opened = 1 .. at - 1 /\ (pending = {} <=> AllReached)
      /\ DOMAIN Rules.lockfiles = Opened
  <2>1. IsSequence(Rules.lockfiles)
    BY <1>1, RulesTyped DEF AuditInv, Auditing, SectionFits
  <2>2. at \in Nat \ {0} /\ at <= Len(Rules.lockfiles) + 1 /\ at > Len(Rules.lockfiles)
    BY <1>1 DEF Report, AuditInv, AuditPlaced
  <2>3. Opened = 1 .. at - 1 /\ (pending = {} <=> AllReached)
    BY <1>1, <2>2, PendingIsUnreached
  <2>4. DOMAIN Rules.lockfiles = 1 .. at - 1
    BY <2>1, <2>2 DEF IsSequence
  <2> QED BY <2>3, <2>4
<1>6. /\ passed \in BOOLEAN /\ (passed <=> \A n \in Opened : AllVouched(n))
      /\ \A n \in Opened : Auditable(n) /\ ~Lock(n).holed
  BY <1>1, <1>5 DEF AuditInv, AuditTold, AuditPlaced
<1>7. at \in Nat /\ \A n \in Opened : n < at'
  BY <1>1, <1>5 DEF AuditInv, AuditPlaced
<1>8. LockfilesEarned'
  <2>1. CASE ~passed
    <3>1. exit' = <<1>> /\ \E n \in Opened : ~AllVouched(n)
      BY <1>1, <1>6, <2>1
    <3> QED BY <1>2, <1>4, <1>5, <1>6, <1>7, <3>1 DEF LockfilesEarned
  <2>2. CASE passed /\ ~AllReached
    <3>1. exit' = <<64>> /\ \A n \in Opened : AllVouched(n)
      BY <1>1, <1>5, <1>6, <2>2
    <3> QED BY <1>2, <1>4, <1>5, <2>2, <3>1 DEF LockfilesEarned
  <2>3. CASE passed /\ AllReached
    <3>1. exit' = <<0>> /\ \A n \in Opened : AllVouched(n)
      BY <1>1, <1>5, <1>6, <2>3
    <3> QED BY <1>2, <1>4, <1>5, <1>6, <2>3, <3>1 DEF LockfilesEarned
  <2> QED BY <2>1, <2>2, <2>3
<1> QED BY <1>3, <1>4, <1>8 DEF AuditInv

(* A gate over a tree touches nothing of an audit.                         *)
LEMMA TreeKeeps ==
    ASSUME AuditInv, LoadScanner \/ WalkPath \/ Judge
    PROVE  AuditInv'
<1>1. /\ pc \in {"probing", "walking"} /\ section # <<>> /\ exit = <<>> /\ Gate \notin LockfileGates
      /\ UNCHANGED <<world, section, cache, requests, passed, pending>>
      /\ (pc' = "walking" /\ exit' = <<>>) \/ (pc' = "done" /\ exit' # <<>>)
  BY DEF LoadScanner, WalkPath, Judge, Exit, Goto, AuditInv, Placed, Running
<1>2. Gate' = Gate /\ Rules' = Rules /\ Config' = Config /\ ~Auditing'
  BY <1>1 DEF Gate, Rules, Config, Auditing
<1>3. Placed'
  BY <1>1, <1>2 DEF AuditInv, Placed, Running
<1>4. Loaded' /\ Fresh'
  BY <1>1, <1>2 DEF AuditInv, Loaded, Declares, Fresh
<1>5. AuditPlaced' /\ AuditTold' /\ AskedInv'
  BY <1>2 DEF AuditPlaced, AuditTold, AskedInv
<1>6. LockfilesEarned'
  BY <1>1, <1>2 DEF LockfilesEarned
<1> QED BY <1>3, <1>4, <1>5, <1>6 DEF AuditInv

LEMMA StutterKeeps ==
    ASSUME AuditInv, UNCHANGED gateVars
    PROVE  AuditInv'
<1>1. UNCHANGED <<world, pc, section, cache, at, requests, passed, pending, scanned, exit>>
  BY DEF gateVars
<1>2. /\ Gate' = Gate /\ Rules' = Rules /\ Opened' = Opened /\ AllReached' = AllReached
      /\ CacheSound' = CacheSound
      /\ \A n : Auditable(n)' = Auditable(n) /\ Lock(n)' = Lock(n)
  BY <1>1, StaticKept DEF Opened
<1>3. \A n : AllVouched(n)' = AllVouched(n)
  <2> SUFFICES ASSUME NEW n PROVE AllVouched(n)' = AllVouched(n)
    OBVIOUS
  <2>1. requests'[n] = requests[n]
    BY <1>1
  <2> QED BY <1>1, <2>1, RequestsKept
<1>4. Placed'
  BY <1>1, <1>2 DEF AuditInv, Placed
<1>5. Loaded' /\ Fresh' /\ AuditPlaced' /\ AuditTold' /\ AskedInv'
  BY <1>1, AuditKept
<1>6. LockfilesEarned'
  BY <1>1, <1>2, <1>3 DEF AuditInv, LockfilesEarned
<1> QED BY <1>4, <1>5, <1>6 DEF AuditInv

-----------------------------------------------------------------------------
(* Every run of a gate keeps its place: what it asked for, what it opened, *)
(* what the closed lockfiles came to and, when it has ended, why it exits  *)
(* as it does.                                                             *)
THEOREM AuditInvariant == GatesSpec => []AuditInv
<1>1. GatesInit => AuditInv
  BY InitHolds
<1>2. AuditInv /\ [GatesNext]_gateVars => AuditInv'
  <2> SUFFICES ASSUME AuditInv, [GatesNext]_gateVars PROVE AuditInv'
    OBVIOUS
  <2>1. CASE Parse BY <2>1, ParseKeeps
  <2>2. CASE LoadSection BY <2>2, LoadSectionKeeps
  <2>3. CASE ReadCache BY <2>3, ReadCacheKeeps
  <2>4. CASE OpenLockfile BY <2>4, OpenLockfileKeeps
  <2>5. CASE Ask BY <2>5, AskKeeps
  <2>6. CASE AnswerArrives BY <2>6, AnswerArrivesKeeps
  <2>7. CASE TransientFailure BY <2>7, TransientFailureKeeps
  <2>8. CASE RequestRefused BY <2>8, RequestRefusedKeeps
  <2>9. CASE CloseLockfile BY <2>9, CloseLockfileKeeps
  <2>10. CASE Report BY <2>10, ReportKeeps
  <2>11. CASE LoadScanner \/ WalkPath \/ Judge BY <2>11, TreeKeeps
  <2>12. CASE Ended \/ UNCHANGED gateVars BY <2>12, StutterKeeps DEF Ended
  <2> QED BY <2>1, <2>2, <2>3, <2>4, <2>5, <2>6, <2>7, <2>8, <2>9, <2>10, <2>11, <2>12
          DEF GatesNext
<1> QED BY <1>1, <1>2, PTL DEF GatesSpec

(* The registry is asked within its limits, once for each name that an     *)
(* audited version leaves open.                                            *)
LEMMA AuditInvAsksSparingly ==
    ASSUME AuditInv
    PROVE  AskedSparingly
<1> SUFFICES ASSUME section # <<>>, NEW n \in DOMAIN requests
             PROVE  /\ Cardinality(InState(n, "active")) <= Concurrency
                    /\ \A k \in DOMAIN requests[n] :
                          /\ requests[n][k].tries <= MaxRetries
                          /\ \A j \in DOMAIN requests[n] : requests[n][j].name = requests[n][k].name => j = k
                          /\ \E e \in Entries(n) :
                                /\ e.name = requests[n][k].name /\ <<e.name, e.version>> \notin DOMAIN cache
                                /\ ~\E row \in Range(Rules.rows) :
                                       row.key = e.name /\ Named(n) \in Range(row.lockfiles)
  BY DEF AskedSparingly
<1>1. Auditing
  <2>1. requests # <<>>
    OBVIOUS
  <2> QED BY <2>1 DEF AuditInv, Fresh, Auditing
<1>2. n \in Opened /\ RequestsFit(n)
  BY <1>1 DEF AuditInv, AuditPlaced, AskedInv
<1>3. DOMAIN requests[n] = Asked(n)
  BY <1>2 DEF RequestsFit
<1>4. IsSequence(Lock(n).entries)
  <2>1. Named(n) \in DOMAIN world.locks
    BY <1>1, <1>2 DEF AuditInv, AuditPlaced, Auditable
  <2>2. LocksFit(world)
    BY RulesTyped DEF AuditInv
  <2> QED BY <2>1, <2>2 DEF LocksFit, Lock
<1>5. SUFFICES ASSUME NEW k \in Asked(n)
               PROVE  /\ requests[n][k].tries <= MaxRetries
                      /\ \A j \in Asked(n) : requests[n][j].name = requests[n][k].name => j = k
                      /\ \E e \in Entries(n) :
                            /\ e.name = requests[n][k].name /\ <<e.name, e.version>> \notin DOMAIN cache
                            /\ ~\E row \in Range(Rules.rows) :
                                   row.key = e.name /\ Named(n) \in Range(row.lockfiles)
  BY <1>2, <1>3 DEF RequestsFit
<1>6. \A j \in Asked(n) :
         requests[n][j].name = Lock(n).entries[j].name /\ requests[n][j].tries \in 0 .. MaxRetries
  BY <1>2 DEF RequestsFit, RequestOf
<1>7. requests[n][k].tries <= MaxRetries
  BY <1>6, GatesAssumption
<1>8. ASSUME NEW j \in Asked(n), requests[n][j].name = requests[n][k].name
      PROVE  j = k
  <2> DEFINE entries == Lock(n).entries
  <2>1. entries[j].name = entries[k].name
    BY <1>6, <1>8
  <2>2. j \in DOMAIN entries /\ k \in DOMAIN entries /\ j \in Nat \ {0} /\ k \in Nat \ {0}
    BY <1>4 DEF Asked, IsSequence
  <2>3. Open(n, entries[j]) /\ Open(n, entries[k])
    BY DEF Asked
  <2>4. ~(j < k) /\ ~(k < j)
    BY <2>1, <2>2, <2>3 DEF Asked
  <2> QED BY <2>2, <2>4
<1>9. \E e \in Entries(n) :
         /\ e.name = requests[n][k].name /\ <<e.name, e.version>> \notin DOMAIN cache
         /\ ~\E row \in Range(Rules.rows) : row.key = e.name /\ Named(n) \in Range(row.lockfiles)
  <2> DEFINE e == Lock(n).entries[k]
  <2>1. Open(n, e) /\ e.name = requests[n][k].name
    BY <1>6 DEF Asked
  <2>2. e \in Entries(n) /\ <<e.name, e.version>> \notin DOMAIN cache
    BY <2>1 DEF Open, Cached
  <2>3. ~\E row \in Range(Rules.rows) : row.key = e.name /\ Named(n) \in Range(row.lockfiles)
    BY <2>1 DEF Open, Excluded, RowsFor, Range
  <2> QED BY <2>1, <2>2, <2>3
<1> QED BY <1>7, <1>8, <1>9

(* The exit of a gate over lockfiles is earned by what they hold, and the  *)
(* registry was asked no more than it took.                                *)
THEOREM LockfilesAuditedHolds == GatesSpec => []LockfilesAudited
<1>1. AuditInv => LockfilesAudited
  BY AuditInvAsksSparingly DEF AuditInv, LockfilesAudited
<1> QED BY <1>1, AuditInvariant, PTL

-----------------------------------------------------------------------------
(* The walk of a tree: what was read is what the paths before this one     *)
(* hold, and a run that passes has walked them all.                        *)

Walking == section # <<>> /\ Gate \in TreeReaders

Verdict ==
    CASE Gate = "dependency-direction" -> DirectionExit
      [] Gate = "package-boundary" -> BoundaryExit
      [] OTHER -> OwnershipExit

Walked ==
    /\ section = <<>> => scanned = {}
    /\ Walking =>
          /\ at \in Nat \ {0} /\ at <= Len(Paths) + 1
          /\ \A n \in 1 .. at - 1 : Scan(n).fails = "no"
          /\ scanned = UNION {Scan(n).found : n \in 1 .. at - 1}
          /\ exit = <<Passed>> => at = Len(Paths) + 1 /\ Verdict = Passed

LEMMA PathsTyped ==
    ASSUME Placed, Declares(Config, Gate), Gate \in TreeReaders
    PROVE  LET rules == world.configs[Config][Gate]
               paths == IF Gate = "dependency-direction" THEN rules.roots ELSE rules.paths
           IN IsSequence(paths) /\ \A path \in Range(paths) : IsSequence(path.path)
BY SectionTyped DEF SectionFits, TreeReaders

LEMMA PathsAre ==
    ASSUME Placed, Loaded, Walking
    PROVE  /\ IsSequence(Paths) /\ Len(Paths) \in Nat /\ DOMAIN Paths = 1 .. Len(Paths)
           /\ \A n \in DOMAIN Paths : IsSequence(Paths[n].path)
<1>1. IsSequence(Paths) /\ \A path \in Range(Paths) : IsSequence(path.path)
  BY PathsTyped DEF Loaded, Walking, Paths, Rules
<1>2. Len(Paths) \in Nat /\ DOMAIN Paths = 1 .. Len(Paths)
  BY <1>1 DEF IsSequence
<1> QED BY <1>1, <1>2 DEF Range

LEMMA WalkKept ==
    ASSUME UNCHANGED <<world, section>>
    PROVE  /\ Walking' = Walking /\ Paths' = Paths /\ \A n : Scan(n)' = Scan(n)
           /\ scanned' = scanned => Verdict' = Verdict
<1>1. Gate' = Gate /\ Rules' = Rules
  BY DEF Gate, Rules
<1>2. Walking' = Walking /\ Paths' = Paths
  BY <1>1 DEF Walking, Paths
<1>3. \A n : Scan(n)' = Scan(n)
  BY <1>1, <1>2 DEF Scan
<1>4. ASSUME scanned' = scanned PROVE Verdict' = Verdict
  BY <1>1, <1>4 DEF Verdict, DirectionExit, BoundaryExit, OwnershipExit
<1> QED BY <1>2, <1>3, <1>4

LEMMA WalkPathKeeps ==
    ASSUME AuditInv, Walked, WalkPath
    PROVE  Walked'
<1>1. /\ pc = "walking" /\ section # <<>> /\ exit = <<>> /\ at <= Len(Paths)
      /\ UNCHANGED <<world, section>>
      /\ \/ /\ Scan(at).fails = "no" /\ scanned' = scanned \cup Scan(at).found
            /\ at' = at + 1 /\ exit' = <<>>
         \/ /\ exit' # <<0>> /\ UNCHANGED <<at, scanned>>
  BY DEF WalkPath, Goto, Exit, AuditInv, Placed, Running
<1>2. Walking' = Walking /\ Paths' = Paths /\ \A n : Scan(n)' = Scan(n)
  BY <1>1, WalkKept
<1> SUFFICES ASSUME Walking PROVE Walked'
  BY <1>1, <1>2 DEF Walked
<1>3. Len(Paths) \in Nat
  BY PathsAre DEF AuditInv
<1>4. CASE exit' # <<0>> /\ UNCHANGED <<at, scanned>>
  BY <1>1, <1>2, <1>4 DEF Walked
<1>5. CASE /\ Scan(at).fails = "no" /\ scanned' = scanned \cup Scan(at).found
           /\ at' = at + 1 /\ exit' = <<>>
  <2>1. at \in Nat \ {0} /\ at' - 1 = at /\ at' \in Nat \ {0} /\ at' <= Len(Paths) + 1
    BY <1>1, <1>3, <1>5 DEF Walked
  <2>2. \A n : n \in 1 .. at <=> n \in 1 .. at - 1 \/ n = at
    BY <2>1
  <2>3. \A n \in 1 .. at : Scan(n).fails = "no"
    BY <1>5, <2>2 DEF Walked
  <2>4. scanned = UNION {Scan(n).found : n \in 1 .. at - 1}
    BY DEF Walked
  <2>5. scanned' = UNION {Scan(n).found : n \in 1 .. at}
    BY <1>5, <2>2, <2>4
  <2> QED BY <1>1, <1>2, <1>5, <2>1, <2>3, <2>5 DEF Walked
<1> QED BY <1>1, <1>4, <1>5

LEMMA JudgeKeeps ==
    ASSUME AuditInv, Walked, Judge
    PROVE  Walked'
<1>1. /\ section # <<>> /\ at > Len(Paths) /\ exit' = <<Verdict>>
      /\ UNCHANGED <<world, section, at, scanned>>
  BY DEF Judge, Exit, AuditInv, Placed, Running, Verdict
<1>2. /\ Walking' = Walking /\ Paths' = Paths /\ Verdict' = Verdict
      /\ \A n : Scan(n)' = Scan(n)
  BY <1>1, WalkKept
<1>3. Walking => Len(Paths) \in Nat
  BY PathsAre DEF AuditInv
<1>4. Walking => at = Len(Paths) + 1
  BY <1>1, <1>3 DEF Walked
<1> QED BY <1>1, <1>2, <1>4 DEF Walked

(* A step that reads nothing of a tree.                                    *)
LEMMA WalkedKept ==
    ASSUME Walked, UNCHANGED <<world, section, at, scanned>>, exit' = exit \/ exit' # <<Passed>>
    PROVE  Walked'
<1>1. /\ Walking' = Walking /\ Paths' = Paths /\ Verdict' = Verdict
      /\ \A n : Scan(n)' = Scan(n)
  BY WalkKept
<1> QED BY <1>1 DEF Walked

(* A step outside a gate over a tree.                                      *)
LEMMA WalkedElsewhere ==
    ASSUME AuditInv, Walked, pc \in {"caching", "opening", "asking"}, UNCHANGED <<world, section>>
    PROVE  Walked'
<1>1. section # <<>> /\ ~Walking
  BY DEF AuditInv, Placed, Running, Walking, LockfileGates, TreeReaders
<1>2. Walking' = Walking
  BY WalkKept
<1> QED BY <1>1, <1>2 DEF Walked

LEMMA LoadSectionWalks ==
    ASSUME AuditInv, Walked, LoadSection
    PROVE  Walked'
<1>1. /\ section = <<>> /\ exit = <<>> /\ at = 1 /\ scanned = {}
      /\ UNCHANGED <<world, at, scanned>> /\ Gate' = Gate
  BY DEF LoadSection, AuditInv, Placed, Fresh, Running, Walked, Gate
<1>2. CASE Declares(Config, Gate) /\ Accepted(Gate, world.configs[Config][Gate])
  <2> DEFINE rules == world.configs[Config][Gate]
  <2>1. section' = <<rules>> /\ Rules' = rules /\ exit' = <<>>
    BY <1>1, <1>2 DEF LoadSection, Goto, Rules
  <2>2. Walking' => Len(Paths') \in Nat
    <3> SUFFICES ASSUME Gate \in TreeReaders PROVE Len(Paths') \in Nat
      BY <1>1 DEF Walking
    <3>1. IsSequence(IF Gate = "dependency-direction" THEN rules.roots ELSE rules.paths)
      BY <1>2, PathsTyped DEF AuditInv
    <3>2. IsSequence(Paths')
      BY <1>1, <2>1, <3>1 DEF Paths
    <3> QED BY <3>2 DEF IsSequence
  <2>3. 1 .. at' - 1 = {}
    BY <1>1
  <2>4. scanned' = UNION {Scan(n)'.found : n \in 1 .. at' - 1}
    BY <1>1, <2>3
  <2> QED BY <1>1, <2>1, <2>2, <2>3, <2>4 DEF Walked
<1>3. CASE ~(Declares(Config, Gate) /\ Accepted(Gate, world.configs[Config][Gate]))
  <2>1. section' = <<>>
    BY <1>1, <1>3 DEF LoadSection
  <2> QED BY <1>1, <2>1 DEF Walked, Walking
<1> QED BY <1>2, <1>3

LEMMA WalkInvariant == GatesSpec => []Walked
<1>1. GatesInit => Walked
  BY DEF GatesInit, Walked, Walking
<1>2. AuditInv /\ Walked /\ [GatesNext]_gateVars => Walked'
  <2> SUFFICES ASSUME AuditInv, Walked, [GatesNext]_gateVars PROVE Walked'
    OBVIOUS
  <2>1. CASE Parse
    <3>1. section = <<>> /\ section' = <<>> /\ scanned' = scanned
      BY <2>1 DEF Parse, AuditInv, Placed
    <3> QED BY <3>1 DEF Walked, Walking
  <2>2. CASE LoadSection BY <2>2, LoadSectionWalks
  <2>3. CASE ReadCache \/ OpenLockfile \/ CloseLockfile \/ Report
    BY <2>3, WalkedElsewhere DEF ReadCache, OpenLockfile, CloseLockfile, Report
  <2>4. CASE Ask \/ AnswerArrives \/ TransientFailure \/ RequestRefused
    BY <2>4, WalkedElsewhere DEF Ask, AnswerArrives, TransientFailure, RequestRefused, Update
  <2>5. CASE LoadScanner
    <3>1. UNCHANGED <<world, section, at, scanned>>
      BY <2>5 DEF LoadScanner
    <3>2. exit' = exit \/ exit' # <<Passed>>
      BY <2>5 DEF LoadScanner, Goto, Exit, Passed, UsageError
    <3> QED BY <3>1, <3>2, WalkedKept
  <2>6. CASE WalkPath BY <2>6, WalkPathKeeps
  <2>7. CASE Judge BY <2>7, JudgeKeeps
  <2>8. CASE Ended \/ UNCHANGED gateVars
    BY <2>8, WalkedKept DEF Ended, gateVars
  <2> QED BY <2>1, <2>2, <2>3, <2>4, <2>5, <2>6, <2>7, <2>8 DEF GatesNext
<1> QED BY <1>1, <1>2, AuditInvariant, PTL DEF GatesSpec

-----------------------------------------------------------------------------
(* A scan that does not fail has passed over nothing.                      *)

LEMMA NothingOutsideDirectories ==
    ASSUME NEW tree, TreeFits(tree), NEW dir, IsSequence(dir), dir \notin tree.dirs
    PROVE  \A deep : Inside(dir, tree.links, deep) = {} /\ Inside(dir, DOMAIN tree.files, deep) = {}
<1> SUFFICES ASSUME NEW path \in (DOMAIN tree.files) \cup tree.links, Above(dir, path)
             PROVE  FALSE
  BY DEF Inside
<1>1. IsSequence(path) /\ \A k \in 0 .. Len(path) - 1 : [i \in 1 .. k |-> path[i]] \in tree.dirs
  BY DEF TreeFits
<1>2. Len(dir) \in Nat /\ dir = [i \in 1 .. Len(dir) |-> dir[i]]
  BY DEF IsSequence
<1>3. Len(path) \in Nat /\ Len(dir) < Len(path) /\ \A i \in 1 .. Len(dir) : path[i] = dir[i]
  BY <1>1, <1>2 DEF Above, IsSequence
<1>4. [i \in 1 .. Len(dir) |-> path[i]] \in tree.dirs
  <2>1. Len(dir) \in 0 .. Len(path) - 1
    BY <1>2, <1>3
  <2> QED BY <1>1, <2>1
<1>5. [i \in 1 .. Len(dir) |-> path[i]] = [i \in 1 .. Len(dir) |-> dir[i]]
  BY <1>3
<1> QED BY <1>2, <1>4, <1>5

LEMMA ScanIsWhole ==
    ASSUME Placed, Loaded, Walking, NEW n \in DOMAIN Paths, Scan(n).fails = "no"
    PROVE  /\ Paths[n].path \in world.tree.links => Gate = "dependency-direction"
           /\ Inside(Paths[n].path, world.tree.links, Deep(n)) = {}
           /\ \A p \in Inside(Paths[n].path, DOMAIN world.tree.files, Deep(n)) :
                 Wanted(n, p) => p \in Scan(n).found
           /\ Gate = "dependency-direction" \/ ~Paths[n].optional => Scan(n).found # {}
           /\ \A p \in Scan(n).found :
                 p \in DOMAIN world.tree.files /\ AtOrBelow(Paths[n].path, p)
<1> DEFINE tree == world.tree
           path == Paths[n].path
<1>1. TreeFits(tree) /\ IsSequence(path)
  BY RulesTyped, PathsAre DEF Walking
<1>2. CASE Gate = "dependency-direction"
  <2> DEFINE found == {p \in Inside(path, DOMAIN tree.files, TRUE) :
                         tree.files[p].ext \in Range(Paths[n].extensions)}
  <2>1. ~Obstructed(tree, path, TRUE) /\ found # {} /\ Scan(n).found = found
    BY <1>2 DEF Scan, SourceRoot, Failed, Read
  <2>2. Inside(path, tree.links, Deep(n)) = {}
    BY <1>2, <2>1 DEF Obstructed, Deep, Inside
  <2>3. \A p \in Inside(path, DOMAIN tree.files, Deep(n)) : Wanted(n, p) => p \in found
    BY <1>2 DEF Deep, Wanted, Inside
  <2>4. \A p \in found : p \in DOMAIN tree.files /\ AtOrBelow(path, p)
    BY DEF Inside, AtOrBelow
  <2> QED BY <1>2, <2>1, <2>2, <2>3, <2>4
<1>3. CASE Gate # "dependency-direction"
  <2> DEFINE declared == Paths[n]
             found == {p \in Inside(path, DOMAIN tree.files, declared.recursive) :
                         \/ declared.extensions = {}
                         \/ tree.files[p].ext \in declared.extensions}
  <2>1. Scan(n) = DeclaredPath(tree, declared) /\ (Deep(n) <=> declared.recursive)
    BY <1>3 DEF Scan, Deep
  <2>2. path \notin tree.links
    BY <2>1 DEF DeclaredPath, Failed
  <2>3. path \notin tree.dirs =>
           Inside(path, tree.links, Deep(n)) = {} /\ Inside(path, DOMAIN tree.files, Deep(n)) = {}
    BY <1>1, NothingOutsideDirectories
  <2>4. CASE path \in DOMAIN tree.files
    <3>1. path \notin tree.dirs
      BY <1>1, <2>4 DEF TreeFits
    <3>2. Scan(n).found = {path}
      BY <2>1, <2>2, <2>4, <3>1 DEF DeclaredPath, Failed, Read
    <3> QED BY <2>2, <2>3, <2>4, <3>1, <3>2 DEF AtOrBelow
  <2>5. CASE path \notin DOMAIN tree.files /\ path \in tree.dirs
    <3>1. /\ ~Obstructed(tree, path, declared.recursive)
          /\ ~declared.optional => found # {}
          /\ Scan(n).found = found
      BY <2>1, <2>2, <2>5 DEF DeclaredPath, Failed, Read
    <3>2. Inside(path, tree.links, Deep(n)) = {}
      BY <2>1, <3>1 DEF Obstructed, Inside
    <3>3. \A p \in Inside(path, DOMAIN tree.files, Deep(n)) : Wanted(n, p) => p \in found
      BY <1>3, <2>1 DEF Wanted, Inside
    <3>4. \A p \in found : p \in DOMAIN tree.files /\ AtOrBelow(path, p)
      BY DEF Inside, AtOrBelow
    <3> QED BY <1>3, <2>2, <3>1, <3>2, <3>3, <3>4
  <2>6. CASE path \notin DOMAIN tree.files /\ path \notin tree.dirs
    <3>1. declared.optional /\ Scan(n).found = {}
      BY <2>1, <2>2, <2>6 DEF DeclaredPath, Failed, Read
    <3> QED BY <1>3, <2>2, <2>3, <2>6, <3>1
  <2> QED BY <2>4, <2>5, <2>6
<1> QED BY <1>2, <1>3

(* What a run that passed had read.                                        *)
LEMMA PassedWalk ==
    ASSUME AuditInv, Walked, NEW gate \in TreeReaders, Witnessed(gate)
    PROVE  /\ Walking /\ Verdict = 0
           /\ \A n \in DOMAIN Paths : Scan(n).fails = "no" /\ Scan(n).found \subseteq scanned
           /\ \A path \in scanned : path \in DOMAIN world.tree.files
<1>1. Walking /\ exit = <<0>>
  BY DEF Witnessed, Walking
<1>2. Len(Paths) \in Nat /\ DOMAIN Paths = 1 .. Len(Paths)
  BY <1>1, PathsAre DEF AuditInv
<1>3. at = Len(Paths) + 1 /\ Verdict = 0
  BY <1>1 DEF Walked
<1>4. at - 1 = Len(Paths)
  BY <1>2, <1>3
<1>5. \A n \in DOMAIN Paths : Scan(n).fails = "no" /\ Scan(n).found \subseteq scanned
  BY <1>1, <1>2, <1>4 DEF Walked
<1>6. ASSUME NEW path \in scanned PROVE path \in DOMAIN world.tree.files
  <2>1. PICK n \in DOMAIN Paths : path \in Scan(n).found
    BY <1>1, <1>2, <1>4, <1>6 DEF Walked
  <2> QED BY <1>1, <1>5, <2>1, ScanIsWhole DEF AuditInv
<1> QED BY <1>1, <1>3, <1>5, <1>6

(* Whatever a section names was read whole before a gate over a tree       *)
(* passes: below it no link and no wanted file is passed over, and it is   *)
(* no link itself but for dependency-direction.                            *)
THEOREM TreesReadHolds == GatesSpec => []TreesRead
<1>1. AuditInv /\ Walked => TreesRead
  <2> SUFFICES ASSUME AuditInv, Walked, NEW gate \in TreeReaders, Witnessed(gate),
                      NEW n \in DOMAIN Paths
               PROVE  LET path == Paths[n].path IN
                      /\ path \in world.tree.links => gate = "dependency-direction"
                      /\ Inside(path, world.tree.links, Deep(n)) = {}
                      /\ \A p \in Inside(path, DOMAIN world.tree.files, Deep(n)) :
                            Wanted(n, p) => p \in scanned
                      /\ gate = "dependency-direction" \/ ~Paths[n].optional =>
                            \E p \in scanned : AtOrBelow(path, p)
    BY DEF TreesRead
  <2>1. Walking /\ gate = Gate /\ Scan(n).fails = "no" /\ Scan(n).found \subseteq scanned
    BY PassedWalk DEF Witnessed
  <2> QED BY <2>1, ScanIsWhole DEF AuditInv
<1> QED BY <1>1, AuditInvariant, WalkInvariant, PTL

(* When field-ownership passes, each writer was read and writes every      *)
(* field, and whatever else writes one is below a declared path.           *)
THEOREM OwnershipHeldHolds == GatesSpec => []OwnershipHeld
<1>1. AuditInv /\ Walked => OwnershipHeld
  <2> SUFFICES ASSUME AuditInv, Walked, Witnessed("field-ownership")
               PROVE  /\ \A path \in scanned : \A mark \in world.tree.files[path].marks :
                            mark.name \in Rules.fields /\ mark.as \in {"assigns", "mints"} =>
                                path \in Rules.declared \cup Rules.writers
                      /\ \A writer \in Rules.writers, field \in Rules.fields :
                            writer \in scanned /\ field \in Written(world.tree, writer)
    BY DEF OwnershipHeld
  <2>1. Verdict = 0 /\ Gate = "field-ownership"
    BY PassedWalk DEF Witnessed, TreeReaders
  <2>2. ~OwnershipBreaks(Rules, world.tree, scanned)
    BY <2>1 DEF Verdict, OwnershipExit
  <2>3. ASSUME NEW path \in scanned, NEW mark \in world.tree.files[path].marks,
               mark.name \in Rules.fields, mark.as \in {"assigns", "mints"}
        PROVE  path \in Rules.declared \cup Rules.writers
    <3>1. MarkBreaks(Rules, mark)
      BY <2>3 DEF MarkBreaks
    <3> QED BY <2>2, <3>1 DEF OwnershipBreaks, Permitted
  <2>4. \A writer \in Rules.writers, field \in Rules.fields :
           writer \in scanned /\ field \in Written(world.tree, writer)
    BY <2>2 DEF OwnershipBreaks
  <2> QED BY <2>3, <2>4
<1> QED BY <1>1, AuditInvariant, WalkInvariant, PTL

-----------------------------------------------------------------------------
(* dependency-direction: the first row that matches is the narrowest.      *)

LEMMA LeastOf ==
    ASSUME NEW T \in SUBSET Nat, T # {}
    PROVE  Min(T) \in T /\ \A j \in T : Min(T) <= j
<1> DEFINE R == OpToRel(<, Nat)
<1>1. \A x, y \in Nat : <<x, y>> \in R <=> x < y
  BY DEF OpToRel
<1>2. IsWellFoundedOn(R, Nat)
  BY NatLessThanWellFounded
<1> HIDE DEF R
<1>3. PICK x \in T : \A y \in T : ~ (<<y, x>> \in R)
  BY <1>2, WFMin
<1>4. \A y \in T : ~(y < x)
  BY <1>1, <1>3
<1>5. \A y \in T : x <= y
  BY <1>4
<1> QED BY <1>5 DEF Min

LayersFit(layers) ==
    /\ IsSequence(layers)
    /\ \A layer \in Range(layers) : IsSequence(layer.path) /\ layer.match \in {"exact", "prefix"}

(* When no earlier row swallows a later one, the first row that matches a  *)
(* path is at least as narrow as every other that does.                    *)
LEMMA FirstIsNarrowest ==
    ASSUME NEW layers, LayersFit(layers), NarrowerFirst(layers),
           NEW path, IsSequence(path), Matching(layers, path) # {}
    PROVE  Classify(layers, path) \in Narrowest(layers, path)
<1> DEFINE i == Classify(layers, path)
<1>1. Matching(layers, path) \in SUBSET Nat /\ DOMAIN layers = 1 .. Len(layers)
  BY DEF Matching, LayersFit, IsSequence
<1>2. i \in Matching(layers, path) /\ \A j \in Matching(layers, path) : i <= j
  BY <1>1, LeastOf DEF Classify
<1> HIDE DEF i
<1> SUFFICES ASSUME NEW j \in Matching(layers, path), j # i
             PROVE  Len(layers[j].path) <= Len(layers[i].path)
  <2>1. IsSequence(layers[i].path)
    BY <1>2 DEF Matching, LayersFit, Range
  <2>2. Len(layers[i].path) <= Len(layers[i].path)
    BY <2>1 DEF IsSequence
  <2> QED BY <1>2, <2>2 DEF Narrowest, i
<1> DEFINE p == layers[i].path
           q == layers[j].path
<1>3. /\ IsSequence(p) /\ IsSequence(q)
      /\ layers[i].match \in {"exact", "prefix"} /\ layers[j].match \in {"exact", "prefix"}
      /\ i \in DOMAIN layers /\ j \in DOMAIN layers
  BY <1>2 DEF Matching, LayersFit, Range
<1>4. /\ Len(p) \in Nat /\ DOMAIN p = 1 .. Len(p) /\ Len(q) \in Nat /\ DOMAIN q = 1 .. Len(q)
      /\ Len(path) \in Nat
  BY <1>3 DEF IsSequence
<1>5. i \in 1 .. j - 1
  BY <1>1, <1>2, <1>3
<1>6. ~Swallows(layers[i], layers[j])
  BY <1>3, <1>5 DEF NarrowerFirst
<1>7. Matches(layers[i], path) /\ Matches(layers[j], path)
  BY <1>2 DEF Matching
<1>8. CASE layers[i].match = "exact"
  <2>1. p = path /\ (q = path \/ Above(q, path))
    BY <1>7, <1>8 DEF Matches
  <2> QED BY <1>4, <2>1 DEF Above
<1>9. CASE layers[i].match = "prefix"
  <2>1. Above(p, path) /\ ~Above(p, q) /\ (q = path \/ Above(q, path))
    BY <1>6, <1>7, <1>9 DEF Matches, Swallows
  <2>2. q # path
    BY <2>1
  <2>3. Len(p) < Len(q) => Above(p, q)
    BY <1>4, <2>1, <2>2 DEF Above
  <2> QED BY <1>4, <2>1, <2>3
<1> QED BY <1>3, <1>8, <1>9

LEMMA DenotedIsScanned ==
    ASSUME NEW rules, NEW tree, NEW read, NEW from, NEW dep
    PROVE  Denoted(rules, tree, read, from, dep) \subseteq read
<1>1. \A stem : Spelt(rules, tree, read, stem) \subseteq read
  BY DEF Spelt
<1> QED BY <1>1 DEF Denoted

(* When dependency-direction passes, each dependency of each file is one   *)
(* that the narrowest row for the file allows.                             *)
THEOREM DirectionHeldHolds == GatesSpec => []DirectionHeld
<1>1. AuditInv /\ Walked => DirectionHeld
  <2> SUFFICES ASSUME AuditInv, Walked, Witnessed("dependency-direction"), ~Rules.reportOnly,
                      NEW path \in scanned
               PROVE  \E i \in Narrowest(Rules.layers, path) :
                         \A dep \in world.tree.files[path].deps : Held(path, i, dep)
    BY DEF DirectionHeld
  <2> DEFINE tree == world.tree
             layers == Rules.layers
             i == Classify(layers, path)
  <2>1. /\ Walking /\ Verdict = 0 /\ Gate = "dependency-direction"
        /\ \A p \in scanned : p \in DOMAIN tree.files
    BY PassedWalk DEF Witnessed, TreeReaders
  <2>2. \A p \in scanned : ~DirectionBreaks(Rules, tree, scanned, p)
    BY <2>1 DEF Verdict, DirectionExit
  <2>3. LayersFit(layers) /\ NarrowerFirst(layers)
    <3>1. SectionFits("dependency-direction", Rules)
      BY <2>1, RulesTyped DEF AuditInv, Walking
    <3>2. DirectionAccepted(Rules)
      BY <2>1 DEF AuditInv, Loaded, Walking, Accepted
    <3>3. LayersFit(layers)
      BY <3>1 DEF LayersFit, SectionFits
    <3>4. NarrowerFirst(layers)
      BY <3>2 DEF DirectionAccepted
    <3> QED BY <3>3, <3>4
  <2>4. \A p \in scanned : IsSequence(p)
    BY <2>1, RulesTyped DEF AuditInv, Walking, TreeFits
  <2>5. \A p \in scanned : Matching(layers, p) # {} /\ Classify(layers, p) \in Narrowest(layers, p)
    <3> SUFFICES ASSUME NEW p \in scanned
                 PROVE  Matching(layers, p) # {} /\ Classify(layers, p) \in Narrowest(layers, p)
      OBVIOUS
    <3>1. Matching(layers, p) # {}
      BY <2>2 DEF DirectionBreaks
    <3> QED BY <2>3, <2>4, <3>1, FirstIsNarrowest
  <2>7. DOMAIN Rules.exemptions \subseteq Nat
    BY <2>1, RulesTyped DEF AuditInv, Walking, SectionFits, IsSequence
  <2>6. ASSUME NEW dep \in tree.files[path].deps
        PROVE  Held(path, i, dep)
    <3> DEFINE layer == layers[i]
               inward == \E to \in Denoted(Rules, tree, scanned, path, dep) :
                            \E j \in Narrowest(layers, to) : layers[j].name \in layer.imports
               outward == \/ layer.policy = "unrestricted"
                          \/ layer.policy = "allow" /\ dep.module \in layer.modules
                          \/ \E x \in Range(Rules.exemptions) :
                                /\ x.file = path /\ x.module = dep.module
                                /\ dep.form = "import" /\ dep.binds = x.binding
    <3>1. ~DependencyBreaks(Rules, tree, scanned, path, dep)
      BY <2>2 DEF DirectionBreaks
    <3>2. ~RelativeBreaks(Rules, tree, scanned, path, dep) => inward
      <4> SUFFICES ASSUME ~RelativeBreaks(Rules, tree, scanned, path, dep) PROVE inward
        OBVIOUS
      <4> DEFINE to == Denoted(Rules, tree, scanned, path, dep)
      <4>1. to # {} /\ \A p \in to : layers[Classify(layers, p)].name \in layer.imports
        BY DEF RelativeBreaks
      <4>2. to \subseteq scanned
        BY DenotedIsScanned
      <4> HIDE DEF to
      <4>3. PICK p \in to : Classify(layers, p) \in Narrowest(layers, p)
        BY <2>5, <4>1, <4>2
      <4> QED BY <4>1, <4>3 DEF to
    <3>3. ~ExternalBreaks(Rules, path, dep) => outward
      <4> SUFFICES ASSUME ~ExternalBreaks(Rules, path, dep) PROVE outward
        OBVIOUS
      <4> DEFINE exempt == {k \in DOMAIN Rules.exemptions :
                              /\ Rules.exemptions[k].file = path
                              /\ Rules.exemptions[k].module = dep.module}
      <4>1. CASE exempt = {}
        BY <4>1 DEF ExternalBreaks
      <4>2. CASE exempt # {}
        <5>1. \/ layer.policy = "unrestricted"
              \/ dep.form = "import" /\ dep.binds = Rules.exemptions[Min(exempt)].binding
          BY <4>2 DEF ExternalBreaks
        <5>2. Min(exempt) \in exempt
          BY <2>7, <4>2, LeastOf
        <5> QED BY <5>1, <5>2 DEF Range
      <4> QED BY <4>1, <4>2
    <3> HIDE DEF inward, outward
    <3>4. CASE dep.form \in Statements
      <4>1. dep.form # "unreadable" /\ ~SpecifierBreaks(Rules, tree, scanned, path, dep)
        BY <3>1, <3>4 DEF DependencyBreaks, StatementBreaks, Statements, CommonJs
      <4>2. (dep.relative => inward) /\ (~dep.relative => outward)
        BY <3>2, <3>3, <4>1 DEF SpecifierBreaks
      <4> QED BY <3>4, <4>1, <4>2 DEF Held, Statements, inward, outward
    <3>5. CASE dep.form \in CommonJs
      <4>1. /\ dep.form # "computed"
            /\ dep.form = "require" => ~SpecifierBreaks(Rules, tree, scanned, path, dep)
        BY <3>1, <3>5 DEF DependencyBreaks, CommonJsBreaks, Statements, CommonJs
      <4>2. dep.form = "require" => (dep.relative => inward) /\ (~dep.relative => outward)
        BY <3>2, <3>3, <4>1 DEF SpecifierBreaks
      <4> QED BY <3>5, <4>1, <4>2 DEF Held, CommonJs, inward, outward
    <3>6. CASE dep.form \notin Statements \cup CommonJs
      <4>1. ~ReferenceBreaks(Rules, tree, scanned, path, dep)
        BY <3>1, <3>6 DEF DependencyBreaks
      <4>2. \/ dep.form = "path" /\ inward
            \/ dep.form = "types" /\ outward
            \/ dep.form = "library"
        BY <3>2, <3>3, <4>1 DEF ReferenceBreaks
      <4> QED BY <4>2 DEF Held, inward, outward
    <3> QED BY <3>4, <3>5, <3>6
  <2> QED BY <2>5, <2>6
<1> QED BY <1>1, AuditInvariant, WalkInvariant, PTL

-----------------------------------------------------------------------------
(* package-boundary: what a logical line joins.                            *)

(* g[i] is the first i parts, joined.                                      *)
Flattens(g, parts, n) ==
    g = [i \in 1 .. n |-> IF i = 1 THEN parts[i] ELSE g[i - 1] \o parts[i]]

(* There is such a g up to every place: there is no least one without.     *)
LEMMA FlattensExists ==
    ASSUME NEW parts, NEW n \in Nat
    PROVE  \E g : Flattens(g, parts, n)
<1> DEFINE T == {m \in Nat : ~\E g : Flattens(g, parts, m)}
<1> SUFFICES ASSUME T # {} PROVE FALSE
  OBVIOUS
<1>1. T \in SUBSET Nat
  OBVIOUS
<1>2. PICK m \in T : \A j \in T : m <= j
  BY <1>1, LeastOf
<1>3. CASE m = 0
  <2> DEFINE h == [i \in 1 .. 0 |-> parts[i]]
  <2>1. h = [i \in 1 .. 0 |-> IF i = 1 THEN parts[i] ELSE h[i - 1] \o parts[i]]
    OBVIOUS
  <2> HIDE DEF h
  <2>2. Flattens(h, parts, 0)
    BY <2>1 DEF Flattens
  <2> QED BY <1>2, <1>3, <2>2
<1>4. CASE m # 0
  <2>1. m \in Nat \ {0} /\ m - 1 \in Nat /\ ~(m <= m - 1)
    BY <1>2, <1>4
  <2>2. PICK g : Flattens(g, parts, m - 1)
    BY <1>2, <2>1
  <2>3. \A i \in 1 .. m - 1 : g[i] = IF i = 1 THEN parts[i] ELSE g[i - 1] \o parts[i]
    BY <2>2 DEF Flattens
  <2> DEFINE last == IF m = 1 THEN parts[m] ELSE g[m - 1] \o parts[m]
             h == [i \in 1 .. m |-> IF i = m THEN last ELSE g[i]]
  <2>4. \A i \in 1 .. m : h[i] = IF i = 1 THEN parts[i] ELSE h[i - 1] \o parts[i]
    <3> TAKE i \in 1 .. m
    <3>1. CASE i = m /\ m = 1
      BY <3>1
    <3>2. CASE i = m /\ m # 1
      <4>1. m - 1 \in 1 .. m /\ m - 1 # m
        BY <2>1, <3>2
      <4>2. h[m - 1] = g[m - 1] /\ h[m] = g[m - 1] \o parts[m]
        BY <2>1, <3>2, <4>1
      <4> HIDE DEF h
      <4> QED BY <3>2, <4>2
    <3>3. CASE i # m
      <4>1. i \in 1 .. m - 1 /\ h[i] = g[i]
        BY <2>1, <3>3
      <4>2. CASE i = 1
        BY <2>3, <4>1, <4>2
      <4>3. CASE i # 1
        <5>1. i - 1 \in 1 .. m /\ i - 1 # m
          BY <2>1, <4>1, <4>3
        <5>2. h[i - 1] = g[i - 1]
          BY <5>1
        <5> HIDE DEF h
        <5> QED BY <2>3, <4>1, <4>3, <5>2
      <4> QED BY <4>2, <4>3
    <3> QED BY <3>1, <3>2, <3>3
  <2>5. h = [i \in 1 .. m |-> IF i = 1 THEN parts[i] ELSE h[i - 1] \o parts[i]]
    <3>1. h = [i \in 1 .. m |-> h[i]]
      OBVIOUS
    <3> HIDE DEF h
    <3> QED BY <2>4, <3>1
  <2> HIDE DEF h
  <2>6. Flattens(h, parts, m)
    BY <2>5 DEF Flattens
  <2> QED BY <1>2, <2>6
<1> QED BY <1>3, <1>4

LEMMA FlattenSeqIs ==
    ASSUME NEW parts, NEW n \in Nat \ {0}, Len(parts) = n
    PROVE  \E g : Flattens(g, parts, n) /\ FlattenSeq(parts) = g[n]
<1> DEFINE f == CHOOSE g : Flattens(g, parts, n)
<1>1. Flattens(f, parts, n)
  BY FlattensExists
<1>2. FlattenSeq(parts) = f[n]
  BY DEF FlattenSeq, Flattens
<1> QED BY <1>1, <1>2

(* Each part stands in the whole as it is.                                 *)
StandsIn(part, text) ==
    \E off \in Nat :
        /\ off + Len(part) <= Len(text)
        /\ \A q \in 1 .. Len(part) : text[off + q] = part[q]

LEMMA PartStandsIn ==
    ASSUME NEW W, NEW n \in Nat \ {0}, NEW parts, Len(parts) = n,
           \A i \in 1 .. n : parts[i] \in Seq(W), NEW k \in 1 .. n
    PROVE  FlattenSeq(parts) \in Seq(W) /\ StandsIn(parts[k], FlattenSeq(parts))
<1>1. PICK g : Flattens(g, parts, n) /\ FlattenSeq(parts) = g[n]
  BY FlattenSeqIs
<1>2. \A i \in 1 .. n : g[i] = IF i = 1 THEN parts[i] ELSE g[i - 1] \o parts[i]
  BY <1>1 DEF Flattens
<1>3. \A i \in 1 .. n : g[i] \in Seq(W)
  <2> DEFINE T == {i \in 1 .. n : g[i] \notin Seq(W)}
  <2> SUFFICES ASSUME T # {} PROVE FALSE
    OBVIOUS
  <2>1. T \in SUBSET Nat
    OBVIOUS
  <2> HIDE DEF T
  <2>2. PICK i \in T : \A j \in T : i <= j
    BY <2>1, LeastOf
  <2>3. i \in 1 .. n /\ g[i] \notin Seq(W)
    BY <2>2 DEF T
  <2>4. i # 1
    BY <1>2, <2>3
  <2>5. i - 1 \in 1 .. n /\ ~(i <= i - 1)
    BY <2>3, <2>4
  <2>6. g[i - 1] \in Seq(W)
    BY <2>2, <2>5 DEF T
  <2>7. g[i] = g[i - 1] \o parts[i]
    BY <1>2, <2>3, <2>4
  <2> QED BY <2>3, <2>6, <2>7, ConcatProperties
<1>4. StandsIn(parts[k], g[k])
  <2>1. CASE k = 1
    <3>1. g[k] = parts[k] /\ Len(parts[k]) \in Nat
      BY <1>2, <2>1
    <3>2. 0 + Len(parts[k]) <= Len(g[k]) /\ \A q \in 1 .. Len(parts[k]) : g[k][0 + q] = parts[k][q]
      BY <3>1
    <3> QED BY <3>2 DEF StandsIn
  <2>2. CASE k # 1
    <3>1. k - 1 \in 1 .. n
      BY <2>2
    <3>2. g[k] = g[k - 1] \o parts[k]
      BY <1>2, <2>2
    <3>3. g[k - 1] \in Seq(W) /\ parts[k] \in Seq(W)
      BY <1>3, <3>1
    <3> DEFINE off == Len(g[k - 1])
    <3>4. off \in Nat /\ Len(parts[k]) \in Nat
      BY <3>3
    <3>5. Len(g[k]) = off + Len(parts[k])
      BY <3>2, <3>3, ConcatProperties
    <3>6. \A q \in 1 .. Len(parts[k]) : g[k][off + q] = parts[k][q]
      <4> TAKE q \in 1 .. Len(parts[k])
      <4>1. /\ off + q \in 1 .. off + Len(parts[k]) /\ ~(off + q <= off)
            /\ (off + q) - off = q
        BY <3>4
      <4> QED BY <3>2, <3>3, <4>1, ConcatProperties
    <3>7. off + Len(parts[k]) <= Len(g[k])
      BY <3>4, <3>5
    <3> HIDE DEF off
    <3> QED BY <3>4, <3>6, <3>7 DEF StandsIn
  <2> QED BY <2>1, <2>2
<1>5. \A i \in k .. n : StandsIn(parts[k], g[i])
  <2> DEFINE T == {i \in k .. n : ~StandsIn(parts[k], g[i])}
  <2> SUFFICES ASSUME T # {} PROVE FALSE
    OBVIOUS
  <2>1. T \in SUBSET Nat
    OBVIOUS
  <2> HIDE DEF T
  <2>2. PICK i \in T : \A j \in T : i <= j
    BY <2>1, LeastOf
  <2>3. i \in k .. n /\ ~StandsIn(parts[k], g[i])
    BY <2>2 DEF T
  <2>4. i # k
    BY <1>4, <2>3
  <2>5. i - 1 \in k .. n /\ ~(i <= i - 1) /\ i \in 1 .. n /\ i # 1 /\ i - 1 \in 1 .. n
    BY <2>3, <2>4
  <2>6. StandsIn(parts[k], g[i - 1])
    BY <2>2, <2>5 DEF T
  <2>7. PICK off \in Nat :
           /\ off + Len(parts[k]) <= Len(g[i - 1])
           /\ \A q \in 1 .. Len(parts[k]) : g[i - 1][off + q] = parts[k][q]
    BY <2>6 DEF StandsIn
  <2>8. g[i] = g[i - 1] \o parts[i] /\ g[i - 1] \in Seq(W) /\ parts[i] \in Seq(W) /\ parts[k] \in Seq(W)
    BY <1>2, <1>3, <2>5
  <2>9. /\ Len(g[i - 1]) \in Nat /\ Len(parts[i]) \in Nat /\ Len(parts[k]) \in Nat
        /\ Len(g[i]) = Len(g[i - 1]) + Len(parts[i])
    BY <2>8, ConcatProperties
  <2> DEFINE before == Len(g[i - 1])
             more == Len(parts[i])
             long == Len(parts[k])
  <2>10. /\ before \in Nat /\ more \in Nat /\ long \in Nat /\ off + long <= before
         /\ Len(g[i]) = before + more
    BY <2>7, <2>9
  <2> HIDE DEF before, more, long
  <2>11. off + long <= before + more /\ \A q \in 1 .. long : off + q \in 1 .. before + more /\ off + q <= before
    BY <2>10
  <2>12. off + Len(parts[k]) <= Len(g[i])
    BY <2>10, <2>11 DEF long
  <2>13. \A q \in 1 .. Len(parts[k]) : g[i][off + q] = parts[k][q]
    <3> TAKE q \in 1 .. Len(parts[k])
    <3>1. off + q \in 1 .. Len(g[i - 1]) + Len(parts[i]) /\ off + q <= Len(g[i - 1])
      BY <2>11 DEF before, more, long
    <3>2. g[i][off + q] = g[i - 1][off + q]
      BY <2>8, <3>1, ConcatProperties
    <3> QED BY <2>7, <3>2
  <2> QED BY <2>3, <2>12, <2>13 DEF StandsIn
<1> QED BY <1>1, <1>3, <1>5

(* What occurs in a part occurs in the whole.                              *)
LEMMA OccursInWhole ==
    ASSUME NEW W, NEW part \in Seq(W), NEW text \in Seq(W), StandsIn(part, text),
           NEW words, IsSequence(words), words # <<>>, Occurs(words, part)
    PROVE  Occurs(words, text) /\ text # <<>>
<1>1. PICK off \in Nat :
         /\ off + Len(part) <= Len(text)
         /\ \A q \in 1 .. Len(part) : text[off + q] = part[q]
  BY DEF StandsIn
<1>2. PICK i \in 0 .. Len(part) - Len(words) : words = SubSeq(part, i + 1, i + Len(words))
  BY DEF Occurs
<1>3. /\ Len(words) \in Nat \ {0} /\ Len(part) \in Nat /\ Len(text) \in Nat
      /\ i \in Nat /\ i + Len(words) <= Len(part)
  BY DEF IsSequence
<1> DEFINE n == Len(words)
           far == off + i
<1>4. n \in Nat \ {0} /\ far \in Nat /\ far + n <= Len(text)
  BY <1>1, <1>3
<1>5. SubSeq(text, far + 1, far + n) = SubSeq(part, i + 1, i + n)
  <2>1. \A j \in i + 1 .. i + n : j \in 1 .. Len(part) /\ part[j] \in W
    BY <1>3, <1>4
  <2>2. \A j \in far + 1 .. far + n : j \in 1 .. Len(text) /\ text[j] \in W
    BY <1>3, <1>4
  <2>3. /\ SubSeq(part, i + 1, i + n) \in Seq(W) /\ Len(SubSeq(part, i + 1, i + n)) = n
        /\ \A q \in 1 .. n : SubSeq(part, i + 1, i + n)[q] = part[i + q]
    <3>1. i + 1 \in Int /\ i + n \in Int /\ i + 1 <= i + n /\ (i + n) - (i + 1) + 1 = n
      BY <1>3, <1>4
    <3>2. \A q \in 1 .. n : (i + 1) + q - 1 = i + q
      BY <1>3, <1>4
    <3> HIDE DEF n
    <3> QED BY <2>1, <3>1, <3>2, SubSeqProperties
  <2>4. /\ SubSeq(text, far + 1, far + n) \in Seq(W) /\ Len(SubSeq(text, far + 1, far + n)) = n
        /\ \A q \in 1 .. n : SubSeq(text, far + 1, far + n)[q] = text[far + q]
    <3>1. far + 1 \in Int /\ far + n \in Int /\ far + 1 <= far + n /\ (far + n) - (far + 1) + 1 = n
      BY <1>3, <1>4
    <3>2. \A q \in 1 .. n : (far + 1) + q - 1 = far + q
      BY <1>3, <1>4
    <3> HIDE DEF n, far
    <3> QED BY <2>2, <3>1, <3>2, SubSeqProperties
  <2>5. \A q \in 1 .. n : text[far + q] = part[i + q]
    <3> TAKE q \in 1 .. n
    <3>1. i + q \in 1 .. Len(part) /\ far + q = off + (i + q)
      BY <1>3, <1>4
    <3> QED BY <1>1, <3>1
  <2> HIDE DEF n, far
  <2> QED BY <2>3, <2>4, <2>5, SeqEqual
<1>6. far \in 0 .. Len(text) - Len(words)
  BY <1>3, <1>4
<1>7. words = SubSeq(text, far + 1, far + Len(words))
  BY <1>2, <1>5
<1>8. Occurs(words, text)
  BY <1>6, <1>7 DEF Occurs
<1> QED BY <1>4, <1>8

LEMMA NothingOccursInNothing ==
    ASSUME NEW words, IsSequence(words), words # <<>>, Occurs(words, <<>>)
    PROVE  FALSE
<1>1. Len(words) \in Nat \ {0} /\ Len(<<>>) = 0
  BY DEF IsSequence
<1> QED BY <1>1 DEF Occurs

(* The lines of a file, and what it takes for one of its runs to break.    *)
LinesFit(lines) == IsSequence(lines) /\ \A line \in Range(lines) : IsSequence(line.words)

PartsOf(lines, run) ==
    [k \in 1 .. run[2] - run[1] + 1 |-> lines[run[1] + k - 1].words]

LEMMA RunBreaks ==
    ASSUME NEW rules, NEW lines, NEW run \in Runs(lines), NEW p \in Range(rules.patterns),
           FlattenSeq(PartsOf(lines, run)) # <<>>,
           \/ Occurs(p.words, FlattenSeq(PartsOf(lines, run)))
           \/ Occurs(p.words, FoldLeft(Abuts, <<>>, PartsOf(lines, run)))
    PROVE  BoundaryBreaks(rules, lines)
<1>1. LineBreaks(rules, PartsOf(lines, run))
  BY DEF LineBreaks
<1> QED BY <1>1 DEF BoundaryBreaks, PartsOf

(* Every line lies in a run.                                               *)
LEMMA RunAround ==
    ASSUME NEW lines, LinesFit(lines), NEW i \in DOMAIN lines
    PROVE  \E run \in Runs(lines) :
              run[1] \in Nat /\ run[2] \in Nat /\ run[1] <= i /\ i <= run[2]
<1> DEFINE n == Len(lines)
<1>1. n \in Nat /\ DOMAIN lines = 1 .. n /\ i \in 1 .. n
  BY DEF LinesFit, IsSequence
<1> HIDE DEF n
<1>2. CASE ~lines[i].comment
  <2>1. <<i, i>> \in Runs(lines)
    BY <1>1, <1>2 DEF Runs
  <2> QED BY <1>1, <2>1
<1>3. CASE lines[i].comment
  <2> DEFINE A == {x \in 1 .. i : \A k \in x .. i : lines[k].comment}
             B == {y \in i .. n : y + 1 \in 1 .. n => ~lines[y + 1].comment}
  <2>1. A \in SUBSET Nat /\ i \in A
    BY <1>1, <1>3
  <2>2. B \in SUBSET Nat /\ n \in B
    BY <1>1
  <2> DEFINE a == Min(A)
             b == Min(B)
  <2>3. a \in A /\ \A j \in A : a <= j
    <3> HIDE DEF A
    <3> QED BY <2>1, LeastOf
  <2>4. b \in B /\ \A j \in B : b <= j
    <3> HIDE DEF B
    <3> QED BY <2>2, LeastOf
  <2> HIDE DEF a, b
  <2>5. a \in 1 .. i /\ b \in i .. n /\ (b + 1 \in 1 .. n => ~lines[b + 1].comment)
    BY <2>3, <2>4
  <2>6. \A k \in a .. i : lines[k].comment
    BY <2>3
  <2>7. a - 1 \in 1 .. n => ~lines[a - 1].comment
    <3> SUFFICES ASSUME a - 1 \in 1 .. n, lines[a - 1].comment PROVE FALSE
      OBVIOUS
    <3>1. \A k \in a - 1 .. i : k = a - 1 \/ k \in a .. i
      BY <1>1, <2>5
    <3>2. a - 1 \in A
      BY <1>1, <2>5, <2>6, <3>1
    <3>3. ~(a <= a - 1)
      BY <1>1, <2>5
    <3> QED BY <2>3, <3>2, <3>3
  <2>8. \A k \in i .. b : lines[k].comment
    <3> SUFFICES ASSUME NEW k \in i .. b, ~lines[k].comment PROVE FALSE
      OBVIOUS
    <3>1. k # i
      BY <1>3
    <3>2. k - 1 \in i .. n /\ (k - 1) + 1 = k /\ ~(b <= k - 1)
      BY <1>1, <2>5, <3>1
    <3>3. k - 1 \in B
      BY <3>2
    <3> QED BY <2>4, <3>2, <3>3
  <2>9. /\ a \in 1 .. n /\ b \in 1 .. n /\ a <= b
        /\ \A k \in a .. b : k \in a .. i \/ k \in i .. b
    BY <1>1, <2>5
  <2>10. <<a, b>> \in Runs(lines)
    BY <1>1, <2>5, <2>6, <2>7, <2>8, <2>9 DEF Runs
  <2>11. a <= i /\ i <= b /\ a \in Nat /\ b \in Nat
    BY <1>1, <2>5
  <2> QED BY <2>10, <2>11
<1> QED BY <1>2, <1>3

LEMMA SingleLineBreaks ==
    ASSUME NEW rules, NEW lines, LinesFit(lines), NEW i \in DOMAIN lines,
           NEW p \in Range(rules.patterns), IsSequence(p.words), p.words # <<>>,
           Occurs(p.words, lines[i].words)
    PROVE  BoundaryBreaks(rules, lines)
<1>1. PICK run \in Runs(lines) : run[1] \in Nat /\ run[2] \in Nat /\ run[1] <= i /\ i <= run[2]
  BY RunAround
<1> DEFINE a == run[1]
           b == run[2]
           n == b - a + 1
           k == i - a + 1
           parts == PartsOf(lines, run)
           W == UNION {Range(lines[j].words) : j \in DOMAIN lines}
<1>2. DOMAIN lines = 1 .. Len(lines) /\ Len(lines) \in Nat /\ i \in Nat
  BY DEF LinesFit, IsSequence
<1>3. a \in DOMAIN lines /\ b \in DOMAIN lines /\ a <= i /\ i <= b
  BY <1>1 DEF Runs
<1>4. /\ n \in Nat \ {0} /\ k \in 1 .. n /\ a + k - 1 = i
      /\ \A j \in 1 .. n : a + j - 1 \in DOMAIN lines
  <2> HIDE DEF a, b
  <2> QED BY <1>2, <1>3
<1>5. \A j \in DOMAIN lines : lines[j].words \in Seq(W)
  <2> SUFFICES ASSUME NEW j \in DOMAIN lines PROVE lines[j].words \in Seq(W)
    OBVIOUS
  <2>1. IsSequence(lines[j].words)
    BY DEF LinesFit, Range
  <2>2. Range(lines[j].words) \subseteq W
    OBVIOUS
  <2> HIDE DEF W
  <2> QED BY <2>1, <2>2 DEF IsSequence
<1> HIDE DEF W
<1>6. parts = [j \in 1 .. n |-> lines[a + j - 1].words]
  BY DEF PartsOf
<1> HIDE DEF parts, n, k
<1>7. Len(parts) = n /\ (\A j \in 1 .. n : parts[j] \in Seq(W)) /\ parts[k] = lines[i].words
  BY <1>4, <1>5, <1>6
<1>8. FlattenSeq(parts) \in Seq(W) /\ StandsIn(parts[k], FlattenSeq(parts))
  BY <1>4, <1>7, PartStandsIn
<1>9. Occurs(p.words, FlattenSeq(parts)) /\ FlattenSeq(parts) # <<>>
  BY <1>5, <1>7, <1>8, OccursInWhole
<1> QED BY <1>9, RunBreaks DEF parts

(* Two lines, joined with nothing: there is a fold of the two.             *)
Abutting(g, parts, S) ==
    g = [s \in SUBSET S |-> IF s = {} THEN <<>> ELSE Abuts(g[s \ {Max(s)}], parts[Max(s)])]

LEMMA AbuttingTwo ==
    ASSUME NEW parts, DOMAIN parts = {1, 2}
    PROVE  FoldLeft(Abuts, <<>>, parts) = Abuts(Abuts(<<>>, parts[1]), parts[2])
<1> DEFINE S == {1, 2}
           one == Abuts(<<>>, parts[1])
           two == Abuts(<<>>, parts[2])
           both == Abuts(one, parts[2])
           h == [s \in SUBSET S |-> IF s = {} THEN <<>> ELSE IF s = {1} THEN one
                                     ELSE IF s = {2} THEN two ELSE both]
<1>1. Max({1}) = 1 /\ Max({2}) = 2 /\ Max({1, 2}) = 2
  BY DEF Max
<1>2. \A s \in SUBSET S : s = {} \/ s = {1} \/ s = {2} \/ s = {1, 2}
  OBVIOUS
<1>3. {1} \ {1} = {} /\ {2} \ {2} = {} /\ {1, 2} \ {2} = {1} /\ {1} # {2} /\ {1, 2} # {1} /\ {1, 2} # {2}
  OBVIOUS
<1>4. h[{}] = <<>> /\ h[{1}] = one /\ h[{2}] = two /\ h[{1, 2}] = both
  <2> HIDE DEF one, two, both
  <2> QED BY <1>3
<1>5. h = [s \in SUBSET S |-> h[s]]
  <2> HIDE DEF one, two, both
  <2> QED OBVIOUS
<1> HIDE DEF h, S
<1>6. \A s \in SUBSET S : h[s] = IF s = {} THEN <<>> ELSE Abuts(h[s \ {Max(s)}], parts[Max(s)])
  <2> SUFFICES ASSUME NEW s \in SUBSET S, s # {}
               PROVE  h[s] = Abuts(h[s \ {Max(s)}], parts[Max(s)])
    BY <1>4
  <2>1. CASE s = {1}
    BY <1>1, <1>3, <1>4, <2>1
  <2>2. CASE s = {2}
    BY <1>1, <1>3, <1>4, <2>2
  <2>3. CASE s = {1, 2}
    BY <1>1, <1>3, <1>4, <2>3
  <2> QED BY <1>2, <2>1, <2>2, <2>3
<1>7. Abutting(h, parts, S)
  BY <1>5, <1>6 DEF Abutting
<1> DEFINE f == CHOOSE g : Abutting(g, parts, S)
<1>8. Abutting(f, parts, S)
  BY <1>7
<1>9. FoldLeft(Abuts, <<>>, parts) = f[S]
  BY DEF FoldLeft, MapThenFoldSet, Abutting, S
<1> HIDE DEF f
<1>10. \A s \in SUBSET S : f[s] = IF s = {} THEN <<>> ELSE Abuts(f[s \ {Max(s)}], parts[Max(s)])
  BY <1>8 DEF Abutting
<1>11. {} \in SUBSET S /\ {1} \in SUBSET S /\ {1, 2} \in SUBSET S
  BY DEF S
<1>12. f[{}] = <<>>
  BY <1>10, <1>11
<1>13. f[{1}] = Abuts(f[{}], parts[1])
  <2>1. f[{1}] = Abuts(f[{1} \ {Max({1})}], parts[Max({1})])
    BY <1>10, <1>11
  <2> QED BY <1>1, <1>3, <2>1
<1>14. f[{1, 2}] = Abuts(f[{1}], parts[2])
  <2>1. f[{1, 2}] = Abuts(f[{1, 2} \ {Max({1, 2})}], parts[Max({1, 2})])
    BY <1>10, <1>11
  <2> QED BY <1>1, <1>3, <2>1
<1> QED BY <1>9, <1>12, <1>13, <1>14 DEF S

LEMMA WrappedLineBreaks ==
    ASSUME NEW rules, NEW lines, LinesFit(lines), NEW i \in 1 .. Len(lines) - 1,
           {j \in i - 1 .. i + 2 : j \in DOMAIN lines /\ lines[j].comment} = {i, i + 1},
           NEW p \in Range(rules.patterns), IsSequence(p.words), p.words # <<>>,
           \/ Occurs(p.words, lines[i].words \o lines[i + 1].words)
           \/ Occurs(p.words, Abuts(lines[i].words, lines[i + 1].words))
    PROVE  BoundaryBreaks(rules, lines)
<1> DEFINE n == Len(lines)
           first == lines[i].words
           second == lines[i + 1].words
           run == <<i, i + 1>>
           parts == PartsOf(lines, run)
<1>1. n \in Nat /\ DOMAIN lines = 1 .. n /\ i \in 1 .. n /\ i + 1 \in 1 .. n /\ i \in Nat
  <2>1. n \in Nat /\ DOMAIN lines = 1 .. n
    BY DEF LinesFit, IsSequence
  <2> QED BY <2>1
<1>2. run \in Runs(lines)
  <2> DEFINE C == {j \in i - 1 .. i + 2 : j \in DOMAIN lines /\ lines[j].comment}
  <2>1. lines[i].comment /\ lines[i + 1].comment
    <3>1. i \in C /\ i + 1 \in C
      OBVIOUS
    <3> QED BY <3>1
  <2>2. i - 1 \in DOMAIN lines => ~lines[i - 1].comment
    <3>1. i - 1 \notin C /\ i - 1 \in i - 1 .. i + 2
      BY <1>1
    <3> QED BY <3>1
  <2>3. i + 2 \in DOMAIN lines => ~lines[i + 2].comment
    <3>1. i + 2 \notin C /\ i + 2 \in i - 1 .. i + 2
      BY <1>1
    <3> QED BY <3>1
  <2>4. \A k \in i .. i + 1 : k = i \/ k = i + 1
    BY <1>1
  <2>5. (i + 1) + 1 = i + 2 /\ i <= i + 1
    BY <1>1
  <2> QED BY <1>1, <2>1, <2>2, <2>3, <2>4, <2>5 DEF Runs
<1>3. parts = [k \in 1 .. 2 |-> lines[i + k - 1].words]
  <2>1. run[1] = i /\ run[2] - run[1] + 1 = 2
    BY <1>1
  <2> HIDE DEF run
  <2> QED BY <2>1 DEF PartsOf
<1>4. DOMAIN parts = {1, 2} /\ Len(parts) = 2 /\ parts[1] = first /\ parts[2] = second
  <2>1. 1 .. 2 = {1, 2} /\ i + 1 - 1 = i /\ i + 2 - 1 = i + 1
    BY <1>1
  <2> HIDE DEF parts, first, second
  <2> QED BY <1>3, <2>1 DEF first, second
<1> HIDE DEF parts, run
<1>5. FlattenSeq(parts) = first \o second
  <2>1. PICK g : Flattens(g, parts, 2) /\ FlattenSeq(parts) = g[2]
    <3>1. 2 \in Nat \ {0} /\ Len(parts) = 2
      BY <1>4
    <3> HIDE DEF parts
    <3> QED BY <3>1, FlattenSeqIs
  <2>2. \A k \in 1 .. 2 : g[k] = IF k = 1 THEN parts[k] ELSE g[k - 1] \o parts[k]
    BY <2>1 DEF Flattens
  <2>3. g[1] = parts[1] /\ g[2] = g[1] \o parts[2]
    <3>1. 1 \in 1 .. 2 /\ 2 \in 1 .. 2 /\ 2 - 1 = 1 /\ 2 # 1
      OBVIOUS
    <3> QED BY <2>2, <3>1
  <2> QED BY <1>4, <2>1, <2>3
<1>6. IsSequence(first) /\ IsSequence(second)
  BY <1>1 DEF LinesFit, Range
<1>7. FoldLeft(Abuts, <<>>, parts) = Abuts(first, second)
  <2>1. Abuts(<<>>, first) = first
    BY <1>6 DEF Abuts, IsSequence
  <2> QED BY <1>4, <2>1, AbuttingTwo
<1>8. first \o second # <<>>
  <2> SUFFICES ASSUME first \o second = <<>> PROVE FALSE
    OBVIOUS
  <2>1. first = <<>> /\ second = <<>>
    BY <1>6 DEF IsSequence
  <2>2. Abuts(first, second) = <<>>
    BY <2>1 DEF Abuts
  <2> QED BY <2>2, NothingOccursInNothing
<1> QED BY <1>2, <1>5, <1>7, <1>8, RunBreaks DEF parts

(* When package-boundary passes, no file carries a forbidden pattern,      *)
(* neither in a line nor wrapped once in a comment.                        *)
THEOREM BoundaryHeldHolds == GatesSpec => []BoundaryHeld
<1>1. AuditInv /\ Walked => BoundaryHeld
  <2> SUFFICES ASSUME AuditInv, Walked, Witnessed("package-boundary"), NEW path \in scanned,
                      Carries(world.tree.files[path].lines)
               PROVE  FALSE
    BY DEF BoundaryHeld
  <2> DEFINE lines == world.tree.files[path].lines
  <2>1. /\ Walking /\ Verdict = 0 /\ Gate = "package-boundary"
        /\ path \in DOMAIN world.tree.files
    BY PassedWalk DEF Witnessed, TreeReaders
  <2>2. ~BoundaryBreaks(Rules, lines)
    BY <2>1 DEF Verdict, BoundaryExit
  <2>3. LinesFit(lines)
    BY <2>1, RulesTyped DEF AuditInv, Walking, TreeFits, LinesFit
  <2>4. \A p \in Range(Rules.patterns) : IsSequence(p.words) /\ p.words # <<>>
    BY <2>1, RulesTyped DEF AuditInv, Walking, SectionFits
  <2> HIDE DEF lines
  <2>5. PICK p \in Range(Rules.patterns) :
           \/ \E i \in DOMAIN lines : Occurs(p.words, lines[i].words)
           \/ \E i \in 1 .. Len(lines) - 1 :
                 /\ {j \in i - 1 .. i + 2 : j \in DOMAIN lines /\ lines[j].comment} = {i, i + 1}
                 /\ \/ Occurs(p.words, lines[i].words \o lines[i + 1].words)
                    \/ Occurs(p.words, Abuts(lines[i].words, lines[i + 1].words))
    BY DEF Carries, lines
  <2>6. CASE \E i \in DOMAIN lines : Occurs(p.words, lines[i].words)
    BY <2>2, <2>3, <2>4, <2>6, SingleLineBreaks
  <2>7. CASE \E i \in 1 .. Len(lines) - 1 :
                /\ {j \in i - 1 .. i + 2 : j \in DOMAIN lines /\ lines[j].comment} = {i, i + 1}
                /\ \/ Occurs(p.words, lines[i].words \o lines[i + 1].words)
                   \/ Occurs(p.words, Abuts(lines[i].words, lines[i + 1].words))
    BY <2>2, <2>3, <2>4, <2>7, WrappedLineBreaks
  <2> QED BY <2>5, <2>6, <2>7
<1> QED BY <1>1, AuditInvariant, WalkInvariant, PTL

(* A gate over a tree that passes has read all there was to read, and what *)
(* it read is as the section wants it.                                     *)
THEOREM TreesHeldHolds == GatesSpec => []TreesHeld
<1>1. TreesRead /\ DirectionHeld /\ BoundaryHeld /\ OwnershipHeld => TreesHeld
  BY DEF TreesHeld
<1> QED BY <1>1, TreesReadHolds, DirectionHeldHolds, BoundaryHeldHolds, OwnershipHeldHolds, PTL

--------------------------------------------------------------------------------
(* Check evaluation.                                                       *)
USE BoundsAssumption

Frames == [op : {"not"} \cup Connectives \cup Quantifiers,
           left : Nat, done : SUBSET Resolutions]

(* What is true of a resolution by itself.                                 *)
Sound(r) ==
    /\ r.value = "insufficient-evidence" <=> r.blind
    /\ (r.value # "insufficient-evidence" /\ ~r.missing) => r.full = r.value

FrameOK(frame) ==
    /\ frame.left = 0 => frame.done # {}
    /\ frame.op = "not" =>
          \/ frame.left = 1 /\ frame.done = {}
          \/ frame.left = 0 /\ \E r \in frame.done : frame.done = {r}
    /\ \A r \in frame.done : Sound(r)

(* Frames of which every one has an operand to come.                       *)
AllOpen(frames) ==
    /\ frames \in Seq(Frames)
    /\ \A i \in 1 .. Len(frames) : FrameOK(frames[i]) /\ frames[i].left > 0

(* A frame that waits for the one above it has an operand to come.         *)
WalkInv ==
    /\ stack \in Seq(Frames)
    /\ result \in Resolutions \cup {Unresolved, Faulted}
    /\ \A i \in 1 .. Len(stack) : FrameOK(stack[i])
    /\ \A i \in 1 .. Len(stack) : i < Len(stack) => stack[i].left > 0
    /\ result \in Resolutions => Sound(result)

(* Without an unobserved collection among its operands a leaf has only     *)
(* the evidence it has.                                                    *)
LEMMA ObservedAsIs ==
    ASSUME NEW op, NEW o, ~DenotesEmpty(op, o), NEW q \in Observed(o)
    PROVE  q = o
  BY DEF DenotesEmpty, Observed

(* Intercepted or answered, a leaf has one of the three values.            *)
LEMMA LeafValuesType ==
    ASSUME NEW op, NEW os
    PROVE  /\ LeafValues(op, os) \subseteq Values
           /\ \A v \in LeafValues(op, os) : v # "insufficient-evidence" =>
                \A i \in DOMAIN os : ~DenotesEmpty(op, os[i])
<1>1. \A b : Truth(b) \in {"true", "false"}
  BY DEF Truth
<1> QED BY <1>1 DEF LeafValues, Values

(* A leaf of one or two operands is sound: what it decides it decides from *)
(* operands that were observed.                                            *)
LEMMA LeavesSound ==
    ASSUME NEW op, NEW os, NEW qs, DOMAIN qs = DOMAIN os,
           (\A i \in DOMAIN os : qs[i] = os[i]) => qs = os,
           \A i \in DOMAIN os : qs[i] \in Observed(os[i])
    PROVE  \A r \in LeavesOf(op, os, qs) : r \in Resolutions /\ Sound(r)
<1> SUFFICES ASSUME NEW r \in LeavesOf(op, os, qs)
             PROVE  r \in Resolutions /\ Sound(r)
  OBVIOUS
<1>0. r \in {Leaf(v, full, FALSE) : v \in LeafValues(op, os), full \in LeafValues(op, qs)}
  BY DEF LeavesOf, Leaf
<1>1. PICK v \in LeafValues(op, os), full \in LeafValues(op, qs) : r = Leaf(v, full, FALSE)
  BY <1>0 DEF Leaf
<1>2. os = qs => r.full = r.value
  BY DEF LeavesOf
<1>2a. v \in Values /\ full \in Values
  BY LeafValuesType
<1>2b. r \in Resolutions
  BY <1>1, <1>2a DEF Leaf, Resolutions
<1>3. r.value = v /\ (r.blind <=> v = "insufficient-evidence")
  BY <1>1 DEF Leaf
<1>4. v # "insufficient-evidence" => os = qs
  <2> SUFFICES ASSUME v # "insufficient-evidence" PROVE os = qs
    OBVIOUS
  <2>1. \A i \in DOMAIN os : ~DenotesEmpty(op, os[i])
    BY LeafValuesType
  <2>2. \A i \in DOMAIN os : qs[i] = os[i]
    BY <2>1, ObservedAsIs
  <2> QED BY <2>2
<1> QED BY <1>2, <1>2b, <1>3, <1>4 DEF Sound

LEMMA UnarySound ==
    ASSUME NEW r \in UnaryLeaves
    PROVE  r \in Resolutions /\ Sound(r)
<1>1. PICK op \in Unary, o \in Operand({"pointer", "bound"}) :
        \E q \in Observed(o) : r \in LeavesOf(op, <<o>>, <<q>>)
  BY DEF UnaryLeaves
<1>2. PICK q \in Observed(o) : r \in LeavesOf(op, <<o>>, <<q>>)
  BY <1>1
<1> DEFINE os == <<o>>
           qs == <<q>>
<1>3. DOMAIN qs = DOMAIN os /\ DOMAIN os = {1} /\ os[1] = o /\ qs[1] = q
  OBVIOUS
<1>4. (\A i \in DOMAIN os : qs[i] = os[i]) => qs = os
  OBVIOUS
<1>5. \A i \in DOMAIN os : qs[i] \in Observed(os[i])
  BY <1>3
<1>6. r \in LeavesOf(op, os, qs)
  BY <1>2
<1> HIDE DEF os, qs
<1> QED BY <1>3, <1>4, <1>5, <1>6, LeavesSound

LEMMA BinarySound ==
    ASSUME NEW r \in BinaryLeaves
    PROVE  r \in Resolutions /\ Sound(r)
<1>1. PICK op \in Binary, o \in Operand({"pointer", "bound"}) :
        \E p \in SecondOperands(op) : \E q \in Observed(o) : \E s \in Observed(p) :
            r \in LeavesOf(op, <<o, p>>, <<q, s>>)
  BY DEF BinaryLeaves
<1>2a. PICK p \in SecondOperands(op) :
        \E q \in Observed(o) : \E s \in Observed(p) :
            r \in LeavesOf(op, <<o, p>>, <<q, s>>)
  BY <1>1
<1>2. PICK q \in Observed(o), s \in Observed(p) :
        r \in LeavesOf(op, <<o, p>>, <<q, s>>)
  BY <1>2a
<1> DEFINE os == <<o, p>>
           qs == <<q, s>>
<1>3. /\ DOMAIN qs = DOMAIN os /\ DOMAIN os = {1, 2}
      /\ os[1] = o /\ os[2] = p /\ qs[1] = q /\ qs[2] = s
  OBVIOUS
<1>4. (\A i \in DOMAIN os : qs[i] = os[i]) => qs = os
  OBVIOUS
<1>5. \A i \in DOMAIN os : qs[i] \in Observed(os[i])
  BY <1>3
<1>6. r \in LeavesOf(op, os, qs)
  BY <1>2
<1> HIDE DEF os, qs
<1> QED BY <1>3, <1>4, <1>5, <1>6, LeavesSound

(* covers-by-key decides a missing collection, and marks that it did.      *)
LEMMA CoversSound ==
    ASSUME NEW r \in CoversLeaves
    PROVE  r \in Resolutions /\ Sound(r)
<1>1. PICK e \in Operand({"reference"}), a \in Operand({"pointer"}) :
        r \in {l \in {Leaf(v, full, Unobserved(a)) :
                       v \in CoversValues(e, a),
                       full \in UNION {CoversValues(e, q) : q \in Observed(a)}} :
                 ~l.missing => l.full = l.value}
  BY DEF CoversLeaves
<1>2. PICK v \in CoversValues(e, a), full \in UNION {CoversValues(e, q) : q \in Observed(a)} :
        r = Leaf(v, full, Unobserved(a))
  BY <1>1
<1>3. ~r.missing => r.full = r.value
  BY <1>1
<1>4. \A q : CoversValues(e, q) \subseteq Values
  BY DEF CoversValues, Values
<1>5. v \in Values /\ full \in Values
  BY <1>2, <1>4
<1>6. Unobserved(a) \in BOOLEAN
  BY DEF Unobserved
<1>7. r \in Resolutions /\ (r.blind <=> r.value = "insufficient-evidence")
  BY <1>2, <1>5, <1>6 DEF Leaf, Resolutions
<1> QED BY <1>3, <1>7 DEF Sound

LEMMA EmptyQuantifierSound ==
    ASSUME NEW r \in EmptyQuantifiers
    PROVE  r \in Resolutions /\ Sound(r)
<1>1. PICK full \in Values : r = Leaf("insufficient-evidence", full, FALSE)
  BY DEF EmptyQuantifiers, Values
<1> QED BY <1>1 DEF Leaf, Sound, Resolutions, Values

(* A fold of sound resolutions is sound, for each of the five nodes.       *)
LEMMA FoldedSound ==
    ASSUME NEW op \in {"not"} \cup Connectives \cup Quantifiers,
           NEW done \in SUBSET Resolutions, done # {},
           \A r \in done : Sound(r),
           op = "not" => \E r \in done : done = {r}
    PROVE  Folded(op, done) \in Resolutions /\ Sound(Folded(op, done))
<1> DEFINE f == Folded(op, done)
           vs == {d.value : d \in done}
           fs == {d.full : d \in done}
           Blind == \E d \in done : d.blind
           Defect == \E d \in done : d.value = "false"
           Missing == \E d \in done : d.missing
<1>1. /\ f.value = Fold(op, vs) /\ f.full = Fold(op, fs)
      /\ f.blind = (Blind /\ ~(op \in Conjunctive /\ Defect))
      /\ f.missing = Missing
      /\ f = [value |-> f.value, full |-> f.full, blind |-> f.blind, missing |-> f.missing]
  BY DEF Folded
<1>2. \A d \in done : /\ d.value \in Values /\ d.full \in Values
                      /\ d.blind \in BOOLEAN /\ d.missing \in BOOLEAN
  BY DEF Resolutions
<1>3. \A d \in done : d.value = "insufficient-evidence" <=> d.blind
  BY DEF Sound
<1>4. ~Missing => \A d \in done : d.value # "insufficient-evidence" => d.full = d.value
  BY DEF Sound
<1>5. f.blind \in BOOLEAN /\ f.missing \in BOOLEAN
  BY <1>1
<1>6. CASE op = "not"
  <2>1. PICK d \in done : done = {d}
    BY <1>6
  <2>2. vs = {d.value} /\ fs = {d.full}
    BY <2>1
  <2>3. \A x : Fold("not", {x}) = NotOf(x)
    <3>1. \A x : (CHOOSE v \in {x} : TRUE) = x
      BY Zenon
    <3> QED BY <3>1 DEF Fold, Conjunctive
  <2>4. f.value = NotOf(d.value) /\ f.full = NotOf(d.full)
    BY <1>1, <1>6, <2>2, <2>3
  <2>5. f.blind <=> d.blind
    BY <1>1, <1>6, <2>1 DEF Conjunctive
  <2>6. f.value \in Values /\ f.full \in Values
    BY <1>2, <2>4 DEF NotOf, Values
  <2>7. f.value = "insufficient-evidence" <=> d.value = "insufficient-evidence"
    BY <1>2, <2>4 DEF NotOf, Values
  <2>8. (f.value # "insufficient-evidence" /\ ~Missing) => f.full = f.value
    BY <1>4, <2>4, <2>7
  <2> QED BY <1>1, <1>3, <1>5, <2>5, <2>6, <2>7, <2>8 DEF Sound, Resolutions
<1>7. CASE op \in Conjunctive
  <2>1. f.value = AllOf(vs) /\ f.full = AllOf(fs)
    BY <1>1, <1>7 DEF Fold, Conjunctive
  <2>2. f.value \in Values /\ f.full \in Values
    BY <2>1 DEF AllOf, Values
  <2>3. f.value = "insufficient-evidence" <=> (Blind /\ ~Defect)
    BY <1>3, <2>1 DEF AllOf
  <2>4. (f.value # "insufficient-evidence" /\ ~Missing) => f.full = f.value
    <3> SUFFICES ASSUME f.value # "insufficient-evidence", ~Missing
                 PROVE  f.full = f.value
      OBVIOUS
    <3>1. CASE "false" \in vs
      <4>1. "false" \in fs
        BY <1>4, <3>1
      <4> QED BY <2>1, <3>1, <4>1 DEF AllOf
    <3>2. CASE "false" \notin vs
      <4>1. "insufficient-evidence" \notin vs
        BY <2>1, <3>2 DEF AllOf
      <4>2. fs = vs
        BY <1>4, <4>1
      <4> QED BY <2>1, <4>2
    <3> QED BY <3>1, <3>2
  <2> QED BY <1>1, <1>5, <1>7, <2>2, <2>3, <2>4 DEF Sound, Resolutions
<1>8. CASE op \in {"any", "for-any"}
  <2>1. f.value = AnyOf(vs) /\ f.full = AnyOf(fs)
    BY <1>1, <1>8 DEF Fold, Conjunctive
  <2>2. f.value \in Values /\ f.full \in Values
    BY <2>1 DEF AnyOf, Values
  <2>3. f.value = "insufficient-evidence" <=> Blind
    BY <1>3, <2>1 DEF AnyOf
  <2>4. (f.value # "insufficient-evidence" /\ ~Missing) => f.full = f.value
    <3> SUFFICES ASSUME f.value # "insufficient-evidence", ~Missing
                 PROVE  f.full = f.value
      OBVIOUS
    <3>1. "insufficient-evidence" \notin vs
      BY <2>1 DEF AnyOf
    <3>2. fs = vs
      BY <1>4, <3>1
    <3> QED BY <2>1, <3>2
  <2> QED BY <1>1, <1>5, <1>8, <2>2, <2>3, <2>4 DEF Sound, Resolutions, Conjunctive
<1> QED BY <1>6, <1>7, <1>8 DEF Connectives, Quantifiers, Conjunctive

-----------------------------------------------------------------------------
(* A sound resolution is handed to a frame that waits, or to the caller.   *)
LEMMA DeliverSound ==
    ASSUME NEW below, AllOpen(below), NEW r \in Resolutions, Sound(r),
           result = Unresolved, Deliver(below, r)
    PROVE  WalkInv'
<1>1. CASE below = <<>>
  BY <1>1 DEF Deliver, WalkInv
<1>2. CASE below # <<>>
  <2> DEFINE n == Len(below)
  <2>1. below \in Seq(Frames) /\ n \in Nat /\ n > 0 /\ n \in 1 .. n /\ below[n] \in Frames
    BY <1>2 DEF AllOpen
  <2>2. below[n].left \in Nat /\ below[n].left > 0 /\ FrameOK(below[n])
    BY <2>1 DEF AllOpen, Frames
  <2> DEFINE frame == [below[n] EXCEPT !.left = @ - 1, !.done = @ \cup {r}]
  <2>3. /\ frame \in Frames
        /\ frame.op = below[n].op
        /\ frame.left = below[n].left - 1
        /\ frame.done = below[n].done \cup {r}
    <3>1. PICK op \in {"not"} \cup Connectives \cup Quantifiers, left \in Nat,
               done \in SUBSET Resolutions :
            below[n] = [op |-> op, left |-> left, done |-> done]
      BY <2>1 DEF Frames
    <3>2. frame = [op |-> op, left |-> left - 1, done |-> done \cup {r}]
      <4> DEFINE top == [op |-> op, left |-> left, done |-> done]
      <4>1. below[n] = top
        BY <3>1
      <4>2. top.left = left /\ top.done = done
        OBVIOUS
      <4> DEFINE lower == [op |-> op, left |-> left - 1, done |-> done]
      <4>3. [top EXCEPT !.left = left - 1] = lower
        OBVIOUS
      <4>4. [lower EXCEPT !.done = done \cup {r}]
              = [op |-> op, left |-> left - 1, done |-> done \cup {r}]
        OBVIOUS
      <4> HIDE DEF top, lower
      <4>5. frame = [[top EXCEPT !.left = left - 1] EXCEPT !.done = done \cup {r}]
        BY ONLY <4>1, <4>2
      <4> QED BY ONLY <4>3, <4>4, <4>5
    <3>3. left - 1 \in Nat /\ done \cup {r} \in SUBSET Resolutions
      BY <2>2, <3>1
    <3> HIDE DEF frame
    <3> QED BY <3>1, <3>2, <3>3 DEF Frames
  <2>4. FrameOK(frame)
    <3>1. frame.done # {} /\ \A x \in frame.done : Sound(x)
      BY <2>2, <2>3 DEF FrameOK
    <3>2. frame.op = "not" => frame.left = 0 /\ frame.done = {r}
      BY <2>2, <2>3 DEF FrameOK
    <3> HIDE DEF frame
    <3> QED BY <3>1, <3>2 DEF FrameOK
  <2>5. stack' = [below EXCEPT ![n] = frame] /\ result' = result
    BY <1>2 DEF Deliver
  <2> HIDE DEF frame
  <2>6. /\ stack' \in Seq(Frames) /\ Len(stack') = n
        /\ \A i \in 1 .. n : stack'[i] = IF i = n THEN frame ELSE below[i]
    BY <2>1, <2>3, <2>5
  <2>7. \A i \in 1 .. n : FrameOK(stack'[i]) /\ (i < n => stack'[i].left > 0)
    BY <2>1, <2>4, <2>6 DEF AllOpen
  <2>8. result' = Unresolved /\ Unresolved \notin Resolutions
    BY <2>5 DEF Unresolved, Resolutions, Values
  <2> QED BY <2>6, <2>7, <2>8 DEF WalkInv
<1> QED BY <1>1, <1>2

(* Entering a node of at least one operand, a negation of exactly one.     *)
LEMMA PushSound ==
    ASSUME WalkInv, NEW op \in {"not"} \cup Connectives \cup Quantifiers,
           NEW arity \in Nat, arity > 0, op = "not" => arity = 1, Push(op, arity)
    PROVE  WalkInv'
<1> DEFINE frame == [op |-> op, left |-> arity, done |-> {}]
<1>1. frame \in Frames /\ FrameOK(frame)
  BY DEF Frames, FrameOK
<1>2. stack' = Append(stack, frame) /\ result' = result /\ result = Unresolved
  BY DEF Push, Descending
<1>3. stack # <<>> => stack[Len(stack)].left > 0
  BY DEF Push, Descending
<1> HIDE DEF frame
<1>4. /\ stack' \in Seq(Frames) /\ Len(stack') = Len(stack) + 1 /\ Len(stack) \in Nat
      /\ \A i \in 1 .. Len(stack') :
            stack'[i] = IF i = Len(stack') THEN frame ELSE stack[i]
  BY <1>1, <1>2 DEF WalkInv
<1>5. \A i \in 1 .. Len(stack') :
        FrameOK(stack'[i]) /\ (i < Len(stack') => stack'[i].left > 0)
  <2> TAKE i \in 1 .. Len(stack')
  <2>1. CASE i = Len(stack')
    BY <1>1, <1>4, <2>1
  <2>2. CASE i # Len(stack')
    <3>1. i \in 1 .. Len(stack) /\ stack'[i] = stack[i]
      BY <1>4, <2>2
    <3>2. CASE i = Len(stack)
      <4>1. stack # <<>>
        BY <3>1, <3>2
      <4> QED BY <1>3, <3>1, <3>2, <4>1 DEF WalkInv
    <3>3. CASE i < Len(stack)
      BY <3>1, <3>3 DEF WalkInv
    <3> QED BY <1>4, <3>1, <3>2, <3>3
  <2> QED BY <2>1, <2>2
<1>6. Unresolved \notin Resolutions
  BY DEF Unresolved, Resolutions, Values
<1> QED BY <1>2, <1>4, <1>5, <1>6 DEF WalkInv

(* Where the walk descends, every node entered waits for an operand.       *)
LEMMA DescendingOpen ==
    ASSUME WalkInv, Descending
    PROVE  AllOpen(stack) /\ result = Unresolved
<1>1. stack \in Seq(Frames) /\ Len(stack) \in Nat
  BY DEF WalkInv
<1>2. \A i \in 1 .. Len(stack) : stack[i].left > 0
  <2> TAKE i \in 1 .. Len(stack)
  <2>1. CASE i < Len(stack)
    BY <2>1 DEF WalkInv
  <2>2. CASE i = Len(stack)
    BY <1>1, <2>2 DEF Descending
  <2> QED BY <1>1, <2>1, <2>2
<1> QED BY <1>1, <1>2 DEF WalkInv, AllOpen, Descending

(* The nodes below one that returns wait for what it returns.              *)
LEMMA ReturnSound ==
    ASSUME WalkInv, Return
    PROVE  WalkInv'
<1> DEFINE n == Len(stack)
           top == stack[n]
           below == SubSeq(stack, 1, n - 1)
<1>1. stack \in Seq(Frames) /\ n \in Nat /\ n > 0 /\ n \in 1 .. n /\ top \in Frames
  BY DEF WalkInv, Return
<1>2. /\ below \in Seq(Frames) /\ Len(below) = n - 1
      /\ \A i \in 1 .. n - 1 : below[i] = stack[i]
  <2>1. 1 \in 1 .. (Len(stack) + 1) /\ n - 1 \in 1 - 1 .. Len(stack)
    BY <1>1
  <2>2. n - 1 - 1 + 1 = n - 1 /\ \A i \in 1 .. n - 1 : 1 + i - 1 = i
    BY <1>1
  <2> HIDE DEF n
  <2> QED BY <1>1, <2>1, <2>2, SubSeqProperties
<1>3. AllOpen(below)
  <2>1. \A i \in 1 .. n - 1 : FrameOK(stack[i]) /\ stack[i].left > 0
    BY <1>1 DEF WalkInv
  <2> QED BY <1>2, <2>1 DEF AllOpen
<1>4. top.left = 0 /\ Deliver(below, Folded(top.op, top.done)) /\ result = Unresolved
  BY DEF Return
<1>5. FrameOK(top)
  BY <1>1 DEF WalkInv
<1>6. /\ top.op \in {"not"} \cup Connectives \cup Quantifiers
      /\ top.done \in SUBSET Resolutions
  BY <1>1 DEF Frames
<1>7. /\ top.done # {} /\ \A r \in top.done : Sound(r)
      /\ top.op = "not" => \E r \in top.done : top.done = {r}
  BY <1>4, <1>5 DEF FrameOK
<1> HIDE DEF top, below
<1>8. Folded(top.op, top.done) \in Resolutions /\ Sound(Folded(top.op, top.done))
  BY <1>6, <1>7, FoldedSound
<1> QED BY <1>3, <1>4, <1>8, DeliverSound

(* Every step of the walk keeps every resolution it holds sound.           *)
THEOREM CheckWalkInvariant == Spec => []WalkInv
<1>1. Init => WalkInv
  BY DEF Init, WalkInv, Unresolved, Resolutions, Values
<1>2. WalkInv /\ [Next]_vars => WalkInv'
  <2> SUFFICES ASSUME WalkInv, [Next]_vars PROVE WalkInv'
    OBVIOUS
  <2>1. CASE EnterNot
    BY <2>1, PushSound DEF EnterNot
  <2>2. CASE EnterConnective
    <3>1. PICK op \in Connectives, n \in 2 .. MaxArity : Push(op, n)
      BY <2>2 DEF EnterConnective
    <3> QED BY <3>1, PushSound DEF Connectives
  <2>3. CASE EnterQuantifier
    <3>1. PICK op \in Quantifiers, n \in 1 .. MaxArity : Push(op, n)
      BY <2>3 DEF EnterQuantifier
    <3> QED BY <3>1, PushSound DEF Quantifiers
  <2>4. CASE ResolveQuantifier
    BY <2>4, EmptyQuantifierSound, DescendingOpen, DeliverSound DEF ResolveQuantifier
  <2>5. CASE ResolveUnary
    BY <2>5, UnarySound, DescendingOpen, DeliverSound DEF ResolveUnary
  <2>6. CASE ResolveBinary
    BY <2>6, BinarySound, DescendingOpen, DeliverSound DEF ResolveBinary
  <2>7. CASE ResolveCovers
    BY <2>7, CoversSound, DescendingOpen, DeliverSound DEF ResolveCovers
  <2>8. CASE RegexFaults
    BY <2>8 DEF RegexFaults, WalkInv, Faulted, Resolutions, Values
  <2>9. CASE Return
    BY <2>9, ReturnSound
  <2>10. CASE Resolved
    BY <2>10 DEF Resolved, vars, WalkInv
  <2>11. CASE UNCHANGED vars
    BY <2>11 DEF vars, WalkInv
  <2> QED BY <2>1, <2>2, <2>3, <2>4, <2>5, <2>6, <2>7, <2>8, <2>9, <2>10, <2>11 DEF Next
<1> QED BY <1>1, <1>2, PTL DEF Spec

(* Types, for expressions of every depth and arity: a node is folded over  *)
(* at least one operand and a negation over exactly one.                   *)
THEOREM CheckTypeCorrect == Spec => []CheckTypeOK
<1>1. WalkInv => CheckTypeOK
  BY DEF WalkInv, CheckTypeOK, FrameOK, Frames
<1> QED BY <1>1, CheckWalkInvariant, PTL

LEMMA KnownSound == WalkInv => \A r \in Known : Sound(r)
<1>1. WalkInv => DOMAIN stack = 1 .. Len(stack)
  BY DEF WalkInv
<1> QED BY <1>1 DEF WalkInv, Known, FrameOK

(* A decided check stays decided, for every expression.                    *)
THEOREM DecidedStaysDecidedHolds == Spec => []DecidedStaysDecided
<1>1. WalkInv => DecidedStaysDecided
  BY KnownSound DEF Sound, DecidedStaysDecided
<1> QED BY <1>1, CheckWalkInvariant, PTL

(* Nothing passes or fails unexamined, for every expression.               *)
THEOREM OnlyADefectOutranksHolds == Spec => []OnlyADefectOutranks
<1>1. WalkInv => OnlyADefectOutranks
  BY KnownSound DEF Sound, OnlyADefectOutranks
<1> QED BY <1>1, CheckWalkInvariant, PTL

(* Every decision is earned, for every expression.                         *)
THEOREM DecisionsEarnedHolds == Spec => []DecisionsEarned
BY DecidedStaysDecidedHolds, OnlyADefectOutranksHolds, PTL DEF DecisionsEarned

-----------------------------------------------------------------------------
(* The slot of a key is taken by a row that carries it.                    *)
LEMMA SlotOfKey ==
    ASSUME NEW rows, NEW i, NEW key, Slot(rows, i) = <<"key", key>>
    PROVE  rows[i] = key /\ rows[i] # Keyless
  BY DEF Slot

(* The map of slots, filled from what was found and emptied by what was    *)
(* expected, is empty exactly when the collections can be paired off.      *)
LEMMA PairedOff ==
    ASSUME NEW expected, NEW actual,
           \A i \in DOMAIN expected : expected[i] # Keyless,
           \A i, j \in DOMAIN expected : expected[i] = expected[j] => i = j
    PROVE  CoversByKey(expected, actual) <=>
                \E pairing \in [DOMAIN expected -> DOMAIN actual] :
                    /\ \A i \in DOMAIN expected : actual[pairing[i]] = expected[i]
                    /\ \A i, j \in DOMAIN expected : pairing[i] = pairing[j] => i = j
                    /\ \A k \in DOMAIN actual : \E i \in DOMAIN expected : pairing[i] = k
<1>1. ASSUME CoversByKey(expected, actual)
      PROVE  \E pairing \in [DOMAIN expected -> DOMAIN actual] :
                /\ \A i \in DOMAIN expected : actual[pairing[i]] = expected[i]
                /\ \A i, j \in DOMAIN expected : pairing[i] = pairing[j] => i = j
                /\ \A k \in DOMAIN actual : \E i \in DOMAIN expected : pairing[i] = k
  <2> DEFINE p == [i \in DOMAIN expected |->
                        CHOOSE k \in DOMAIN actual : actual[k] = expected[i]]
  <2>1. \A i \in DOMAIN expected : \E k \in DOMAIN actual : actual[k] = expected[i]
    BY <1>1, SlotOfKey DEF CoversByKey, Slots
  <2>2. \A i \in DOMAIN expected : p[i] \in DOMAIN actual /\ actual[p[i]] = expected[i]
    BY <2>1
  <2>3. p \in [DOMAIN expected -> DOMAIN actual]
    BY <2>2
  <2> HIDE DEF p
  <2>4. \A i, j \in DOMAIN expected : p[i] = p[j] => i = j
    BY <2>2
  <2>5. ASSUME NEW k \in DOMAIN actual PROVE \E i \in DOMAIN expected : p[i] = k
    <3>1. PICK i \in DOMAIN expected : Slot(actual, k) = <<"key", expected[i]>>
      BY <1>1 DEF CoversByKey, Slots
    <3>2. actual[k] = expected[i] /\ actual[k] # Keyless
      BY <3>1, SlotOfKey
    <3>3. Slot(actual, p[i]) = Slot(actual, k)
      BY <2>2, <3>2 DEF Slot
    <3> QED BY <1>1, <2>2, <3>3 DEF CoversByKey
  <2> QED BY <2>2, <2>3, <2>4, <2>5
<1>2. ASSUME NEW p \in [DOMAIN expected -> DOMAIN actual],
             \A i \in DOMAIN expected : actual[p[i]] = expected[i],
             \A i, j \in DOMAIN expected : p[i] = p[j] => i = j,
             \A k \in DOMAIN actual : \E i \in DOMAIN expected : p[i] = k
      PROVE  CoversByKey(expected, actual)
  <2>1. \A i, j \in DOMAIN actual : Slot(actual, i) = Slot(actual, j) => i = j
    <3> TAKE i, j \in DOMAIN actual
    <3> HAVE Slot(actual, i) = Slot(actual, j)
    <3>1. PICK a, b \in DOMAIN expected : p[a] = i /\ p[b] = j
      BY <1>2
    <3>2. actual[i] = expected[a] /\ actual[j] = expected[b]
      BY <1>2, <3>1
    <3>3. expected[a] = expected[b]
      BY <3>2 DEF Slot
    <3> QED BY <3>1, <3>3
  <2>2. \A i \in DOMAIN expected : <<"key", expected[i]>> \in Slots(actual)
    <3> TAKE i \in DOMAIN expected
    <3>1. p[i] \in DOMAIN actual /\ actual[p[i]] = expected[i] /\ actual[p[i]] # Keyless
      BY <1>2
    <3>2. Slot(actual, p[i]) = <<"key", expected[i]>>
      BY <3>1 DEF Slot
    <3> QED BY <3>1, <3>2 DEF Slots
  <2>3. Slots(actual) \subseteq {<<"key", expected[i]>> : i \in DOMAIN expected}
    <3> SUFFICES ASSUME NEW k \in DOMAIN actual
                 PROVE  Slot(actual, k) \in {<<"key", expected[i]>> : i \in DOMAIN expected}
      BY DEF Slots
    <3>1. PICK i \in DOMAIN expected : p[i] = k
      BY <1>2
    <3>2. actual[k] = expected[i] /\ actual[k] # Keyless
      BY <1>2, <3>1
    <3>3. Slot(actual, k) = <<"key", expected[i]>>
      BY <3>2 DEF Slot
    <3> QED BY <3>3
  <2> QED BY <2>1, <2>2, <2>3 DEF CoversByKey
<1> QED BY <1>1, <1>2

(* covers-by-key is a bijection, for collections of every size.            *)
THEOREM CoverageIsBijectionHolds == Spec => []CoverageIsBijection
<1>1. CoverageIsBijection
  BY PairedOff DEF CoverageIsBijection
<1> QED BY <1>1, PTL
================================================================================
