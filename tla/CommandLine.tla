------------------------------ MODULE CommandLine ------------------------------
(***************************************************************************)
(* cli/run.ts and cli/main.ts: eval-quality processes that share a disk.   *)
(* Each parses its command line, holds --out against its inputs, reads     *)
(* them, makes one call into application/, writes what came back in place, *)
(* and exits.  Any of them may be killed between two steps, and a read or  *)
(* a write may fail.                                                       *)
(*                                                                         *)
(* A file is [whole, dup, digest, arrives, value, by]: whether it is JSON  *)
(* to its end, whether some object in it has a key twice, the digest of    *)
(* its bytes, as what it arrives (see ArtifactInput) and what it holds,    *)
(* and the process that opened it last, 0 for none.  No file is <<>>.      *)
(*                                                                         *)
(* score and aggregate-strength are ScoreIntake and Evidence.  What        *)
(* compile, seal and preflight come to is Authoring's and Preflight's      *)
(* matter: here the file that they read last says it.                      *)
(***************************************************************************)
EXTENDS ScoreIntake, CommandArguments

CONSTANTS
    Procs,       \* numbers
    Scenarios,   \* a sequence of [argv, stdin, disk]: for each process its
                 \* tokens and what it reads on stdin; for each node a file
    Resolve,     \* the resolved path of a path
    Node,        \* the file that a resolved path names
    JsonPaths,   \* the paths that end in .json
    Joined,      \* for the other paths, a file below it for each command
    Stored,      \* for a private reference, the file below the corpus root
    Escaping     \* the references that leave the root

(* The inputs of an invocation in the order of its flags, each             *)
(* [flag, path]; --in falls back to stdin.                                 *)
Inputs(run) ==
    LET keys == InputKeys(run.command)
        under(flag) ==
            LET paths == IF flag \in DOMAIN run.inputs THEN run.inputs[flag]
                         ELSE IF flag = "--in" THEN <<Stdin>> ELSE <<>>
            IN [i \in DOMAIN paths |-> [flag |-> flag, path |-> paths[i]]]
    IN FlattenSeq([i \in DOMAIN keys |-> under(keys[i])])

(* outputPath, resolved.                                                  *)
Target(run) ==
    IF run.out[1] \in JsonPaths THEN Resolve[run.out[1]]
    ELSE Resolve[Joined[run.out[1]][run.command]]

(* The files that an invocation names, to read and to write.              *)
NamedNodes(run) ==
    {Node[Resolve[input.path]] : input \in {x \in ToSet(Inputs(run)) : x.path # Stdin}}
    \cup IF run.out = <<>> THEN {} ELSE {Node[Target(run)]}

(* What a command line names is a place on the disk, and no process wrote *)
(* what is there when they start.                                         *)
ASSUME ScenariosAssumption ==
    \A s \in DOMAIN Scenarios : \A p \in Procs :
        LET argv == Scenarios[s].argv[p]
            files == Scenarios[s].disk
            run == ParseArguments(argv)
        IN /\ argv \in Seq(ToSet(argv))
           /\ \A node \in DOMAIN files : files[node] # <<>> => files[node][1].by # p
           /\ Scenarios[s].stdin[p] # <<>> => Scenarios[s].stdin[p][1].by \notin Procs
           /\ run.kind = "run" => NamedNodes(run) \subseteq DOMAIN files

(* What the schema of a flag lets through, as far as anything rests on it: *)
(* sequences, rationals, and numbers where something is ordered by them.   *)
Fits(flag, value) ==
    LET list(s) == s \in Seq(ToSet(s)) IN
    /\ flag = "--record" => value.trial \in Int
    /\ flag = "--contract" => list(value.oracles)
    /\ flag = "--probe" => value.id \in Int
    /\ flag = "--policy" => value.threshold \in Nat \X Nat
    /\ flag = "--floors" =>
          \A class \in StrengthClasses :
              value[class] # <<>> => value[class] \in Nat \X Nat
    /\ flag = "--evidence" =>
          /\ value.probe \in Int /\ list(value.reduced)
          /\ \A i \in DOMAIN value.reduced : list(value.reduced[i].votes)

(* A file that is said to fit does.                                        *)
ASSUME FilesAssumption ==
    \A s \in DOMAIN Scenarios : \A p \in Procs :
        LET run == ParseArguments(Scenarios[s].argv[p])
            named(path) == IF path = Stdin THEN Scenarios[s].stdin[p]
                           ELSE Scenarios[s].disk[Node[Resolve[path]]]
        IN run.kind = "run" => \A input \in ToSet(Inputs(run)) :
              /\ named(input.path) # <<>>
              /\ named(input.path)[1].arrives.fits
              => Fits(input.flag, named(input.path)[1].value)

VARIABLES
    scenario, disk,
    pc,
    invocation,  \* what was parsed
    checked,     \* how many inputs were held against --out
    got,         \* the files read, by their place among the inputs
    fetched,     \* the digests of the references resolved
    returned,    \* [exit, artifact]: of the call, the artifact <<>> or <<value>>
    printed,     \* what went to stdout
    exitCode

vars == <<scenario, disk, pc, invocation, checked, got, fetched, returned, printed, exitCode>>

Usage == 64
Fault == 5
StructuralFailure == 4

NothingYet == [exit |-> Fault, artifact |-> <<>>]

Init ==
    /\ scenario \in DOMAIN Scenarios
    /\ disk = Scenarios[scenario].disk
    /\ pc = [p \in Procs |-> "parsing"]
    /\ invocation = [p \in Procs |-> UsageError]
    /\ checked = [p \in Procs |-> 0]
    /\ got = [p \in Procs |-> <<>>]
    /\ fetched = [p \in Procs |-> <<>>]
    /\ returned = [p \in Procs |-> NothingYet]
    /\ printed = [p \in Procs |-> <<>>]
    /\ exitCode = [p \in Procs |-> <<>>]

Command(p) == invocation[p].command

Exit(p, n) ==
    /\ pc' = [pc EXCEPT ![p] = "done"]
    /\ exitCode' = [exitCode EXCEPT ![p] = <<n>>]

InputsRead(p) == IF invocation[p].kind = "run" THEN Inputs(invocation[p]) ELSE <<>>

TargetNode(p) == Node[Target(invocation[p])]

-----------------------------------------------------------------------------
Parse(p) ==
    LET parsed == ParseArguments(Scenarios[scenario].argv[p]) IN
    /\ pc[p] = "parsing"
    /\ invocation' = [invocation EXCEPT ![p] = parsed]
    /\ CASE parsed.kind = "usage-error" -> Exit(p, Usage)
         [] parsed.kind \in {"help", "version"} -> Exit(p, 0)
         [] parsed.kind = "run" ->
              /\ pc' = [pc EXCEPT ![p] = IF parsed.out = <<>> THEN "reading" ELSE "checking"]
              /\ UNCHANGED exitCode
    /\ UNCHANGED <<scenario, disk, checked, got, fetched, returned, printed>>

(* Mutant: only the spelling of the two paths is compared.                 *)
CollidesBySpelling(input, run) ==
    input.path # Stdin /\ Resolve[input.path] = Target(run)

(* collides, one input: the same path, or the same file if it is there.    *)
Collides(input, run) ==
    /\ input.path # Stdin
    /\ \/ Resolve[input.path] = Target(run)
       \/ /\ Node[Resolve[input.path]] = Node[Target(run)]
          /\ disk[Node[Target(run)]] # <<>>

CheckInput(p) ==
    /\ pc[p] = "checking"
    /\ IF checked[p] = Len(InputsRead(p))
       THEN pc' = [pc EXCEPT ![p] = "reading"] /\ UNCHANGED <<checked, exitCode>>
       ELSE IF Collides(InputsRead(p)[checked[p] + 1], invocation[p])
       THEN Exit(p, Usage) /\ UNCHANGED checked
       ELSE checked' = [checked EXCEPT ![p] = @ + 1] /\ UNCHANGED <<pc, exitCode>>
    /\ UNCHANGED <<scenario, disk, invocation, got, fetched, returned, printed>>

-----------------------------------------------------------------------------
(* What aggregate-strength takes is scanned for keys that are there twice. *)
ScannedInputs == {"--evidence", "--floors", "--policy"}

Pending(p) == DOMAIN InputsRead(p) \ DOMAIN got[p]

(* The records of a score are read at once, everything else in its turn.   *)
Readable(p) ==
    {i \in Pending(p) :
        \/ InputsRead(p)[i].flag = "--record"
        \/ \A j \in Pending(p) : i <= j}

Contents(p, path) ==
    IF path = Stdin THEN Scenarios[scenario].stdin[p] ELSE disk[Node[Resolve[path]]]

(* The flags under which the schema of what a command mints is asked for.  *)
ReadAs(command) ==
    CASE command = "score" -> {"--evidence"}
      [] command = "preflight" -> {"--preflight-verdict"}
      [] OTHER -> {}

(* What a process wrote fits no other schema.  (What compile and seal      *)
(* write is opaque here, and no command of the model goes on from it.)     *)
Arriving(file, flag) ==
    IF file.by \in Procs /\ flag \notin ReadAs(Command(file.by))
    THEN [file EXCEPT !.arrives.fits = FALSE] ELSE file

(* readJson.  A file that is not there is the caller's error, one that is  *)
(* no JSON or has a key twice a fault.                                     *)
ReadInput(p, i) ==
    LET input == InputsRead(p)[i]
        file == Contents(p, input.path)
    IN
    /\ pc[p] = "reading"
    /\ CASE file = <<>> -> Exit(p, Usage) /\ UNCHANGED got
         [] file # <<>> /\ (~file[1].whole \/ (file[1].dup /\ input.flag \in ScannedInputs)) ->
              Exit(p, Fault) /\ UNCHANGED got
         [] OTHER ->
              /\ got' = [got EXCEPT ![p] = [j \in DOMAIN @ \cup {i} |->
                            IF j = i THEN Arriving(file[1], input.flag) ELSE @[j]]]
              /\ UNCHANGED <<pc, exitCode>>
    /\ UNCHANGED <<scenario, disk, invocation, checked, fetched, returned, printed>>

(* A read that fails for no reason of the caller's.                        *)
ReadFails(p) ==
    /\ pc[p] = "reading" /\ Pending(p) # {}
    /\ Exit(p, Fault)
    /\ UNCHANGED <<scenario, disk, invocation, checked, got, fetched, returned, printed>>

(* What was read under a flag, in the order given.                         *)
Read(p, flag) ==
    LET places == {i \in DOMAIN InputsRead(p) : InputsRead(p)[i].flag = flag}
        at == InOrder(places, [i \in places |-> i])
    IN [k \in DOMAIN at |-> got[p][at[k]]]

-----------------------------------------------------------------------------
ScoreOptions(p) ==
    [records |-> Read(p, "--record"), manifest |-> Read(p, "--isolation-manifest"),
     configuration |-> Read(p, "--evaluator-configuration"),
     contract |-> Read(p, "--contract")[1], probe |-> Read(p, "--probe")[1],
     preflight |-> Read(p, "--preflight-verdict")[1], policy |-> Read(p, "--policy")[1],
     privates |-> Read(p, "--private-manifest"),
     corpus |-> invocation[p].corpusDigest[1],
     designated |-> IF invocation[p].designatedOracle = <<>> THEN "none"
                    ELSE invocation[p].designatedOracle[1]]

Rejected(n) == [exit |-> n, artifact |-> <<>>]

(* runScoreCommand up to the first reference that has to be resolved.    *)
ScoreRefusal(p) ==
    LET o == ScoreOptions(p) IN
    IF invocation[p].corpusRoot = <<>> /\ ToResolve(o) # <<>> THEN Usage
    ELSE IF IntakeFault(o) # "none" THEN Fault
    ELSE IF DesignationRefused(o) THEN Usage
    ELSE 0

(* What a call that was not refused returns.                               *)
Returned(scored, strict) ==
    IF scored.artifact # <<>> /\ ~ReductionConsistent(scored.artifact[1]) THEN Rejected(Fault)
    ELSE [exit |-> scored.exits[strict], artifact |-> scored.artifact]

ScoreResult(p) == Returned(Scored(ScoreOptions(p)), invocation[p].strict)

AggregateResult(p) ==
    LET evidence == Read(p, "--evidence")
        floors == Read(p, "--floors")[1]
        policy == Read(p, "--policy")[1]
        artifacts == [i \in DOMAIN evidence |-> evidence[i].value]
        thrown == FirstFault(<<ArrayFault([i \in DOMAIN evidence |-> evidence[i].arrives]),
                               ParseFault(floors.arrives), InputFault(policy.arrives)>>)
    IN IF thrown # "none" THEN Rejected(Fault)
       ELSE IF Refusal(artifacts, policy.value) # "none" THEN Rejected(StructuralFailure)
       ELSE [exit |-> 0, artifact |-> <<Aggregate(artifacts, floors.value, policy.value)>>]

(* The other three commands; the artifact of a pre-flight that failed is   *)
(* written as that of one that passed.                                     *)
OtherResult(p) ==
    LET files == [i \in DOMAIN InputsRead(p) |-> got[p][i]]
    IN IF ArrayFault([i \in DOMAIN files |-> files[i].arrives]) # "none" THEN Rejected(Fault)
       ELSE CASE Last(files).value = "refused" -> Rejected(StructuralFailure)
              [] Last(files).value = "failed" /\ Command(p) = "preflight" ->
                   [exit |-> 3, artifact |-> <<[passed |-> FALSE]>>]
              [] OTHER -> [exit |-> 0, artifact |-> <<[passed |-> TRUE]>>]

(* An artifact goes to stdout or to its file; a run without one is over.   *)
Deliver(p, outcome) ==
    /\ returned' = [returned EXCEPT ![p] = outcome]
    /\ IF outcome.artifact # <<>> /\ invocation[p].out # <<>>
       THEN pc' = [pc EXCEPT ![p] = "opening"] /\ UNCHANGED <<printed, exitCode>>
       ELSE printed' = [printed EXCEPT ![p] = outcome.artifact] /\ Exit(p, outcome.exit)

Call(p) ==
    /\ pc[p] = "reading" /\ Pending(p) = {}
    /\ IF Command(p) = "score" /\ ScoreRefusal(p) = 0 /\ ToResolve(ScoreOptions(p)) # <<>>
       THEN pc' = [pc EXCEPT ![p] = "resolving"] /\ UNCHANGED <<returned, printed, exitCode>>
       ELSE Deliver(p,
              CASE Command(p) = "aggregate-strength" -> AggregateResult(p)
                [] Command(p) \in {"compile", "seal", "preflight"} -> OtherResult(p)
                [] Command(p) = "score" ->
                     IF ScoreRefusal(p) # 0 THEN Rejected(ScoreRefusal(p)) ELSE ScoreResult(p))
    /\ UNCHANGED <<scenario, disk, invocation, checked, got, fetched>>

(* One reference is resolved: what stands below the root, digested.  The   *)
(* private manifest is held to its digests when its last entry came, where *)
(* entries that share a reference share the digest found last; a record's  *)
(* reference is held at once.                                              *)
Unresolvable(reference) == reference.ref \in Escaping \/ disk[Stored[reference.ref]] = <<>>

ResolveReference(p) ==
    LET o == ScoreOptions(p)
        references == ToResolve(o)
        reference == references[Len(fetched[p]) + 1]
        digests == Append(fetched[p], disk[Stored[reference.ref]][1].digest)
        entries == Len(FlattenSeq(Present(o.privates)))
        sharing(i) == {j \in DOMAIN digests : /\ j = i \/ (i <= entries /\ j <= entries)
                                              /\ references[j].ref = references[i].ref}
        resolved(i) == digests[CHOOSE j \in sharing(i) : \A k \in sharing(i) : k <= j]
        held == Len(digests) >= entries
        disagree == \E i \in DOMAIN digests : resolved(i) # references[i].digest
    IN
    /\ pc[p] = "resolving"
    /\ IF Unresolvable(reference) \/ (held /\ disagree)
       THEN Deliver(p, Rejected(Fault)) /\ UNCHANGED fetched
       ELSE /\ fetched' = [fetched EXCEPT ![p] = digests]
            /\ IF Len(digests) = Len(references)
               THEN Deliver(p, ScoreResult(p))
               ELSE UNCHANGED <<pc, returned, printed, exitCode>>
    /\ UNCHANGED <<scenario, disk, invocation, checked, got>>

-----------------------------------------------------------------------------
Cut(p) ==
    [whole |-> FALSE, dup |-> FALSE, digest |-> "cut", arrives |-> Sound, value |-> <<>>,
     by |-> p]

Written(p) ==
    [Cut(p) EXCEPT !.whole = TRUE, !.digest = "written", !.value = returned[p].artifact[1]]

(* writeArtifact opens the file, which empties it, and then writes.        *)
Open(p) ==
    /\ pc[p] = "opening"
    /\ disk' = [disk EXCEPT ![TargetNode(p)] = <<Cut(p)>>]
    /\ pc' = [pc EXCEPT ![p] = "writing"]
    /\ UNCHANGED <<scenario, invocation, checked, got, fetched, returned, printed, exitCode>>

(* The directory cannot be made or the file not be opened: the caller's    *)
(* error, or not.                                                          *)
OpenFails(p) ==
    /\ pc[p] = "opening"
    /\ \E n \in {Usage, Fault} : Exit(p, n)
    /\ UNCHANGED <<scenario, disk, invocation, checked, got, fetched, returned, printed>>

(* Over what another process has written since, a shorter body leaves the  *)
(* end of the longer one.                                                  *)
Write(p) ==
    /\ pc[p] = "writing"
    /\ \E file \in {Written(p)} \cup
                   IF disk[TargetNode(p)][1].by = p THEN {} ELSE {Cut(p)} :
          disk' = [disk EXCEPT ![TargetNode(p)] = <<file>>]
    /\ Exit(p, returned[p].exit)
    /\ UNCHANGED <<scenario, invocation, checked, got, fetched, returned, printed>>

(* Mutant: the exit code of the call, whatever became of its artifact.     *)
WriteFailsUnseen(p) ==
    /\ pc[p] = "writing"
    /\ Exit(p, returned[p].exit)
    /\ UNCHANGED <<scenario, disk, invocation, checked, got, fetched, returned, printed>>

WriteFails(p) ==
    /\ pc[p] = "writing"
    /\ Exit(p, Fault)
    /\ UNCHANGED <<scenario, disk, invocation, checked, got, fetched, returned, printed>>

Kill(p) ==
    /\ pc[p] \notin {"done", "killed"}
    /\ pc' = [pc EXCEPT ![p] = "killed"]
    /\ UNCHANGED <<scenario, disk, invocation, checked, got, fetched, returned, printed, exitCode>>

Next ==
    \E p \in Procs :
        \/ Parse(p)
        \/ CheckInput(p)
        \/ \E i \in Readable(p) : ReadInput(p, i)
        \/ ReadFails(p)
        \/ Call(p)
        \/ ResolveReference(p)
        \/ Open(p)
        \/ OpenFails(p)
        \/ Write(p)
        \/ WriteFails(p)
        \/ Kill(p)

Spec == Init /\ [][Next]_vars
-----------------------------------------------------------------------------
(***************************************************************************)
(* What may be relied on of the files that score and aggregate-strength    *)
(* leave behind, and of the code that a process exits with.                *)
(***************************************************************************)

Running(p) == invocation[p].kind = "run"

Minted(p, command) ==
    Running(p) /\ Command(p) = command /\ returned[p].artifact # <<>>

MintedBy(p) == returned[p].artifact[1]

OpenedBy(p, node) == disk[node] # <<>> /\ disk[node][1].by = p

Touched(p) == printed[p] # <<>> \/ \E node \in DOMAIN disk : OpenedBy(p, node)

(* Another process that writes to the same file.                           *)
Rivalled(p) ==
    \E q \in Procs \ {p} : /\ Running(q) /\ invocation[q].out # <<>>
                           /\ TargetNode(q) = TargetNode(p)

Delivered(p) ==
    /\ returned[p].artifact # <<>>
    /\ IF invocation[p].out = <<>> THEN printed[p] = returned[p].artifact
       ELSE Rivalled(p) \/ (OpenedBy(p, TargetNode(p)) /\ disk[TargetNode(p)][1].whole)

-----------------------------------------------------------------------------
(* A file that was there when the processes started is never changed by    *)
(* one that names it as an input, under whatever path (run.ts, collides).  *)
InputsKept ==
    \A p \in Procs : \A input \in ToSet(InputsRead(p)) :
        /\ input.path # Stdin
        /\ Scenarios[scenario].disk[Node[Resolve[input.path]]] # <<>>
        => ~OpenedBy(p, Node[Resolve[input.path]])

(* A script may act on the code alone (main.ts, exit-codes.ts): 0, 1 and 2 *)
(* come with a whole artifact, 1 and 2 of a score and of the verdict that  *)
(* they stand for; 3 with none, unless it is the verdict of a pre-flight   *)
(* that failed; after 4 and 64 nothing was written at all.                 *)
ExitTells ==
    \A p \in Procs : pc[p] = "done" =>
        LET exit == exitCode[p][1] IN
        /\ exit \in {0, 1, 2} /\ Running(p) =>
              /\ Delivered(p)
              /\ Command(p) = "preflight" => MintedBy(p).passed
        /\ exit \in {1, 2} =>
              /\ Minted(p, "score")
              /\ MintedBy(p).verdict = IF exit = 1 THEN "CONCERNS" ELSE "FAIL"
              /\ exit = 1 => invocation[p].strict
        /\ exit = 3 =>
              IF Command(p) = "preflight" THEN Delivered(p) /\ ~MintedBy(p).passed
              ELSE ~Touched(p)
        /\ exit \in {StructuralFailure, Usage} => ~Touched(p)

-----------------------------------------------------------------------------
(* What a record has to show for itself.                                   *)
Sincere(record) ==
    LET declared == {o.id : o \in ToSet(record.observations)} IN
    /\ \A f \in ToSet(record.findings) : f.cites \subseteq declared
    /\ \A d \in ToSet(record.dispositions) : d.cites \subseteq declared
    /\ \A f \in DefectFindings(record) : \A quote \in f.quotes :
          \E o \in ToSet(record.observations) :
              /\ o.id \in f.cites /\ quote[1] \in DOMAIN o.shows
              /\ quote[2] \in o.shows[quote[1]]

MintedRestsOnRecords ==
    \A p \in Procs : Minted(p, "score") =>
        LET o == ScoreOptions(p)
            records == [i \in DOMAIN o.records |-> o.records[i].value]
        IN /\ o.preflight.value.passed
           /\ o.manifest # <<>> /\ o.configuration # <<>>
           /\ LET manifest == o.manifest[1].value IN
              /\ manifest.violation = <<>> /\ manifest.admitted = {}
              /\ \A i, j \in DOMAIN records :
                    /\ Sincere(records[i])
                    /\ i # j => records[i].trial # records[j].trial
                    /\ records[i].contract = o.contract.value.digest
                    /\ records[i].configuration = o.configuration[1].value
                    /\ manifest.run = records[i].run
                    /\ \A oracle \in ToSet(o.contract.value.oracles) :
                          Len(DispositionsOf(records[i], oracle)) = 1
                    /\ \A outcome \in MintedBy(p).outcomes :
                          outcome.state \notin Invalidating

MintedIsAccepted ==
    \A p \in Procs : Minted(p, "score") =>
        \/ Refusal(<<MintedBy(p)>>, Read(p, "--policy")[1].value) = "none"
        \/ /\ Read(p, "--contract")[1].value.oracles = <<>>
           /\ MintedBy(p).excluded # {}

(* An evidence artifact (application/score.ts, ladder.ts) rests on records *)
(* that are sincere, of distinct trials of one run under the contract, the *)
(* configuration and the isolation manifest that were given; on a          *)
(* pre-flight that passed; and on one answer per trial and oracle.  And    *)
(* aggregate-strength takes it (written apart from emit.ts), the one       *)
(* exception being a probe that does not qualify, under a contract without *)
(* oracles.                                                                *)
MintedIsChecked == MintedRestsOnRecords /\ MintedIsAccepted

(* A floor that is met (aggregate-strength.ts) is met by every probe that  *)
(* counts: each once, each with its minimum of trials and none unreached,  *)
(* and those that a majority of their votes caught over all of them.       *)
FloorMeansAll ==
    \A p \in Procs : Minted(p, "aggregate-strength") =>
        LET evidence == Read(p, "--evidence")
            policy == Read(p, "--policy")[1].value
            floors == Read(p, "--floors")[1].value
        IN \A class \in StrengthClasses : MintedBy(p).floors[class] = "rate-meets-floor" =>
            LET counted == {i \in DOMAIN evidence : evidence[i].value.vector[class] # <<>>}
                votes(i) == evidence[i].value.reduced[1].votes
                cast(i, states) == Cardinality({v \in ToSet(votes(i)) : v.state \in states})
                caught == {i \in counted :
                             cast(i, {"caught"}) * policy.threshold[2]
                                 > cast(i, Voted) * policy.threshold[1]}
            IN /\ counted # {}
               /\ \A i \in counted :
                     /\ cast(i, Voted) > 0
                     /\ evidence[i].value.trials.completed >= policy.minimum
                     /\ \A o \in evidence[i].value.outcomes : o.state # "unreached"
                     /\ \A j \in counted \ {i} :
                           evidence[i].value.probe # evidence[j].value.probe
               /\ Cardinality(caught) * floors[class][2]
                     >= Cardinality(counted) * floors[class][1]

(* The order of --record and of --evidence reaches neither the artifact    *)
(* nor the exit code.                                                      *)
OrderFree ==
    \A p \in Procs : pc[p] \in {"opening", "done"} /\ Running(p) /\ Pending(p) = {} =>
        CASE Command(p) = "score" ->
               LET o == ScoreOptions(p)
                   reversed == [o EXCEPT !.records = Reverse(@)]
               IN /\ IntakeFault(reversed) = IntakeFault(o)
                  /\ IntakeFault(o) = "none" =>
                        /\ Scored(reversed).exits = Scored(o).exits
                        /\ Scored(reversed).artifact = Scored(o).artifact
          [] Command(p) = "aggregate-strength" ->
               LET artifacts == [i \in DOMAIN Read(p, "--evidence") |->
                                    Read(p, "--evidence")[i].value]
                   policy == Read(p, "--policy")[1].value
               IN returned[p].artifact # <<>> =>
                    /\ Refusal(Reverse(artifacts), policy) = "none"
                    /\ Aggregate(Reverse(artifacts), Read(p, "--floors")[1].value, policy)
                          = MintedBy(p)
          [] OTHER -> TRUE

(* Between two evidence artifacts (strength.ts, compareDominance), one     *)
(* dominates the other exactly when both measured the same probe of a      *)
(* class to the policy's minimum, and the one caught it where the other    *)
(* did not; and the answer does not depend on which is named first.        *)
DominanceIsCatch ==
    \A p, q \in Procs : Minted(p, "score") /\ Minted(q, "score") /\ p # q =>
        LET a == MintedBy(p)
            b == MintedBy(q)
            measured(x) == /\ x.trials.completed >= x.trials.minimum
                           /\ ClassesOf(x) # {} /\ x.reduced[1].exercised
                           /\ \A o \in x.outcomes : o.state # "unreached"
            alike == /\ measured(a) /\ measured(b)
                     /\ a.probe = b.probe /\ ClassOf(a) = ClassOf(b)
                     /\ a.inputs.policy = b.inputs.policy
            floor == a.inputs.policy.floor
        IN /\ CompareDominance(a, b, floor) = "a-dominates-b"
                 <=> alike /\ a.reduced[1].caught /\ ~b.reduced[1].caught
           /\ CompareDominance(a, b, floor) = "b-dominates-a"
                 <=> CompareDominance(b, a, floor) = "a-dominates-b"
           /\ CompareDominance(a, b, floor) = "equivalent"
                 <=> alike /\ a.reduced[1].caught = b.reduced[1].caught

(* What is said of an evaluator's strength was measured: a floor that is   *)
(* met is met by probes that count, and a dominance is one by catches      *)
(* (aggregate-strength.ts and strength.ts).                                *)
StrengthEarned == FloorMeansAll /\ DominanceIsCatch
================================================================================
