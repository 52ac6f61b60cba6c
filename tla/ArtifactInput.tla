---------------------------- MODULE ArtifactInput ----------------------------
(***************************************************************************)
(* What every stage of application/ does with an artifact first: the       *)
(* version it is stamped with is read off the raw value, ahead of the      *)
(* strict parse, so that a stale artifact is not reported as a malformed   *)
(* one.  An artifact is [stamp, fits]: its stamp against the version that  *)
(* this build reads, and whether it has this build's shape.                *)
(***************************************************************************)
EXTENDS SequencesExt

Stamps == {"none", "equal", "other"}

Artifacts == [stamp : Stamps, fits : BOOLEAN]

Sound == [stamp |-> "equal", fits |-> TRUE]

(* checkSchemaVersion, behind the numeric test of its callers.             *)
VersionFault(artifact) ==
    IF artifact.stamp = "other" THEN "schema-version-mismatch" ELSE "none"

ParseFault(artifact) == IF artifact.fits THEN "none" ELSE "schema-parse-failure"

FirstFault(faults) ==
    LET thrown == {i \in DOMAIN faults : faults[i] # "none"}
    IN IF thrown = {} THEN "none" ELSE faults[Min(thrown)]

(* An array of artifacts: every stamp, then one parse of the whole.        *)
ArrayFault(artifacts) ==
    FirstFault([i \in DOMAIN artifacts |-> VersionFault(artifacts[i])]
                   \o [i \in DOMAIN artifacts |-> ParseFault(artifacts[i])])

InputFault(artifact) == ArrayFault(<<artifact>>)
=============================================================================
