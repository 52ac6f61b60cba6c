------------------------------ MODULE MCScoreStage ------------------------------
EXTENDS ScoreStage

MCOracles == <<"O-1", "O-2">>

Seeded == [class |-> "defect", clean |-> FALSE, signed |-> TRUE, homed |-> TRUE,
           sound |-> TRUE]

Clean == [Seeded EXCEPT !.class = "zero-action", !.clean = TRUE, !.signed = FALSE]

Canary == [Seeded EXCEPT !.class = "canary", !.signed = FALSE]

Ordinary == [probe |-> Seeded, designated |-> "O-2", judge |-> "conforming",
             waiver |-> "none", fault |-> FALSE, preflight |-> TRUE,
             mode |-> "production", recommendation |-> "PASS", gap |-> FALSE]

(* The ordinary run, and each departure from it that a rule reads.         *)
MCSettings ==
    {Ordinary,
     [Ordinary EXCEPT !.designated = "none", !.recommendation = "CONCERNS"],
     [Ordinary EXCEPT !.designated = "O-9"],
     [Ordinary EXCEPT !.probe = Clean, !.gap = TRUE],
     [Ordinary EXCEPT !.probe = Canary, !.designated = "O-1"],
     [Ordinary EXCEPT !.probe.homed = FALSE, !.fault = TRUE],
     [Ordinary EXCEPT !.judge = "malformed"],
     [Ordinary EXCEPT !.waiver = "applied-condition-met"],
     [Ordinary EXCEPT !.waiver = "applied-condition-unmet",
                      !.mode = "contract-scoring", !.recommendation = "FAIL"],
     [Ordinary EXCEPT !.probe.class = "zero-action", !.probe.signed = FALSE,
                      !.preflight = FALSE]}

Call(id, home, chosen, admitted, resolves) ==
    [id |-> id, home |-> home, chosen |-> chosen, admitted |-> admitted,
     resolves |-> resolves]

Hit == Call("hit", TRUE, TRUE, TRUE, "true")
Dud == Call("dud", TRUE, TRUE, TRUE, "insufficient-evidence")
Fine == Call("fine", TRUE, TRUE, TRUE, "false")
Baseline == Call("hit", TRUE, FALSE, TRUE, "true")

(* Each of the six witness results arises from one of these records with a *)
(* filing below; Baseline is Hit's call made by the harness.               *)
MCRecords == {{Baseline}, {Hit}, {Fine}, {Hit, Fine}, {Dud}}

Finding(id, oracle, own, cites, severe, sure) ==
    [id |-> id, oracle |-> oracle, own |-> own, cites |-> cites,
     severe |-> severe, sure |-> sure]

Shown == Finding("F-1", "O-2", TRUE, {"hit"}, TRUE, TRUE)
Guessed == Finding("F-2", "O-2", TRUE, {"fine"}, FALSE, TRUE)
Astray == Finding("F-3", "O-1", FALSE, {"fine"}, FALSE, TRUE)
Misfiled == Finding("F-5", "O-1", TRUE, {"fine"}, FALSE, TRUE)
Loose == Finding("F-4", "none", TRUE, {"hit"}, TRUE, FALSE)

MCFilings == {{}, {Shown}, {Guessed}, {Shown, Guessed}, {Astray}, {Misfiled}, {Loose}}

Answer(disposition, supported, check, steps, ambiguous) ==
    [disposition |-> disposition, supported |-> supported, check |-> check,
     steps |-> steps, ambiguous |-> ambiguous]

Held == Answer("held", TRUE, "true", "some-resolved", FALSE)
Starved == Answer("violated", FALSE, "insufficient-evidence", "all-none", FALSE)
Unanswered == Answer("none", FALSE, "true", "some-resolved", TRUE)

MCAnswers == [o \in {"O-1", "O-2"} |->
                IF o = "O-1" THEN {Held, Starved} ELSE {Held, Starved, Unanswered}]

MCIntegrity == {{}, {"judge-result-unscored"}}
=================================================================================
