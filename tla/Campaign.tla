------------------------------ MODULE Campaign ------------------------------
(***************************************************************************)
(* The board campaign as a program (tools/run_paper_gross144_four_lane_    *)
(* board_campaign.py: main) with the resident C tail it hands deferred     *)
(* words to (paper_gross144_cpu_telescope.py).  The Board object is its    *)
(* outcome: an exception after the retries BoardLink models, or a reply.   *)
(* The worker is its outcome: CTail models how an answer comes about.      *)
(*                                                                         *)
(* A campaign starts from what earlier ones left in build/c_tail: a        *)
(* process that is killed while the exporter or gcc writes leaves a part   *)
(* of a file under its final name.  `Starts' bounds the campaigns.         *)
(***************************************************************************)
EXTENDS Integers, FiniteSets

CONSTANTS
  Shots,           \* args.shots
  BatchSize,       \* args.batch_size
  CaseLimit,       \* args.failure_case_limit
  Allowed,         \* most failures of Shots whose upper 95 % bound is <= 1e-5, or -1
  Starts           \* campaigns run one after another

ASSUME CampaignAssumption ==
  /\ {Shots, BatchSize, Starts} \subseteq Nat \ {0}
  /\ CaseLimit \in Nat /\ Allowed \in -1..Shots

VARIABLES
  args,        \* the switches: handoff, corpus, smoke, gate
  phase,       \* where the program is
  files,       \* build/c_tail: the image and the binary, "none", "part" or "whole"
  worker,      \* "none", "ready", "stopped", "hung" or "closed"
  starts,
  batch,       \* shots left of the sampled batch
  fpga,        \* the result of the shot under way
  endpoint,    \* [success, right] of the shot under way
  count,       \* the counters of main
  cases,       \* failure_cases: indices of their shots
  report,      \* what the report states
  answers      \* history: what the endpoint answered to each shot, see Answer

campaignVars == <<args, phase, files, worker, starts, batch, fpga, endpoint, count, cases,
                  report, answers>>
loop == <<batch, fpga, endpoint, count, cases, answers>>

Counters == {"shots", "transport", "error", "basis", "deferred", "fpgaFailures",
             "handoff", "accepted", "rejected", "tailErrors", "failures", "corpus"}
NoReport == [functional |-> FALSE, endpoint |-> FALSE, exit |-> 1, shots |-> 0]

\* What decode_payload returns.  right: the logical word is the sampled one.  A guard of the
\* controller sets error beside the verdict the same cycle wrote, and the endpoint sends all
\* three flags on.
Reply == {r \in [transport : {FALSE}, success : BOOLEAN, deferred : BOOLEAN, error : BOOLEAN,
                right : BOOLEAN] :
            ~(r.success /\ r.deferred) /\ (r.success \/ r.deferred \/ r.error)}

\* The placeholder of a call that raised: an error, with logical word -1.
NoReply == [transport |-> TRUE, success |-> FALSE, deferred |-> FALSE, error |-> TRUE,
            right |-> FALSE]
Outcome == Reply \cup {NoReply}

\* --deferred-corpus requires --cpu-telescope-handoff.
Args == {a \in [handoff : BOOLEAN, corpus : BOOLEAN, smoke : BOOLEAN, gate : BOOLEAN] :
           a.corpus => a.handoff}

CampaignTypeOK ==
  /\ args \in Args
  /\ phase \in {"image", "binary", "spawn", "batch", "shot", "tail", "tally", "close",
                "report", "ended", "aborted"}
  /\ files \in [{"image", "binary"} -> {"none", "part", "whole"}]
  /\ worker \in {"none", "ready", "stopped", "hung", "closed"}
  /\ starts \in 1..Starts
  /\ batch \in 0..BatchSize
  /\ fpga \in Outcome /\ endpoint \in [success : BOOLEAN, right : BOOLEAN]
  /\ count \in [Counters -> 0..Shots]
  /\ cases \subseteq 0..(Shots - 1) /\ Cardinality(cases) <= CaseLimit
  /\ answers \in [1..count["shots"] -> {"right", "flagged", "wrong"}]

FirstPhase == IF args.handoff THEN "image" ELSE "batch"

CampaignInit ==
  /\ args \in Args
  /\ phase = FirstPhase
  /\ files = [f \in {"image", "binary"} |-> "none"]
  /\ worker = "none" /\ starts = 1 /\ batch = 0
  /\ fpga = NoReply /\ endpoint = [success |-> FALSE, right |-> FALSE]
  /\ count = [c \in Counters |-> 0]
  /\ cases = {} /\ report = NoReport /\ answers = <<>>

-----------------------------------------------------------------------------
(* _CRelayWorker.__init__: the cached files, then the process.             *)

After == [image |-> "binary", binary |-> "spawn"]

\* A file that exists is used as it is; one that does not is written in place, and a
\* kill on the way leaves a part of it.
Build(f) ==
  /\ phase = f
  /\ \/ files[f] # "none" /\ phase' = After[f] /\ UNCHANGED files
     \/ files[f] = "none" /\ phase' = After[f] /\ files' = [files EXCEPT ![f] = "whole"]
     \/ files[f] = "none" /\ phase' = "aborted" /\ files' = [files EXCEPT ![f] = "part"]
     \/ files[f] = "none" /\ phase' = "aborted" /\ UNCHANGED files
  /\ UNCHANGED <<args, worker, starts, loop, report>>

\* The loader reads every array in full, and half a program does not run.
Runs == \A f \in DOMAIN files : files[f] = "whole"

\* No ready line, another backend, or other settings than those asked for: the worker
\* is closed and the constructor raises.
Spawn ==
  /\ phase = "spawn"
  /\ \/ Runs /\ worker' = "ready" /\ phase' = "batch"
     \/ worker' = "none" /\ phase' = "aborted"
  /\ UNCHANGED <<args, files, starts, loop, report>>

-----------------------------------------------------------------------------
(* The sampling loop.                                                      *)

Min2(a, b) == IF a < b THEN a ELSE b

Sample ==
  /\ phase = "batch" /\ batch = 0 /\ count["shots"] < Shots
  /\ batch' = Min2(BatchSize, Shots - count["shots"])
  /\ phase' = "shot"
  /\ UNCHANGED <<args, files, worker, starts, fpga, endpoint, count, cases, report, answers>>

Bump(c, which) == [k \in Counters |-> c[k] + (IF k \in which THEN 1 ELSE 0)]

\* One decode_payload.  Only a deferred shot goes to the tail, also when its reply is an error.
BoardShot ==
  /\ phase = "shot" /\ batch > 0
  /\ \E r \in Outcome :
       /\ fpga' = r
       /\ endpoint' = [success |-> r.success, right |-> r.right]
       /\ count' = Bump(count, IF r.transport THEN {"transport"} ELSE {})
       /\ phase' = IF r.deferred /\ args.handoff THEN "tail" ELSE "tally"
  /\ UNCHANGED <<args, files, worker, starts, batch, cases, report, answers>>

\* The reply names the other basis: RuntimeError, through the finally clause.
WrongBasis ==
  /\ phase = "shot" /\ batch > 0
  /\ phase' = "aborted"
  /\ worker' = IF worker = "none" THEN "none" ELSE "closed"
  /\ UNCHANGED <<args, files, starts, loop, report>>

Kept == IF args.corpus THEN {"corpus"} ELSE {}

\* The worker answers: accepted or not, with some logical word.
TailAnswers ==
  /\ phase = "tail" /\ worker = "ready"
  /\ \E accepted, right \in BOOLEAN :
       /\ endpoint' = [success |-> accepted, right |-> right]
       /\ count' = Bump(count, {"handoff", IF accepted THEN "accepted" ELSE "rejected"} \cup Kept)
  /\ phase' = "tally"
  /\ UNCHANGED <<args, files, worker, starts, batch, fpga, cases, report, answers>>

\* Mutant: the board's word stands when the tail raises.
TailFailsOpen ==
  /\ phase = "tail" /\ worker \in {"ready", "stopped"}
  /\ worker' \in {worker, "stopped"}
  /\ endpoint' = [endpoint EXCEPT !.success = TRUE]
  /\ count' = Bump(count, {"handoff", "tailErrors"} \cup Kept)
  /\ phase' = "tally"
  /\ UNCHANGED <<args, files, starts, batch, fpga, cases, report, answers>>

\* It stops, answers "ok": false or something that is no answer, or stopped before: the
\* shot fails and the campaign goes on, without a new worker.
TailFails ==
  /\ phase = "tail" /\ worker \in {"ready", "stopped"}
  /\ worker' \in {worker, "stopped"}
  /\ endpoint' = [endpoint EXCEPT !.success = FALSE]
  /\ count' = Bump(count, {"handoff", "tailErrors"} \cup Kept)
  /\ phase' = "tally"
  /\ UNCHANGED <<args, files, starts, batch, fpga, cases, report, answers>>

\* It does neither.  readline has no deadline.
TailHangs ==
  /\ phase = "tail" /\ worker = "ready"
  /\ worker' = "hung"
  /\ UNCHANGED <<args, phase, files, starts, loop, report>>

FpgaFailed == fpga.transport \/ ~fpga.success \/ fpga.deferred \/ fpga.error \/ ~fpga.right

\* Mutant: an accepted answer is a good one.
FailedAccepted == ~endpoint.success

Failed ==
  \/ fpga.transport \/ fpga.error
  \/ fpga.deferred /\ ~args.handoff
  \/ ~endpoint.success \/ ~endpoint.right

\* What the shot came to: "flagged" is an accepted, right answer to a shot whose reply was
\* an error.
Answer ==
  IF ~endpoint.success \/ ~endpoint.right THEN "wrong"
  ELSE IF fpga.error THEN "flagged" ELSE "right"

\* Mutant: the loop is not left after the last shot.
AfterShotOneMore == IF batch > 1 THEN "shot" ELSE IF count["shots"] <= Shots THEN "batch" ELSE "close"

\* The two loops: shots of the batch, batches until all shots are taken.
AfterShot == IF batch > 1 THEN "shot" ELSE IF count["shots"] + 1 < Shots THEN "batch" ELSE "close"

\* The counters and the failure case of the shot.
Tally ==
  /\ phase = "tally"
  /\ count' = Bump(count, {"shots"} \cup (IF FpgaFailed THEN {"fpgaFailures"} ELSE {})
       \cup (IF Failed THEN {"failures"} ELSE {})
       \cup (IF fpga.deferred THEN {"deferred"} ELSE {})
       \cup (IF fpga.error THEN {"error"} ELSE {})
       \cup (IF fpga.transport THEN {"basis"} ELSE {}))
  /\ cases' = IF Failed /\ Cardinality(cases) < CaseLimit
                THEN cases \cup {count["shots"]} ELSE cases
  /\ answers' = [i \in 1..(count["shots"] + 1) |->
                   IF i <= count["shots"] THEN answers[i] ELSE Answer]
  /\ batch' = batch - 1
  /\ phase' = AfterShot
  /\ UNCHANGED <<args, files, worker, starts, fpga, endpoint, report>>

-----------------------------------------------------------------------------
(* The end.                                                                *)

\* The finally clause: the tail is closed before the report is written.
Close ==
  /\ phase = "close"
  /\ worker' = IF worker = "none" THEN "none" ELSE "closed"
  /\ phase' = "report"
  /\ UNCHANGED <<args, files, starts, loop, report>>

TransportPass == count["transport"] = 0 /\ count["error"] = 0 /\ count["basis"] = 0

\* crc: did the parser in use count an error?  slow: is the mean over the gate?
WriteReport ==
  /\ phase = "report"
  /\ \E crc, slow \in BOOLEAN :
       LET transportPass == TransportPass /\ ~crc
           functional == count["failures"] = 0 /\ transportPass
           endpointPass == /\ count["failures"] <= Allowed
                           /\ transportPass /\ (~args.gate \/ ~slow) IN
       report' = [functional |-> functional, endpoint |-> endpointPass,
                  exit |-> IF (IF args.smoke THEN functional ELSE endpointPass)
                             THEN 0 ELSE 1,
                  shots |-> count["shots"]]
  /\ phase' = "ended"
  /\ UNCHANGED <<args, files, worker, starts, loop>>

\* The operator starts the campaign again over the same build directory.
StartAgain ==
  /\ phase = "aborted" /\ starts < Starts
  /\ starts' = starts + 1
  /\ phase' = FirstPhase
  /\ worker' = "none" /\ batch' = 0
  /\ fpga' = NoReply /\ endpoint' = [success |-> FALSE, right |-> FALSE]
  /\ count' = [c \in Counters |-> 0]
  /\ cases' = {} /\ answers' = <<>>
  /\ UNCHANGED <<args, files, report>>

CampaignStep ==
  \/ \E f \in {"image", "binary"} : Build(f)
  \/ Spawn \/ Sample \/ BoardShot \/ WrongBasis
  \/ TailAnswers \/ TailFails \/ TailHangs
  \/ Tally \/ Close \/ WriteReport \/ StartAgain

\* The program runs on by itself; an operator need not start it again, and a worker may
\* hang.  Waiting for a worker that does not hang ends.
CampaignFairness ==
  /\ WF_campaignVars(\/ \E f \in {"image", "binary"} : Build(f)
             \/ Spawn \/ Sample \/ BoardShot \/ Tally \/ Close \/ WriteReport)
  /\ WF_campaignVars(TailAnswers \/ TailFails)

CampaignSpec == CampaignInit /\ [][CampaignStep]_campaignVars /\ CampaignFairness

-----------------------------------------------------------------------------
(* Properties.                                                             *)

Marked(history, kinds) == {i \in DOMAIN history : history[i] \in kinds}
Wrong == Marked(answers, {"wrong"})
Flagged == Marked(answers, {"flagged"})

\* The gate of a release: exit code 0 means that all shots asked for were taken, no reply
\* was an error, each shot was answered, and no more were answered wrong than the bound
\* allows; with --smoke none.
ExitZeroIsEarned ==
  (phase = "ended" /\ report.exit = 0) =>
    /\ DOMAIN answers = 1..Shots
    /\ Flagged = {}
    /\ Cardinality(Wrong) <= (IF args.smoke THEN 0 ELSE Allowed)

\* The error rate is not flattered: every shot without an accepted, right answer counts as
\* a failure, whatever of board, link or tail lost it; beyond these only a shot whose reply
\* was an error does, so that one the board deferred without an error and the tail repaired
\* does not; and a shot the tail rejected or raised on is never taken as right.
FailuresAreTheWrongShots ==
  /\ \A s \in 0..(count["shots"] - 1) : s \in cases => (s + 1) \in Wrong \cup Flagged
  /\ count["failures"] = Cardinality(Wrong) + Cardinality(Flagged)
  /\ Cardinality(Flagged) <= count["error"] /\ count["error"] <= count["failures"]
  /\ count["failures"] <= count["fpgaFailures"]
  /\ phase # "tally" => count["tailErrors"] + count["rejected"] <= Cardinality(Wrong)

\* A campaign ends, by its report or by an exception, unless its worker hangs.
EndsUnlessHung == <>(phase \in {"ended", "aborted"} \/ worker = "hung")
=============================================================================
