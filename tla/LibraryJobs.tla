------------------------------ MODULE LibraryJobs ------------------------------
(***************************************************************************)
(* The jobs of the software library: a job is a record of its kind and of  *)
(* the inputs of one pure part of the library, and every part promises     *)
(* something of its answer.  A behaviour takes one job after another, each *)
(* with inputs that the library accepts.                                   *)
(***************************************************************************)
EXTENDS StreamedS2, GariCompile, ComponentTemplates, PaperStage1, GrossCode

VARIABLE job

Is(kind) == job.kind = kind

\* The inputs the library accepts: CheckDegree messages and a syndrome bit; an image over
\* numbered faults; a torus with shifts of it; an error model over the detectors.
LegalJob ==
  /\ Is("update") => job.x \in [1 .. CheckDegree -> Int] /\ job.bit \in 0 .. 1
  /\ Is("completion") => IsImage(job.image)
  /\ Is("circuit") => /\ IsCircuit(job.circuit)
                      /\ IsLabelling(job.circuit, job.inverse, job.overrides)
  /\ Is("stream") => IsStream(job.dem, job.target)
  /\ Is("batch") => IsShotBatch(job.graph, job.targets, job.profiles)
  /\ Is("code") => IsShape([ell |-> job.ell, m |-> job.m, a |-> job.a, b |-> job.b])
  /\ Is("model") => job.dem # <<>> /\ job.dem \in Models({job.dem[v].prior : v \in DOMAIN job.dem})

JobSpec == LegalJob /\ [][LegalJob']_job

-----------------------------------------------------------------------------
(* The promises of the pure parts.                                         *)

\* UpdatesAgree of CheckUpdate: the check updates of the library are one function.
CheckUpdatesAgree == Is("update") => UpdatesAgree(job.x, job.bit)

\* CompletionIsExact of NeutralCompletion: a residual is repaired exactly if neutral
\* faults can repair it.
CompletionsAreExact == Is("completion") => CompletionIsExact(job.image)

\* ImageIsExact of QuotientImage and ComponentImageIsExact of ComponentTemplates: an
\* accepted template image is the error model, and all compilers make the same one.
ImagesAreExact == Is("model") => ImageIsExact(job.dem) /\ ComponentImageIsExact(job.dem)

\* BanksNeverCollide of QuotientImage: no two edges of a beat meet in a bank.
BeatsAreConflictFree == Is("model") => BanksNeverCollide(job.dem)

\* GariRoundTrip of GariCompile: a GARI image decides for its circuit.
CircuitsRoundTrip == Is("circuit") => GariRoundTrip(job.circuit, job.inverse, job.overrides)

\* StreamMatchesSweep of StreamedS2 and RowsAreShots of PaperStage1: the streamed pass is
\* one sweep of the wide decoder, and the rows of a batch are rescued as they are shot by shot.
StreamsMatch == Is("stream") => StreamMatchesSweep(job.dem, job.target)
BatchesMatch == Is("batch") => RowsAreShots(job.graph, job.targets, job.profiles)
PassesAndBatchesAgree == StreamsMatch /\ BatchesMatch

\* PairedBasis of GrossCode: the code passes its own validation and its logical bits
\* separate stabilizers from logical errors.
CodesArePaired == Is("code") => PairedBasis([ell |-> job.ell, m |-> job.m, a |-> job.a, b |-> job.b])
=============================================================================
