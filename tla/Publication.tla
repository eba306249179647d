------------------------------ MODULE Publication ------------------------------
(***************************************************************************)
(* How a step of the two GitHub actions publishes its answer: main of       *)
(* adapters/github_action.py and of adapters/github_terminal.py write the   *)
(* report file, the step summary, the step outputs and standard output, and *)
(* the shell of terminal/action.yml adds outputs of its own.  Any of these  *)
(* writes may fail and the process may be killed between any two of them.   *)
(*                                                                         *)
(* Steps of one job run one after the other and may name one report file;   *)
(* every step starts with no outputs, and the last value of an output wins. *)
(***************************************************************************)
EXTENDS Naturals

CONSTANT MaxSteps   \* bound on the steps that share the report file

ASSUME StepAssumption == MaxSteps \in Nat \ {0}

VARIABLES
  program,      \* "action" or "terminal"
  step,         \* the number of the step
  pc,
  file,         \* what the report file holds
  outputs,      \* report-path and content-sha256, and the outputs after them
  status        \* the exit status of the process, or -

vars == <<program, step, pc, file, outputs, status>>

(* A report is named by its kind and its step; it stands for its own        *)
(* content_sha256 as well.  A file that was only partly written is no JSON. *)
Kind == {"bundle", "unavailable", "envelope"}
Report == [kind : Kind, step : 1 .. MaxSteps]
NoFile == [kind |-> "none", step |-> 0]
Torn == [kind |-> "torn", step |-> 0]
File == Report \cup {NoFile, Torn}

NoSha == [kind |-> "empty", step |-> 0]
Unset == [kind |-> "unset", step |-> 0]
NoOutputs == [path |-> FALSE, sha |-> Unset, claims |-> Unset]
Outputs == [path : BOOLEAN, sha : Report \cup {NoSha, Unset}, claims : Report \cup {Unset}]

Mine(kind) == [kind |-> kind, step |-> step]

-----------------------------------------------------------------------------
(* argparse ends the process with SystemExit, which no handler catches.     *)
BadArguments ==
  /\ pc = "start"
  /\ status' = "2"
  /\ pc' = "shell"
  /\ UNCHANGED <<program, step, file, outputs>>

(* The evidence is acquired and verified: github_terminal.py knows no       *)
(* UNAVAILABLE bundle.                                                      *)
Acquire ==
  /\ pc = "start"
  /\ pc' \in IF program = "action" THEN {"write bundle", "write unavailable"}
             ELSE {"write bundle"}
  /\ UNCHANGED <<program, step, file, outputs, status>>

(* Where an exception of main goes: github_action.py prints it and returns, *)
(* github_terminal.py writes an error envelope first.                       *)
Raise ==
  IF program = "terminal"
  THEN pc' = "write envelope" /\ UNCHANGED status
  ELSE pc' = "shell" /\ status' = "1"

AcquireFails ==
  /\ pc = "start"
  /\ Raise
  /\ UNCHANGED <<program, step, file, outputs>>

(* write_text empties the file before it writes it.                         *)
Write(kind, next) ==
  /\ file' = Mine(kind)
  /\ pc' = next
  /\ UNCHANGED <<program, step, outputs, status>>

WriteFails == file' \in {file, Torn} /\ UNCHANGED <<program, step, outputs>>

WriteReport ==
  \/ pc = "write bundle" /\ Write("bundle", "bundle summary")
  \/ pc = "write unavailable" /\ Write("unavailable", "unavailable summary")
WriteReportFails ==
  /\ pc \in {"write bundle", "write unavailable"}
  /\ Raise
  /\ WriteFails

Said == IF pc \in {"bundle summary", "bundle outputs", "bundle print"}
        THEN "bundle" ELSE "unavailable"

WriteSummary ==
  /\ pc \in {"bundle summary", "unavailable summary"}
  /\ pc' = IF Said = "bundle" THEN "bundle outputs" ELSE "unavailable outputs"
  /\ UNCHANGED <<program, step, file, outputs, status>>
WriteSummaryFails ==
  /\ pc \in {"bundle summary", "unavailable summary"}
  /\ Raise
  /\ UNCHANGED <<program, step, file, outputs>>

(* The outputs are appended in one order: the path, the digest, the rest.   *)
Named(kind) == [outputs EXCEPT !.path = TRUE, !.sha = Mine(kind)]
WriteOutputs ==
  /\ pc \in {"bundle outputs", "unavailable outputs"}
  /\ outputs' = [Named(Said) EXCEPT !.claims = Mine(Said)]
  /\ pc' = IF Said = "bundle" THEN "bundle print" ELSE "unavailable print"
  /\ UNCHANGED <<program, step, file, status>>
(* A failure of the write leaves a prefix.                                  *)
Prefixes(kind) == {outputs, [outputs EXCEPT !.path = TRUE], Named(kind)}
(* The fault: the failure is ignored.                                       *)
FaultyWriteOutputsFails ==
  /\ pc \in {"bundle outputs", "unavailable outputs"}
  /\ outputs' \in Prefixes(Said)
  /\ pc' = IF Said = "bundle" THEN "bundle print" ELSE "unavailable print"
  /\ UNCHANGED <<program, step, file, status>>
WriteOutputsFails ==
  /\ pc \in {"bundle outputs", "unavailable outputs"}
  /\ outputs' \in Prefixes(Said)
  /\ Raise
  /\ UNCHANGED <<program, step, file>>

(* Standard output may be closed.                                           *)
PrintReport ==
  /\ pc \in {"bundle print", "unavailable print"}
  /\ pc' = "shell"
  /\ status' = "0"
  /\ UNCHANGED <<program, step, file, outputs>>
PrintReportFails ==
  /\ pc \in {"bundle print", "unavailable print"}
  /\ Raise
  /\ UNCHANGED <<program, step, file, outputs>>

-----------------------------------------------------------------------------
(* The handler of github_terminal.py; an OSError in it is only printed.     *)
WriteEnvelope ==
  /\ pc = "write envelope"
  /\ Write("envelope", "envelope outputs")
WriteEnvelopeFails ==
  /\ pc = "write envelope"
  /\ WriteFails
  /\ pc' = "shell"
  /\ status' = "1"

WriteErrorOutputs ==
  /\ pc = "envelope outputs"
  /\ outputs' \in Prefixes("envelope")
  /\ pc' = "shell"
  /\ status' = "1"
  /\ UNCHANGED <<program, step, file>>

(* The process is killed.                                                   *)
Killed ==
  /\ pc \notin {"shell", "done"}
  /\ status' = "137"
  /\ pc' = "shell"
  /\ file' \in IF pc \in {"write bundle", "write unavailable", "write envelope"}
               THEN {file, Torn} ELSE {file}
  /\ outputs' \in CASE pc = "bundle outputs" -> Prefixes("bundle")
                    [] pc = "unavailable outputs" -> Prefixes("unavailable")
                    [] pc = "envelope outputs" -> Prefixes("envelope")
                    [] OTHER -> {outputs}
  /\ UNCHANGED <<program, step>>

(* terminal/action.yml: after a failure the file that is there is named by  *)
(* the outputs, with its digest if it can be read.  action.yml adds nothing.*)
(* The fault: nothing is added.                                             *)
FaultyExpose == outputs
(* The fault: a broken file is taken at its word.                           *)
FaultyDigest ==
  IF program = "terminal" /\ status # "0" /\ file # NoFile
  THEN [outputs EXCEPT !.path = TRUE, !.sha = file]
  ELSE outputs
Expose ==
  IF program = "terminal" /\ status # "0" /\ file # NoFile
  THEN [outputs EXCEPT !.path = TRUE, !.sha = IF file = Torn THEN NoSha ELSE file]
  ELSE outputs
Shell ==
  /\ pc = "shell"
  /\ outputs' = Expose
  /\ pc' = "done"
  /\ UNCHANGED <<program, step, file, status>>

NextStep ==
  /\ pc = "done"
  /\ step < MaxSteps
  /\ step' = step + 1
  /\ pc' = "start"
  /\ outputs' = NoOutputs
  /\ status' = "-"
  /\ UNCHANGED <<program, file>>

Init ==
  /\ program \in {"action", "terminal"}
  /\ step = 1
  /\ pc = "start"
  /\ file = NoFile
  /\ outputs = NoOutputs
  /\ status = "-"

Next ==
  \/ BadArguments \/ Acquire \/ AcquireFails
  \/ WriteReport \/ WriteReportFails \/ WriteSummary \/ WriteSummaryFails
  \/ WriteOutputs \/ WriteOutputsFails \/ PrintReport \/ PrintReportFails
  \/ WriteEnvelope \/ WriteEnvelopeFails \/ WriteErrorOutputs
  \/ Killed \/ Shell \/ NextStep

Spec == Init /\ [][Next]_vars

-----------------------------------------------------------------------------
(* The values of the variables.                                             *)
TypeOK ==
  /\ program \in {"action", "terminal"}
  /\ step \in 1 .. MaxSteps
  /\ pc \in {"start", "write bundle", "bundle summary", "bundle outputs",
             "bundle print", "write unavailable", "unavailable summary",
             "unavailable outputs", "unavailable print", "write envelope",
             "envelope outputs", "shell", "done"}
  /\ file \in File
  /\ outputs \in Outputs
  /\ status \in {"-", "0", "1", "2", "137"}

(* A step that succeeds has published one report, its own, everywhere.      *)
SuccessIsWhole ==
  pc = "done" /\ status = "0" =>
    \E kind \in {"bundle", "unavailable"} :
      /\ file = Mine(kind)
      /\ outputs = [path |-> TRUE, sha |-> Mine(kind), claims |-> Mine(kind)]

(* However a step ends, the digest among its outputs is that of the file,   *)
(* even when the envelope has replaced a bundle that was already announced. *)
DigestOfFile ==
  pc = "done" /\ outputs.sha \notin {Unset, NoSha} => outputs.sha = file
=============================================================================
