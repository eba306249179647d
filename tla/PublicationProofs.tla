--------------------------- MODULE PublicationProofs ---------------------------
(***************************************************************************)
(* Theorems about Publication: what a step that ended has published, for    *)
(* any number of steps that share a report file.                            *)
(***************************************************************************)
EXTENDS Publication, TLAPS

Writing == {"start", "write bundle", "write unavailable"}
Saying == {"bundle summary", "bundle outputs", "unavailable summary",
           "unavailable outputs"}
Printing == {"bundle print", "unavailable print"}
Failing == {"write envelope", "envelope outputs"}

Whole(kind) == [path |-> TRUE, sha |-> Mine(kind), claims |-> Mine(kind)]
Answer == {"bundle", "unavailable"}

(* What the file and the outputs are at each place of the program: a report  *)
(* is announced only once it is in the file, and is then not replaced but by *)
(* an envelope, which only github_terminal.py writes and its shell names.    *)
ReportInv ==
  /\ TypeOK
  /\ pc \in Writing => outputs = NoOutputs
  /\ pc \in Saying => outputs = NoOutputs /\ file = Mine(Said)
  /\ pc \in Printing => outputs = Whole(Said) /\ file = Mine(Said)
  /\ pc \in Failing => program = "terminal"
  /\ pc = "envelope outputs" => file = Mine("envelope")
  /\ pc \in Failing \cup {"shell"} => (file = NoFile => outputs.sha = Unset)
  /\ pc = "shell" =>
       /\ program = "action" => outputs.sha \in {Unset, file}
       /\ status = "0" =>
            \E kind \in Answer : file = Mine(kind) /\ outputs = Whole(kind)
  /\ SuccessIsWhole
  /\ DigestOfFile

(* A report of this step is one of the reports, and neither no file nor a    *)
(* broken one.                                                              *)
LEMMA MineIsReport ==
  ASSUME TypeOK, NEW kind \in Kind
  PROVE /\ Mine(kind) \in Report
        /\ Mine(kind) \in File
        /\ Mine(kind) # NoFile /\ Mine(kind) # Torn
        /\ Mine(kind) # Unset /\ Mine(kind) # NoSha
  BY DEF TypeOK, Mine, Report, File, Kind, NoFile, Torn, Unset, NoSha

(* What is said is an answer.                                               *)
LEMMA SaidIsAnswer == Said \in Answer
  BY DEF Said, Answer

(* The outputs a broken-off write may leave: the digest, if there, is that   *)
(* of the report.                                                           *)
LEMMA PrefixesTyped ==
  ASSUME TypeOK, NEW kind \in Kind, NEW o \in Prefixes(kind)
  PROVE /\ o \in Outputs
        /\ o.sha = outputs.sha \/ o.sha = Mine(kind)
  <1>1. Mine(kind) \in Report
    BY MineIsReport
  <1>2. outputs \in Outputs
    BY DEF TypeOK
  <1> QED
    BY <1>1, <1>2 DEF Prefixes, Named, Outputs

(* The outputs of a whole answer, whatever they were before.                 *)
LEMMA WholeTyped ==
  ASSUME TypeOK, NEW kind \in Kind
  PROVE /\ Whole(kind) \in Outputs
        /\ [Named(kind) EXCEPT !.claims = Mine(kind)] = Whole(kind)
  <1>1. Mine(kind) \in Report
    BY MineIsReport
  <1>2. outputs \in Outputs
    BY DEF TypeOK
  <1>3. Whole(kind) \in Outputs
    BY <1>1 DEF Whole, Outputs
  <1>4. Named(kind) \in [path : {TRUE}, sha : {Mine(kind)}, claims : Report \cup {Unset}]
    BY <1>2 DEF Named, Outputs
  <1>5. [Named(kind) EXCEPT !.claims = Mine(kind)] \in
          [path : {TRUE}, sha : {Mine(kind)}, claims : {Mine(kind)}]
    <2> DEFINE n == Named(kind)
    <2>1. n \in [path : {TRUE}, sha : {Mine(kind)}, claims : Report \cup {Unset}]
      BY <1>4
    <2> HIDE DEF n
    <2>2. [n EXCEPT !.claims = Mine(kind)] \in
            [path : {TRUE}, sha : {Mine(kind)}, claims : {Mine(kind)}]
      BY <2>1
    <2> QED
      BY <2>2 DEF n
  <1>6. [Named(kind) EXCEPT !.claims = Mine(kind)] = Whole(kind)
    <2> DEFINE w == [Named(kind) EXCEPT !.claims = Mine(kind)]
    <2>1. w \in [path : {TRUE}, sha : {Mine(kind)}, claims : {Mine(kind)}]
      BY <1>5
    <2> HIDE DEF w
    <2>2. w = Whole(kind)
      BY <2>1 DEF Whole
    <2> QED
      BY <2>2 DEF w
  <1> QED
    BY <1>3, <1>6

(* The shell adds a digest of the file, or an empty one.                     *)
LEMMA ExposeTyped ==
  ASSUME TypeOK
  PROVE Expose \in Outputs
  <1>1. file # NoFile /\ file # Torn => file \in Report
    BY DEF TypeOK, File
  <1>2. outputs \in Outputs
    BY DEF TypeOK
  <1> QED
    BY <1>1, <1>2 DEF Expose, Outputs

-----------------------------------------------------------------------------
(* Every step keeps the types.                                              *)
LEMMA TypeStep ==
  ASSUME StepAssumption, TypeOK, [Next]_vars
  PROVE TypeOK'
  <1> USE DEF TypeOK
  <1>k. {"bundle", "unavailable", "envelope"} \subseteq Kind
    BY DEF Kind
  <1>n. NoFile \in File /\ Torn \in File
    BY DEF File
  <1>1. CASE BadArguments
    BY <1>1 DEF BadArguments
  <1>2. CASE Acquire
    BY <1>2 DEF Acquire
  <1>3. CASE AcquireFails
    BY <1>3 DEF AcquireFails, Raise
  <1>4. CASE WriteReport
    <2>1. Mine("bundle") \in File /\ Mine("unavailable") \in File
      BY <1>k, MineIsReport
    <2> QED
      BY <1>4, <2>1 DEF WriteReport, Write
  <1>5. CASE WriteReportFails
    BY <1>5, <1>n DEF WriteReportFails, Raise, WriteFails
  <1>6. CASE WriteSummary
    BY <1>6 DEF WriteSummary
  <1>7. CASE WriteSummaryFails
    BY <1>7 DEF WriteSummaryFails, Raise
  <1>8. CASE WriteOutputs
    <2>1. [Named(Said) EXCEPT !.claims = Mine(Said)] \in Outputs
      BY <1>k, SaidIsAnswer, WholeTyped DEF Answer
    <2> QED
      BY <1>8, <2>1 DEF WriteOutputs
  <1>9. CASE WriteOutputsFails
    <2>1. outputs' \in Outputs
      BY <1>9, <1>k, SaidIsAnswer, PrefixesTyped DEF WriteOutputsFails, Answer
    <2> QED
      BY <1>9, <2>1 DEF WriteOutputsFails, Raise
  <1>10. CASE PrintReport
    BY <1>10 DEF PrintReport
  <1>11. CASE PrintReportFails
    BY <1>11 DEF PrintReportFails, Raise
  <1>12. CASE WriteEnvelope
    <2>1. Mine("envelope") \in File
      BY <1>k, MineIsReport
    <2> QED
      BY <1>12, <2>1 DEF WriteEnvelope, Write
  <1>13. CASE WriteEnvelopeFails
    BY <1>13, <1>n DEF WriteEnvelopeFails, WriteFails
  <1>14. CASE WriteErrorOutputs
    <2>1. outputs' \in Outputs
      BY <1>14, <1>k, PrefixesTyped DEF WriteErrorOutputs
    <2> QED
      BY <1>14, <2>1 DEF WriteErrorOutputs
  <1>15. CASE Killed
    <2>1. outputs' \in Outputs
      BY <1>15, <1>k, PrefixesTyped DEF Killed
    <2>2. file' \in File
      BY <1>15, <1>n DEF Killed
    <2> QED
      BY <1>15, <2>1, <2>2 DEF Killed
  <1>16. CASE Shell
    BY <1>16, ExposeTyped DEF Shell
  <1>17. CASE NextStep
    <2>1. NoOutputs \in Outputs
      BY DEF NoOutputs, Outputs
    <2>2. step' \in 1 .. MaxSteps
      BY <1>17 DEF NextStep, StepAssumption
    <2> QED
      BY <1>17, <2>1, <2>2 DEF NextStep
  <1>18. CASE UNCHANGED vars
    BY <1>18 DEF vars
  <1> QED
    BY <1>1, <1>2, <1>3, <1>4, <1>5, <1>6, <1>7, <1>8, <1>9, <1>10, <1>11,
       <1>12, <1>13, <1>14, <1>15, <1>16, <1>17, <1>18 DEF Next

(* Files, outputs and exit statuses stay in their types, for any number of   *)
(* steps.                                                                   *)
THEOREM PublicationTypes == Spec => []TypeOK
  <1>1. Init => TypeOK
    BY StepAssumption DEF Init, TypeOK, StepAssumption, File, NoOutputs, Outputs
  <1>2. TypeOK /\ [Next]_vars => TypeOK'
    BY TypeStep, StepAssumption
  <1> QED
    BY <1>1, <1>2, PTL DEF Spec

-----------------------------------------------------------------------------
(* Every step keeps the invariant.                                          *)
LEMMA ReportStep ==
  ASSUME StepAssumption, ReportInv, [Next]_vars
  PROVE ReportInv'
  <1>t. TypeOK /\ TypeOK'
    BY TypeStep DEF ReportInv
  <1>k. {"bundle", "unavailable", "envelope"} \subseteq Kind
    BY DEF Kind
  <1>m. \A kind \in Kind : Mine(kind) # NoFile /\ Mine(kind) # Torn
                           /\ Mine(kind) # Unset /\ Mine(kind) # NoSha
    BY <1>t, MineIsReport
  <1>s. Said \in Kind /\ Said \in Answer
    BY SaidIsAnswer DEF Answer, Kind
  <1>u. step' = step => \A kind : Mine(kind)' = Mine(kind)
    BY DEF Mine
  <1>n. Torn # NoFile
    BY DEF Torn, NoFile
  <1>o. NoOutputs.sha = Unset
    BY DEF NoOutputs
  <1>w. \A kind : Whole(kind).sha = Mine(kind)
    BY DEF Whole
  <1> USE <1>t, <1>k, <1>m, <1>s, <1>u, <1>o, <1>w
  <1> USE DEF ReportInv, Writing, Saying, Printing, Failing, SuccessIsWhole, DigestOfFile
  <1>1. CASE BadArguments
    BY <1>1 DEF BadArguments
  <1>2. CASE Acquire
    BY <1>2 DEF Acquire
  <1>3. CASE AcquireFails
    BY <1>3 DEF AcquireFails, Raise
  <1>4. CASE WriteReport
    BY <1>4 DEF WriteReport, Write, Said
  <1>5. CASE WriteReportFails
    BY <1>5 DEF WriteReportFails, Raise, WriteFails, TypeOK
  <1>6. CASE WriteSummary
    BY <1>6 DEF WriteSummary, Said
  <1>7. CASE WriteSummaryFails
    BY <1>7 DEF WriteSummaryFails, Raise, TypeOK
  <1>8. CASE WriteOutputs
    <2>1. outputs' = Whole(Said)
      BY <1>8, WholeTyped DEF WriteOutputs
    <2>2. Said' = Said /\ Whole(Said)' = Whole(Said) /\ Mine(Said)' = Mine(Said)
      BY <1>8 DEF WriteOutputs, Said, Whole, Mine
    <2> QED
      BY <1>8, <2>1, <2>2 DEF WriteOutputs
  <1>9. CASE WriteOutputsFails
    <2>1. outputs'.sha = Unset \/ outputs'.sha = file
      BY <1>9, PrefixesTyped DEF WriteOutputsFails
    <2> QED
      BY <1>9, <2>1 DEF WriteOutputsFails, Raise, TypeOK
  <1>10. CASE PrintReport
    <2>1. \A kind : Whole(kind)' = Whole(kind)
      BY <1>10 DEF PrintReport, Whole, Mine
    <2> QED
      BY <1>10, <2>1 DEF PrintReport
  <1>11. CASE PrintReportFails
    BY <1>11 DEF PrintReportFails, Raise, TypeOK
  <1>12. CASE WriteEnvelope
    BY <1>12 DEF WriteEnvelope, Write
  <1>13. CASE WriteEnvelopeFails
    <2>1. file' = NoFile => outputs'.sha = Unset
      BY <1>13, <1>n DEF WriteEnvelopeFails, WriteFails
    <2>2. program' = "terminal" /\ pc' = "shell" /\ status' = "1"
      BY <1>13 DEF WriteEnvelopeFails, WriteFails
    <2> QED
      BY <2>1, <2>2
  <1>14. CASE WriteErrorOutputs
    BY <1>14 DEF WriteErrorOutputs
  <1>15. CASE Killed
    <2>1. CASE pc \in Writing
      BY <1>15, <2>1 DEF Killed
    <2>2. CASE pc \in Saying \cup Printing
      <3>1. outputs'.sha = Unset \/ outputs'.sha = file
        BY <1>15, <2>2, PrefixesTyped DEF Killed, Said
      <3> QED
        BY <1>15, <2>2, <3>1 DEF Killed
    <2>3. CASE pc \in Failing
      <3>1. file' = NoFile => outputs'.sha = Unset
        BY <1>15, <1>n, <2>3 DEF Killed
      <3>2. program' = "terminal" /\ pc' = "shell" /\ status' = "137"
        BY <1>15, <2>3 DEF Killed
      <3> QED
        BY <3>1, <3>2
    <2> QED
      BY <1>15, <2>1, <2>2, <2>3 DEF Killed, TypeOK
  <1>16. CASE Shell
    <2>1. \A kind : Whole(kind)' = Whole(kind)
      BY <1>16 DEF Shell, Whole, Mine
    <2>2. CASE program = "terminal" /\ status # "0" /\ file # NoFile
      <3>1. outputs'.sha = NoSha \/ outputs'.sha = file
        BY <1>16, <2>2 DEF Shell, Expose, TypeOK, Outputs
      <3> QED
        BY <1>16, <2>2, <3>1 DEF Shell
    <2>3. CASE ~(program = "terminal" /\ status # "0" /\ file # NoFile)
      <3>1. outputs' = outputs
        BY <1>16, <2>3 DEF Shell, Expose
      <3>2. CASE status = "0"
        BY <1>16, <2>1, <3>1, <3>2 DEF Shell, Whole, Answer
      <3>3. CASE status # "0"
        BY <1>16, <2>3, <3>1, <3>3 DEF Shell, TypeOK
      <3> QED
        BY <3>2, <3>3
    <2> QED
      BY <2>2, <2>3
  <1>17. CASE NextStep
    BY <1>17 DEF NextStep
  <1>18. CASE UNCHANGED vars
    <2>1. Said' = Said /\ \A kind : Whole(kind)' = Whole(kind)
      BY <1>18 DEF vars, Said, Whole, Mine
    <2> QED
      BY <1>18, <2>1 DEF vars
  <1> QED
    BY <1>1, <1>2, <1>3, <1>4, <1>5, <1>6, <1>7, <1>8, <1>9, <1>10, <1>11,
       <1>12, <1>13, <1>14, <1>15, <1>16, <1>17, <1>18 DEF Next

(* A report is announced only when it is in the file: the invariant the two  *)
(* results rest on.                                                         *)
THEOREM ReportInvariant == Spec => []ReportInv
  <1>1. Init => ReportInv
    BY StepAssumption DEF Init, ReportInv, TypeOK, StepAssumption, File, NoOutputs,
       Outputs, Writing, Saying, Printing, Failing, SuccessIsWhole, DigestOfFile
  <1>2. ReportInv /\ [Next]_vars => ReportInv'
    BY ReportStep, StepAssumption
  <1> QED
    BY <1>1, <1>2, PTL DEF Spec

(* A step that succeeds has one report, its own, in the file and in every    *)
(* output.                                                                  *)
THEOREM PublicationSuccess == Spec => []SuccessIsWhole
  <1>1. ReportInv => SuccessIsWhole
    BY DEF ReportInv
  <1> QED
    BY <1>1, ReportInvariant, PTL

(* The digest among the outputs of a step that ended is that of the file.    *)
THEOREM PublicationDigest == Spec => []DigestOfFile
  <1>1. ReportInv => DigestOfFile
    BY DEF ReportInv
  <1> QED
    BY <1>1, ReportInvariant, PTL
=============================================================================
