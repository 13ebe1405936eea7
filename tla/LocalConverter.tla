--------------------------- MODULE LocalConverter ---------------------------
(***************************************************************************)
(* The two callers of the batch driver, run one after another: the local  *)
(* script snort_to_ips_local.py, which reads a rules file, converts it     *)
(* with a new Signatures object and writes the package file and the       *)
(* error file (output_ips_signature_package, output_errors); and          *)
(* main.convert_incoming_rules, which returns get_payload_data of a new   *)
(* object.  The script has no try block: an exception anywhere ends it    *)
(* with status 1 and leaves the files as far as it got.                   *)
(*                                                                         *)
(* Fault model: the input file may be missing; opening an output file may *)
(* fail (nothing written) and a write may be cut short after open('w')    *)
(* truncated the file (the file holds Corrupt).  A file is recorded with  *)
(* the invocation that last wrote it; by = 0 is the file as it was before *)
(* the first invocation.                                                   *)
(***************************************************************************)
EXTENDS Signatures

CONSTANTS MaxInvocations, \* how many times a caller is run
          Corrupt         \* the content a cut-short json.dump leaves

VARIABLES cli,            \* "ready" | "running" | "package" | "exited"
          caller,         \* "script" | "service"
          invocation,     \* how many invocations have started
          exitCode,       \* the script's exit status
          packageFile,    \* output_pf: [by, data]
          errorsFile,     \* error_pf: [by, data]
          reply           \* what convert_incoming_rules gave its caller

cliVars == <<cli, caller, invocation, exitCode, packageFile, errorsFile, reply>>
allVars == <<vars, cliVars>>

OldFile == [by |-> 0, data |-> <<>>]
NoReply == [raised |-> FALSE, payload |-> <<<<>>, <<>>, <<>>>>]

\* A file holding what invocation n wrote.
Written(n, data) == [by |-> n, data |-> data]

CallerInit ==
  /\ Init
  /\ cli = "ready" /\ caller = "script" /\ invocation = 0 /\ exitCode = 0
  /\ packageFile = OldFile /\ errorsFile = OldFile /\ reply = NoReply

\* No invocation is running and another one may start.
Idle == cli \in {"ready", "exited"} /\ invocation < MaxInvocations

\* The script ends with status code.
Exit(code) == cli' = "exited" /\ exitCode' = code

\* len(sys.argv) < 4: the usage line, exit(1).
Usage ==
  /\ Idle
  /\ invocation' = invocation + 1 /\ caller' = "script" /\ Exit(1)
  /\ UNCHANGED <<packageFile, errorsFile, reply, vars>>

\* open(input_pf) raises (no such file): the traceback, status 1.
OpenInputFails ==
  /\ Idle
  /\ invocation' = invocation + 1 /\ caller' = "script" /\ Exit(1)
  /\ UNCHANGED <<packageFile, errorsFile, reply, vars>>

\* Signatures() then load_snort_signatures(input_data): the new object's
\* three lists start empty and the loop starts at the first line.
NewAndLoad ==
  /\ \E rules_input \in Inputs : input' = rules_input
  /\ phase' = "line" /\ ln' = 1 /\ loads' = 1
  /\ signatures' = <<>> /\ error_rules' = <<>> /\ error_internal' = <<>>
  /\ seen' = 0 /\ skipped' = 0 /\ dropped' = {}
  /\ UNCHANGED ruleVars

\* The script, its arguments given and the input file read.
StartScript ==
  /\ Idle /\ NewAndLoad
  /\ invocation' = invocation + 1 /\ caller' = "script" /\ cli' = "running"
  /\ UNCHANGED <<exitCode, packageFile, errorsFile, reply>>

\* convert_incoming_rules(rules).
StartService ==
  /\ Idle /\ NewAndLoad
  /\ invocation' = invocation + 1 /\ caller' = "service" /\ cli' = "running"
  /\ UNCHANGED <<exitCode, packageFile, errorsFile, reply>>

\* One step of the load_snort_signatures loop.
LoadStep ==
  /\ cli = "running"
  /\ \/ SkipInvalidLine \/ AbortOnSegmenter \/ RejectHeader \/ DropNonHttp
     \/ StartRule \/ RuleStep \/ FinishRule
  /\ UNCHANGED cliVars

\* The exception that ended load_snort_signatures leaves the caller too.
Traceback ==
  /\ cli = "running" /\ phase = "aborted"
  /\ cli' = "exited"
  /\ exitCode' = IF caller = "script" THEN 1 ELSE exitCode
  /\ reply' = IF caller = "service" THEN [NoReply EXCEPT !.raised = TRUE] ELSE reply
  /\ UNCHANGED <<caller, invocation, packageFile, errorsFile, vars>>

\* json.dump of data to a file: written, open() failing, or cut short.
WriteOutcomes(old, n, data) == {Written(n, data), old, Written(n, Corrupt)}

\* Fault variant of WritePackage: a failed write is swallowed and the
\* script goes on to the error file.
WritePackageIgnoringFailure ==
  /\ cli = "running" /\ caller = "script" /\ phase = "idle"
  /\ \E f \in WriteOutcomes(packageFile, invocation, signatures) :
       packageFile' = f /\ cli' = "package"
  /\ UNCHANGED <<exitCode, caller, invocation, errorsFile, reply, vars>>

\* output_ips_signature_package(output_pf): {"IPSSnortSigs":
\* {"protections": signatures}}; a failure ends the script.
WritePackage ==
  /\ cli = "running" /\ caller = "script" /\ phase = "idle"
  /\ \E f \in WriteOutcomes(packageFile, invocation, signatures) :
       /\ packageFile' = f
       /\ IF f = Written(invocation, signatures)
          THEN cli' = "package" /\ UNCHANGED exitCode
          ELSE Exit(1)
  /\ UNCHANGED <<caller, invocation, errorsFile, reply, vars>>

\* output_errors(error_pf): {"Errors": error_rules}; the script then ends.
WriteErrors ==
  /\ cli = "package"
  /\ \E f \in WriteOutcomes(errorsFile, invocation, error_rules) :
       /\ errorsFile' = f
       /\ Exit(IF f = Written(invocation, error_rules) THEN 0 ELSE 1)
  /\ UNCHANGED <<caller, invocation, packageFile, reply, vars>>

\* return signatures.get_payload_data()
Reply ==
  /\ cli = "running" /\ caller = "service" /\ phase = "idle"
  /\ reply' = [raised |-> FALSE, payload |-> Payload] /\ cli' = "exited"
  /\ UNCHANGED <<caller, invocation, exitCode, packageFile, errorsFile, vars>>

CallerNext ==
  \/ Usage \/ OpenInputFails \/ StartScript \/ StartService
  \/ LoadStep \/ Traceback \/ WritePackage \/ WriteErrors \/ Reply

CallerSpec == CallerInit /\ [][CallerNext]_allVars

-----------------------------------------------------------------------------
(***************************************************************************)
(* Properties                                                              *)
(***************************************************************************)

\* The script's exit status is what a wrapper can trust: it exits 0 exactly
\* when the package file and the error file both hold this invocation's
\* complete output, the signatures and the rule errors of this load.  A
\* failure before, between or during the two writes (missing input, an
\* exception in the load, an output file that cannot be opened or is cut
\* short) exits 1, with a file from an earlier invocation or a truncated
\* one left behind.
ExitStatusMatchesFiles ==
  cli = "exited" /\ caller = "script" =>
    ((exitCode = 0) <=> /\ packageFile = Written(invocation, signatures)
                        /\ errorsFile = Written(invocation, error_rules))

\* Spec sections 6 and 8: every candidate line of a run that succeeded is
\* accounted for in what the caller is given; for the script, a converted
\* signature in the package file, a rule error in the error file, or a
\* skipped line.  output_errors writes error_rules only and the script
\* logs nothing else.
ScriptAccountsEveryLine ==
  cli = "exited" /\ caller = "script" /\ exitCode = 0 =>
    Len(packageFile.data) + Len(errorsFile.data) + skipped = seen
=============================================================================
