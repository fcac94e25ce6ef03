----------------------------- MODULE Gatekeeper -----------------------------
(***************************************************************************)
(* main: the checks of one invocation in their order, the audit events,    *)
(* and the hand-over to run_supervisor.  The binaries can be replaced or   *)
(* removed by others between any two steps, as a package upgrade does.     *)
(*                                                                         *)
(* Of the policy the model keeps the path of each tool's real binary; what *)
(* validate_command says of the arguments is left open (module Validator). *)
(* A file stands for its content and its hash; a file is replaced, never   *)
(* written in place.                                                       *)
(***************************************************************************)
EXTENDS Invocation

CONSTANTS Releases,    \* kernel releases: [major, minor]; one that cannot be read is 0.0
          RealBinary,  \* tool -> path: the policy
          Paths,       \* the paths that may lead to a file
          Files,       \* the files that may be found there
          NoFile,
          Disks,       \* [Paths -> Files or NoFile]: what the paths lead to at first
          Contested,   \* bound: the argument vectors of runs during which files change
          MaxChanges   \* bound: replacements and removals by others

ASSUME ReleasesAssumption == Releases \subseteq [major : Nat, minor : Nat]
ASSUME NoFileAssumption == NoFile \notin Files
\* is_valid_tool_name: a tool of the policy is called by a file name.
ASSUME RealBinaryAssumption ==
    \A tool \in DOMAIN RealBinary :
        tool \in Word \ {<<>>} /\ FileName(tool) = tool /\ RealBinary[tool] \in Paths
ASSUME DisksAssumption == Disks \subseteq [Paths -> Files \cup {NoFile}]
ASSUME MaxChangesAssumption == MaxChanges \in Nat

VARIABLES pc,         \* the next step of main, or "done"
          release,    \* the kernel's release
          filled,     \* bytes of the transaction id drawn so far
          logTo,      \* log_destination of the policy
          sink,       \* where the global subscriber writes, "none" before there is one
          disk,       \* path -> file, shared with others
          binary,     \* the file behind the descriptor of the validated command
          hash,       \* the file whose hash was computed
          log,        \* the security events
          executed,   \* the file the delegated process executes
          exit,       \* how the process ended
          changes,    \* changes made so far by others
          disturbed   \* history: a call failed, the arguments were denied, a file changed

vars == <<invocation, pc, release, filled, logTo, sink, disk, binary, hash, log, executed, exit, changes, disturbed>>

\* What the steps before and after the parsing of the invocation change.
setting == <<release, filled, logTo, sink>>
result == <<binary, hash, log, executed>>
others == <<disk, changes>>

IdBytes == 4

(***************************************************************************)
(* Helpers                                                                 *)
(***************************************************************************)
Goto(from, to) == pc = from /\ pc' = to /\ UNCHANGED exit

Stop(how) == pc' = "done" /\ exit' = how

\* A system call failed, for a reason outside this model (history only).
Fault == disturbed' = TRUE
NoFault == UNCHANGED disturbed

At(path) == IF path \in Paths THEN disk[path] ELSE NoFile

Tool == outcome.tool
Parsed == "tool" \in DOMAIN outcome

\* A SecurityEvent, and where it was written.
Event(id, file) == [id |-> id, hash |-> file, sink |-> sink]

(***************************************************************************)
(* Before the invocation is looked at                                      *)
(***************************************************************************)
\* ensure_minimum_kernel_version_for_release: 4.19 or newer.
Supported(r) == r.major > 4 \/ (r.major = 4 /\ r.minor >= 19)

CheckKernel ==
    /\ \/ Supported(release) /\ Goto("kernel", "random")
       \/ ~Supported(release) /\ pc = "kernel" /\ Stop("kernel")
    /\ UNCHANGED <<invocation, setting, result, others, disturbed>>

\* generate_txn_id: one getrandom gives some of the missing bytes, or none, or
\* fails; an interrupted one is repeated, which changes nothing.
DrawBytes ==
    /\ pc = "random"
    /\ \/ \E n \in 1 .. IdBytes - filled :
             /\ filled' = filled + n
             /\ pc' = IF filled' = IdBytes THEN "logging" ELSE pc
             /\ UNCHANGED exit
             /\ NoFault
       \/ Stop("random") /\ Fault /\ UNCHANGED filled
    /\ UNCHANGED <<invocation, release, logTo, sink, result, others>>

\* try_init: the first subscriber of the process stays.
Subscribe(to) == sink' = IF sink = "none" THEN to ELSE sink

InitLoggingFallback ==
    /\ Goto("logging", "load")
    /\ Subscribe("stdout")
    /\ UNCHANGED <<invocation, release, filled, logTo, result, others, disturbed>>

\* A policy that cannot be loaded leaves a plain line in the log.
LoadPolicy ==
    /\ \/ Goto("load", "configure") /\ NoFault
       \/ pc = "load" /\ Stop("policy") /\ Fault
    /\ UNCHANGED <<invocation, setting, result, others>>

\* init_logging; without a syslog socket it falls back to the standard output.
InitLogging ==
    /\ Goto("configure", "identity")
    /\ \/ Subscribe(logTo) /\ NoFault
       \/ logTo = "syslog" /\ Subscribe("stdout") /\ Fault
    /\ UNCHANGED <<invocation, release, filled, logTo, result, others>>

\* resolve_identity_triad never fails, and nothing depends on what it finds.
ResolveIdentity ==
    /\ Goto("identity", "parse")
    /\ UNCHANGED <<invocation, setting, result, others, disturbed>>

(***************************************************************************)
(* The verdict                                                             *)
(***************************************************************************)
\* parse_invocation_current_process; a panic of std::env::args ends the
\* process without an event.
Parse ==
    /\ pc = "parse"
    /\ \E procReadable \in BOOLEAN : Identify(procReadable)
    /\ \/ Parsed' /\ Goto("parse", "validate") /\ UNCHANGED log
       \/ outcome' = Spoofing("panic") /\ Stop("panic") /\ UNCHANGED log
       \/ /\ ~Parsed' /\ outcome' # Spoofing("panic")
          /\ Stop("invocation")
          /\ log' = Append(log, Event("SEC-500", NoFile))
    /\ UNCHANGED <<setting, binary, hash, executed, others, disturbed>>

\* check_path of the tool's real binary.
RealFile(tool) == IF tool \in DOMAIN RealBinary THEN disk[RealBinary[tool]] ELSE NoFile

Deny == Stop("denied") /\ log' = Append(log, Event("SEC-403", NoFile)) /\ UNCHANGED binary

\* validate_command opens the tool's real binary, or denies: the tool is not in
\* the policy, its binary is not there, or the arguments are not allowed.
Validate ==
    /\ pc = "validate"
    /\ \/ /\ RealFile(Tool) # NoFile
          /\ binary' = RealFile(Tool)
          /\ Goto("validate", "bind")
          /\ NoFault
          /\ UNCHANGED log
       \/ RealFile(Tool) = NoFile /\ Deny /\ NoFault
       \/ RealFile(Tool) # NoFile /\ Deny /\ Fault
    /\ UNCHANGED <<invocation, setting, hash, executed, others>>

\* Mistake: a bare name is looked up like a path.
BoundLookingUpNames(line) ==
    LET token == DelegatedToken(line)
    IN  \/ line = Unset
        \/ /\ token \notin {Malformed, NoCommand, <<>>}
           /\ Basename(token) = Basename(Tool)
           /\ At(token) # NoFile /\ At(token) = binary

\* verify_sudo_command_binding: the command sudo ran has the tool's name and,
\* when it is a path, leads to the validated file.
Bound(line) ==
    LET token == DelegatedToken(line)
    IN  \/ line = Unset
        \/ /\ token \notin {Malformed, NoCommand, <<>>}
           /\ Basename(token) = Basename(Tool)
           /\ HasSlash(token) => At(token) # NoFile /\ At(token) = binary

VerifyBinding ==
    /\ \/ Goto("bind", "hash") /\ Bound(sudoCommand)
       \/ Goto("bind", "spoofed") /\ ~Bound(sudoCommand)
    /\ UNCHANGED <<invocation, setting, result, others, disturbed>>

\* hash_path_for_telemetry reads the path once more, and may fail.
RecordSpoofing ==
    /\ pc = "spoofed"
    /\ \E seen \in {NoFile, At(DelegatedToken(sudoCommand))} :
           log' = Append(log, Event("SEC-500", seen))
    /\ Stop("spoofing")
    /\ UNCHANGED <<invocation, setting, binary, hash, executed, others, disturbed>>

\* Mistake: the file is opened by its path to be hashed.
HashPath ==
    /\ \/ /\ Goto("hash", "approve")
          /\ RealFile(Tool) # NoFile
          /\ hash' = RealFile(Tool)
          /\ NoFault
       \/ pc = "hash" /\ Stop("hashing") /\ Fault /\ UNCHANGED hash
    /\ UNCHANGED <<invocation, setting, binary, log, executed, others>>

\* hash_binary_fd; a failure leaves a plain line in the log.
HashBinary ==
    /\ \/ Goto("hash", "approve") /\ hash' = binary /\ NoFault
       \/ pc = "hash" /\ Stop("hashing") /\ Fault /\ UNCHANGED hash
    /\ UNCHANGED <<invocation, setting, binary, log, executed, others>>

Approve ==
    /\ Goto("approve", "supervise")
    /\ log' = Append(log, Event("SEC-101", hash))
    /\ UNCHANGED <<invocation, setting, binary, hash, executed, others, disturbed>>

(***************************************************************************)
(* run_supervisor (module Supervisor has its steps)                        *)
(***************************************************************************)
\* The delegated process executes the descriptor of the validated binary.
CommandStarts ==
    /\ pc = "supervise" /\ executed = NoFile
    /\ executed' = binary
    /\ UNCHANGED <<invocation, pc, setting, binary, hash, log, exit, others, disturbed>>

\* Mistake: after a failure the status of the wrapper is still the exit code.
SupervisorReturnsStatus ==
    /\ pc = "supervise"
    /\ \/ executed # NoFile /\ NoFault /\ UNCHANGED log
       \/ Fault /\ log' \in {log, Append(log, Event("SEC-503", hash))}
    /\ Stop("status")
    /\ UNCHANGED <<invocation, setting, binary, hash, executed, others>>

\* Ok(code), of the command or of a wrapper killed before it started it, or an
\* error at any time.
SupervisorReturns ==
    /\ pc = "supervise"
    /\ \/ executed # NoFile /\ Stop("status") /\ NoFault /\ UNCHANGED log
       \/ executed = NoFile /\ Stop("status") /\ Fault /\ UNCHANGED log
       \/ Stop("failed") /\ Fault /\ log' = Append(log, Event("SEC-503", hash))
    /\ UNCHANGED <<invocation, setting, binary, hash, executed, others>>

(***************************************************************************)
(* Others                                                                  *)
(***************************************************************************)
Replace ==
    /\ changes < MaxChanges /\ argv \in Contested /\ pc # "done"
    /\ \E path \in Paths, file \in Files \cup {NoFile} :
           disk[path] # file /\ disk' = [disk EXCEPT ![path] = file]
    /\ changes' = changes + 1
    /\ disturbed' = TRUE
    /\ UNCHANGED <<invocation, pc, setting, result, exit>>

Kill ==
    /\ pc # "done"
    /\ Stop("killed")
    /\ Fault
    /\ UNCHANGED <<invocation, setting, result, others>>

(***************************************************************************)
(* Specification                                                           *)
(***************************************************************************)
Init ==
    /\ InvocationInit
    /\ pc = "kernel" /\ exit = "running"
    /\ release \in Releases
    /\ filled = 0
    /\ logTo \in {"syslog", "stdout"}
    /\ sink = "none"
    /\ disk \in Disks
    /\ binary = NoFile /\ hash = NoFile /\ executed = NoFile
    /\ log = <<>>
    /\ changes = 0 /\ disturbed = FALSE

Main ==
    \/ CheckKernel \/ DrawBytes \/ InitLoggingFallback \/ LoadPolicy \/ InitLogging \/ ResolveIdentity
    \/ Parse \/ Validate \/ VerifyBinding \/ RecordSpoofing \/ HashBinary \/ Approve
    \/ CommandStarts \/ SupervisorReturns

Next == Main \/ Replace \/ Kill

Spec == Init /\ [][Next]_vars

(***************************************************************************)
(* Properties                                                              *)
(***************************************************************************)
Steps == {"kernel", "random", "logging", "load", "configure", "identity", "parse", "validate",
          "bind", "spoofed", "hash", "approve", "supervise"}
Ends == {"kernel", "random", "policy", "panic", "invocation", "denied", "spoofing", "hashing",
         "status", "failed", "killed"}
Ids == {"SEC-101", "SEC-403", "SEC-500", "SEC-503"}

\* Types of the variables; the id has its bytes when there is a subscriber.
TypeOK ==
    /\ pc \in Steps \cup {"done"}
    /\ exit \in Ends \cup {"running"} /\ (exit = "running" <=> pc # "done")
    /\ release \in Releases /\ logTo \in {"syslog", "stdout"} /\ sink \in {"none", "syslog", "stdout"}
    /\ filled \in 0 .. IdBytes /\ (sink # "none" => filled = IdBytes)
    /\ disk \in [Paths -> Files \cup {NoFile}]
    /\ {binary, hash, executed} \subseteq Files \cup {NoFile}
    /\ log \in Seq([id : Ids, hash : Files \cup {NoFile}, sink : {"syslog", "stdout", "none"}])
    /\ changes \in 0 .. MaxChanges /\ disturbed \in BOOLEAN

\* The file named by an approval, which is the first event if there is one.
Approved == IF log # <<>> /\ log[1].id = "SEC-101" THEN log[1].hash ELSE NoFile

Promise == INSTANCE Delegation WITH
    Binaries <- Files, NoBinary <- NoFile, approved <- Approved, started <- executed,
    verdict <- IF pc # "done" THEN "open" ELSE IF Approved = NoFile THEN "refused" ELSE "ended"

\* The program keeps the promise of Delegation whatever is replaced under it:
\* what runs is the file whose hash was recorded before.
KeepsPromise == Promise!Spec

\* The events of one invocation tell one story, and the exit status of the
\* command is passed on only if nothing failed.
EventIds == [i \in DOMAIN log |-> log[i].id]
OneStory ==
    /\ EventIds \in {<<>>, <<"SEC-403">>, <<"SEC-500">>, <<"SEC-101">>, <<"SEC-101", "SEC-503">>}
    /\ exit = "status" => EventIds = <<"SEC-101">>
    /\ exit = "failed" => EventIds = <<"SEC-101", "SEC-503">>
    /\ executed # NoFile => Approved = executed

\* When no call fails and nothing is replaced, a command runs exactly if the
\* kernel is 4.19 or newer, the invocation names a tool of the policy whose
\* binary is there, and sudo, if it was used, ran that binary or named it only.
Command(line) == DelegatedToken(line)
RunsIfAllowed ==
    (pc = "done" /\ ~disturbed) =>
        (executed # NoFile <=>
            /\ ~ (release.major < 4 \/ (release.major = 4 /\ release.minor <= 18))
            /\ Unicode(argv) /\ argv # <<>>
            /\ LET name == FileName(NamedByArgv(argv).token)
               IN  /\ RealFile(name) # NoFile
                   /\ \/ sudoCommand = Unset
                      \/ Basename(Command(sudoCommand)) = name
                         /\ (HasSlash(Command(sudoCommand)) => At(Command(sudoCommand)) = RealFile(name)))

(***************************************************************************)
(* What the documentation says                                             *)
(***************************************************************************)
\* A managed entry point, a hard link to secure-sudoers, runs its tool under
\* sudo (README: "How It Works").
EntryPoint(name) == <<Slash, "l", Slash>> \o name
EntryPointRuns ==
    (/\ pc = "done" /\ ~disturbed /\ Supported(release)
     /\ argv # <<>> /\ Unicode(argv) /\ argv[1] \in DOMAIN RealBinary
     /\ RealFile(argv[1]) # NoFile
     /\ At(EntryPoint(argv[1])) # NoFile /\ At(EntryPoint(argv[1])) = At(EntryPoint(<<"s">>))
     /\ sudoCommand = SudoLine(EntryPoint(argv[1]), argv))
    => executed = RealFile(argv[1])
=============================================================================
