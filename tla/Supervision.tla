---------------------------- MODULE Supervision ----------------------------
(***************************************************************************)
(* One run of scripts/symbiotic and the processes it starts: the main      *)
(* script with its try/except/finally, the class-wide handle of the        *)
(* process runner, the SIGALRM timeout, Ctrl-C, and the operating system   *)
(* that ends the started processes.  What the pipeline and the verifier    *)
(* compute is left out: here they are a loop that starts commands.         *)
(*                                                                         *)
(* A Python signal handler runs between two bytecodes, so Timeout and      *)
(* KeyboardInterrupt are actions that may happen between any two steps of  *)
(* the script.                                                             *)
(***************************************************************************)
EXTENDS Naturals, Sequences

CONSTANTS
    MaxJobs,       \* Bound: commands the run starts.
    MaxInterrupts  \* Bound: how often the user presses Ctrl-C.

ASSUME BoundsAssumption == MaxJobs \in Nat /\ MaxInterrupts \in Nat

Jobs == 1..MaxJobs

VARIABLES
    pc,          \* Where the main script is.
    inVerifier,  \* Is SymbioticVerifier.run on the call stack?
    current,     \* ProcessRunner.current_process, 0 for None.
    started,     \* Number of commands started so far.
    leader,      \* State of the process Popen forked for each job.
    helper,      \* State of its descendants in the same process group.
    handler,     \* Disposition of SIGALRM.
    alarm,       \* Is an alarm pending?
    interrupts,  \* Ctrl-C presses so far.
    results,     \* The RESULT lines printed, also one that is not finished.
    raised,      \* Exception that waits for the finally block to end.
    ret,         \* The script's variable ret.
    saveFiles,   \* opts.save_files
    workdir,     \* Does the temporary working directory exist?
    warned,      \* Was it printed that the directory could not be removed?
    orphans,     \* History: jobs forked whose handle was never stored.
    escaped      \* History: has an exception left the finally block midway?

script   == <<pc, inVerifier, results, raised, ret>>
signals  == <<handler, alarm, interrupts>>
children == <<current, started, leader, helper, orphans>>
files    == <<saveFiles, workdir, warned>>
vars     == <<script, signals, children, files, escaped>>

ProcessStates == {"none", "running", "doomed", "exited"}
ResultKinds   == {"verdict", "error", "ERROR", "unfinished", "timeout"}

\* Points of the script inside the try block.
Working   == {"work", "forked", "reading", "collected", "cmdfailed"}
Reporting == {"interrupted", "failed", "failing", "report", "reporting", "reported"}
InTry     == Working \cup Reporting
\* Points of the finally block; in the first two SIGALRM is not yet disarmed.
InFinally == {"finally", "disarm", "terminate", "kill", "killwait"}
Ended     == {"exited", "killed"}

----------------------------------------------------------------------------

Init ==
    /\ pc = "setup"
    /\ inVerifier = FALSE
    /\ current = 0
    /\ started = 0
    /\ leader = [j \in Jobs |-> "none"]
    /\ helper = [j \in Jobs |-> "none"]
    /\ handler = "default"
    /\ alarm = FALSE
    /\ interrupts = 0
    /\ results = <<>>
    /\ raised = "none"
    /\ ret = 0
    /\ saveFiles \in BOOLEAN
    /\ workdir = TRUE
    /\ warned = FALSE
    /\ orphans = {}
    /\ escaped = FALSE

Goto(from, to) == pc = from /\ pc' = to

(***************************************************************************)
(* The runner's primitives.  killpg is sent only when poll() says that the *)
(* leader still runs; SIGTERM may be ignored by the receiver and any       *)
(* process may exit at any time, so only SIGKILL is recorded.              *)
(***************************************************************************)
HasProcess  == current # 0
Alive(j)    == leader[j] \in {"running", "doomed"}
Doom(state) == IF state = "running" THEN "doomed" ELSE state

\* Mutant: SIGTERM twice, so that a process that ignores it stays.
KillGroupPolitely == UNCHANGED <<leader, helper>>

KillGroup ==
    IF HasProcess /\ Alive(current)
    THEN /\ leader' = [leader EXCEPT ![current] = Doom(@)]
         /\ helper' = [helper EXCEPT ![current] = Doom(@)]
    ELSE UNCHANGED <<leader, helper>>

----------------------------------------------------------------------------
(* The script up to the try block. *)

\* setup() has run; start_timeout() installs the handler and sets the alarm.
StartTimeout ==
    /\ Goto("setup", "metadata")
    /\ \/ handler' = "raise" /\ alarm' = TRUE
       \/ UNCHANGED <<handler, alarm>>       \* opts.timeout = 0
    /\ UNCHANGED <<inVerifier, results, raised, ret, interrupts, children,
                   files, escaped>>

\* Test-Comp metadata and the INFO line: the alarm is on, the try is not open.
EnterTry ==
    /\ Goto("metadata", "work")
    /\ UNCHANGED <<inVerifier, results, raised, ret, signals, children, files,
                   escaped>>

----------------------------------------------------------------------------
(* Symbiotic.run: SymbioticCC and SymbioticVerifier take turns. *)

EnterVerifier ==
    /\ pc = "work" /\ ~inVerifier
    /\ inVerifier' = TRUE
    /\ UNCHANGED <<pc, results, raised, ret, signals, children, files, escaped>>

LeaveVerifier ==
    /\ pc = "work" /\ inVerifier
    /\ inVerifier' = FALSE
    /\ UNCHANGED <<pc, results, raised, ret, signals, children, files, escaped>>

\* ProcessRunner.run: Popen has forked, its value is not yet assigned.
Fork ==
    /\ Goto("work", "forked")
    /\ started < MaxJobs
    /\ started' = started + 1
    /\ leader' = [leader EXCEPT ![started + 1] = "running"]
    /\ \E h \in {"none", "running"} :
           helper' = [helper EXCEPT ![started + 1] = h]
    /\ UNCHANGED <<inVerifier, results, raised, ret, signals, current, orphans,
                   files, escaped>>

\* Popen raises OSError: SymbioticException, and no handle was stored.
PopenFails ==
    /\ Goto("work", "cmdfailed")
    /\ UNCHANGED <<inVerifier, results, raised, ret, signals, children, files,
                   escaped>>

StoreHandle ==
    /\ Goto("forked", "reading")
    /\ current' = started
    /\ UNCHANGED <<inVerifier, results, raised, ret, signals, started, leader,
                   helper, orphans, files, escaped>>

\* Mutant: the process that the watch stops is forgotten, not killed.
WatchForgets ==
    /\ Goto("reading", "failed")
    /\ current' = 0
    /\ UNCHANGED <<inVerifier, results, raised, ret, signals, started, leader,
                   helper, orphans, files, escaped>>

\* watch.ok() is False: terminate() and kill() of the Popen object reach the
\* leader only; run returns None, of which runcmd makes a SymbioticException.
\* Only run_opt uses a watch that stops, and its callers catch nothing.
WatchStops ==
    /\ Goto("reading", "failed")
    /\ leader' = [leader EXCEPT ![current] = Doom(@)]
    /\ current' = 0
    /\ UNCHANGED <<inVerifier, results, raised, ret, signals, started, helper,
                   orphans, files, escaped>>

\* End of file once no process of the group holds the pipe; then wait().
WaitReturns ==
    /\ Goto("reading", "collected")
    /\ leader[current] = "exited"
    /\ helper[current] \in {"none", "exited"}
    /\ UNCHANGED <<inVerifier, results, raised, ret, signals, children, files,
                   escaped>>

\* Mutant: run returns the status without resetting current_process.
KeepHandle ==
    /\ pc = "collected"
    /\ pc' \in {"work", "cmdfailed"}
    /\ UNCHANGED <<inVerifier, results, raised, ret, signals, children, files,
                   escaped>>

\* current_process = None; the caller goes on or raises SymbioticException.
ClearHandle ==
    /\ pc = "collected"
    /\ pc' \in {"work", "cmdfailed"}
    /\ current' = 0
    /\ UNCHANGED <<inVerifier, results, raised, ret, signals, started, leader,
                   helper, orphans, files, escaped>>

\* A caller that survives a failed command (include paths, disassembly and
\* statistics for debugging, executable witness) catches SymbioticException;
\* from any other it reaches the script.
CommandFailed ==
    /\ pc = "cmdfailed"
    /\ pc' \in {"work", "failed"}
    /\ UNCHANGED <<inVerifier, results, raised, ret, signals, children, files,
                   escaped>>

\* Mutant: ret is the status of the last command, not 0 or 1.
RunReturnsStatus ==
    /\ Goto("work", "report")
    /\ ~inVerifier
    /\ ret' \in {0, 1, 2}
    /\ UNCHANGED <<inVerifier, results, raised, signals, children, files,
                   escaped>>

\* Symbiotic.run returns a result, and ret is set from it.
RunReturns ==
    /\ Goto("work", "report")
    /\ ~inVerifier
    /\ ret' \in {0, 1}
    /\ UNCHANGED <<inVerifier, results, raised, signals, children, files,
                   escaped>>

\* Any other Python exception (a failed assertion, output that does not decode).
Crash ==
    /\ pc \in {"work", "reading"}
    /\ pc' = "finally"
    /\ raised' = "error"
    /\ UNCHANGED <<inVerifier, results, ret, signals, children, files, escaped>>

----------------------------------------------------------------------------
(* The handlers and the report. *)

\* except KeyboardInterrupt of Symbiotic.run: terminate, kill, 'interrupted'.
HandleInterrupt ==
    /\ Goto("interrupted", "report")
    /\ KillGroup
    /\ UNCHANGED <<inVerifier, results, raised, ret, signals, current, started,
                   orphans, files, escaped>>

\* except SymbioticException of the script prints, and err() raises SystemExit.
PrintError ==
    /\ Goto("failed", "failing")
    /\ results' = Append(results, "ERROR")
    /\ UNCHANGED <<inVerifier, raised, ret, signals, children, files, escaped>>

\* Mutant: err() prints and returns, ret = 1 is not reached either.
ErrReturns ==
    /\ Goto("failing", "finally")
    /\ UNCHANGED <<inVerifier, results, raised, ret, signals, children, files,
                   escaped>>

RaiseSystemExit ==
    /\ Goto("failing", "finally")
    /\ raised' = "exit"
    /\ UNCHANGED <<inVerifier, results, ret, signals, children, files, escaped>>

\* report_results prints in two steps: "RESULT: " and the result behind it.
StartReport ==
    /\ Goto("report", "reporting")
    /\ results' = Append(results, "unfinished")
    /\ UNCHANGED <<inVerifier, raised, ret, signals, children, files, escaped>>

ReportResults ==
    /\ Goto("reporting", "reported")
    /\ results' = [results EXCEPT ![Len(results)] = IF ret = 1 THEN "error" ELSE "verdict"]
    /\ UNCHANGED <<inVerifier, raised, ret, signals, children, files, escaped>>

LeaveTry ==
    /\ Goto("reported", "finally")
    /\ UNCHANGED <<inVerifier, results, raised, ret, signals, children, files,
                   escaped>>

\* Mutant: the timeout is handled inside the inner try, and reported again.
HandleTimeoutInside ==
    /\ Goto("timeout", "report")
    /\ results' = Append(results, "timeout")
    /\ UNCHANGED <<inVerifier, raised, ret, signals, children, files, escaped>>

HandleTimeout ==
    /\ Goto("timeout", "finally")
    /\ results' = Append(results, "timeout")
    /\ UNCHANGED <<inVerifier, raised, ret, signals, children, files, escaped>>

----------------------------------------------------------------------------
(* The finally block: stop_timeout, terminate, kill, kill_wait. *)

ResetHandler ==
    /\ Goto("finally", "disarm")
    /\ handler' = "default"
    /\ UNCHANGED <<inVerifier, results, raised, ret, alarm, interrupts, children,
                   files, escaped>>

CancelAlarm ==
    /\ Goto("disarm", "terminate")
    /\ alarm' = FALSE
    /\ UNCHANGED <<inVerifier, results, raised, ret, handler, interrupts,
                   children, files, escaped>>

Terminate ==
    /\ Goto("terminate", "kill")
    /\ UNCHANGED <<inVerifier, results, raised, ret, signals, children, files,
                   escaped>>

Kill ==
    /\ Goto("kill", "killwait")
    /\ KillGroup
    /\ UNCHANGED <<inVerifier, results, raised, ret, signals, current, started,
                   orphans, files, escaped>>

KillWaitAgain ==
    /\ pc = "killwait"
    /\ HasProcess /\ Alive(current)
    /\ KillGroup
    /\ UNCHANGED <<script, signals, current, started, orphans, files, escaped>>

\* kill_wait returns; a pending exception is raised again and ends the script.
KillWaitReturns ==
    /\ pc = "killwait"
    /\ ~(HasProcess /\ Alive(current))
    /\ pc' = IF raised = "none" THEN "cleanup" ELSE "exited"
    /\ UNCHANGED <<inVerifier, results, raised, ret, signals, children, files,
                   escaped>>

\* What rmtree cannot remove stays; on_rm_error prints it, and the script goes on.
RemoveTmpDir ==
    \/ workdir' = FALSE /\ UNCHANGED warned
    \/ warned' = TRUE /\ UNCHANGED workdir

Cleanup ==
    /\ Goto("cleanup", "exit")
    /\ IF saveFiles THEN UNCHANGED <<workdir, warned>> ELSE RemoveTmpDir
    /\ UNCHANGED <<inVerifier, results, raised, ret, signals, children,
                   saveFiles, escaped>>

Exit ==
    /\ Goto("exit", "exited")
    /\ UNCHANGED <<inVerifier, results, raised, ret, signals, children, files,
                   escaped>>

----------------------------------------------------------------------------
(* Signals. *)

\* The handle of a process is lost when Popen() is left by an exception.
LoseHandle == orphans' = orphans \cup (IF pc = "forked" THEN {started} ELSE {})

\* alarm_handler raises Timeout at the point the script has reached.
RaiseTimeout ==
    /\ alarm /\ handler = "raise" /\ pc \notin Ended
    /\ alarm' = FALSE
    /\ \/ /\ pc \in InTry                    \* except Timeout
          /\ pc' = "timeout"
          /\ UNCHANGED <<raised, escaped>>
       \/ /\ pc \notin InTry                 \* nobody catches it
          /\ pc' = "exited"
          /\ raised' = "error"
          /\ escaped' = IF pc \in InFinally THEN TRUE ELSE escaped
    /\ LoseHandle
    /\ UNCHANGED <<inVerifier, results, ret, handler, interrupts, current,
                   started, leader, helper, files>>

\* The default action of SIGALRM ends the interpreter on the spot.
AlarmKills ==
    /\ alarm /\ handler = "default" /\ pc \notin Ended
    /\ alarm' = FALSE
    /\ pc' = "killed"
    /\ UNCHANGED <<inVerifier, results, raised, ret, handler, interrupts,
                   children, files, escaped>>

\* Ctrl-C: the children are in process groups of their own and do not see it.
Interrupt ==
    /\ interrupts < MaxInterrupts
    /\ pc \notin Ended
    /\ interrupts' = interrupts + 1
    /\ \/ /\ pc \in Working                  \* caught in the call stack
          /\ pc' = IF inVerifier THEN "failed" ELSE "interrupted"
          /\ UNCHANGED <<raised, escaped>>
       \/ /\ pc \in Reporting \cup {"timeout"}
          /\ pc' = "finally"
          /\ raised' = "error"
          /\ UNCHANGED escaped
       \/ /\ pc \notin InTry \cup {"timeout"}
          /\ pc' = "exited"
          /\ raised' = "error"
          /\ escaped' = IF pc \in InFinally THEN TRUE ELSE escaped
    /\ LoseHandle
    /\ UNCHANGED <<inVerifier, results, ret, handler, alarm, current, started,
                   leader, helper, files>>

----------------------------------------------------------------------------
(* The operating system. *)

\* A running process may exit or hang; one that got SIGKILL ends for certain.
LeaderExits(j) ==
    /\ Alive(j)
    /\ leader' = [leader EXCEPT ![j] = "exited"]
    /\ UNCHANGED <<script, signals, current, started, helper, orphans, files,
                   escaped>>

HelperExits(j) ==
    /\ helper[j] \in {"running", "doomed"}
    /\ helper' = [helper EXCEPT ![j] = "exited"]
    /\ UNCHANGED <<script, signals, current, started, leader, orphans, files,
                   escaped>>

----------------------------------------------------------------------------

Run      == EnterVerifier \/ LeaveVerifier \/ Fork \/ PopenFails \/ StoreHandle
            \/ WatchStops \/ WaitReturns \/ ClearHandle \/ CommandFailed
            \/ RunReturns \/ Crash
Report   == HandleInterrupt \/ PrintError \/ RaiseSystemExit \/ StartReport
            \/ ReportResults \/ LeaveTry \/ HandleTimeout
Finally  == ResetHandler \/ CancelAlarm \/ Terminate \/ Kill \/ KillWaitAgain
            \/ KillWaitReturns \/ Cleanup \/ Exit
Script   == StartTimeout \/ EnterTry \/ Run \/ Report \/ Finally
Signal   == RaiseTimeout \/ AlarmKills \/ Interrupt
Os       == \E j \in Jobs : LeaderExits(j) \/ HelperExits(j)

Next == Script \/ Signal \/ Os

(***************************************************************************)
(* The interpreter runs, time passes until the alarm goes off, and SIGKILL *)
(* ends its receiver.  Nothing forces a process that was not killed to     *)
(* exit, nor the user to press Ctrl-C.                                     *)
(***************************************************************************)
Fairness ==
    /\ WF_vars(Script)
    /\ WF_vars(RaiseTimeout \/ AlarmKills)
    /\ \A j \in Jobs : WF_vars(leader[j] = "doomed" /\ LeaderExits(j))

Spec == Init /\ [][Next]_vars /\ Fairness

----------------------------------------------------------------------------
(* Properties. *)

ExitCode == IF raised = "none" THEN ret ELSE 1

(* Every variable stays in its range. *)
TypeOK ==
    /\ pc \in {"setup", "metadata", "timeout", "cleanup", "exit"}
              \cup InTry \cup InFinally \cup Ended
    /\ inVerifier \in BOOLEAN
    /\ current \in 0..MaxJobs
    /\ started \in 0..MaxJobs
    /\ leader \in [Jobs -> ProcessStates]
    /\ helper \in [Jobs -> ProcessStates]
    /\ handler \in {"default", "raise"}
    /\ alarm \in BOOLEAN
    /\ interrupts \in 0..MaxInterrupts
    /\ results \in Seq(ResultKinds)
    /\ raised \in {"none", "exit", "error"}
    /\ ret \in {0, 1}
    /\ saveFiles \in BOOLEAN
    /\ workdir \in BOOLEAN
    /\ warned \in BOOLEAN
    /\ orphans \in SUBSET Jobs
    /\ escaped \in BOOLEAN

(***************************************************************************)
(* The assertion at the head of ProcessRunner.run: whenever the pipeline   *)
(* or the verifier may start a command, no handle of an earlier one is     *)
(* left, whatever ended that one.                                          *)
(***************************************************************************)
OneProcess == pc = "work" => current = 0

(***************************************************************************)
(* When the script is over, a started process can only be running (not     *)
(* ended and not sent SIGKILL) if a signal left Popen() before the handle  *)
(* was stored or left the finally block midway.                            *)
(***************************************************************************)
NoChildLost ==
    pc = "exited" /\ ~escaped =>
        \A j \in Jobs : leader[j] = "running" => j \in orphans

(***************************************************************************)
(* Exit code 0 can be relied on: a RESULT line was printed, the last one   *)
(* is finished and not an error, no exception left the finally block, the  *)
(* timer is off, and the temporary directory is gone unless the user       *)
(* wanted to keep it or was told that it could not be removed.             *)
(***************************************************************************)
ZeroMeansDone ==
    pc = "exited" /\ ExitCode = 0 =>
        /\ results # <<>>
        /\ results[Len(results)] \notin {"error", "ERROR", "unfinished"}
        /\ ~escaped /\ ~alarm
        /\ workdir => saveFiles \/ warned

(***************************************************************************)
(* A run prints at most two RESULT lines, and a second one only because    *)
(* the alarm went off while the first was being reported: nothing is ever  *)
(* reported after a timeout.                                               *)
(***************************************************************************)
TimeoutIsLast ==
    /\ Len(results) <= 2
    /\ Len(results) = 2 => results[2] = "timeout" /\ results[1] # "timeout"

(***************************************************************************)
(* With a timeout set, the script ends even if every command it starts     *)
(* hangs for ever.                                                         *)
(***************************************************************************)
TimeoutEnds == alarm ~> pc \in Ended

(***************************************************************************)
(* Without a timeout too: after Ctrl-C, an error, a result or a crash the  *)
(* script ends, although a hanging child may have to be killed first.      *)
(***************************************************************************)
LeavingEnds == pc \in Reporting \cup {"timeout"} \cup InFinally ~> pc \in Ended

(***************************************************************************)
(* What the comments of ProcessRunner.run promise: after a timeout every   *)
(* process that was started is killed, with every child it created.        *)
(***************************************************************************)
AllKilledOnTimeout ==
    pc = "exited" /\ results # <<>> /\ results[Len(results)] = "timeout" =>
        \A j \in Jobs : leader[j] # "running" /\ helper[j] # "running"
=============================================================================
