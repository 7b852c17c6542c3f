------------------------- MODULE SupervisionProofs -------------------------
(***************************************************************************)
(* Theorems about Supervision, for any number of commands and interrupts.  *)
(*                                                                         *)
(* None of the properties is inductive: that no child is lost rests on     *)
(* which process can be running at each point of the script.  HandleInv    *)
(* says so; TypeOK /\ HandleInv is inductive, and the properties follow.   *)
(***************************************************************************)
EXTENDS Supervision, SequenceTheorems, TLAPS

ForkedJob == pc = "forked" => started # 0

\* Before a handle is stored and after it is cleared there is none.
HandleMatchesPc ==
    /\ pc \in {"setup", "metadata", "work", "forked", "cmdfailed"} => current = 0
    /\ pc \in {"reading", "collected"} => current # 0

\* A running process is the current one, just forked, or an orphan.
RunningIsKnown ==
    \A j \in Jobs : leader[j] = "running" =>
        j = current \/ j \in orphans \/ (pc = "forked" /\ j = started)

\* Behind kill_wait the current process does not run.
KilledBehindWait ==
    pc \in {"cleanup", "exit"} \/ (pc = "exited" /\ ~escaped) =>
        (current # 0 => leader[current] # "running")

\* wait() has returned before the handle is cleared.
CollectedIsDead == pc = "collected" => leader[current] # "running"

\* With an alarm pending SIGALRM raises, but for one point of stop_timeout.
AlarmRaises == alarm => handler = "raise" \/ pc = "disarm" \/ pc \in Ended

\* SIGALRM can no longer raise once Timeout is being handled.
NoSecondTimeout == pc = "timeout" => ~alarm

HandleInv ==
    /\ ForkedJob
    /\ HandleMatchesPc
    /\ RunningIsKnown
    /\ KilledBehindWait
    /\ CollectedIsDead
    /\ AlarmRaises
    /\ NoSecondTimeout

IInv == TypeOK /\ HandleInv

(***************************************************************************)
(* The inductive invariant holds when the script starts.                   *)
(***************************************************************************)
LEMMA InitIInv == Init => IInv
<1> SUFFICES ASSUME Init PROVE IInv
  OBVIOUS
<1> USE BoundsAssumption DEF Init
<1>1. results \in Seq(ResultKinds)
  OBVIOUS
<1>2. TypeOK
  <2>1. leader \in [Jobs -> ProcessStates] /\ helper \in [Jobs -> ProcessStates]
    BY DEF ProcessStates
  <2>2. current \in 0..MaxJobs /\ started \in 0..MaxJobs
        /\ interrupts \in 0..MaxInterrupts
    OBVIOUS
  <2>3. QED
    BY <1>1, <2>1, <2>2 DEF TypeOK
<1>3. HandleInv
  BY DEF HandleInv, ForkedJob, HandleMatchesPc, RunningIsKnown,
     KilledBehindWait, CollectedIsDead,
        AlarmRaises, NoSecondTimeout
<1>4. QED
  BY <1>2, <1>3 DEF IInv

(***************************************************************************)
(* Every step keeps the variables in their ranges.                         *)
(***************************************************************************)
LEMMA NextTypeOK == IInv /\ [Next]_vars => TypeOK'
<1> SUFFICES ASSUME TypeOK, HandleInv, [Next]_vars PROVE TypeOK'
  BY DEF IInv
<1>1. pc = "forked" => started \in Jobs
  BY BoundsAssumption DEF HandleInv, ForkedJob, TypeOK, Jobs
<1>2. pc = "reading" => current \in Jobs
  BY BoundsAssumption DEF HandleInv, HandleMatchesPc, TypeOK, Jobs
<1>3. QED
  <2> USE <1>1, <1>2, BoundsAssumption DEF TypeOK, vars, script, signals,
        children, files, Goto, Jobs, ProcessStates, ResultKinds, InTry, Working,
        Reporting, InFinally, Ended, Doom, HasProcess, Alive, LoseHandle,
        KillGroup
  <2>1. CASE StartTimeout
    BY <2>1 DEF StartTimeout
  <2>2. CASE EnterTry
    BY <2>2 DEF EnterTry
  <2>3. CASE EnterVerifier
    BY <2>3 DEF EnterVerifier
  <2>4. CASE LeaveVerifier
    BY <2>4 DEF LeaveVerifier
  <2>5. CASE Fork
    BY <2>5 DEF Fork
  <2>6. CASE PopenFails
    BY <2>6 DEF PopenFails
  <2>7. CASE StoreHandle
    BY <2>7 DEF StoreHandle
  <2>8. CASE WatchStops
    BY <2>8 DEF WatchStops
  <2>9. CASE WaitReturns
    BY <2>9 DEF WaitReturns
  <2>10. CASE ClearHandle
    BY <2>10 DEF ClearHandle
  <2>11. CASE CommandFailed
    BY <2>11 DEF CommandFailed
  <2>12. CASE RunReturns
    BY <2>12 DEF RunReturns
  <2>13. CASE Crash
    BY <2>13 DEF Crash
  <2>14. CASE HandleInterrupt
    BY <2>14 DEF HandleInterrupt
  <2>15. CASE PrintError
    BY <2>15 DEF PrintError
  <2>16. CASE RaiseSystemExit
    BY <2>16 DEF RaiseSystemExit
  <2>34. CASE StartReport
    BY <2>34 DEF StartReport
  <2>17. CASE ReportResults
    <3> DEFINE said == IF ret = 1 THEN "error" ELSE "verdict"
    <3>1. said \in ResultKinds
      OBVIOUS
    <3>2. results' = [results EXCEPT ![Len(results)] = said]
      BY <2>17 DEF ReportResults
    <3>3. results \in Seq(ResultKinds)
      OBVIOUS
    <3>4. results' \in Seq(ResultKinds)
      <4> HIDE DEF said
      <4>1. CASE Len(results) \in 1..Len(results)
        BY <3>1, <3>2, <3>3, <4>1, ExceptSeq
      <4>2. CASE Len(results) \notin 1..Len(results)
        <5>1. results = <<>>
          BY <3>3, <4>2, EmptySeq
        <5>2. results' = results
          BY <3>2, <5>1
        <5>3. QED
          BY <3>3, <5>2
      <4>3. QED
        BY <4>1, <4>2
    <3>5. QED
      BY <2>17, <3>4 DEF ReportResults
  <2>18. CASE LeaveTry
    BY <2>18 DEF LeaveTry
  <2>19. CASE HandleTimeout
    BY <2>19 DEF HandleTimeout
  <2>20. CASE ResetHandler
    BY <2>20 DEF ResetHandler
  <2>21. CASE CancelAlarm
    BY <2>21 DEF CancelAlarm
  <2>22. CASE Terminate
    BY <2>22 DEF Terminate
  <2>23. CASE Kill
    BY <2>23 DEF Kill
  <2>24. CASE KillWaitAgain
    BY <2>24 DEF KillWaitAgain
  <2>25. CASE KillWaitReturns
    BY <2>25 DEF KillWaitReturns
  <2>26. CASE Cleanup
    BY <2>26 DEF Cleanup, RemoveTmpDir
  <2>27. CASE Exit
    BY <2>27 DEF Exit
  <2>28. CASE RaiseTimeout
    <3>1. escaped' \in BOOLEAN
      BY <2>28 DEF RaiseTimeout
    <3>2. orphans' \in SUBSET Jobs
      BY <2>28, <1>1 DEF RaiseTimeout
    <3>3. QED
      BY <2>28, <3>1, <3>2 DEF RaiseTimeout
  <2>29. CASE AlarmKills
    BY <2>29 DEF AlarmKills
  <2>30. CASE Interrupt
    <3>1. escaped' \in BOOLEAN
      BY <2>30 DEF Interrupt
    <3>2. orphans' \in SUBSET Jobs
      BY <2>30, <1>1 DEF Interrupt
    <3>3. interrupts' \in 0..MaxInterrupts
      BY <2>30 DEF Interrupt
    <3>4. pc' \in {"failed", "interrupted", "finally", "exited"}
          /\ raised' \in {"none", "exit", "error"}
      BY <2>30 DEF Interrupt
    <3>5. QED
      BY <2>30, <3>1, <3>2, <3>3, <3>4 DEF Interrupt
  <2>31. CASE \E j \in Jobs : LeaderExits(j)
    BY <2>31 DEF LeaderExits
  <2>32. CASE \E j \in Jobs : HelperExits(j)
    BY <2>32 DEF HelperExits
  <2>33. CASE UNCHANGED vars
    BY <2>33
  <2>q. QED
    BY <2>1, <2>2, <2>3, <2>4, <2>5, <2>6, <2>7, <2>8, <2>9, <2>10, <2>11,
       <2>12, <2>13, <2>14, <2>15, <2>16, <2>17, <2>18, <2>19, <2>20,
       <2>21, <2>22, <2>23, <2>24, <2>25, <2>26, <2>27, <2>28, <2>29,
       <2>30, <2>31, <2>32, <2>33, <2>34 DEF Next, Script, Run, Report, Finally,
       Signal, Os

(***************************************************************************)
(* Every step preserves what HandleInv says of the handle and the leaders. *)
(***************************************************************************)
LEMMA NextHandleInv == IInv /\ [Next]_vars => HandleInv'
<1> SUFFICES ASSUME TypeOK, HandleInv, [Next]_vars PROVE HandleInv'
  BY DEF IInv
<1>1. pc = "forked" => started \in Jobs
  BY BoundsAssumption DEF HandleInv, ForkedJob, TypeOK, Jobs
<1>2. leader \in [Jobs -> ProcessStates] /\ started \in 0..MaxJobs
      /\ current \in 0..MaxJobs
      /\ pc \in {"setup", "metadata", "timeout", "cleanup", "exit"}
             \cup InTry \cup InFinally \cup Ended
  BY DEF TypeOK
<1>3. QED
  <2> HIDE DEF TypeOK
  <2> USE <1>1, <1>2, BoundsAssumption DEF HandleInv, ForkedJob, HandleMatchesPc,
        RunningIsKnown, KilledBehindWait, CollectedIsDead,
        AlarmRaises, NoSecondTimeout, vars, script, signals,
        children, files, Goto, Jobs, ProcessStates, InTry, Working,
        Reporting, InFinally, Ended, Doom, HasProcess, Alive, LoseHandle,
        KillGroup
  <2>1. CASE StartTimeout
    BY <2>1 DEF StartTimeout
  <2>2. CASE EnterTry
    BY <2>2 DEF EnterTry
  <2>3. CASE EnterVerifier
    BY <2>3 DEF EnterVerifier
  <2>4. CASE LeaveVerifier
    BY <2>4 DEF LeaveVerifier
  <2>5. CASE Fork
    BY <2>5 DEF Fork
  <2>6. CASE PopenFails
    BY <2>6 DEF PopenFails
  <2>7. CASE StoreHandle
    BY <2>7 DEF StoreHandle
  <2>8. CASE WatchStops
    <3>1. ForkedJob'
      BY <2>8 DEF WatchStops
    <3>2. HandleMatchesPc'
      BY <2>8 DEF WatchStops
    <3>3. RunningIsKnown'
      BY <2>8 DEF WatchStops
    <3>4. KilledBehindWait'
      BY <2>8 DEF WatchStops
    <3>5. CollectedIsDead'
      BY <2>8 DEF WatchStops
    <3>6. AlarmRaises'
      BY <2>8 DEF WatchStops
    <3>7. NoSecondTimeout'
      BY <2>8 DEF WatchStops
    <3>8. QED
      BY <3>1, <3>2, <3>3, <3>4, <3>5, <3>6, <3>7
  <2>9. CASE WaitReturns
    BY <2>9 DEF WaitReturns
  <2>10. CASE ClearHandle
    BY <2>10 DEF ClearHandle
  <2>11. CASE CommandFailed
    BY <2>11 DEF CommandFailed
  <2>12. CASE RunReturns
    BY <2>12 DEF RunReturns
  <2>13. CASE Crash
    BY <2>13 DEF Crash
  <2>14. CASE HandleInterrupt
    BY <2>14 DEF HandleInterrupt
  <2>15. CASE PrintError
    BY <2>15 DEF PrintError
  <2>16. CASE RaiseSystemExit
    BY <2>16 DEF RaiseSystemExit
  <2>34. CASE StartReport
    BY <2>34 DEF StartReport
  <2>17. CASE ReportResults
    BY <2>17 DEF ReportResults
  <2>18. CASE LeaveTry
    BY <2>18 DEF LeaveTry
  <2>19. CASE HandleTimeout
    BY <2>19 DEF HandleTimeout
  <2>20. CASE ResetHandler
    BY <2>20 DEF ResetHandler
  <2>21. CASE CancelAlarm
    BY <2>21 DEF CancelAlarm
  <2>22. CASE Terminate
    BY <2>22 DEF Terminate
  <2>23. CASE Kill
    BY <2>23 DEF Kill
  <2>24. CASE KillWaitAgain
    BY <2>24 DEF KillWaitAgain
  <2>25. CASE KillWaitReturns
    BY <2>25 DEF KillWaitReturns
  <2>26. CASE Cleanup
    BY <2>26 DEF Cleanup, RemoveTmpDir
  <2>27. CASE Exit
    BY <2>27 DEF Exit
  <2>28. CASE RaiseTimeout
    <3>1. ForkedJob'
      BY <2>28 DEF RaiseTimeout
    <3>2. HandleMatchesPc'
      BY <2>28 DEF RaiseTimeout
    <3>3. RunningIsKnown'
      BY <2>28 DEF RaiseTimeout
    <3>4. KilledBehindWait'
      BY <2>28 DEF RaiseTimeout
    <3>5. CollectedIsDead'
      BY <2>28 DEF RaiseTimeout
    <3>6. AlarmRaises'
      BY <2>28 DEF RaiseTimeout
    <3>7. NoSecondTimeout'
      BY <2>28 DEF RaiseTimeout
    <3>8. QED
      BY <3>1, <3>2, <3>3, <3>4, <3>5, <3>6, <3>7
  <2>29. CASE AlarmKills
    <3>1. ForkedJob'
      BY <2>29 DEF AlarmKills
    <3>2. HandleMatchesPc'
      BY <2>29 DEF AlarmKills
    <3>3. RunningIsKnown'
      BY <2>29 DEF AlarmKills
    <3>4. KilledBehindWait'
      BY <2>29 DEF AlarmKills
    <3>5. CollectedIsDead'
      BY <2>29 DEF AlarmKills
    <3>6. AlarmRaises'
      BY <2>29 DEF AlarmKills
    <3>7. NoSecondTimeout'
      BY <2>29 DEF AlarmKills
    <3>8. QED
      BY <3>1, <3>2, <3>3, <3>4, <3>5, <3>6, <3>7
  <2>30. CASE Interrupt
    <3>1. ForkedJob'
      BY <2>30 DEF Interrupt
    <3>2. HandleMatchesPc'
      BY <2>30 DEF Interrupt
    <3>3. RunningIsKnown'
      BY <2>30 DEF Interrupt
    <3>4. KilledBehindWait'
      BY <2>30 DEF Interrupt
    <3>5. CollectedIsDead'
      BY <2>30 DEF Interrupt
    <3>6. AlarmRaises'
      BY <2>30 DEF Interrupt
    <3>7. NoSecondTimeout'
      BY <2>30 DEF Interrupt
    <3>8. QED
      BY <3>1, <3>2, <3>3, <3>4, <3>5, <3>6, <3>7
  <2>31. CASE \E j \in Jobs : LeaderExits(j)
    <3>1. ForkedJob'
      BY <2>31 DEF LeaderExits
    <3>2. HandleMatchesPc'
      BY <2>31 DEF LeaderExits
    <3>3. RunningIsKnown'
      BY <2>31 DEF LeaderExits
    <3>4. KilledBehindWait'
      BY <2>31 DEF LeaderExits
    <3>5. CollectedIsDead'
      BY <2>31 DEF LeaderExits
    <3>6. AlarmRaises'
      BY <2>31 DEF LeaderExits
    <3>7. NoSecondTimeout'
      BY <2>31 DEF LeaderExits
    <3>8. QED
      BY <3>1, <3>2, <3>3, <3>4, <3>5, <3>6, <3>7
  <2>32. CASE \E j \in Jobs : HelperExits(j)
    BY <2>32 DEF HelperExits
  <2>33. CASE UNCHANGED vars
    BY <2>33
  <2>q. QED
    BY <2>1, <2>2, <2>3, <2>4, <2>5, <2>6, <2>7, <2>8, <2>9, <2>10, <2>11,
       <2>12, <2>13, <2>14, <2>15, <2>16, <2>17, <2>18, <2>19, <2>20,
       <2>21, <2>22, <2>23, <2>24, <2>25, <2>26, <2>27, <2>28, <2>29,
       <2>30, <2>31, <2>32, <2>33, <2>34 DEF Next, Script, Run, Report, Finally,
       Signal, Os

(***************************************************************************)
(* The handle of the process runner, the pending alarm and the running     *)
(* processes fit the point that the script has reached, in every run.      *)
(***************************************************************************)
THEOREM Inductive == Spec => []IInv
<1>1. Init => IInv
  BY InitIInv
<1>2. IInv /\ [Next]_vars => IInv'
  BY NextTypeOK, NextHandleInv DEF IInv
<1>3. QED
  BY <1>1, <1>2, PTL DEF Spec

(***************************************************************************)
(* Every variable of the run stays in its range.                           *)
(***************************************************************************)
THEOREM TypeCorrect == Spec => []TypeOK
<1>1. IInv => TypeOK
  BY DEF IInv
<1>2. QED
  BY <1>1, Inductive, PTL

(***************************************************************************)
(* The assertion of ProcessRunner.run never fails.                         *)
(***************************************************************************)
THEOREM AtMostOneProcess == Spec => []OneProcess
<1>1. IInv => OneProcess
  BY DEF IInv, HandleInv, HandleMatchesPc, OneProcess
<1>2. QED
  BY <1>1, Inductive, PTL

(***************************************************************************)
(* A process outlives the script only if a signal left Popen() or the      *)
(* finally block.                                                          *)
(***************************************************************************)
THEOREM ChildrenAccountedFor == Spec => []NoChildLost
<1>1. IInv => NoChildLost
  BY DEF IInv, HandleInv, RunningIsKnown, KilledBehindWait, NoChildLost, TypeOK,
     Jobs
<1>2. QED
  BY <1>1, Inductive, PTL

(***************************************************************************)
(* What was reported, by the point that the script has reached.  Behind    *)
(* the try block an exception waits, or the last line is the one of a      *)
(* timeout, or it is the only one and says what ret says.                  *)
(***************************************************************************)
FirstLines == {"verdict", "error", "ERROR", "unfinished"}
First == {<<x>> : x \in FirstLines}
Last  == {<<"timeout">>} \cup {<<x, "timeout">> : x \in FirstLines}
Said  == <<IF ret = 1 THEN "error" ELSE "verdict">>

ReportedByPc ==
    /\ results \in {<<>>} \cup First \cup Last
    /\ pc \in {"setup", "metadata", "interrupted", "failed", "report"} \cup Working =>
          results = <<>>
    /\ pc = "failing" => results = <<"ERROR">>
    /\ pc = "reporting" => results = <<"unfinished">>
    /\ pc = "reported" => results = Said
    /\ pc = "timeout" => results \in {<<>>} \cup First
    /\ pc \in InFinally \cup {"cleanup", "exit", "exited"} =>
          raised # "none" \/ results \in Last \/ results = Said

CleanEnd ==
    /\ pc \in {"cleanup", "exit"} => raised = "none"
    /\ pc \in {"terminate", "kill", "killwait", "cleanup", "exit"} => ~alarm
    /\ escaped => pc = "exited" /\ raised = "error"
    /\ pc = "exit" => (workdir => saveFiles \/ warned)
    /\ pc = "exited" /\ raised = "none" => ~alarm /\ (workdir => saveFiles \/ warned)

ReportInv == ReportedByPc /\ CleanEnd

LEMMA OneLine == \A x : Append(<<>>, x) = <<x>>
OBVIOUS

LEMMA SecondLine == \A s \in {<<>>} \cup First : Append(s, "timeout") \in Last
<1>1. Append(<<>>, "timeout") \in Last
  BY OneLine DEF Last
<1>2. ASSUME NEW x PROVE Append(<<x>>, "timeout") = <<x, "timeout">>
  <2> DEFINE S == {x, "timeout"}
             s == <<x>>
             t == <<x, "timeout">>
             u == Append(s, "timeout")
  <2>1. s \in Seq(S) /\ Len(s) = 1 /\ s[1] = x
    OBVIOUS
  <2>2. t \in Seq(S) /\ Len(t) = 2 /\ t[1] = x /\ t[2] = "timeout"
    OBVIOUS
  <2>3. u \in Seq(S) /\ Len(u) = 2 /\ u[1] = x /\ u[2] = "timeout"
    BY <2>1
  <2> HIDE DEF s, t, u, S
  <2>4. t = u
    BY <2>2, <2>3, SeqEqual
  <2>5. QED
    BY <2>4 DEF s, t, u
<1>3. QED
  BY <1>1, <1>2 DEF First, Last

LEMMA NextReportInv == IInv /\ ReportInv /\ [Next]_vars => ReportInv'
<1> SUFFICES ASSUME IInv, ReportInv, [Next]_vars PROVE ReportInv'
  OBVIOUS
<1>1. /\ pc \in {"setup", "metadata", "timeout", "cleanup", "exit"}
             \cup InTry \cup InFinally \cup Ended
      /\ raised \in {"none", "exit", "error"} /\ escaped \in BOOLEAN /\ alarm \in BOOLEAN
      /\ workdir \in BOOLEAN /\ saveFiles \in BOOLEAN /\ warned \in BOOLEAN
  BY DEF IInv, TypeOK
<1>2. ~(pc = "killwait" /\ alarm)
  BY DEF ReportInv, CleanEnd
<1> USE <1>1 DEF ReportInv, ReportedByPc, CleanEnd, Goto, InTry, Working, Reporting, InFinally, Ended
<1>3. CASE Os \/ UNCHANGED vars
  <2>1. UNCHANGED <<script, signals, files, escaped>>
    BY <1>3 DEF Os, LeaderExits, HelperExits, vars
  <2>2. QED
    BY <2>1 DEF script, signals, files, Said
<1>4. CASE StartTimeout \/ EnterTry
  BY <1>4 DEF StartTimeout, EnterTry, files, Said
<1>5. CASE Run
  <2>1. /\ pc \in Working /\ results = <<>> /\ UNCHANGED <<results, signals, files, escaped>>
        /\ \/ pc' \in Working \cup {"failed", "report"} /\ raised' = raised
           \/ pc' = "finally" /\ raised' = "error"
    BY <1>5 DEF Run, EnterVerifier, LeaveVerifier, Fork, PopenFails, StoreHandle, WatchStops,
                WaitReturns, ClearHandle, CommandFailed, RunReturns, Crash
  <2>2. QED
    BY <2>1 DEF signals, files
<1>6. CASE HandleInterrupt
  BY <1>6 DEF HandleInterrupt, signals, files, Said
<1>7. CASE PrintError
  BY <1>7, OneLine DEF PrintError, signals, files, Said, First, FirstLines
<1>8. CASE RaiseSystemExit
  BY <1>8 DEF RaiseSystemExit, signals, files, Said
<1>21. CASE StartReport
  BY <1>21, OneLine DEF StartReport, signals, files, Said, First, FirstLines
<1>9. CASE ReportResults
  <2>1. results = <<"unfinished">> /\ Len(results) = 1
    BY <1>9 DEF ReportResults
  <2>3. results' = Said' /\ results' \in First
    BY <1>9, <2>1 DEF ReportResults, Said, First, FirstLines
  <2>2. QED
    BY <1>9, <2>3 DEF ReportResults, signals, files
<1>10. CASE LeaveTry
  BY <1>10 DEF LeaveTry, signals, files, Said
<1>11. CASE HandleTimeout
  <2>1. results' \in Last
    BY <1>11, SecondLine DEF HandleTimeout
  <2>2. QED
    BY <1>11, <2>1 DEF HandleTimeout, signals, files
<1>12. CASE ResetHandler \/ CancelAlarm
  BY <1>12 DEF ResetHandler, CancelAlarm, files, Said
<1>13. CASE Terminate \/ Kill
  BY <1>13 DEF Terminate, Kill, signals, files, Said
<1>14. CASE KillWaitAgain
  BY <1>14 DEF KillWaitAgain, script, signals, files, Said
<1>15. CASE KillWaitReturns
  BY <1>15 DEF KillWaitReturns, signals, files, Said
<1>16. CASE Cleanup \/ Exit
  BY <1>16 DEF Cleanup, RemoveTmpDir, Exit, signals, files, Said
<1>17. CASE RaiseTimeout
  <2>1. CASE pc \in InTry
    <3>1. results \in {<<>>} \cup First
      BY <2>1 DEF First, FirstLines, Said
    <3>2. /\ pc' = "timeout" /\ UNCHANGED <<results, raised, escaped>>
      BY <1>17, <2>1 DEF RaiseTimeout
    <3>3. QED
      BY <2>1, <3>1, <3>2
  <2>2. CASE pc \notin InTry
    <3>1. /\ pc' = "exited" /\ raised' = "error" /\ UNCHANGED <<results, ret>>
          /\ escaped' \in BOOLEAN
      BY <1>17, <2>2 DEF RaiseTimeout
    <3>2. QED
      BY <3>1
  <2>3. QED
    BY <2>1, <2>2
<1>18. CASE AlarmKills
  BY <1>18 DEF AlarmKills, files, Said
<1>19. CASE Interrupt
  <2>1. UNCHANGED <<results, ret, alarm, files>>
    BY <1>19 DEF Interrupt
  <2>2. CASE pc \in Working
    <3>1. pc' \in {"failed", "interrupted"} /\ UNCHANGED <<raised, escaped>>
      BY <1>19, <2>2 DEF Interrupt
    <3>2. QED
      BY <2>1, <2>2, <3>1
  <2>3. CASE pc \in Reporting \cup {"timeout"}
    <3>1. pc' = "finally" /\ raised' = "error" /\ UNCHANGED escaped
      BY <1>19, <2>3 DEF Interrupt
    <3>2. QED
      BY <2>1, <2>3, <3>1
  <2>4. CASE pc \notin InTry \cup {"timeout"}
    <3>1. pc' = "exited" /\ raised' = "error"
      BY <1>19, <2>4 DEF Interrupt
    <3>2. QED
      BY <2>1, <3>1
  <2>5. QED
    BY <2>2, <2>3, <2>4
<1>20. QED
  BY <1>3, <1>4, <1>5, <1>6, <1>7, <1>8, <1>9, <1>10, <1>11, <1>12, <1>13, <1>14, <1>15,
     <1>16, <1>17, <1>18, <1>19, <1>21 DEF Next, Script, Report, Finally, Signal

LEMMA Reported == Spec => []ReportInv
<1>1. Init => ReportInv
  BY DEF Init, ReportInv, ReportedByPc, CleanEnd, InFinally
<1>2. QED
  BY <1>1, NextReportInv, Inductive, PTL DEF Spec

(***************************************************************************)
(* Exit code 0 says that a result was printed to its end, and that the     *)
(* directory is gone, wanted, or complained about.                         *)
(***************************************************************************)
THEOREM ZeroIsReliable == Spec => []ZeroMeansDone
<1>1. ReportInv => ZeroMeansDone
  <2> SUFFICES ASSUME ReportInv, pc = "exited", raised = "none", ret = 0
               PROVE  /\ results # <<>> /\ results[Len(results)] \notin {"error", "ERROR", "unfinished"}
                      /\ ~escaped /\ ~alarm /\ (workdir => saveFiles \/ warned)
    BY DEF ZeroMeansDone, ExitCode
  <2>1. results \in Last \/ results = <<"verdict">>
    BY DEF ReportInv, ReportedByPc, Said
  <2>2. results # <<>> /\ results[Len(results)] \in {"timeout", "verdict"}
    BY <2>1 DEF Last
  <2>3. QED
    BY <2>2 DEF ReportInv, CleanEnd
<1>2. QED
  BY <1>1, Reported, PTL

(***************************************************************************)
(* Nothing is reported after a timeout, and at most one line before it.    *)
(***************************************************************************)
THEOREM NothingAfterTimeout == Spec => []TimeoutIsLast
<1>1. ReportInv => TimeoutIsLast
  <2> SUFFICES ASSUME results \in {<<>>} \cup First \cup Last PROVE TimeoutIsLast
    BY DEF ReportInv, ReportedByPc
  <2>1. CASE results \in Last
    <3>1. CASE results = <<"timeout">>
      BY <3>1 DEF TimeoutIsLast
    <3>2. ASSUME NEW x \in FirstLines, results = <<x, "timeout">>
          PROVE  TimeoutIsLast
      BY <3>2 DEF TimeoutIsLast, FirstLines
    <3>3. QED
      BY <2>1, <3>1, <3>2 DEF Last
  <2>2. CASE results \in {<<>>} \cup First
    <3>1. Len(results) \in {0, 1}
      BY <2>2 DEF First
    <3>2. QED
      BY <3>1 DEF TimeoutIsLast
  <2>3. QED
    BY <2>1, <2>2
<1>2. QED
  BY <1>1, Reported, PTL

=============================================================================
