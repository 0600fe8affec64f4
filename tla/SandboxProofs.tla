---------------------------- MODULE SandboxProofs ----------------------------
(***************************************************************************)
(* Safety of Sandbox, for any number of calls, of processes they start and *)
(* any timeouts.                                                           *)
(***************************************************************************)
EXTENDS Sandbox, TLAPS

ProcessesOK ==
    /\ DOMAIN call = Calls /\ DOMAIN child = Calls
    /\ DOMAIN kids = Calls /\ DOMAIN pipes = Calls
    /\ runs \in Seq([call: Calls, timed_out: BOOLEAN])

\* The child runs only while subprocess.run waits for it.
ChildWaitedFor ==
    \A c \in Calls :
        child[c] = "running" => call[c].at \in {"communicate", "wait"}

\* Once the output has ended nobody opens the pipes again, up to the record.
OutputStaysEnded ==
    \A c \in Calls :
        /\ call[c].at = "wait" => pipes[c] = {}
        /\ call[c].at = "cleanup" =>
              /\ call[c].result \in [call: {c}, timed_out: BOOLEAN]
              /\ ~call[c].result.timed_out => pipes[c] = {}

\* A recorded run is one of a call that is over.
RecordedIsDone == \A i \in DOMAIN runs : call[runs[i].call].at = "done"

SandboxInv ==
    /\ ProcessesOK
    /\ ChildWaitedFor
    /\ OutputStaysEnded
    /\ RecordedIsDone
    /\ OutputComplete
    /\ CleanedIsTrue

LEMMA InitInv == Init => SandboxInv
  <1> SUFFICES ASSUME Init PROVE SandboxInv
    OBVIOUS
  <1>1. ProcessesOK
    BY DEF Init, ProcessesOK
  <1>2. ChildWaitedFor /\ OutputStaysEnded
    BY DEF Init, ChildWaitedFor, OutputStaysEnded
  <1>3. RecordedIsDone /\ OutputComplete /\ CleanedIsTrue
    BY DEF Init, RecordedIsDone, OutputComplete, CleanedIsTrue
  <1> QED BY <1>1, <1>2, <1>3 DEF SandboxInv

\* The call that a recorded run names.
LEMMA RunsOf ==
    ASSUME SandboxInv, NEW i \in DOMAIN runs
    PROVE  runs[i] \in [call: Calls, timed_out: BOOLEAN]
  <1> DEFINE Runs == [call: Calls, timed_out: BOOLEAN]
  <1>1. runs \in Seq(Runs)
    BY DEF SandboxInv, ProcessesOK
  <1> HIDE DEF Runs
  <1>2. runs[i] \in Runs
    BY <1>1
  <1> QED BY <1>2 DEF Runs

\* A call that is not over moves; its processes do not, unless the move is
\* the end of the child.
LEMMA CallMoves ==
    ASSUME SandboxInv, NEW c \in Calls, NEW state, Goto(c, state),
           call[c].at # "done", UNCHANGED <<kids, runs>>,
           DOMAIN child' = Calls, DOMAIN pipes' = Calls,
           \A d \in Calls : d # c => child'[d] = child[d] /\ pipes'[d] = pipes[d],
           child'[c] = "running" => state.at \in {"communicate", "wait"},
           state.at = "wait" => pipes'[c] = {},
           state.at = "cleanup" =>
              /\ state.result \in [call: {c}, timed_out: BOOLEAN]
              /\ ~state.result.timed_out => pipes'[c] = {},
           workspace' \subseteq workspace \cup {c}
    PROVE  SandboxInv'
  <1>1. /\ DOMAIN call' = Calls
        /\ call'[c] = state
        /\ \A d \in Calls : d # c => call'[d] = call[d]
    BY DEF Goto, SandboxInv, ProcessesOK
  <1>2. ProcessesOK'
    BY <1>1 DEF SandboxInv, ProcessesOK
  <1>3. ChildWaitedFor'
    BY <1>1 DEF SandboxInv, ChildWaitedFor
  <1>4. OutputStaysEnded'
    BY <1>1 DEF SandboxInv, OutputStaysEnded
  <1>5. \A i \in DOMAIN runs : runs[i].call \in Calls /\ runs[i].call # c
    BY RunsOf DEF SandboxInv, RecordedIsDone
  <1>6. RecordedIsDone'
    BY <1>1, <1>5 DEF SandboxInv, RecordedIsDone
  <1>7. OutputComplete'
    BY <1>5 DEF SandboxInv, OutputComplete
  <1>8. CleanedIsTrue'
    BY <1>5 DEF SandboxInv, CleanedIsTrue
  <1> QED BY <1>2, <1>3, <1>4, <1>6, <1>7, <1>8 DEF SandboxInv

\* The same for a move that leaves all processes alone.
LEMMA CallMovesAlone ==
    ASSUME SandboxInv, NEW c \in Calls, NEW state, Goto(c, state),
           call[c].at # "done", UNCHANGED <<child, kids, pipes, runs>>,
           child[c] = "running" => state.at \in {"communicate", "wait"},
           state.at = "wait" => pipes[c] = {},
           state.at = "cleanup" =>
              /\ state.result \in [call: {c}, timed_out: BOOLEAN]
              /\ ~state.result.timed_out => pipes[c] = {},
           workspace' \subseteq workspace \cup {c}
    PROVE  SandboxInv'
  <1>1. DOMAIN child' = Calls /\ DOMAIN pipes' = Calls
    BY DEF SandboxInv, ProcessesOK
  <1> QED BY <1>1, CallMoves

LEMMA DoneMoves ==
    ASSUME SandboxInv, NEW c \in Calls, Done(c),
           call[c].at \in {"idle", "cleanup", "raising"},
           UNCHANGED <<child, kids, pipes, runs>>, workspace' \subseteq workspace
    PROVE  SandboxInv'
  <1>1. child[c] # "running"
    BY DEF SandboxInv, ChildWaitedFor
  <1>2. [at |-> "done"].at = "done" /\ Goto(c, [at |-> "done"])
    BY DEF Done
  <1> QED BY <1>1, <1>2, CallMovesAlone

LEMMA ExecuteInv ==
    ASSUME SandboxInv, NEW c \in Calls, NEW allowed \in BOOLEAN,
           NEW timeout \in Timeouts, Execute(c, allowed, timeout)
    PROVE  SandboxInv'
  <1> DEFINE state == [at |-> "popen", timeout |-> EffectiveTimeout(timeout)]
  <1>1. /\ call[c].at = "idle" /\ Goto(c, state)
        /\ UNCHANGED <<child, kids, pipes, runs>> /\ workspace' = workspace \cup {c}
    BY DEF Execute, processes
  <1>2. state.at = "popen"
    OBVIOUS
  <1>3. child[c] # "running"
    BY <1>1 DEF SandboxInv, ChildWaitedFor
  <1> HIDE DEF state
  <1> QED BY <1>1, <1>2, <1>3, CallMovesAlone

LEMMA PopenInv ==
    ASSUME SandboxInv, NEW c \in Calls, Popen(c)
    PROVE  SandboxInv'
  <1> DEFINE state == [at |-> "communicate", deadline |-> clock + call[c].timeout]
  <1>1. /\ call[c].at = "popen" /\ Goto(c, state)
        /\ child' = [child EXCEPT ![c] = "running"]
        /\ pipes' = [pipes EXCEPT ![c] = {Child}]
        /\ UNCHANGED <<kids, workspace, runs>>
    BY DEF Popen
  <1>2. state.at = "communicate"
    OBVIOUS
  <1>3. /\ DOMAIN child' = Calls /\ DOMAIN pipes' = Calls
        /\ \A d \in Calls : d # c => child'[d] = child[d] /\ pipes'[d] = pipes[d]
    BY <1>1 DEF SandboxInv, ProcessesOK
  <1> HIDE DEF state
  <1> QED BY <1>1, <1>2, <1>3, CallMoves

\* PopenFails, EndOfOutput and Undecodable.
LEMMA StepInv ==
    ASSUME SandboxInv, NEW c \in Calls,
           PopenFails(c) \/ EndOfOutput(c) \/ Undecodable(c)
    PROVE  SandboxInv'
  <1>1. CASE PopenFails(c) \/ Undecodable(c)
    <2> DEFINE state == [call[c] EXCEPT !.at = "raising"]
    <2>1. /\ Goto(c, state) /\ UNCHANGED <<child, kids, pipes, workspace, runs>>
          /\ \/ call[c].at = "popen"
             \/ call[c].at = "wait" /\ child[c] = "exited"
      <3>1. CASE PopenFails(c)
        BY <3>1 DEF PopenFails, Step, processes
      <3>2. CASE Undecodable(c)
        BY <3>2 DEF Undecodable, Step, processes
      <3> QED BY <1>1, <3>1, <3>2
    <2>2. child[c] # "running"
      BY <2>1 DEF SandboxInv, ChildWaitedFor
    <2>3. state.at \notin {"wait", "cleanup"}
      BY <2>1
    <2> HIDE DEF state
    <2> QED BY <2>1, <2>2, <2>3, CallMovesAlone
  <1>2. CASE EndOfOutput(c)
    <2> DEFINE state == [call[c] EXCEPT !.at = "wait"]
    <2>1. /\ Goto(c, state) /\ UNCHANGED <<child, kids, pipes, workspace, runs>>
          /\ call[c].at = "communicate" /\ pipes[c] = {}
      BY <1>2 DEF EndOfOutput, OutputEnded, Step, processes
    <2>2. state.at = "wait"
      BY <2>1
    <2> HIDE DEF state
    <2> QED BY <2>1, <2>2, CallMovesAlone
  <1> QED BY <1>1, <1>2

\* Once the pipes are empty and the child has exited, the run is not timed out.
LEMMA CompletedInv ==
    ASSUME SandboxInv, NEW c \in Calls, Completed(c)
    PROVE  SandboxInv'
  <1> DEFINE result == [call |-> c, timed_out |-> FALSE]
             state == [at |-> "cleanup", result |-> result]
  <1>1. /\ call[c].at = "wait" /\ child[c] = "exited" /\ Goto(c, state)
        /\ UNCHANGED <<child, kids, pipes, workspace, runs>>
    BY DEF Completed, Result, processes
  <1>2. /\ state.at = "cleanup" /\ state.result = result
        /\ result \in [call: {c}, timed_out: BOOLEAN]
    OBVIOUS
  <1>3. pipes[c] = {}
    BY <1>1 DEF SandboxInv, OutputStaysEnded
  <1> HIDE DEF state, result
  <1> QED BY <1>1, <1>2, <1>3, CallMovesAlone

\* The timeout kills the child, the only process it waits for.
LEMMA TimeOutInv ==
    ASSUME SandboxInv, NEW c \in Calls, TimeOut(c)
    PROVE  SandboxInv'
  <1> DEFINE result == [call |-> c, timed_out |-> TRUE]
             state == [at |-> "cleanup", result |-> result]
  <1>1. /\ call[c].at \in {"communicate", "wait"} /\ Goto(c, state)
        /\ child' = [child EXCEPT ![c] = "exited"]
        /\ pipes' = [pipes EXCEPT ![c] = pipes[c] \ {Child}]
        /\ UNCHANGED <<kids, workspace, runs>>
    BY DEF TimeOut, Kill, Result
  <1>2. /\ state.at = "cleanup" /\ state.result = result /\ result.timed_out
        /\ result \in [call: {c}, timed_out: BOOLEAN]
    OBVIOUS
  <1>3. /\ DOMAIN child' = Calls /\ DOMAIN pipes' = Calls
        /\ child'[c] # "running"
        /\ \A d \in Calls : d # c => child'[d] = child[d] /\ pipes'[d] = pipes[d]
    BY <1>1 DEF SandboxInv, ProcessesOK
  <1> HIDE DEF state, result
  <1> QED BY <1>1, <1>2, <1>3, CallMoves

\* The run is recorded once its workspace is gone.
LEMMA RecordInv ==
    ASSUME SandboxInv, NEW c \in Calls, Record(c)
    PROVE  SandboxInv'
  <1> DEFINE new == call[c].result
  <1>1. /\ call[c].at = "cleanup" /\ workspace' = workspace \ {c}
        /\ runs' = Append(runs, new)
        /\ call' = [call EXCEPT ![c] = [at |-> "done"]]
        /\ UNCHANGED <<child, kids, pipes>>
    BY DEF Record, Cleaned, Done, Goto, processes
  <1>2. /\ new \in [call: {c}, timed_out: BOOLEAN]
        /\ new \in [call: Calls, timed_out: BOOLEAN] /\ new.call = c
        /\ ~new.timed_out => pipes[c] = {}
        /\ child[c] # "running"
    BY <1>1 DEF SandboxInv, OutputStaysEnded, ChildWaitedFor
  <1>3. /\ DOMAIN call' = Calls
        /\ call'[c].at = "done"
        /\ \A d \in Calls : d # c => call'[d] = call[d]
    BY <1>1 DEF SandboxInv, ProcessesOK
  <1> HIDE DEF new
  <1>4. /\ runs' \in Seq([call: Calls, timed_out: BOOLEAN])
        /\ \A i \in DOMAIN runs' :
              \/ i \in DOMAIN runs /\ runs'[i] = runs[i]
              \/ runs'[i] = new
    BY <1>1, <1>2 DEF SandboxInv, ProcessesOK
  <1>5. ProcessesOK'
    BY <1>1, <1>3, <1>4 DEF SandboxInv, ProcessesOK
  <1>6. ChildWaitedFor' /\ OutputStaysEnded'
    BY <1>1, <1>2, <1>3 DEF SandboxInv, ChildWaitedFor, OutputStaysEnded
  <1>7. RecordedIsDone'
    BY <1>2, <1>3, <1>4, RunsOf DEF SandboxInv, RecordedIsDone
  <1>8. OutputComplete'
    BY <1>1, <1>2, <1>4 DEF SandboxInv, OutputComplete
  <1>9. CleanedIsTrue'
    BY <1>1, <1>2, <1>4 DEF SandboxInv, CleanedIsTrue
  <1> QED BY <1>5, <1>6, <1>7, <1>8, <1>9 DEF SandboxInv

\* Processes come and go, but nobody opens pipes that all have closed.
LEMMA ProcessInv ==
    ASSUME SandboxInv, NEW c \in Calls, UNCHANGED <<call, workspace, runs>>,
           DOMAIN child' = Calls, DOMAIN kids' = Calls, DOMAIN pipes' = Calls,
           \A d \in Calls : child'[d] = "running" => child[d] = "running",
           \A d \in Calls : pipes[d] = {} => pipes'[d] = {}
    PROVE  SandboxInv'
  <1>1. ProcessesOK' /\ ChildWaitedFor' /\ RecordedIsDone' /\ CleanedIsTrue'
    BY DEF SandboxInv, ProcessesOK, ChildWaitedFor, RecordedIsDone, CleanedIsTrue
  <1>2. OutputStaysEnded'
    BY DEF SandboxInv, OutputStaysEnded
  <1>3. OutputComplete'
    BY RunsOf DEF SandboxInv, OutputComplete
  <1> QED BY <1>1, <1>2, <1>3 DEF SandboxInv

LEMMA ThreadInv ==
    ASSUME SandboxInv, NEW c \in Calls, Thread(c)
    PROVE  SandboxInv'
  <1>1. CASE Raise(c) \/ CleanupFails(c)
    BY <1>1, DoneMoves DEF Raise, CleanupFails, Cleaned, processes
  <1> QED BY <1>1, PopenInv, StepInv, CompletedInv, TimeOutInv, RecordInv DEF Thread

LEMMA SandboxInductive == Spec => []SandboxInv
  <1>1. ASSUME SandboxInv, [Next]_vars PROVE SandboxInv'
    <2>1. ASSUME NEW c \in Calls, NEW allowed \in BOOLEAN, NEW timeout \in Timeouts,
                 Denied(c, allowed, timeout)
          PROVE  SandboxInv'
      BY <1>1, <2>1, DoneMoves DEF Denied, processes
    <2>2. ASSUME NEW c \in Calls, NEW k \in Kids, Spawn(c, k) PROVE SandboxInv'
      BY <1>1, <2>2, ProcessInv DEF Spawn, SandboxInv, ProcessesOK
    <2>3. ASSUME NEW c \in Calls, NEW p, ClosePipes(c, p) PROVE SandboxInv'
      BY <1>1, <2>3, ProcessInv DEF ClosePipes, SandboxInv, ProcessesOK
    <2>4. ASSUME NEW c \in Calls, NEW p, Exit(c, p) PROVE SandboxInv'
      BY <1>1, <2>4, ProcessInv DEF Exit, SandboxInv, ProcessesOK
    <2>5. CASE UNCHANGED <<call, child, kids, pipes, workspace, runs>>
      BY <1>1, <2>5 DEF SandboxInv, ProcessesOK, ChildWaitedFor, OutputStaysEnded,
                        RecordedIsDone, OutputComplete, CleanedIsTrue
    <2>6. CASE Tick \/ UNCHANGED vars
      BY <2>5, <2>6 DEF Tick, vars, processes
    <2> QED BY <1>1, <2>1, <2>2, <2>3, <2>4, <2>6, ExecuteInv, ThreadInv DEF Next
  <1> QED BY InitInv, <1>1, PTL DEF Spec

\* However a call of execute ends, the process it started is dead.
THEOREM ChildAlwaysDead == Spec => []ChildDead
  <1>1. SandboxInv => ChildDead
    BY DEF SandboxInv, ChildWaitedFor, ChildDead
  <1> QED BY <1>1, SandboxInductive, PTL

\* A run recorded as not timed out has all of its output, whatever processes
\* the command left behind.
THEOREM OutputAlwaysComplete == Spec => []OutputComplete
  <1>1. SandboxInv => OutputComplete
    BY DEF SandboxInv
  <1> QED BY <1>1, SandboxInductive, PTL

\* workspace_cleaned is true of every recorded run and stays so.
THEOREM CleanedAlwaysTrue == Spec => []CleanedIsTrue
  <1>1. SandboxInv => CleanedIsTrue
    BY DEF SandboxInv
  <1> QED BY <1>1, SandboxInductive, PTL
==============================================================================
