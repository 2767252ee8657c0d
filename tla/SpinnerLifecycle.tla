-------------------------- MODULE SpinnerLifecycle --------------------------
(***************************************************************************)
(* SessionSwitcher with usc::ExternalSpinner and the processes of the      *)
(* operating system: the spinner is forked, connects to Mir, crashes or is *)
(* told to terminate, and the id of a process that is gone is used again.  *)
(***************************************************************************)
EXTENDS SessionSwitcher

VARIABLES
    process,    \* what runs under each pid
    opener      \* the process of each session, NoPid once it is gone

ProcessState == {"free", "spinner", "client", "terminated"}

all_vars == <<vars, process, opener>>

LifecycleInit ==
    /\ Init
    /\ process = [p \in Pid |-> "free"]
    /\ opener = [s \in Session |-> NoPid]

Running(p) == process[p] # "free"

-----------------------------------------------------------------------------
\* The processes ::kill(spinner_pid, SIGTERM) reaches: with -1, every process.
addressed_by(pid) == IF pid = ForkFailed THEN Pid ELSE {pid}

sigterm_to_nobody(pid) == process
sigterm(pid) ==
    [p \in Pid |->
        IF p \in addressed_by(pid) /\ Running(p) THEN "terminated" ELSE process[p]]

\* The system calls behind a change of spinner_pid.  (fork reports the pid of
\* a process that was not there before.)
system_calls ==
    \/ /\ spinner_pid' = spinner_pid
       /\ UNCHANGED process
    \/ /\ spinner_pid = NoPid /\ spinner_pid' = ForkFailed
       /\ UNCHANGED process
    \/ /\ spinner_pid = NoPid /\ spinner_pid' \in Pid
       /\ ~ Running(spinner_pid')
       /\ process' = [process EXCEPT ![spinner_pid'] = "spinner"]
    \/ /\ spinner_pid # NoPid /\ spinner_pid' = NoPid
       /\ process' = sigterm(spinner_pid)

-----------------------------------------------------------------------------
\* A process connects to Mir.  A spinner that was told to terminate still may.
Connect(s, p) ==
    /\ \/ process[p] = "client" /\ s \notin SpinnerSession
       \/ process[p] \in {"spinner", "terminated"} /\ s \in SpinnerSession
    /\ add(s, p)
    /\ opener' = [opener EXCEPT ![s] = p]
    /\ system_calls

\* Mir notices that the process of a session is gone.
Disconnect(s) ==
    /\ opener[s] = NoPid
    /\ remove(s) \/ remove_ignored(s)
    /\ UNCHANGED opener
    /\ system_calls

OtherCall ==
    /\ GetsReady \/ DMNamesActive \/ DMNamesNext \/ OutputsChange
    /\ UNCHANGED opener
    /\ system_calls

ClientStarts(p) ==
    /\ ~ Running(p)
    /\ process' = [process EXCEPT ![p] = "client"]
    /\ UNCHANGED <<vars, opener>>

\* A process exits, crashes or follows SIGTERM.  The SIGCHLD handler
\* wait_for_child reaps a child at once, so that its pid is free; nothing
\* tells ExternalSpinner, whose spinner_pid stays.
Exit(p) ==
    /\ Running(p)
    /\ process' = [process EXCEPT ![p] = "free"]
    /\ opener' = [s \in Session |-> IF opener[s] = p THEN NoPid ELSE opener[s]]
    /\ UNCHANGED vars

LifecycleNext ==
    \/ \E s \in Session, p \in Pid : Connect(s, p)
    \/ \E s \in Session : Disconnect(s)
    \/ OtherCall
    \/ \E p \in Pid : ClientStarts(p) \/ Exit(p)

\* What SpinnerClient promises of its process: it opens a session unless it
\* fails, and it exits when it is told to.  Mir notices that a client is gone.
SpinnerStarts(p) ==
    /\ process[p] = "spinner"
    /\ \A s \in Session : opener[s] # p
    /\ \E s \in Session : Connect(s, p)

LifecycleFairness ==
    /\ \A p \in Pid : WF_all_vars(SpinnerStarts(p))
    /\ \A p \in Pid : WF_all_vars(process[p] = "terminated" /\ Exit(p))
    /\ \A s \in Session : WF_all_vars(Disconnect(s))

LifecycleSpec == LifecycleInit /\ [][LifecycleNext]_all_vars /\ LifecycleFairness

-----------------------------------------------------------------------------
SpinnerProcesses == {p \in Pid : process[p] = "spinner"}

\* The spinner process is never lost sight of: one that runs and was not told
\* to terminate is the one spinner_pid remembers, so there is only one of it.
NoSpinnerLeaks ==
    process \in [Pid -> ProcessState] /\ SpinnerProcesses \subseteq {spinner_pid}

\* "Kill the boot animation spinner when not needed" (changelog 0.0.3): with an
\* output on, no spinner process is left alone when no spinner is needed.
NoIdleSpinner == has_active_outputs /\ ~ SpinnerNeeded => SpinnerProcesses = {}

\* A spinner that was killed and connects late has taken the entry of the
\* spinner that runs, which both open under the same name.
SpinnerReplaced ==
    \E s \in connected \ Tracked : opener[s] \in SpinnerProcesses

\* A spinner that is needed gets on the screen, although sessions and
\* processes of earlier spinners may still be there when it connects, unless
\* it is not needed any more, its process is gone, or such an earlier spinner
\* replaces it.
SpinnerAppears ==
    has_active_outputs /\ SpinnerNeeded /\ SpinnerProcesses # {}
        ~> \/ visible \cap SpinnerSession # {}
           \/ ~ has_active_outputs \/ ~ SpinnerNeeded \/ SpinnerProcesses = {}
           \/ SpinnerReplaced
=============================================================================
