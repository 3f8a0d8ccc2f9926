------------------------------ MODULE RemoteCommand ------------------------------
(***************************************************************************)
(* SSHExecutor.run: one command on one host, over a connection of its own. *)
(* The command writes to two streams that share the window of one SSH      *)
(* channel; the executor looks in turn for output, for the exit status and *)
(* at the clock.  The exit status is a message that may overtake output,   *)
(* and a command does not notice that nobody waits for it any more.        *)
(***************************************************************************)
EXTENDS Naturals

CONSTANTS
  Output,    \* bound on the chunks that a command writes to one stream
  Pipe,      \* chunks a command may be ahead of the SSH server of the host
  Window,    \* chunks the server may be ahead of the reader
  HasInput   \* the command is given input: the repository file for tee

ASSUME Parameters ==
  /\ Output \in Nat /\ Pipe \in Nat \ {0} /\ Window \in Nat \ {0}
  /\ HasInput \in BOOLEAN

VARIABLES
  cmd,        \* the command on the host: its state, and whether it did its work
  todo,       \* chunks it has still to write, by stream
  pipe,       \* chunks written that have not arrived
  buffer,     \* chunks that have arrived and are not read
  channel,    \* what the client knows of the channel
  overtaken,  \* history: the exit status arrived before all of the output
  late,       \* the deadline has passed
  call        \* where the executor is, and what it has reported

vars == <<cmd, todo, pipe, buffer, channel, overtaken, late, call>>
host == <<cmd, todo, pipe>>

Streams == {"out", "err"}
Empty == [s \in Streams |-> 0]

\* exit 0 or another exit code, exit code -1 for a channel that closed without one, a
\* timeout of the connection or the command, another SSHExecutionError, or an exception
\* of another kind
Reports == {"zero", "other", "lost", "timeout", "error", "escaped"}

Init ==
  /\ cmd = [at |-> "none", done |-> FALSE]
  /\ todo \in [Streams -> 0..Output]
  /\ pipe = Empty /\ buffer = Empty
  /\ channel = "open"
  /\ overtaken = FALSE
  /\ late = FALSE
  /\ call = [at |-> "connect", report |-> "none"]

-----------------------------------------------------------------------------
(* The host and the network                                                  *)

Write(s) ==
  /\ cmd.at = "running" /\ todo[s] > 0 /\ pipe[s] < Pipe
  /\ todo' = [todo EXCEPT ![s] = @ - 1]
  /\ pipe' = [pipe EXCEPT ![s] = @ + 1]
  /\ UNCHANGED <<cmd, buffer, channel, overtaken, late, call>>

\* The command does its work; it ends with 0 only afterwards, or does not end at all.
Work ==
  /\ cmd.at = "running" /\ ~cmd.done
  /\ cmd' = [cmd EXCEPT !.done = TRUE]
  /\ UNCHANGED <<todo, pipe, buffer, channel, overtaken, late, call>>

End ==
  /\ cmd.at = "running" /\ todo = Empty
  /\ \E at \in {"zero", "other"} :
       /\ at = "zero" => cmd.done
       /\ cmd' = [cmd EXCEPT !.at = at]
  /\ UNCHANGED <<todo, pipe, buffer, channel, overtaken, late, call>>

Hang ==
  /\ cmd.at = "running"
  /\ cmd' = [cmd EXCEPT !.at = "stuck"]
  /\ UNCHANGED <<todo, pipe, buffer, channel, overtaken, late, call>>

Unread == buffer["out"] + buffer["err"]

Deliver(s) ==
  /\ channel \in {"open", "status"} /\ pipe[s] > 0 /\ Unread < Window
  /\ pipe' = [pipe EXCEPT ![s] = @ - 1]
  /\ buffer' = [buffer EXCEPT ![s] = @ + 1]
  /\ UNCHANGED <<cmd, todo, channel, overtaken, late, call>>

\* The exit status arrives; it needs no window.
Status ==
  /\ channel = "open" /\ cmd.at \in {"zero", "other"}
  /\ channel' = "status"
  /\ overtaken' = (pipe # Empty)
  /\ UNCHANGED <<cmd, todo, pipe, buffer, late, call>>

\* The connection breaks; the client notices, or does not.  Once it knows the exit
\* status it only misses output by that, which is as if it were delivered too late.
Break ==
  /\ channel = "open" /\ cmd.at # "none"
  /\ channel' \in {"lost", "silent"}
  /\ UNCHANGED <<cmd, todo, pipe, buffer, overtaken, late, call>>

Tick ==
  /\ call.at # "connect" /\ ~late
  /\ late' = TRUE
  /\ UNCHANGED <<cmd, todo, pipe, buffer, channel, overtaken, call>>

-----------------------------------------------------------------------------
(* The executor: run and _read_channel                                       *)

Goto(at) == call' = [call EXCEPT !.at = at]
Report(r) == call' = [at |-> "done", report |-> r]

\* Connecting and sending the command; either may fail, the latter with the command
\* on its way.  OSError and EOFError are not translated.
Connect ==
  /\ call.at = "connect"
  /\ \/ /\ cmd' = [cmd EXCEPT !.at = "running"]
        /\ \/ Goto(IF HasInput THEN "input" ELSE "out")
           \/ \E r \in {"error", "escaped"} : Report(r)
     \/ \E r \in {"timeout", "error", "escaped"} : Report(r) /\ UNCHANGED cmd
  /\ UNCHANGED <<todo, pipe, buffer, channel, overtaken, late>>

\* Writing the input fails, with an OSError, if the host has closed the channel: a
\* refused sudo ends the command before it reads.
Input ==
  /\ call.at = "input"
  /\ \/ channel # "lost" /\ Goto("out")
     \/ channel \in {"status", "lost"} /\ Report("escaped")
  /\ UNCHANGED <<host, buffer, channel, overtaken, late>>

\* while channel.recv_ready(), and the same for the other stream.
Read(at, s, next) ==
  /\ call.at = at
  /\ IF buffer[s] > 0 THEN buffer' = [buffer EXCEPT ![s] = @ - 1] /\ UNCHANGED call
                      ELSE Goto(next) /\ UNCHANGED buffer
  /\ UNCHANGED <<host, channel, overtaken, late>>

\* Mutant of ReadErr: errors are read when the command has ended.
ReadErrAtEnd ==
  /\ call.at = "err"
  /\ Goto("status")
  /\ UNCHANGED <<host, buffer, channel, overtaken, late>>

ReadOut == Read("out", "out", "err")
ReadErr == Read("err", "err", "status")
LastOut == Read("last_out", "out", "last_err")
LastErr == Read("last_err", "err", "return")

\* Mutant of Look: nothing is read after the exit status.
LookOnce ==
  /\ call.at = "status"
  /\ Goto(IF channel \in {"status", "lost"} THEN "return" ELSE "deadline")
  /\ UNCHANGED <<host, buffer, channel, overtaken, late>>

\* exit_status_ready: also when the channel was closed.
Look ==
  /\ call.at = "status"
  /\ Goto(IF channel \in {"status", "lost"} THEN "last_out" ELSE "deadline")
  /\ UNCHANGED <<host, buffer, channel, overtaken, late>>

\* Mutant of Deadline: what takes too long gets a result with an exit code.
DeadlineAsResult ==
  /\ call.at = "deadline"
  /\ IF late THEN Report("other") ELSE Goto("out")
  /\ UNCHANGED <<host, buffer, channel, overtaken, late>>

\* The channel is closed, which the command does not notice.
Deadline ==
  /\ call.at = "deadline"
  /\ IF late THEN Report("timeout") ELSE Goto("out")
  /\ UNCHANGED <<host, buffer, channel, overtaken, late>>

\* Mutant of ExitCode: the code is read of a channel that closed without one.
ExitCodeUnchecked == cmd.at

\* Mutant of ExitCode: the exit code of a lost channel is 0.
ExitCodeOrZero == IF cmd.at = "other" THEN "other" ELSE "zero"

\* recv_exit_status: -1 if the channel closed without one.
ExitCode == IF channel = "lost" THEN "lost" ELSE cmd.at

Return ==
  /\ call.at = "return"
  /\ Report(ExitCode)
  /\ UNCHANGED <<host, buffer, channel, overtaken, late>>

Executor ==
  \/ Connect \/ Input \/ ReadOut \/ ReadErr \/ Look \/ Deadline
  \/ LastOut \/ LastErr \/ Return

Host == Work \/ End \/ \E s \in Streams : Write(s) \/ Deliver(s)

Next == Executor \/ Host \/ Hang \/ Status \/ Break \/ Tick

Spec == Init /\ [][Next]_vars

\* Time is only asked to pass when nothing else can end the call: a command that works
\* over a sound connection must not need its deadline.
Stalled == cmd.at = "stuck" \/ channel = "silent"

Fairness ==
  /\ WF_vars(Executor) /\ WF_vars(Work) /\ WF_vars(End) /\ WF_vars(Status)
  /\ \A s \in Streams : WF_vars(Write(s)) /\ WF_vars(Deliver(s))
  /\ WF_vars(Stalled /\ Tick)

FairSpec == Spec /\ Fairness

-----------------------------------------------------------------------------
(* Properties                                                                *)

TypeOK ==
  /\ cmd \in [at : {"none", "running", "stuck", "zero", "other"}, done : BOOLEAN]
  /\ todo \in [Streams -> 0..Output]
  /\ pipe \in [Streams -> 0..Pipe]
  /\ buffer \in [Streams -> 0..Window]
  /\ channel \in {"open", "status", "lost", "silent"}
  /\ overtaken \in BOOLEAN /\ late \in BOOLEAN
  /\ call \in [at : {"connect", "input", "out", "err", "status", "deadline", "last_out",
                     "last_err", "return", "done"}, report : Reports \cup {"none"}]

\* A result has all that the command wrote, to both streams, unless its exit status
\* came first (_read_channel reads once more after the exit status, but does not wait).
OutputIsWhole ==
  call.report \in {"zero", "other"} /\ ~overtaken
    => todo = Empty /\ pipe = Empty /\ buffer = Empty

\* An exit code is reported only of a command that has ended.  After every other report
\* the command may still be at work, and change the host, while the runner goes on.
ResultIsFinal ==
  call.report \in {"zero", "other"} => cmd.at = call.report

\* Success means that the command was carried out, whatever is lost or late: the
\* runners' view of a call.
Told == CASE call.report = "none" -> "none" [] call.report = "zero" -> "success"
          [] OTHER -> "failure"
Call == INSTANCE RemoteCall WITH effect <- cmd.done, report <- Told
CallIsAtomic == Call!Spec

\* Every call ends, also on a command or a connection that hangs; and on others without
\* its deadline, however much the command writes to either stream.
CallEnds == <>(call.at = "done")
================================================================================
