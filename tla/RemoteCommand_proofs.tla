-------------------------- MODULE RemoteCommand_proofs --------------------------
(***************************************************************************)
(* Theorems of RemoteCommand, for every pipe, window and length of output. *)
(***************************************************************************)
EXTENDS RemoteCommand, TLAPS

\* What the host knows of the command.
HostInv ==
  /\ cmd.at = "zero" => cmd.done
  /\ cmd.at \in {"zero", "other"} => todo = Empty

\* The exit status is one of a command that has ended; unless it overtook output, that
\* has all arrived.
ChannelInv ==
  channel = "status" =>
    /\ cmd.at \in {"zero", "other"}
    /\ ~overtaken => pipe = Empty

\* The executor connects once.  It reads the streams once more, one after the other, when it has seen the
\* end of the channel, and reports an exit code only after that.
CallInv ==
  /\ call.at = "connect" => cmd.at = "none"
  /\ call.report = "none" <=> call.at # "done"
  /\ call.at \in {"last_out", "last_err", "return"} => channel \in {"status", "lost"}
  /\ call.at \in {"last_err", "return"} /\ channel = "status" /\ ~overtaken
       => buffer["out"] = 0
  /\ call.at = "return" /\ channel = "status" /\ ~overtaken => buffer["err"] = 0
  /\ call.report \in {"zero", "other"} =>
       /\ channel = "status" /\ cmd.at = call.report
       /\ ~overtaken => buffer = Empty

Inv == TypeOK /\ HostInv /\ ChannelInv /\ CallInv

LEMMA InvInit == Init => Inv
<1> SUFFICES ASSUME Init PROVE Inv
  OBVIOUS
<1>1. 0 \in 0..Output /\ 0 \in 0..Pipe /\ 0 \in 0..Window
  BY Parameters DEF Parameters
<1> QED
  BY <1>1 DEF Init, Inv, TypeOK, HostInv, ChannelInv, CallInv, Empty, Streams, Reports

\* The command and the network; none of them is the executor.
LEMMA InvHost ==
  ASSUME Inv, Host \/ Hang \/ Status \/ Break \/ Tick
  PROVE  Inv'
<1> USE DEF Inv
<1>0. /\ Output \in Nat /\ Pipe \in Nat /\ Window \in Nat
      /\ todo \in [Streams -> 0..Output] /\ pipe \in [Streams -> 0..Pipe]
      /\ buffer \in [Streams -> 0..Window] /\ Streams = {"out", "err"}
  BY Parameters DEF Parameters, TypeOK, Streams
<1>1. CASE \E s \in Streams : Write(s)
  <2>1. PICK s \in Streams : Write(s)
    BY <1>1
  <2>2. /\ todo' \in [Streams -> 0..Output] /\ pipe' \in [Streams -> 0..Pipe]
        /\ cmd.at = "running"
    BY <1>0, <2>1 DEF Write
  <2> QED
    BY <2>1, <2>2 DEF Write, TypeOK, HostInv, ChannelInv, CallInv
<1>2. CASE \E s \in Streams : Deliver(s)
  <2>1. PICK s \in Streams : Deliver(s)
    BY <1>2
  <2>2. buffer[s] + 1 \in 0..Window
    <3>1. buffer["out"] \in Nat /\ buffer["err"] \in Nat /\ Unread < Window
      BY <1>0, <2>1 DEF Deliver
    <3> QED
      BY <1>0, <3>1 DEF Unread
  <2>3. /\ pipe' \in [Streams -> 0..Pipe] /\ buffer' \in [Streams -> 0..Window]
    BY <1>0, <2>1, <2>2 DEF Deliver
  <2>4. channel = "status" => overtaken
    <3>1. pipe # Empty
      BY <2>1 DEF Deliver, Empty
    <3> QED
      BY <3>1 DEF ChannelInv
  <2>5. UNCHANGED <<cmd, todo, channel, overtaken, late, call>>
    BY <2>1 DEF Deliver
  <2> QED
    BY <2>3, <2>4, <2>5 DEF TypeOK, HostInv, ChannelInv, CallInv
<1>3. CASE Work \/ End \/ Hang
  <2>1. /\ UNCHANGED <<todo, pipe, buffer, channel, overtaken, late, call>>
        /\ cmd.at = "running"
    BY <1>3 DEF Work, End, Hang
  <2>2. /\ cmd' \in [at : {"none", "running", "stuck", "zero", "other"}, done : BOOLEAN]
        /\ cmd'.at = "zero" => cmd'.done
        /\ cmd'.at \in {"zero", "other"} => todo = Empty
    BY <1>3, <2>1 DEF Work, End, Hang, TypeOK
  <2> QED
    BY <2>1, <2>2 DEF TypeOK, HostInv, ChannelInv, CallInv
<1>4. CASE Status
  BY <1>4 DEF Status, TypeOK, HostInv, ChannelInv, CallInv
<1>5. CASE Break
  <2>1. /\ UNCHANGED <<cmd, todo, pipe, buffer, overtaken, late, call>>
        /\ channel = "open" /\ channel' \in {"lost", "silent"}
    BY <1>5 DEF Break
  <2>2. TypeOK' /\ HostInv' /\ ChannelInv'
    BY <2>1 DEF TypeOK, HostInv, ChannelInv
  <2>3. CallInv'
    BY <2>1 DEF CallInv
  <2> QED
    BY <2>2, <2>3
<1>6. CASE Tick
  <2>1. UNCHANGED <<cmd, todo, pipe, buffer, channel, overtaken, call>> /\ late' = TRUE
    BY <1>6 DEF Tick
  <2>2. TypeOK' /\ HostInv' /\ ChannelInv'
    BY <2>1 DEF TypeOK, HostInv, ChannelInv
  <2>3. CallInv'
    BY <1>6, <2>1 DEF CallInv, Tick
  <2> QED
    BY <2>2, <2>3
<1> QED
  BY <1>1, <1>2, <1>3, <1>4, <1>5, <1>6 DEF Host

LEMMA InvExecutor ==
  ASSUME Inv, Executor
  PROVE  Inv'
<1> USE DEF Inv
<1>0. call \in [at : {"connect", "input", "out", "err", "status", "deadline", "last_out",
                     "last_err", "return", "done"}, report : Reports \cup {"none"}]
  BY DEF TypeOK
<1>1. CASE Connect
  BY <1>0, <1>1 DEF Connect, Goto, Report, TypeOK, Reports, HostInv, ChannelInv, CallInv
<1>2. CASE Input \/ Deadline
  BY <1>0, <1>2 DEF Input, Deadline, Goto, Report, host, TypeOK, Reports, HostInv,
                    ChannelInv, CallInv
<1>3. ASSUME NEW at \in {"out", "err", "last_out", "last_err"}, NEW s \in Streams,
             NEW next \in {"err", "status", "last_err", "return"}, Read(at, s, next),
             at = "out" => next = "err", at = "err" => next = "status",
             at = "last_out" => next = "last_err" /\ s = "out",
             at = "last_err" => next = "return" /\ s = "err"
      PROVE  Inv'
  <2>1. CASE buffer[s] > 0
    <3>1. /\ buffer' = [buffer EXCEPT ![s] = @ - 1] /\ call.at = at /\ UNCHANGED call
          /\ UNCHANGED <<cmd, todo, pipe, channel, overtaken, late>>
      BY <1>3, <2>1 DEF Read, host
    <3>2. buffer' \in [Streams -> 0..Window]
      BY <2>1, <3>1, Parameters DEF Parameters, TypeOK
    <3>3. at = "last_err" => buffer'["out"] = buffer["out"]
      BY <1>3, <3>1 DEF TypeOK, Streams
    <3> QED
      BY <3>1, <3>2, <3>3 DEF TypeOK, HostInv, ChannelInv, CallInv
  <2>2. CASE ~(buffer[s] > 0)
    <3>1. /\ Goto(next) /\ call.at = at
          /\ UNCHANGED <<cmd, todo, pipe, buffer, channel, overtaken, late>>
      BY <1>3, <2>2 DEF Read, host
    <3>2. buffer[s] = 0
      BY <2>2, Parameters DEF Parameters, TypeOK
    <3>3. call'.at = next /\ call'.report = call.report /\ call' = [call EXCEPT !.at = next]
      BY <1>0, <3>1 DEF Goto
    <3> QED
      BY <1>0, <1>3, <3>1, <3>2, <3>3 DEF TypeOK, HostInv, ChannelInv, CallInv
  <2> QED
    BY <2>1, <2>2
<1>4. CASE ReadOut \/ ReadErr \/ LastOut \/ LastErr
  BY <1>3, <1>4 DEF ReadOut, ReadErr, LastOut, LastErr, Streams
<1>5. CASE Look
  BY <1>0, <1>5 DEF Look, Goto, host, TypeOK, HostInv, ChannelInv, CallInv
<1>6. CASE Return
  <2>1. /\ call.at = "return" /\ call' = [at |-> "done", report |-> ExitCode]
        /\ UNCHANGED <<cmd, todo, pipe, buffer, channel, overtaken, late>>
    BY <1>6 DEF Return, Report, host
  <2>2. CASE channel = "lost"
    BY <2>1, <2>2 DEF ExitCode, TypeOK, Reports, HostInv, ChannelInv, CallInv
  <2>3. CASE channel = "status"
    <3>1. ExitCode = cmd.at /\ cmd.at \in {"zero", "other"}
      BY <2>3 DEF ExitCode, ChannelInv
    <3>2. ~overtaken => buffer = Empty
      BY <2>1, <2>3 DEF TypeOK, CallInv, Empty, Streams
    <3> QED
      BY <2>1, <2>3, <3>1, <3>2 DEF TypeOK, Reports, HostInv, ChannelInv, CallInv
  <2> QED
    BY <2>1, <2>2, <2>3 DEF CallInv
<1> QED
  BY <1>1, <1>2, <1>4, <1>5, <1>6 DEF Executor

LEMMA InvStep == Inv /\ [Next]_vars => Inv'
<1> SUFFICES ASSUME Inv, [Next]_vars PROVE Inv'
  OBVIOUS
<1>1. CASE UNCHANGED vars
  BY <1>1 DEF vars, Inv, TypeOK, HostInv, ChannelInv, CallInv
<1> QED
  BY <1>1, InvHost, InvExecutor DEF Next

LEMMA Invariant == Spec => []Inv
BY InvInit, InvStep, PTL DEF Spec

\* Counters stay within their bounds, and every call ends with a report the runners know.
THEOREM RemoteTypeCorrect == Spec => []TypeOK
<1>1. Inv => TypeOK
  BY DEF Inv
<1> QED
  BY <1>1, Invariant, PTL

\* However small the window, a result holds all of the output of both streams, unless its
\* exit status came first.
THEOREM ResultsAreWhole == Spec => []OutputIsWhole
<1>1. Inv => OutputIsWhole
  BY DEF Inv, OutputIsWhole, HostInv, ChannelInv, CallInv
<1> QED
  BY <1>1, Invariant, PTL

\* An exit code is only ever that of a command which has ended.
THEOREM ResultsAreFinal == Spec => []ResultIsFinal
<1>1. Inv => ResultIsFinal
  BY DEF Inv, ResultIsFinal, CallInv
<1> QED
  BY <1>1, Invariant, PTL

-----------------------------------------------------------------------------
(* The call, with its network and its deadline, is the runners' abstract one *)

LEMMA CallStep == Inv /\ Inv' /\ [Next]_vars => [Call!Next]_<<cmd.done, Told>>
<1> SUFFICES ASSUME Inv, Inv', [Next]_vars PROVE [Call!Next]_<<cmd.done, Told>>
  OBVIOUS
<1> USE DEF Inv, TypeOK
<1>1. CASE Work
  BY <1>1 DEF Work, Told, Call!Next, Call!CarryOut
<1>2. CASE UNCHANGED vars \/ End \/ Hang \/ Status \/ Break \/ Tick
           \/ \E s \in Streams : Write(s) \/ Deliver(s)
  BY <1>2 DEF vars, End, Hang, Status, Break, Tick, Write, Deliver, Told
<1>3. CASE Executor
  <2>1. cmd'.done = cmd.done
    BY <1>3 DEF Executor, Connect, Input, ReadOut, ReadErr, LastOut, LastErr, Read, Look,
                Deadline, Return, host
  <2>2. call.at # "done"
    BY <1>3 DEF Executor, Connect, Input, ReadOut, ReadErr, LastOut, LastErr, Read, Look,
                Deadline, Return
  <2>3. call.report = "none"
    BY <2>2 DEF CallInv
  <2>4. CASE call'.report = "none"
    BY <2>1, <2>3, <2>4 DEF Told
  <2>5. CASE call'.report # "none"
    <3>1. Told = "none" /\ Told' \in {"success", "failure"}
      BY <2>3, <2>5 DEF Told
    <3>2. Told' = "success" => cmd.done
      BY <2>1 DEF Told, HostInv, CallInv
    <3> QED
      BY <2>1, <3>1, <3>2 DEF Call!Next, Call!Tell
  <2> QED
    BY <2>4, <2>5
<1> QED
  BY <1>1, <1>2, <1>3 DEF Next, Host

\* Whatever is lost, late or too much, success is reported only of a command that was
\* carried out, and reported once: the runners may build on it.
THEOREM CallsAreAtomic == Spec => CallIsAtomic
<1>1. Init => Call!Init
  BY DEF Init, Call!Init, Told
<1> QED
  BY <1>1, CallStep, Invariant, PTL DEF Spec, CallIsAtomic, Call!Spec
================================================================================
