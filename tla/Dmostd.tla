------------------------------- MODULE Dmostd -------------------------------
(***************************************************************************)
(* The daemon and the calls on it: cmd/dmostd/main.go, the life of         *)
(* pkg/http.Server from Open to Close, a handler per call, and the caller  *)
(* at the other end of the connection.                                     *)
(*                                                                         *)
(* dmostd starts, listens on its port if no other program does, serves     *)
(* until a signal, and then waits for the handlers in flight, but not for  *)
(* ever.  It can be killed at any moment.  A call goes through             *)
(*   "dialled"   the connection waits in the listener's queue              *)
(*   "handling"  a goroutine of the server has it, and reads the request   *)
(*   "served"    the service has run, the answer is not yet on its way     *)
(*   "answered"  the answer has reached the caller's side                  *)
(*   "reset"     the connection broke before a handler had it              *)
(*   "cut"       the daemon exited under the handler                       *)
(* while its caller waits ("pending") for what it is then told.            *)
(***************************************************************************)
EXTENDS HttpApi, Sequences

CONSTANTS
    Caller,     \* whoever calls the daemon
    MaxCalls,   \* bound: calls of a behaviour
    MaxStarts   \* bound: starts of the daemon

ASSUME DmostdAssumption == MaxCalls \in Nat /\ MaxStarts \in Nat

VARIABLES
    daemon,   \* where the daemon's process is
    exit,     \* its last exit status
    starts,   \* how often it was started
    foreign,  \* another program holds the port
    calls     \* the calls made so far

daemonVars == <<daemon, exit, starts, foreign, calls>>

Daemon == {"down", "listening", "serving", "deaf", "closing"}

\* "killed" by a signal it does not handle, or "running".
Exit == {"none", "0", "1", "killed", "running"}

Stage == {"dialled", "handling", "served", "answered", "reset", "cut"}

Told == {"pending", "done", "refused", "unknown"}

\* applied: the service made the change that was asked for, dmostd: it was the
\* daemon that took the call, imitated: a probe, which another program answered
\* with the daemon's words for health; none of this is known to the caller.
Call == [from : Caller, request : Request, stage : Stage, answer : AnyAnswer,
         told : Told, applied : BOOLEAN, dmostd : BOOLEAN, imitated : BOOLEAN]

InFlight(call) == call.stage \in {"handling", "served"}

CallIds == DOMAIN calls

Listening == daemon \in {"listening", "serving"}

-----------------------------------------------------------------------------
(* Callers.                                                                *)

\* A connection with nobody listening is refused at once.
NewCall(from, request) ==
    [from |-> from, request |-> request,
     stage |-> IF Listening \/ foreign THEN "dialled" ELSE "reset",
     answer |-> NoAnswer, told |-> "pending", applied |-> FALSE, dmostd |-> FALSE,
     imitated |-> FALSE]

Dial(from, request) ==
    /\ Len(calls) < MaxCalls
    /\ calls' = Append(calls, NewCall(from, request))
    /\ UNCHANGED <<daemon, exit, starts, foreign>>

\* Do returns; the answer has been read, or is lost.
Informed(call, told) == [call EXCEPT !.told = told, !.answer = NoAnswer]

Tell(k, told) == calls' = [calls EXCEPT ![k] = Informed(@, told)]

\* The answer arrives and is read.
Receive(k) ==
    /\ calls[k].told = "pending"
    /\ calls[k].stage = "answered"
    /\ Tell(k, Reads(calls[k].request, calls[k].answer))
    /\ UNCHANGED <<daemon, exit, starts, foreign>>

\* The connection is refused or breaks: Do returns an error.
Break(k) ==
    /\ calls[k].told = "pending"
    /\ calls[k].stage \in {"reset", "cut"}
    /\ Tell(k, "unknown")
    /\ UNCHANGED <<daemon, exit, starts, foreign>>

\* Faulty variant: a probe runs under the context it was given.
CancellableUnbounded(r) == r.resource \notin {"healthz", "users"} \/ r.reader = "raw"

\* Calls under a context: all but Users and Create.
Cancellable(r) == r.resource # "users" \/ r.reader = "raw"

\* The context is done first: Do returns its error and drops the connection.
\* What the server does with the call goes on.
Cancel(k) ==
    /\ calls[k].told = "pending"
    /\ Cancellable(calls[k].request)
    /\ Tell(k, "unknown")
    /\ UNCHANGED <<daemon, exit, starts, foreign>>

-----------------------------------------------------------------------------
(* The server.                                                             *)

\* Serve's loop accepts a connection and gives it a goroutine.
Accepted(call) == [call EXCEPT !.stage = "handling", !.dmostd = TRUE]

Accept(k) ==
    /\ daemon = "serving"
    /\ calls[k].stage = "dialled"
    /\ calls' = [calls EXCEPT ![k] = Accepted(@)]
    /\ UNCHANGED <<daemon, exit, starts, foreign>>

\* The body as the handler reads it; that of a caller who has gone may be torn.
ReadBody(call) ==
    {RemainingBody(call.request)} \cup IF call.told = "pending" THEN {} ELSE {"malformed"}

\* The service has run; nobody reads the answer to a caller who has gone.
Served(call, answer, applied) ==
    [call EXCEPT !.stage = "served", !.applied = applied,
                 !.answer = IF call.told = "pending" THEN answer ELSE NoAnswer]

Serves(k, answer, applied) ==
    calls' = [calls EXCEPT ![k] = Served(@, answer, applied)]

\* The goroutine routes the request and runs the handler: decode the body, call
\* the service, write the answer, which stays in the connection's buffer.
Handle(k) ==
    /\ calls[k].stage = "handling"
    /\ \E body \in ReadBody(calls[k]) :
          LET r == calls[k].request
          IN  \/ /\ ~CallsService(r, body)
                 /\ Serves(k, ImmediateAnswer(r), FALSE)
              \/ /\ CallsService(r, body)
                 /\ \E outcome \in OutcomesOf(r) :
                       Serves(k, ServiceAnswer(r, outcome), Writes(r) /\ outcome = "ok")
    /\ UNCHANGED <<daemon, exit, starts, foreign>>

Moved(call, stage) == [call EXCEPT !.stage = stage]

\* The handler has returned and the server flushes the answer.
Respond(k) ==
    /\ calls[k].stage = "served"
    /\ calls' = [calls EXCEPT ![k] = Moved(@, "answered")]
    /\ UNCHANGED <<daemon, exit, starts, foreign>>

-----------------------------------------------------------------------------
(* The daemon's process.                                                   *)

\* Connections break when their listener closes or their process ends.
BreakCalls(stages) ==
    calls' = [k \in CallIds |->
                 IF calls[k].stage \in stages
                 THEN Moved(calls[k], IF calls[k].stage = "dialled" THEN "reset" ELSE "cut")
                 ELSE calls[k]]

\* Run: Open listens, and Serve is on its way; or the port is taken, and main
\* closes what it has and exits.
Start ==
    /\ daemon = "down"
    /\ starts < MaxStarts
    /\ starts' = starts + 1
    /\ \/ ~foreign /\ daemon' = "listening" /\ exit' = "running"
       \/ foreign /\ exit' = "1" /\ UNCHANGED daemon
    /\ UNCHANGED <<foreign, calls>>

Serve ==
    /\ daemon = "listening"
    /\ daemon' = "serving"
    /\ UNCHANGED <<exit, starts, foreign, calls>>

\* Accept fails for good: Serve closes the listener and returns an error that
\* nobody reads.  main waits for its signal as before.
Deafen ==
    /\ daemon = "serving"
    /\ daemon' = "deaf"
    /\ BreakCalls({"dialled"})
    /\ UNCHANGED <<exit, starts, foreign>>

\* A signal arrives: main closes the server, and Shutdown the listener.
Close ==
    /\ daemon \in {"listening", "serving", "deaf"}
    /\ daemon' = "closing"
    /\ BreakCalls({"dialled"})
    /\ UNCHANGED <<exit, starts, foreign>>

Terminate(status) ==
    /\ daemon' = "down"
    /\ exit' = status
    /\ BreakCalls({"dialled", "handling", "served"})
    /\ UNCHANGED <<starts, foreign>>

\* Faulty variant: nothing bounds the wait.
ShutdownBoundNone == FALSE

\* Close gives Shutdown a context with a deadline.
ShutdownBound == TRUE

\* Faulty variant: main ignores the error of Close.
ExitStatusIgnoring(timedOut) == "0"

\* main's exit status for the error Shutdown returned.
ExitStatus(timedOut) == IF timedOut THEN "1" ELSE "0"

\* Shutdown sees no call in flight any more.
Drained ==
    /\ daemon = "closing"
    /\ \A k \in CallIds : ~InFlight(calls[k])
    /\ Terminate(ExitStatus(FALSE))

\* Its deadline passes.
GiveUp ==
    /\ daemon = "closing"
    /\ ShutdownBound
    /\ Terminate(ExitStatus(TRUE))

\* The process dies of a signal it does not handle.
Kill ==
    /\ daemon # "down"
    /\ Terminate("killed")

-----------------------------------------------------------------------------
(* Another program on the port.                                            *)

Occupy ==
    /\ ~foreign /\ ~Listening
    /\ foreign' = TRUE
    /\ UNCHANGED <<daemon, exit, starts, calls>>

Vacate ==
    /\ foreign
    /\ foreign' = FALSE
    /\ BreakCalls({"dialled"})
    /\ UNCHANGED <<daemon, exit, starts>>

Claimed(call, answer) ==
    [call EXCEPT !.stage = "answered", !.answer = answer,
                 !.imitated = (call.request = HealthProbe /\ answer = HealthAnswer)]

AnswerForeign(k) ==
    /\ foreign
    /\ calls[k].stage = "dialled" /\ calls[k].told = "pending"
    /\ \E answer \in ForeignAnswers :
          calls' = [calls EXCEPT ![k] = Claimed(@, answer)]
    /\ UNCHANGED <<daemon, exit, starts, foreign>>

-----------------------------------------------------------------------------
DaemonInit ==
    /\ daemon = "down"
    /\ exit = "none"
    /\ starts = 0
    /\ foreign = FALSE
    /\ calls = <<>>

DaemonTypeOK ==
    /\ daemon \in Daemon
    /\ exit \in Exit
    /\ starts \in 0 .. MaxStarts
    /\ foreign \in BOOLEAN
    /\ calls \in Seq(Call)

Serving(k) == Accept(k) \/ Handle(k) \/ Respond(k)

Process == Start \/ Serve \/ Deafen \/ Close \/ Drained \/ GiveUp \/ Kill

Network(k) == Receive(k) \/ Break(k) \/ Cancel(k) \/ AnswerForeign(k)

\* Steps that take no part of the callers' own.
DaemonNext ==
    \/ Process \/ Occupy \/ Vacate
    \/ \E k \in CallIds : Serving(k) \/ Network(k)
=============================================================================
