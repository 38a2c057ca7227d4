------------------------------- MODULE Dmosh -------------------------------
(***************************************************************************)
(* The programs at the other end: shells, the full-screen dmosh of         *)
(* cmd/dmosh/tui.go, which probe the daemon's health whenever their user   *)
(* asks; commands, `dmosh health` and `dmostd -healthcheck`, which probe   *)
(* once and exit; and clients of the API.                                  *)
(*                                                                         *)
(* A probe runs on a goroutine of its own and its result comes back to the *)
(* shell as a message.  Several can be under way, and their messages       *)
(* arrive in any order.                                                    *)
(***************************************************************************)
EXTENDS Dmostd

CONSTANTS
    Shell,      \* full-screen shells
    Command,    \* one-shot health checks
    Client,     \* callers of the API
    Requests    \* what they ask

ASSUME DmoshAssumption ==
    /\ Caller = Shell \cup Command \cup Client
    /\ Client \cap (Shell \cup Command) = {}
    /\ Requests \subseteq Request

VARIABLES
    screen,   \* shell -> where its program is
    conn,     \* shell -> model.conn
    shows,    \* shell -> the probe whose result it shows, 0 for none
    read,     \* the probes whose messages have been read
    code      \* command -> its exit status

shellVars == <<screen, conn, shows, read, code>>

vars == <<daemonVars, shellVars>>

Connection == {"connecting", "connected", "unreachable"}

\* What a shell makes of a health message.
Learned(told) == IF told = "done" THEN "connected" ELSE "unreachable"

Probe(s) == Dial(s, HealthProbe)

-----------------------------------------------------------------------------
(* The shell: model's Init and Update.                                     *)

Open(s) ==
    /\ screen[s] = "unopened"
    /\ screen' = [screen EXCEPT ![s] = "open"]
    /\ Probe(s)
    /\ UNCHANGED <<conn, shows, read, code>>

\* r
Reload(s) ==
    /\ screen[s] = "open"
    /\ conn' = [conn EXCEPT ![s] = "connecting"]
    /\ shows' = [shows EXCEPT ![s] = 0]
    /\ Probe(s)
    /\ UNCHANGED <<screen, read, code>>

\* A healthMsg.
Update(s, k) ==
    /\ screen[s] = "open"
    /\ calls[k].from = s /\ k \notin read
    /\ calls[k].told # "pending"
    /\ read' = read \cup {k}
    /\ conn' = [conn EXCEPT ![s] = Learned(calls[k].told)]
    /\ shows' = [shows EXCEPT ![s] = k]
    /\ UNCHANGED <<daemonVars, screen, code>>

\* q, esc, ctrl+c, or a signal.
Quit(s) ==
    /\ screen[s] = "open"
    /\ screen' = [screen EXCEPT ![s] = "left"]
    /\ UNCHANGED <<daemonVars, conn, shows, read, code>>

-----------------------------------------------------------------------------
(* Commands and clients.                                                   *)

Check(m) ==
    /\ code[m] = "unborn"
    /\ code' = [code EXCEPT ![m] = "running"]
    /\ Probe(m)
    /\ UNCHANGED <<screen, conn, shows, read>>

Report(m, k) ==
    /\ code[m] = "running"
    /\ calls[k].from = m
    /\ calls[k].told # "pending"
    /\ code' = [code EXCEPT ![m] = IF calls[k].told = "done" THEN "0" ELSE "1"]
    /\ read' = read \cup {k}
    /\ UNCHANGED <<daemonVars, screen, conn, shows>>

\* A client makes one call; several clients are as good as one that goes on.
Ask(c) ==
    /\ \A k \in CallIds : calls[k].from # c
    /\ \E r \in Requests : Dial(c, r)
    /\ UNCHANGED shellVars

-----------------------------------------------------------------------------
Init ==
    /\ DaemonInit
    /\ screen = [s \in Shell |-> "unopened"]
    /\ conn = [s \in Shell |-> "connecting"]
    /\ shows = [s \in Shell |-> 0]
    /\ read = {}
    /\ code = [m \in Command |-> "unborn"]

Next ==
    \/ DaemonNext /\ UNCHANGED shellVars
    \/ \E s \in Shell :
          Open(s) \/ Reload(s) \/ Quit(s) \/ \E k \in CallIds : Update(s, k)
    \/ \E m \in Command : Check(m) \/ \E k \in CallIds : Report(m, k)
    \/ \E c \in Client : Ask(c)

\* The runtime's timers fire, for the wait of main and for a probe's context;
\* and the shell reads its messages.  Nothing is assumed of the network, of the
\* handlers, or of anybody who presses keys.
Fairness ==
    /\ WF_vars((Drained \/ GiveUp) /\ UNCHANGED shellVars)
    /\ \A k \in 1 .. MaxCalls :
          WF_vars(k \in CallIds /\ Cancel(k) /\ UNCHANGED shellVars)
    /\ \A s \in Shell, k \in 1 .. MaxCalls : WF_vars(k \in CallIds /\ Update(s, k))

Spec == Init /\ [][Next]_vars /\ Fairness

-----------------------------------------------------------------------------
TypeOK ==
    /\ DaemonTypeOK
    /\ screen \in [Shell -> {"unopened", "open", "left"}]
    /\ conn \in [Shell -> Connection]
    /\ shows \in [Shell -> 0 .. MaxCalls]
    /\ read \subseteq CallIds
    /\ code \in [Command -> {"unborn", "running", "0", "1"}]

\* A caller who is told that a change was made, or that it was refused, is told
\* the truth, whatever broke on the way: the daemon stopped under the handler,
\* the caller gave up, another program had the port.  (A caller who is told
\* neither cannot know.)  Only another program can pass a change off as made.
AnswersAreTrue ==
    \A k \in CallIds :
        LET call == calls[k]
        IN  /\ call.told = "done" /\ Writes(call.request) => call.applied \/ ~call.dmostd
            /\ call.told = "refused" => ~call.applied

\* A caller's own probe was answered as health: by a dmostd that was serving and
\* got its answer out, or by another program in the daemon's very words.
Vouched(call, caller) ==
    /\ call.from = caller
    /\ call.stage = "answered"
    /\ call.dmostd \/ call.imitated

\* What "connected" and an exit status of 0 are worth: a probe of the caller's
\* own, whose result it has read, was answered as health by whoever held the
\* port.  No refused or broken connection, no daemon that died under the probe
\* or let it wait, no error, page or other document passes for health; another
\* program that says {"status":"ok"} does, since Client.Health asks for no more.
HealthyMeansVouched ==
    /\ \A s \in Shell :
          conn[s] = "connected" => shows[s] \in read /\ Vouched(calls[shows[s]], s)
    /\ \A m \in Command : code[m] = "0" => \E k \in read : Vouched(calls[k], m)

\* The daemon's exit status tells the orchestrator whether it left callers
\* without an answer: if it is 0, no handler was cut off.
CleanExitAnswersAll ==
    [][exit # "0" /\ exit' = "0" =>
          \A k \in CallIds : InFlight(calls[k]) => calls'[k].stage # "cut"]_vars

\* A signal ends the daemon, even under a handler that waits for the rest of a
\* request which never comes.
ShutdownEnds == daemon = "closing" ~> daemon = "down"

\* No shell shows "connecting" for ever: every reload ends in a status, even if
\* the daemon hangs.
ShellSettles ==
    \A s \in Shell :
        screen[s] = "open" /\ conn[s] = "connecting"
            ~> screen[s] = "left" \/ conn[s] # "connecting"
=============================================================================
