------------------------------- MODULE StartUp -------------------------------
(***************************************************************************)
(* A daemon from its first statement to its port (cmd/telemetryiq,         *)
(* main.go): the token of the management API (internal/auth), the database *)
(* (Migrations), then the address it listens on, which only one process    *)
(* gets.  A user reads the token with `telemetryiq auth-token` and unlocks *)
(* the dashboard with it; the browser keeps it as a cookie.                *)
(*                                                                         *)
(* The token file is created in place: a process that finds none opens it, *)
(* which empties it, and then writes.  It can die in between, and another  *)
(* process can be anywhere in the same lines.                              *)
(*                                                                         *)
(* TELEMETRYIQ_AUTH_TOKEN is not set.                                      *)
(***************************************************************************)
EXTENDS Migrations

VARIABLES
    tokenFile,   \* Absent, Empty or the token in it
    token,       \* [Daemon -> the token it has read or generated]
    stage,       \* "start", "creating", "opened", "ready" or "serving"
    cookie,      \* what the browser presents, Absent before it is unlocked
    raced,       \* two processes found no file at the same time
    cut          \* a process died between opening the file and writing it

tokens == <<tokenFile, token, stage, raced, cut>>
allvars == <<vars, tokens, cookie>>

\* Tokens are numbers from 2.
Absent == 0
Empty == 1
IsToken(t) == t > 1

\* 32 random bytes: a token that is nowhere else.
Fresh ==
    LET taken == {tokenFile, cookie} \cup {token[d] : d \in Daemon}
    IN  CHOOSE t \in 2 .. 4 + Cardinality(Daemon) :
            t \notin taken /\ 2 .. t - 1 \subseteq taken

\* A file of an earlier program may come without a token: it ran with one of
\* its environment.
StartUpInit ==
    /\ Init
    /\ tokenFile \in IF versions = {} THEN {Absent} ELSE {Absent, 2}
    /\ token = [d \in Daemon |-> Absent]
    /\ stage = [d \in Daemon |-> "start"]
    /\ cookie = Absent
    /\ raced = FALSE /\ cut = FALSE

-----------------------------------------------------------------------------
(***************************************************************************)
(* LoadOrCreate.                                                           *)
(***************************************************************************)
\* Mutant: the file of an earlier start is not looked for.
CreateAlways(d) ==
    /\ stage[d] = "start" /\ pc[d] = "down"
    /\ stage' = [stage EXCEPT ![d] = "creating"]
    /\ UNCHANGED <<vars, tokenFile, token, cookie, raced, cut>>

\* ReadFile: a token is used, a missing file is to be created, and one that is
\* empty ends the process before it has done anything.
LoadToken(d) ==
    /\ stage[d] = "start" /\ pc[d] = "down"
    /\ \/ /\ IsToken(tokenFile)
          /\ token' = [token EXCEPT ![d] = tokenFile]
          /\ stage' = [stage EXCEPT ![d] = "ready"]
       \/ /\ tokenFile = Absent
          /\ stage' = [stage EXCEPT ![d] = "creating"]
          /\ UNCHANGED token
       \/ /\ tokenFile = Empty
          /\ UNCHANGED <<token, stage>>
    /\ raced' = (raced \/ /\ tokenFile = Absent
                          /\ \E c \in Daemon : stage[c] = "creating")
    /\ UNCHANGED <<vars, tokenFile, cookie, cut>>

\* WriteFile opens the file with O_CREATE and O_TRUNC, whatever is there by now.
OpenTokenFile(d) ==
    /\ stage[d] = "creating"
    /\ token' = [token EXCEPT ![d] = Fresh]
    /\ tokenFile' = Empty
    /\ stage' = [stage EXCEPT ![d] = "opened"]
    /\ UNCHANGED <<vars, cookie, raced, cut>>

\* Tokens have one length, so the later of two writers leaves its own whole.
WriteToken(d) ==
    /\ stage[d] = "opened"
    /\ tokenFile' = token[d]
    /\ stage' = [stage EXCEPT ![d] = "ready"]
    /\ UNCHANGED <<vars, token, cookie, raced, cut>>

-----------------------------------------------------------------------------
\* sqlite.Open, with the token at hand.
OpenDatabase(d) ==
    /\ stage[d] = "ready"
    /\ Start(d) \/ Migrate(d)
    /\ UNCHANGED <<tokens, cookie>>

\* ListenAndServe takes the port.
Listen(d) ==
    /\ stage[d] = "ready" /\ pc[d] = "open"
    /\ \A c \in Daemon : stage[c] # "serving"
    /\ stage' = [stage EXCEPT ![d] = "serving"]
    /\ UNCHANGED <<vars, tokenFile, token, cookie, raced, cut>>

\* The end of a process, and of what it holds in memory.
Leave(d) ==
    /\ token' = [token EXCEPT ![d] = Absent]
    /\ stage' = [stage EXCEPT ![d] = "start"]
    /\ cut' = (cut \/ stage[d] = "opened")
    /\ UNCHANGED <<tokenFile, cookie, raced>>

\* The port is another's: the process ends.
FindPortTaken(d) ==
    /\ stage[d] = "ready" /\ pc[d] = "open"
    /\ \E c \in Daemon : stage[c] = "serving"
    /\ pc' = [pc EXCEPT ![d] = "down"]
    /\ Leave(d)
    /\ UNCHANGED <<file, version, seen, stops>>

\* It fails or dies, before it has opened the database or later.
Die(d) ==
    /\ stage[d] # "start"
    /\ \/ Stop(d)
       \/ /\ pc[d] = "down"
          /\ stops < MaxStops
          /\ stops' = stops + 1
          /\ UNCHANGED <<file, pc, version, seen>>
    /\ Leave(d)

Serve(d, s) ==
    /\ stage[d] = "serving"
    /\ Ingest(d, s)
    /\ UNCHANGED <<tokens, cookie>>

-----------------------------------------------------------------------------
\* auth-token prints the token, and unlockPost of the daemon that serves sets
\* it as the cookie, or rejects it.
Unlock ==
    /\ IsToken(tokenFile)
    /\ \E d \in Daemon : stage[d] = "serving" /\ token[d] = tokenFile
    /\ cookie' = tokenFile
    /\ UNCHANGED <<vars, tokens>>

Proceed(d) ==
    LoadToken(d) \/ OpenTokenFile(d) \/ WriteToken(d) \/ OpenDatabase(d) \/ Listen(d)
        \/ FindPortTaken(d)

StartUpNext ==
    \/ \E d \in Daemon : Proceed(d) \/ Die(d) \/ (\E s \in Session : Serve(d, s))
    \/ Unlock

\* A process that is not stopped goes on with its statements.  Nothing is
\* assumed of starting it again.
StartUpSpec ==
    /\ StartUpInit /\ [][StartUpNext]_allvars
    /\ \A d \in Daemon :
        WF_allvars(OpenTokenFile(d) \/ WriteToken(d) \/ (OpenDatabase(d) /\ pc[d] # "down")
                    \/ Listen(d) \/ FindPortTaken(d))

-----------------------------------------------------------------------------
\* "Browser authentication uses POST /unlock with the token from make auth-token"
\* (docs/architecture/local-dashboard.md): the daemon that serves takes what
\* auth-token prints, and a browser once unlocked stays so over any number of
\* restarts, of which none is refused.  There are two ways out of it: first
\* starts of two processes at the same time, of which one may overwrite the
\* token the other one serves with, and a death in the middle of a first start.
OneTokenForAll ==
    /\ \A d \in Daemon : (stage[d] = "serving" /\ ~raced) =>
            tokenFile = token[d] /\ cookie \in {Absent, token[d]}
    /\ tokenFile = Empty => cut \/ \E d \in Daemon : stage[d] = "opened"
=============================================================================
