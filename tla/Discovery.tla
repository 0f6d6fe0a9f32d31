------------------------------ MODULE Discovery ------------------------------
(***************************************************************************)
(* How emulators find netsimd, start it and share it: CreateChannel of the *)
(* packet streamer client, the main function of netsimd, StartWithGrpc and *)
(* netsim.ini.  A daemon stands for the ports it listens on.               *)
(*                                                                         *)
(* A client sleeps 1, 2 and 4 seconds between its four attempts.  A daemon *)
(* is assumed to have started, or to have ended, by the last of them; the  *)
(* attempts before it may come too early.                                  *)
(***************************************************************************)
EXTENDS Integers, FiniteSets

CONSTANTS
    Clients,      \* emulators
    Daemons,      \* processes that run netsimd
    SamePath,     \* GetServerAddress reads the file that StartWithGrpc writes
    MaxCrashes,   \* bound on the daemons that crash or are killed
    None

ASSUME DiscoveryAssumption ==
    SamePath \in BOOLEAN /\ MaxCrashes \in Nat /\ None \notin Daemons

Attempts == 4

Keys == {"grpc.port", "grpc.backend.port"}

VARIABLES
    ini,       \* netsim.ini: the value of each key, or None
    main,      \* main[d]: where the main thread of a daemon is
    http,      \* http[d]: its HTTP server: "none", "starting" or "bound"
    peer,      \* peer[d]: the daemon it asks whether it is there
    unwritten, \* unwritten[d]: the lines IniFile::Write has yet to write
    cpc,       \* cpc[c]: where a client is
    attempt,   \* attempt[c]: which of its attempts it makes
    spawned,   \* spawned[c]: start_netsimd
    port,      \* port[c]: the port it tries
    crashes,   \* daemons that crashed
    failures,  \* daemons that crashed or aborted
    before     \* before[c]: failures when the client began

daemonVars == <<main, http, peer, unwritten>>
clientVars == <<cpc, attempt, spawned, port, before>>
vars == <<ini, daemonVars, clientVars, crashes, failures>>

Init ==
    /\ ini = [k \in Keys |-> None]
    /\ main = [d \in Daemons |-> "unused"]
    /\ http = [d \in Daemons |-> "none"]
    /\ peer = [d \in Daemons |-> None]
    /\ unwritten = [d \in Daemons |-> {}]
    /\ cpc = [c \in Clients |-> "idle"]
    /\ attempt = [c \in Clients |-> 1]
    /\ spawned = [c \in Clients |-> FALSE]
    /\ port = [c \in Clients |-> None]
    /\ before = [c \in Clients |-> 0]
    /\ crashes = 0
    /\ failures = 0

\* What GetServerAddress returns: None without a file or the key.
GetServerAddress(key) == IF SamePath THEN ini[key] ELSE None

Starting == {"check", "connect", "frontend", "backend", "open", "write"}
Alive(d) == main[d] \in Starting \cup {"serving"}

FrontendUp(d) == d # None /\ main[d] \in {"backend", "open", "write", "serving"}
BackendUp(d) == d # None /\ main[d] \in {"open", "write", "serving"}

-----------------------------------------------------------------------------
(***************************************************************************)
(* netsimd: main                                                           *)
(***************************************************************************)
Goto(d, where) == main' = [main EXCEPT ![d] = where]

\* NewFrontendStub reads the port ...
Check(d) ==
    /\ main[d] = "check"
    /\ peer' = [peer EXCEPT ![d] = GetServerAddress("grpc.port")]
    /\ Goto(d, "connect")
    /\ UNCHANGED <<ini, http, unwritten, clientVars, crashes, failures>>

\* ... and connects: there is a daemon, and this one is done ...
Found(d) ==
    /\ main[d] = "connect"
    /\ FrontendUp(peer[d])
    /\ Goto(d, "exited")
    /\ UNCHANGED <<ini, http, peer, unwritten, clientVars, crashes, failures>>

\* ... or it does not within the deadline: StartWithGrpc, which starts the thread
\* of the HTTP server first.
NotFound(d) ==
    /\ main[d] = "connect"
    /\ ~FrontendUp(peer[d])
    /\ Goto(d, "frontend")
    /\ http' = [http EXCEPT ![d] = "starting"]
    /\ UNCHANGED <<ini, peer, unwritten, clientVars, crashes, failures>>

\* Mutated form: a port in use is shared.
BindIgnored(d) ==
    /\ Alive(d)
    /\ http[d] = "starting"
    /\ http' = [http EXCEPT ![d] = "bound"]
    /\ UNCHANGED <<ini, main, peer, unwritten, clientVars, crashes, failures>>

\* TcpListener::bind(...).unwrap(): the port is fixed, and a panic of the thread
\* ends the process.
Bind(d) ==
    /\ Alive(d)
    /\ http[d] = "starting"
    /\ IF \E e \in Daemons : Alive(e) /\ http[e] = "bound"
       THEN Goto(d, "aborted") /\ failures' = failures + 1 /\ UNCHANGED http
       ELSE http' = [http EXCEPT ![d] = "bound"] /\ UNCHANGED <<main, failures>>
    /\ UNCHANGED <<ini, peer, unwritten, clientVars, crashes>>

RunFrontendServer(d) ==
    /\ main[d] = "frontend"
    /\ Goto(d, "backend")
    /\ UNCHANGED <<ini, http, peer, unwritten, clientVars, crashes, failures>>

RunBackendServer(d) ==
    /\ main[d] = "backend"
    /\ Goto(d, "open")
    /\ UNCHANGED <<ini, http, peer, unwritten, clientVars, crashes, failures>>

\* Mutated form: the backend port is not set.
OpenIniOneKey(d) ==
    /\ main[d] = "open"
    /\ ini' = [k \in Keys |-> None]
    /\ unwritten' = [unwritten EXCEPT ![d] = {"grpc.port"}]
    /\ Goto(d, "write")
    /\ UNCHANGED <<http, peer, clientVars, crashes, failures>>

\* Read, Set of both keys and the start of Write, which empties the file.
OpenIni(d) ==
    /\ main[d] = "open"
    /\ ini' = [k \in Keys |-> None]
    /\ unwritten' = [unwritten EXCEPT ![d] = Keys]
    /\ Goto(d, "write")
    /\ UNCHANGED <<http, peer, clientVars, crashes, failures>>

\* Write of a line, in the order of the hash map.
WriteLine(d) ==
    /\ main[d] = "write"
    /\ \E k \in unwritten[d] :
          /\ ini' = [ini EXCEPT ![k] = d]
          /\ unwritten' = [unwritten EXCEPT ![d] = @ \ {k}]
          /\ Goto(d, IF unwritten[d] = {k} THEN "serving" ELSE "write")
    /\ UNCHANGED <<http, peer, clientVars, crashes, failures>>

\* The file stays as it is.
Crash(d) ==
    /\ Alive(d)
    /\ crashes < MaxCrashes
    /\ Goto(d, "crashed")
    /\ crashes' = crashes + 1
    /\ failures' = failures + 1
    /\ UNCHANGED <<ini, http, peer, unwritten, clientVars>>

-----------------------------------------------------------------------------
(***************************************************************************)
(* Clients: CreateChannel                                                  *)
(***************************************************************************)
ClientGoto(c, where) == cpc' = [cpc EXCEPT ![c] = where]

Begin(c) ==
    /\ cpc[c] = "idle"
    /\ ClientGoto(c, "read")
    /\ before' = [before EXCEPT ![c] = failures]
    /\ UNCHANGED <<ini, daemonVars, attempt, spawned, port, crashes, failures>>

ReadPort(c) ==
    /\ cpc[c] = "read"
    /\ port' = [port EXCEPT ![c] = GetServerAddress("grpc.backend.port")]
    /\ ClientGoto(c, "connect")
    /\ UNCHANGED <<ini, daemonVars, attempt, spawned, before, crashes, failures>>

Connected(c) ==
    /\ cpc[c] = "connect"
    /\ BackendUp(port[c])
    /\ ClientGoto(c, "connected")
    /\ UNCHANGED <<ini, daemonVars, attempt, spawned, port, before, crashes, failures>>

\* Mutated form: no daemon is started while the file names one.
NotConnectedTrustsIni(c) ==
    /\ cpc[c] = "connect"
    /\ ~BackendUp(port[c])
    /\ IF spawned[c] \/ port[c] # None THEN UNCHANGED main
       ELSE \E d \in Daemons : main[d] = "unused" /\ Goto(d, "check")
    /\ spawned' = [spawned EXCEPT ![c] = TRUE]
    /\ ClientGoto(c, "sleep")
    /\ UNCHANGED <<ini, http, peer, unwritten, attempt, port, before, crashes, failures>>

\* No port, or no answer within the deadline: RunNetsimd, once.
NotConnected(c) ==
    /\ cpc[c] = "connect"
    /\ ~BackendUp(port[c])
    /\ IF spawned[c] THEN UNCHANGED main
       ELSE \E d \in Daemons : main[d] = "unused" /\ Goto(d, "check")
    /\ spawned' = [spawned EXCEPT ![c] = TRUE]
    /\ ClientGoto(c, "sleep")
    /\ UNCHANGED <<ini, http, peer, unwritten, attempt, port, before, crashes, failures>>

Settled == \A d \in Daemons : Alive(d) => main[d] = "serving" /\ http[d] = "bound"

\* After the last sleep there is no further attempt.
Wake(c) ==
    /\ cpc[c] = "sleep"
    /\ attempt[c] = Attempts - 1 => Settled
    /\ IF attempt[c] = Attempts
       THEN ClientGoto(c, "failed") /\ UNCHANGED attempt
       ELSE ClientGoto(c, "read") /\ attempt' = [attempt EXCEPT ![c] = @ + 1]
    /\ UNCHANGED <<ini, daemonVars, spawned, port, before, crashes, failures>>

-----------------------------------------------------------------------------
DaemonStep(d) ==
    \/ Check(d) \/ Found(d) \/ NotFound(d)
    \/ RunFrontendServer(d) \/ RunBackendServer(d) \/ OpenIni(d) \/ WriteLine(d)

ClientStep(c) ==
    \/ Begin(c) \/ ReadPort(c) \/ Connected(c) \/ NotConnected(c) \/ Wake(c)

Next ==
    \/ \E d \in Daemons : DaemonStep(d) \/ Bind(d) \/ Crash(d)
    \/ \E c \in Clients : ClientStep(c)

Spec == Init /\ [][Next]_vars

\* The threads of a daemon run.
FairSpec ==
    /\ Spec
    /\ \A d \in Daemons : WF_vars(DaemonStep(d)) /\ WF_vars(Bind(d))

-----------------------------------------------------------------------------
\* Two daemons that wrote netsim.ini at the same time have left it between them: the
\* frontend it names answers, the backend it names does not.
Torn ==
    /\ FrontendUp(GetServerAddress("grpc.port"))
    /\ ~BackendUp(GetServerAddress("grpc.backend.port"))

\* CreateChannel gives up only if a daemon crashed, or lost the race for the HTTP
\* port, while it was trying, or if netsim.ini is torn, in which case every daemon
\* it starts finds the frontend and leaves: a netsim.ini left by an earlier daemon,
\* early attempts, a file read between two lines and other clients that start
\* daemons do not keep a client from its channel.
GaveUpWithReason ==
    \A c \in Clients : cpc[c] = "failed" => failures > before[c] \/ Torn

\* While no daemon has failed, netsim.ini names, by both keys, the one daemon
\* that serves, as soon as the daemons have settled.
IniNamesDaemon ==
    Settled /\ failures = 0 =>
        \A d \in Daemons : main[d] = "serving" => \A k \in Keys : ini[k] = d

\* Two clients may start two daemons, and both may serve for a while, but at
\* last at most one is left: the other finds it or loses the HTTP port.
OneDaemonLeft == <>[](Cardinality({d \in Daemons : Alive(d)}) <= 1)
=============================================================================
