--------------------------- MODULE DiscoveryProofs ---------------------------
(***************************************************************************)
(* Proofs about how clients find and start netsimd, for any number of      *)
(* clients, daemons and crashes.                                           *)
(***************************************************************************)
EXTENDS Discovery, TLAPS

-----------------------------------------------------------------------------
(* Types *)

Launched(d) == main[d] \in {"frontend", "backend", "open", "write", "serving"}

\* A daemon that has not got past its check has no HTTP server and writes nothing, one
\* that serves has written both lines, and a daemon that is named by netsim.ini, or was
\* when another one read it, has written at least one of them.
DaemonTypes ==
    /\ ini \in [Keys -> Daemons \cup {None}]
    /\ main \in [Daemons -> {"unused", "exited", "aborted", "crashed", "serving"} \cup Starting]
    /\ http \in [Daemons -> {"none", "starting", "bound"}]
    /\ peer \in [Daemons -> Daemons \cup {None}]
    /\ unwritten \in [Daemons -> SUBSET Keys]
    /\ crashes \in Nat /\ failures \in Nat
    /\ \A d \in Daemons :
          /\ main[d] \in {"unused", "check", "connect", "exited"} => http[d] = "none"
          /\ Launched(d) => http[d] # "none"
          /\ main[d] = "serving" => unwritten[d] = {}

Wrote(d) == main[d] \in {"write", "serving", "aborted", "crashed"}

Named ==
    /\ \A k \in Keys : ini[k] # None => Wrote(ini[k])
    /\ \A d \in Daemons : peer[d] # None => Wrote(peer[d])

\* A client that has slept has started a daemon, and one at its second attempt or later has.
ClientTypes ==
    /\ cpc \in [Clients -> {"idle", "read", "connect", "connected", "sleep", "failed"}]
    /\ attempt \in [Clients -> 1..Attempts]
    /\ spawned \in [Clients -> BOOLEAN]
    /\ port \in [Clients -> Daemons \cup {None}]
    /\ before \in [Clients -> Nat]
    /\ \A c \in Clients :
          /\ before[c] <= failures
          /\ cpc[c] \in {"sleep", "failed"} => spawned[c]
          /\ cpc[c] = "failed" => attempt[c] = Attempts
          /\ attempt[c] > 1 => spawned[c]
          /\ cpc[c] = "idle" => ~spawned[c]

Typed == DaemonTypes /\ Named /\ ClientTypes

\* Init: no daemon and no client has done anything.
LEMMA TypedInit == Init => Typed
  <1> SUFFICES ASSUME Init PROVE Typed
    OBVIOUS
  <1>1. DaemonTypes
    BY DEF Init, DaemonTypes, Launched, Starting, Keys
  <1>2. Named
    BY DEF Init, Named, Keys
  <1>3. ClientTypes
    BY DEF Init, ClientTypes, Attempts
  <1>4. QED
    BY <1>1, <1>2, <1>3 DEF Typed

\* main, StartWithGrpc and its threads keep the types of the daemons.
LEMMA DaemonTypesInv ==
    ASSUME DaemonTypes, NEW d \in Daemons, DaemonStep(d) \/ Bind(d) \/ Crash(d)
    PROVE  DaemonTypes' /\ UNCHANGED clientVars /\ failures' \in {failures, failures + 1}
  <1> USE DiscoveryAssumption DEF Goto, DaemonTypes
  <1>1. CASE Check(d)
    BY <1>1 DEF Check, Starting, Launched, GetServerAddress, Keys
  <1>2. CASE Found(d)
    BY <1>2 DEF Found, Starting, Launched
  <1>3. CASE NotFound(d)
    BY <1>3 DEF NotFound, Starting, Launched
  <1>4. CASE RunFrontendServer(d)
    BY <1>4 DEF RunFrontendServer, Starting, Launched
  <1>5. CASE RunBackendServer(d)
    BY <1>5 DEF RunBackendServer, Starting, Launched
  <1>6. CASE OpenIni(d)
    BY <1>6 DEF OpenIni, Starting, Launched
  <1>7. CASE WriteLine(d)
    <2>1. PICK k \in unwritten[d] :
             /\ ini' = [ini EXCEPT ![k] = d]
             /\ unwritten' = [unwritten EXCEPT ![d] = @ \ {k}]
             /\ main' = [main EXCEPT ![d] = IF unwritten[d] = {k} THEN "serving" ELSE "write"]
      BY <1>7 DEF WriteLine
    <2>2. QED
      BY <1>7, <2>1 DEF WriteLine, Starting, Launched
  <1>8. CASE Bind(d)
    BY <1>8 DEF Bind, Alive, Starting, Launched
  <1>9. CASE Crash(d)
    BY <1>9 DEF Crash, Alive, Starting, Launched
  <1>10. QED
    BY <1>1, <1>2, <1>3, <1>4, <1>5, <1>6, <1>7, <1>8, <1>9 DEF DaemonStep

\* Write is the only one that puts a daemon into netsim.ini, and a daemon that wrote has
\* either its place in main or has failed.
LEMMA NamedInv ==
    ASSUME DaemonTypes, Named, NEW d \in Daemons, DaemonStep(d) \/ Bind(d) \/ Crash(d)
    PROVE  Named'
  <1> USE DiscoveryAssumption DEF Goto, DaemonTypes, Named, Wrote
  <1>1. CASE Check(d)
    BY <1>1 DEF Check, Starting, GetServerAddress, Keys
  <1>2. CASE Found(d)
    BY <1>2 DEF Found, Starting
  <1>3. CASE NotFound(d)
    BY <1>3 DEF NotFound, Starting
  <1>4. CASE RunFrontendServer(d)
    BY <1>4 DEF RunFrontendServer, Starting
  <1>5. CASE RunBackendServer(d)
    BY <1>5 DEF RunBackendServer, Starting
  <1>6. CASE OpenIni(d)
    BY <1>6 DEF OpenIni, Starting
  <1>7. CASE WriteLine(d)
    <2>1. PICK k \in unwritten[d] :
             /\ ini' = [ini EXCEPT ![k] = d]
             /\ main' = [main EXCEPT ![d] = IF unwritten[d] = {k} THEN "serving" ELSE "write"]
      BY <1>7 DEF WriteLine
    <2>2. QED
      BY <1>7, <2>1 DEF WriteLine, Starting
  <1>8. CASE Bind(d)
    BY <1>8 DEF Bind, Starting
  <1>9. CASE Crash(d)
    BY <1>9 DEF Crash, Starting
  <1>10. QED
    BY <1>1, <1>2, <1>3, <1>4, <1>5, <1>6, <1>7, <1>8, <1>9 DEF DaemonStep

\* A client starts a daemon at most, which then is about to look for another.
Starts == main' = main \/ \E d \in Daemons : main[d] = "unused" /\ Goto(d, "check")

LEMMA ClientStepStarts ==
    ASSUME NEW c \in Clients, ClientStep(c)
    PROVE  Starts /\ UNCHANGED <<ini, http, peer, unwritten, crashes, failures>>
  BY DEF ClientStep, Starts, Begin, ReadPort, Connected, NotConnected, Wake, daemonVars

\* CreateChannel keeps the types of the daemons.
LEMMA ClientKeepsDaemons ==
    ASSUME DaemonTypes, Named, NEW c \in Clients, ClientStep(c)
    PROVE  DaemonTypes' /\ Named'
  <1>1. Starts /\ UNCHANGED <<ini, http, peer, unwritten, crashes, failures>>
    BY ClientStepStarts
  <1>2. DaemonTypes'
    BY <1>1 DEF Starts, DaemonTypes, Goto, Launched, Starting
  <1>3. Named'
    BY <1>1 DEF Starts, DaemonTypes, Goto, Named, Wrote, Starting
  <1>4. QED
    BY <1>2, <1>3

\* ... and its own.
LEMMA ClientTypesInv ==
    ASSUME DaemonTypes, ClientTypes, NEW c \in Clients, ClientStep(c)
    PROVE  ClientTypes'
  <1> USE DEF ClientGoto, ClientTypes, Attempts
  <1>1. CASE Begin(c)
    BY <1>1 DEF Begin, DaemonTypes
  <1>2. CASE ReadPort(c)
    BY <1>2, DiscoveryAssumption DEF ReadPort, GetServerAddress, DaemonTypes, Keys
  <1>3. CASE Connected(c)
    BY <1>3 DEF Connected
  <1>4. CASE NotConnected(c)
    BY <1>4 DEF NotConnected
  <1>5. CASE Wake(c)
    BY <1>5 DEF Wake
  <1>6. QED
    BY <1>1, <1>2, <1>3, <1>4, <1>5 DEF ClientStep

\* Every step of Discovery keeps the types.
LEMMA TypedInv == Typed /\ [Next]_vars => Typed'
  <1> SUFFICES ASSUME Typed, [Next]_vars PROVE Typed'
    OBVIOUS
  <1>1. DaemonTypes /\ Named /\ ClientTypes
    BY DEF Typed
  <1>2. ASSUME NEW d \in Daemons, DaemonStep(d) \/ Bind(d) \/ Crash(d) PROVE Typed'
    <2>1. DaemonTypes' /\ Named' /\ UNCHANGED clientVars /\ failures' \in {failures, failures + 1}
      BY <1>1, <1>2, DaemonTypesInv, NamedInv
    <2>2. ClientTypes'
      BY <1>1, <2>1 DEF ClientTypes, clientVars, DaemonTypes
    <2>3. QED
      BY <2>1, <2>2 DEF Typed
  <1>3. ASSUME NEW c \in Clients, ClientStep(c) PROVE Typed'
    BY <1>1, <1>3, ClientKeepsDaemons, ClientTypesInv DEF Typed
  <1>4. CASE UNCHANGED vars
    <2>1. DaemonTypes'
      BY <1>1, <1>4 DEF DaemonTypes, Launched, vars, daemonVars
    <2>2. Named'
      BY <1>1, <1>4 DEF Named, Wrote, vars, daemonVars
    <2>3. ClientTypes'
      BY <1>1, <1>4 DEF ClientTypes, vars, clientVars
    <2>4. QED
      BY <2>1, <2>2, <2>3 DEF Typed
  <1>5. QED
    BY <1>2, <1>3, <1>4 DEF Next

-----------------------------------------------------------------------------
(* netsim.ini while nothing has failed *)

\* At most one daemon that is alive has the HTTP port.
OneBound ==
    \A d, e \in Daemons :
        Alive(d) /\ Alive(e) /\ http[d] = "bound" /\ http[e] = "bound" => d = e

\* While nothing has failed no daemon is gone, and the only one that was launched has
\* its ports in the lines it has written.
SoleWriter ==
    failures = 0 =>
        /\ \A d \in Daemons : main[d] \notin {"aborted", "crashed"}
        /\ \A d \in Daemons :
              /\ main[d] \in {"write", "serving"}
              /\ \A e \in Daemons \ {d} : ~Launched(e)
              => \A k \in Keys \ unwritten[d] : ini[k] = d

\* The HTTP server is bound only where no daemon that is alive is.
LEMMA OneBoundInv == Typed /\ OneBound /\ [Next]_vars => OneBound'
  <1> SUFFICES ASSUME Typed, OneBound, [Next]_vars PROVE OneBound'
    OBVIOUS
  <1>1. DaemonTypes
    BY DEF Typed
  <1> USE DEF DaemonTypes, OneBound, Alive, Starting, Goto
  <1>2. ASSUME NEW d \in Daemons, DaemonStep(d) \/ Crash(d) PROVE OneBound'
    <2>1. \A e \in Daemons : http'[e] = "bound" => http[e] = "bound"
      BY <1>1, <1>2 DEF DaemonStep, Check, Found, NotFound, RunFrontendServer,
           RunBackendServer, OpenIni, WriteLine, Crash
    <2>2. \A e \in Daemons : Alive(e)' => Alive(e)
      BY <1>1, <1>2 DEF DaemonStep, Check, Found, NotFound, RunFrontendServer,
           RunBackendServer, OpenIni, WriteLine, Crash
    <2>3. QED
      BY <2>1, <2>2
  <1>3. ASSUME NEW d \in Daemons, Bind(d) PROVE OneBound'
    BY <1>1, <1>3 DEF Bind
  <1>4. ASSUME NEW c \in Clients, ClientStep(c) PROVE OneBound'
    <2>1. Starts /\ UNCHANGED http
      BY <1>4, ClientStepStarts
    <2>2. QED
      BY <1>1, <2>1 DEF Starts
  <1>5. CASE UNCHANGED vars
    BY <1>5 DEF vars, daemonVars
  <1>6. QED
    BY <1>2, <1>3, <1>4, <1>5 DEF Next

\* A daemon writes its own port into the lines it has written, and another one that writes
\* has been launched: it is still there while nothing has failed.
LEMMA SoleWriterInv == Typed /\ SoleWriter /\ [Next]_vars => SoleWriter'
  <1> SUFFICES ASSUME Typed, SoleWriter, [Next]_vars, failures' = 0 PROVE SoleWriter'
    BY DEF SoleWriter
  <1>1. DaemonTypes
    BY DEF Typed
  <1> USE DEF DaemonTypes, Launched, Starting, Goto
  <1>2. ASSUME NEW d \in Daemons, DaemonStep(d) \/ Bind(d) PROVE SoleWriter'
    <2>1. CASE Check(d)
      BY <1>1, <2>1 DEF Check, SoleWriter
    <2>2. CASE Found(d)
      BY <1>1, <2>2 DEF Found, SoleWriter
    <2>3. CASE NotFound(d)
      BY <1>1, <2>3 DEF NotFound, SoleWriter
    <2>4. CASE RunFrontendServer(d)
      BY <1>1, <2>4 DEF RunFrontendServer, SoleWriter
    <2>5. CASE RunBackendServer(d)
      BY <1>1, <2>5 DEF RunBackendServer, SoleWriter
    <2>6. CASE OpenIni(d)
      BY <1>1, <2>6 DEF OpenIni, SoleWriter
    <2>7. CASE WriteLine(d)
      <3>1. PICK k \in unwritten[d] :
               /\ ini' = [ini EXCEPT ![k] = d]
               /\ unwritten' = [unwritten EXCEPT ![d] = @ \ {k}]
               /\ main' = [main EXCEPT ![d] = IF unwritten[d] = {k} THEN "serving" ELSE "write"]
        BY <2>7 DEF WriteLine
      <3>2. QED
        BY <1>1, <2>7, <3>1 DEF WriteLine, SoleWriter
    <2>8. CASE Bind(d)
      BY <1>1, <2>8 DEF Bind, SoleWriter
    <2>9. QED
      BY <1>2, <2>1, <2>2, <2>3, <2>4, <2>5, <2>6, <2>7, <2>8 DEF DaemonStep
  <1>3. ASSUME NEW d \in Daemons, Crash(d) PROVE SoleWriter'
    BY <1>1, <1>3 DEF Crash
  <1>4. ASSUME NEW c \in Clients, ClientStep(c) PROVE SoleWriter'
    <2>1. Starts /\ UNCHANGED <<ini, unwritten, failures>>
      BY <1>4, ClientStepStarts
    <2>2. QED
      BY <1>1, <2>1 DEF Starts, SoleWriter
  <1>5. CASE UNCHANGED vars
    BY <1>5 DEF vars, daemonVars, SoleWriter
  <1>6. QED
    BY <1>2, <1>3, <1>4, <1>5 DEF Next

\* The inductive invariant of the daemons.
DaemonInv == Typed /\ OneBound /\ SoleWriter

\* The daemons start with it and every step keeps it.
LEMMA DaemonInvariant == Spec => []DaemonInv
  <1>1. Init => DaemonInv
    BY TypedInit DEF Init, DaemonInv, OneBound, Alive, Starting, SoleWriter
  <1>2. DaemonInv /\ [Next]_vars => DaemonInv'
    BY TypedInv, OneBoundInv, SoleWriterInv DEF DaemonInv
  <1>3. QED
    BY <1>1, <1>2, PTL DEF Spec

\* While no daemon has crashed or lost the HTTP port, and once all that run serve, at most
\* one does and netsim.ini names it by both keys, whatever the order in which daemons of
\* any number of clients looked for each other, emptied the file and wrote its lines.
THEOREM IniNamesDaemonTheorem == Spec => []IniNamesDaemon
  <1>1. DaemonInv => IniNamesDaemon
    <2> SUFFICES ASSUME DaemonInv, Settled, failures = 0,
                        NEW d \in Daemons, main[d] = "serving"
                 PROVE  \A k \in Keys : ini[k] = d
      BY DEF IniNamesDaemon
    <2>1. \A e \in Daemons \ {d} : ~Launched(e)
      BY DEF DaemonInv, OneBound, Settled, Launched, Alive, Starting
    <2>2. unwritten[d] = {}
      BY DEF DaemonInv, Typed, DaemonTypes
    <2>3. QED
      BY <2>1, <2>2 DEF DaemonInv, SoleWriter
  <1>2. QED
    BY <1>1, DaemonInvariant, PTL

-----------------------------------------------------------------------------
(* What a client can rely on *)

\* Nothing has failed since the client began.
Calm(c) == failures = before[c]

\* Two daemons have been launched: one of them will lose the HTTP port.
Race == \E d, e \in Daemons : d # e /\ Launched(d) /\ Launched(e)

\* A launched daemon whose frontend is named, or is yet to be, by netsim.ini.
Leads(d) ==
    /\ Launched(d)
    /\ main[d] \in {"write", "serving"} => "grpc.port" \in unwritten[d] \/ ini["grpc.port"] = d

\* A daemon that is about to look for another, or has looked and will leave only to one
\* that leads.
Looks(d) ==
    \/ main[d] = "check"
    \/ main[d] = "connect" /\ (FrontendUp(peer[d]) => Leads(peer[d]))

\* A client has started a daemon, and while nothing fails either that one comes to lead,
\* or the one it found does, or two daemons race.
Going == Race \/ \E d \in Daemons : Leads(d) \/ Looks(d)

Progress == \A c \in Clients : spawned[c] /\ Calm(c) => Going

\* The one daemon that serves: netsim.ini names its frontend, and whoever looks finds it.
Rules(d) ==
    /\ main[d] = "serving" /\ ini["grpc.port"] = d
    /\ \A e \in Daemons : Launched(e) => e = d
    /\ \A e \in Daemons : main[e] = "connect" => peer[e] = d

\* The last attempt is made when one daemon rules; what it reads is what netsim.ini says
\* from then on.
LastAttempt ==
    \A c \in Clients :
        attempt[c] = Attempts /\ Calm(c) =>
            /\ \E d \in Daemons : Rules(d)
            /\ cpc[c] = "connect" => port[c] = ini["grpc.backend.port"]
            /\ cpc[c] \in {"sleep", "failed"} => ~BackendUp(ini["grpc.backend.port"])

ClientInv == Progress /\ LastAttempt

\* A daemon that leads still does after a step of a daemon, unless two race or a daemon
\* fails in it.
LEMMA LeadsKept ==
    ASSUME Typed, NEW d \in Daemons, DaemonStep(d) \/ Bind(d), failures' = failures,
           NEW e \in Daemons, Leads(e), ~Race
    PROVE  Leads(e)'
  <1>1. DaemonTypes
    BY DEF Typed
  <1> USE DEF DaemonTypes, Launched, Starting, Goto, Leads, Race
  <1>sole. \A x \in Daemons : Launched(x) => x = e
    OBVIOUS
  <1>2. CASE Check(d)
    BY <1>1, <1>2 DEF Check
  <1>3. CASE Found(d)
    BY <1>1, <1>3 DEF Found
  <1>4. CASE NotFound(d)
    BY <1>1, <1>4 DEF NotFound
  <1>5. CASE RunFrontendServer(d)
    BY <1>1, <1>5 DEF RunFrontendServer
  <1>6. CASE RunBackendServer(d)
    BY <1>1, <1>6 DEF RunBackendServer
  <1>7. CASE OpenIni(d)
    BY <1>1, <1>7, <1>sole DEF OpenIni, Keys
  <1>8. CASE WriteLine(d)
    <2>1. PICK k \in unwritten[d] :
             /\ ini' = [ini EXCEPT ![k] = d]
             /\ unwritten' = [unwritten EXCEPT ![d] = @ \ {k}]
             /\ main' = [main EXCEPT ![d] = IF unwritten[d] = {k} THEN "serving" ELSE "write"]
      BY <1>8 DEF WriteLine
    <2>2. QED
      BY <1>1, <1>8, <2>1, <1>sole DEF WriteLine, Keys
  <1>9. CASE Bind(d)
    BY <1>1, <1>9 DEF Bind
  <1>10. QED
    BY <1>2, <1>3, <1>4, <1>5, <1>6, <1>7, <1>8, <1>9 DEF DaemonStep

\* Two daemons that race do so until one fails.
LEMMA RaceKept ==
    ASSUME Typed, NEW d \in Daemons, DaemonStep(d) \/ Bind(d), failures' = failures, Race
    PROVE  Race'
  <1>1. DaemonTypes
    BY DEF Typed
  <1>2. \A e \in Daemons : Launched(e) => Launched(e)'
    BY <1>1 DEF DaemonTypes, DaemonStep, Check, Found, NotFound, RunFrontendServer,
         RunBackendServer, OpenIni, WriteLine, Bind, Launched, Starting, Goto
  <1>3. QED
    BY <1>2 DEF Race

\* Whatever a client has started comes to something: the daemon that looks is launched, or
\* leaves to one that leads.
LEMMA ProgressKept ==
    ASSUME SamePath, Typed, NEW d \in Daemons, DaemonStep(d) \/ Bind(d), failures' = failures,
           Going
    PROVE  Going'
  <1> SUFFICES ASSUME ~Race,
                      NEW e \in Daemons, Leads(e) \/ Looks(e)
               PROVE  \E x \in Daemons : Leads(x)' \/ Looks(x)'
    BY RaceKept DEF Going
  <1>1. DaemonTypes /\ Named
    BY DEF Typed
  <1>2. CASE Leads(e)
    BY <1>2, LeadsKept
  <1>3. CASE \E x \in Daemons : Leads(x)
    BY <1>3, LeadsKept
  <1>4. CASE Looks(e) /\ ~\E x \in Daemons : Leads(x)
    <2> USE DiscoveryAssumption DEF DaemonTypes, Named, Starting, Goto
    <2>1. main[e] = "check" \/ (main[e] = "connect" /\ ~FrontendUp(peer[e]))
      BY <1>1, <1>4 DEF Looks, FrontendUp
    <2>2. CASE d = e
      <3>1. CASE Check(e)
        <4>1. peer'[e] = ini["grpc.port"] /\ main'[e] = "connect"
          BY <1>1, <3>1 DEF Check, GetServerAddress
        <4>2. FrontendUp(peer[e])' => Leads(peer[e])'
          BY <1>1, <3>1, <4>1 DEF Check, FrontendUp, Leads, Launched, Wrote, Keys
        <4>3. QED
          BY <4>1, <4>2 DEF Looks
      <3>2. CASE NotFound(e)
        BY <1>1, <3>2 DEF NotFound, Leads, Launched
      <3>3. CASE ~Check(e) /\ ~NotFound(e)
        <4>1. FALSE
          BY <1>1, <2>1, <2>2, <3>3 DEF DaemonStep, Found, RunFrontendServer, RunBackendServer,
               OpenIni, WriteLine, Bind
        <4>2. QED
          BY <4>1
      <3>4. QED
        BY <3>1, <3>2, <3>3
    <2>3. CASE d # e
      <3>1. main'[e] = main[e] /\ peer'[e] = peer[e]
        BY <1>1, <2>3 DEF DaemonStep, Check, Found, NotFound, RunFrontendServer,
             RunBackendServer, OpenIni, WriteLine, Bind
      <3>2. main[e] = "connect" => ~FrontendUp(peer[e])'
        <4> SUFFICES ASSUME main[e] = "connect", peer[e] # None
                     PROVE  main'[peer[e]] \notin {"backend", "open", "write", "serving"}
          BY <3>1 DEF FrontendUp
        <4>1. main[peer[e]] \in {"aborted", "crashed"} /\ peer[e] \in Daemons
          BY <1>1, <2>1 DEF Wrote, FrontendUp
        <4>2. main'[peer[e]] \in {"aborted", "crashed"}
          BY <1>1, <4>1 DEF DaemonStep, Check, Found, NotFound, RunFrontendServer,
             RunBackendServer, OpenIni, WriteLine, Bind
        <4>3. QED
          BY <4>2
      <3>3. QED
        BY <2>1, <3>1, <3>2 DEF Looks
    <2>4. QED
      BY <2>2, <2>3
  <1>5. QED
    BY <1>2, <1>3, <1>4

\* A daemon that a client starts takes nothing from the others.
LEMMA StartsKept ==
    ASSUME Typed, Starts, UNCHANGED <<ini, peer, unwritten>>
    PROVE  /\ Race => Race'
           /\ \A e \in Daemons : (Launched(e) <=> Launched(e)') /\ (Leads(e) => Leads(e)')
                                 /\ (Looks(e) => Looks(e)')
  <1> USE DEF Typed, DaemonTypes, Starts, Goto, Starting
  <1>1. \A e \in Daemons : Launched(e) <=> Launched(e)'
    BY DEF Launched
  <1>2. \A e \in Daemons : Leads(e) => Leads(e)'
    BY <1>1 DEF Launched, Leads
  <1>3. \A e \in Daemons : Looks(e) => Looks(e)'
    BY <1>2 DEF Looks, FrontendUp, Named, Wrote
  <1>4. Race => Race'
    BY <1>1 DEF Race
  <1>5. QED
    BY <1>1, <1>2, <1>3, <1>4

\* The daemon that rules does so until it or another fails: one that a client starts finds
\* it and leaves.
LEMMA RulesKept ==
    ASSUME SamePath, Typed, NEW r \in Daemons, Rules(r),
           \/ \E d \in Daemons : DaemonStep(d) \/ Bind(d)
           \/ Starts /\ UNCHANGED <<ini, peer>>,
           failures' = failures
    PROVE  /\ Rules(r)'
           /\ ini' = ini
           /\ BackendUp(ini["grpc.backend.port"])' <=> BackendUp(ini["grpc.backend.port"])
  <1>1. DaemonTypes /\ Named
    BY DEF Typed
  <1> USE DiscoveryAssumption DEF DaemonTypes, Rules, Starting, Goto, Launched
  <1>2. ASSUME NEW d \in Daemons, DaemonStep(d) \/ Bind(d)
        PROVE  /\ ini' = ini
               /\ \E x \in {"connect", "exited"} :
                     \/ main[d] \in {"check", "connect"} /\ main' = [main EXCEPT ![d] = x]
                     \/ main' = main
               /\ \A e \in Daemons : main'[e] = "connect" => peer'[e] = r
    <2>1. CASE Check(d)
      BY <1>1, <2>1 DEF Check, GetServerAddress
    <2>2. CASE Found(d)
      BY <1>1, <2>2 DEF Found
    <2>3. CASE ~Check(d) /\ ~Found(d)
      <3>1. ~NotFound(d)
        BY <1>1 DEF NotFound, FrontendUp
      <3>2. ~WriteLine(d)
        BY <1>1 DEF WriteLine
      <3>3. Bind(d)
        BY <1>1, <1>2, <2>3, <3>1, <3>2 DEF DaemonStep, RunFrontendServer, RunBackendServer, OpenIni
      <3>4. QED
        BY <1>1, <3>3 DEF Bind
    <2>4. QED
      BY <2>1, <2>2, <2>3
  <1>3. ASSUME Starts, UNCHANGED <<ini, peer>>
        PROVE  /\ ini' = ini
               /\ \A e \in Daemons : main'[e] = "connect" => peer'[e] = r
               /\ \/ \E d \in Daemons : main[d] = "unused" /\ main' = [main EXCEPT ![d] = "check"]
                  \/ main' = main
    BY <1>1, <1>3 DEF Starts
  <1>4. /\ ini' = ini
        /\ \A e \in Daemons : main'[e] = "connect" => peer'[e] = r
        /\ \/ main' = main
           \/ \E d \in Daemons, x \in {"check", "connect", "exited"} :
                 main[d] \in {"unused", "check", "connect"} /\ main' = [main EXCEPT ![d] = x]
    BY <1>2, <1>3
  <1> HIDE DEF Starting, Goto
  <1>5. Rules(r)'
    BY <1>1, <1>4
  <1>6. ini["grpc.backend.port"] # None => Wrote(ini["grpc.backend.port"])
                                           /\ ini["grpc.backend.port"] \in Daemons
    BY <1>1 DEF Named, Keys
  <1>7. BackendUp(ini["grpc.backend.port"])' <=> BackendUp(ini["grpc.backend.port"])
    BY <1>1, <1>4, <1>6 DEF BackendUp, Wrote
  <1>8. QED
    BY <1>4, <1>5, <1>7

\* Settled daemons do not race, and the one that leads rules.
LEMMA SettledRules ==
    ASSUME Typed, OneBound, Settled, Going
    PROVE  \E d \in Daemons : Rules(d)
  <1>1. \A d \in Daemons : Launched(d) => main[d] = "serving" /\ http[d] = "bound"
    BY DEF Settled, Alive, Launched, Starting
  <1>2. \A d, e \in Daemons : Launched(d) /\ Launched(e) => d = e
    BY <1>1 DEF OneBound, Alive, Launched, Starting
  <1>3. \A d \in Daemons : main[d] \notin {"check", "connect"}
    BY DEF Settled, Alive, Starting
  <1>4. PICK d \in Daemons : Leads(d)
    BY <1>2, <1>3 DEF Going, Race, Looks
  <1>5. main[d] = "serving" /\ unwritten[d] = {}
    BY <1>1, <1>4 DEF Leads, Typed, DaemonTypes
  <1>6. Rules(d)
    BY <1>2, <1>3, <1>4, <1>5 DEF Rules, Leads, Launched
  <1>7. QED
    BY <1>6

\* What a client can rely on lasts through a step of a daemon.
LEMMA DaemonKeepsClientInv ==
    ASSUME SamePath, Typed, ClientInv, NEW d \in Daemons, DaemonStep(d) \/ Bind(d) \/ Crash(d)
    PROVE  ClientInv'
  <1>1. UNCHANGED clientVars /\ failures' \in {failures, failures + 1}
    BY DaemonTypesInv DEF Typed
  <1>2. CASE failures' = failures + 1
    <2>1. \A c \in Clients : ~Calm(c)'
      BY <1>1, <1>2 DEF Calm, clientVars, Typed, ClientTypes, DaemonTypes
    <2>2. QED
      BY <2>1 DEF ClientInv, Progress, LastAttempt
  <1>3. CASE failures' = failures
    <2>1. DaemonStep(d) \/ Bind(d)
      BY <1>3 DEF Crash, Typed, DaemonTypes
    <2>2. Progress'
      <3>1. Going => Going'
        BY <1>3, <2>1, ProgressKept
      <3>2. QED
        BY <1>1, <1>3, <3>1 DEF ClientInv, Progress, Calm, clientVars
    <2>3. LastAttempt'
      <3> SUFFICES ASSUME NEW c \in Clients, attempt'[c] = Attempts, Calm(c)'
                   PROVE  /\ \E r \in Daemons : Rules(r)'
                          /\ cpc'[c] = "connect" => port'[c] = ini'["grpc.backend.port"]
                          /\ cpc'[c] \in {"sleep", "failed"} => ~BackendUp(ini["grpc.backend.port"])'
        BY DEF LastAttempt
      <3>1. attempt[c] = Attempts /\ Calm(c) /\ cpc'[c] = cpc[c] /\ port'[c] = port[c]
        BY <1>1, <1>3 DEF Calm, clientVars
      <3>2. PICK r \in Daemons : Rules(r)
        BY <3>1 DEF ClientInv, LastAttempt
      <3>3. /\ Rules(r)'
            /\ ini' = ini
            /\ BackendUp(ini["grpc.backend.port"])' <=> BackendUp(ini["grpc.backend.port"])
        BY <1>3, <2>1, <3>2, RulesKept
      <3>4. QED
        BY <3>1, <3>3 DEF ClientInv, LastAttempt
    <2>4. QED
      BY <2>2, <2>3 DEF ClientInv
  <1>4. QED
    BY <1>1, <1>2, <1>3

\* ... and of a client, be it the same or another one.
LEMMA ClientKeepsClientInv ==
    ASSUME SamePath, Typed, OneBound, ClientInv, NEW c \in Clients, ClientStep(c)
    PROVE  ClientInv'
  <1>1. Starts /\ UNCHANGED <<ini, http, peer, unwritten, crashes, failures>>
    BY ClientStepStarts
  <1>2. Going => Going'
    BY <1>1, StartsKept DEF Going
  <1>3. \A r \in Daemons : Rules(r) =>
           /\ Rules(r)'
           /\ BackendUp(ini["grpc.backend.port"])' <=> BackendUp(ini["grpc.backend.port"])
    BY <1>1, RulesKept
  <1>4. ~spawned[c] /\ spawned'[c] => Going'
    <2> SUFFICES ASSUME ~spawned[c], spawned'[c] PROVE Going'
      OBVIOUS
    <2>1. NotConnected(c)
      BY DEF ClientStep, Begin, ReadPort, Connected, Wake
    <2>2. PICK d \in Daemons : main[d] = "unused" /\ Goto(d, "check")
      BY <2>1 DEF NotConnected
    <2>3. Looks(d)'
      BY <2>2 DEF Looks, Goto, Typed, DaemonTypes
    <2>4. QED
      BY <2>3 DEF Going
  <1>5. \A x \in Clients : spawned'[x] /\ Calm(x)' => Calm(x)
    <2>1. CASE Begin(c)
      BY <2>1 DEF Begin, Typed, ClientTypes, Calm
    <2>2. CASE ~Begin(c)
      BY <2>2 DEF ClientStep, ReadPort, Connected, NotConnected, Wake, Calm
    <2>3. QED
      BY <2>1, <2>2
  <1>6. \A x \in Clients \ {c} : /\ spawned'[x] = spawned[x] /\ attempt'[x] = attempt[x]
                                 /\ cpc'[x] = cpc[x] /\ port'[x] = port[x]
    BY DEF ClientStep, Begin, ReadPort, Connected, NotConnected, Wake, Typed, ClientTypes, ClientGoto
  <1>7. Progress'
    BY <1>2, <1>4, <1>5, <1>6 DEF ClientInv, Progress
  <1>8. ASSUME NEW x \in Clients, attempt'[x] = Attempts, Calm(x)'
        PROVE  /\ \E r \in Daemons : Rules(r)'
               /\ cpc'[x] = "connect" => port'[x] = ini'["grpc.backend.port"]
               /\ cpc'[x] \in {"sleep", "failed"} => ~BackendUp(ini["grpc.backend.port"])'
    <2>typed. ClientTypes' /\ ClientTypes
      BY ClientTypesInv DEF Typed
    <2>calm. Calm(x)
      BY <1>5, <1>8, <2>typed DEF ClientTypes, Attempts
    <2>1. CASE attempt[x] = Attempts
      <3>1. /\ \E r \in Daemons : Rules(r)
            /\ cpc[x] = "connect" => port[x] = ini["grpc.backend.port"]
            /\ cpc[x] \in {"sleep", "failed"} => ~BackendUp(ini["grpc.backend.port"])
        BY <2>1, <2>calm DEF ClientInv, LastAttempt
      <3>2. /\ \E r \in Daemons : Rules(r)'
            /\ BackendUp(ini["grpc.backend.port"])' <=> BackendUp(ini["grpc.backend.port"])
        BY <1>3, <3>1
      <3>3. CASE x # c
        BY <1>1, <1>6, <3>1, <3>2, <3>3
      <3>4. CASE x = c
        <4>1. CASE Begin(c)
          BY <3>2, <3>4, <4>1, <2>typed DEF Begin, ClientGoto, ClientTypes
        <4>2. CASE ReadPort(c)
          BY <3>2, <3>4, <4>2, <2>typed DEF ReadPort, ClientGoto, ClientTypes, GetServerAddress
        <4>3. CASE Connected(c)
          BY <3>2, <3>4, <4>3, <2>typed DEF Connected, ClientGoto, ClientTypes
        <4>4. CASE NotConnected(c)
          BY <3>1, <3>2, <3>4, <4>4, <2>typed DEF NotConnected, ClientGoto, ClientTypes
        <4>5. CASE Wake(c)
          BY <3>1, <3>2, <3>4, <4>5, <2>typed DEF Wake, ClientGoto, ClientTypes
        <4>6. QED
          BY <4>1, <4>2, <4>3, <4>4, <4>5 DEF ClientStep
      <3>5. QED
        BY <3>3, <3>4
    <2>2. CASE attempt[x] # Attempts
      <3>1. x = c /\ Wake(c) /\ attempt[c] = Attempts - 1 /\ cpc'[c] = "read"
        <4>1. x = c
          BY <1>6, <1>8, <2>2
        <4>2. Wake(c)
          BY <1>8, <2>2, <4>1 DEF ClientStep, Begin, ReadPort, Connected, NotConnected
        <4>3. QED
          BY <1>8, <2>2, <4>1, <4>2, <2>typed DEF Wake, ClientGoto, ClientTypes, Attempts
      <3>2. Settled /\ spawned[c]
        BY <3>1, <2>typed DEF Wake, ClientTypes
      <3>3. Going
        BY <3>1, <3>2, <2>calm DEF ClientInv, Progress
      <3>4. \E r \in Daemons : Rules(r)
        BY <3>2, <3>3, SettledRules
      <3>5. QED
        BY <1>3, <3>1, <3>4
    <2>3. QED
      BY <2>1, <2>2
  <1>9. LastAttempt'
    BY <1>8 DEF LastAttempt
  <1>10. QED
    BY <1>7, <1>9 DEF ClientInv

\* CreateChannel gives up only for a reason: where the client and the daemon agree on the
\* place of netsim.ini, a daemon has crashed or lost the HTTP port while the client was
\* trying, or netsim.ini names a frontend that answers and a backend that does not.
THEOREM GaveUpWithReasonTheorem == ASSUME SamePath PROVE Spec => []GaveUpWithReason
  <1> DEFINE Inv == DaemonInv /\ ClientInv
  <1>1. Init => Inv
    <2>1. Init => DaemonInv
      BY TypedInit DEF Init, DaemonInv, OneBound, Alive, Starting, SoleWriter
    <2>2. Init => ClientInv
      BY DEF Init, ClientInv, Progress, LastAttempt, Attempts
    <2>3. QED
      BY <2>1, <2>2
  <1>2. Inv /\ [Next]_vars => Inv'
    <2> SUFFICES ASSUME DaemonInv, ClientInv, [Next]_vars PROVE DaemonInv' /\ ClientInv'
      OBVIOUS
    <2>1. Typed /\ OneBound /\ DaemonInv'
      BY TypedInv, OneBoundInv, SoleWriterInv DEF DaemonInv
    <2>2. ASSUME NEW d \in Daemons, DaemonStep(d) \/ Bind(d) \/ Crash(d) PROVE ClientInv'
      BY <2>1, <2>2, DaemonKeepsClientInv
    <2>3. ASSUME NEW c \in Clients, ClientStep(c) PROVE ClientInv'
      BY <2>1, <2>3, ClientKeepsClientInv
    <2>4. ASSUME UNCHANGED vars PROVE ClientInv'
      BY <2>4 DEF vars, daemonVars, clientVars, ClientInv, Progress, LastAttempt, Calm, Going,
           Race, Leads, Looks, Launched, Rules, FrontendUp, BackendUp
    <2>5. QED
      BY <2>1, <2>2, <2>3, <2>4 DEF Next
  <1>3. Inv => GaveUpWithReason
    <2> SUFFICES ASSUME DaemonInv, ClientInv, NEW c \in Clients, cpc[c] = "failed", failures <= before[c]
                 PROVE  Torn
      BY DEF DaemonInv, Typed, DaemonTypes, ClientTypes, GaveUpWithReason
    <2>1. attempt[c] = Attempts /\ Calm(c)
      BY DEF DaemonInv, Typed, DaemonTypes, ClientTypes, Calm
    <2>2. PICK d \in Daemons : Rules(d)
      BY <2>1 DEF ClientInv, LastAttempt
    <2>3. FrontendUp(ini["grpc.port"])
      BY <2>2, DiscoveryAssumption DEF Rules, FrontendUp
    <2>4. ~BackendUp(ini["grpc.backend.port"])
      BY <2>1 DEF ClientInv, LastAttempt
    <2>5. QED
      BY <2>3, <2>4 DEF Torn, GetServerAddress
  <1>4. QED
    BY <1>1, <1>2, <1>3, PTL DEF Spec
=============================================================================
