------------------------------- MODULE LongPoll -------------------------------
(***************************************************************************)
(* How a change of the scene reaches the web page: DeviceNotifyManager,    *)
(* the sessions of the libwebsockets HTTP server and the subscription loop *)
(* of ui/ts/device-observer.ts.                                            *)
(*                                                                         *)
(* The scene is a version number.  UpdateDevice and Reset change it under  *)
(* the lock of the scene and notify under that of the manager too; devices *)
(* that come and go, and packet counts, change it silently.  libwebsockets *)
(* serves all sessions on one thread, "service"; the Updaters are threads  *)
(* of the gRPC frontend.  A wsi is memory: it is used again once its       *)
(* session is closed.  The loops of some pages are followed; the polls of  *)
(* others have the page None.                                              *)
(***************************************************************************)
EXTENDS Integers, FiniteSets

CONSTANTS
    Pages,        \* the web pages that are followed
    Wsi,          \* connections of libwebsockets
    Updaters,     \* threads of the gRPC frontend
    MaxId,        \* UINT_MAX
    MaxVersion,   \* bound on the changes of the scene
    None

ASSUME LongPollAssumption ==
    /\ MaxId \in Nat \ {0} /\ MaxVersion \in Nat
    /\ "service" \notin Updaters
    /\ None \notin Pages \cup Wsi \cup Updaters \cup {"service"}

Threads == Updaters \cup {"service"}
Ids == 1..MaxId
Versions == 0..MaxVersion

VARIABLES
    up,         \* the daemon runs
    scene,      \* the version of the scene
    sceneLock,  \* who holds SceneController::mutex_
    mgrLock,    \* who holds DeviceNotifyManager::mutex_
    callbacks,  \* registered_callbacks_: the wsi of a callback id, or None
    nextId,     \* next_available_callback_id_
    pending,    \* the callbacks Notify has yet to call
    upc,        \* upc[t]: where a thread is in UpdateDevice or Reset
    cur,        \* the session whose handler "service" is in, or None
    at,         \* where in that handler it is
    session,    \* session[w]: the Session of a connection
    writable,   \* connections with a callback on writable requested
    page,       \* page[p]: where the subscription loop is
    get,        \* get[p]: where the initial GET is
    arrived,    \* arrived[p]: the responses that wait for the page, by request
    shown,      \* shown[p]: simulationInfo.devices
    request,    \* request[p]: failed polls
    recent      \* recent[p]: no request has timed out since `start`

managerVars == <<mgrLock, callbacks, nextId, pending>>
sceneVars == <<scene, sceneLock, upc>>
sessionVars == <<cur, at, session, writable>>
pageVars == <<page, get, arrived, shown, request, recent>>
vars == <<up, managerVars, sceneVars, sessionVars, pageVars>>

\* A session: its request, the page that sent it, registered_callback_id, whether
\* the request has arrived in full, how far the answer is and the version of the
\* scene it carries.  noticed is the first version it was notified of, or 0.
Closed == [path |-> "none", page |-> None, id |-> 0, complete |-> FALSE,
           stage |-> "closed", response |-> 0, noticed |-> 0]

Session ==
    [path : {"none", "poll", "get", "update"}, page : Pages \cup {None}, id : 0..MaxId,
     complete : BOOLEAN, stage : {"closed", "open", "called", "header"},
     response : Nat, noticed : Nat]

\* What a page gets: to which request, and the version of the scene or -1, a failure.
Responses == {"poll", "get"} \X (Nat \cup {-1})

Init ==
    /\ up = TRUE
    /\ scene = 0 /\ sceneLock = None /\ upc = [t \in Threads |-> "idle"]
    /\ mgrLock = None /\ callbacks = [i \in Ids |-> None] /\ nextId = 0
    /\ pending = {}
    /\ cur = None /\ at = "service" /\ session = [w \in Wsi |-> Closed]
    /\ writable = {}
    /\ page = [p \in Pages |-> "fetch"]
    /\ get = [p \in Pages |-> "fetch"]
    /\ arrived = [p \in Pages |-> {}]
    /\ shown = [p \in Pages |-> 0]
    /\ request = [p \in Pages |-> 0]
    /\ recent = [p \in Pages |-> TRUE]

\* Every POST that is under way may still change the scene once.
Room == scene + Cardinality({w \in Wsi : session[w].path = "update"
                                         /\ session[w].stage = "open"}) < MaxVersion

-----------------------------------------------------------------------------
(***************************************************************************)
(* SceneController::UpdateDevice and Reset, DeviceNotifyManager::Notify    *)
(***************************************************************************)

\* The lock of the scene, then device->Update or device->Reset.
Apply(t) ==
    /\ sceneLock = None
    /\ sceneLock' = t
    /\ scene' = scene + 1
    /\ upc' = [upc EXCEPT ![t] = "notify"]

UpdateDevice(t) ==
    /\ up /\ upc[t] = "idle" /\ Room
    /\ Apply(t)
    /\ UNCHANGED <<up, managerVars, sessionVars, pageVars>>

\* Notify takes the manager's lock ...
NotifyLock(t) ==
    /\ up /\ upc[t] = "notify" /\ mgrLock = None
    /\ mgrLock' = t
    /\ pending' = {i \in Ids : callbacks[i] # None}
    /\ upc' = [upc EXCEPT ![t] = "calling"]
    /\ UNCHANGED <<up, scene, sceneLock, callbacks, nextId, sessionVars, pageVars>>

\* ... calls lws_callback_on_writable(wsi) in one callback after the other ...
CallCallback(t) ==
    /\ up /\ upc[t] = "calling"
    /\ \E i \in pending :
          /\ pending' = pending \ {i}
          /\ writable' = writable \cup {callbacks[i]}
          /\ session' = [session EXCEPT ![callbacks[i]].noticed =
                                           IF @ = 0 THEN scene ELSE @]
    /\ UNCHANGED <<up, mgrLock, callbacks, nextId, sceneVars, cur, at, pageVars>>

\* ... and both locks are given up as Notify and its caller return.
NotifyUnlock(t) ==
    /\ up /\ upc[t] = "calling" /\ pending = {}
    /\ mgrLock' = None /\ sceneLock' = None
    /\ upc' = [upc EXCEPT ![t] = "idle"]
    /\ at' = IF t = "service" THEN "header" ELSE at
    /\ UNCHANGED <<up, scene, callbacks, nextId, pending, cur, session, writable,
                   pageVars>>

\* Devices added and removed, and packet counts: nobody is notified.
SilentChange ==
    /\ up /\ sceneLock = None /\ Room
    /\ scene' = scene + 1
    /\ UNCHANGED <<up, managerVars, sceneLock, upc, sessionVars, pageVars>>

-----------------------------------------------------------------------------
(***************************************************************************)
(* The service thread: callback_http                                       *)
(***************************************************************************)
Idle == up /\ cur = None

\* Mutated form: the ids never wrap.
NextIdEndless == nextId + 1

\* Mutated form: the ids wrap to 0.
NextIdZero == IF nextId = MaxId THEN 0 ELSE nextId + 1

\* 0 stands for no callback.
NextId == IF nextId = MaxId THEN 1 ELSE nextId + 1

Open(p, path) ==
    [Closed EXCEPT !.path = path, !.page = p, !.stage = "open", !.complete = path # "update"]

\* The memory of a closed connection is used again.
FreeWsi == CHOOSE w \in Wsi : session[w].stage = "closed"
CanOpen == Idle /\ \E w \in Wsi : session[w].stage = "closed"

\* /register-updates registers a callback and waits.  The session times out after
\* 15 seconds, far less than the ids take to come round: the next one is free.
RegisterUpdates(p) ==
    /\ CanOpen /\ mgrLock = None
    /\ p \in Pages => page[p] = "fetch"
    /\ NextId \in Ids => callbacks[NextId] = None
    /\ session' = [session EXCEPT ![FreeWsi] = [Open(p, "poll") EXCEPT !.id = NextId]]
    /\ callbacks' = [i \in Ids |-> IF i = NextId THEN FreeWsi ELSE callbacks[i]]
    /\ nextId' = NextId
    /\ page' = [q \in Pages |-> IF q = p THEN "wait" ELSE page[q]]
    /\ UNCHANGED <<up, mgrLock, pending, sceneVars, cur, at, writable, get, arrived, shown,
                   request, recent>>

\* Another GET is answered as soon as it can be written.
GetDevices(p) ==
    /\ CanOpen /\ get[p] = "fetch"
    /\ session' = [session EXCEPT ![FreeWsi] = Open(p, "get")]
    /\ writable' = writable \cup {FreeWsi}
    /\ get' = [get EXCEPT ![p] = "wait"]
    /\ UNCHANGED <<up, managerVars, sceneVars, cur, at, page, arrived, shown, request, recent>>

\* A POST waits for its body.  No page looks at the answer.
PostUpdate ==
    /\ CanOpen /\ Room
    /\ session' = [session EXCEPT ![FreeWsi] = Open(None, "update")]
    /\ UNCHANGED <<up, managerVars, sceneVars, cur, at, writable, pageVars>>

\* LWS_CALLBACK_HTTP_BODY and LWS_CALLBACK_HTTP_BODY_COMPLETION.
BodyCompletion(w) ==
    /\ Idle /\ session[w].stage = "open" /\ ~session[w].complete
    /\ session' = [session EXCEPT ![w].complete = TRUE]
    /\ writable' = writable \cup {w}
    /\ UNCHANGED <<up, managerVars, sceneVars, cur, at, pageVars>>

\* LWS_CALLBACK_HTTP_WRITEABLE, the first time.  GetDevices copies the list of
\* devices under the lock of the scene ...
WriteableGet(w) ==
    /\ Idle /\ w \in writable /\ session[w].stage = "open" /\ session[w].path # "update"
    /\ sceneLock = None
    /\ writable' = writable \ {w}
    /\ cur' = w /\ at' = "read"
    /\ UNCHANGED <<up, managerVars, sceneVars, session, pageVars>>

\* ... and reads the models without it.
ReadModels ==
    /\ up /\ at = "read"
    /\ session' = [session EXCEPT ![cur].response = scene]
    /\ at' = "header"
    /\ UNCHANGED <<up, managerVars, sceneVars, cur, writable, pageVars>>

\* UpdateDevice with the body there is: it may name no device, an empty one does not.
WriteableUpdate(w) ==
    /\ Idle /\ w \in writable /\ session[w].stage = "open" /\ session[w].path = "update"
    /\ writable' = writable \ {w}
    /\ cur' = w
    /\ session' = [session EXCEPT ![w].stage = "called"]
    /\ \/ session[w].complete /\ Apply("service") /\ at' = "update"
       \/ sceneLock = None /\ at' = "header" /\ UNCHANGED sceneVars
    /\ UNCHANGED <<up, managerVars, pageVars>>

\* Mutated form: no callback is asked for to write the body.
SendHeaderOnly ==
    /\ up /\ at = "header"
    /\ session' = [session EXCEPT ![cur].stage = "header"]
    /\ cur' = None /\ at' = "service"
    /\ UNCHANGED <<up, managerVars, sceneVars, writable, pageVars>>

\* The header goes out, and the body has to wait until it can be written.
SendHeader ==
    /\ up /\ at = "header"
    /\ session' = [session EXCEPT ![cur].stage = "header"]
    /\ writable' = writable \cup {cur}
    /\ cur' = None /\ at' = "service"
    /\ UNCHANGED <<up, managerVars, sceneVars, pageVars>>

\* What a page gets for its request.
Arrive(s, what) ==
    arrived' = [p \in Pages |->
                   IF p = s.page THEN arrived[p] \cup {<<s.path, what>>} ELSE arrived[p]]

\* The second time: the body, and the connection is closed.
WriteableBody(w) ==
    /\ Idle /\ w \in writable /\ session[w].stage = "header"
    /\ writable' = writable \ {w}
    /\ Arrive(session[w], session[w].response)
    /\ cur' = w /\ at' = "close"
    /\ UNCHANGED <<up, managerVars, sceneVars, session, page, get, shown, request, recent>>

\* libwebsockets closes a connection 15 seconds after its request.
Timeout(w) ==
    /\ Idle /\ session[w].stage # "closed"
    /\ Arrive(session[w], -1)
    /\ recent' = [p \in Pages |-> recent[p] /\ p # session[w].page]
    /\ cur' = w /\ at' = "close"
    /\ UNCHANGED <<up, managerVars, sceneVars, session, writable, page, get, shown, request>>

\* Mutated form: Unregister takes no lock.
ClosedHttpUnlocked ==
    /\ up /\ at = "close"
    /\ callbacks' = [i \in Ids |-> IF i = session[cur].id THEN None ELSE callbacks[i]]
    /\ session' = [session EXCEPT ![cur] = Closed]
    /\ writable' = writable \ {cur}
    /\ cur' = None /\ at' = "service"
    /\ UNCHANGED <<up, mgrLock, nextId, pending, sceneVars, pageVars>>

\* Mutated form: the callback stays registered.
ClosedHttpKeepsCallback ==
    /\ up /\ at = "close" /\ mgrLock = None
    /\ session' = [session EXCEPT ![cur] = Closed]
    /\ writable' = writable \ {cur}
    /\ cur' = None /\ at' = "service"
    /\ UNCHANGED <<up, managerVars, sceneVars, pageVars>>

\* LWS_CALLBACK_CLOSED_HTTP: Unregister, before the wsi is freed.
ClosedHttp ==
    /\ up /\ at = "close"
    /\ session[cur].id > 0 => mgrLock = None
    /\ callbacks' = [i \in Ids |-> IF i = session[cur].id THEN None ELSE callbacks[i]]
    /\ session' = [session EXCEPT ![cur] = Closed]
    /\ writable' = writable \ {cur}
    /\ cur' = None /\ at' = "service"
    /\ UNCHANGED <<up, mgrLock, nextId, pending, sceneVars, pageVars>>

\* The daemon ends, and every open connection with it.
DaemonEnds ==
    /\ up
    /\ up' = FALSE
    /\ sceneLock' = None /\ upc' = [t \in Threads |-> "idle"]
    /\ mgrLock' = None /\ callbacks' = [i \in Ids |-> None] /\ pending' = {}
    /\ cur' = None /\ at' = "service" /\ session' = [w \in Wsi |-> Closed]
    /\ writable' = {}
    /\ arrived' = [p \in Pages |-> arrived[p] \cup
          {<<s.path, -1>> : s \in {session[w] : w \in {v \in Wsi :
              session[v].page = p /\ ~(v = cur /\ at = "close")}}}]
    /\ UNCHANGED <<scene, nextId, page, get, shown, request, recent>>

-----------------------------------------------------------------------------
(***************************************************************************)
(* The page: the constructor of SimulationState, and subscribe             *)
(***************************************************************************)
Refused(p) ==
    /\ ~up /\ page[p] = "fetch"
    /\ page' = [page EXCEPT ![p] = "wait"]
    /\ arrived' = [arrived EXCEPT ![p] = @ \cup {<<"poll", -1>>}]
    /\ UNCHANGED <<up, managerVars, sceneVars, sessionVars, get, shown, request, recent>>

\* Mutated form: failures are not forgotten.
CountFailuresKeeps(p, failures) ==
    IF failures < 3
    THEN /\ page' = [page EXCEPT ![p] = "fetch"]
         /\ request' = [request EXCEPT ![p] = failures]
         /\ UNCHANGED recent
    ELSE /\ \E quick \in BOOLEAN :
                /\ quick => recent[p]
                /\ page' = [page EXCEPT ![p] = IF quick THEN "alerted" ELSE "fetch"]
         /\ request' = [request EXCEPT ![p] = failures]
         /\ recent' = [recent EXCEPT ![p] = TRUE]

\* Three failures within a second of `start` end the loop; otherwise they are
\* forgotten, and `start` is now.  It is not that quick after a timeout.
CountFailures(p, failures) ==
    IF failures < 3
    THEN /\ page' = [page EXCEPT ![p] = "fetch"]
         /\ request' = [request EXCEPT ![p] = failures]
         /\ UNCHANGED recent
    ELSE /\ \E quick \in BOOLEAN :
                /\ quick => recent[p]
                /\ page' = [page EXCEPT ![p] = IF quick THEN "alerted" ELSE "fetch"]
         /\ request' = [request EXCEPT ![p] = 0]
         /\ recent' = [recent EXCEPT ![p] = TRUE]

PollReturns(p) ==
    /\ \E r \in arrived[p] :
          /\ r[1] = "poll"
          /\ arrived' = [arrived EXCEPT ![p] = @ \ {r}]
          /\ shown' = IF r[2] = -1 THEN shown ELSE [shown EXCEPT ![p] = r[2]]
          /\ CountFailures(p, IF r[2] = -1 THEN request[p] + 1 ELSE request[p])
    /\ UNCHANGED <<up, managerVars, sceneVars, sessionVars, get>>

\* The initial GET may be answered before or after a poll.
GetReturns(p) ==
    /\ \E r \in arrived[p] :
          /\ r[1] = "get"
          /\ arrived' = [arrived EXCEPT ![p] = @ \ {r}]
          /\ shown' = IF r[2] = -1 THEN shown ELSE [shown EXCEPT ![p] = r[2]]
    /\ UNCHANGED <<up, managerVars, sceneVars, sessionVars, page, get, request, recent>>

-----------------------------------------------------------------------------
NotifyStep(t) == NotifyLock(t) \/ CallCallback(t) \/ NotifyUnlock(t)
HandlerStep == ReadModels \/ SendHeader \/ ClosedHttp
Writeable(w) == WriteableGet(w) \/ WriteableUpdate(w) \/ WriteableBody(w)

Next ==
    \/ \E t \in Updaters : UpdateDevice(t)
    \/ \E t \in Threads : NotifyStep(t)
    \/ SilentChange
    \/ \E p \in Pages \cup {None} : RegisterUpdates(p)
    \/ \E p \in Pages : GetDevices(p)
    \/ PostUpdate
    \/ \E w \in Wsi : BodyCompletion(w) \/ Writeable(w) \/ Timeout(w)
    \/ HandlerStep
    \/ DaemonEnds
    \/ \E p \in Pages : Refused(p) \/ PollReturns(p) \/ GetReturns(p)

Spec == Init /\ [][Next]_vars

\* Threads go on when they are not blocked, libwebsockets serves every connection
\* that can be written, and a page handles its responses.  Pages owe no request,
\* and nothing has to time out.
FairSpec ==
    /\ Spec
    /\ \A t \in Threads : WF_vars(NotifyStep(t))
    /\ WF_vars(HandlerStep)
    /\ \A w \in Wsi : SF_vars(Writeable(w))
    /\ \A p \in Pages : WF_vars(PollReturns(p))

-----------------------------------------------------------------------------
\* Type invariant; callback ids are those of unsigned int, and 0 is none.
TypeOK ==
    /\ up \in BOOLEAN
    /\ scene \in Nat /\ sceneLock \in Threads \cup {None}
    /\ upc \in [Threads -> {"idle", "notify", "calling"}]
    /\ mgrLock \in Threads \cup {None} /\ callbacks \in [Ids -> Wsi \cup {None}]
    /\ nextId \in 0..MaxId /\ pending \subseteq Ids
    /\ cur \in Wsi \cup {None}
    /\ at \in {"service", "read", "update", "header", "close"}
    /\ session \in [Wsi -> Session]
    /\ writable \subseteq Wsi
    /\ page \in [Pages -> {"fetch", "wait", "alerted"}]
    /\ get \in [Pages -> {"fetch", "wait"}]
    /\ arrived \in [Pages -> SUBSET Responses]
    /\ shown \in [Pages -> Nat]
    /\ request \in [Pages -> 0..3] /\ recent \in [Pages -> BOOLEAN]

\* The callbacks of the manager are those of the polls that are open, each under the
\* id its session keeps, also when the ids wrap: every poll can be woken, and no
\* callback outlives its session.
Registered ==
    /\ \A w \in Wsi : session[w].path = "poll" =>
          session[w].id \in Ids /\ callbacks[session[w].id] = w
    /\ \A i \in Ids : callbacks[i] # None =>
          session[callbacks[i]].path = "poll" /\ session[callbacks[i]].id = i

\* While Notify goes through the callbacks on another thread, none of those it has
\* yet to call is unregistered and none of their connections is freed.
NotifySafe ==
    \A i \in pending : callbacks[i] # None /\ session[callbacks[i]].stage # "closed"

\* A poll is answered because of a notification and shows the scene as of that
\* change or later; an update is carried out once its body is there.  A wsi that is
\* used again is not woken by what its predecessor registered.
AnsweredForReason ==
    \A w \in Wsi : session[w].stage \in {"called", "header"} =>
        /\ session[w].complete
        /\ session[w].path = "poll" =>
              session[w].noticed # 0 /\ session[w].response >= session[w].noticed

\* A page stops polling only after the daemon has ended: polls that time out, however
\* many, do not make it give up.
AlertedOnlyWhenDown == \A p \in Pages : page[p] = "alerted" => ~up

\* A change a poll was notified of gets to its page, unless the session times out
\* before its answer is complete or the daemon ends.
ChangeShown ==
    \A p \in Pages, v \in Versions \ {0} :
        (\E w \in Wsi : /\ session[w].path = "poll" /\ session[w].page = p
                        /\ session[w].noticed = v /\ ~(cur = w /\ at = "close"))
        ~> (shown[p] >= v \/ <<"poll", -1>> \in arrived[p] \/ ~up)
=============================================================================
