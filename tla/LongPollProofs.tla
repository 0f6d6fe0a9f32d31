---------------------------- MODULE LongPollProofs ----------------------------
(***************************************************************************)
(* Proofs about the notification of the web pages, for any number of       *)
(* connections, of threads that update and of pages, and any size of the   *)
(* callback ids.                                                           *)
(***************************************************************************)
EXTENDS LongPoll, TLAPS

-----------------------------------------------------------------------------
(* The inductive invariant *)

\* A closed connection has no session, and no callback on writable is due for it.  A
\* session other than a poll has no callback id, only a POST waits for its body, and
\* no page waits for the answer to a POST.
Sessions ==
    \A w \in Wsi :
        /\ session[w].stage = "closed" => session[w] = Closed /\ w \notin writable
        /\ session[w].path # "poll" => session[w].id = 0
        /\ session[w].path \in {"poll", "get"} => session[w].complete
        /\ session[w].page \in Pages => session[w].path \in {"poll", "get"}

\* The service thread is in a handler exactly when it has a session, and waits in
\* UpdateDevice or Reset only for a POST.
Handler ==
    /\ at = "service" <=> cur = None
    /\ at # "service" => session[cur].stage # "closed"
    /\ upc["service"] # "idle" => at = "update"

\* Callbacks are left to call only while a thread holds the manager's lock.
NotifyLocked == pending # {} => mgrLock # None

\* A notification is about a change that has been made.
NoticedScene ==
    /\ \A t \in Threads : upc[t] # "idle" => scene > 0
    /\ \A w \in Wsi : session[w].noticed <= scene

\* What has happened by the time a session can be written for the first time ...
WritableForReason ==
    \A w \in writable : session[w].stage = "open" =>
        /\ session[w].complete
        /\ session[w].path = "poll" => session[w].noticed # 0

\* ... and while the service thread prepares its answer.
AnswerForReason ==
    at \in {"read", "update", "header"} =>
        /\ session[cur].complete
        /\ at = "read" => session[cur].path # "update"
        /\ at = "update" => session[cur].path = "update"
        /\ session[cur].path = "poll" =>
              /\ session[cur].noticed # 0
              /\ at = "header" => session[cur].response >= session[cur].noticed

\* While the daemon runs, a page has seen no poll fail since the last timeout it knows of.
FailuresLate ==
    \A p \in Pages :
        /\ request[p] < 3
        /\ up /\ recent[p] => request[p] = 0 /\ <<"poll", -1>> \notin arrived[p]

ManagerInv == TypeOK /\ Sessions /\ Handler /\ NotifyLocked /\ Registered /\ NotifySafe
ReasonInv == NoticedScene /\ WritableForReason /\ AnswerForReason /\ AnsweredForReason
PageInv == FailuresLate /\ AlertedOnlyWhenDown
IndInv == ManagerInv /\ ReasonInv /\ PageInv

-----------------------------------------------------------------------------
(* Records *)

\* A connection that is closed is a session like any other.
LEMMA ClosedSession == Closed \in Session /\ Closed.stage = "closed" /\ Closed.path = "none"
                       /\ Closed.id = 0 /\ Closed.page = None /\ Closed.noticed = 0
  BY LongPollAssumption DEF Closed, Session

\* A session whose request is complete, or is not, is a session.
LEMMA CompleteSession ==
  ASSUME NEW s \in Session, NEW b \in BOOLEAN
  PROVE  [s EXCEPT !.complete = b] \in Session /\ [s EXCEPT !.complete = b].complete = b
  BY Zenon DEF Session

\* What the session of a new request is.
LEMMA OpenSession ==
  ASSUME NEW p \in Pages \cup {None}, NEW path \in {"poll", "get", "update"}
  PROVE  /\ Open(p, path) \in Session
         /\ Open(p, path).path = path
         /\ Open(p, path).page = p
         /\ Open(p, path).id = 0
         /\ Open(p, path).stage = "open"
         /\ Open(p, path).noticed = 0
         /\ path # "update" => Open(p, path).complete
<1> DEFINE s == [Closed EXCEPT !.path = path, !.page = p, !.stage = "open"]
           b == path # "update"
<1>1. b \in BOOLEAN
  OBVIOUS
<1>2. Open(p, path) = [s EXCEPT !.complete = b]
  BY DEF Open
<1>3. /\ s \in Session
      /\ s.path = path /\ s.page = p /\ s.id = 0 /\ s.stage = "open" /\ s.noticed = 0
  BY ClosedSession DEF Session
<1> HIDE DEF s
<1>4. Open(p, path) \in Session /\ Open(p, path).complete = b
  BY <1>1, <1>2, <1>3, CompleteSession, Zenon
<1>5. /\ Open(p, path).path = s.path /\ Open(p, path).page = s.page
      /\ Open(p, path).id = s.id /\ Open(p, path).stage = s.stage
      /\ Open(p, path).noticed = s.noticed
  BY <1>2, <1>3 DEF Session
<1> QED
  BY <1>3, <1>4, <1>5

\* A session with another callback id is a session.
LEMMA IdSession ==
  ASSUME NEW s \in Session, NEW i \in 0..MaxId
  PROVE  [s EXCEPT !.id = i] \in Session
  BY DEF Session

\* A new request gets a closed connection, while no handler runs.
LEMMA FreeWsiClosed ==
  ASSUME CanOpen
  PROVE  Idle /\ FreeWsi \in Wsi /\ session[FreeWsi].stage = "closed"
  BY DEF CanOpen, FreeWsi

\* Callback ids stay within unsigned int, and 0 is never given out.
LEMMA NextIdType ==
  ASSUME nextId \in 0..MaxId
  PROVE  NextId \in Ids
  BY LongPollAssumption DEF NextId, Ids

-----------------------------------------------------------------------------
(* The manager and the sessions *)

\* A step that neither opens nor closes a session keeps what its request was.
Kept ==
    \A v \in Wsi :
        /\ session'[v].path = session[v].path
        /\ session'[v].page = session[v].page
        /\ session'[v].id = session[v].id
        /\ session[v].complete => session'[v].complete
        /\ session[v].stage = "closed" => session'[v] = session[v]
        /\ session[v].stage # "closed" => session'[v].stage # "closed"

\* Such a step keeps the callbacks of the manager in order, whoever notifies meanwhile:
\* it may only shorten what is left to call, or start from all that is registered.
LEMMA KeptInv ==
  ASSUME ManagerInv, Kept, callbacks' = callbacks,
         pending' \subseteq {i \in Ids : callbacks[i] # None},
         \A w \in writable' : session[w].stage # "closed", writable' \subseteq Wsi
  PROVE  Sessions' /\ Registered' /\ NotifySafe'
<1> USE DEF ManagerInv, TypeOK
<1>1. Sessions'
  BY DEF Sessions, Kept
<1>2. Registered'
  BY LongPollAssumption DEF Registered, Kept
<1>3. NotifySafe'
  BY LongPollAssumption, ClosedSession DEF Registered, Sessions, NotifySafe, Kept
<1> QED
  BY <1>1, <1>2, <1>3

\* The threads that update and notify keep the manager's invariant.
LEMMA NotifyManagerInv ==
  ASSUME ManagerInv, NEW t \in Threads,
         (UpdateDevice(t) /\ t \in Updaters) \/ NotifyStep(t) \/ SilentChange
  PROVE  ManagerInv'
<1> USE LongPollAssumption
    DEF ManagerInv, TypeOK, managerVars, sceneVars, sessionVars, pageVars, Threads
<1>wsi. \A i \in pending : callbacks[i] \in Wsi
  BY DEF NotifySafe
<1>live. \A w \in writable : session[w].stage # "closed"
  BY DEF Sessions
<1>1. CASE UpdateDevice(t) /\ t \in Updaters
  <2>1. Kept
    BY <1>1 DEF UpdateDevice, Kept
  <2>2. Sessions' /\ Registered' /\ NotifySafe'
    BY <1>1, <1>wsi, <1>live, <2>1, KeptInv DEF UpdateDevice, NotifySafe
  <2>3. TypeOK'
    BY <1>1 DEF UpdateDevice, Apply
  <2>4. Handler' /\ NotifyLocked'
    BY <1>1 DEF UpdateDevice, Apply, Handler, NotifyLocked
  <2> QED
    BY <2>2, <2>3, <2>4
<1>2. CASE NotifyLock(t)
  <2>1. Kept
    BY <1>2 DEF NotifyLock, Kept
  <2>2. Sessions' /\ Registered' /\ NotifySafe'
    BY <1>2, <1>wsi, <1>live, <2>1, KeptInv DEF NotifyLock
  <2>3. TypeOK'
    BY <1>2 DEF NotifyLock
  <2>4. Handler' /\ NotifyLocked'
    BY <1>2 DEF NotifyLock, Handler, NotifyLocked
  <2> QED
    BY <2>2, <2>3, <2>4
<1>3. CASE CallCallback(t)
  <2>1. PICK i \in pending :
          /\ pending' = pending \ {i}
          /\ writable' = writable \cup {callbacks[i]}
          /\ session' = [session EXCEPT ![callbacks[i]].noticed =
                                           IF @ = 0 THEN scene ELSE @]
    BY <1>3 DEF CallCallback
  <2> DEFINE w == callbacks[i]
             v == IF session[w].noticed = 0 THEN scene ELSE session[w].noticed
             s == [session[w] EXCEPT !.noticed = v]
  <2>2. w \in Wsi /\ session[w] \in Session /\ session[w].stage # "closed"
    BY <1>wsi DEF NotifySafe
  <2>3. v \in Nat
    BY <2>2 DEF Session
  <2>4. session' = [session EXCEPT ![w] = s]
    BY <2>1
  <2> HIDE DEF w, v
  <2>5. /\ s \in Session
        /\ s.path = session[w].path /\ s.page = session[w].page /\ s.id = session[w].id
        /\ s.complete = session[w].complete /\ s.stage = session[w].stage
    BY <2>2, <2>3 DEF Session
  <2> HIDE DEF s
  <2>6. Kept /\ session' \in [Wsi -> Session]
    BY <2>2, <2>4, <2>5 DEF Kept
  <2>7. writable' = writable \cup {w}
    BY <2>1 DEF w
  <2>8. Sessions' /\ Registered' /\ NotifySafe'
    BY <1>3, <1>wsi, <1>live, <2>1, <2>2, <2>6, <2>7, KeptInv DEF CallCallback, NotifySafe
  <2>9. TypeOK'
    BY <1>3, <2>1, <2>2, <2>6, <2>7 DEF CallCallback
  <2>10. Handler' /\ NotifyLocked'
    BY <1>3, <2>1, <2>6 DEF CallCallback, Handler, NotifyLocked, Kept
  <2> QED
    BY <2>8, <2>9, <2>10
<1>4. CASE NotifyUnlock(t)
  <2>1. Kept
    BY <1>4 DEF NotifyUnlock, Kept
  <2>2. Sessions' /\ Registered' /\ NotifySafe'
    BY <1>4, <1>wsi, <1>live, <2>1, KeptInv DEF NotifyUnlock
  <2>3. TypeOK'
    BY <1>4 DEF NotifyUnlock
  <2>4. Handler' /\ NotifyLocked'
    BY <1>4 DEF NotifyUnlock, Handler, NotifyLocked
  <2> QED
    BY <2>2, <2>3, <2>4
<1>5. CASE SilentChange
  <2>1. Kept
    BY <1>5 DEF SilentChange, Kept
  <2>2. Sessions' /\ Registered' /\ NotifySafe'
    BY <1>5, <1>wsi, <1>live, <2>1, KeptInv DEF SilentChange, NotifySafe
  <2>3. TypeOK'
    BY <1>5 DEF SilentChange
  <2>4. Handler' /\ NotifyLocked'
    BY <1>5 DEF SilentChange, Handler, NotifyLocked
  <2> QED
    BY <2>2, <2>3, <2>4
<1> QED
  BY <1>1, <1>2, <1>3, <1>4, <1>5 DEF NotifyStep

\* Requests that arrive keep it: a poll takes a free connection and a free callback id.
LEMMA OpenManagerInv ==
  ASSUME ManagerInv,
         \/ \E p \in Pages \cup {None} : RegisterUpdates(p)
         \/ \E p \in Pages : GetDevices(p)
         \/ PostUpdate
  PROVE  ManagerInv'
<1> USE LongPollAssumption DEF ManagerInv, TypeOK
<1> DEFINE w == FreeWsi
<1>1. /\ Idle /\ w \in Wsi /\ session[w].stage = "closed"
      /\ session[w] = Closed /\ w \notin writable /\ session[w].path = "none"
      /\ \A i \in Ids : callbacks[i] # w
  <2>1. Idle /\ w \in Wsi /\ session[w].stage = "closed"
    BY FreeWsiClosed DEF RegisterUpdates, GetDevices, PostUpdate
  <2>2. session[w] = Closed /\ w \notin writable
    BY <2>1 DEF Sessions
  <2> QED
    BY <2>1, <2>2, ClosedSession DEF Registered
<1> HIDE DEF w
<1>2. ASSUME NEW p \in Pages \cup {None}, RegisterUpdates(p) PROVE ManagerInv'
  <2> DEFINE n == NextId
             s == [Open(p, "poll") EXCEPT !.id = n]
  <2>1. n \in Ids /\ n \in 0..MaxId /\ callbacks[n] = None
    BY <1>2, NextIdType DEF RegisterUpdates, Ids
  <2>2. /\ s \in Session /\ s.path = "poll" /\ s.page = p /\ s.id = n
        /\ s.stage = "open" /\ s.complete
    <3>1. Open(p, "poll") \in Session
      BY OpenSession
    <3>2. s.complete = Open(p, "poll").complete
      BY <3>1 DEF Session
    <3>3. Open(p, "poll").complete
      BY OpenSession
    <3> HIDE DEF n
    <3>4. s \in Session
      BY <2>1, <3>1, IdSession
    <3>5. s.path = "poll" /\ s.page = p /\ s.id = n /\ s.stage = "open"
      BY <3>1, OpenSession DEF Session
    <3> QED
      BY <3>2, <3>3, <3>4, <3>5
  <2>3. /\ session' = [session EXCEPT ![w] = s]
        /\ callbacks' = [i \in Ids |-> IF i = n THEN w ELSE callbacks[i]]
        /\ nextId' = n /\ mgrLock = None
        /\ page' = [q \in Pages |-> IF q = p THEN "wait" ELSE page[q]]
        /\ UNCHANGED <<up, mgrLock, pending, sceneVars, cur, at, writable, get, arrived,
                       shown, request, recent>>
    BY <1>2 DEF RegisterUpdates, w
  <2> HIDE DEF s, n
  <2>4. TypeOK'
    BY <1>1, <2>1, <2>2, <2>3 DEF sceneVars
  <2>5. pending = {}
    BY <2>3 DEF NotifyLocked
  <2>6. Sessions' /\ Registered'
    <3>1. /\ \A v \in Wsi \ {w} : session'[v] = session[v]
          /\ session'[w] = s
      BY <1>1, <2>3
    <3>2. Sessions'
      BY <1>1, <2>2, <2>3, <3>1 DEF Sessions
    <3>3. Registered'
      BY <1>1, <2>1, <2>2, <2>3, <3>1 DEF Registered
    <3> QED
      BY <3>2, <3>3
  <2>7. Handler' /\ NotifyLocked' /\ NotifySafe'
    BY <1>1, <2>3, <2>5 DEF Handler, NotifyLocked, NotifySafe, sceneVars, Idle
  <2> QED
    BY <2>4, <2>6, <2>7
<1>3. ASSUME NEW p \in Pages \cup {None}, NEW path \in {"get", "update"},
             session' = [session EXCEPT ![w] = Open(p, path)],
             path = "update" => p = None,
             UNCHANGED <<managerVars, upc, cur, at>>,
             writable' \subseteq writable \cup {w}
      PROVE  Sessions' /\ Registered' /\ NotifySafe' /\ Handler' /\ NotifyLocked'
             /\ session' \in [Wsi -> Session]
  <2> DEFINE s == Open(p, path)
  <2>1. /\ s \in Session /\ s.path = path /\ s.page = p /\ s.id = 0
        /\ s.stage = "open" /\ (path # "update" => s.complete)
    BY OpenSession
  <2> HIDE DEF s
  <2>2. /\ \A v \in Wsi \ {w} : session'[v] = session[v]
        /\ session'[w] = s /\ session' \in [Wsi -> Session]
    BY <1>1, <1>3, <2>1 DEF s
  <2>3. Sessions'
    BY <1>1, <1>3, <2>1, <2>2 DEF Sessions
  <2>4. Registered'
    BY <1>1, <1>3, <2>1, <2>2 DEF Registered, managerVars
  <2>5. NotifySafe'
    BY <1>1, <1>3, <2>1, <2>2 DEF NotifySafe, managerVars
  <2>6. Handler' /\ NotifyLocked'
    BY <1>1, <1>3 DEF Handler, NotifyLocked, managerVars, Idle
  <2> QED
    BY <2>2, <2>3, <2>4, <2>5, <2>6
<1>4. ASSUME NEW p \in Pages, GetDevices(p) PROVE ManagerInv'
  <2>1. /\ Sessions' /\ Registered' /\ NotifySafe' /\ Handler' /\ NotifyLocked'
        /\ session' \in [Wsi -> Session]
    BY <1>3, <1>4 DEF GetDevices, sceneVars, w
  <2>2. TypeOK'
    BY <1>1, <1>4, <2>1 DEF GetDevices, sceneVars, managerVars, w
  <2> QED
    BY <2>1, <2>2
<1>5. CASE PostUpdate
  <2>1. /\ Sessions' /\ Registered' /\ NotifySafe' /\ Handler' /\ NotifyLocked'
        /\ session' \in [Wsi -> Session]
    BY <1>3, <1>5 DEF PostUpdate, sceneVars, w
  <2>2. TypeOK'
    BY <1>1, <1>5, <2>1 DEF PostUpdate, sceneVars, managerVars, pageVars
  <2> QED
    BY <2>1, <2>2
<1> QED
  BY <1>2, <1>4, <1>5

\* Bodies, answers and timeouts keep it: they leave the requests as they are.
LEMMA WriteManagerInv ==
  ASSUME ManagerInv, NEW w \in Wsi, BodyCompletion(w) \/ Writeable(w) \/ Timeout(w)
  PROVE  ManagerInv'
<1> USE LongPollAssumption DEF ManagerInv, TypeOK
<1>live. \A v \in writable : session[v].stage # "closed"
  BY DEF Sessions
<1>idle. /\ pending \subseteq {i \in Ids : callbacks[i] # None}
         /\ session[w] \in Session /\ cur = None
  BY DEF NotifySafe, BodyCompletion, Writeable, WriteableGet, WriteableUpdate, WriteableBody,
     Timeout, Idle
<1>1. CASE BodyCompletion(w)
  <2> DEFINE s == [session[w] EXCEPT !.complete = TRUE]
  <2>1. session' = [session EXCEPT ![w] = s]
    BY <1>1 DEF BodyCompletion
  <2>2. s \in Session /\ s.complete
    BY <1>idle, CompleteSession
  <2>3. s.path = session[w].path /\ s.page = session[w].page /\ s.id = session[w].id
        /\ s.stage = session[w].stage
    BY <1>idle DEF Session
  <2> HIDE DEF s
  <2>4. Kept /\ session' \in [Wsi -> Session]
    <3>1. session[w].stage # "closed"
      BY <1>1 DEF BodyCompletion
    <3>2. session'[w] = s /\ \A v \in Wsi \ {w} : session'[v] = session[v]
      BY <2>1
    <3> QED
      BY <2>1, <2>2, <2>3, <3>1, <3>2 DEF Kept
  <2>5. Sessions' /\ Registered' /\ NotifySafe'
    BY <1>live, <1>idle, <1>1, <2>4, KeptInv DEF BodyCompletion, managerVars
  <2>6. TypeOK'
    BY <1>1, <2>4 DEF BodyCompletion, managerVars, sceneVars, pageVars
  <2>7. Handler' /\ NotifyLocked'
    BY <1>1, <1>idle DEF BodyCompletion, Handler, NotifyLocked, managerVars, sceneVars
  <2> QED
    BY <2>5, <2>6, <2>7
<1>2. CASE WriteableGet(w)
  <2>1. Kept
    BY <1>2 DEF WriteableGet, Kept
  <2>2. Sessions' /\ Registered' /\ NotifySafe'
    BY <1>live, <1>idle, <1>2, <2>1, KeptInv DEF WriteableGet, managerVars
  <2>3. TypeOK'
    BY <1>2 DEF WriteableGet, managerVars, sceneVars, pageVars
  <2>4. Handler' /\ NotifyLocked'
    BY <1>live, <1>idle, <1>2 DEF WriteableGet, Handler, NotifyLocked, managerVars, sceneVars
  <2> QED
    BY <2>2, <2>3, <2>4
<1>3. CASE WriteableUpdate(w)
  <2> DEFINE s == [session[w] EXCEPT !.stage = "called"]
  <2>1. session' = [session EXCEPT ![w] = s]
    BY <1>3 DEF WriteableUpdate
  <2>2. /\ s \in Session
        /\ s.path = session[w].path /\ s.page = session[w].page /\ s.id = session[w].id
        /\ s.complete = session[w].complete /\ s.stage = "called"
    BY <1>idle DEF Session
  <2> HIDE DEF s
  <2>3. Kept /\ session' \in [Wsi -> Session] /\ session'[w].stage # "closed"
    BY <1>3, <2>1, <2>2 DEF Kept, WriteableUpdate
  <2>4. Sessions' /\ Registered' /\ NotifySafe'
    BY <1>live, <1>idle, <1>3, <2>3, KeptInv DEF WriteableUpdate, managerVars
  <2>5. TypeOK'
    BY <1>3, <2>3 DEF WriteableUpdate, Apply, Threads, managerVars, sceneVars, pageVars
  <2>6. Handler'
    BY <1>3, <1>idle, <2>3 DEF WriteableUpdate, Apply, Handler, Threads, sceneVars
  <2>7. NotifyLocked'
    BY <1>3 DEF WriteableUpdate, NotifyLocked, managerVars
  <2> QED
    BY <2>4, <2>5, <2>6, <2>7
<1>4. ASSUME Idle, session[w].stage # "closed",
             NEW what \in Nat \cup {-1}, Arrive(session[w], what),
             writable' \in {writable, writable \ {w}},
             cur' = w, at' = "close", recent' \in [Pages -> BOOLEAN],
             UNCHANGED <<up, managerVars, sceneVars, session, page, get, shown, request>>
      PROVE  ManagerInv'
  <2>1. Kept
    BY <1>4 DEF Kept
  <2>2. Sessions' /\ Registered' /\ NotifySafe'
    BY <1>live, <1>idle, <1>4, <2>1, KeptInv DEF managerVars
  <2>3. arrived' \in [Pages -> SUBSET Responses]
    <3>1. ASSUME NEW p \in Pages, p = session[w].page
          PROVE  <<session[w].path, what>> \in Responses
      BY <1>4, <3>1 DEF Sessions, Responses
    <3> QED
      BY <1>4, <3>1 DEF Arrive
  <2>4. TypeOK'
    BY <1>4, <2>3 DEF managerVars, sceneVars
  <2>5. Handler' /\ NotifyLocked'
    BY <1>idle, <1>4 DEF Handler, NotifyLocked, managerVars, sceneVars
  <2> QED
    BY <2>2, <2>4, <2>5
<1>5. CASE WriteableBody(w)
  <2>1. session[w].response \in Nat
    BY <1>idle DEF Session
  <2> QED
    BY <1>4, <1>5, <2>1 DEF WriteableBody
<1>6. CASE Timeout(w)
  <2>1. recent' \in [Pages -> BOOLEAN]
    BY <1>6, Zenon DEF Timeout
  <2> QED
    BY <1>4, <1>6, <2>1 DEF Timeout
<1> QED
  BY <1>1, <1>2, <1>3, <1>5, <1>6 DEF Writeable

\* The handlers keep it: a closed session has given back its callback before its memory,
\* and waits for the manager's lock to do so.
LEMMA HandlerManagerInv ==
  ASSUME ManagerInv, HandlerStep
  PROVE  ManagerInv'
<1> USE LongPollAssumption DEF ManagerInv, TypeOK
<1>0. /\ \A v \in writable : session[v].stage # "closed"
      /\ pending \subseteq {i \in Ids : callbacks[i] # None}
      /\ cur \in Wsi /\ session[cur] \in Session /\ session[cur].stage # "closed"
  BY DEF Sessions, NotifySafe, Handler, HandlerStep, ReadModels, SendHeader, ClosedHttp
<1>1. CASE ReadModels
  <2> DEFINE s == [session[cur] EXCEPT !.response = scene]
  <2>1. session' = [session EXCEPT ![cur] = s]
    BY <1>1 DEF ReadModels
  <2>2. /\ s \in Session
        /\ s.path = session[cur].path /\ s.page = session[cur].page
        /\ s.id = session[cur].id /\ s.complete = session[cur].complete
        /\ s.stage = session[cur].stage
    BY <1>0 DEF Session
  <2> HIDE DEF s
  <2>3. Kept /\ session' \in [Wsi -> Session]
    BY <1>0, <2>1, <2>2 DEF Kept
  <2>4. Sessions' /\ Registered' /\ NotifySafe'
    BY <1>0, <1>1, <2>3, KeptInv DEF ReadModels, managerVars
  <2>5. TypeOK'
    BY <1>1, <2>3 DEF ReadModels, managerVars, sceneVars, pageVars
  <2>6. Handler' /\ NotifyLocked'
    BY <1>0, <1>1, <2>3 DEF ReadModels, Handler, NotifyLocked, Kept, managerVars, sceneVars
  <2> QED
    BY <2>4, <2>5, <2>6
<1>2. CASE SendHeader
  <2> DEFINE s == [session[cur] EXCEPT !.stage = "header"]
  <2>1. session' = [session EXCEPT ![cur] = s]
    BY <1>2 DEF SendHeader
  <2>2. /\ s \in Session
        /\ s.path = session[cur].path /\ s.page = session[cur].page
        /\ s.id = session[cur].id /\ s.complete = session[cur].complete
        /\ s.stage = "header"
    BY <1>0 DEF Session
  <2> HIDE DEF s
  <2>3. Kept /\ session' \in [Wsi -> Session]
    BY <1>0, <2>1, <2>2 DEF Kept
  <2>4. Sessions' /\ Registered' /\ NotifySafe'
    BY <1>0, <1>2, <2>3, KeptInv DEF SendHeader, managerVars
  <2>5. TypeOK'
    BY <1>0, <1>2, <2>3 DEF SendHeader, managerVars, sceneVars, pageVars
  <2>6. Handler' /\ NotifyLocked'
    BY <1>2 DEF SendHeader, Handler, NotifyLocked, managerVars, sceneVars
  <2> QED
    BY <2>4, <2>5, <2>6
<1>3. CASE ClosedHttp
  <2>1. /\ session' \in [Wsi -> Session] /\ session'[cur] = Closed
        /\ \A v \in Wsi \ {cur} : session'[v] = session[v]
    BY <1>0, <1>3, ClosedSession DEF ClosedHttp
  <2>2. /\ callbacks' \in [Ids -> Wsi \cup {None}]
        /\ \A i \in Ids : callbacks'[i] = IF i = session[cur].id THEN None ELSE callbacks[i]
    BY <1>3 DEF ClosedHttp
  <2>3. TypeOK'
    BY <1>3, <2>1, <2>2 DEF ClosedHttp, managerVars, sceneVars, pageVars
  <2>4. Sessions'
    BY <1>0, <1>3, <2>1, ClosedSession DEF ClosedHttp, Sessions
  <2>5. \A i \in Ids : callbacks'[i] # None =>
            callbacks'[i] = callbacks[i] /\ callbacks[i] \in Wsi \ {cur}
    BY <1>0, <2>2 DEF Registered
  <2>6. Registered'
    <3>1. ASSUME NEW v \in Wsi \ {cur}, session[v].path = "poll"
          PROVE  session[v].id # session[cur].id
      <4>1. session[v].id \in Ids /\ callbacks[session[v].id] = v
        BY <3>1 DEF Registered
      <4>2. CASE session[cur].path = "poll"
        BY <1>0, <4>1, <4>2 DEF Registered
      <4>3. CASE session[cur].path # "poll"
        <5>1. session[cur].id = 0
          BY <1>0, <4>3 DEF Sessions
        <5> QED
          BY <4>1, <5>1 DEF Ids
      <4> QED
        BY <4>2, <4>3
    <3> QED
      BY <1>0, <2>1, <2>2, <2>5, <3>1, ClosedSession DEF Registered
  <2>7. NotifySafe'
    <3>1. CASE session[cur].id > 0
      BY <1>3, <3>1 DEF ClosedHttp, NotifyLocked, NotifySafe
    <3>2. CASE session[cur].id = 0
      <4>1. callbacks' = callbacks
        BY <2>2, <3>2 DEF Ids
      <4> QED
        BY <1>3, <2>1, <2>5, <4>1 DEF ClosedHttp, NotifySafe
    <3> QED
      BY <1>0, <3>1, <3>2 DEF Session
  <2>8. Handler' /\ NotifyLocked'
    BY <1>3 DEF ClosedHttp, Handler, NotifyLocked, sceneVars
  <2> QED
    BY <2>3, <2>4, <2>6, <2>7, <2>8
<1> QED
  BY <1>1, <1>2, <1>3 DEF HandlerStep

\* The end of the daemon leaves nothing registered.
LEMMA DaemonEndsManagerInv ==
  ASSUME ManagerInv, DaemonEnds
  PROVE  ManagerInv'
<1> USE LongPollAssumption DEF ManagerInv, TypeOK
<1>1. /\ \A w \in Wsi : session'[w] = Closed
      /\ session' \in [Wsi -> Session] /\ callbacks' = [i \in Ids |-> None]
      /\ pending' = {} /\ cur' = None /\ at' = "service" /\ writable' = {}
      /\ upc' = [t \in Threads |-> "idle"]
  BY ClosedSession DEF DaemonEnds
<1>2. arrived' \in [Pages -> SUBSET Responses]
  <2>1. ASSUME NEW p \in Pages PROVE arrived'[p] \subseteq Responses
    <3>1. ASSUME NEW r \in arrived'[p], r \notin arrived[p] PROVE r \in Responses
      <4>1. PICK v \in Wsi : session[v].page = p /\ r = <<session[v].path, -1>>
        BY <3>1, SMT DEF DaemonEnds
      <4> QED
        BY <4>1 DEF Sessions, Responses
    <3> QED
      BY <3>1
  <2> QED
    BY <2>1 DEF DaemonEnds
<1>3. TypeOK'
  BY <1>1, <1>2 DEF DaemonEnds, Threads
<1>4. Sessions' /\ Registered' /\ NotifySafe'
  BY <1>1, ClosedSession DEF Sessions, Registered, NotifySafe
<1>5. Handler' /\ NotifyLocked'
  BY <1>1 DEF Handler, NotifyLocked, Threads
<1> QED
  BY <1>3, <1>4, <1>5

\* The pages do not touch it.
LEMMA PageManagerInv ==
  ASSUME ManagerInv, NEW p \in Pages, Refused(p) \/ PollReturns(p) \/ GetReturns(p)
  PROVE  ManagerInv'
<1> USE LongPollAssumption DEF ManagerInv, TypeOK
<1>1. UNCHANGED <<managerVars, sceneVars, sessionVars>>
  BY DEF Refused, PollReturns, GetReturns
<1>2. Kept
  BY <1>1 DEF Kept, sessionVars
<1>3. Sessions' /\ Registered' /\ NotifySafe' /\ Handler' /\ NotifyLocked'
  BY <1>1, <1>2 DEF managerVars, sessionVars, sceneVars, Sessions, Registered, NotifySafe,
     Handler, NotifyLocked
<1>4. TypeOK'
  <2>1. CASE Refused(p)
    <3>1. <<"poll", -1>> \in Responses
      BY DEF Responses
    <3> QED
      BY <1>1, <2>1, <3>1 DEF Refused, managerVars, sceneVars, sessionVars
  <2>2. \A r \in arrived[p] : r[2] # -1 => r[2] \in Nat
    BY DEF Responses
  <2>3. CASE PollReturns(p)
    <3>1. PICK r \in arrived[p] :
            /\ arrived' = [arrived EXCEPT ![p] = @ \ {r}]
            /\ shown' = IF r[2] = -1 THEN shown ELSE [shown EXCEPT ![p] = r[2]]
            /\ CountFailures(p, IF r[2] = -1 THEN request[p] + 1 ELSE request[p])
      BY <2>3 DEF PollReturns
    <3>2. shown' \in [Pages -> Nat] /\ arrived' \in [Pages -> SUBSET Responses]
      BY <2>2, <3>1
    <3>3. page' \in [Pages -> {"fetch", "wait", "alerted"}] /\ request' \in [Pages -> 0..3]
      BY <3>1 DEF CountFailures
    <3>4. recent' \in [Pages -> BOOLEAN]
      BY <3>1, Zenon DEF CountFailures
    <3> QED
      BY <1>1, <2>3, <3>2, <3>3, <3>4 DEF PollReturns, managerVars, sceneVars, sessionVars
  <2>4. CASE GetReturns(p)
    BY <1>1, <2>2, <2>4 DEF GetReturns, managerVars, sceneVars, sessionVars
  <2> QED
    BY <2>1, <2>3, <2>4
<1> QED
  BY <1>3, <1>4

\* Every step keeps the manager's invariant.
LEMMA NextManagerInv ==
  ASSUME ManagerInv, [Next]_vars
  PROVE  ManagerInv'
<1>1. CASE UNCHANGED vars
  BY <1>1 DEF ManagerInv, TypeOK, Sessions, Handler, NotifyLocked, Registered, NotifySafe,
     vars, managerVars, sceneVars, sessionVars, pageVars
<1>2. CASE Next
  BY <1>2, NotifyManagerInv, OpenManagerInv, WriteManagerInv, HandlerManagerInv,
     DaemonEndsManagerInv, PageManagerInv DEF Next, Threads
<1> QED
  BY <1>1, <1>2

-----------------------------------------------------------------------------
(* Why sessions are answered *)

\* Every step keeps the reasons: a session becomes writable when its body is there or its
\* poll is notified, and the service thread reads the scene after that.
LEMMA NextReasonInv ==
  ASSUME ManagerInv, ReasonInv, [Next]_vars
  PROVE  ReasonInv'
<1> USE LongPollAssumption
    DEF ManagerInv, ReasonInv, TypeOK, managerVars, sceneVars, sessionVars, pageVars
<1>0. \A v \in Wsi : session[v] \in Session /\ session[v].noticed \in Nat
                     /\ session[v].response \in Nat
  BY DEF Session
<1>1. ASSUME UNCHANGED <<scene, upc, cur, at, session, writable>>
      PROVE  ReasonInv'
  BY <1>1 DEF NoticedScene, WritableForReason, AnswerForReason, AnsweredForReason
<1>2. ASSUME UNCHANGED <<cur, at, session, writable>>, scene' = scene + 1
      PROVE  ReasonInv'
  BY <1>0, <1>2 DEF NoticedScene, WritableForReason, AnswerForReason, AnsweredForReason
<1>3. ASSUME NEW t \in Threads, CallCallback(t)
      PROVE  ReasonInv'
  <2>1. PICK i \in pending :
          /\ writable' = writable \cup {callbacks[i]}
          /\ session' = [session EXCEPT ![callbacks[i]].noticed =
                                           IF @ = 0 THEN scene ELSE @]
    BY <1>3 DEF CallCallback
  <2> DEFINE w == callbacks[i]
             n == IF session[w].noticed = 0 THEN scene ELSE session[w].noticed
             s == [session[w] EXCEPT !.noticed = n]
  <2>2. /\ w \in Wsi /\ session[w].path = "poll" /\ session[w].complete
        /\ n \in Nat \ {0} /\ n <= scene
        /\ session[w].noticed # 0 => n = session[w].noticed
    BY <1>0, <1>3 DEF NotifySafe, Registered, Sessions, NoticedScene, CallCallback
  <2>3. session' = [session EXCEPT ![w] = s]
    BY <2>1
  <2> HIDE DEF w, n
  <2>4. /\ s \in Session /\ s.path = "poll" /\ s.complete = session[w].complete
        /\ s.stage = session[w].stage /\ s.response = session[w].response /\ s.noticed = n
    BY <1>0, <2>2 DEF Session
  <2> HIDE DEF s
  <2>done. s.complete
    BY <2>2, <2>4
  <2>5. /\ session'[w] = s /\ \A v \in Wsi \ {w} : session'[v] = session[v]
        /\ writable' = writable \cup {w}
        /\ UNCHANGED <<scene, upc, cur, at>>
    BY <1>3, <2>1, <2>2, <2>3 DEF CallCallback, w
  <2>6. NoticedScene'
    BY <2>2, <2>4, <2>done, <2>5 DEF NoticedScene
  <2>7. WritableForReason'
    BY <2>2, <2>4, <2>done, <2>5 DEF WritableForReason
  <2>8. AnswerForReason'
    BY <2>2, <2>4, <2>done, <2>5 DEF AnswerForReason, Handler
  <2>9. AnsweredForReason'
    BY <2>2, <2>4, <2>done, <2>5 DEF AnsweredForReason
  <2> QED
    BY <2>6, <2>7, <2>8, <2>9
<1>4. ASSUME NEW t \in Threads, NotifyUnlock(t)
      PROVE  ReasonInv'
  BY <1>0, <1>4 DEF NotifyUnlock, Handler, NoticedScene, WritableForReason, AnswerForReason,
     AnsweredForReason
<1>5. ASSUME CanOpen, NEW s \in Session, s.stage = "open", s.noticed = 0,
             session' = [session EXCEPT ![FreeWsi] = s],
             writable' \subseteq writable \cup {FreeWsi},
             FreeWsi \in writable' => s.complete /\ s.path # "poll",
             UNCHANGED <<scene, upc, cur, at>>
      PROVE  ReasonInv'
  <2> DEFINE w == FreeWsi
  <2>1. w \in Wsi /\ Idle /\ at = "service"
    BY <1>5, FreeWsiClosed DEF Handler, Idle
  <2> HIDE DEF w
  <2>2. session'[w] = s /\ \A v \in Wsi \ {w} : session'[v] = session[v]
    BY <1>5, <2>1 DEF w
  <2>3. NoticedScene' /\ WritableForReason'
    BY <1>0, <1>5, <2>1, <2>2 DEF w, NoticedScene, WritableForReason
  <2>4. AnswerForReason' /\ AnsweredForReason'
    BY <1>5, <2>1, <2>2 DEF AnswerForReason, AnsweredForReason
  <2> QED
    BY <2>3, <2>4
<1>6. ASSUME NEW p \in Pages \cup {None}, RegisterUpdates(p)
      PROVE  ReasonInv'
  <2> DEFINE o == Open(p, "poll")
             s == [o EXCEPT !.id = NextId]
  <2>1. NextId \in 0..MaxId
    BY NextIdType DEF Ids
  <2>2. o \in Session /\ o.stage = "open" /\ o.noticed = 0
    BY OpenSession
  <2> HIDE DEF o
  <2>3. s \in Session /\ s.stage = "open" /\ s.noticed = 0
    BY <2>1, <2>2 DEF Session
  <2>4. CanOpen /\ session' = [session EXCEPT ![FreeWsi] = s]
        /\ UNCHANGED <<writable, scene, upc, cur, at>>
    BY <1>6 DEF RegisterUpdates, o
  <2>5. FreeWsi \notin writable'
    BY <2>4, FreeWsiClosed DEF Sessions
  <2> HIDE DEF s
  <2> QED
    BY <1>5, <2>3, <2>4, <2>5
<1>7. ASSUME NEW p \in Pages, GetDevices(p)
      PROVE  ReasonInv'
  <2>1. /\ Open(p, "get") \in Session /\ Open(p, "get").stage = "open"
        /\ Open(p, "get").noticed = 0 /\ Open(p, "get").path = "get"
        /\ Open(p, "get").complete
    BY OpenSession
  <2> QED
    BY <1>5, <1>7, <2>1 DEF GetDevices
<1>8. CASE PostUpdate
  <2>1. /\ Open(None, "update") \in Session /\ Open(None, "update").stage = "open"
        /\ Open(None, "update").noticed = 0
    BY OpenSession
  <2>2. FreeWsi \notin writable
    BY <1>8, FreeWsiClosed DEF Sessions, PostUpdate
  <2> QED
    BY <1>5, <1>8, <2>1, <2>2 DEF PostUpdate
<1>9. ASSUME NEW w \in Wsi, BodyCompletion(w)
      PROVE  ReasonInv'
  <2> DEFINE s == [session[w] EXCEPT !.complete = TRUE]
  <2>1. s \in Session /\ s.complete
    BY <1>0, CompleteSession
  <2>2. /\ s.path = session[w].path /\ s.stage = session[w].stage
        /\ s.noticed = session[w].noticed /\ s.response = session[w].response
    BY <1>0 DEF Session
  <2>3. session' = [session EXCEPT ![w] = s]
    BY <1>9 DEF BodyCompletion
  <2> HIDE DEF s
  <2>4. /\ session'[w] = s /\ \A v \in Wsi \ {w} : session'[v] = session[v]
        /\ writable' = writable \cup {w} /\ UNCHANGED <<scene, upc, cur, at>>
        /\ at = "service" /\ session[w].path # "poll" /\ session[w].stage = "open"
    BY <1>9, <2>3 DEF BodyCompletion, Handler, Idle, Sessions
  <2>5. NoticedScene' /\ WritableForReason'
    BY <2>1, <2>2, <2>4 DEF NoticedScene, WritableForReason
  <2>6. AnswerForReason' /\ AnsweredForReason'
    BY <2>2, <2>4 DEF AnswerForReason, AnsweredForReason
  <2> QED
    BY <2>5, <2>6
<1>10. ASSUME NEW w \in Wsi, WriteableGet(w)
       PROVE  ReasonInv'
  BY <1>10 DEF WriteableGet, NoticedScene, WritableForReason, AnswerForReason, AnsweredForReason
<1>11. ASSUME NEW w \in Wsi, WriteableUpdate(w)
       PROVE  ReasonInv'
  <2> DEFINE s == [session[w] EXCEPT !.stage = "called"]
  <2>1. /\ s.path = session[w].path /\ s.complete = session[w].complete
        /\ s.noticed = session[w].noticed /\ s.stage = "called"
    BY <1>0 DEF Session
  <2>2. session' = [session EXCEPT ![w] = s]
    BY <1>11 DEF WriteableUpdate
  <2> HIDE DEF s
  <2>3. /\ session'[w] = s /\ \A v \in Wsi \ {w} : session'[v] = session[v]
        /\ writable' = writable \ {w} /\ cur' = w /\ at' \in {"update", "header"}
        /\ session[w].path = "update" /\ session[w].complete
    BY <1>11, <2>2 DEF WriteableUpdate, WritableForReason
  <2>4. NoticedScene'
    BY <1>0, <1>11, <2>1, <2>3 DEF WriteableUpdate, Apply, Threads, NoticedScene
  <2>5. WritableForReason'
    BY <2>3 DEF WritableForReason
  <2>6. AnswerForReason' /\ AnsweredForReason'
    <3>1. s.complete
      BY <2>1, <2>3
    <3> QED
      BY <2>1, <2>3, <3>1 DEF AnswerForReason, AnsweredForReason
  <2> QED
    BY <2>4, <2>5, <2>6
<1>12. ASSUME NEW w \in Wsi, WriteableBody(w) \/ Timeout(w)
       PROVE  ReasonInv'
  BY <1>12 DEF WriteableBody, Timeout, NoticedScene, WritableForReason, AnswerForReason,
     AnsweredForReason
<1>13. CASE ReadModels
  <2> DEFINE s == [session[cur] EXCEPT !.response = scene]
  <2>1. cur \in Wsi
    BY <1>13 DEF ReadModels, Handler
  <2>2. /\ s.path = session[cur].path /\ s.complete = session[cur].complete
        /\ s.noticed = session[cur].noticed /\ s.stage = session[cur].stage
        /\ s.response = scene
    BY <1>0, <2>1 DEF Session
  <2>3. session' = [session EXCEPT ![cur] = s]
    BY <1>13 DEF ReadModels
  <2> HIDE DEF s
  <2>4. /\ session'[cur] = s /\ \A v \in Wsi \ {cur} : session'[v] = session[v]
        /\ at = "read" /\ at' = "header" /\ UNCHANGED <<scene, upc, cur, writable>>
    BY <1>13, <2>1, <2>3 DEF ReadModels
  <2>5. NoticedScene' /\ WritableForReason'
    BY <2>2, <2>4 DEF NoticedScene, WritableForReason
  <2>6. AnswerForReason' /\ AnsweredForReason'
    BY <1>0, <2>1, <2>2, <2>4 DEF AnswerForReason, AnsweredForReason, NoticedScene
  <2> QED
    BY <2>5, <2>6
<1>14. CASE SendHeader
  <2> DEFINE s == [session[cur] EXCEPT !.stage = "header"]
  <2>1. cur \in Wsi
    BY <1>14 DEF SendHeader, Handler
  <2>2. /\ s.path = session[cur].path /\ s.complete = session[cur].complete
        /\ s.noticed = session[cur].noticed /\ s.stage = "header"
        /\ s.response = session[cur].response
    BY <1>0, <2>1 DEF Session
  <2>3. session' = [session EXCEPT ![cur] = s]
    BY <1>14 DEF SendHeader
  <2> HIDE DEF s
  <2>4. /\ session'[cur] = s /\ \A v \in Wsi \ {cur} : session'[v] = session[v]
        /\ at = "header" /\ at' = "service" /\ writable' = writable \cup {cur}
        /\ UNCHANGED <<scene, upc>>
    BY <1>14, <2>1, <2>3 DEF SendHeader
  <2>5. NoticedScene' /\ WritableForReason'
    BY <2>2, <2>4 DEF NoticedScene, WritableForReason
  <2>6. AnswerForReason' /\ AnsweredForReason'
    BY <2>1, <2>2, <2>4 DEF AnswerForReason, AnsweredForReason
  <2> QED
    BY <2>5, <2>6
<1>15. CASE ClosedHttp
  <2>1. cur \in Wsi
    BY <1>15 DEF ClosedHttp, Handler
  <2>2. /\ session'[cur] = Closed /\ \A v \in Wsi \ {cur} : session'[v] = session[v]
        /\ at' = "service" /\ writable' = writable \ {cur} /\ UNCHANGED <<scene, upc>>
    BY <1>15, <2>1 DEF ClosedHttp
  <2> QED
    BY <1>0, <2>2, ClosedSession
    DEF NoticedScene, WritableForReason, AnswerForReason, AnsweredForReason
<1>16. CASE DaemonEnds
  <2>1. /\ \A v \in Wsi : session'[v] = Closed
        /\ at' = "service" /\ writable' = {} /\ UNCHANGED scene
        /\ upc' = [t \in Threads |-> "idle"]
    BY <1>16 DEF DaemonEnds
  <2> QED
    BY <2>1, ClosedSession
    DEF NoticedScene, WritableForReason, AnswerForReason, AnsweredForReason
<1>17. ASSUME NEW t \in Threads, UpdateDevice(t) \/ NotifyLock(t)
       PROVE  ReasonInv'
  <2>1. CASE UpdateDevice(t)
    <3>1. UNCHANGED <<cur, at, session, writable>> /\ scene' = scene + 1
      BY <2>1 DEF UpdateDevice, Apply
    <3> QED
      BY <1>2, <3>1
  <2>2. CASE NotifyLock(t)
    BY <2>2 DEF NotifyLock, NoticedScene, WritableForReason, AnswerForReason, AnsweredForReason
  <2> QED
    BY <1>17, <2>1, <2>2
<1>18. CASE SilentChange
  BY <1>2, <1>18 DEF SilentChange
<1>19. ASSUME NEW p \in Pages, Refused(p) \/ PollReturns(p) \/ GetReturns(p)
       PROVE  ReasonInv'
  BY <1>1, <1>19 DEF Refused, PollReturns, GetReturns
<1>20. CASE UNCHANGED vars
  BY <1>1, <1>20 DEF vars
<1> QED
  BY <1>3, <1>4, <1>6, <1>7, <1>8, <1>9, <1>10, <1>11, <1>12, <1>13, <1>14, <1>15, <1>16,
     <1>17, <1>18, <1>19, <1>20
  DEF Next, NotifyStep, HandlerStep, Writeable, Threads

-----------------------------------------------------------------------------
(* When pages give up *)

\* Every step keeps the pages' invariant: a page that has seen a poll fail while the
\* daemon runs has seen a timeout, and forgets both together.
LEMMA NextPageInv ==
  ASSUME ManagerInv, PageInv, [Next]_vars
  PROVE  PageInv'
<1> USE LongPollAssumption
    DEF ManagerInv, PageInv, TypeOK, managerVars, sceneVars, sessionVars, pageVars
<1>1. ASSUME UNCHANGED <<page, arrived, request, recent>>, up' \in BOOLEAN, up' => up
      PROVE  PageInv'
  BY <1>1 DEF FailuresLate, AlertedOnlyWhenDown
<1>2. ASSUME NEW p \in Pages \cup {None}, RegisterUpdates(p)
      PROVE  PageInv'
  BY <1>2 DEF RegisterUpdates, FailuresLate, AlertedOnlyWhenDown
<1>3. ASSUME NEW w \in Wsi, WriteableBody(w)
      PROVE  PageInv'
  <2>1. session[w].response \in Nat
    BY DEF Session
  <2>2. \A p \in Pages : <<"poll", -1>> \in arrived'[p] => <<"poll", -1>> \in arrived[p]
    BY <1>3, <2>1 DEF WriteableBody, Arrive
  <2> QED
    BY <1>3, <2>2 DEF WriteableBody, FailuresLate, AlertedOnlyWhenDown
<1>4. ASSUME NEW w \in Wsi, Timeout(w)
      PROVE  PageInv'
  <2>1. \A p \in Pages : recent'[p] => recent[p] /\ arrived'[p] = arrived[p]
    BY <1>4 DEF Timeout, Arrive
  <2> QED
    BY <1>4, <2>1 DEF Timeout, FailuresLate, AlertedOnlyWhenDown
<1>5. CASE DaemonEnds
  BY <1>5 DEF DaemonEnds, FailuresLate, AlertedOnlyWhenDown
<1>6. ASSUME NEW p \in Pages, Refused(p)
      PROVE  PageInv'
  BY <1>6 DEF Refused, FailuresLate, AlertedOnlyWhenDown
<1>7. ASSUME NEW p \in Pages, PollReturns(p)
      PROVE  PageInv'
  <2>1. PICK r \in arrived[p] :
          /\ r[1] = "poll"
          /\ arrived' = [arrived EXCEPT ![p] = @ \ {r}]
          /\ CountFailures(p, IF r[2] = -1 THEN request[p] + 1 ELSE request[p])
    BY <1>7 DEF PollReturns
  <2> DEFINE f == IF r[2] = -1 THEN request[p] + 1 ELSE request[p]
  <2>2. r[2] = -1 => r = <<"poll", -1>>
    BY <2>1 DEF Responses
  <2>3. /\ \A q \in Pages : arrived'[q] \subseteq arrived[q]
        /\ r \notin arrived'[p]
        /\ f \in 0..3
        /\ up /\ recent[p] => f = 0
        /\ f = 3 => r = <<"poll", -1>>
        /\ up' = up
    BY <1>7, <2>1, <2>2 DEF FailuresLate, PollReturns
  <2>4. CountFailures(p, f)
    BY <2>1
  <2> HIDE DEF f
  <2>5. FailuresLate'
    BY <2>3, <2>4 DEF FailuresLate, CountFailures
  <2>6. AlertedOnlyWhenDown'
    BY <2>3, <2>4 DEF AlertedOnlyWhenDown, CountFailures
  <2> QED
    BY <2>5, <2>6
<1>8. ASSUME NEW p \in Pages, GetReturns(p)
      PROVE  PageInv'
  BY <1>8 DEF GetReturns, FailuresLate, AlertedOnlyWhenDown
<1>9. ASSUME NEW t \in Threads, UpdateDevice(t) \/ NotifyStep(t)
      PROVE  PageInv'
  BY <1>1, <1>9 DEF UpdateDevice, NotifyStep, NotifyLock, CallCallback, NotifyUnlock
<1>10. CASE SilentChange \/ PostUpdate \/ HandlerStep
  BY <1>1, <1>10 DEF SilentChange, PostUpdate, HandlerStep, ReadModels, SendHeader, ClosedHttp
<1>11. ASSUME NEW p \in Pages, GetDevices(p)
       PROVE  PageInv'
  BY <1>1, <1>11 DEF GetDevices
<1>12. ASSUME NEW w \in Wsi, BodyCompletion(w) \/ WriteableGet(w) \/ WriteableUpdate(w)
       PROVE  PageInv'
  BY <1>1, <1>12 DEF BodyCompletion, WriteableGet, WriteableUpdate
<1>13. CASE UNCHANGED vars
  BY <1>1, <1>13 DEF vars
<1> QED
  BY <1>2, <1>3, <1>4, <1>5, <1>6, <1>7, <1>8, <1>9, <1>10, <1>11, <1>12, <1>13
  DEF Next, Writeable, Threads

-----------------------------------------------------------------------------
(* The theorems *)

\* The invariant holds at the start.
LEMMA InitIndInv == Init => IndInv
<1> SUFFICES ASSUME Init PROVE IndInv
  OBVIOUS
<1>1. \A w \in Wsi : session[w] = Closed
  BY DEF Init
<1>2. TypeOK
  BY LongPollAssumption, ClosedSession DEF Init, TypeOK, Threads, Ids
<1>3. Sessions /\ Handler /\ NotifyLocked /\ Registered /\ NotifySafe
  BY <1>1, ClosedSession, LongPollAssumption
  DEF Init, Sessions, Handler, NotifyLocked, Registered, NotifySafe, Threads
<1>4. NoticedScene /\ WritableForReason /\ AnswerForReason /\ AnsweredForReason
  BY <1>1, ClosedSession
  DEF Init, NoticedScene, WritableForReason, AnswerForReason, AnsweredForReason
<1>5. FailuresLate /\ AlertedOnlyWhenDown
  BY DEF Init, FailuresLate, AlertedOnlyWhenDown
<1> QED
  BY <1>2, <1>3, <1>4, <1>5 DEF IndInv, ManagerInv, ReasonInv, PageInv

\* The invariant of the notify manager, the sessions and the pages.
THEOREM Invariant == Spec => []IndInv
<1>1. IndInv /\ [Next]_vars => IndInv'
  BY NextManagerInv, NextReasonInv, NextPageInv DEF IndInv
<1> QED
  BY InitIndInv, <1>1, PTL DEF Spec

\* The type invariant: also when ids wrap, registered_callback_id is one of unsigned int.
THEOREM TypeCorrect == Spec => []TypeOK
<1>1. IndInv => TypeOK
  BY DEF IndInv, ManagerInv
<1> QED
  BY Invariant, <1>1, PTL

\* The callbacks of DeviceNotifyManager are exactly those of the open long polls, each
\* under the id its session keeps.
THEOREM CallbacksRegistered == Spec => []Registered
<1>1. IndInv => Registered
  BY DEF IndInv, ManagerInv
<1> QED
  BY Invariant, <1>1, PTL

\* Notify never calls a callback whose connection has been closed.
THEOREM NotifyIsSafe == Spec => []NotifySafe
<1>1. IndInv => NotifySafe
  BY DEF IndInv, ManagerInv
<1> QED
  BY Invariant, <1>1, PTL

\* A long poll is answered because it was notified, with a scene at least as new as the
\* change; a POST once its body is there.
THEOREM PollsAnsweredForReason == Spec => []AnsweredForReason
<1>1. IndInv => AnsweredForReason
  BY DEF IndInv, ReasonInv
<1> QED
  BY Invariant, <1>1, PTL

\* A page stops polling only after the daemon has ended, however many polls time out.
THEOREM PagesGiveUpOnlyWhenDown == Spec => []AlertedOnlyWhenDown
<1>1. IndInv => AlertedOnlyWhenDown
  BY DEF IndInv, PageInv
<1> QED
  BY Invariant, <1>1, PTL
=============================================================================
